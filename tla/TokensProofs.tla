---------------------------- MODULE TokensProofs ----------------------------
(***************************************************************************)
(* Proofs about Tokens, for any number of workers, secrets, rows and       *)
(* requests: the unique indexes, that a personal token ends what was       *)
(* before it, that downloads agree on the config key while there is one    *)
(* secret, and that every key handed out is a stored one.                  *)
(***************************************************************************)
EXTENDS Tokens, FiniteSetTheorems, WellFoundedInduction, TLAPS

-----------------------------------------------------------------------------
(* The inductive invariant.                                                *)

\* The types of all variables.
Typed ==
    /\ rows \in Seq(Rows)
    /\ links \subseteq DOMAIN rows
    /\ admin \in BOOLEAN
    /\ secret \in [Workers -> DOMAIN Secrets]
    /\ req \in [Workers -> Request]
    /\ locked \in Workers \cup {None}

\* At most one config key is live, and nothing older than a live personal token.
OneActive(rs) == \A i, j \in ActiveConfig(rs) : i = j
Superseded(rs) ==
    \A i \in DOMAIN rs : rs[i].live /\ rs[i].purpose = "personal" =>
        \A j \in 1..(i - 1) : ~rs[j].live
Sound(rs) == OneActive(rs) /\ Superseded(rs)

\* What the rows rs can be once they were ts: rows are only appended, marked
\* with the config purpose and revoked, and none is added without a purpose
\* under the name of the config key.
Follows(rs, ts) ==
    /\ Len(ts) <= Len(rs)
    /\ \A i \in DOMAIN ts :
          /\ rs[i].key = ts[i].key
          /\ IsConfig(rs[i]) <=> IsConfig(ts[i])
          /\ ts[i].purpose = "config" => rs[i].purpose = "config"
          /\ rs[i].live => ts[i].live
    /\ \A i \in DOMAIN rs : i > Len(ts) => rs[i].purpose # "named"

\* No live row that bears only the name is derived by the secret.
Taken(rs, s) ==
    \A i \in DOMAIN rs : rs[i].purpose = "named" /\ rs[i].live => ~Derives(rs, s, i)

Deciding == {"write", "mark", "replace"}
Retrying == {"reread", "mark", "replace"}
Holding == {"reveal", "widen", "set", "link"}

\* What a request has read still says something about the rows.
ReadOK(w) ==
    /\ req[w].pc \in Deciding => Follows(rows, req[w].snap)
    /\ req[w].pc \in Retrying => Taken(rows, SecretOf(w))
    /\ req[w].pc = "mark" =>
          Taken(req[w].snap, SecretOf(w)) /\ Reusable(req[w].snap, SecretOf(w)) # {}
    /\ req[w].pc \in Holding => req[w].token \in DOMAIN rows
    /\ req[w].pc = "widen" => req[w].raw = rows[req[w].token].key

\* A request that reveals a key ends by revealing it.
Paths ==
    \A w \in Workers :
        req[w].op \in Reveals => req[w].pc \in {"done", "active", "resolve", "reveal"}

Reads == \A w \in Workers : ReadOK(w)

Inv == Typed /\ Sound(rows) /\ Reads /\ Paths

-----------------------------------------------------------------------------
(* Sets of positions.                                                      *)

\* A non-empty set of natural numbers has a least element.
LEMMA Least ==
    ASSUME NEW S \in SUBSET Nat, S # {}
    PROVE  \E i \in S : \A j \in S : i <= j
<1> DEFINE R == OpToRel(<, Nat)
<1>1. IsWellFoundedOn(R, Nat)
  BY NatLessThanWellFounded, Zenon
<1>2. \A i, j \in Nat : <<i, j>> \in R <=> i < j
  BY DEF OpToRel
<1> HIDE DEF R
<1>3. PICK x \in S : \A y \in S : ~ (<<y, x>> \in R)
  BY <1>1, WFMin, Zenon
<1>4. \A y \in S : x <= y
  <2>1. TAKE y \in S
  <2>2. x \in Nat /\ y \in Nat
    OBVIOUS
  <2>3. ~ (y < x)
    BY <2>2, <1>2, <1>3, Zenon
  <2>4. QED
    BY <2>2, <2>3
<1>5. QED
  BY <1>4, Zenon

\* The scan's first match is one of the matches.
LEMMA FirstIs ==
    ASSUME NEW S \in SUBSET Nat, S # {}
    PROVE  First(S) \in S
BY Least, Zenon DEF First

\* The newest of some rows is one of them.
LEMMA NewestIs ==
    ASSUME NEW n \in Nat, NEW S \in SUBSET (1..n), S # {}
    PROVE  Newest(S) \in S
<1> DEFINE T == {n - i : i \in S}
<1>1. T \in SUBSET Nat /\ T # {}
  <2>1. \A i \in S : n - i \in Nat
    OBVIOUS
  <2>2. QED
    BY <2>1, Zenon
<1>2. PICK t \in T : \A u \in T : t <= u
  BY <1>1, Least, Zenon
<1>3. PICK i \in S : t = n - i
  BY Zenon
<1>4. \A j \in S : i >= j
  <2>1. TAKE j \in S
  <2>2. n - i <= n - j
    BY <1>2, <1>3, Zenon
  <2>3. QED
    BY <2>2
<1>5. QED
  BY <1>4, Zenon DEF Newest

\* A set of positions that are all the same has at most one.
LEMMA AtMostOne ==
    ASSUME NEW S, \A i, j \in S : i = j
    PROVE  Cardinality(S) <= 1
<1>1. CASE S = {}
  BY <1>1, FS_EmptySet
<1>2. CASE S # {}
  <2>1. PICK i \in S : S = {i}
    BY <1>2, Zenon
  <2>2. Cardinality({i}) = 1
    BY FS_Singleton, Zenon
  <2>3. QED
    BY <2>1, <2>2
<1>3. QED
  BY <1>1, <1>2

-----------------------------------------------------------------------------
(* Generations and derived keys.                                           *)

\* The generations of the rows are counted by natural numbers.
LEMMA GenerationType ==
    ASSUME NEW rs \in Seq(Rows)
    PROVE  /\ Generations(rs) \in Nat
           /\ IsFiniteSet({j \in DOMAIN rs : IsConfig(rs[j])})
           /\ \A i \in DOMAIN rs : Generation(rs, i) \in Nat
<1>1. IsFiniteSet(DOMAIN rs)
  BY FS_Interval
<1>2. IsFiniteSet({j \in DOMAIN rs : IsConfig(rs[j])})
  BY <1>1, FS_Subset
<1>3. ASSUME NEW i \in DOMAIN rs
      PROVE  Generation(rs, i) \in Nat
  <2>1. {j \in 1..(i - 1) : IsConfig(rs[j])} \subseteq DOMAIN rs
    OBVIOUS
  <2>2. QED
    BY <1>1, <2>1, FS_Subset, FS_CardinalityType DEF Generation
<1>4. QED
  BY <1>2, <1>3, FS_CardinalityType DEF Generations

\* A row keeps its generation, and so a secret derives it or not as before.
LEMMA DerivesKept ==
    ASSUME NEW rs \in Seq(Rows), NEW ts \in Seq(Rows), Follows(rs, ts),
           NEW i \in DOMAIN ts, NEW s
    PROVE  /\ Generation(rs, i) = Generation(ts, i)
           /\ Derives(rs, s, i) <=> Derives(ts, s, i)
<1>1. \A j \in 1..(i - 1) : IsConfig(rs[j]) <=> IsConfig(ts[j])
  BY DEF Follows
<1>2. {j \in 1..(i - 1) : IsConfig(rs[j])} = {j \in 1..(i - 1) : IsConfig(ts[j])}
  BY <1>1
<1>3. Generation(rs, i) = Generation(ts, i)
  BY <1>2 DEF Generation
<1>4. QED
  BY <1>3, Zenon DEF Derives, Follows

\* There are never fewer generations than there were.
LEMMA GenerationsGrow ==
    ASSUME NEW rs \in Seq(Rows), NEW ts \in Seq(Rows), Follows(rs, ts)
    PROVE  Generations(ts) <= Generations(rs)
<1>1. {j \in DOMAIN ts : IsConfig(ts[j])} \subseteq {j \in DOMAIN rs : IsConfig(rs[j])}
  BY DEF Follows
<1>2. QED
  BY <1>1, GenerationType, FS_Subset DEF Generations

\* The generations after an insert, and the new row's position among them.
LEMMA GenerationsAppend ==
    ASSUME NEW rs \in Seq(Rows), NEW row \in Rows
    PROVE  /\ Generation(Append(rs, row), Len(rs) + 1) = Generations(rs)
           /\ Generations(Append(rs, row)) =
                  Generations(rs) + (IF IsConfig(row) THEN 1 ELSE 0)
<1> DEFINE new == Append(rs, row)
           old == {j \in DOMAIN rs : IsConfig(rs[j])}
<1>1. Len(new) = Len(rs) + 1 /\ new[Len(rs) + 1] = row /\ \A j \in DOMAIN rs : new[j] = rs[j]
  OBVIOUS
<1> HIDE DEF new
<1>2. {j \in 1..((Len(rs) + 1) - 1) : IsConfig(new[j])} = old
  BY <1>1
<1>3. Generation(new, Len(rs) + 1) = Generations(rs)
  BY <1>2, Zenon DEF Generation, Generations
<1>4. CASE IsConfig(row)
  <2>1. {j \in DOMAIN new : IsConfig(new[j])} = old \cup {Len(rs) + 1}
    BY <1>1, <1>4
  <2>2. Len(rs) + 1 \notin old
    OBVIOUS
  <2>3. Cardinality(old \cup {Len(rs) + 1}) = Cardinality(old) + 1
    BY <2>2, GenerationType, FS_AddElement
  <2>4. QED
    BY <1>3, <1>4, <2>1, <2>3 DEF Generations, new
<1>5. CASE ~IsConfig(row)
  <2>1. {j \in DOMAIN new : IsConfig(new[j])} = old
    BY <1>1, <1>5
  <2>2. Generations(new) = Generations(rs)
    BY <2>1, Zenon DEF Generations
  <2>3. Generations(rs) \in Nat
    BY GenerationType
  <2>4. QED
    BY <1>3, <1>5, <2>2, <2>3 DEF new
<1>6. QED
  BY <1>4, <1>5

-----------------------------------------------------------------------------
(* What the store's writes do to the rows.                                 *)

\* Rows follow themselves, and what follows them follows what they follow.
LEMMA FollowsSelf == ASSUME NEW rs \in Seq(Rows) PROVE Follows(rs, rs)
BY DEF Follows

\* Rows that follow what already follows an earlier read follow that read.
LEMMA FollowsOn ==
    ASSUME NEW rs \in Seq(Rows), NEW ts \in Seq(Rows), NEW us \in Seq(Rows),
           Follows(rs, ts), Follows(ts, us)
    PROVE  Follows(rs, us)
<1>1. Len(us) <= Len(rs) /\ DOMAIN us \subseteq DOMAIN ts
  BY DEF Follows
<1>2. ASSUME NEW i \in DOMAIN us
      PROVE  /\ rs[i].key = us[i].key
             /\ IsConfig(rs[i]) <=> IsConfig(us[i])
             /\ us[i].purpose = "config" => rs[i].purpose = "config"
             /\ rs[i].live => us[i].live
  BY <1>1, Zenon DEF Follows
<1>3. ASSUME NEW i \in DOMAIN rs, i > Len(us)
      PROVE  rs[i].purpose # "named"
  <2>1. CASE i > Len(ts)
    BY <2>1 DEF Follows
  <2>2. CASE ~(i > Len(ts))
    <3>1. i \in DOMAIN ts
      BY <2>2
    <3>2. ts[i].purpose # "named"
      BY <1>3, <3>1 DEF Follows
    <3>3. ts[i] \in Rows /\ rs[i] \in Rows
      BY <3>1
    <3>4. QED
      BY <3>1, <3>2, <3>3 DEF Follows, IsConfig, Rows, Purposes
  <2>3. QED
    BY <2>1, <2>2
<1>4. QED
  BY <1>1, <1>2, <1>3 DEF Follows

\* Revoking rows ends them, and changes nothing else.
LEMMA KilledIs ==
    ASSUME NEW rs \in Seq(Rows), NEW S
    PROVE  /\ Killed(rs, S) \in Seq(Rows)
           /\ Len(Killed(rs, S)) = Len(rs)
           /\ Follows(Killed(rs, S), rs)
           /\ ActiveConfig(Killed(rs, S)) = ActiveConfig(rs) \ S
           /\ Sound(rs) => Sound(Killed(rs, S))
           /\ \A i \in DOMAIN rs : Killed(rs, S)[i].live => i \notin S
<1> DEFINE new == Killed(rs, S)
<1>1. DOMAIN new = DOMAIN rs
  BY DEF Killed
<1>2. \A i \in DOMAIN rs : new[i] = [rs[i] EXCEPT !.live = @ /\ i \notin S]
  BY DEF Killed
<1> HIDE DEF new
<1>3. \A i \in DOMAIN rs : new[i] \in Rows
  <2>1. TAKE i \in DOMAIN rs
  <2>2. rs[i] \in Rows
    OBVIOUS
  <2>3. QED
    BY <1>2, <2>2 DEF Rows
<1>4. \A i \in DOMAIN rs : /\ new[i].key = rs[i].key /\ new[i].purpose = rs[i].purpose
                           /\ new[i].live <=> rs[i].live /\ i \notin S
  <2>1. TAKE i \in DOMAIN rs
  <2>2. rs[i] \in Rows
    OBVIOUS
  <2>3. QED
    BY <1>2, <2>2 DEF Rows
<1>5. new \in Seq(Rows) /\ Len(new) = Len(rs)
  <2>1. new \in [1..Len(rs) -> Rows]
    BY <1>1, <1>3 DEF new, Killed
  <2>2. QED
    BY <2>1
<1>6. Follows(new, rs)
  BY <1>4, <1>5 DEF Follows, IsConfig
<1>7. ActiveConfig(new) = ActiveConfig(rs) \ S
  BY <1>1, <1>4 DEF ActiveConfig
<1>8. Sound(rs) => Sound(new)
  <2>1. OneActive(rs) => OneActive(new)
    BY <1>7 DEF OneActive
  <2>2. Superseded(rs) => Superseded(new)
    BY <1>1, <1>4 DEF Superseded
  <2>3. QED
    BY <2>1, <2>2 DEF Sound
<1>9. QED
  BY <1>4, <1>5, <1>6, <1>7, <1>8 DEF new

\* Marking a row of the config key's name keeps everything but its purpose.
LEMMA MarkedIs ==
    ASSUME NEW rs \in Seq(Rows), NEW i \in DOMAIN rs, IsConfig(rs[i])
    PROVE  /\ Marked(rs, i) \in Seq(Rows)
           /\ Len(Marked(rs, i)) = Len(rs)
           /\ Follows(Marked(rs, i), rs)
           /\ ActiveConfig(Marked(rs, i)) =
                  ActiveConfig(rs) \cup (IF rs[i].live THEN {i} ELSE {})
           /\ Superseded(rs) => Superseded(Marked(rs, i))
<1> DEFINE new == Marked(rs, i)
<1>1. DOMAIN new = DOMAIN rs /\ new[i] = [rs[i] EXCEPT !.purpose = "config"]
      /\ \A j \in DOMAIN rs : j # i => new[j] = rs[j]
  BY DEF Marked
<1> HIDE DEF new
<1>a. rs[i] \in Rows
  OBVIOUS
<1>b. new[i] \in Rows
  BY <1>a, <1>1 DEF Rows, Purposes
<1>2. new \in Seq(Rows) /\ Len(new) = Len(rs)
  <2>1. new \in [1..Len(rs) -> Rows]
    BY <1>1, <1>b DEF new, Marked
  <2>2. QED
    BY <2>1
<1>3. /\ new[i].key = rs[i].key /\ new[i].live = rs[i].live
      /\ new[i].purpose = "config"
  BY <1>1, <1>a DEF Rows
<1>4. Follows(new, rs)
  <2>1. ASSUME NEW j \in DOMAIN rs
        PROVE  /\ new[j].key = rs[j].key
               /\ IsConfig(new[j]) <=> IsConfig(rs[j])
               /\ rs[j].purpose = "config" => new[j].purpose = "config"
               /\ new[j].live => rs[j].live
    <3>1. CASE j = i
      BY <1>3, <3>1 DEF IsConfig
    <3>2. CASE j # i
      BY <1>1, <3>2
    <3>3. QED
      BY <3>1, <3>2
  <2>2. QED
    BY <1>2, <2>1 DEF Follows
<1>5. ActiveConfig(new) = ActiveConfig(rs) \cup (IF rs[i].live THEN {i} ELSE {})
  BY <1>1, <1>3 DEF ActiveConfig
<1>6. Superseded(rs) => Superseded(new)
  <2>1. \A j \in DOMAIN rs : /\ new[j].live = rs[j].live
                             /\ new[j].purpose = "personal" => rs[j].purpose = "personal"
    BY <1>1, <1>3
  <2>2. QED
    BY <1>1, <2>1 DEF Superseded
<1>7. QED
  BY <1>2, <1>4, <1>5, <1>6 DEF new

\* An insert of a live row that has a purpose, or is plain.
LEMMA AppendIs ==
    ASSUME NEW rs \in Seq(Rows), NEW row \in Rows, row.purpose # "named", row.live,
           row.purpose = "personal" => \A i \in DOMAIN rs : ~rs[i].live
    PROVE  /\ Append(rs, row) \in Seq(Rows)
           /\ Follows(Append(rs, row), rs)
           /\ ActiveConfig(Append(rs, row)) =
                  ActiveConfig(rs) \cup (IF row.purpose = "config" THEN {Len(rs) + 1} ELSE {})
           /\ Superseded(rs) => Superseded(Append(rs, row))
<1> DEFINE new == Append(rs, row)
<1>1. new \in Seq(Rows) /\ Len(new) = Len(rs) + 1 /\ new[Len(rs) + 1] = row
      /\ \A j \in DOMAIN rs : new[j] = rs[j]
  OBVIOUS
<1>2. DOMAIN new = DOMAIN rs \cup {Len(rs) + 1}
  BY <1>1
<1> HIDE DEF new
<1>3. Follows(new, rs)
  BY <1>1 DEF Follows
<1>4. ActiveConfig(new) =
          ActiveConfig(rs) \cup (IF row.purpose = "config" THEN {Len(rs) + 1} ELSE {})
  BY <1>1, <1>2 DEF ActiveConfig
<1>5. Superseded(rs) => Superseded(new)
  BY <1>1, <1>2 DEF Superseded
<1>6. QED
  BY <1>1, <1>3, <1>4, <1>5 DEF new

\* A change of scope changes nothing else.
LEMMA SetTokenModelsIs ==
    ASSUME rows \in Seq(Rows), NEW i \in DOMAIN rows, NEW models \in SUBSET Models
    PROVE  /\ SetTokenModels(i, models) \in Seq(Rows)
           /\ Len(SetTokenModels(i, models)) = Len(rows)
           /\ Follows(SetTokenModels(i, models), rows)
           /\ ActiveConfig(SetTokenModels(i, models)) = ActiveConfig(rows)
           /\ Superseded(rows) => Superseded(SetTokenModels(i, models))
<1> DEFINE new == SetTokenModels(i, models)
<1>a. rows[i] \in Rows /\ [rows[i] EXCEPT !.scope = models] \in Rows
  <2>1. rows[i] \in Rows
    OBVIOUS
  <2>2. QED
    BY <2>1 DEF Rows
<1>1. new \in Seq(Rows) /\ Len(new) = Len(rows)
  <2>1. new \in [1..Len(rows) -> Rows]
    BY <1>a DEF SetTokenModels
  <2>2. QED
    BY <2>1
<1>2. \A j \in DOMAIN rows : /\ new[j].key = rows[j].key /\ new[j].purpose = rows[j].purpose
                             /\ new[j].live = rows[j].live
  BY DEF SetTokenModels, Rows
<1> HIDE DEF new
<1>3. Follows(new, rows)
  BY <1>1, <1>2 DEF Follows, IsConfig
<1>4. ActiveConfig(new) = ActiveConfig(rows)
  BY <1>1, <1>2 DEF ActiveConfig
<1>5. Superseded(rows) => Superseded(new)
  BY <1>1, <1>2 DEF Superseded
<1>6. QED
  BY <1>1, <1>3, <1>4, <1>5 DEF new

-----------------------------------------------------------------------------
(* Every step extends the rows soundly.                                    *)

\* The keys and rows the store makes have their types.
LEMMA RowTypes ==
    ASSUME Typed, NEW w \in Workers, NEW n \in Nat
    PROVE  /\ ConfigKey(SecretOf(w), n) \in Keys
           /\ PersonalKey(SecretOf(w), n) \in Keys
           /\ RandomKey(n) \in Keys
           /\ \A key \in Keys, scope \in SUBSET Models, purpose \in Purposes :
                 Row(purpose, key, scope) \in Rows
<1>1. secret[w] \in DOMAIN Secrets
  BY DEF Typed
<1>2. SecretOf(w) \in {Secrets[m] : m \in DOMAIN Secrets}
  BY <1>1, Zenon DEF SecretOf
<1>3. QED
  BY <1>2 DEF ConfigKey, PersonalKey, RandomKey, Keys, Row, Rows

\* The key inserted for the config file, whatever the history it follows.
LEMMA InsertSound ==
    ASSUME Typed, NEW w \in Workers, NEW snap \in Seq(Rows), NEW rs \in Seq(Rows), Superseded(rs),
           ~Collides(rs, ConfigKey(SecretOf(w), Generations(snap)))
    PROVE  LET new == Append(rs, Row("config", ConfigKey(SecretOf(w), Generations(snap)), Models))
           IN  new \in Seq(Rows) /\ Follows(new, rs) /\ Sound(new)
<1> DEFINE row == Row("config", ConfigKey(SecretOf(w), Generations(snap)), Models)
           new == Append(rs, row)
<1>1. row \in Rows /\ row.purpose = "config" /\ row.live
  <2>1. Generations(snap) \in Nat
    BY GenerationType
  <2>2. row \in Rows
    BY <2>1, RowTypes DEF Purposes
  <2>3. QED
    BY <2>2 DEF Row
<1> HIDE DEF row
<1>2. ActiveConfig(rs) = {}
  BY DEF Collides
<1>3. /\ new \in Seq(Rows) /\ Follows(new, rs) /\ Superseded(new)
      /\ ActiveConfig(new) = ActiveConfig(rs) \cup {Len(rs) + 1}
  BY <1>1, AppendIs
<1>4. OneActive(new)
  BY <1>2, <1>3 DEF OneActive
<1>5. QED
  BY <1>3, <1>4 DEF Sound, row

\* What a worker has read of a row that its secret derives.
LEMMA ReusableIs ==
    ASSUME Typed, NEW w \in Workers, Follows(rows, req[w].snap),
           Reusable(req[w].snap, SecretOf(w)) # {}
    PROVE  LET i == First(Reusable(req[w].snap, SecretOf(w))) IN
           /\ i \in DOMAIN req[w].snap /\ i \in DOMAIN rows
           /\ IsConfig(rows[i]) /\ IsConfig(req[w].snap[i]) /\ req[w].snap[i].live
           /\ rows[i].key = req[w].snap[i].key
           /\ Derives(req[w].snap, SecretOf(w), i) /\ Derives(rows, SecretOf(w), i)
<1> DEFINE snap == req[w].snap
           S == Reusable(snap, SecretOf(w))
           i == First(S)
<1>1. snap \in Seq(Rows) /\ rows \in Seq(Rows)
  BY DEF Typed, Request
<1>2. S \in SUBSET Nat
  BY <1>1 DEF Reusable
<1>3. i \in S
  BY <1>2, FirstIs
<1>4. i \in DOMAIN snap /\ Derives(snap, SecretOf(w), i) /\ snap[i].live
  BY <1>3 DEF Reusable
<1> HIDE DEF i
<1>5. i \in DOMAIN rows /\ rows[i].key = snap[i].key /\ (IsConfig(rows[i]) <=> IsConfig(snap[i]))
  BY <1>1, <1>4 DEF Follows
<1>6. Derives(rows, SecretOf(w), i)
  BY <1>1, <1>4, DerivesKept
<1>7. QED
  BY <1>4, <1>5, <1>6 DEF Derives, i

\* The transaction of a download.
LEMMA WriteSound ==
    ASSUME Inv, NEW w \in Workers, WriteConfig(w)
    PROVE  rows' \in Seq(Rows) /\ Follows(rows', rows) /\ Sound(rows')
<1> DEFINE snap == req[w].snap
           reusable == Reusable(snap, SecretOf(w))
           cleared == IF ActiveConfig(snap) = {} THEN rows ELSE Killed(rows, ActiveConfig(rows))
           key == ConfigKey(SecretOf(w), Generations(snap))
           i == First(reusable)
<1>1. Typed /\ Sound(rows) /\ snap \in Seq(Rows) /\ rows \in Seq(Rows)
  BY DEF Inv, Typed, Request
<1>2. Follows(rows, snap)
  BY DEF Inv, Reads, ReadOK, Deciding, WriteConfig
<1>3. cleared \in Seq(Rows) /\ Follows(cleared, rows) /\ Sound(cleared) /\ Len(cleared) = Len(rows)
  BY <1>1, KilledIs, FollowsSelf
<1> HIDE DEF cleared
<1>4. CASE reusable # {} /\ ~MarkCollides(cleared, i) /\ rows' = Marked(cleared, i)
  <2>1. i \in DOMAIN rows /\ IsConfig(rows[i])
    BY <1>1, <1>2, <1>4, ReusableIs
  <2>2. i \in DOMAIN cleared /\ IsConfig(cleared[i])
    BY <1>1, <1>3, <2>1 DEF Follows
  <2>3. /\ rows' \in Seq(Rows) /\ Follows(rows', cleared) /\ Superseded(rows')
        /\ ActiveConfig(rows') = ActiveConfig(cleared) \cup (IF cleared[i].live THEN {i} ELSE {})
    BY <1>3, <1>4, <2>2, MarkedIs DEF Sound
  <2>4. OneActive(rows')
    BY <1>3, <1>4, <2>3 DEF OneActive, MarkCollides, Sound
  <2>5. QED
    BY <1>1, <1>3, <2>3, <2>4, FollowsOn DEF Sound
<1>5. CASE ~Collides(cleared, key) /\ rows' = Append(cleared, Row("config", key, Models))
  <2>1. rows' \in Seq(Rows) /\ Follows(rows', cleared) /\ Sound(rows')
    BY <1>1, <1>3, <1>5, InsertSound DEF Sound
  <2>2. QED
    BY <1>1, <1>3, <2>1, FollowsOn
<1>6. CASE UNCHANGED rows
  BY <1>1, <1>6, FollowsSelf
<1>7. QED
  BY <1>4, <1>5, <1>6 DEF WriteConfig, cleared

\* The key the winner of a race left is marked already.
LEMMA MarkSound ==
    ASSUME Inv, NEW w \in Workers, MarkConfig(w)
    PROVE  rows' \in Seq(Rows) /\ Follows(rows', rows) /\ Sound(rows')
<1> DEFINE snap == req[w].snap
           i == First(Reusable(snap, SecretOf(w)))
<1>1. Typed /\ Sound(rows) /\ snap \in Seq(Rows) /\ rows \in Seq(Rows)
  BY DEF Inv, Typed, Request
<1>2. Follows(rows, snap) /\ Reusable(snap, SecretOf(w)) # {} /\ Taken(snap, SecretOf(w))
  BY DEF Inv, Reads, ReadOK, Deciding, MarkConfig
<1>3. /\ i \in DOMAIN snap /\ i \in DOMAIN rows /\ IsConfig(rows[i]) /\ IsConfig(snap[i])
      /\ snap[i].live /\ Derives(snap, SecretOf(w), i)
  BY <1>1, <1>2, ReusableIs
<1>4. rows' = Marked(rows, i)
  BY DEF MarkConfig
<1> HIDE DEF i
<1>5. snap[i].purpose = "config"
  BY <1>2, <1>3 DEF Taken, IsConfig
<1>6. rows[i].purpose = "config"
  BY <1>2, <1>3, <1>5 DEF Follows
<1>7. /\ rows' \in Seq(Rows) /\ Follows(rows', rows) /\ Superseded(rows')
      /\ ActiveConfig(rows') = ActiveConfig(rows) \cup (IF rows[i].live THEN {i} ELSE {})
  BY <1>1, <1>3, <1>4, MarkedIs DEF Sound
<1>8. ActiveConfig(rows') = ActiveConfig(rows)
  BY <1>3, <1>6, <1>7 DEF ActiveConfig
<1>9. QED
  BY <1>1, <1>7, <1>8 DEF Sound, OneActive

\* Every step leaves rows that follow the rows before it and are sound.
LEMMA RowsNext ==
    ASSUME Inv, Next
    PROVE  rows' \in Seq(Rows) /\ Follows(rows', rows) /\ Sound(rows')
<1>1. Typed /\ Sound(rows) /\ rows \in Seq(Rows)
  BY DEF Inv, Typed
<1>2. CASE UNCHANGED rows
  BY <1>1, <1>2, FollowsSelf
<1>3. ASSUME NEW w \in Workers, ReplaceConfig(w)
      PROVE  rows' \in Seq(Rows) /\ Follows(rows', rows) /\ Sound(rows')
  <2> DEFINE cleared == Killed(rows, ActiveConfig(rows))
             key == ConfigKey(SecretOf(w), Generations(req[w].snap))
  <2>1. cleared \in Seq(Rows) /\ Follows(cleared, rows) /\ Sound(cleared)
    BY <1>1, KilledIs
  <2>2. req[w].snap \in Seq(Rows)
    BY <1>1 DEF Typed, Request
  <2> HIDE DEF cleared
  <2>3. CASE ~Collides(cleared, key) /\ rows' = Append(cleared, Row("config", key, Models))
    <3>1. rows' \in Seq(Rows) /\ Follows(rows', cleared) /\ Sound(rows')
      BY <1>1, <2>1, <2>2, <2>3, InsertSound DEF Sound
    <3>2. QED
      BY <1>1, <2>1, <3>1, FollowsOn
  <2>4. QED
    BY <1>2, <1>3, <2>3 DEF ReplaceConfig, cleared
<1>4. ASSUME NEW w \in Workers, CreateToken(w)
      PROVE  rows' \in Seq(Rows) /\ Follows(rows', rows) /\ Sound(rows')
  <2> DEFINE row == Row("plain", RandomKey(Len(rows) + 1), Models)
  <2>1. row \in Rows /\ row.purpose = "plain" /\ row.live
    <3>1. Len(rows) + 1 \in Nat
      BY <1>1
    <3>2. row \in Rows
      BY <1>1, <3>1, RowTypes DEF Purposes
    <3>3. QED
      BY <3>2 DEF Row
  <2>2. rows' = Append(rows, row)
    BY <1>4 DEF CreateToken
  <2> HIDE DEF row
  <2>3. /\ rows' \in Seq(Rows) /\ Follows(rows', rows) /\ Superseded(rows')
        /\ ActiveConfig(rows') = ActiveConfig(rows)
    BY <1>1, <2>1, <2>2, AppendIs DEF Sound
  <2>4. QED
    BY <1>1, <2>3 DEF Sound, OneActive
<1>5. ASSUME NEW w \in Workers, CreatePersonalToken(w)
      PROVE  rows' \in Seq(Rows) /\ Follows(rows', rows) /\ Sound(rows')
  <2> DEFINE row == Row("personal", PersonalKey(SecretOf(w), Len(rows) + 1), req[w].models)
             cleared == Killed(rows, DOMAIN rows)
  <2>1. row \in Rows /\ row.purpose = "personal" /\ row.live
    <3>1. Len(rows) + 1 \in Nat /\ req[w].models \in SUBSET Models
      BY <1>1 DEF Typed, Request
    <3>2. row \in Rows
      BY <1>1, <3>1, RowTypes DEF Purposes
    <3>3. QED
      BY <3>2 DEF Row
  <2>2. rows' = Append(cleared, row)
    BY <1>5 DEF CreatePersonalToken
  <2>3. /\ cleared \in Seq(Rows) /\ Follows(cleared, rows) /\ Sound(cleared)
        /\ Len(cleared) = Len(rows)
        /\ \A i \in DOMAIN rows : ~cleared[i].live
    BY <1>1, KilledIs
  <2> HIDE DEF row, cleared
  <2>4. \A i \in DOMAIN cleared : ~cleared[i].live
    BY <1>1, <2>3
  <2>5. /\ rows' \in Seq(Rows) /\ Follows(rows', cleared) /\ Superseded(rows')
        /\ ActiveConfig(rows') = ActiveConfig(cleared)
    BY <2>1, <2>2, <2>3, <2>4, AppendIs DEF Sound
  <2>6. QED
    BY <1>1, <2>3, <2>5, FollowsOn DEF Sound, OneActive
<1>6. ASSUME NEW i \in DOMAIN rows, NEW models \in SUBSET Models, rows' = SetTokenModels(i, models)
      PROVE  rows' \in Seq(Rows) /\ Follows(rows', rows) /\ Sound(rows')
  BY <1>1, <1>6, SetTokenModelsIs DEF Sound, OneActive
<1>7. ASSUME NEW w \in Workers, WidenTokenScope(w)
      PROVE  rows' \in Seq(Rows) /\ Follows(rows', rows) /\ Sound(rows')
  <2>1. /\ req[w].token \in DOMAIN rows /\ req[w].scope \cup req[w].models \in SUBSET Models
    BY <1>7 DEF Inv, Typed, Request, Reads, ReadOK, Holding, WidenTokenScope
  <2>2. rows' = SetTokenModels(req[w].token, req[w].scope \cup req[w].models) \/ rows' = rows
    BY <1>7 DEF WidenTokenScope
  <2>3. QED
    BY <1>2, <1>6, <2>1, <2>2
<1>8. ASSUME NEW w \in Workers, UpdateTokenModels(w)
      PROVE  rows' \in Seq(Rows) /\ Follows(rows', rows) /\ Sound(rows')
  <2>1. /\ req[w].token \in DOMAIN rows /\ req[w].models \in SUBSET Models
    BY <1>8 DEF Inv, Typed, Request, Reads, ReadOK, Holding, UpdateTokenModels
  <2>2. QED
    BY <1>6, <1>8, <2>1 DEF UpdateTokenModels
<1>9. ASSUME NEW i \in DOMAIN rows, RevokeToken(i)
      PROVE  rows' \in Seq(Rows) /\ Follows(rows', rows) /\ Sound(rows')
  BY <1>1, <1>9, KilledIs DEF RevokeToken
<1>10. QED
  BY <1>2, <1>3, <1>4, <1>5, <1>7, <1>8, <1>9, WriteSound, MarkSound
     DEF Next, Serve, ReadConfig, RereadConfig, RequirePersonalToken, RevealPersonalToken,
         CreateSetupLink, ResolveSetupLink, GiveUp, SetUserAdmin, RecordUsage, Expire, Restart, Ask

-----------------------------------------------------------------------------
(* Types, and what the requests have read.                                 *)

\* An answer is a request that is done.
LEMMA AnswerType ==
    ASSUME NEW raw \in Keys \cup {None}
    PROVE  Answer(raw) \in Request
BY DEF Answer, Request, Steps

\* There may be no rows.
LEMMA NoRows == <<>> \in Seq(Rows)
OBVIOUS

\* What a step writes into a request leaves a request.
LEMMA Edits ==
    ASSUME NEW r \in Request, NEW pc \in Steps
    PROVE  /\ [r EXCEPT !.pc = pc] \in Request
           /\ \A snap \in Seq(Rows) : [r EXCEPT !.pc = pc, !.snap = snap] \in Request
           /\ \A raw \in Keys \cup {None} : [r EXCEPT !.pc = pc, !.raw = raw] \in Request
           /\ \A i \in Nat : [r EXCEPT !.token = i, !.pc = pc] \in Request
           /\ \A i \in Nat, scope \in SUBSET Models :
                 [r EXCEPT !.token = i, !.scope = scope, !.pc = pc] \in Request
           /\ \A op \in Ops, models \in SUBSET Models :
                 [r EXCEPT !.op = op, !.pc = pc, !.models = models] \in Request
<1>1. [r EXCEPT !.pc = pc] \in Request
  BY DEF Request
<1>2. ASSUME NEW snap \in Seq(Rows)
      PROVE  [r EXCEPT !.pc = pc, !.snap = snap] \in Request
  BY DEF Request
<1>3. ASSUME NEW raw \in Keys \cup {None}
      PROVE  [r EXCEPT !.pc = pc, !.raw = raw] \in Request
  BY DEF Request
<1>4. ASSUME NEW i \in Nat
      PROVE  [r EXCEPT !.token = i, !.pc = pc] \in Request
  BY DEF Request
<1>5. ASSUME NEW i \in Nat, NEW scope \in SUBSET Models
      PROVE  [r EXCEPT !.token = i, !.scope = scope, !.pc = pc] \in Request
  BY DEF Request
<1>6. ASSUME NEW op \in Ops, NEW models \in SUBSET Models
      PROVE  [r EXCEPT !.op = op, !.pc = pc, !.models = models] \in Request
  BY DEF Request
<1>7. QED
  BY <1>1, <1>2, <1>3, <1>4, <1>5, <1>6

\* The token looked up is a row, or none.
LEMMA ActiveTokenIs ==
    ASSUME Typed
    PROVE  ActiveToken = 0 \/ ActiveToken \in DOMAIN rows
<1> DEFINE live == {i \in DOMAIN rows : rows[i].live}
           personal == {i \in live : rows[i].purpose = "personal"}
<1>1. rows \in Seq(Rows) /\ Len(rows) \in Nat
  BY DEF Typed
<1>2. live \in SUBSET (1..Len(rows)) /\ personal \in SUBSET (1..Len(rows))
  BY <1>1
<1>3. CASE personal # {}
  <2>1. ActiveToken = Newest(personal)
    BY <1>3, Zenon DEF ActiveToken
  <2>2. Newest(personal) \in personal
    BY <1>1, <1>2, <1>3, NewestIs
  <2>3. QED
    BY <2>1, <2>2
<1>4. CASE personal = {} /\ live # {}
  <2>1. ActiveToken = Newest(live)
    BY <1>4, Zenon DEF ActiveToken
  <2>2. Newest(live) \in live
    BY <1>1, <1>2, <1>4, NewestIs
  <2>3. QED
    BY <2>1, <2>2
<1>5. CASE personal = {} /\ live = {}
  BY <1>5, Zenon DEF ActiveToken
<1>6. QED
  BY <1>3, <1>4, <1>5

\* The newest active config key is one.
LEMMA NewestActiveIs ==
    ASSUME Typed, ActiveConfig(rows) # {}
    PROVE  Newest(ActiveConfig(rows)) \in DOMAIN rows
<1>1. rows \in Seq(Rows) /\ Len(rows) \in Nat
  BY DEF Typed
<1>2. ActiveConfig(rows) \in SUBSET (1..Len(rows))
  BY <1>1 DEF ActiveConfig
<1>3. Newest(ActiveConfig(rows)) \in ActiveConfig(rows)
  BY <1>1, <1>2, NewestIs
<1>4. QED
  BY <1>3 DEF ActiveConfig

\* What each worker does to its request has the type of a request.
LEMMA ReqType ==
    ASSUME Inv, Next
    PROVE  req' \in [Workers -> Request]
<1>1. Typed /\ rows \in Seq(Rows) /\ req \in [Workers -> Request]
  BY DEF Inv, Typed
<1>2. ASSUME NEW w \in Workers, NEW raw \in Keys \cup {None}, Finish(w, raw)
      PROVE  req' \in [Workers -> Request]
  BY <1>1, <1>2, AnswerType DEF Finish
<1>3. ASSUME NEW w \in Workers, NEW r \in Request, req' = [req EXCEPT ![w] = r]
      PROVE  req' \in [Workers -> Request]
  BY <1>1, <1>3
<1>4. ASSUME NEW w \in Workers
      PROVE  req[w] \in Request /\ req[w].raw \in Keys \cup {None} /\ req[w].snap \in Seq(Rows)
  BY <1>1 DEF Request
<1>5. ASSUME NEW i \in DOMAIN rows
      PROVE  rows[i] \in Rows /\ rows[i].key \in Keys /\ rows[i].scope \in SUBSET Models /\ i \in Nat
  <2>1. rows[i] \in Rows /\ i \in Nat
    BY <1>1
  <2>2. QED
    BY <2>1 DEF Rows
<1>6. ASSUME NEW w \in Workers, Serve(w)
      PROVE  req' \in [Workers -> Request]
  <2>1. CASE ReadConfig(w)
    <3>1. CASE ActiveConfig(rows) # {} /\ Finish(w, rows[Newest(ActiveConfig(rows))].key)
      BY <1>1, <1>2, <1>5, <3>1, NewestActiveIs
    <3>2. CASE req' = [req EXCEPT ![w].pc = "write", ![w].snap = rows]
      BY <1>1, <1>4, <3>2, Edits DEF Steps
    <3>3. QED
      BY <2>1, <3>1, <3>2 DEF ReadConfig
  <2>2. CASE WriteConfig(w)
    <3> DEFINE snap == req[w].snap
               i == First(Reusable(snap, SecretOf(w)))
    <3>1. CASE Reusable(snap, SecretOf(w)) # {} /\ Finish(w, snap[i].key)
      <4>1. i \in DOMAIN snap
        BY <1>1, <2>2, <3>1, ReusableIs DEF Inv, Reads, ReadOK, Deciding, WriteConfig
      <4>2. snap[i] \in Rows
        BY <1>4, <4>1
      <4>3. QED
        BY <1>2, <3>1, <4>2 DEF Rows
    <3>2. CASE Finish(w, ConfigKey(SecretOf(w), Generations(snap)))
      BY <1>1, <1>2, <1>4, <3>2, GenerationType, RowTypes
    <3>3. CASE req' = [req EXCEPT ![w].pc = "reread", ![w].snap = <<>>]
      <4>1. [req[w] EXCEPT !.pc = "reread", !.snap = <<>>] \in Request
        <5>0. "reread" \in Steps
          BY DEF Steps
        <5>1. \A rs \in Seq(Rows) : [req[w] EXCEPT !.pc = "reread", !.snap = rs] \in Request
          BY <1>4, <5>0, Edits
        <5>2. QED
          BY <5>1, NoRows
      <4>2. QED
        BY <1>1, <3>3, <4>1
    <3>4. CASE Finish(w, None)
      BY <1>2, <3>4
    <3>5. QED
      BY <2>2, <3>1, <3>2, <3>3, <3>4 DEF WriteConfig
  <2>3. CASE RereadConfig(w)
    <3>1. PICK pc \in Steps : req' = [req EXCEPT ![w].snap = rows, ![w].pc = pc]
      BY <2>3, Zenon DEF RereadConfig, Steps
    <3>2. [req[w] EXCEPT !.snap = rows, !.pc = pc] \in Request
      BY <1>1, <1>4 DEF Request
    <3>3. QED
      BY <1>1, <3>1, <3>2
  <2>4. CASE MarkConfig(w)
    <3> DEFINE i == First(Reusable(req[w].snap, SecretOf(w)))
    <3>1. i \in DOMAIN req[w].snap
      BY <1>1, <2>4, ReusableIs DEF Inv, Reads, ReadOK, Deciding, MarkConfig
    <3>2. req[w].snap[i] \in Rows
      BY <1>4, <3>1
    <3>3. QED
      BY <1>2, <2>4, <3>2 DEF MarkConfig, Rows
  <2>5. CASE ReplaceConfig(w)
    <3>1. CASE Finish(w, ConfigKey(SecretOf(w), Generations(req[w].snap)))
      BY <1>1, <1>2, <1>4, <3>1, GenerationType, RowTypes
    <3>2. CASE req' = [req EXCEPT ![w].pc = "reread", ![w].snap = <<>>]
      <4>1. [req[w] EXCEPT !.pc = "reread", !.snap = <<>>] \in Request
        <5>0. "reread" \in Steps
          BY DEF Steps
        <5>1. \A snap \in Seq(Rows) : [req[w] EXCEPT !.pc = "reread", !.snap = snap] \in Request
          BY <1>4, <5>0, Edits
        <5>2. QED
          BY <5>1, NoRows
      <4>2. QED
        BY <1>1, <3>2, <4>1
    <3>3. QED
      BY <2>5, <3>1, <3>2 DEF ReplaceConfig
  <2>6. CASE CreateToken(w)
    <3>1. RandomKey(Len(rows) + 1) \in Keys
      BY <1>1, RowTypes
    <3>2. QED
      BY <1>2, <2>6, <3>1 DEF CreateToken
  <2>7. CASE CreatePersonalToken(w)
    BY <1>2, <2>7 DEF CreatePersonalToken
  <2>8. CASE RequirePersonalToken(w)
    <3>1. CASE ActiveToken # 0 /\ req' = [req EXCEPT
                 ![w].token = ActiveToken,
                 ![w].scope = rows[ActiveToken].scope,
                 ![w].pc = IF req[w].op = "edit" THEN "set" ELSE "reveal"]
      <4>1. ActiveToken \in Nat /\ rows[ActiveToken].scope \in SUBSET Models
        BY <1>1, <1>5, <3>1, ActiveTokenIs
      <4>2. PICK pc \in Steps : pc = IF req[w].op = "edit" THEN "set" ELSE "reveal"
        BY Zenon DEF Steps
      <4>3. [req[w] EXCEPT !.token = ActiveToken, !.scope = rows[ActiveToken].scope, !.pc = pc]
                \in Request
        BY <1>4, <4>1, Edits
      <4>4. QED
        BY <1>1, <3>1, <4>2, <4>3
    <3>2. QED
      BY <1>2, <2>8, <3>1 DEF RequirePersonalToken
  <2>9. CASE RevealPersonalToken(w)
    <3> DEFINE raw == Revealed(w, req[w].token)
    <3>1. raw \in Keys \cup {None}
      <4>1. req[w].token \in DOMAIN rows
        BY <2>9 DEF Inv, Reads, ReadOK, Holding, RevealPersonalToken
      <4>2. QED
        BY <1>5, <4>1 DEF Revealed
    <3> HIDE DEF raw
    <3>2. CASE req' = [req EXCEPT ![w].pc = "widen", ![w].raw = raw]
      BY <1>1, <1>4, <3>1, <3>2, Edits DEF Steps
    <3>3. QED
      BY <1>2, <2>9, <3>1, <3>2 DEF RevealPersonalToken, raw
  <2>10. CASE WidenTokenScope(w)
    <3>1. CASE Finish(w, req[w].raw)
      BY <1>2, <1>4, <3>1
    <3>2. CASE req' = [req EXCEPT ![w].pc = "link"]
      BY <1>1, <1>4, <3>2, Edits DEF Steps
    <3>3. QED
      BY <2>10, <3>1, <3>2 DEF WidenTokenScope
  <2>11. CASE UpdateTokenModels(w)
    BY <1>2, <2>11 DEF UpdateTokenModels
  <2>12. CASE CreateSetupLink(w)
    BY <1>2, <2>12 DEF CreateSetupLink
  <2>13. CASE ResolveSetupLink(w)
    <3>1. CASE \E i \in links : req' = [req EXCEPT ![w].token = i, ![w].pc = "reveal"]
      <4>1. PICK i \in links : req' = [req EXCEPT ![w].token = i, ![w].pc = "reveal"]
        BY <3>1
      <4>2. i \in Nat
        BY <1>1 DEF Typed
      <4>3. QED
        BY <1>1, <1>4, <4>1, <4>2, Edits DEF Steps
    <3>2. QED
      BY <1>2, <2>13, <3>1 DEF ResolveSetupLink
  <2>14. CASE GiveUp(w)
    BY <1>2, <2>14 DEF GiveUp
  <2>15. QED
    BY <1>6, <2>1, <2>2, <2>3, <2>4, <2>5, <2>6, <2>7, <2>8, <2>9, <2>10, <2>11, <2>12,
       <2>13, <2>14 DEF Serve
<1>7. ASSUME NEW w \in Workers, NEW op \in Serves[w], NEW models \in Wanted[op], Ask(w, op, models)
      PROVE  req' \in [Workers -> Request]
  <2>1. op \in Ops /\ models \in SUBSET Models
    BY TokensAssumption
  <2>2. FirstStep(op) \in Steps
    BY DEF FirstStep, Steps
  <2>3. [Answer(None) EXCEPT !.op = op, !.pc = FirstStep(op), !.models = models] \in Request
    BY <2>1, <2>2, AnswerType, Edits
  <2>4. QED
    BY <1>3, <1>7, <2>3 DEF Ask
<1>8. ASSUME NEW w \in Workers, NEW n \in DOMAIN Secrets, Restart(w, n)
      PROVE  req' \in [Workers -> Request]
  BY <1>2, <1>8 DEF Restart
<1>9. CASE UNCHANGED req
  BY <1>1, <1>9
<1>10. QED
  BY <1>6, <1>7, <1>8, <1>9 DEF Next, RecordUsage, RevokeToken, Expire, SetUserAdmin

\* A secret that derives no live row of the name derives none later.
LEMMA TakenKept ==
    ASSUME NEW rs \in Seq(Rows), NEW ts \in Seq(Rows), Follows(rs, ts), NEW s, Taken(ts, s)
    PROVE  Taken(rs, s)
<1> SUFFICES ASSUME NEW i \in DOMAIN rs, rs[i].purpose = "named", rs[i].live
             PROVE  ~Derives(rs, s, i)
  BY DEF Taken
<1>1. i \in DOMAIN ts
  BY DEF Follows
<1>2. ts[i].purpose = "named" /\ ts[i].live
  BY <1>1 DEF Follows, IsConfig
<1>3. QED
  BY <1>1, <1>2, DerivesKept DEF Taken

\* What a request has read stays good while the other workers go on.
LEMMA ReadKept ==
    ASSUME Typed, rows' \in Seq(Rows), Follows(rows', rows), NEW w \in Workers, ReadOK(w),
           req'[w] = req[w], secret'[w] = secret[w]
    PROVE  ReadOK(w)'
<1>1. rows \in Seq(Rows) /\ req[w].snap \in Seq(Rows) /\ SecretOf(w)' = SecretOf(w)
  BY DEF Typed, Request, SecretOf
<1>2. req[w].pc \in Deciding => Follows(rows', req[w].snap)
  BY <1>1, FollowsOn DEF ReadOK
<1>3. req[w].pc \in Retrying => Taken(rows', SecretOf(w))
  BY <1>1, TakenKept DEF ReadOK
<1>4. \A i \in DOMAIN rows : i \in DOMAIN rows' /\ rows'[i].key = rows[i].key
  BY <1>1 DEF Follows
<1>5. QED
  BY <1>1, <1>2, <1>3, <1>4 DEF ReadOK, Holding

\* A lost insert found no row to take, so there is none to take later.
LEMMA LostInsert ==
    ASSUME Inv, NEW w \in Workers, req[w].pc = "write", Reusable(req[w].snap, SecretOf(w)) = {}
    PROVE  Taken(rows, SecretOf(w))
<1>1. rows \in Seq(Rows) /\ req[w].snap \in Seq(Rows) /\ Follows(rows, req[w].snap)
  BY DEF Inv, Typed, Request, Reads, ReadOK, Deciding
<1>2. Taken(req[w].snap, SecretOf(w))
  BY DEF Taken, Reusable
<1>3. QED
  BY <1>1, <1>2, TakenKept

\* What the requests have read says of the rows what it should, after every step.
LEMMA ReadsNext ==
    ASSUME Inv, Next
    PROVE  Reads'
<1>1. /\ Typed /\ rows \in Seq(Rows) /\ req \in [Workers -> Request]
      /\ rows' \in Seq(Rows) /\ Follows(rows', rows)
      /\ \A v \in Workers : ReadOK(v)
  BY RowsNext DEF Inv, Typed, Reads
<1>2. ASSUME NEW w \in Workers, NEW raw, Finish(w, raw),
             \A v \in Workers : v # w => secret'[v] = secret[v]
      PROVE  Reads'
  <2>1. req'[w] = Answer(raw) /\ \A v \in Workers : v # w => req'[v] = req[v]
    BY <1>1, <1>2 DEF Finish
  <2>2. req'[w].pc = "done"
    BY <2>1 DEF Answer
  <2>3. ReadOK(w)'
    BY <2>2 DEF ReadOK, Deciding, Retrying, Holding
  <2>4. QED
    BY <1>1, <1>2, <2>1, <2>3, ReadKept DEF Reads
<1>3. ASSUME NEW w \in Workers, ReadOK(w)', secret' = secret,
             \A v \in Workers : v # w => req'[v] = req[v]
      PROVE  Reads'
  BY <1>1, <1>3, ReadKept DEF Reads
<1>4. CASE UNCHANGED <<req, secret>>
  BY <1>1, <1>4, ReadKept DEF Reads
<1>5. ASSUME NEW w \in Workers, Serve(w)
      PROVE  Reads'
  <2>1. CASE ReadConfig(w)
    <3>1. CASE req' = [req EXCEPT ![w].pc = "write", ![w].snap = rows]
      <4>1. /\ req'[w].pc = "write" /\ req'[w].snap = rows /\ rows' = rows /\ secret' = secret
            /\ \A v \in Workers : v # w => req'[v] = req[v]
        BY <1>1, <2>1, <3>1 DEF ReadConfig, Request
      <4>2. ReadOK(w)'
        BY <1>1, <4>1, FollowsSelf DEF ReadOK, Deciding, Retrying, Holding
      <4>3. QED
        BY <1>3, <4>1, <4>2
    <3>2. QED
      BY <1>2, <2>1, <3>1 DEF ReadConfig
  <2>2. CASE WriteConfig(w)
    <3>1. CASE /\ req' = [req EXCEPT ![w].pc = "reread", ![w].snap = <<>>]
               /\ Reusable(req[w].snap, SecretOf(w)) = {}
      <4>1. /\ req'[w].pc = "reread" /\ secret' = secret
            /\ \A v \in Workers : v # w => req'[v] = req[v]
        BY <1>1, <2>2, <3>1 DEF WriteConfig, Request
      <4>2. Taken(rows', SecretOf(w))
        BY <1>1, <2>2, <3>1, LostInsert, TakenKept DEF WriteConfig
      <4>3. SecretOf(w)' = SecretOf(w)
        BY <4>1 DEF SecretOf
      <4>4. ReadOK(w)'
        BY <4>1, <4>2, <4>3 DEF ReadOK, Deciding, Retrying, Holding
      <4>5. QED
        BY <1>3, <4>1, <4>4
    <3>2. QED
      BY <1>2, <2>2, <3>1 DEF WriteConfig
  <2>3. CASE RereadConfig(w)
    <3>1. /\ req'[w].pc = IF Reusable(rows, SecretOf(w)) # {} THEN "mark" ELSE "replace"
          /\ req'[w].snap = rows /\ rows' = rows /\ secret' = secret
          /\ \A v \in Workers : v # w => req'[v] = req[v]
      BY <1>1, <2>3 DEF RereadConfig, Request
    <3>2. Taken(rows, SecretOf(w)) /\ SecretOf(w)' = SecretOf(w)
      BY <1>1, <2>3, <3>1 DEF ReadOK, Retrying, RereadConfig, SecretOf
    <3>3. ReadOK(w)'
      BY <1>1, <3>1, <3>2, FollowsSelf DEF ReadOK, Deciding, Retrying, Holding
    <3>4. QED
      BY <1>3, <3>1, <3>3
  <2>4. CASE MarkConfig(w)
    BY <1>2, <2>4 DEF MarkConfig
  <2>5. CASE ReplaceConfig(w)
    <3>1. CASE req' = [req EXCEPT ![w].pc = "reread", ![w].snap = <<>>]
      <4>1. /\ req'[w].pc = "reread" /\ secret' = secret
            /\ \A v \in Workers : v # w => req'[v] = req[v]
        BY <1>1, <2>5, <3>1 DEF ReplaceConfig, Request
      <4>2. Taken(rows', SecretOf(w))
        BY <1>1, <2>5, TakenKept DEF ReplaceConfig, ReadOK, Retrying
      <4>3. SecretOf(w)' = SecretOf(w)
        BY <4>1 DEF SecretOf
      <4>4. ReadOK(w)'
        BY <4>1, <4>2, <4>3 DEF ReadOK, Deciding, Retrying, Holding
      <4>5. QED
        BY <1>3, <4>1, <4>4
    <3>2. QED
      BY <1>2, <2>5, <3>1 DEF ReplaceConfig
  <2>6. CASE CreateToken(w)
    BY <1>2, <2>6 DEF CreateToken
  <2>7. CASE CreatePersonalToken(w)
    BY <1>2, <2>7 DEF CreatePersonalToken
  <2>8. CASE RequirePersonalToken(w)
    <3>1. CASE ActiveToken # 0 /\ req' = [req EXCEPT
                 ![w].token = ActiveToken,
                 ![w].scope = rows[ActiveToken].scope,
                 ![w].pc = IF req[w].op = "edit" THEN "set" ELSE "reveal"]
      <4>1. /\ req'[w].pc \in {"set", "reveal"} /\ req'[w].token = ActiveToken
            /\ rows' = rows /\ secret' = secret
            /\ \A v \in Workers : v # w => req'[v] = req[v]
        BY <1>1, <2>8, <3>1 DEF RequirePersonalToken, Request
      <4>2. ActiveToken \in DOMAIN rows
        BY <1>1, <3>1, ActiveTokenIs
      <4>3. ReadOK(w)'
        BY <4>1, <4>2 DEF ReadOK, Deciding, Retrying, Holding
      <4>4. QED
        BY <1>3, <4>1, <4>3
    <3>2. QED
      BY <1>2, <2>8, <3>1 DEF RequirePersonalToken
  <2>9. CASE RevealPersonalToken(w)
    <3> DEFINE raw == Revealed(w, req[w].token)
    <3>1. CASE raw # None /\ req' = [req EXCEPT ![w].pc = "widen", ![w].raw = raw]
      <4>1. /\ req'[w].pc = "widen" /\ req'[w].raw = raw /\ req'[w].token = req[w].token
            /\ rows' = rows /\ secret' = secret
            /\ \A v \in Workers : v # w => req'[v] = req[v]
        BY <1>1, <2>9, <3>1 DEF RevealPersonalToken, Request
      <4>2. req[w].token \in DOMAIN rows
        BY <1>1, <2>9 DEF ReadOK, Holding, RevealPersonalToken
      <4>3. raw = rows[req[w].token].key
        BY <3>1 DEF Revealed
      <4>4. ReadOK(w)'
        BY <4>1, <4>2, <4>3 DEF ReadOK, Deciding, Retrying, Holding
      <4>5. QED
        BY <1>3, <4>1, <4>4
    <3>2. QED
      BY <1>2, <2>9, <3>1 DEF RevealPersonalToken
  <2>10. CASE WidenTokenScope(w)
    <3>1. CASE req' = [req EXCEPT ![w].pc = "link"]
      <4>1. /\ req'[w].pc = "link" /\ req'[w].token = req[w].token /\ secret' = secret
            /\ \A v \in Workers : v # w => req'[v] = req[v]
        BY <1>1, <2>10, <3>1 DEF WidenTokenScope, Request
      <4>2. req[w].token \in DOMAIN rows'
        BY <1>1, <2>10 DEF ReadOK, Holding, WidenTokenScope, Follows
      <4>3. ReadOK(w)'
        BY <4>1, <4>2 DEF ReadOK, Deciding, Retrying, Holding
      <4>4. QED
        BY <1>3, <4>1, <4>3
    <3>2. QED
      BY <1>2, <2>10, <3>1 DEF WidenTokenScope
  <2>11. CASE UpdateTokenModels(w)
    BY <1>2, <2>11 DEF UpdateTokenModels
  <2>12. CASE CreateSetupLink(w)
    BY <1>2, <2>12 DEF CreateSetupLink
  <2>13. CASE ResolveSetupLink(w)
    <3>1. ASSUME NEW i \in links, req' = [req EXCEPT ![w].token = i, ![w].pc = "reveal"]
          PROVE  Reads'
      <4>1. /\ req'[w].pc = "reveal" /\ req'[w].token = i /\ rows' = rows /\ secret' = secret
            /\ \A v \in Workers : v # w => req'[v] = req[v]
        BY <1>1, <2>13, <3>1 DEF ResolveSetupLink, Request
      <4>2. i \in DOMAIN rows
        BY <1>1 DEF Typed
      <4>3. ReadOK(w)'
        BY <4>1, <4>2 DEF ReadOK, Deciding, Retrying, Holding
      <4>4. QED
        BY <1>3, <4>1, <4>3
    <3>2. QED
      BY <1>2, <2>13, <3>1 DEF ResolveSetupLink
  <2>14. CASE GiveUp(w)
    BY <1>2, <2>14 DEF GiveUp
  <2>15. QED
    BY <1>5, <2>1, <2>2, <2>3, <2>4, <2>5, <2>6, <2>7, <2>8, <2>9, <2>10, <2>11, <2>12,
       <2>13, <2>14 DEF Serve
<1>6. ASSUME NEW w \in Workers, NEW op, NEW models, Ask(w, op, models)
      PROVE  Reads'
  <2>1. /\ req'[w] = [Answer(None) EXCEPT !.op = op, !.pc = FirstStep(op), !.models = models]
        /\ secret' = secret /\ \A v \in Workers : v # w => req'[v] = req[v]
    BY <1>1, <1>6 DEF Ask
  <2>2. FirstStep(op) \in {"read", "insert", "mint", "resolve", "active"}
    BY DEF FirstStep
  <2>3. req'[w].pc = FirstStep(op)
    BY <2>1 DEF Answer
  <2>4. ReadOK(w)'
    BY <2>2, <2>3 DEF ReadOK, Deciding, Retrying, Holding
  <2>5. QED
    BY <1>3, <2>1, <2>4
<1>7. ASSUME NEW w \in Workers, NEW n \in DOMAIN Secrets, Restart(w, n)
      PROVE  Reads'
  <2>1. \A v \in Workers : v # w => secret'[v] = secret[v]
    BY <1>1, <1>7 DEF Restart, Typed
  <2>2. QED
    BY <1>2, <1>7, <2>1 DEF Restart
<1>8. QED
  BY <1>4, <1>5, <1>6, <1>7 DEF Next, RecordUsage, RevokeToken, Expire, SetUserAdmin

\* A request takes the steps of its kind, and only those.
LEMMA PathsNext ==
    ASSUME Typed, Paths, Next
    PROVE  Paths'
<1>1. req \in [Workers -> Request]
  BY DEF Typed
<1>2. ASSUME NEW w \in Workers,
             req'[w].op \in Reveals => req'[w].pc \in {"done", "active", "resolve", "reveal"},
             \A v \in Workers : v # w => req'[v] = req[v]
      PROVE  Paths'
  BY <1>2 DEF Paths
<1>3. ASSUME NEW w \in Workers, NEW raw, Finish(w, raw)
      PROVE  Paths'
  BY <1>1, <1>2, <1>3 DEF Finish, Answer
<1>4. CASE UNCHANGED req
  BY <1>4 DEF Paths
<1>5. ASSUME NEW w \in Workers, Serve(w)
      PROVE  Paths'
  <2>1. CASE \E raw : Finish(w, raw)
    BY <1>3, <2>1
  <2>2. CASE req[w].op \notin Reveals /\ req'[w].op = req[w].op
             /\ \A v \in Workers : v # w => req'[v] = req[v]
    BY <1>2, <2>2
  <2>3. CASE ReadConfig(w)
    BY ZenonT(60), <1>1, <2>1, <2>2, <2>3 DEF ReadConfig, Paths, Request
  <2>4. CASE WriteConfig(w)
    BY <1>1, <2>1, <2>2, <2>4 DEF WriteConfig, Paths, Request
  <2>5. CASE RereadConfig(w)
    BY <1>1, <2>1, <2>2, <2>5 DEF RereadConfig, Paths, Request
  <2>6. CASE MarkConfig(w)
    BY <2>1, <2>6 DEF MarkConfig
  <2>7. CASE ReplaceConfig(w)
    BY ZenonT(60), <1>1, <2>1, <2>2, <2>7 DEF ReplaceConfig, Paths, Request
  <2>8. CASE CreateToken(w) \/ CreatePersonalToken(w) \/ UpdateTokenModels(w)
             \/ CreateSetupLink(w) \/ GiveUp(w)
    BY <2>1, <2>8 DEF CreateToken, CreatePersonalToken, UpdateTokenModels, CreateSetupLink, GiveUp
  <2>9. CASE RequirePersonalToken(w)
    <3>1. CASE req' = [req EXCEPT
                 ![w].token = ActiveToken,
                 ![w].scope = rows[ActiveToken].scope,
                 ![w].pc = IF req[w].op = "edit" THEN "set" ELSE "reveal"]
      <4>1. /\ req'[w].op = req[w].op
            /\ req'[w].pc = IF req[w].op = "edit" THEN "set" ELSE "reveal"
            /\ \A v \in Workers : v # w => req'[v] = req[v]
        BY <1>1, <3>1 DEF Request
      <4>2. QED
        BY <1>2, <4>1 DEF Reveals
    <3>2. QED
      BY <2>1, <2>9, <3>1 DEF RequirePersonalToken
  <2>10. CASE RevealPersonalToken(w)
    <3>1. CASE req[w].op \in Exports
               /\ req' = [req EXCEPT ![w].pc = "widen", ![w].raw = Revealed(w, req[w].token)]
      BY <1>1, <2>2, <3>1 DEF Request, Exports, Reveals
    <3>2. QED
      BY <2>1, <2>10, <3>1 DEF RevealPersonalToken
  <2>11. CASE WidenTokenScope(w)
    <3>1. CASE req' = [req EXCEPT ![w].pc = "link"]
      BY <1>1, <2>2, <2>11, <3>1 DEF WidenTokenScope, Paths, Request
    <3>2. QED
      BY <2>1, <2>11, <3>1 DEF WidenTokenScope
  <2>12. CASE ResolveSetupLink(w)
    <3>1. ASSUME NEW i \in links, req' = [req EXCEPT ![w].token = i, ![w].pc = "reveal"]
          PROVE  Paths'
      BY <1>1, <1>2, <3>1 DEF Request
    <3>2. QED
      BY <2>1, <2>12, <3>1 DEF ResolveSetupLink
  <2>13. QED
    BY <1>5, <2>3, <2>4, <2>5, <2>6, <2>7, <2>8, <2>9, <2>10, <2>11, <2>12 DEF Serve
<1>6. ASSUME NEW w \in Workers, NEW op, NEW models, Ask(w, op, models)
      PROVE  Paths'
  <2>1. /\ req'[w].op = op /\ req'[w].pc = FirstStep(op)
        /\ \A v \in Workers : v # w => req'[v] = req[v]
    BY <1>1, <1>6 DEF Ask, Answer
  <2>2. QED
    BY <1>2, <2>1 DEF FirstStep, Reveals
<1>7. ASSUME NEW w \in Workers, NEW n \in DOMAIN Secrets, Restart(w, n)
      PROVE  Paths'
  BY <1>3, <1>7 DEF Restart
<1>8. QED
  BY <1>4, <1>5, <1>6, <1>7 DEF Next, RecordUsage, RevokeToken, Expire, SetUserAdmin

\* The other variables keep their types.
LEMMA TypedNext ==
    ASSUME Inv, Next
    PROVE  Typed'
<1>1. Typed /\ rows' \in Seq(Rows) /\ Follows(rows', rows) /\ req' \in [Workers -> Request]
  BY RowsNext, ReqType DEF Inv
<1>2. DOMAIN rows \subseteq DOMAIN rows'
  BY <1>1 DEF Typed, Follows
<1>3. ASSUME NEW w \in Workers, Serve(w)
      PROVE  Typed'
  <2>1. links' = links \/ links' = {} \/ (CreateSetupLink(w) /\ links' = links \cup {req[w].token})
    BY <1>3 DEF Serve, ReadConfig, WriteConfig, RereadConfig, MarkConfig, ReplaceConfig,
        CreateToken, CreatePersonalToken, RequirePersonalToken, RevealPersonalToken,
        WidenTokenScope, UpdateTokenModels, CreateSetupLink, ResolveSetupLink, GiveUp
  <2>2. CreateSetupLink(w) => req[w].token \in DOMAIN rows
    BY DEF Inv, Reads, ReadOK, Holding, CreateSetupLink
  <2>3. links' \subseteq DOMAIN rows'
    BY <1>1, <1>2, <2>1, <2>2 DEF Typed
  <2>4. locked' \in {None, w, locked} /\ admin' = admin /\ secret' = secret
    BY <1>3 DEF Serve, ReadConfig, WriteConfig, RereadConfig, MarkConfig, ReplaceConfig,
        CreateToken, CreatePersonalToken, RequirePersonalToken, RevealPersonalToken,
        WidenTokenScope, UpdateTokenModels, CreateSetupLink, ResolveSetupLink, GiveUp
  <2>5. QED
    BY <1>1, <2>3, <2>4 DEF Typed
<1>4. ASSUME NEW w \in Workers, RecordUsage(w)
      PROVE  Typed'
  BY <1>1, <1>4 DEF Typed, RecordUsage
<1>5. ASSUME NEW w \in Workers, NEW op, NEW models, Ask(w, op, models)
      PROVE  Typed'
  BY <1>1, <1>5 DEF Typed, Ask
<1>6. ASSUME NEW w \in Workers, NEW n \in DOMAIN Secrets, Restart(w, n)
      PROVE  Typed'
  BY <1>1, <1>6 DEF Typed, Restart
<1>7. ASSUME NEW i \in DOMAIN rows, RevokeToken(i)
      PROVE  Typed'
  BY <1>1, <1>2, <1>7 DEF Typed, RevokeToken
<1>8. ASSUME NEW i \in links, Expire(i)
      PROVE  Typed'
  BY <1>1, <1>8 DEF Typed, Expire
<1>9. CASE SetUserAdmin
  BY <1>1, <1>9 DEF Typed, SetUserAdmin
<1>10. QED
  BY <1>3, <1>4, <1>5, <1>6, <1>7, <1>8, <1>9 DEF Next

\* The invariant holds of a database that is new or comes from before keys were marked.
LEMMA InvInit == Init => Inv
<1> SUFFICES ASSUME Init PROVE Inv
  OBVIOUS
<1>1. rows \in Seq(UnmarkedRows)
  BY TokensAssumption DEF Init
<1>2. \A i \in DOMAIN rows : rows[i] \in Rows /\ rows[i].purpose \in {"plain", "named"}
  BY <1>1 DEF UnmarkedRows
<1>3. rows \in Seq(Rows)
  <2>1. rows \in [1..Len(rows) -> Rows]
    BY <1>1, <1>2
  <2>2. QED
    BY <1>1, <2>1
<1>4. Sound(rows)
  BY <1>2 DEF Sound, OneActive, Superseded, ActiveConfig
<1>5. Answer(None) \in Request /\ Answer(None).pc = "done"
  BY AnswerType DEF Answer
<1>6. \A w \in Workers : req[w].pc = "done"
  BY <1>5 DEF Init
<1>7. Reads /\ Paths
  BY <1>6 DEF Reads, ReadOK, Paths, Deciding, Retrying, Holding
<1>8. 1 \in DOMAIN Secrets
  BY TokensAssumption
<1>9. Typed
  BY <1>3, <1>5, <1>8 DEF Init, Typed
<1>10. QED
  BY <1>4, <1>7, <1>9 DEF Inv

\* The invariant is inductive.
LEMMA InvNext == Inv /\ [Next]_vars => Inv'
<1> SUFFICES ASSUME Inv, [Next]_vars PROVE Inv'
  OBVIOUS
<1>1. CASE Next
  BY <1>1, RowsNext, TypedNext, ReadsNext, PathsNext DEF Inv
<1>2. CASE UNCHANGED vars
  <2>1. Typed' /\ Sound(rows)'
    BY <1>2 DEF Inv, Typed, vars
  <2>2. Reads' /\ Paths'
    BY <1>2 DEF Inv, vars, Reads, ReadOK, Paths, SecretOf
  <2>3. QED
    BY <2>1, <2>2 DEF Inv
<1>3. QED
  BY <1>1, <1>2

-----------------------------------------------------------------------------
(* The theorems.                                                           *)

\* What a request read before it writes still describes the rows it writes to.
THEOREM InvHolds == Spec => []Inv
BY InvInit, InvNext, PTL DEF Spec

\* Every variable keeps its type, no user has two live config keys and none has two
\* live personal tokens, although a worker decides on rows read before its
\* transaction and marks a row without looking for another (get_or_create_config_token,
\* create_personal_token): the two partial unique indexes never refuse a write.
THEOREM TypesHold == Spec => []TypeOK
<1>1. Inv => TypeOK
  <2> SUFFICES ASSUME Inv PROVE TypeOK
    OBVIOUS
  <2>1. Cardinality(ActiveConfig(rows)) <= 1
    BY AtMostOne DEF Inv, Sound, OneActive
  <2>2. Cardinality({i \in DOMAIN rows : rows[i].purpose = "personal" /\ rows[i].live}) <= 1
    <3> DEFINE S == {i \in DOMAIN rows : rows[i].purpose = "personal" /\ rows[i].live}
    <3>1. \A i, j \in S : i = j
      BY DEF Inv, Typed, Sound, Superseded
    <3> HIDE DEF S
    <3>2. Cardinality(S) <= 1
      BY <3>1, AtMostOne
    <3>3. QED
      BY <3>2 DEF S
  <2>3. QED
    BY <2>1, <2>2 DEF Inv, Typed, TypeOK
<1>2. QED
  BY <1>1, InvHolds, PTL

\* Minting a personal token ends every older token of the user, whatever downloads,
\* edits and restarts of other workers were under way (create_personal_token).
THEOREM PersonalEndsOlder == Spec => []PersonalSupersedes
<1>1. Inv => PersonalSupersedes
  BY DEF Inv, Sound, Superseded, PersonalSupersedes
<1>2. QED
  BY <1>1, InvHolds, PTL

-----------------------------------------------------------------------------
(* One secret.                                                             *)

\* The keys of the generations that were added since ts was read are the ones the
\* first secret derives.
Counted(rs, ts) ==
    \A g \in Nat : Generations(ts) <= g /\ g < Generations(rs) =>
        \E i \in DOMAIN rs : rs[i].key = ConfigKey(Secrets[1], g)

Derived(rs) == \A i \in ActiveConfig(rs) : Derives(rs, Secrets[1], i)

OneSecret == \A w \in Workers : secret[w] = 1

\* While there is one secret: the active key is derived, and what came in between is.
Agreed ==
    OneSecret =>
        /\ Derived(rows)
        /\ \A w \in Workers : req[w].pc \in Deciding => Counted(rows, req[w].snap)

\* rs comes after ts and keeps to the first secret.
Agrees(rs, ts) == Derived(rs) /\ \A us \in Seq(Rows) : Counted(ts, us) => Counted(rs, us)

\* A write that adds no generation, and activates only derived keys.
LEMMA QuietAgrees ==
    ASSUME NEW rs \in Seq(Rows), NEW ts \in Seq(Rows), Follows(rs, ts),
           Generations(rs) = Generations(ts),
           \A i \in ActiveConfig(rs) : i \in DOMAIN ts /\ Derives(ts, Secrets[1], i)
    PROVE  Agrees(rs, ts)
<1>1. Derived(rs)
  BY DerivesKept DEF Derived
<1>2. \A i \in DOMAIN ts : i \in DOMAIN rs /\ rs[i].key = ts[i].key
  BY DEF Follows
<1>3. ASSUME NEW us \in Seq(Rows), Counted(ts, us)
      PROVE  Counted(rs, us)
  <2> SUFFICES ASSUME NEW g \in Nat, Generations(us) <= g, g < Generations(rs)
               PROVE  \E i \in DOMAIN rs : rs[i].key = ConfigKey(Secrets[1], g)
    BY DEF Counted
  <2>1. PICK i \in DOMAIN ts : ts[i].key = ConfigKey(Secrets[1], g)
    BY <1>3 DEF Counted
  <2>2. QED
    BY <1>2, <2>1
<1>4. QED
  BY <1>1, <1>3 DEF Agrees

\* Rows that follow others and are as many have as many generations.
LEMMA SameGenerations ==
    ASSUME NEW rs \in Seq(Rows), NEW ts \in Seq(Rows), Follows(rs, ts), Len(rs) = Len(ts)
    PROVE  Generations(rs) = Generations(ts)
<1>1. {j \in DOMAIN rs : IsConfig(rs[j])} = {j \in DOMAIN ts : IsConfig(ts[j])}
  BY DEF Follows
<1>2. QED
  BY <1>1, Zenon DEF Generations

\* The insert that no other worker has won takes the generation of its place.
LEMMA InsertAgrees ==
    ASSUME NEW rs \in Seq(Rows), NEW snap \in Seq(Rows), Follows(rs, snap), Counted(rs, snap),
           ConfigKey(Secrets[1], Generations(snap)) \in Keys,
           ~Collides(rs, ConfigKey(Secrets[1], Generations(snap)))
    PROVE  Agrees(Append(rs, Row("config", ConfigKey(Secrets[1], Generations(snap)), Models)), rs)
<1> DEFINE row == Row("config", ConfigKey(Secrets[1], Generations(snap)), Models)
           new == Append(rs, row)
           n == Len(rs) + 1
<1>1. row \in Rows /\ row.purpose = "config" /\ row.live
      /\ row.key = ConfigKey(Secrets[1], Generations(snap))
  BY DEF Row, Rows, Purposes
<1> HIDE DEF row
<1>2. ActiveConfig(rs) = {} /\ \A i \in DOMAIN rs : rs[i].key # row.key
  BY <1>1 DEF Collides
<1>3. Generations(rs) \in Nat /\ Generations(snap) \in Nat /\ Generations(snap) <= Generations(rs)
  BY GenerationType, GenerationsGrow
<1>4. Generations(snap) = Generations(rs)
  BY <1>1, <1>2, <1>3 DEF Counted
<1>5. new \in Seq(Rows) /\ ActiveConfig(new) = {n}
  BY <1>1, <1>2, AppendIs
<1>6. IsConfig(row)
  BY <1>1 DEF IsConfig
<1>7. Generation(new, n) = Generations(rs) /\ Generations(new) = Generations(rs) + 1
  BY <1>1, <1>6, GenerationsAppend
<1>8. new[n] = row /\ n \in DOMAIN new /\ \A i \in DOMAIN rs : i \in DOMAIN new /\ new[i] = rs[i]
  BY <1>1
<1> HIDE DEF new, n
<1>9. Derived(new)
  BY <1>1, <1>4, <1>5, <1>6, <1>7, <1>8 DEF Derived, Derives
<1>10. ASSUME NEW us \in Seq(Rows), Counted(rs, us)
       PROVE  Counted(new, us)
  <2> SUFFICES ASSUME NEW g \in Nat, Generations(us) <= g, g < Generations(new)
               PROVE  \E i \in DOMAIN new : new[i].key = ConfigKey(Secrets[1], g)
    BY DEF Counted
  <2>1. CASE g = Generations(rs)
    BY <1>1, <1>4, <1>8, <2>1
  <2>2. CASE g # Generations(rs)
    <3>1. g < Generations(rs)
      BY <1>3, <1>7, <2>2
    <3>2. PICK i \in DOMAIN rs : rs[i].key = ConfigKey(Secrets[1], g)
      BY <1>10, <3>1 DEF Counted
    <3>3. QED
      BY <1>8, <3>2
  <2>3. QED
    BY <2>1, <2>2
<1>11. QED
  BY <1>9, <1>10 DEF Agrees, new, row

\* Agreement passes from one write of a transaction to the next.
LEMMA AgreesOn ==
    ASSUME NEW rs, NEW ts, NEW us, Agrees(rs, ts), Agrees(ts, us)
    PROVE  Agrees(rs, us)
BY DEF Agrees

\* Revoking rows activates nothing.
LEMMA KilledAgrees ==
    ASSUME NEW rs \in Seq(Rows), Derived(rs), NEW S
    PROVE  Agrees(Killed(rs, S), rs)
<1>1. /\ Killed(rs, S) \in Seq(Rows) /\ Follows(Killed(rs, S), rs)
      /\ Len(Killed(rs, S)) = Len(rs) /\ ActiveConfig(Killed(rs, S)) \subseteq ActiveConfig(rs)
  BY KilledIs
<1>2. Generations(Killed(rs, S)) = Generations(rs)
  BY <1>1, SameGenerations
<1>3. \A i \in ActiveConfig(rs) : i \in DOMAIN rs
  BY DEF ActiveConfig
<1>4. QED
  BY <1>1, <1>2, <1>3, QuietAgrees DEF Derived

\* Every step keeps the agreement on the first secret while it is the only one.
LEMMA RowsAgree ==
    ASSUME Inv, OneSecret, Agreed, Next
    PROVE  Agrees(rows', rows)
<1>1. /\ Typed /\ rows \in Seq(Rows) /\ Derived(rows)
      /\ rows' \in Seq(Rows) /\ Follows(rows', rows)
      /\ \A i \in ActiveConfig(rows) : i \in DOMAIN rows
  BY RowsNext DEF Inv, Typed, Agreed, ActiveConfig
<1>2. ASSUME Len(rows') = Len(rows), ActiveConfig(rows') \subseteq ActiveConfig(rows)
      PROVE  Agrees(rows', rows)
  BY <1>1, <1>2, SameGenerations, QuietAgrees DEF Derived
<1>3. ASSUME NEW w \in Workers
      PROVE  /\ SecretOf(w) = Secrets[1] /\ req[w].snap \in Seq(Rows)
             /\ ConfigKey(Secrets[1], Generations(req[w].snap)) \in Keys
             /\ req[w].pc \in Deciding =>
                   Follows(rows, req[w].snap) /\ Counted(rows, req[w].snap)
  <2>1. SecretOf(w) = Secrets[1] /\ req[w].snap \in Seq(Rows)
    BY <1>1 DEF OneSecret, SecretOf, Typed, Request
  <2>2. ConfigKey(Secrets[1], Generations(req[w].snap)) \in Keys
    BY <1>1, <2>1, GenerationType, RowTypes
  <2>3. QED
    BY <2>1, <2>2 DEF Inv, Reads, ReadOK, Agreed
<1>4. ASSUME NEW w \in Workers, WriteConfig(w)
      PROVE  Agrees(rows', rows)
  <2> DEFINE snap == req[w].snap
             reusable == Reusable(snap, SecretOf(w))
             cleared == IF ActiveConfig(snap) = {} THEN rows ELSE Killed(rows, ActiveConfig(rows))
             key == ConfigKey(SecretOf(w), Generations(snap))
             i == First(reusable)
  <2>1. Follows(rows, snap) /\ Counted(rows, snap)
    BY <1>3, <1>4 DEF Deciding, WriteConfig
  <2>2. /\ cleared \in Seq(Rows) /\ Follows(cleared, rows) /\ Sound(cleared)
        /\ Len(cleared) = Len(rows) /\ ActiveConfig(cleared) \subseteq ActiveConfig(rows)
    BY <1>1, KilledIs, FollowsSelf DEF Inv
  <2>3. Agrees(cleared, rows)
    <3>1. Agrees(rows, rows)
      BY <1>1 DEF Agrees
    <3>2. QED
      BY <1>1, <3>1, KilledAgrees
  <2> HIDE DEF cleared
  <2>4. CASE reusable # {} /\ rows' = Marked(cleared, i)
    <3>1. i \in DOMAIN rows /\ IsConfig(rows[i]) /\ Derives(rows, Secrets[1], i)
      BY <1>1, <1>3, <2>1, <2>4, ReusableIs
    <3>2. i \in DOMAIN cleared /\ IsConfig(cleared[i])
      BY <1>1, <2>2, <3>1 DEF Follows
    <3>3. Len(rows') = Len(rows) /\ ActiveConfig(rows') \subseteq ActiveConfig(cleared) \cup {i}
      BY <2>2, <2>4, <3>2, MarkedIs
    <3>4. QED
      BY <1>1, <2>2, <3>1, <3>3, SameGenerations, QuietAgrees DEF Derived
  <2>5. CASE ~Collides(cleared, key) /\ rows' = Append(cleared, Row("config", key, Models))
    <3>1. Follows(cleared, snap) /\ Counted(cleared, snap)
      BY <1>1, <1>3, <2>1, <2>2, <2>3, FollowsOn DEF Agrees
    <3>2. Agrees(rows', cleared)
      BY <1>3, <2>2, <2>5, <3>1, InsertAgrees
    <3>3. QED
      BY <2>3, <3>2, AgreesOn
  <2>6. CASE UNCHANGED rows
    BY <1>2, <2>6
  <2>7. QED
    BY <1>4, <2>4, <2>5, <2>6 DEF WriteConfig, cleared
<1>5. ASSUME NEW w \in Workers, MarkConfig(w)
      PROVE  Agrees(rows', rows)
  <2> DEFINE i == First(Reusable(req[w].snap, SecretOf(w)))
  <2>1. i \in DOMAIN rows /\ IsConfig(rows[i]) /\ Derives(rows, Secrets[1], i)
    BY <1>1, <1>3, <1>5, ReusableIs DEF Inv, Reads, ReadOK, Deciding, MarkConfig
  <2>2. Len(rows') = Len(rows) /\ ActiveConfig(rows') \subseteq ActiveConfig(rows) \cup {i}
    BY <1>1, <1>5, <2>1, MarkedIs DEF MarkConfig
  <2>3. QED
    BY <1>1, <2>1, <2>2, SameGenerations, QuietAgrees DEF Derived
<1>6. ASSUME NEW w \in Workers, ReplaceConfig(w)
      PROVE  Agrees(rows', rows)
  <2> DEFINE snap == req[w].snap
             cleared == Killed(rows, ActiveConfig(rows))
             key == ConfigKey(SecretOf(w), Generations(snap))
  <2>1. Follows(rows, snap) /\ Counted(rows, snap)
    BY <1>3, <1>6 DEF Deciding, ReplaceConfig
  <2>2. cleared \in Seq(Rows) /\ Follows(cleared, rows) /\ Agrees(cleared, rows)
    BY <1>1, KilledIs, KilledAgrees
  <2> HIDE DEF cleared
  <2>3. CASE ~Collides(cleared, key) /\ rows' = Append(cleared, Row("config", key, Models))
    <3>1. Follows(cleared, snap) /\ Counted(cleared, snap)
      BY <1>1, <1>3, <2>1, <2>2, FollowsOn DEF Agrees
    <3>2. Agrees(rows', cleared)
      BY <1>3, <2>2, <2>3, <3>1, InsertAgrees
    <3>3. QED
      BY <2>2, <3>2, AgreesOn
  <2>4. QED
    BY <1>2, <1>6, <2>3 DEF ReplaceConfig, cleared
<1>7. ASSUME NEW rs \in Seq(Rows), Agrees(rs, rows), Derived(rs), NEW row \in Rows,
             row.purpose \in {"plain", "personal"}, row.live,
             row.purpose = "personal" => \A i \in DOMAIN rs : ~rs[i].live,
             rows' = Append(rs, row)
      PROVE  Agrees(rows', rows)
  <2>1. ~IsConfig(row)
    BY <1>7 DEF IsConfig
  <2>2. Generations(rows') = Generations(rs)
    <3>1. Generations(Append(rs, row)) = Generations(rs) + (IF IsConfig(row) THEN 1 ELSE 0)
      BY GenerationsAppend
    <3>2. Generations(rs) \in Nat
      BY GenerationType
    <3>3. QED
      BY <1>7, <2>1, <3>1, <3>2
  <2>3. ActiveConfig(rows') = ActiveConfig(rs) /\ Follows(rows', rs)
    BY <1>7, AppendIs
  <2>4. \A i \in ActiveConfig(rs) : i \in DOMAIN rs
    BY DEF ActiveConfig
  <2>5. Agrees(rows', rs)
    BY <1>1, <1>7, <2>2, <2>3, <2>4, QuietAgrees DEF Derived
  <2>6. QED
    BY <1>7, <2>5, AgreesOn
<1>8. ASSUME NEW w \in Workers, CreateToken(w)
      PROVE  Agrees(rows', rows)
  <2>1. Len(rows) + 1 \in Nat
    BY <1>1
  <2>2. Row("plain", RandomKey(Len(rows) + 1), Models) \in Rows
    BY <1>1, <2>1, RowTypes DEF Purposes
  <2>3. Agrees(rows, rows)
    BY <1>1 DEF Agrees
  <2>4. QED
    BY <1>1, <1>7, <1>8, <2>2, <2>3 DEF CreateToken, Row
<1>9. ASSUME NEW w \in Workers, CreatePersonalToken(w)
      PROVE  Agrees(rows', rows)
  <2> DEFINE row == Row("personal", PersonalKey(SecretOf(w), Len(rows) + 1), req[w].models)
             cleared == Killed(rows, DOMAIN rows)
  <2>1. Len(rows) + 1 \in Nat /\ req[w].models \in SUBSET Models
    BY <1>1 DEF Typed, Request
  <2>2. row \in Rows /\ row.purpose = "personal" /\ row.live
    <3>1. row \in Rows
      BY <1>1, <2>1, RowTypes DEF Purposes
    <3>2. QED
      BY <3>1 DEF Row
  <2>3. rows' = Append(cleared, row)
    BY <1>9 DEF CreatePersonalToken
  <2>4. cleared \in Seq(Rows) /\ \A i \in DOMAIN cleared : ~cleared[i].live
    BY <1>1, KilledIs
  <2>5. Agrees(cleared, rows) /\ Derived(cleared)
    BY <1>1, KilledAgrees DEF Agrees
  <2> HIDE DEF row, cleared
  <2>6. QED
    BY <1>7, <2>2, <2>3, <2>4, <2>5
<1>10. ASSUME NEW i \in DOMAIN rows, NEW models \in SUBSET Models, rows' = SetTokenModels(i, models)
       PROVE  Agrees(rows', rows)
  BY <1>1, <1>2, <1>10, SetTokenModelsIs
<1>11. ASSUME NEW w \in Workers, WidenTokenScope(w)
       PROVE  Agrees(rows', rows)
  <2>1. /\ req[w].token \in DOMAIN rows /\ req[w].scope \cup req[w].models \in SUBSET Models
    BY <1>11 DEF Inv, Typed, Request, Reads, ReadOK, Holding, WidenTokenScope
  <2>2. rows' = SetTokenModels(req[w].token, req[w].scope \cup req[w].models) \/ rows' = rows
    BY <1>11 DEF WidenTokenScope
  <2>3. QED
    BY <1>2, <1>10, <2>1, <2>2
<1>12. ASSUME NEW w \in Workers, UpdateTokenModels(w)
       PROVE  Agrees(rows', rows)
  <2>1. /\ req[w].token \in DOMAIN rows /\ req[w].models \in SUBSET Models
    BY <1>12 DEF Inv, Typed, Request, Reads, ReadOK, Holding, UpdateTokenModels
  <2>2. QED
    BY <1>10, <1>12, <2>1 DEF UpdateTokenModels
<1>13. ASSUME NEW i \in DOMAIN rows, RevokeToken(i)
       PROVE  Agrees(rows', rows)
  BY <1>1, <1>13, KilledAgrees DEF RevokeToken
<1>14. CASE UNCHANGED rows
  BY <1>2, <1>14
<1>15. QED
  BY <1>4, <1>5, <1>6, <1>8, <1>9, <1>11, <1>12, <1>13, <1>14
     DEF Next, Serve, ReadConfig, RereadConfig, RequirePersonalToken, RevealPersonalToken,
         CreateSetupLink, ResolveSetupLink, GiveUp, SetUserAdmin, RecordUsage, Expire, Restart, Ask

\* What a request has read last is what was there, or what it had read before.
LEMMA SnapsNext ==
    ASSUME Typed, Next, NEW w \in Workers, req'[w].pc \in Deciding
    PROVE  \/ req'[w] = req[w]
           \/ req'[w].snap = rows /\ rows' = rows
<1>1. req \in [Workers -> Request]
  BY DEF Typed
<1>2. ASSUME NEW v \in Workers, NEW raw, Finish(v, raw)
      PROVE  req'[w] = req[w]
  BY <1>1, <1>2 DEF Finish, Answer, Deciding
<1>3. ASSUME NEW v \in Workers, Serve(v)
      PROVE  \/ req'[w] = req[w]
             \/ req'[w].snap = rows /\ rows' = rows
  <2>1. CASE \E raw : Finish(v, raw)
    BY <1>2, <2>1
  <2>2. CASE req'[v].pc \notin Deciding /\ \A u \in Workers : u # v => req'[u] = req[u]
    BY <2>2
  <2>3. CASE ReadConfig(v)
    BY <1>1, <2>1, <2>3 DEF ReadConfig, Request
  <2>4. CASE WriteConfig(v)
    BY SMTT(30), <1>1, <2>1, <2>2, <2>4 DEF WriteConfig, Request, Deciding
  <2>5. CASE RereadConfig(v)
    BY <1>1, <2>5 DEF RereadConfig, Request
  <2>6. CASE ReplaceConfig(v)
    BY <1>1, <2>1, <2>2, <2>6 DEF ReplaceConfig, Request, Deciding
  <2>7. CASE MarkConfig(v) \/ CreateToken(v) \/ CreatePersonalToken(v) \/ UpdateTokenModels(v)
             \/ CreateSetupLink(v) \/ GiveUp(v)
    BY <2>1, <2>7 DEF MarkConfig, CreateToken, CreatePersonalToken, UpdateTokenModels,
        CreateSetupLink, GiveUp
  <2>8. CASE RequirePersonalToken(v)
    <3>1. CASE req' = [req EXCEPT
                 ![v].token = ActiveToken,
                 ![v].scope = rows[ActiveToken].scope,
                 ![v].pc = IF req[v].op = "edit" THEN "set" ELSE "reveal"]
      <4>1. /\ req'[v].pc \in {"set", "reveal"}
            /\ \A u \in Workers : u # v => req'[u] = req[u]
        BY <1>1, <3>1 DEF Request
      <4>2. QED
        BY <2>2, <4>1 DEF Deciding
    <3>2. QED
      BY <2>1, <2>8, <3>1 DEF RequirePersonalToken
  <2>9. CASE RevealPersonalToken(v)
    BY <1>1, <2>1, <2>2, <2>9 DEF RevealPersonalToken, Request, Deciding
  <2>10. CASE WidenTokenScope(v)
    BY <1>1, <2>1, <2>2, <2>10 DEF WidenTokenScope, Request, Deciding
  <2>11. CASE ResolveSetupLink(v)
    BY ZenonT(60), <1>1, <2>1, <2>2, <2>11 DEF ResolveSetupLink, Request, Deciding
  <2>12. QED
    BY <1>3, <2>3, <2>4, <2>5, <2>6, <2>7, <2>8, <2>9, <2>10, <2>11 DEF Serve
<1>4. ASSUME NEW v \in Workers, NEW op, NEW models, Ask(v, op, models)
      PROVE  req'[w] = req[w]
  <2>1. req'[v].pc = FirstStep(op) /\ \A u \in Workers : u # v => req'[u] = req[u]
    BY <1>1, <1>4 DEF Ask, Answer
  <2>2. FirstStep(op) \in {"read", "insert", "mint", "resolve", "active"}
    BY DEF FirstStep
  <2>3. QED
    BY <2>1, <2>2 DEF Deciding
<1>5. ASSUME NEW v \in Workers, NEW n \in DOMAIN Secrets, Restart(v, n)
      PROVE  req'[w] = req[w]
  BY <1>2, <1>5 DEF Restart
<1>6. CASE UNCHANGED req
  BY <1>6
<1>7. QED
  BY <1>3, <1>4, <1>5, <1>6 DEF Next, RecordUsage, RevokeToken, Expire, SetUserAdmin

\* A worker's secret is only ever replaced by the next one.
LEMMA SecretsGrow ==
    ASSUME Typed, Next, OneSecret'
    PROVE  OneSecret
<1>1. secret \in [Workers -> DOMAIN Secrets] /\ DOMAIN Secrets \subseteq Nat \ {0}
  BY TokensAssumption DEF Typed
<1>2. ASSUME NEW w \in Workers, NEW n \in DOMAIN Secrets, Restart(w, n)
      PROVE  OneSecret
  <2>1. secret' = [secret EXCEPT ![w] = n] /\ n \in {secret[w], secret[w] + 1}
    BY <1>2 DEF Restart
  <2>2. n = 1 /\ secret[w] \in Nat \ {0}
    BY <1>1, <2>1 DEF OneSecret
  <2>3. secret[w] = 1
    BY <2>1, <2>2
  <2>4. QED
    BY <1>1, <2>1, <2>3 DEF OneSecret
<1>3. CASE UNCHANGED secret
  BY <1>3 DEF OneSecret
<1>4. QED
  BY ZenonT(60), <1>2, <1>3
     DEF Next, Serve, ReadConfig, WriteConfig, RereadConfig, MarkConfig, ReplaceConfig,
         CreateToken, CreatePersonalToken, RequirePersonalToken, RevealPersonalToken,
         WidenTokenScope, UpdateTokenModels, CreateSetupLink, ResolveSetupLink, GiveUp,
         SetUserAdmin, RecordUsage, RevokeToken, Expire, Ask

\* The agreement is inductive, together with the invariant.
LEMMA AgreedNext == Inv /\ Agreed /\ [Next]_vars => Agreed'
<1> SUFFICES ASSUME Inv, Agreed, [Next]_vars PROVE Agreed'
  OBVIOUS
<1>1. CASE UNCHANGED vars
  BY <1>1 DEF Agreed, OneSecret, vars
<1>2. CASE Next
  <2> SUFFICES ASSUME OneSecret'
               PROVE  /\ Derived(rows')
                      /\ \A w \in Workers : req'[w].pc \in Deciding => Counted(rows', req'[w].snap)
    BY DEF Agreed
  <2>1. Typed /\ rows \in Seq(Rows) /\ OneSecret
    BY <1>2, SecretsGrow DEF Inv, Typed
  <2>2. Agrees(rows', rows)
    BY <1>2, <2>1, RowsAgree
  <2>3. ASSUME NEW w \in Workers, req'[w].pc \in Deciding
        PROVE  Counted(rows', req'[w].snap)
    <3>1. CASE req'[w] = req[w]
      <4>1. Counted(rows, req[w].snap) /\ req[w].snap \in Seq(Rows)
        BY <2>1, <2>3, <3>1 DEF Agreed, Typed, Request
      <4>2. QED
        BY <2>2, <3>1, <4>1 DEF Agrees
    <3>2. CASE req'[w].snap = rows /\ rows' = rows
      <4>1. Generations(rows) \in Nat
        BY <2>1, GenerationType
      <4>2. Counted(rows, rows)
        BY <4>1 DEF Counted
      <4>3. QED
        BY <3>2, <4>2
    <3>3. QED
      BY <1>2, <2>1, <2>3, <3>1, <3>2, SnapsNext
  <2>4. QED
    BY <2>2, <2>3 DEF Agrees
<1>3. QED
  BY <1>1, <1>2

\* While all workers have the first secret the active config key is one that the
\* next download derives again, whatever races between downloads, losses of them
\* and revocations came before (get_or_create_config_token).
THEOREM DownloadsAgree == Spec => []StableUnderOneSecret
<1>1. Init => Agreed
  <2> SUFFICES ASSUME Init PROVE Agreed
    OBVIOUS
  <2>1. rows \in Seq(UnmarkedRows)
    BY TokensAssumption DEF Init
  <2>2. ActiveConfig(rows) = {}
    BY <2>1 DEF UnmarkedRows, ActiveConfig
  <2>3. \A w \in Workers : req[w].pc = "done"
    BY DEF Init, Answer
  <2>4. QED
    BY <2>2, <2>3 DEF Agreed, Derived, Deciding
<1>2. Agreed => StableUnderOneSecret
  BY DEF Agreed, OneSecret, Derived, StableUnderOneSecret
<1>3. QED
  BY <1>1, <1>2, InvHolds, AgreedNext, PTL DEF Spec

-----------------------------------------------------------------------------
(* The keys handed out.                                                    *)

\* A step of a request that ends it answers with a stored key or none, and one that
\* reveals with a live one.
LEMMA AnswersStored ==
    ASSUME Inv, Next, NEW w \in Workers,
           req'[w] # req[w], req'[w].pc = "done", req'[w].raw # None
    PROVE  \E i \in DOMAIN rows' : /\ rows'[i].key = req'[w].raw
                                   /\ req[w].op \in Reveals => rows'[i].live
<1>1. /\ Typed /\ rows \in Seq(Rows) /\ req \in [Workers -> Request] /\ ReadOK(w)
      /\ rows' \in Seq(Rows) /\ Follows(rows', rows)
      /\ req[w].op \in Reveals => req[w].pc \in {"done", "active", "resolve", "reveal"}
  BY RowsNext DEF Inv, Typed, Reads, Paths
<1>2. \A i \in DOMAIN rows : i \in DOMAIN rows' /\ rows'[i].key = rows[i].key
  BY <1>1 DEF Follows
<1>3. ASSUME NEW v \in Workers, NEW raw, Finish(v, raw), raw = None \/ v # w
      PROVE  FALSE
  BY <1>1, <1>3 DEF Finish, Answer
<1>4. ASSUME NEW raw, Finish(w, raw)
      PROVE  req'[w].raw = raw
  BY <1>1, <1>4 DEF Finish, Answer
<1>5. ASSUME NEW v \in Workers, Serve(v), v # w
      PROVE  FALSE
  BY <1>1, <1>5 DEF Serve, ReadConfig, WriteConfig, RereadConfig, MarkConfig, ReplaceConfig,
         CreateToken, CreatePersonalToken, RequirePersonalToken, RevealPersonalToken,
         WidenTokenScope, UpdateTokenModels, CreateSetupLink, ResolveSetupLink, GiveUp, Finish
<1>6. ASSUME Serve(w)
      PROVE  \E i \in DOMAIN rows' : /\ rows'[i].key = req'[w].raw
                                     /\ req[w].op \in Reveals => rows'[i].live
  <2>1. ASSUME NEW i \in DOMAIN rows', rows'[i].key = req'[w].raw,
               req[w].pc \notin {"done", "active", "resolve", "reveal"}
        PROVE  \E j \in DOMAIN rows' : /\ rows'[j].key = req'[w].raw
                                       /\ req[w].op \in Reveals => rows'[j].live
    BY <1>1, <2>1
  <2>2. CASE ReadConfig(w)
    <3>1. Finish(w, rows[Newest(ActiveConfig(rows))].key) /\ ActiveConfig(rows) # {}
      BY <1>1, <2>2 DEF ReadConfig, Request
    <3>2. Newest(ActiveConfig(rows)) \in DOMAIN rows
      BY <1>1, <3>1, NewestActiveIs
    <3>3. QED
      BY <1>2, <1>4, <2>1, <2>2, <3>1, <3>2 DEF ReadConfig
  <2>3. ASSUME NEW rs \in Seq(Rows), NEW key, NEW row \in Rows, row.key = key,
               Finish(w, key), rows' = Append(rs, row),
               req[w].pc \notin {"done", "active", "resolve", "reveal"}
        PROVE  \E i \in DOMAIN rows' : /\ rows'[i].key = req'[w].raw
                                       /\ req[w].op \in Reveals => rows'[i].live
    <3>1. Len(rs) + 1 \in DOMAIN rows' /\ rows'[Len(rs) + 1] = row
      BY <2>3
    <3>2. QED
      BY <1>4, <2>1, <2>3, <3>1
  <2>4. Killed(rows, ActiveConfig(rows)) \in Seq(Rows)
    BY <1>1, KilledIs
  <2>5. /\ req[w].snap \in Seq(Rows)
        /\ Row("config", ConfigKey(SecretOf(w), Generations(req[w].snap)), Models) \in Rows
        /\ Row("config", ConfigKey(SecretOf(w), Generations(req[w].snap)), Models).key
              = ConfigKey(SecretOf(w), Generations(req[w].snap))
    <3>1. req[w].snap \in Seq(Rows)
      BY <1>1 DEF Request
    <3>2. Row("config", ConfigKey(SecretOf(w), Generations(req[w].snap)), Models) \in Rows
      BY <1>1, <3>1, GenerationType, RowTypes DEF Purposes
    <3>3. QED
      BY <3>1, <3>2 DEF Row
  <2>6. CASE WriteConfig(w)
    <3> DEFINE snap == req[w].snap
               i == First(Reusable(snap, SecretOf(w)))
               cleared == IF ActiveConfig(snap) = {} THEN rows ELSE Killed(rows, ActiveConfig(rows))
               key == ConfigKey(SecretOf(w), Generations(snap))
    <3>1. Follows(rows, snap) /\ req[w].pc = "write" /\ cleared \in Seq(Rows)
      BY <1>1, <2>4, <2>6 DEF ReadOK, Deciding, WriteConfig
    <3> HIDE DEF cleared
    <3>2. CASE Reusable(snap, SecretOf(w)) # {} /\ Finish(w, snap[i].key)
      <4>1. i \in DOMAIN rows /\ rows[i].key = snap[i].key
        BY <1>1, <3>1, <3>2, ReusableIs
      <4>2. QED
        BY <1>2, <1>4, <2>1, <3>1, <3>2, <4>1
    <3>3. CASE rows' = Append(cleared, Row("config", key, Models)) /\ Finish(w, key)
      BY <2>3, <2>5, <3>1, <3>3
    <3>4. CASE req' = [req EXCEPT ![w].pc = "reread", ![w].snap = <<>>]
      BY <1>1, <3>4 DEF Request
    <3>5. QED
      BY <1>3, <2>6, <3>2, <3>3, <3>4 DEF WriteConfig, cleared
  <2>7. CASE RereadConfig(w)
    BY <1>1, <2>7 DEF RereadConfig, Request
  <2>8. CASE MarkConfig(w)
    <3> DEFINE i == First(Reusable(req[w].snap, SecretOf(w)))
    <3>1. i \in DOMAIN rows /\ rows[i].key = req[w].snap[i].key
      BY <1>1, <2>8, ReusableIs DEF ReadOK, Deciding, MarkConfig
    <3>2. QED
      BY <1>2, <1>4, <2>1, <2>8, <3>1 DEF MarkConfig
  <2>9. CASE ReplaceConfig(w)
    <3>1. CASE req' = [req EXCEPT ![w].pc = "reread", ![w].snap = <<>>]
      BY <1>1, <3>1 DEF Request
    <3>2. QED
      BY <2>3, <2>4, <2>5, <2>9, <3>1 DEF ReplaceConfig
  <2>10. CASE CreateToken(w)
    <3>1. Row("plain", RandomKey(Len(rows) + 1), Models) \in Rows
      BY <1>1, RowTypes DEF Purposes
    <3>2. Row("plain", RandomKey(Len(rows) + 1), Models).key = RandomKey(Len(rows) + 1)
      BY DEF Row
    <3>3. QED
      BY <1>1, <2>3, <2>10, <3>1, <3>2 DEF CreateToken
  <2>11. CASE RevealPersonalToken(w)
    <3> DEFINE raw == Revealed(w, req[w].token)
    <3>1. CASE Finish(w, raw) /\ raw # None
      <4>1. /\ req[w].token \in DOMAIN rows /\ rows' = rows
        BY <1>1, <2>11 DEF ReadOK, Holding, RevealPersonalToken
      <4>2. raw = rows[req[w].token].key /\ rows[req[w].token].live
        BY <3>1 DEF Revealed
      <4>3. QED
        BY <1>4, <3>1, <4>1, <4>2
    <3>2. CASE req' = [req EXCEPT ![w].pc = "widen", ![w].raw = raw]
      BY <1>1, <3>2 DEF Request
    <3>3. QED
      BY <1>3, <2>11, <3>1, <3>2 DEF RevealPersonalToken
  <2>12. CASE WidenTokenScope(w)
    <3>1. req[w].pc = "widen" /\ req[w].token \in DOMAIN rows /\ req[w].raw = rows[req[w].token].key
      BY <1>1, <2>12 DEF ReadOK, Holding, WidenTokenScope
    <3>2. CASE Finish(w, req[w].raw)
      BY <1>2, <1>4, <2>1, <3>1, <3>2
    <3>3. CASE req' = [req EXCEPT ![w].pc = "link"]
      BY <1>1, <3>3 DEF Request
    <3>4. QED
      BY <2>12, <3>2, <3>3 DEF WidenTokenScope
  <2>13. CASE RequirePersonalToken(w)
    <3>1. CASE req' = [req EXCEPT
                 ![w].token = ActiveToken,
                 ![w].scope = rows[ActiveToken].scope,
                 ![w].pc = IF req[w].op = "edit" THEN "set" ELSE "reveal"]
      <4>1. req'[w].pc \in {"set", "reveal"}
        BY <1>1, <3>1 DEF Request
      <4>2. QED
        BY <4>1
    <3>2. QED
      BY <1>3, <2>13, <3>1 DEF RequirePersonalToken
  <2>14. CASE ResolveSetupLink(w)
    BY ZenonT(60), <1>1, <1>3, <2>14 DEF ResolveSetupLink, Request
  <2>15. CASE CreatePersonalToken(w) \/ UpdateTokenModels(w) \/ CreateSetupLink(w) \/ GiveUp(w)
    BY <1>3, <2>15 DEF CreatePersonalToken, UpdateTokenModels, CreateSetupLink, GiveUp
  <2>16. QED
    BY <1>6, <2>2, <2>6, <2>7, <2>8, <2>9, <2>10, <2>11, <2>12, <2>13, <2>14, <2>15 DEF Serve
<1>7. ASSUME NEW v \in Workers, NEW op, NEW models, Ask(v, op, models)
      PROVE  FALSE
  <2>1. FirstStep(op) # "done"
    BY DEF FirstStep
  <2>2. QED
    BY <1>1, <1>7, <2>1 DEF Ask, Answer
<1>8. ASSUME NEW v \in Workers, NEW n \in DOMAIN Secrets, Restart(v, n)
      PROVE  FALSE
  BY <1>3, <1>8 DEF Restart
<1>9. QED
  BY <1>5, <1>6, <1>7, <1>8 DEF Next, RecordUsage, RevokeToken, Expire, SetUserAdmin

\* A key that a response carries is the key of a stored row, and the copy action and
\* the setup script carry one that is live as they answer, for any secrets and any
\* commits of other workers since the request read (get_or_create_config_token,
\* reveal_personal_token).
THEOREM KeysAreStored == Spec => HandedOutKeys
<1>1. Inv /\ [Next]_vars =>
        [\A w \in Workers :
            req'[w] # req[w] /\ req'[w].pc = "done" /\ req'[w].raw # None =>
                \E i \in DOMAIN rows' :
                    /\ rows'[i].key = req'[w].raw
                    /\ req[w].op \in Reveals => rows'[i].live]_vars
  BY AnswersStored DEF vars
<1>2. QED
  BY <1>1, InvHolds, PTL DEF Spec, HandedOutKeys
=============================================================================
