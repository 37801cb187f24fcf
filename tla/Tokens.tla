------------------------------- MODULE Tokens -------------------------------
(***************************************************************************)
(* The API tokens of one user (auth/store.py) and the requests that mint,  *)
(* reveal, export and revoke them (api/profile.py, api/onboarding.py).     *)
(*                                                                         *)
(* Several worker processes share one SQLite file.  A worker's store lock  *)
(* orders the calls of its own threads only: between a SELECT and the      *)
(* statement that opens the write transaction every other worker may       *)
(* commit.  A restart gives a worker the configured session secret, so     *)
(* while a new secret is rolled out the workers derive different keys.     *)
(* Every statement names the user's rows, so one user stands for all.      *)
(***************************************************************************)
EXTENDS Naturals, Sequences, FiniteSets

CONSTANTS
    Workers,     \* the gateway processes on one database
    Secrets,     \* the session secrets, in the order they are configured
    Models,      \* the models that can be asked for
    Serves,      \* bound: the kinds of request each worker is sent
    Wanted,      \* bound: the sets of models each kind of request names
    Histories,   \* bound: the token rows the database may start with
    MaxRows,     \* bound: token rows in all
    None         \* no key, no worker

Ops == {"download", "plain", "mint", "reveal", "edit", "link", "config", "script"}

\* Requests that answer with the personal token, and those that hand it on in a
\* setup link or a config file for the models they name.
Reveals == {"reveal", "script"}
Exports == {"link", "config"}

Purposes == {"plain", "named", "config", "personal"}

ConfigKey(s, n) == [kind |-> "config", secret |-> s, n |-> n]
PersonalKey(s, n) == [kind |-> "personal", secret |-> s, n |-> n]
RandomKey(n) == [kind |-> "random", secret |-> None, n |-> n]

Keys ==
    [kind : {"config", "personal", "random"},
     secret : {Secrets[n] : n \in DOMAIN Secrets} \cup {None}, n : Nat]

\* "plain" and "named" are rows without a purpose: "named" ones bear the
\* display name agent-config, which earlier versions gave to generated keys
\* and which users could give to tokens of their own.
Rows == [purpose : Purposes, key : Keys, scope : SUBSET Models, live : BOOLEAN]

\* What the upgrade of an earlier database finds: its rows get an empty purpose.
UnmarkedRows == {row \in Rows : row.purpose \in {"plain", "named"}}

ASSUME TokensAssumption ==
    /\ Secrets \in Seq({Secrets[n] : n \in DOMAIN Secrets}) /\ Len(Secrets) > 0
    /\ None \notin Workers \cup {Secrets[n] : n \in DOMAIN Secrets}
    /\ MaxRows \in Nat
    /\ Histories \subseteq Seq(UnmarkedRows)
    /\ Serves \in [Workers -> SUBSET Ops]
    /\ Wanted \in [Ops -> SUBSET SUBSET Models]

VARIABLES
    rows,      \* the tokens table, by id
    links,     \* the token ids of the unexpired setup links
    admin,     \* the user has admin access
    secret,    \* the position in Secrets of each worker's session secret
    req,       \* the request each worker is serving, or its last answer
    locked     \* the worker that left a write transaction open, or None

vars == <<rows, links, admin, secret, req, locked>>

Steps == {"done", "read", "write", "reread", "mark", "replace", "insert", "mint",
          "active", "reveal", "widen", "set", "link", "resolve"}

\* token, scope and snap are what the request has read; models is its input.
Request == [op : Ops \cup {"idle"}, pc : Steps, raw : Keys \cup {None}, token : Nat,
            scope : SUBSET Models, models : SUBSET Models, snap : Seq(Rows)]

Answer(raw) ==
    [op |-> "idle", pc |-> "done", raw |-> raw, token |-> 0,
     scope |-> {}, models |-> {}, snap |-> <<>>]

Init ==
    /\ rows \in Histories
    /\ links = {}
    /\ admin \in BOOLEAN
    /\ secret = [w \in Workers |-> 1]
    /\ req = [w \in Workers |-> Answer(None)]
    /\ locked = None

-----------------------------------------------------------------------------
(* The store's reads and writes.                                           *)

\* _CONFIG_ROWS_SQL: the rows that count as generations of the config key.
IsConfig(row) == row.purpose \in {"config", "named"}

\* Position of a row among them, and the number of them.
Generation(rs, i) == Cardinality({j \in 1..(i - 1) : IsConfig(rs[j])})
GenerationsBefore(rs) == Cardinality({j \in DOMAIN rs : IsConfig(rs[j])}) - 1
Generations(rs) == Cardinality({j \in DOMAIN rs : IsConfig(rs[j])})

\* The derived value for a stored generation is the row's.
Derives(rs, s, i) == IsConfig(rs[i]) /\ rs[i].key = ConfigKey(s, Generation(rs, i))

ActiveConfig(rs) == {i \in DOMAIN rs : rs[i].purpose = "config" /\ rs[i].live}

\* The live rows the secret derives, of which the scan takes the first.
Reusable(rs, s) == {i \in DOMAIN rs : Derives(rs, s, i) /\ rs[i].live}
First(S) == CHOOSE i \in S : \A j \in S : i <= j
Newest(S) == CHOOSE i \in S : \A j \in S : i >= j

Killed(rs, S) == [i \in DOMAIN rs |-> [rs[i] EXCEPT !.live = @ /\ i \notin S]]

\* The two uniqueness constraints an insert of a config key can hit, and the
\* one that marking a row as config key can.
CollidesActive(rs, key) == ActiveConfig(rs) # {}
Collides(rs, key) ==
    ActiveConfig(rs) # {} \/ \E i \in DOMAIN rs : rs[i].key = key
MarkCollides(rs, i) == rs[i].live /\ ActiveConfig(rs) \ {i} # {}
Marked(rs, i) == [rs EXCEPT ![i].purpose = "config"]

Row(purpose, key, scope) ==
    [purpose |-> purpose, key |-> key, scope |-> scope, live |-> TRUE]

SecretOf(w) == Secrets[secret[w]]

\* A writer waits for the write lock of the database.
MayWrite(w) == locked \in {None, w}

Finish(w, raw) == req' = [req EXCEPT ![w] = Answer(raw)]

-----------------------------------------------------------------------------
(* Requests.                                                               *)

\* Requests that add a row, for the bound on rows.
Adding(w) == req[w].pc # "done" /\ req[w].op \in {"download", "plain", "mint"}

FirstStep(op) ==
    CASE op = "download" -> "read"
      [] op = "plain" -> "insert"
      [] op = "mint" -> "mint"
      [] op = "script" -> "resolve"
      [] OTHER -> "active"

\* The session's user is read and its role checked; the whitelist check and
\* the choice of models follow, and the store is called after those awaits.
MayAsk(op) ==
    CASE op \in {"download", "plain"} -> admin
      [] op = "script" -> TRUE
      [] OTHER -> ~admin

Ask(w, op, models) ==
    /\ req[w].pc = "done"
    /\ MayAsk(op)
    /\ op \in {"download", "plain", "mint"} =>
           Len(rows) + Cardinality({v \in Workers : Adding(v)}) < MaxRows
    /\ req' = [req EXCEPT ![w] =
           [Answer(None) EXCEPT !.op = op, !.pc = FirstStep(op), !.models = models]]
    /\ UNCHANGED <<rows, links, admin, secret, locked>>

\* get_or_create_config_token reads the history, and returns the active key
\* when this worker's secret derives it.
ReadConfig(w) ==
    /\ req[w].pc = "read"
    /\ LET active == ActiveConfig(rows) IN
       IF active # {} /\ Derives(rows, SecretOf(w), Newest(active))
       THEN Finish(w, rows[Newest(active)].key)
       ELSE req' = [req EXCEPT ![w].pc = "write", ![w].snap = rows]
    /\ UNCHANGED <<rows, links, admin, secret, locked>>

\* The transaction decided on the history read before: stale active keys are
\* revoked, an unmarked row this secret derives is marked and reused, and
\* otherwise the next generation is inserted.  A lost insert is rolled back
\* and reconciled; a lost marking is not caught.
WriteConfig(w) ==
    LET snap == req[w].snap
        reusable == Reusable(snap, SecretOf(w))
        cleared == IF ActiveConfig(snap) = {} THEN rows ELSE Killed(rows, ActiveConfig(rows))
        key == ConfigKey(SecretOf(w), Generations(snap))
    IN
    /\ req[w].pc = "write"
    /\ MayWrite(w)
    /\ \/ /\ reusable # {}
          /\ ~MarkCollides(cleared, First(reusable))
          /\ rows' = Marked(cleared, First(reusable))
          /\ Finish(w, snap[First(reusable)].key)
          /\ locked' = None
       \/ /\ reusable # {}
          /\ MarkCollides(cleared, First(reusable))
          /\ Finish(w, None)
          /\ locked' = w
          /\ UNCHANGED rows
       \/ /\ reusable = {}
          /\ ~Collides(cleared, key)
          /\ rows' = Append(cleared, Row("config", key, Models))
          /\ Finish(w, key)
          /\ locked' = None
       \/ /\ reusable = {}
          /\ Collides(cleared, key)
          /\ req' = [req EXCEPT ![w].pc = "reread", ![w].snap = <<>>]
          /\ locked' = None
          /\ UNCHANGED rows
    /\ UNCHANGED <<links, admin, secret>>

\* After a lost race: the history is read again ...
RereadConfig(w) ==
    /\ req[w].pc = "reread"
    /\ LET reusable == Reusable(rows, SecretOf(w)) IN
       req' = [req EXCEPT ![w].snap = rows,
                          ![w].pc = IF reusable # {} THEN "mark" ELSE "replace"]
    /\ UNCHANGED <<rows, links, admin, secret, locked>>

\* ... the winner's key is taken when this secret derives it (a row that bears
\* no mark would have been taken before the insert, so this one has it) ...
MarkConfig(w) ==
    LET i == First(Reusable(req[w].snap, SecretOf(w))) IN
    /\ req[w].pc = "mark"
    /\ MayWrite(w)
    /\ rows' = Marked(rows, i)
    /\ Finish(w, req[w].snap[i].key)
    /\ locked' = None
    /\ UNCHANGED <<links, admin, secret>>

\* ... and otherwise the active keys are revoked and the next generation is
\* inserted, again until no other worker has won it.
ReplaceConfig(w) ==
    LET cleared == Killed(rows, ActiveConfig(rows))
        key == ConfigKey(SecretOf(w), Generations(req[w].snap))
    IN
    /\ req[w].pc = "replace"
    /\ MayWrite(w)
    /\ \/ /\ ~Collides(cleared, key)
          /\ rows' = Append(cleared, Row("config", key, Models))
          /\ Finish(w, key)
       \/ /\ Collides(cleared, key)
          /\ req' = [req EXCEPT ![w].pc = "reread", ![w].snap = <<>>]
          /\ UNCHANGED rows
    /\ locked' = None
    /\ UNCHANGED <<links, admin, secret>>

\* create_token: an admin's ordinary token, random and unrestricted by model.
CreateToken(w) ==
    /\ req[w].pc = "insert"
    /\ MayWrite(w)
    /\ LET key == RandomKey(Len(rows) + 1) IN
       /\ rows' = Append(rows, Row("plain", key, Models))
       /\ Finish(w, key)
    /\ locked' = None
    /\ UNCHANGED <<links, admin, secret>>

CreatePersonalTokenOnly(w) ==
    /\ req[w].pc = "mint"
    /\ MayWrite(w)
    /\ rows' = Append(Killed(rows, {i \in DOMAIN rows : rows[i].purpose = "personal"}),
                      Row("personal", PersonalKey(SecretOf(w), Len(rows) + 1),
                          req[w].models))
    /\ links' = {}
    /\ Finish(w, None)
    /\ locked' = None
    /\ UNCHANGED <<admin, secret>>

\* create_personal_token: one transaction revokes every token of the user,
\* drops the setup links and inserts the new one.
CreatePersonalToken(w) ==
    /\ req[w].pc = "mint"
    /\ MayWrite(w)
    /\ rows' = Append(Killed(rows, DOMAIN rows),
                      Row("personal", PersonalKey(SecretOf(w), Len(rows) + 1),
                          req[w].models))
    /\ links' = {}
    /\ Finish(w, None)
    /\ locked' = None
    /\ UNCHANGED <<admin, secret>>

\* get_active_token: the newest live row, a personal one before any other.
ActiveToken ==
    LET live == {i \in DOMAIN rows : rows[i].live}
        personal == {i \in live : rows[i].purpose = "personal"}
    IN  IF personal # {} THEN Newest(personal)
        ELSE IF live # {} THEN Newest(live)
        ELSE 0

\* _require_personal_token: no token (404) or not a personal one (409) ends it.
RequirePersonalToken(w) ==
    /\ req[w].pc = "active"
    /\ \/ /\ ActiveToken # 0
          /\ rows[ActiveToken].purpose = "personal"
          /\ req' = [req EXCEPT
                 ![w].token = ActiveToken,
                 ![w].scope = rows[ActiveToken].scope,
                 ![w].pc = IF req[w].op = "edit" THEN "set" ELSE "reveal"]
       \/ /\ ActiveToken # 0 => rows[ActiveToken].purpose # "personal"
          /\ Finish(w, None)
    /\ UNCHANGED <<rows, links, admin, secret, locked>>

RevealedUnchecked(w, i) ==
    IF rows[i].live /\ rows[i].purpose = "personal"
    THEN PersonalKey(SecretOf(w), rows[i].key.n)
    ELSE None

\* reveal_personal_token: the row must be live and derived by this secret.
Revealed(w, i) ==
    IF rows[i].live /\ rows[i].purpose = "personal"
       /\ PersonalKey(SecretOf(w), rows[i].key.n) = rows[i].key
    THEN PersonalKey(SecretOf(w), rows[i].key.n)
    ELSE None

\* The page's copy action and the script answer with it; a link and a config
\* download only go on with it.
RevealPersonalToken(w) ==
    LET raw == Revealed(w, req[w].token) IN
    /\ req[w].pc = "reveal"
    /\ \/ /\ raw = None \/ req[w].op \in Reveals
          /\ Finish(w, raw)
       \/ /\ raw # None
          /\ req[w].op \in Exports
          /\ req' = [req EXCEPT ![w].pc = "widen", ![w].raw = raw]
    /\ UNCHANGED <<rows, links, admin, secret, locked>>

\* set_token_models changes a live row only.
SetTokenModels(i, models) ==
    IF rows[i].live THEN [rows EXCEPT ![i].scope = models] ELSE rows

\* _widen_token_scope writes the scope read before, with the asked models.
WidenTokenScope(w) ==
    LET r == req[w]
        wider == ~(r.models \subseteq r.scope)
    IN
    /\ r.pc = "widen"
    /\ wider => MayWrite(w)
    /\ rows' = IF wider THEN SetTokenModels(r.token, r.scope \cup r.models) ELSE rows
    /\ locked' = IF wider THEN None ELSE locked
    /\ IF r.op = "config" THEN Finish(w, r.raw) ELSE req' = [req EXCEPT ![w].pc = "link"]
    /\ UNCHANGED <<links, admin, secret>>

\* update_token_models: a token replaced meanwhile is left alone (409).
UpdateTokenModels(w) ==
    /\ req[w].pc = "set"
    /\ MayWrite(w)
    /\ rows' = SetTokenModels(req[w].token, req[w].models)
    /\ Finish(w, None)
    /\ locked' = None
    /\ UNCHANGED <<links, admin, secret>>

\* create_setup_link: purges what has expired and inserts the link.
CreateSetupLink(w) ==
    /\ req[w].pc = "link"
    /\ MayWrite(w)
    /\ links' = links \cup {req[w].token}
    /\ Finish(w, None)
    /\ locked' = None
    /\ UNCHANGED <<rows, admin, secret>>

\* resolve_setup_link: unexpired, and its token live; anything else is
\* answered with the script that explains the link has expired.
ResolveSetupLink(w) ==
    /\ req[w].pc = "resolve"
    /\ \/ \E i \in links :
              /\ rows[i].live
              /\ req' = [req EXCEPT ![w].token = i, ![w].pc = "reveal"]
       \/ Finish(w, None)
    /\ UNCHANGED <<rows, links, admin, secret, locked>>

\* busy_timeout: a writer gives up on a lock that is not released.
GiveUp(w) ==
    /\ req[w].pc \in {"write", "mark", "replace", "insert", "mint", "widen", "set", "link"}
    /\ ~MayWrite(w)
    /\ Finish(w, None)
    /\ UNCHANGED <<rows, links, admin, secret, locked>>

-----------------------------------------------------------------------------
(* What happens besides.                                                   *)

\* revoke_token and revoke_any_token, by the user or by an administrator.
RevokeToken(i) ==
    /\ locked = None
    /\ rows[i].live
    /\ rows' = Killed(rows, {i})
    /\ UNCHANGED <<links, admin, secret, req, locked>>

\* grant_admin_role and revoke_admin_role.
SetUserAdmin ==
    /\ locked = None
    /\ admin' = ~admin
    /\ UNCHANGED <<rows, links, secret, req, locked>>

\* Any other write of the worker, such as record_usage, commits what is open.
RecordUsage(w) ==
    /\ locked = w
    /\ locked' = None
    /\ UNCHANGED <<rows, links, admin, secret, req>>

\* A link's quarter of an hour passes.
Expire(i) ==
    /\ links' = links \ {i}
    /\ UNCHANGED <<rows, admin, secret, req, locked>>

\* The process ends and starts again, with the secret configured by then.
Restart(w, n) ==
    /\ n \in {secret[w], secret[w] + 1} \cap DOMAIN Secrets
    /\ req[w].pc # "done" \/ n # secret[w]
    /\ secret' = [secret EXCEPT ![w] = n]
    /\ Finish(w, None)
    /\ locked' = IF locked = w THEN None ELSE locked
    /\ UNCHANGED <<rows, links, admin>>

\* A handler is the path its request takes through these steps: create_setup_link
\* finds the token, reveals it, widens its scope and inserts the link.
Serve(w) ==
    \/ ReadConfig(w) \/ WriteConfig(w) \/ RereadConfig(w) \/ MarkConfig(w)
    \/ ReplaceConfig(w) \/ CreateToken(w) \/ CreatePersonalToken(w)
    \/ RequirePersonalToken(w) \/ RevealPersonalToken(w) \/ WidenTokenScope(w)
    \/ UpdateTokenModels(w) \/ CreateSetupLink(w) \/ ResolveSetupLink(w)
    \/ GiveUp(w)

Next ==
    \/ \E w \in Workers : Serve(w) \/ RecordUsage(w)
    \/ \E w \in Workers : \E op \in Serves[w] : \E models \in Wanted[op] : Ask(w, op, models)
    \/ \E w \in Workers, n \in DOMAIN Secrets : Restart(w, n)
    \/ \E i \in DOMAIN rows : RevokeToken(i)
    \/ \E i \in links : Expire(i)
    \/ SetUserAdmin

Spec == Init /\ [][Next]_vars

-----------------------------------------------------------------------------
(* Properties.                                                             *)

\* Every variable keeps its type, which bounds the generations from below, and
\* the two partial unique indexes hold.
TypeOK ==
    /\ Cardinality(ActiveConfig(rows)) <= 1
    /\ Cardinality({i \in DOMAIN rows : rows[i].purpose = "personal" /\ rows[i].live}) <= 1
    /\ rows \in Seq(Rows)
    /\ links \subseteq DOMAIN rows
    /\ admin \in BOOLEAN
    /\ secret \in [Workers -> DOMAIN Secrets]
    /\ req \in [Workers -> Request]
    /\ locked \in Workers \cup {None}

\* A key that a response carries is the key of a stored row, so it stops working by
\* a revocation only: a worker whose secret does not derive the stored key hands out
\* no key at all, whichever secrets the workers have and whatever was committed since
\* it read.  The copy action and the setup script carry a key that is live as they
\* answer, although it may have been replaced or revoked since the request looked for
\* its token (get_or_create_config_token, reveal_personal_token).
HandedOutKeys ==
    [][\A w \in Workers :
          req'[w] # req[w] /\ req'[w].pc = "done" /\ req'[w].raw # None =>
              \E i \in DOMAIN rows' :
                  /\ rows'[i].key = req'[w].raw
                  /\ req[w].op \in Reveals => rows'[i].live]_vars

\* Minting a personal token ends every token the user had: nothing older than
\* a live personal token is live, also when the user was an administrator,
\* downloads were under way or workers restarted (create_personal_token).
PersonalSupersedes ==
    \A i \in DOMAIN rows :
        rows[i].live /\ rows[i].purpose = "personal" =>
            \A j \in 1..(i - 1) : ~rows[j].live

\* While all workers have the first secret the active config key is the one
\* the next download derives, so concurrent downloads, lost races and
\* revocations never leave a key that the next download would replace.
StableUnderOneSecret ==
    (\A w \in Workers : secret[w] = 1) =>
        \A i \in ActiveConfig(rows) : Derives(rows, Secrets[1], i)
=============================================================================
