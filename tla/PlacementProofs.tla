-------------------------- MODULE PlacementProofs --------------------------
(***************************************************************************)
(* Proofs about Placement, for every set of gateways, every attempt budget *)
(* and every stale period of at least four heartbeat intervals.            *)
(*                                                                         *)
(* Two regimes need two arguments.  With one gateway alive (Solo) the host *)
(* lifecycle lease keeps launches, provisions and operators apart.  With   *)
(* several (no operators, but leases that do not know of each other) the   *)
(* claim does: a provision under way implies that its claim is the one in  *)
(* etcd and that its heartbeat is younger than the stale period.           *)
(***************************************************************************)
EXTENDS Placement, TLAPS

----------------------------------------------------------------------------
(* The inductive invariant                                                 *)

Active(g) == run[g] \in {"queued", "started", "recorded"}

Solo == \E g \in Gateways : live = {g}

Half == Stale \div 2

Current(g, what) == Reader(g, what) \in fresh

Passes == [pc : {"idle", "suspended", "settle", "drop", "decide", "claim", "fire"},
           stored : Claims \cup {None}, taken : Claims \cup {None},
           stale : BOOLEAN, replace : BOOLEAN]

Ops == [pc : {"none", "setup", "recorded", "suspend", "cancel", "wait", "reserve",
              "teardown"},
        hit : BOOLEAN]

\* TypeOK, and the types of what the runs have no need to look at.
Typed ==
    /\ TypeOK
    /\ live \in {{g} : g \in Gateways} \cup {Gateways}
    /\ suspended \in BOOLEAN
    /\ out \in BOOLEAN
    /\ op \in [Gateways -> Ops]

\* A gateway that does not run does nothing.
Quiet ==
    \A g \in Gateways \ live :
        /\ pass[g] = IdlePass
        /\ owned[g] = None
        /\ run[g] = "none"
        /\ lease[g] = "none"
        /\ op[g] = NoOp
        /\ reset[g] = None

\* Who has the lease is who works.
LeasedTo(g) ==
    /\ owned[g] = None <=> run[g] = "none"
    /\ lease[g] = "task" <=> Active(g)
    /\ lease[g] = "launch" <=> pass[g].pc \in {"claim", "fire"}
    /\ lease[g] = "op" <=> op[g].pc \in {"setup", "recorded", "teardown"}

\* What a pass and a provision remember of the claim they act on.
Recalls(g) ==
    /\ pass[g].pc \in {"settle", "suspended", "drop"} => pass[g].stored # None
    /\ pass[g].pc = "drop" => pass[g].stored.state # "provisioning"
    /\ pass[g].pc = "claim" /\ pass[g].stored # None =>
           /\ pass[g].stored.state = "failed"
           /\ pass[g].stored.attempts < MaxAttempts
    /\ pass[g].pc = "fire" =>
           /\ pass[g].taken # None
           /\ pass[g].taken.state = "provisioning"
           /\ pass[g].taken.holder = g
    /\ owned[g] # None =>
           /\ owned[g].claim.state = "provisioning"
           /\ owned[g].claim.holder = g

\* A reader whose revision is current knows the claim: all but the death of its
\* holder, which writes nothing.
Knows(g) ==
    /\ pass[g].pc \notin {"idle", "fire"} /\ Current(g, "pass") =>
           /\ pass[g].stored # None
           /\ claim # None
           /\ claim \in {pass[g].stored, [pass[g].stored EXCEPT !.holder = Gone]}
           /\ pass[g].stale => age = Stale
    /\ Current(g, "reset") /\ reset[g] # None =>
           /\ claim # None
           /\ claim.state \in {"failed", "exhausted"}

\* A claim that was just taken stays until its task is fired, and the claim a
\* provision runs under is only ever replaced by one with another id.
Keeps(g) ==
    /\ pass[g].pc = "fire" =>
           /\ claim = pass[g].taken
           /\ age = 0
           /\ tries < claim.attempts
           /\ owned[g] # None => owned[g].claim.id # claim.id
    /\ owned[g] # None /\ claim # None /\ claim.id = owned[g].claim.id =>
           claim = owned[g].claim

\* The attempts that were made are counted in the claim.
Counted ==
    /\ claim = None => tries = 0 /\ fresh = {}
    /\ claim # None =>
           /\ tries <= claim.attempts
           /\ claim.state = "active" => claim.attempts = 0

\* Several gateways: no operators, and a provision under way has the claim with
\* a heartbeat that is not stale.
Beating(g) ==
    owned[g] # None =>
        /\ claim = owned[g].claim
        /\ age <= owned[g].unref
        /\ owned[g].unref < Stale
        /\ ~owned[g].lost /\ ~owned[g].due =>
               \/ owned[g].unref < Half
               \/ owned[g].unref = Half /\ Current(g, "owned")
        /\ ~owned[g].lost /\ owned[g].due =>
               \/ owned[g].unref <= Half
               \/ owned[g].unref = Half + 1 /\ Current(g, "owned")

Contest ==
    ~Solo =>
        /\ suspended = FALSE
        /\ out = FALSE
        /\ node # None /\ claim # None => node.id = claim.id
        /\ \A g \in Gateways :
               /\ op[g] = NoOp
               /\ reset[g] = None
               /\ pass[g].pc # "suspended"
               /\ Beating(g)

\* One gateway: a launch and a provision have a host that is empty or their own.
Clears(g) ==
    live = {g} /\ node # None =>
        /\ pass[g].pc = "claim" =>
               pass[g].stored # None /\ node.id = pass[g].stored.id
        /\ pass[g].pc = "fire" => node.id = pass[g].taken.id
        /\ Active(g) => node.id = owned[g].claim.id

\* A host that was torn down is suspended and nobody is about to work on it.
Stopped ==
    /\ out => suspended
    /\ \A g \in Gateways :
           /\ out => ~Active(g) /\ pass[g].pc \notin {"claim", "fire"}
           /\ op[g].pc = "teardown" => suspended

Inv ==
    /\ Typed
    /\ Quiet
    /\ \A g \in Gateways :
           LeasedTo(g) /\ Recalls(g) /\ Knows(g) /\ Keeps(g) /\ Clears(g)
    /\ Counted
    /\ Contest
    /\ Stopped

----------------------------------------------------------------------------
(* Facts about the data                                                    *)

\* A reader is a gateway and what it reads for.
LEMMA ReaderIs ==
    ASSUME NEW g \in Gateways
    PROVE  /\ \A h \in Gateways : \A a, b : Reader(g, a) = Reader(h, b) <=> g = h /\ a = b
           /\ \A a \in {"pass", "owned", "reset"} : Reader(g, a) \in Readers
           /\ \A h \in Gateways : \A a \in {"pass", "owned", "reset"} :
                  Reader(h, a) \in {g} \X {"pass", "owned", "reset"} <=> h = g
  BY DEF Reader, Readers

\* The provision of a gateway runs under a claim of its own.
LEMMA HoldingIs ==
    ASSUME Inv, NEW g \in Gateways, run[g] # "none"
    PROVE  /\ owned[g] # None
           /\ owned[g] \in Holdings
           /\ owned[g].claim \in Claims
           /\ owned[g].claim.state = "provisioning"
           /\ owned[g].claim.holder = g
           /\ owned[g].claim.id \in ClaimIds
           /\ \A s \in {"provisioning", "failed", "serving"} :
                  /\ Mine(g, s) \in Nodes
                  /\ Mine(g, s) # None
                  /\ Mine(g, s).id = owned[g].claim.id
<1>1. owned[g] # None /\ owned[g] \in Holdings
  BY DEF Inv, LeasedTo, Typed, TypeOK
<1>2. /\ owned[g].claim \in Claims
      /\ owned[g].claim.state = "provisioning" /\ owned[g].claim.holder = g
  BY <1>1 DEF Inv, Recalls, Holdings
<1>3. owned[g].claim.id \in ClaimIds
  BY <1>2 DEF Claims
<1>4. ASSUME NEW s \in {"provisioning", "failed", "serving"}
      PROVE  Mine(g, s) \in Nodes /\ Mine(g, s).id = owned[g].claim.id
  BY <1>3 DEF Mine, Nodes
<1>5. QED
  BY <1>1, <1>2, <1>3, <1>4, PlacementAssumption

\* A single gateway is the only one that does anything.
LEMMA OthersIdle ==
    ASSUME Inv, NEW g \in live, Solo
    PROVE  /\ live = {g}
           /\ \A h \in Gateways : h # g =>
                  /\ pass[h] = IdlePass
                  /\ pass[h].pc = "idle"
                  /\ owned[h] = None
                  /\ run[h] = "none"
<1>1. live = {g} /\ g \in Gateways
  BY DEF Solo
<1>2. ASSUME NEW h \in Gateways, h # g
      PROVE  pass[h] = IdlePass /\ owned[h] = None /\ run[h] = "none"
  BY <1>1, <1>2 DEF Inv, Quiet
<1>3. IdlePass.pc = "idle"
  BY DEF IdlePass
<1>4. QED
  BY <1>1, <1>2, <1>3

\* The claim in etcd is None or a claim, and so is the node.
LEMMA StoredIs ==
    ASSUME Inv
    PROVE  /\ claim = None \/ (claim \in Claims /\ claim.attempts \in 0..MaxAttempts)
           /\ node = None \/ node \in Nodes
           /\ tries \in Nat /\ MaxAttempts \in Nat /\ Stale \in Nat /\ age \in 0..Stale
           /\ None \notin Claims /\ None \notin Nodes
<1>1. claim = None \/ claim \in Claims
  BY DEF Inv, Typed, TypeOK
<1>2. claim \in Claims => claim.attempts \in 0..MaxAttempts
  BY DEF Claims
<1>3. /\ node = None \/ node \in Nodes
      /\ tries \in Nat /\ MaxAttempts \in Nat /\ Stale \in Nat /\ age \in 0..Stale
  BY PlacementAssumption DEF Inv, Typed, TypeOK
<1>4. None \notin Claims /\ None \notin Nodes
  BY PlacementAssumption
<1>5. QED
  BY <1>1, <1>2, <1>3, <1>4

\* The steps of an operator's request stay within their types.
LEMMA OpIs ==
    ASSUME NEW f \in [Gateways -> Ops], NEW g \in Gateways, NEW f1,
           NEW p \in {"none", "setup", "recorded", "suspend", "cancel", "wait", "reserve",
                      "teardown"},
           \/ f1 = [f EXCEPT ![g].pc = p]
           \/ \E b \in BOOLEAN : f1 = [f EXCEPT ![g] = [pc |-> p, hit |-> b]]
    PROVE  f1 \in [Gateways -> Ops]
<1>1. \A b \in BOOLEAN : [pc |-> p, hit |-> b] \in Ops
  BY DEF Ops
<1>2. PICK b \in BOOLEAN, q \in {"none", "setup", "recorded", "suspend", "cancel",
                                 "wait", "reserve", "teardown"} :
          f[g] = [pc |-> q, hit |-> b]
  BY DEF Ops
<1>3. [f[g] EXCEPT !.pc = p] = [pc |-> p, hit |-> b]
  BY <1>2
<1>4. [f[g] EXCEPT !.pc = p] \in Ops
  BY <1>3, <1>1
<1>5. QED
  BY <1>1, <1>4

\* The steps of a pass stay within their types.
LEMMA PassIs ==
    ASSUME NEW f \in [Gateways -> Passes], NEW g \in Gateways, NEW f1,
           \/ \E p \in {"drop", "claim"} : f1 = [f EXCEPT ![g].pc = p]
           \/ f1 = [f EXCEPT ![g] = IdlePass]
           \/ \E s \in Claims \cup {None} :
                 f1 = [f EXCEPT ![g] = [IdlePass EXCEPT !.pc = "decide", !.stored = s]]
    PROVE  f1 \in [Gateways -> Passes]
<1>1. ASSUME NEW p \in {"drop", "claim"}
      PROVE  [f[g] EXCEPT !.pc = p] \in Passes
  <2>1. f[g] \in Passes
    OBVIOUS
  <2> QED
    BY <2>1 DEF Passes
<1>2. IdlePass \in Passes
  BY DEF IdlePass, Passes
<1>3. \A s \in Claims \cup {None} : [IdlePass EXCEPT !.pc = "decide", !.stored = s] \in Passes
  BY DEF IdlePass, Passes
<1>4. QED
  BY <1>1, <1>2, <1>3

\* What a pass decides about a host.
LEMMA DecideIs ==
    ASSUME Inv, NEW g \in Gateways, NEW available \in BOOLEAN,
           NEW s \in Claims \cup {None}, Decide(g, available, s)
    PROVE  /\ pass' \in [Gateways -> Passes]
           /\ \A h \in Gateways : h # g => pass'[h] = pass[h]
           /\ \/ pass'[g] = IdlePass /\ pass'[g].pc = "idle"
              \/ /\ pass'[g].pc = "decide" /\ pass'[g].stored = s
                 /\ pass'[g].stale = FALSE
<1>1. pass \in [Gateways -> Passes]
  BY DEF Inv, Typed, TypeOK, Passes
<1>2. CASE available
  <2>1. pass' = [pass EXCEPT ![g] = [IdlePass EXCEPT !.pc = "decide", !.stored = s]]
    BY <1>2 DEF Decide
  <2>2. QED
    BY <1>1, <2>1, PassIs DEF IdlePass
<1>3. CASE ~available
  <2>1. pass' = [pass EXCEPT ![g] = IdlePass]
    BY <1>3 DEF Decide
  <2>2. IdlePass.pc = "idle"
    BY DEF IdlePass
  <2>3. QED
    BY <1>1, <2>1, <2>2, PassIs
<1>4. QED
  BY <1>2, <1>3

\* The end of a pass.
LEMMA EndPassIs ==
    ASSUME Inv, NEW g \in Gateways, EndPass(g)
    PROVE  /\ pass' \in [Gateways -> Passes]
           /\ \A h \in Gateways : h # g => pass'[h] = pass[h]
           /\ pass'[g] = IdlePass /\ pass'[g].pc = "idle"
<1>1. pass \in [Gateways -> Passes]
  BY DEF Inv, Typed, TypeOK, Passes
<1>2. IdlePass.pc = "idle"
  BY DEF IdlePass
<1>3. QED
  BY <1>1, <1>2, PassIs DEF EndPass

----------------------------------------------------------------------------
(* Who may write the claim                                                 *)

\* Nobody depends on the claim as it is: no task is about to be fired on it, no
\* provision runs under it, and with several gateways none runs at all.
Released ==
    /\ \A h \in Gateways : pass[h].pc # "fire"
    /\ \A h \in Gateways : owned[h] # None => claim.id # owned[h].claim.id
    /\ ~Solo => \A h \in Gateways : owned[h] = None

\* What a pass with the current revision has read is the claim, but for a holder
\* that has died.
LEMMA ReadIs ==
    ASSUME Inv, NEW g \in Gateways, pass[g].pc \notin {"idle", "fire"},
           Reader(g, "pass") \in fresh
    PROVE  /\ pass[g].stored \in Claims
           /\ claim \in Claims
           /\ claim # None
           /\ claim.id = pass[g].stored.id
           /\ claim.state = pass[g].stored.state
           /\ claim.attempts = pass[g].stored.attempts
           /\ claim.holder \in {pass[g].stored.holder, Gone}
           /\ pass[g].stale => age = Stale
<1>1. /\ pass[g].stored # None
      /\ claim # None
      /\ claim \in {pass[g].stored, [pass[g].stored EXCEPT !.holder = Gone]}
      /\ pass[g].stale => age = Stale
  BY DEF Inv, Knows, Current
<1>2. pass[g].stored \in Claims /\ claim \in Claims
  BY <1>1 DEF Inv, Typed, TypeOK
<1>3. QED
  BY <1>1, <1>2 DEF Claims

\* A claim that is not PROVISIONING is nobody's.
LEMMA ReleasedWhenOver ==
    ASSUME Inv, claim # None, claim.state # "provisioning"
    PROVE  Released
<1>1. \A h \in Gateways : pass[h].pc # "fire"
  BY DEF Inv, Recalls, Keeps
<1>2. ASSUME NEW h \in Gateways, owned[h] # None PROVE claim.id # owned[h].claim.id
  BY <1>2 DEF Inv, Recalls, Keeps
<1>3. ASSUME ~Solo, NEW h \in Gateways PROVE owned[h] = None
  BY <1>3 DEF Inv, Recalls, Contest, Beating
<1>4. QED
  BY <1>1, <1>2, <1>3 DEF Released

\* What _settle_claim has seen when it decides.
LEMMA VerdictIs ==
    ASSUME NEW g \in Gateways, NEW available \in BOOLEAN,
           NEW s, s = pass[g].stored
    PROVE  /\ Verdict(g, available) \in {"adopt", "abandon", "lapse", "clear"} =>
                  ~Superseded(Seen(g), s) /\ ~Attended(g)
           /\ Verdict(g, available) = "abandon" => s.state = "provisioning"
           /\ Verdict(g, available) = "lapse" => s.state = "active"
           /\ Verdict(g, available) = "clear" => s.state # "provisioning"
           /\ Verdict(g, available) = "drop" =>
                  \/ Superseded(Seen(g), s)
                  \/ ~Attended(g) /\ s.state # "provisioning"
  BY DEF Verdict

\* The claim that _settle_claim writes.
LEMMA SettledIs ==
    ASSUME NEW g \in Gateways, pass[g].stored \in Claims,
           NEW v \in {"adopt", "abandon", "lapse"}
    PROVE  /\ Settled(g, v) \in Claims
           /\ Settled(g, v).id = pass[g].stored.id
           /\ v = "adopt" => Settled(g, v).attempts = 0
           /\ v = "abandon" => /\ Settled(g, v).attempts = pass[g].stored.attempts
                               /\ Settled(g, v).state \in {"failed", "exhausted"}
           /\ v = "lapse" => Settled(g, v).attempts = 0 /\ Settled(g, v).state = "failed"
<1>0. 0 \in 0..MaxAttempts
  BY PlacementAssumption
<1>1. CASE v = "adopt"
  <2>1. Settled(g, v) = [pass[g].stored EXCEPT !.state = "active", !.attempts = 0,
                                               !.holder = g]
    BY <1>1 DEF Settled
  <2>2. QED
    BY <1>0, <1>1, <2>1 DEF Claims, States
<1>2. CASE v = "abandon"
  BY <1>2, PlacementAssumption DEF Settled, Claims, States
<1>3. CASE v = "lapse"
  <2>1. Settled(g, v) = [pass[g].stored EXCEPT !.state = "failed", !.attempts = 0]
    BY <1>3 DEF Settled
  <2>2. QED
    BY <1>0, <1>3, <2>1 DEF Claims, States
<1>4. QED
  BY <1>1, <1>2, <1>3

\* A claim that a provision runs under, or is about to, is attended: its own
\* gateway knows, and the others see a heartbeat that is not stale.
LEMMA AttendedIs ==
    ASSUME Inv, NEW g \in live, pass[g].pc = "settle", Reader(g, "pass") \in fresh,
           NEW h \in Gateways,
           \/ pass[h].pc = "fire"
           \/ owned[h] # None /\ claim = owned[h].claim
    PROVE  Attended(g)
<1>0. g \in Gateways
  BY DEF Inv, Typed
<1>1. /\ claim.state = pass[g].stored.state
      /\ claim.holder \in {pass[g].stored.holder, Gone}
      /\ pass[g].stale => age = Stale
  BY <1>0, ReadIs
<1>2. claim.state = "provisioning" /\ claim.holder = h
  BY DEF Inv, Recalls, Keeps
<1>3. pass[g].stored.state = "provisioning" /\ pass[g].stored.holder = h
  BY <1>1, <1>2, PlacementAssumption
<1>4. CASE h = g
  BY <1>3, <1>4 DEF Attended
<1>5. CASE h # g
  <2>1. ~Solo
    BY <1>5, OthersIdle, PlacementAssumption
  <2>2. age \in Nat /\ age < Stale
    <3>1. CASE pass[h].pc = "fire"
      BY <3>1, PlacementAssumption DEF Inv, Keeps, Typed, TypeOK
    <3>2. CASE owned[h] # None
      <4>1. age <= owned[h].unref /\ owned[h].unref < Stale
        BY <2>1, <3>2 DEF Inv, Contest, Beating
      <4>2. owned[h].unref \in Nat /\ age \in Nat /\ Stale \in Nat
        BY <3>2, PlacementAssumption DEF Inv, Typed, TypeOK, Holdings
      <4>3. QED
        BY <4>1, <4>2
    <3>3. QED
      BY <3>1, <3>2
  <2>3. ~pass[g].stale
    BY <1>1, <2>2, PlacementAssumption
  <2>4. QED
    BY <1>3, <1>5, <2>3 DEF Attended
<1>6. QED
  BY <1>4, <1>5

\* A pass that settles a claim as abandoned, adopted or lapsed takes nothing away
\* from anybody; with several gateways neither does one that drops it.
LEMMA ReleasedWhenSettled ==
    ASSUME Inv, NEW g \in live, pass[g].pc = "settle", Reader(g, "pass") \in fresh,
           NEW available \in BOOLEAN,
           Verdict(g, available) \in {"adopt", "abandon", "lapse", "drop"}
    PROVE  /\ \A h \in Gateways : pass[h].pc # "fire"
           /\ ~Solo => \A h \in Gateways : owned[h] = None
           /\ Verdict(g, available) # "drop" => Released
<1>0. g \in Gateways
  BY DEF Inv, Typed
<1>1. claim # None /\ claim.id = pass[g].stored.id
  BY <1>0, ReadIs
<1>2. ~Solo => ~Superseded(Seen(g), pass[g].stored)
  BY <1>0, <1>1 DEF Inv, Contest, Superseded, Seen, Solo
<1>3. ~Superseded(Seen(g), pass[g].stored) => ~Attended(g)
  BY <1>0, VerdictIs
<1>4. ASSUME NEW h \in Gateways PROVE pass[h].pc # "fire"
  <2>1. CASE Solo
    BY <2>1, <1>4, OthersIdle
  <2>2. CASE ~Solo
    BY <2>2, <1>2, <1>3, AttendedIs
  <2>3. QED
    BY <2>1, <2>2
<1>5. ASSUME ~Solo, NEW h \in Gateways PROVE owned[h] = None
  <2>1. owned[h] # None => claim = owned[h].claim
    BY <1>5 DEF Inv, Contest, Beating
  <2>2. QED
    BY <1>5, <2>1, <1>2, <1>3, AttendedIs
<1>6. ASSUME Verdict(g, available) # "drop", NEW h \in Gateways, owned[h] # None
      PROVE  claim.id # owned[h].claim.id
  <2>1. ~Attended(g)
    BY <1>0, <1>6, VerdictIs
  <2>2. claim.id = owned[h].claim.id => claim = owned[h].claim
    BY <1>1, <1>6 DEF Inv, Keeps
  <2>3. QED
    BY <1>6, <2>1, <2>2, AttendedIs
<1>7. QED
  BY <1>4, <1>5, <1>6 DEF Released

\* A pass that goes on to decide, or ends, without a write.
LEMMA PassMoves ==
    ASSUME Inv, NEW g \in live, pass[g].pc \notin {"idle", "claim", "fire"},
           pass' \in [Gateways -> Passes],
           \A h \in Gateways : h # g => pass'[h] = pass[h],
           \/ pass'[g].pc = "idle"
           \/ /\ pass'[g].pc = "decide" /\ pass'[g].stored = pass[g].stored
              /\ pass'[g].stale = FALSE,
           fresh' = fresh \/ fresh' = fresh \ {Reader(g, "pass")},
           UNCHANGED <<claim, age, node, suspended, reg, owned, run, lease, op, reset,
                       live, tries, out>>
    PROVE  Inv'
<1>0. g \in Gateways
  BY DEF Inv, Typed
<1>1. Typed'
  <2>1. fresh' \subseteq Readers
    BY <1>0, ReaderIs DEF Inv, Typed, TypeOK
  <2>2. QED
    BY <2>1 DEF Inv, Typed, TypeOK, Passes
<1>2. Quiet'
  BY <1>0 DEF Inv, Quiet
<1>3. ASSUME NEW h \in Gateways PROVE LeasedTo(h)'
  BY <1>0 DEF Inv, LeasedTo, Active
<1>4. ASSUME NEW h \in Gateways PROVE Recalls(h)'
  BY <1>0 DEF Inv, Recalls
<1>5. ASSUME NEW h \in Gateways PROVE Knows(h)'
  BY <1>0, ReaderIs DEF Inv, Knows, Current
<1>6. ASSUME NEW h \in Gateways PROVE Keeps(h)'
  BY <1>0 DEF Inv, Keeps
<1>7. ASSUME NEW h \in Gateways PROVE Clears(h)'
  BY <1>0 DEF Inv, Clears, Active
<1>8. Counted'
  BY PlacementAssumption DEF Inv, Counted
<1>9. Contest'
  BY <1>0, ReaderIs DEF Inv, Contest, Beating, Current, Solo
<1>10. Stopped'
  BY <1>0 DEF Inv, Stopped, Active
<1>11. QED
  BY <1>1, <1>2, <1>3, <1>4, <1>5, <1>6, <1>7, <1>8, <1>9, <1>10 DEF Inv

\* A pass that writes a claim that is released, or deletes it.
LEMMA PassWrites ==
    ASSUME Inv, NEW g \in live, pass[g].pc \notin {"idle", "claim", "fire"},
           NEW c \in Claims \cup {None}, claim' = c, age' = 0,
           claim # None,
           pass' \in [Gateways -> Passes],
           \A h \in Gateways : h # g => pass'[h] = pass[h],
           \/ pass'[g].pc = "idle"
           \/ /\ pass'[g].pc = "decide" /\ pass'[g].stored = c
              /\ pass'[g].stale = FALSE,
           fresh' \subseteq {Reader(g, "pass")},
           \A h \in Gateways : pass[h].pc # "fire",
           ~Solo => \A h \in Gateways : owned[h] = None,
           c = None => fresh' = {} /\ tries' = 0,
           c # None => /\ Released
                       /\ c.id = claim.id
                       /\ tries' <= c.attempts
                       /\ c.state = "active" => c.attempts = 0,
           tries' \in Nat,
           UNCHANGED <<node, suspended, reg, owned, run, lease, op, reset, live, out>>
    PROVE  Inv'
<1>0. g \in Gateways
  BY DEF Inv, Typed
<1>1. Typed'
  <2>1. fresh' \subseteq Readers
    BY <1>0, ReaderIs DEF Inv, Typed, TypeOK
  <2>2. tries' \in 0..MaxAttempts
    BY PlacementAssumption DEF Claims
  <2>3. age' \in 0..Stale
    BY PlacementAssumption
  <2>4. QED
    BY <2>1, <2>2, <2>3 DEF Inv, Typed, TypeOK, Passes
<1>2. Quiet'
  BY <1>0 DEF Inv, Quiet
<1>3. ASSUME NEW h \in Gateways PROVE LeasedTo(h)'
  BY <1>0 DEF Inv, LeasedTo, Active
<1>4. ASSUME NEW h \in Gateways PROVE Recalls(h)'
  BY <1>0 DEF Inv, Recalls
<1>5. ASSUME NEW h \in Gateways PROVE Knows(h)'
  BY <1>0, ReaderIs DEF Inv, Knows, Current
<1>6. ASSUME NEW h \in Gateways PROVE Keeps(h)'
  BY <1>0 DEF Inv, Keeps, Released
<1>7. ASSUME NEW h \in Gateways PROVE Clears(h)'
  BY <1>0 DEF Inv, Clears, Active
<1>8. Counted'
  BY PlacementAssumption DEF Inv, Counted
<1>9. Contest'
  BY <1>0, ReaderIs DEF Inv, Contest, Beating, Current, Solo
<1>10. Stopped'
  BY <1>0 DEF Inv, Stopped, Active
<1>11. QED
  BY <1>1, <1>2, <1>3, <1>4, <1>5, <1>6, <1>7, <1>8, <1>9, <1>10 DEF Inv

\* PassRead keeps the invariant.
LEMMA PassReadKeeps ==
    ASSUME Inv, NEW g \in live, PassRead(g)
    PROVE  Inv'
<1>0. g \in Gateways
  BY DEF Inv, Typed
<1>1. Typed'
  <2>1. /\ pass'[g] \in Passes
        /\ pass'[g].stored = claim
        /\ pass'[g].stale = (age = Stale)
        /\ pass'[g].pc \in {"decide", "suspended", "settle"}
    <3>1. PICK b \in BOOLEAN : b = (age = Stale)
      OBVIOUS
    <3>2. PICK p \in {"decide", "suspended", "settle"} :
              p = (CASE claim = None -> "decide"
                     [] claim # None /\ suspended -> "suspended"
                     [] OTHER -> "settle")
      OBVIOUS
    <3>3. pass[g] \in Passes /\ claim \in Claims \cup {None}
      BY <1>0 DEF Inv, Typed, TypeOK, Passes
    <3>4. pass'[g] = [pass[g] EXCEPT !.pc = p, !.stored = claim, !.stale = b]
      BY <1>0, <3>1, <3>2 DEF Inv, Typed, TypeOK, PassRead
    <3>5. QED
      BY <3>1, <3>3, <3>4 DEF Passes
  <2>2. \A h \in Gateways : h # g => pass'[h] = pass[h]
    BY <1>0 DEF PassRead, Inv, Typed, TypeOK
  <2>3. DOMAIN pass' = Gateways /\ pass' = [h \in Gateways |-> pass'[h]]
    BY DEF PassRead, Inv, Typed, TypeOK
  <2>4. pass' \in [Gateways -> Passes]
    BY <2>1, <2>2, <2>3 DEF Inv, Typed, TypeOK, Passes
  <2>5. fresh' \subseteq Readers
    BY <1>0, ReaderIs DEF Inv, Typed, TypeOK, PassRead
  <2>6. QED
    BY <2>4, <2>5 DEF Inv, Typed, TypeOK, PassRead, Passes
<1>2. Quiet'
  BY <1>0 DEF Inv, Typed, TypeOK, Quiet, PassRead
<1>3. ASSUME NEW h \in Gateways PROVE LeasedTo(h)'
  BY <1>0 DEF Inv, Typed, TypeOK, LeasedTo, Active, PassRead
<1>4. ASSUME NEW h \in Gateways PROVE Recalls(h)'
  BY <1>0, PlacementAssumption
     DEF Inv, Typed, TypeOK, Recalls, Passes, Claims, Holdings, PassRead
<1>5. ASSUME NEW h \in Gateways PROVE Knows(h)'
  <2>1. /\ h = g => pass'[h].stored = claim
        /\ h = g => pass'[h].stale = (age = Stale)
        /\ h = g => fresh' = IF claim = None THEN fresh ELSE fresh \cup {Reader(g, "pass")}
    BY <1>0 DEF Inv, Typed, TypeOK, Passes, PassRead
  <2>2. h # g => pass'[h] = pass[h] /\ (Reader(h, "pass") \in fresh' <=> Reader(h, "pass") \in fresh)
    BY <1>0, ReaderIs DEF Inv, Typed, TypeOK, PassRead
  <2>3. /\ claim' = claim /\ age' = age /\ reset' = reset
        /\ Reader(h, "reset") \in fresh' <=> Reader(h, "reset") \in fresh
        /\ claim = None => fresh = {}
        /\ Knows(h)
    BY <1>0, ReaderIs DEF PassRead, Inv, Counted
  <2>4. QED
    BY <2>1, <2>2, <2>3 DEF Knows, Current
<1>6. ASSUME NEW h \in Gateways PROVE Keeps(h)'
  BY <1>0 DEF Inv, Typed, TypeOK, Keeps, PassRead
<1>7. ASSUME NEW h \in Gateways PROVE Clears(h)'
  <2>1. SUFFICES ASSUME h = g PROVE Clears(g)'
    BY DEF Clears, PassRead
  <2>2. QED
    BY <1>0 DEF Inv, Typed, TypeOK, Clears, Active, PassRead
<1>8. Counted'
  BY <1>0 DEF Inv, Typed, TypeOK, Counted, Claims, PassRead
<1>9. Contest'
  BY <1>0 DEF Inv, Typed, TypeOK, Contest, Solo, Beating, Current, PassRead
<1>10. Stopped'
  BY <1>0 DEF Inv, Typed, TypeOK, Stopped, Active, PassRead
<1>11. QED
  BY <1>1, <1>2, <1>3, <1>4, <1>5, <1>6, <1>7, <1>8, <1>9, <1>10 DEF Inv

\* PassSuspended keeps the invariant.
LEMMA PassSuspendedKeeps ==
    ASSUME Inv, NEW g \in live, PassSuspended(g)
    PROVE  Inv'
<1>0. g \in Gateways
  BY DEF Inv, Typed
<1>a. Solo => live = {g} /\ \A h \in Gateways : h # g => pass[h].pc = "idle" /\ owned[h] = None
  BY OthersIdle
<1>1. Typed'
  BY <1>0, PlacementAssumption
     DEF Inv, Typed, TypeOK, PassSuspended, Delete, Unread, EndPass, IdlePass
<1>2. Quiet'
  BY <1>0 DEF Inv, Typed, TypeOK, Quiet, PassSuspended, EndPass
<1>3. ASSUME NEW h \in Gateways PROVE LeasedTo(h)'
  BY <1>0 DEF Inv, LeasedTo, Active, PassSuspended, EndPass, IdlePass
<1>4. ASSUME NEW h \in Gateways PROVE Recalls(h)'
  BY <1>0 DEF Inv, Recalls, PassSuspended, EndPass, IdlePass
<1>5. ASSUME NEW h \in Gateways PROVE Knows(h)'
  BY <1>0 DEF Inv, Knows, Current, PassSuspended, Delete, Unread, EndPass
<1>6. ASSUME NEW h \in Gateways PROVE Keeps(h)'
  BY <1>0, <1>a
     DEF Inv, Keeps, Contest, PassSuspended, Delete, Unread, EndPass, IdlePass
<1>7. ASSUME NEW h \in Gateways PROVE Clears(h)'
  <2>1. SUFFICES ASSUME h = g PROVE Clears(g)'
    BY DEF Clears, PassSuspended, Delete, Unread, EndPass, IdlePass
  <2>2. QED
    BY <1>0 DEF Inv, Clears, Active, PassSuspended, EndPass, IdlePass
<1>8. Counted'
  BY <1>0 DEF Inv, Counted, PassSuspended, Delete, Unread
<1>9. Contest'
  BY <1>0 DEF Inv, Contest, Solo, PassSuspended
<1>10. Stopped'
  BY <1>0 DEF Inv, Stopped, Active, PassSuspended, EndPass, IdlePass
<1>11. QED
  BY <1>1, <1>2, <1>3, <1>4, <1>5, <1>6, <1>7, <1>8, <1>9, <1>10 DEF Inv

\* PassEnds keeps the invariant.
LEMMA PassEndsKeeps ==
    ASSUME Inv, NEW g \in live, PassEnds(g)
    PROVE  Inv'
<1>0. g \in Gateways
  BY DEF Inv, Typed
<1>1. Typed'
  BY <1>0 DEF Inv, Typed, TypeOK, PassEnds, Unread, EndPass, IdlePass
<1>2. Quiet'
  BY <1>0 DEF Inv, Typed, TypeOK, Quiet, PassEnds, EndPass
<1>3. ASSUME NEW h \in Gateways PROVE LeasedTo(h)'
  BY <1>0 DEF Inv, LeasedTo, Active, PassEnds, EndPass, IdlePass
<1>4. ASSUME NEW h \in Gateways PROVE Recalls(h)'
  BY <1>0 DEF Inv, Recalls, PassEnds, EndPass, IdlePass
<1>5. ASSUME NEW h \in Gateways PROVE Knows(h)'
  BY <1>0 DEF Inv, Knows, Current, PassEnds, Unread, EndPass
<1>6. ASSUME NEW h \in Gateways PROVE Keeps(h)'
  BY <1>0 DEF Inv, Keeps, PassEnds, Unread, EndPass, IdlePass
<1>7. ASSUME NEW h \in Gateways PROVE Clears(h)'
  <2>1. SUFFICES ASSUME h = g PROVE Clears(g)'
    BY DEF Clears, PassEnds, Unread, EndPass, IdlePass
  <2>2. QED
    BY <1>0 DEF Inv, Clears, Active, PassEnds, EndPass, IdlePass
<1>8. Counted'
  BY <1>0 DEF Inv, Counted, PassEnds, Unread
<1>9. Contest'
  BY <1>0, ReaderIs
     DEF Inv, Contest, Solo, Beating, Current, PassEnds, Unread, EndPass, IdlePass
<1>10. Stopped'
  BY <1>0 DEF Inv, Stopped, Active, PassEnds, EndPass, IdlePass
<1>11. QED
  BY <1>1, <1>2, <1>3, <1>4, <1>5, <1>6, <1>7, <1>8, <1>9, <1>10 DEF Inv

\* LaunchCheck keeps the invariant.
LEMMA LaunchCheckKeeps ==
    ASSUME Inv, NEW g \in live, LaunchCheck(g)
    PROVE  Inv'
<1>0. g \in Gateways
  BY DEF Inv, Typed
<1>1. Typed'
  BY <1>0 DEF Inv, Typed, TypeOK, LaunchCheck, Goto, durable, MayLaunch, Spent
<1>2. Quiet'
  BY <1>0 DEF Inv, Quiet, LaunchCheck, Goto
<1>3. ASSUME NEW h \in Gateways PROVE LeasedTo(h)'
  BY <1>0 DEF Inv, Typed, TypeOK, LeasedTo, Active, LaunchCheck, Goto, Candidate
<1>4. ASSUME NEW h \in Gateways PROVE Recalls(h)'
  BY <1>0, PlacementAssumption
     DEF Inv, Typed, TypeOK, Recalls, Claims, LaunchCheck, Goto, Candidate, MayLaunch,
         Spent
<1>5. ASSUME NEW h \in Gateways PROVE Knows(h)'
  BY <1>0 DEF Inv, Knows, Current, LaunchCheck, Goto, durable, Candidate
<1>6. ASSUME NEW h \in Gateways PROVE Keeps(h)'
  BY <1>0 DEF Inv, Keeps, LaunchCheck, Goto, durable
<1>7. ASSUME NEW h \in Gateways PROVE Clears(h)'
  <2>1. SUFFICES ASSUME h = g PROVE Clears(g)'
    BY DEF Clears, LaunchCheck
  <2>2. QED
    BY <1>0
       DEF Inv, Clears, Active, LaunchCheck, Goto, durable, MayLaunch, MayReplace,
           OwnFailed
<1>8. Counted'
  BY <1>0 DEF Inv, Counted, LaunchCheck, durable
<1>9. Contest'
  BY <1>0 DEF Inv, Contest, Solo, Beating, Current, LaunchCheck, Goto, durable
<1>10. Stopped'
  BY <1>0 DEF Inv, Stopped, LaunchCheck, MayLaunch
<1>11. QED
  BY <1>1, <1>2, <1>3, <1>4, <1>5, <1>6, <1>7, <1>8, <1>9, <1>10 DEF Inv

\* TaskStart keeps the invariant.
LEMMA TaskStartKeeps ==
    ASSUME Inv, NEW g \in live, TaskStart(g)
    PROVE  Inv'
<1>0. g \in Gateways
  BY DEF Inv, Typed
<1>1. Typed'
  BY <1>0, PlacementAssumption DEF Inv, Typed, TypeOK, TaskStart, durable
<1>2. Quiet'
  BY <1>0 DEF Inv, Typed, TypeOK, Quiet, TaskStart, durable
<1>3. ASSUME NEW h \in Gateways PROVE LeasedTo(h)'
  BY <1>0 DEF Inv, LeasedTo, Active, TaskStart
<1>4. ASSUME NEW h \in Gateways PROVE Recalls(h)'
  BY <1>0 DEF Inv, Recalls, TaskStart
<1>5. ASSUME NEW h \in Gateways PROVE Knows(h)'
  BY <1>0 DEF Inv, Knows, Current, TaskStart, durable
<1>6. ASSUME NEW h \in Gateways PROVE Keeps(h)'
  BY <1>0 DEF Inv, Keeps, TaskStart, durable
<1>7. ASSUME NEW h \in Gateways PROVE Clears(h)'
  <2>1. SUFFICES ASSUME h = g PROVE Clears(g)'
    BY DEF Clears, TaskStart, durable
  <2>2. QED
    BY <1>0 DEF Inv, Clears, Active, TaskStart, durable
<1>8. Counted'
  BY <1>0 DEF Inv, Counted, TaskStart, durable
<1>9. Contest'
  BY <1>0 DEF Inv, Contest, Solo, Beating, Current, TaskStart, durable
<1>10. Stopped'
  BY <1>0 DEF Inv, Stopped, Active, TaskStart, durable
<1>11. QED
  BY <1>1, <1>2, <1>3, <1>4, <1>5, <1>6, <1>7, <1>8, <1>9, <1>10 DEF Inv

\* ProvisionRecord keeps the invariant.
LEMMA ProvisionRecordKeeps ==
    ASSUME Inv, NEW g \in live, ProvisionRecord(g)
    PROVE  Inv'
<1>0. g \in Gateways
  BY DEF Inv, Typed
<1>a. /\ owned[g] # None /\ owned[g].claim.id \in ClaimIds
      /\ owned[g].claim.holder = g /\ owned[g].claim.state = "provisioning"
      /\ \A s \in {"provisioning", "failed", "serving"} :
             Mine(g, s) \in Nodes /\ Mine(g, s) # None /\ Mine(g, s).id = owned[g].claim.id
  BY <1>0, HoldingIs DEF ProvisionRecord
<1>1. Typed'
  BY <1>0, PlacementAssumption, <1>a DEF Inv, Typed, TypeOK, ProvisionRecord
<1>2. Quiet'
  BY <1>0 DEF Inv, Typed, TypeOK, Quiet, ProvisionRecord
<1>3. ASSUME NEW h \in Gateways PROVE LeasedTo(h)'
  BY <1>0 DEF Inv, LeasedTo, Active, ProvisionRecord
<1>4. ASSUME NEW h \in Gateways PROVE Recalls(h)'
  BY <1>0 DEF Inv, Recalls, ProvisionRecord
<1>5. ASSUME NEW h \in Gateways PROVE Knows(h)'
  BY <1>0 DEF Inv, Knows, Current, ProvisionRecord
<1>6. ASSUME NEW h \in Gateways PROVE Keeps(h)'
  BY <1>0 DEF Inv, Keeps, ProvisionRecord
<1>7. ASSUME NEW h \in Gateways PROVE Clears(h)'
  <2>1. SUFFICES ASSUME h = g PROVE Clears(g)'
    BY DEF Clears, ProvisionRecord
  <2>2. QED
    BY <1>0, <1>a DEF Inv, Clears, Active, LeasedTo, ProvisionRecord
<1>8. Counted'
  BY <1>0 DEF Inv, Typed, TypeOK, Counted, Claims, ProvisionRecord
<1>9. Contest'
  BY <1>0, <1>a DEF Inv, Contest, Solo, Beating, Current, ProvisionRecord
<1>10. Stopped'
  BY <1>0 DEF Inv, Stopped, Active, ProvisionRecord
<1>11. QED
  BY <1>1, <1>2, <1>3, <1>4, <1>5, <1>6, <1>7, <1>8, <1>9, <1>10 DEF Inv

\* ProvisionSucceeds keeps the invariant.
LEMMA ProvisionSucceedsKeeps ==
    ASSUME Inv, NEW g \in live, ProvisionSucceeds(g)
    PROVE  Inv'
<1>0. g \in Gateways
  BY DEF Inv, Typed
<1>a. /\ owned[g] # None /\ owned[g].claim.id \in ClaimIds
      /\ owned[g].claim.holder = g /\ owned[g].claim.state = "provisioning"
      /\ \A s \in {"provisioning", "failed", "serving"} :
             Mine(g, s) \in Nodes /\ Mine(g, s) # None /\ Mine(g, s).id = owned[g].claim.id
  BY <1>0, HoldingIs DEF ProvisionSucceeds
<1>b. claim \in Claims => claim.attempts \in Nat
  BY StoredIs
<1>1. Typed'
  BY <1>0, PlacementAssumption, <1>a DEF Inv, Typed, TypeOK, ProvisionSucceeds, Free
<1>2. Quiet'
  BY <1>0 DEF Inv, Typed, TypeOK, Quiet, ProvisionSucceeds, Free
<1>3. ASSUME NEW h \in Gateways PROVE LeasedTo(h)'
  BY <1>0 DEF Inv, Typed, TypeOK, LeasedTo, Active, ProvisionSucceeds, Free
<1>4. ASSUME NEW h \in Gateways PROVE Recalls(h)'
  BY <1>0 DEF Inv, Recalls, ProvisionSucceeds
<1>5. ASSUME NEW h \in Gateways PROVE Knows(h)'
  BY <1>0 DEF Inv, Knows, Current, ProvisionSucceeds
<1>6. ASSUME NEW h \in Gateways PROVE Keeps(h)'
  BY <1>0, <1>b DEF Inv, Typed, TypeOK, Keeps, Recalls, ProvisionSucceeds
<1>7. ASSUME NEW h \in Gateways PROVE Clears(h)'
  <2>1. SUFFICES ASSUME h = g PROVE Clears(g)'
    BY DEF Clears, ProvisionSucceeds, Free
  <2>2. QED
    BY <1>0, <1>a DEF Inv, Clears, Active, LeasedTo, ProvisionSucceeds
<1>8. Counted'
  BY <1>0 DEF Inv, Typed, TypeOK, Counted, Claims, ProvisionSucceeds
<1>9. Contest'
  BY <1>0, <1>a DEF Inv, Contest, Solo, Beating, Current, ProvisionSucceeds
<1>10. Stopped'
  BY <1>0 DEF Inv, Stopped, Active, ProvisionSucceeds
<1>11. QED
  BY <1>1, <1>2, <1>3, <1>4, <1>5, <1>6, <1>7, <1>8, <1>9, <1>10 DEF Inv

\* ProvisionFails keeps the invariant.
LEMMA ProvisionFailsKeeps ==
    ASSUME Inv, NEW g \in live, ProvisionFails(g)
    PROVE  Inv'
<1>0. g \in Gateways
  BY DEF Inv, Typed
<1>a. /\ owned[g] # None /\ owned[g].claim.id \in ClaimIds
      /\ owned[g].claim.holder = g /\ owned[g].claim.state = "provisioning"
      /\ \A s \in {"provisioning", "failed", "serving"} :
             Mine(g, s) \in Nodes /\ Mine(g, s) # None /\ Mine(g, s).id = owned[g].claim.id
  BY <1>0, HoldingIs DEF ProvisionFails, Working
<1>1. Typed'
  BY <1>0, <1>a DEF Inv, Typed, TypeOK, ProvisionFails, Free
<1>2. Quiet'
  BY <1>0 DEF Inv, Quiet, ProvisionFails, Free
<1>3. ASSUME NEW h \in Gateways PROVE LeasedTo(h)'
  BY <1>0 DEF Inv, Typed, TypeOK, LeasedTo, Active, ProvisionFails, Free, Working
<1>4. ASSUME NEW h \in Gateways PROVE Recalls(h)'
  BY <1>0 DEF Inv, Recalls, ProvisionFails
<1>5. ASSUME NEW h \in Gateways PROVE Knows(h)'
  BY <1>0 DEF Inv, Knows, Current, ProvisionFails
<1>6. ASSUME NEW h \in Gateways PROVE Keeps(h)'
  BY <1>0 DEF Inv, Keeps, ProvisionFails
<1>7. ASSUME NEW h \in Gateways PROVE Clears(h)'
  <2>1. SUFFICES ASSUME h = g PROVE Clears(g)'
    BY DEF Clears, ProvisionFails, Free, Working
  <2>2. QED
    BY <1>0, <1>a DEF Inv, Clears, Active, ProvisionFails
<1>8. Counted'
  BY <1>0 DEF Inv, Counted, ProvisionFails
<1>9. Contest'
  BY <1>0, <1>a DEF Inv, Contest, Solo, Beating, Current, ProvisionFails
<1>10. Stopped'
  BY <1>0 DEF Inv, Stopped, Active, ProvisionFails
<1>11. QED
  BY <1>1, <1>2, <1>3, <1>4, <1>5, <1>6, <1>7, <1>8, <1>9, <1>10 DEF Inv

\* SetupStart keeps the invariant.
LEMMA SetupStartKeeps ==
    ASSUME Inv, NEW g \in live, SetupStart(g)
    PROVE  Inv'
<1>0. g \in Gateways
  BY DEF Inv, Typed
<1>1. Typed'
  BY <1>0 DEF Inv, Typed, TypeOK, Ops, SetupStart
<1>2. Quiet'
  BY <1>0 DEF Inv, Quiet, SetupStart
<1>3. ASSUME NEW h \in Gateways PROVE LeasedTo(h)'
  BY <1>0 DEF Inv, Typed, TypeOK, LeasedTo, Active, SetupStart
<1>4. ASSUME NEW h \in Gateways PROVE Recalls(h)'
  BY <1>0 DEF Inv, Recalls, SetupStart
<1>5. ASSUME NEW h \in Gateways PROVE Knows(h)'
  BY <1>0 DEF Inv, Knows, Current, SetupStart
<1>6. ASSUME NEW h \in Gateways PROVE Keeps(h)'
  BY <1>0 DEF Inv, Keeps, SetupStart
<1>7. ASSUME NEW h \in Gateways PROVE Clears(h)'
  <2>1. SUFFICES ASSUME h = g PROVE Clears(g)'
    BY DEF Clears, SetupStart, Operated, Unoccupied, NoOp
  <2>2. QED
    BY <1>0 DEF Inv, Clears, Active, SetupStart
<1>8. Counted'
  BY <1>0 DEF Inv, Counted, SetupStart
<1>9. Contest'
  BY <1>0 DEF Inv, Contest, Solo, SetupStart, Operated
<1>10. Stopped'
  BY <1>0 DEF Inv, Stopped, Active, SetupStart
<1>11. QED
  BY <1>1, <1>2, <1>3, <1>4, <1>5, <1>6, <1>7, <1>8, <1>9, <1>10 DEF Inv

\* SetupRecord keeps the invariant.
LEMMA SetupRecordKeeps ==
    ASSUME Inv, NEW g \in live, SetupRecord(g)
    PROVE  Inv'
<1>0. g \in Gateways
  BY DEF Inv, Typed
<1>1. Typed'
  BY <1>0 DEF Inv, Typed, TypeOK, Ops, Nodes, SetupRecord
<1>2. Quiet'
  BY <1>0 DEF Inv, Typed, TypeOK, Quiet, SetupRecord
<1>3. ASSUME NEW h \in Gateways PROVE LeasedTo(h)'
  BY <1>0 DEF Inv, LeasedTo, Active, SetupRecord
<1>4. ASSUME NEW h \in Gateways PROVE Recalls(h)'
  BY <1>0 DEF Inv, Recalls, SetupRecord
<1>5. ASSUME NEW h \in Gateways PROVE Knows(h)'
  BY <1>0 DEF Inv, Knows, Current, SetupRecord
<1>6. ASSUME NEW h \in Gateways PROVE Keeps(h)'
  BY <1>0 DEF Inv, Keeps, SetupRecord
<1>7. ASSUME NEW h \in Gateways PROVE Clears(h)'
  <2>1. SUFFICES ASSUME h = g PROVE Clears(g)'
    BY DEF Clears, SetupRecord
  <2>2. QED
    BY <1>0 DEF Inv, Clears, LeasedTo, Active, SetupRecord
<1>8. Counted'
  BY <1>0 DEF Inv, Typed, TypeOK, Counted, Claims, SetupRecord
<1>9. Contest'
  BY <1>0 DEF Inv, Contest, Solo, NoOp, SetupRecord
<1>10. Stopped'
  BY <1>0 DEF Inv, Stopped, Active, SetupRecord
<1>11. QED
  BY <1>1, <1>2, <1>3, <1>4, <1>5, <1>6, <1>7, <1>8, <1>9, <1>10 DEF Inv

\* SetupEnd keeps the invariant.
LEMMA SetupEndKeeps ==
    ASSUME Inv, NEW g \in live, SetupEnd(g)
    PROVE  Inv'
<1>0. g \in Gateways
  BY DEF Inv, Typed
<1>1. Typed'
  BY <1>0 DEF Inv, Typed, TypeOK, Ops, Nodes, SetupEnd, Free, NoOp
<1>2. Quiet'
  BY <1>0 DEF Inv, Quiet, SetupEnd, Free
<1>3. ASSUME NEW h \in Gateways PROVE LeasedTo(h)'
  BY <1>0 DEF Inv, Typed, TypeOK, LeasedTo, Active, SetupEnd, Free, NoOp
<1>4. ASSUME NEW h \in Gateways PROVE Recalls(h)'
  BY <1>0 DEF Inv, Recalls, SetupEnd
<1>5. ASSUME NEW h \in Gateways PROVE Knows(h)'
  BY <1>0 DEF Inv, Knows, Current, SetupEnd
<1>6. ASSUME NEW h \in Gateways PROVE Keeps(h)'
  BY <1>0 DEF Inv, Keeps, SetupEnd
<1>7. ASSUME NEW h \in Gateways PROVE Clears(h)'
  <2>1. SUFFICES ASSUME h = g PROVE Clears(g)'
    BY DEF Clears, SetupEnd, Free, NoOp
  <2>2. QED
    BY <1>0 DEF Inv, Clears, LeasedTo, Active, SetupEnd
<1>8. Counted'
  BY <1>0 DEF Inv, Counted, SetupEnd
<1>9. Contest'
  BY <1>0 DEF Inv, Contest, Solo, SetupEnd, NoOp
<1>10. Stopped'
  BY <1>0 DEF Inv, Stopped, Active, SetupEnd, NoOp
<1>11. QED
  BY <1>1, <1>2, <1>3, <1>4, <1>5, <1>6, <1>7, <1>8, <1>9, <1>10 DEF Inv

\* TakeOver keeps the invariant.
LEMMA TakeOverKeeps ==
    ASSUME Inv, NEW g \in live, TakeOver(g)
    PROVE  Inv'
<1>0. g \in Gateways
  BY DEF Inv, Typed
<1>1. Typed'
  BY <1>0 DEF Inv, Typed, TypeOK, Nodes, TakeOver
<1>2. Quiet'
  BY <1>0 DEF Inv, Typed, TypeOK, Quiet, TakeOver, Operated
<1>3. ASSUME NEW h \in Gateways PROVE LeasedTo(h)'
  BY <1>0 DEF Inv, LeasedTo, Active, TakeOver
<1>4. ASSUME NEW h \in Gateways PROVE Recalls(h)'
  BY <1>0 DEF Inv, Recalls, TakeOver
<1>5. ASSUME NEW h \in Gateways PROVE Knows(h)'
  BY <1>0 DEF Inv, Knows, Current, TakeOver
<1>6. ASSUME NEW h \in Gateways PROVE Keeps(h)'
  BY <1>0 DEF Inv, Keeps, TakeOver
<1>7. ASSUME NEW h \in Gateways PROVE Clears(h)'
  <2>1. SUFFICES ASSUME h = g PROVE Clears(g)'
    BY DEF Clears, TakeOver, Operated
  <2>2. QED
    BY <1>0 DEF Inv, Clears, LeasedTo, Active, TakeOver
<1>8. Counted'
  BY <1>0 DEF Inv, Counted, TakeOver
<1>9. Contest'
  BY <1>0 DEF Inv, Contest, Solo, TakeOver, Operated
<1>10. Stopped'
  BY <1>0 DEF Inv, Stopped, Active, TakeOver
<1>11. QED
  BY <1>1, <1>2, <1>3, <1>4, <1>5, <1>6, <1>7, <1>8, <1>9, <1>10 DEF Inv

\* TeardownRequest keeps the invariant.
LEMMA TeardownRequestKeeps ==
    ASSUME Inv, NEW g \in live, TeardownRequest(g)
    PROVE  Inv'
<1>0. g \in Gateways
  BY DEF Inv, Typed
<1>1. Typed'
  <2>1. op' \in [Gateways -> Ops]
    <3>1. op \in [Gateways -> Ops]
      BY DEF Inv, Typed
    <3>2. CASE op' = [op EXCEPT ![g] = [pc |-> "suspend", hit |-> TRUE]]
      BY <1>0, <3>1, <3>2, OpIs
    <3>3. CASE op' = [op EXCEPT ![g].pc = "teardown"]
      BY <1>0, <3>1, <3>3, OpIs
    <3>4. QED
      BY <1>0, <3>2, <3>3 DEF TeardownRequest
  <2>2. suspended' \in BOOLEAN
    BY <1>0 DEF Inv, Typed, TeardownRequest
  <2>3. QED
    BY <1>0, <2>1 DEF Inv, Typed, TypeOK, TeardownRequest
<1>2. Quiet'
  BY <1>0 DEF Inv, Typed, TypeOK, Quiet, TeardownRequest, Operated
<1>3. ASSUME NEW h \in Gateways PROVE LeasedTo(h)'
  BY <1>0
     DEF Inv, Typed, TypeOK, LeasedTo, Active, TeardownRequest, Operated, Unoccupied,
         NoOp
<1>4. ASSUME NEW h \in Gateways PROVE Recalls(h)'
  BY <1>0 DEF Inv, Recalls, TeardownRequest
<1>5. ASSUME NEW h \in Gateways PROVE Knows(h)'
  BY <1>0 DEF Inv, Knows, Current, TeardownRequest
<1>6. ASSUME NEW h \in Gateways PROVE Keeps(h)'
  BY <1>0 DEF Inv, Keeps, TeardownRequest
<1>7. ASSUME NEW h \in Gateways PROVE Clears(h)'
  <2>1. SUFFICES ASSUME h = g PROVE Clears(g)'
    BY DEF Clears, TeardownRequest, Operated, Unoccupied, NoOp
  <2>2. QED
    BY <1>0 DEF Inv, Clears, Active, TeardownRequest
<1>8. Counted'
  BY <1>0 DEF Inv, Counted, TeardownRequest
<1>9. Contest'
  BY <1>0 DEF Inv, Contest, Solo, TeardownRequest, Operated
<1>10. Stopped'
  BY <1>0 DEF Inv, Typed, Stopped, Active, TeardownRequest
<1>11. QED
  BY <1>1, <1>2, <1>3, <1>4, <1>5, <1>6, <1>7, <1>8, <1>9, <1>10 DEF Inv

\* TeardownSuspend keeps the invariant.
LEMMA TeardownSuspendKeeps ==
    ASSUME Inv, NEW g \in live, TeardownSuspend(g)
    PROVE  Inv'
<1>0. g \in Gateways
  BY DEF Inv, Typed
<1>a. op'[g].pc \in {"cancel", "none"} /\ \A h \in Gateways : h # g => op'[h] = op[h]
  BY <1>0 DEF Inv, Typed, TypeOK, Ops, TeardownSuspend, NoOp
<1>1. Typed'
  <2>1. op' \in [Gateways -> Ops]
    <3>1. op \in [Gateways -> Ops]
      BY DEF Inv, Typed
    <3>2. CASE op' = [op EXCEPT ![g].pc = "cancel"]
      BY <1>0, <3>1, <3>2, OpIs
    <3>3. CASE op' = [op EXCEPT ![g] = [pc |-> "none", hit |-> FALSE]]
      BY <1>0, <3>1, <3>3, OpIs
    <3>4. QED
      BY <1>0, <3>1, <3>2, <3>3 DEF TeardownSuspend, NoOp
  <2>2. suspended' \in BOOLEAN
    BY <1>0 DEF Inv, Typed, TypeOK, TeardownSuspend, NoOp
  <2>3. QED
    BY <1>0, <2>1 DEF Inv, Typed, TypeOK, TeardownSuspend
<1>2. Quiet'
  BY <1>0 DEF Inv, Typed, TypeOK, Quiet, TeardownSuspend, NoOp
<1>3. ASSUME NEW h \in Gateways PROVE LeasedTo(h)'
  BY <1>0, <1>a DEF Inv, LeasedTo, Active, TeardownSuspend
<1>4. ASSUME NEW h \in Gateways PROVE Recalls(h)'
  BY <1>0 DEF Inv, Recalls, TeardownSuspend
<1>5. ASSUME NEW h \in Gateways PROVE Knows(h)'
  BY <1>0 DEF Inv, Knows, Current, TeardownSuspend
<1>6. ASSUME NEW h \in Gateways PROVE Keeps(h)'
  BY <1>0 DEF Inv, Keeps, TeardownSuspend
<1>7. ASSUME NEW h \in Gateways PROVE Clears(h)'
  <2>1. SUFFICES ASSUME h = g PROVE Clears(g)'
    BY DEF Clears, TeardownSuspend, NoOp
  <2>2. QED
    BY <1>0 DEF Inv, Clears, Active, TeardownSuspend
<1>8. Counted'
  BY <1>0 DEF Inv, Counted, TeardownSuspend
<1>9. Contest'
  BY <1>0 DEF Inv, Contest, Solo, TeardownSuspend, NoOp
<1>10. Stopped'
  BY <1>0 DEF Inv, Typed, Stopped, Active, TeardownSuspend, NoOp
<1>11. QED
  BY <1>1, <1>2, <1>3, <1>4, <1>5, <1>6, <1>7, <1>8, <1>9, <1>10 DEF Inv

\* TeardownReserve keeps the invariant.
LEMMA TeardownReserveKeeps ==
    ASSUME Inv, NEW g \in live, TeardownReserve(g)
    PROVE  Inv'
<1>0. g \in Gateways
  BY DEF Inv, Typed
<1>1. Typed'
  <2>1. op' \in [Gateways -> Ops]
    <3>1. op \in [Gateways -> Ops]
      BY DEF Inv, Typed
    <3>2. CASE op' = [op EXCEPT ![g] = [pc |-> "teardown", hit |-> FALSE]]
      BY <1>0, <3>1, <3>2, OpIs
    <3>3. CASE op' = [op EXCEPT ![g] = [pc |-> "none", hit |-> FALSE]]
      BY <1>0, <3>1, <3>3, OpIs
    <3>4. QED
      BY <1>0, <3>1, <3>2, <3>3 DEF TeardownReserve, NoOp, durable
  <2>2. lease' \in [Gateways -> {"none", "launch", "task", "op"}]
    BY <1>0 DEF Inv, Typed, TypeOK, TeardownReserve, NoOp, durable
  <2>3. QED
    BY <1>0, <2>1 DEF Inv, Typed, TypeOK, TeardownReserve, durable
<1>2. Quiet'
  BY <1>0 DEF Inv, Typed, TypeOK, Quiet, TeardownReserve
<1>3. ASSUME NEW h \in Gateways PROVE LeasedTo(h)'
  BY <1>0 DEF Inv, Typed, TypeOK, LeasedTo, Active, TeardownReserve, NoOp, durable
<1>4. ASSUME NEW h \in Gateways PROVE Recalls(h)'
  BY <1>0 DEF Inv, Recalls, TeardownReserve
<1>5. ASSUME NEW h \in Gateways PROVE Knows(h)'
  BY <1>0 DEF Inv, Knows, Current, TeardownReserve, durable
<1>6. ASSUME NEW h \in Gateways PROVE Keeps(h)'
  BY <1>0 DEF Inv, Keeps, TeardownReserve, durable
<1>7. ASSUME NEW h \in Gateways PROVE Clears(h)'
  <2>1. SUFFICES ASSUME h = g PROVE Clears(g)'
    BY DEF Clears, TeardownReserve, NoOp, durable
  <2>2. QED
    BY <1>0 DEF Inv, Clears, Active, TeardownReserve, durable
<1>8. Counted'
  BY <1>0 DEF Inv, Counted, TeardownReserve, durable
<1>9. Contest'
  BY <1>0 DEF Inv, Contest, Solo, TeardownReserve, NoOp
<1>10. Stopped'
  BY <1>0 DEF Inv, Typed, Stopped, Active, TeardownReserve, NoOp, durable
<1>11. QED
  BY <1>1, <1>2, <1>3, <1>4, <1>5, <1>6, <1>7, <1>8, <1>9, <1>10 DEF Inv

\* TeardownEnd keeps the invariant.
LEMMA TeardownEndKeeps ==
    ASSUME Inv, NEW g \in live, TeardownEnd(g)
    PROVE  Inv'
<1>0. g \in Gateways
  BY DEF Inv, Typed
<1>a. live = {g} /\ (\A h \in Gateways : h # g => pass[h].pc = "idle" /\ run[h] = "none" /\ op[h] = NoOp)
  <2>1. Solo
    BY <1>0 DEF Inv, Contest, NoOp, Solo, TeardownEnd
  <2>2. QED
    BY <2>1, OthersIdle DEF Inv, Quiet
<1>1. Typed'
  <2>1. op' \in [Gateways -> Ops]
    <3>1. op \in [Gateways -> Ops]
      BY DEF Inv, Typed
    <3>2. CASE op' = [op EXCEPT ![g] = [pc |-> "none", hit |-> FALSE]]
      BY <1>0, <3>1, <3>2, OpIs
    <3>3. QED
      BY <1>0, <3>1, <3>2 DEF TeardownEnd, NoOp, Free
  <2>2. reg' \in [Gateways -> Nodes \cup {None}]
    <3>1. \A n \in Nodes : [n EXCEPT !.status = "failed"] \in Nodes
      BY DEF Nodes
    <3>2. reg \in [Gateways -> Nodes \cup {None}]
      BY DEF Inv, Typed, TypeOK
    <3>3. \/ reg' = [reg EXCEPT ![g] = None]
          \/ reg' = reg
          \/ reg[g] # None /\ reg' = [reg EXCEPT ![g] = [reg[g] EXCEPT !.status = "failed"]]
      <4>1. CASE reg' = [reg EXCEPT ![g] = None]
        BY <4>1
      <4>2. ASSUME NEW keep \in BOOLEAN,
                   reg' = [reg EXCEPT ![g] = IF @ = None \/ keep THEN @
                                             ELSE [@ EXCEPT !.status = "failed"]]
            PROVE  \/ reg' = reg
                   \/ reg[g] # None /\ reg' = [reg EXCEPT ![g] = [reg[g] EXCEPT !.status = "failed"]]
        <5>1. CASE reg[g] = None \/ keep
          BY <4>2, <5>1, <3>2, <1>0
        <5>2. CASE reg[g] # None /\ ~keep
          BY <4>2, <5>2, <3>2, <1>0
        <5>3. QED
          BY <5>1, <5>2
      <4>3. QED
        BY <4>1, <4>2 DEF TeardownEnd
    <3>4. QED
      BY <1>0, <3>1, <3>2, <3>3
  <2>3. node' \in Nodes \cup {None}
    BY <1>0 DEF Inv, Typed, TypeOK, TeardownEnd, NoOp, Free
  <2>4. out' \in BOOLEAN
    BY <1>0 DEF Inv, Typed, TypeOK, TeardownEnd, NoOp, Free
  <2>5. QED
    BY <1>0, <2>1, <2>2 DEF Inv, Typed, TypeOK, TeardownEnd, Free
<1>2. Quiet'
  BY <1>0 DEF Inv, Quiet, TeardownEnd, Free
<1>3. ASSUME NEW h \in Gateways PROVE LeasedTo(h)'
  BY <1>0 DEF Inv, Typed, TypeOK, LeasedTo, Active, TeardownEnd, NoOp, Free
<1>4. ASSUME NEW h \in Gateways PROVE Recalls(h)'
  BY <1>0 DEF Inv, Recalls, TeardownEnd
<1>5. ASSUME NEW h \in Gateways PROVE Knows(h)'
  BY <1>0 DEF Inv, Knows, Current, TeardownEnd
<1>6. ASSUME NEW h \in Gateways PROVE Keeps(h)'
  BY <1>0 DEF Inv, Keeps, TeardownEnd
<1>7. ASSUME NEW h \in Gateways PROVE Clears(h)'
  <2>1. SUFFICES ASSUME h = g PROVE Clears(g)'
    BY DEF Clears, TeardownEnd, NoOp, Free
  <2>2. QED
    BY <1>0 DEF Inv, Clears, Active, TeardownEnd
<1>8. Counted'
  BY <1>0 DEF Inv, Counted, TeardownEnd
<1>9. Contest'
  BY <1>0 DEF Inv, Contest, Solo, TeardownEnd, NoOp
<1>10. Stopped'
  BY <1>0, <1>a DEF Inv, Stopped, LeasedTo, Active, TeardownEnd
<1>11. QED
  BY <1>1, <1>2, <1>3, <1>4, <1>5, <1>6, <1>7, <1>8, <1>9, <1>10 DEF Inv

\* Resume keeps the invariant.
LEMMA ResumeKeeps ==
    ASSUME Inv, NEW g \in live, Resume(g)
    PROVE  Inv'
<1>0. g \in Gateways
  BY DEF Inv, Typed
<1>a. live = {g} /\ (\A h \in Gateways : h # g => pass[h].pc = "idle" /\ run[h] = "none" /\ op[h] = NoOp)
  <2>1. Solo
    BY <1>0 DEF Inv, Contest, NoOp, Solo, Resume, Operated
  <2>2. QED
    BY <2>1, OthersIdle DEF Inv, Quiet
<1>1. Typed'
  BY <1>0 DEF Inv, Typed, TypeOK, Resume, local
<1>2. Quiet'
  BY <1>0 DEF Inv, Quiet, Resume, local
<1>3. ASSUME NEW h \in Gateways PROVE LeasedTo(h)'
  BY <1>0 DEF Inv, LeasedTo, Active, Resume, local
<1>4. ASSUME NEW h \in Gateways PROVE Recalls(h)'
  BY <1>0 DEF Inv, Recalls, Resume, local
<1>5. ASSUME NEW h \in Gateways PROVE Knows(h)'
  BY <1>0 DEF Inv, Knows, Current, Resume, local
<1>6. ASSUME NEW h \in Gateways PROVE Keeps(h)'
  BY <1>0 DEF Inv, Keeps, Resume, local
<1>7. ASSUME NEW h \in Gateways PROVE Clears(h)'
  <2>1. SUFFICES ASSUME h = g PROVE Clears(g)'
    BY DEF Clears, Resume, Operated, local
  <2>2. QED
    BY <1>0 DEF Inv, Clears, Active, Resume, local
<1>8. Counted'
  BY <1>0 DEF Inv, Counted, Resume
<1>9. Contest'
  BY <1>0 DEF Inv, Contest, Solo, Resume
<1>10. Stopped'
  BY <1>0, <1>a DEF Inv, Stopped, LeasedTo, NoOp, Resume, local
<1>11. QED
  BY <1>1, <1>2, <1>3, <1>4, <1>5, <1>6, <1>7, <1>8, <1>9, <1>10 DEF Inv

\* ResetRead keeps the invariant.
LEMMA ResetReadKeeps ==
    ASSUME Inv, NEW g \in live, ResetRead(g)
    PROVE  Inv'
<1>0. g \in Gateways
  BY DEF Inv, Typed
<1>1. Typed'
  <2>1. reset' \in [Gateways -> Resets \cup {None}]
    BY <1>0 DEF Inv, Typed, TypeOK, Resets, Claims, ResetRead
  <2>2. fresh' \subseteq Readers
    BY <1>0, ReaderIs DEF Inv, Typed, TypeOK, ResetRead
  <2>3. QED
    BY <1>0, <2>1, <2>2 DEF Inv, Typed, TypeOK, ResetRead
<1>2. Quiet'
  BY <1>0 DEF Inv, Quiet, ResetRead
<1>3. ASSUME NEW h \in Gateways PROVE LeasedTo(h)'
  BY <1>0 DEF Inv, LeasedTo, Active, ResetRead
<1>4. ASSUME NEW h \in Gateways PROVE Recalls(h)'
  BY <1>0 DEF Inv, Recalls, ResetRead
<1>5. ASSUME NEW h \in Gateways PROVE Knows(h)'
  BY <1>0, ReaderIs DEF Inv, Knows, Current, ResetRead
<1>6. ASSUME NEW h \in Gateways PROVE Keeps(h)'
  BY <1>0 DEF Inv, Keeps, ResetRead
<1>7. ASSUME NEW h \in Gateways PROVE Clears(h)'
  <2>1. SUFFICES ASSUME h = g PROVE Clears(g)'
    BY DEF Clears, ResetRead, Operated, Unoccupied
  <2>2. QED
    BY <1>0 DEF Inv, Clears, Active, ResetRead
<1>8. Counted'
  BY <1>0 DEF Inv, Counted, ResetRead
<1>9. Contest'
  BY <1>0 DEF Inv, Contest, Solo, ResetRead, Operated
<1>10. Stopped'
  BY <1>0 DEF Inv, Stopped, Active, ResetRead
<1>11. QED
  BY <1>1, <1>2, <1>3, <1>4, <1>5, <1>6, <1>7, <1>8, <1>9, <1>10 DEF Inv

\* ResetDelete keeps the invariant.
LEMMA ResetDeleteKeeps ==
    ASSUME Inv, NEW g \in live, ResetDelete(g)
    PROVE  Inv'
<1>0. g \in Gateways
  BY DEF Inv, Typed
<1>a. Solo => live = {g} /\ \A h \in Gateways : h # g => pass[h].pc = "idle" /\ owned[h] = None
  BY OthersIdle
<1>1. Typed'
  BY <1>0, PlacementAssumption DEF Inv, Typed, TypeOK, ResetDelete, Delete, Unread
<1>2. Quiet'
  BY <1>0 DEF Inv, Quiet, ResetDelete
<1>3. ASSUME NEW h \in Gateways PROVE LeasedTo(h)'
  BY <1>0 DEF Inv, LeasedTo, Active, ResetDelete
<1>4. ASSUME NEW h \in Gateways PROVE Recalls(h)'
  BY <1>0 DEF Inv, Recalls, ResetDelete
<1>5. ASSUME NEW h \in Gateways PROVE Knows(h)'
  BY <1>0 DEF Inv, Knows, Current, ResetDelete, Delete, Unread
<1>6. ASSUME NEW h \in Gateways PROVE Keeps(h)'
  BY <1>0 DEF Inv, Keeps, Recalls, Knows, Current, ResetDelete, Delete, Unread
<1>7. ASSUME NEW h \in Gateways PROVE Clears(h)'
  <2>1. SUFFICES ASSUME h = g PROVE Clears(g)'
    BY DEF Clears, ResetDelete, Delete, Unread
  <2>2. QED
    BY <1>0 DEF Inv, Clears, Active, ResetDelete
<1>8. Counted'
  BY <1>0 DEF Inv, Counted, ResetDelete, Delete, Unread
<1>9. Contest'
  BY <1>0 DEF Inv, Contest, Solo, ResetDelete
<1>10. Stopped'
  BY <1>0 DEF Inv, Stopped, Active, ResetDelete
<1>11. QED
  BY <1>1, <1>2, <1>3, <1>4, <1>5, <1>6, <1>7, <1>8, <1>9, <1>10 DEF Inv

\* Watch keeps the invariant.
LEMMA WatchKeeps ==
    ASSUME Inv, NEW g \in live, Watch(g)
    PROVE  Inv'
<1>0. g \in Gateways
  BY DEF Inv, Typed
<1>1. Typed'
  BY <1>0, PlacementAssumption DEF Inv, Typed, TypeOK, Watch, durable
<1>2. Quiet'
  BY <1>0 DEF Inv, Typed, TypeOK, Quiet, Watch, durable
<1>3. ASSUME NEW h \in Gateways PROVE LeasedTo(h)'
  BY <1>0 DEF Inv, LeasedTo, Active, Watch
<1>4. ASSUME NEW h \in Gateways PROVE Recalls(h)'
  BY <1>0 DEF Inv, Recalls, Watch
<1>5. ASSUME NEW h \in Gateways PROVE Knows(h)'
  BY <1>0 DEF Inv, Knows, Current, Watch, durable
<1>6. ASSUME NEW h \in Gateways PROVE Keeps(h)'
  BY <1>0 DEF Inv, Keeps, Watch, durable
<1>7. ASSUME NEW h \in Gateways PROVE Clears(h)'
  <2>1. SUFFICES ASSUME h = g PROVE Clears(g)'
    BY DEF Clears, Watch, durable
  <2>2. QED
    BY <1>0 DEF Inv, Clears, Active, Watch, durable
<1>8. Counted'
  BY <1>0 DEF Inv, Counted, Watch, durable
<1>9. Contest'
  BY <1>0 DEF Inv, Contest, Solo, Watch
<1>10. Stopped'
  BY <1>0 DEF Inv, Stopped, Active, Watch, durable
<1>11. QED
  BY <1>1, <1>2, <1>3, <1>4, <1>5, <1>6, <1>7, <1>8, <1>9, <1>10 DEF Inv

\* Expire keeps the invariant.
LEMMA ExpireKeeps ==
    ASSUME Inv, Expire
    PROVE  Inv'
<1>1. Typed'
  BY PlacementAssumption DEF Inv, Typed, TypeOK, Expire, local
<1>2. Quiet'
  BY DEF Inv, Typed, TypeOK, Quiet, Expire, local
<1>3. ASSUME NEW h \in Gateways PROVE LeasedTo(h)'
  BY DEF Inv, LeasedTo, Active, Expire, local
<1>4. ASSUME NEW h \in Gateways PROVE Recalls(h)'
  BY DEF Inv, Recalls, Expire, local
<1>5. ASSUME NEW h \in Gateways PROVE Knows(h)'
  BY DEF Inv, Knows, Current, Expire, local
<1>6. ASSUME NEW h \in Gateways PROVE Keeps(h)'
  BY DEF Inv, Keeps, Expire, local
<1>7. ASSUME NEW h \in Gateways PROVE Clears(h)'
  BY DEF Inv, Clears, Expire
<1>8. Counted'
  BY DEF Inv, Typed, TypeOK, Counted, Claims, Expire, local
<1>9. Contest'
  BY DEF Inv, Contest, Solo, Beating, Current, Expire, local
<1>10. Stopped'
  BY DEF Inv, Stopped, Active, Expire, local
<1>11. QED
  BY <1>1, <1>2, <1>3, <1>4, <1>5, <1>6, <1>7, <1>8, <1>9, <1>10 DEF Inv

\* SettleKeep: the claim stays as it is.
LEMMA SettleKeepKeeps ==
    ASSUME Inv, NEW g \in live, NEW available \in BOOLEAN, SettleKeep(g, available)
    PROVE  Inv'
<1>0. g \in Gateways /\ pass[g].pc = "settle"
  BY DEF Inv, Typed, SettleKeep
<1>1. pass[g].stored \in Claims \cup {None}
  BY <1>0 DEF Inv, Typed, TypeOK
<1>2. /\ pass' \in [Gateways -> Passes]
      /\ \A h \in Gateways : h # g => pass'[h] = pass[h]
      /\ \/ pass'[g].pc = "idle"
         \/ /\ pass'[g].pc = "decide" /\ pass'[g].stored = pass[g].stored
            /\ pass'[g].stale = FALSE
  BY <1>0, <1>1, DecideIs DEF SettleKeep
<1>3. /\ fresh' = fresh \/ fresh' = fresh \ {Reader(g, "pass")}
      /\ UNCHANGED <<claim, age, node, suspended, reg, owned, run, lease, op, reset,
                     live, tries, out>>
  BY DEF SettleKeep, Unwritten, Unread
<1>4. QED
  BY <1>0, <1>2, <1>3, PassMoves

\* SettleWrite: a claim that nobody attends is rewritten, or the race for it is
\* lost, or the write fails.
LEMMA SettleWriteKeeps ==
    ASSUME Inv, NEW g \in live, NEW available \in BOOLEAN, SettleWrite(g, available)
    PROVE  Inv'
<1> DEFINE v == Verdict(g, available)
           c == Settled(g, v)
<1>0. /\ g \in Gateways /\ pass[g].pc = "settle"
      /\ v \in {"adopt", "abandon", "lapse"}
      /\ UNCHANGED <<node, suspended, reg, owned, run, lease, op, reset, live, out>>
  BY DEF Inv, Typed, SettleWrite
<1>1. pass[g].stored \in Claims \cup {None}
  BY <1>0 DEF Inv, Typed, TypeOK
<1>2. CASE /\ Reader(g, "pass") \in fresh
           /\ \/ Put(Reader(g, "pass"), c) /\ Decide(g, available, c)
              \/ PutUnseen(c) /\ EndPass(g)
           /\ tries' = (IF v = "adopt" THEN 0 ELSE tries)
  <2>1. /\ pass[g].stored \in Claims /\ claim # None
        /\ claim.id = pass[g].stored.id /\ claim.state = pass[g].stored.state
        /\ claim.attempts = pass[g].stored.attempts
    BY <1>0, <1>2, ReadIs
  <2>2. /\ c \in Claims /\ c # None /\ c.id = claim.id
        /\ v = "adopt" => c.attempts = 0
        /\ v = "abandon" => c.attempts = claim.attempts /\ c.state # "active"
        /\ v = "lapse" => c.attempts = 0 /\ c.state # "active"
    <3>1. c \in Claims /\ c.id = claim.id
      BY <1>0, <2>1, SettledIs
    <3>2. /\ v = "adopt" => c.attempts = 0
          /\ v = "abandon" => c.attempts = claim.attempts /\ c.state # "active"
          /\ v = "lapse" => c.attempts = 0 /\ c.state # "active"
      BY <1>0, <2>1, SettledIs
    <3>3. QED
      BY <3>1, <3>2, PlacementAssumption
  <2>3. /\ \A h \in Gateways : pass[h].pc # "fire"
        /\ ~Solo => \A h \in Gateways : owned[h] = None
        /\ Released
    BY <1>0, <1>2, ReleasedWhenSettled
  <2>4. /\ tries' \in Nat /\ tries' <= c.attempts
        /\ c.state = "active" => c.attempts = 0
    <3>1. tries \in Nat /\ tries <= claim.attempts /\ claim.attempts \in Nat
      BY <2>1, StoredIs DEF Inv, Counted
    <3>2. v = "lapse" => claim.attempts = 0
      BY <1>0, <2>1, VerdictIs DEF Inv, Counted
    <3>3. QED
      BY <1>0, <1>2, <2>2, <3>1, <3>2
  <2>5. /\ claim' = c /\ age' = 0 /\ fresh' \subseteq {Reader(g, "pass")}
        /\ pass' \in [Gateways -> Passes]
        /\ \A h \in Gateways : h # g => pass'[h] = pass[h]
        /\ \/ pass'[g].pc = "idle"
           \/ /\ pass'[g].pc = "decide" /\ pass'[g].stored = c
              /\ pass'[g].stale = FALSE
    <3>1. CASE Put(Reader(g, "pass"), c) /\ Decide(g, available, c)
      BY <1>0, <2>2, <3>1, DecideIs DEF Put
    <3>2. CASE PutUnseen(c) /\ EndPass(g)
      BY <1>0, <3>2, EndPassIs DEF PutUnseen
    <3>3. QED
      BY <1>2, <3>1, <3>2
  <2> HIDE DEF c, v
  <2>6. QED
    BY <1>0, <2>1, <2>2, <2>3, <2>4, <2>5, PassWrites
<1>3. CASE Unwritten /\ Decide(g, available, pass[g].stored) /\ UNCHANGED tries
  <2>1. /\ pass' \in [Gateways -> Passes]
        /\ \A h \in Gateways : h # g => pass'[h] = pass[h]
        /\ \/ pass'[g].pc = "idle"
           \/ /\ pass'[g].pc = "decide" /\ pass'[g].stored = pass[g].stored
              /\ pass'[g].stale = FALSE
    BY <1>0, <1>1, <1>3, DecideIs
  <2>2. QED
    BY <1>0, <1>3, <2>1, PassMoves DEF Unwritten
<1>4. CASE Unread(Reader(g, "pass")) /\ EndPass(g) /\ UNCHANGED tries
  <2>1. /\ pass' \in [Gateways -> Passes] /\ pass'[g].pc = "idle"
        /\ \A h \in Gateways : h # g => pass'[h] = pass[h]
    BY <1>0, <1>4, EndPassIs
  <2>2. QED
    BY <1>0, <1>4, <2>1, PassMoves DEF Unread
<1>5. QED
  BY <1>2, <1>3, <1>4 DEF SettleWrite

\* SettleDrop: a claim that nobody attends is deleted.
LEMMA SettleDropKeeps ==
    ASSUME Inv, NEW g \in live, NEW available \in BOOLEAN, SettleDrop(g, available)
    PROVE  Inv'
<1>0. /\ g \in Gateways /\ pass[g].pc \in {"settle", "drop"}
      /\ pass[g].pc = "settle" => Verdict(g, available) = "drop"
      /\ UNCHANGED <<node, suspended, reg, owned, run, lease, op, reset, live, out>>
  BY DEF Inv, Typed, SettleDrop
<1>1. pass[g].stored \in Claims \cup {None}
  BY <1>0 DEF Inv, Typed, TypeOK
<1>2. CASE /\ Reader(g, "pass") \in fresh /\ Delete /\ tries' = 0
           /\ Decide(g, available, None) \/ EndPass(g)
  <2>1. claim # None /\ claim.state = pass[g].stored.state
    BY <1>0, <1>2, ReadIs
  <2>2. /\ \A h \in Gateways : pass[h].pc # "fire"
        /\ ~Solo => \A h \in Gateways : owned[h] = None
    <3>1. CASE pass[g].pc = "settle"
      BY <1>0, <1>2, <3>1, ReleasedWhenSettled
    <3>2. CASE pass[g].pc = "drop"
      <4>1. claim.state # "provisioning"
        BY <1>0, <2>1, <3>2 DEF Inv, Recalls
      <4>2. QED
        BY <2>1, <4>1, ReleasedWhenOver DEF Released
    <3>3. QED
      BY <1>0, <3>1, <3>2
  <2>3. /\ claim' = None /\ age' = 0 /\ fresh' = {} /\ None \in Claims \cup {None}
        /\ pass' \in [Gateways -> Passes]
        /\ \A h \in Gateways : h # g => pass'[h] = pass[h]
        /\ \/ pass'[g].pc = "idle"
           \/ /\ pass'[g].pc = "decide" /\ pass'[g].stored = None
              /\ pass'[g].stale = FALSE
    <3>1. CASE Decide(g, available, None)
      BY <1>0, <1>2, <3>1, DecideIs DEF Delete
    <3>2. CASE EndPass(g)
      BY <1>0, <1>2, <3>2, EndPassIs DEF Delete
    <3>3. QED
      BY <1>2, <3>1, <3>2
  <2>4. QED
    BY <1>0, <1>2, <2>1, <2>2, <2>3, PassWrites
<1>3. CASE Unwritten /\ Decide(g, available, pass[g].stored) /\ UNCHANGED tries
  <2>1. /\ pass' \in [Gateways -> Passes]
        /\ \A h \in Gateways : h # g => pass'[h] = pass[h]
        /\ \/ pass'[g].pc = "idle"
           \/ /\ pass'[g].pc = "decide" /\ pass'[g].stored = pass[g].stored
              /\ pass'[g].stale = FALSE
    BY <1>0, <1>1, <1>3, DecideIs
  <2>2. QED
    BY <1>0, <1>3, <2>1, PassMoves DEF Unwritten
<1>4. CASE Unread(Reader(g, "pass")) /\ EndPass(g) /\ UNCHANGED tries
  <2>1. /\ pass' \in [Gateways -> Passes] /\ pass'[g].pc = "idle"
        /\ \A h \in Gateways : h # g => pass'[h] = pass[h]
    BY <1>0, <1>4, EndPassIs
  <2>2. QED
    BY <1>0, <1>4, <2>1, PassMoves DEF Unread
<1>5. QED
  BY <1>2, <1>3, <1>4 DEF SettleDrop

\* LaunchRefused: a failed claim waits or is exhausted.
LEMMA LaunchRefusedKeeps ==
    ASSUME Inv, NEW g \in live, LaunchRefused(g)
    PROVE  Inv'
<1> DEFINE s == pass[g].stored
           c == IF Spent(s) THEN [s EXCEPT !.state = "exhausted"] ELSE s
<1>0. /\ g \in Gateways /\ pass[g].pc = "decide" /\ s # None /\ s.state = "failed"
      /\ Reader(g, "pass") \in fresh /\ PutUnseen(c) /\ EndPass(g)
      /\ UNCHANGED <<node, suspended, reg, owned, run, lease, op, reset, live, tries, out>>
  BY DEF Inv, Typed, LaunchRefused, Candidate
<1>1. /\ s \in Claims /\ claim # None /\ claim.id = s.id /\ claim.state = s.state
      /\ claim.attempts = s.attempts
  BY <1>0, ReadIs
<1>2. c \in Claims /\ c.id = claim.id /\ c.attempts = claim.attempts /\ c.state # "active"
  BY <1>0, <1>1 DEF Claims, States
<1>3. Released
  BY <1>0, <1>1, ReleasedWhenOver
<1>4. tries' \in Nat /\ tries' <= c.attempts
  BY <1>0, <1>1, <1>2, StoredIs DEF Inv, Counted
<1>5. /\ claim' = c /\ age' = 0 /\ fresh' \subseteq {Reader(g, "pass")}
      /\ pass' \in [Gateways -> Passes] /\ pass'[g].pc = "idle"
      /\ \A h \in Gateways : h # g => pass'[h] = pass[h]
  BY <1>0, EndPassIs DEF PutUnseen
<1> HIDE DEF c
<1>6. c # None
  BY <1>2, PlacementAssumption
<1>7. QED
  BY <1>0, <1>1, <1>2, <1>3, <1>4, <1>5, <1>6, PassWrites DEF Released

\* _clear_own_node keeps the invariant: the host is free and the claim not attended.
LEMMA ClearNodeKeeps ==
    ASSUME Inv, NEW g \in live, ClearNode(g), pass[g].pc \in {"settle", "decide"},
           pass[g].stored # None, pass[g].stored.state # "provisioning"
    PROVE  Inv'
<1>0. g \in Gateways
  BY DEF Inv, Typed
<1>a. /\ pass' \in [Gateways -> Passes]
      /\ pass'[g].pc = "drop" /\ pass'[g].stored = pass[g].stored /\ (pass'[g].stale => pass[g].stale)
      /\ \A h \in Gateways : h # g => pass'[h] = pass[h]
  <2>1. pass \in [Gateways -> Passes] /\ pass' = [pass EXCEPT ![g].pc = "drop"]
    BY DEF Inv, Typed, TypeOK, Passes, ClearNode, Goto
  <2>2. pass'[g] = [pass[g] EXCEPT !.pc = "drop"] /\ pass[g] \in Passes
    BY <1>0, <2>1
  <2>3. pass'[g].pc = "drop" /\ pass'[g].stored = pass[g].stored /\ (pass'[g].stale => pass[g].stale)
    BY <2>2 DEF Passes
  <2>4. QED
    BY <1>0, <2>1, <2>3, PassIs
<1>1. Typed'
  BY <1>0, <1>a DEF Inv, Typed, TypeOK, Passes, ClearNode
<1>2. Quiet'
  BY <1>0, <1>a DEF Inv, Quiet, ClearNode
<1>3. ASSUME NEW h \in Gateways PROVE LeasedTo(h)'
  BY <1>0, <1>a DEF Inv, LeasedTo, Active, ClearNode
<1>4. ASSUME NEW h \in Gateways PROVE Recalls(h)'
  BY <1>0, PlacementAssumption, <1>1, <1>a DEF Inv, Recalls, ClearNode
<1>5. ASSUME NEW h \in Gateways PROVE Knows(h)'
  BY <1>0, <1>a DEF Inv, Knows, Current, ClearNode
<1>6. ASSUME NEW h \in Gateways PROVE Keeps(h)'
  BY <1>0, PlacementAssumption, <1>a DEF Inv, Keeps, ClearNode
<1>7. ASSUME NEW h \in Gateways PROVE Clears(h)'
  <2>1. SUFFICES ASSUME h = g PROVE Clears(g)'
    BY DEF Clears, ClearNode, Goto
  <2>2. QED
    BY <1>0, <1>a DEF Inv, Clears, Active, ClearNode
<1>8. Counted'
  BY <1>0, <1>a DEF Inv, Counted, ClearNode
<1>9. Contest'
  BY <1>0, <1>a DEF Inv, Contest, Solo, Beating, Current, ClearNode
<1>10. Stopped'
  BY <1>0, <1>a DEF Inv, Stopped, Active, ClearNode
<1>11. QED
  BY <1>1, <1>2, <1>3, <1>4, <1>5, <1>6, <1>7, <1>8, <1>9, <1>10 DEF Inv

\* SettleClear keeps the invariant.
LEMMA SettleClearKeeps ==
    ASSUME Inv, NEW g \in live, SettleClear(g)
    PROVE  Inv'
<1>0. g \in Gateways /\ pass[g].pc = "settle"
  BY DEF Inv, Typed, SettleClear
<1>1. pass[g].stored # None /\ pass[g].stored.state # "provisioning"
  BY <1>0, VerdictIs DEF SettleClear, Inv, Recalls
<1>2. CASE ClearNode(g)
  BY <1>0, <1>1, <1>2, ClearNodeKeeps
<1>3. CASE /\ Unread(Reader(g, "pass")) /\ EndPass(g)
           /\ UNCHANGED <<node, suspended, reg, owned, run, lease, op, reset, live,
                          tries, out>>
  <2>1. /\ pass' \in [Gateways -> Passes] /\ pass'[g].pc = "idle"
        /\ \A h \in Gateways : h # g => pass'[h] = pass[h]
    BY <1>0, <1>3, EndPassIs
  <2>2. QED
    BY <1>0, <1>3, <2>1, PassMoves DEF Unread
<1>4. QED
  BY <1>2, <1>3 DEF SettleClear

\* A pass that gives up a failed claim.
LEMMA GoesToDropKeeps ==
    ASSUME Inv, NEW g \in live, Goto(g, "drop"), pass[g].pc \in {"settle", "decide"},
           pass[g].stored # None, pass[g].stored.state # "provisioning",
           UNCHANGED <<claim, age, node, suspended, fresh, reg, owned, run, lease, op,
                       reset, live, tries, out>>
    PROVE  Inv'
<1>0. g \in Gateways
  BY DEF Inv, Typed
<1>a. /\ pass' \in [Gateways -> Passes]
      /\ pass'[g].pc = "drop" /\ pass'[g].stored = pass[g].stored /\ (pass'[g].stale => pass[g].stale)
      /\ \A h \in Gateways : h # g => pass'[h] = pass[h]
  <2>1. pass \in [Gateways -> Passes] /\ pass' = [pass EXCEPT ![g].pc = "drop"]
    BY DEF Inv, Typed, TypeOK, Passes, Goto
  <2>2. pass'[g] = [pass[g] EXCEPT !.pc = "drop"] /\ pass[g] \in Passes
    BY <1>0, <2>1
  <2>3. pass'[g].pc = "drop" /\ pass'[g].stored = pass[g].stored /\ (pass'[g].stale => pass[g].stale)
    BY <2>2 DEF Passes
  <2>4. QED
    BY <1>0, <2>1, <2>3, PassIs
<1>1. Typed'
  BY <1>0, PlacementAssumption, <1>a DEF Inv, Typed, TypeOK, Passes
<1>2. Quiet'
  BY <1>0, <1>a DEF Inv, Quiet
<1>3. ASSUME NEW h \in Gateways PROVE LeasedTo(h)'
  BY <1>0, <1>a DEF Inv, LeasedTo, Active
<1>4. ASSUME NEW h \in Gateways PROVE Recalls(h)'
  BY <1>0, PlacementAssumption, <1>1, <1>a DEF Inv, Recalls
<1>5. ASSUME NEW h \in Gateways PROVE Knows(h)'
  BY <1>0, ReaderIs, PlacementAssumption, <1>a DEF Inv, Knows, Current
<1>6. ASSUME NEW h \in Gateways PROVE Keeps(h)'
  BY <1>0, PlacementAssumption, <1>a DEF Inv, Keeps
<1>7. ASSUME NEW h \in Gateways PROVE Clears(h)'
  <2>1. SUFFICES ASSUME h = g PROVE Clears(g)'
    BY DEF Clears
  <2>2. QED
    BY <1>0, <1>a DEF Inv, Clears, Active
<1>8. Counted'
  BY <1>0, <1>a DEF Inv, Counted
<1>9. Contest'
  BY <1>0, <1>a DEF Inv, Contest, Solo, Beating, Current
<1>10. Stopped'
  BY <1>0, <1>a DEF Inv, Stopped, Active
<1>11. QED
  BY <1>1, <1>2, <1>3, <1>4, <1>5, <1>6, <1>7, <1>8, <1>9, <1>10 DEF Inv

\* PolicyRelease keeps the invariant.
LEMMA PolicyReleaseKeeps ==
    ASSUME Inv, NEW g \in live, PolicyRelease(g)
    PROVE  Inv'
<1>1. /\ pass[g].pc = "decide" /\ pass[g].stored # None
      /\ pass[g].stored.state # "provisioning"
  BY DEF PolicyRelease
<1>2. CASE ClearNode(g)
  BY <1>1, <1>2, ClearNodeKeeps
<1>3. CASE /\ Goto(g, "drop")
           /\ UNCHANGED <<durable, reg, owned, run, lease, op, reset, live, tries, out>>
  BY <1>1, <1>3, GoesToDropKeeps DEF durable
<1>4. QED
  BY <1>2, <1>3 DEF PolicyRelease

\* What the end of a task does to the operator's request.
LEMMA TaskOverIs ==
    ASSUME Inv, NEW g \in Gateways, TaskOver(g)
    PROVE  /\ op' \in [Gateways -> Ops]
           /\ op'[g].pc = (IF op[g].pc = "wait" THEN "reserve" ELSE op[g].pc)
           /\ op[g] = NoOp => op'[g] = NoOp
           /\ \A h \in Gateways : h # g => op'[h] = op[h]
<1>1. op \in [Gateways -> Ops]
  BY DEF Inv, Typed
<1>2. PICK p \in {"none", "setup", "recorded", "suspend", "cancel", "wait", "reserve",
                  "teardown"} :
          p = (IF op[g].pc = "wait" THEN "reserve" ELSE op[g].pc)
  BY <1>1 DEF Ops
<1>3. op' = [op EXCEPT ![g] = [pc |-> p, hit |-> FALSE]]
  BY <1>2 DEF TaskOver
<1>4. op' \in [Gateways -> Ops]
  BY <1>1, <1>3, OpIs
<1>5. op[g] = NoOp => op'[g] = NoOp
  BY <1>1, <1>2, <1>3 DEF NoOp
<1>6. QED
  BY <1>1, <1>2, <1>3, <1>4, <1>5

\* Fence keeps the invariant.
LEMMA FenceKeeps ==
    ASSUME Inv, NEW g \in live, Fence(g)
    PROVE  Inv'
<1>0. g \in Gateways
  BY DEF Inv, Typed
<1>a. /\ owned[g] # None /\ owned[g].claim.id \in ClaimIds
      /\ owned[g].claim.holder = g /\ owned[g].claim.state = "provisioning"
      /\ \A s \in {"provisioning", "failed", "serving"} :
             Mine(g, s) \in Nodes /\ Mine(g, s) # None /\ Mine(g, s).id = owned[g].claim.id
  BY <1>0, HoldingIs DEF Fence, Working
<1>b. node' = None \/ (node' = node) \/ (node' \in Nodes /\ node' # None /\ node'.id = owned[g].claim.id)
  BY <1>0, <1>a DEF Fence, Working, Landing
<1>c. /\ op' \in [Gateways -> Ops]
      /\ op'[g].pc = (IF op[g].pc = "wait" THEN "reserve" ELSE op[g].pc)
      /\ op[g] = NoOp => op'[g] = NoOp
      /\ \A h \in Gateways : h # g => op'[h] = op[h]
  BY <1>0, TaskOverIs DEF Fence
<1>1. Typed'
  BY <1>0, <1>b, <1>c DEF Inv, Typed, TypeOK, Fence, Free, Forget, Unread
<1>2. Quiet'
  BY <1>0, <1>c DEF Inv, Quiet, Fence, Free, Forget
<1>3. ASSUME NEW h \in Gateways PROVE LeasedTo(h)'
  BY <1>0, <1>c DEF Inv, Typed, TypeOK, LeasedTo, Active, Fence, Free, Forget, Working
<1>4. ASSUME NEW h \in Gateways PROVE Recalls(h)'
  BY <1>0 DEF Inv, Recalls, Fence, Forget
<1>5. ASSUME NEW h \in Gateways PROVE Knows(h)'
  BY <1>0 DEF Inv, Knows, Current, Fence, Unread
<1>6. ASSUME NEW h \in Gateways PROVE Keeps(h)'
  BY <1>0 DEF Inv, Keeps, Fence, Forget, Unread
<1>7. ASSUME NEW h \in Gateways PROVE Clears(h)'
  <2>1. SUFFICES ASSUME h = g PROVE Clears(g)'
    BY DEF Clears, Fence, Free, Forget, Unread, Working
  <2>2. QED
    BY <1>0 DEF Inv, Typed, TypeOK, Clears, Active, LeasedTo, Fence, Working
<1>8. Counted'
  BY <1>0 DEF Inv, Counted, Fence, Unread
<1>9. Contest'
  BY <1>0, ReaderIs, <1>a, <1>b, <1>c
     DEF Inv, Contest, Solo, Beating, Current, Fence, Forget, Unread
<1>10. Stopped'
  BY <1>0, <1>c DEF Inv, Stopped, Active, Fence
<1>11. QED
  BY <1>1, <1>2, <1>3, <1>4, <1>5, <1>6, <1>7, <1>8, <1>9, <1>10 DEF Inv

\* ResetClear keeps the invariant.
LEMMA ResetClearKeeps ==
    ASSUME Inv, NEW g \in live, ResetClear(g)
    PROVE  Inv'
<1>0. g \in Gateways
  BY DEF Inv, Typed
<1>1. Typed'
  <2>1. reset' \in [Gateways -> Resets \cup {None}]
    <3>1. reset \in [Gateways -> Resets \cup {None}] /\ reset[g] # None
      BY DEF Inv, Typed, TypeOK, ResetClear
    <3>2. reset[g] \in Resets
      BY <1>0, <3>1
    <3>3. [reset[g] EXCEPT !.cleared = TRUE] \in Resets
      BY <3>2 DEF Resets
    <3>4. \/ reset' = [reset EXCEPT ![g] = [reset[g] EXCEPT !.cleared = TRUE]]
          \/ reset' = [reset EXCEPT ![g] = None]
      BY DEF ResetClear
    <3>5. QED
      BY <1>0, <3>1, <3>3, <3>4
  <2>2. reg' \in [Gateways -> Nodes \cup {None}]
    BY <1>0 DEF Inv, Typed, TypeOK, ResetClear
  <2>3. node' \in Nodes \cup {None}
    BY <1>0 DEF Inv, Typed, TypeOK, ResetClear
  <2>4. fresh' \subseteq Readers
    BY <1>0 DEF Inv, Typed, TypeOK, ResetClear
  <2>5. QED
    BY <1>0, <2>1 DEF Inv, Typed, TypeOK, ResetClear
<1>2. Quiet'
  BY <1>0 DEF Inv, Typed, TypeOK, Quiet, ResetClear
<1>3. ASSUME NEW h \in Gateways PROVE LeasedTo(h)'
  BY <1>0 DEF Inv, LeasedTo, Active, ResetClear
<1>4. ASSUME NEW h \in Gateways PROVE Recalls(h)'
  BY <1>0 DEF Inv, Recalls, ResetClear
<1>5. ASSUME NEW h \in Gateways PROVE Knows(h)'
  BY <1>0 DEF Inv, Typed, TypeOK, Knows, Current, ResetClear
<1>6. ASSUME NEW h \in Gateways PROVE Keeps(h)'
  BY <1>0 DEF Inv, Keeps, ResetClear
<1>7. ASSUME NEW h \in Gateways PROVE Clears(h)'
  <2>1. SUFFICES ASSUME h = g PROVE Clears(g)'
    BY DEF Clears, ResetClear
  <2>2. QED
    BY <1>0 DEF Inv, Clears, Active, ResetClear
<1>8. Counted'
  BY <1>0 DEF Inv, Typed, TypeOK, Counted, Claims, ResetClear
<1>9. Contest'
  BY <1>0 DEF Inv, Contest, Solo, ResetClear
<1>10. Stopped'
  BY <1>0 DEF Inv, Stopped, Active, ResetClear
<1>11. QED
  BY <1>1, <1>2, <1>3, <1>4, <1>5, <1>6, <1>7, <1>8, <1>9, <1>10 DEF Inv

\* TeardownCancel keeps the invariant.
LEMMA TeardownCancelKeeps ==
    ASSUME Inv, NEW g \in live, TeardownCancel(g)
    PROVE  Inv'
<1>0. g \in Gateways
  BY DEF Inv, Typed
<1>a. live = {g} /\ (\A h \in Gateways : h # g => pass[h].pc = "idle" /\ run[h] = "none" /\ op[h] = NoOp)
  <2>1. Solo
    BY <1>0 DEF Inv, Contest, NoOp, Solo, TeardownCancel
  <2>2. QED
    BY <2>1, OthersIdle DEF Inv, Quiet
<1>b. /\ op' \in [Gateways -> Ops]
      /\ op'[g].pc \in {"none", "wait", "reserve"} /\ op[g].pc = "cancel"
      /\ \A h \in Gateways : h # g => op'[h] = op[h]
  <2>1. op \in [Gateways -> Ops]
    BY DEF Inv, Typed
  <2>2. CASE op' = [op EXCEPT ![g] = [pc |-> "none", hit |-> FALSE]]
    BY <1>0, <2>1, <2>2, OpIs DEF TeardownCancel
  <2>3. CASE op' = [op EXCEPT ![g] = [pc |-> "reserve", hit |-> FALSE]]
    BY <1>0, <2>1, <2>3, OpIs DEF TeardownCancel
  <2>4. CASE op' = [op EXCEPT ![g].pc = "wait"]
    <3>1. op'[g].pc = "wait"
      BY <1>0, <2>1, <2>4 DEF Ops
    <3>2. QED
      BY <1>0, <2>1, <2>4, <3>1, OpIs DEF TeardownCancel
  <2>5. QED
    BY <2>2, <2>3, <2>4 DEF TeardownCancel, NoOp
<1>c. Working(g) =>
          \A n \in Landing(g) :
              n = node \/ (n \in Nodes /\ n # None /\ n.id = owned[g].claim.id)
  BY <1>0, HoldingIs DEF Landing, Working
<1>d. /\ \/ /\ run' = run /\ owned' = owned /\ lease' = lease /\ fresh' = fresh
            /\ node' = node
         \/ /\ Active(g) /\ run' = [run EXCEPT ![g] = "none"]
            /\ owned' = [owned EXCEPT ![g] = None]
            /\ lease' = [lease EXCEPT ![g] = "none"]
            /\ fresh' = fresh \ {Reader(g, "owned")} /\ node' = node
         \/ /\ Active(g) /\ run' = [run EXCEPT ![g] = "failed"]
            /\ lease' = [lease EXCEPT ![g] = "none"]
            /\ owned' = owned /\ fresh' = fresh
            /\ node' = node \/ (node' \in Nodes /\ node' # None /\ node'.id = owned[g].claim.id)
      /\ UNCHANGED <<claim, age, suspended, reg, pass, reset, live, tries, out>>
  BY <1>c DEF TeardownCancel, Working, Free, Forget, Active
<1>1. Typed'
  <2>1. owned' \in [Gateways -> Holdings \cup {None}] /\ fresh' \subseteq Readers
    BY <1>0, <1>d DEF Inv, Typed, TypeOK
  <2>2. run' \in [Gateways -> {"none", "queued", "started", "recorded", "succeeded",
                             "failed"}]
    BY <1>0, <1>d DEF Inv, Typed, TypeOK
  <2>3. lease' \in [Gateways -> {"none", "launch", "task", "op"}]
    BY <1>0, <1>d DEF Inv, Typed, TypeOK
  <2>4. node' \in Nodes \cup {None}
    BY <1>d DEF Inv, Typed, TypeOK
  <2>5. QED
    BY <1>b, <1>d DEF Inv, Typed, TypeOK
<1>2. Quiet'
  BY <1>0, <1>b, <1>d DEF Inv, Typed, TypeOK, Quiet
<1>3. ASSUME NEW h \in Gateways PROVE LeasedTo(h)'
  BY <1>0, <1>b, <1>d DEF Inv, Typed, TypeOK, LeasedTo, Active
<1>4. ASSUME NEW h \in Gateways PROVE Recalls(h)'
  BY <1>0, <1>d DEF Inv, Typed, TypeOK, Recalls
<1>5. ASSUME NEW h \in Gateways PROVE Knows(h)'
  BY <1>0, <1>d DEF Inv, Knows, Current
<1>6. ASSUME NEW h \in Gateways PROVE Keeps(h)'
  BY <1>0, <1>d DEF Inv, Typed, TypeOK, Keeps
<1>7. ASSUME NEW h \in Gateways PROVE Clears(h)'
  <2>1. SUFFICES ASSUME h = g PROVE Clears(g)'
    BY <1>d DEF Clears
  <2>2. QED
    BY <1>0, <1>d DEF Inv, Typed, TypeOK, Clears, Active, LeasedTo
<1>8. Counted'
  BY <1>0, <1>d DEF Inv, Counted
<1>9. Contest'
  BY <1>0, <1>a, <1>d DEF Inv, Contest, Solo
<1>10. Stopped'
  BY <1>0, <1>b, <1>d DEF Inv, Stopped, Active
<1>11. QED
  BY <1>1, <1>2, <1>3, <1>4, <1>5, <1>6, <1>7, <1>8, <1>9, <1>10 DEF Inv

\* Finish keeps the invariant: the outcome is written over the claim of this attempt
\* only, and then nobody else depends on it.
LEMMA FinishKeeps ==
    ASSUME Inv, NEW g \in live, Finish(g)
    PROVE  Inv'
<1>0. g \in Gateways
  BY DEF Inv, Typed
<1>a. /\ owned[g] # None /\ owned[g].claim.id \in ClaimIds
      /\ owned[g].claim.holder = g /\ owned[g].claim.state = "provisioning"
      /\ \A s \in {"provisioning", "failed", "serving"} :
             Mine(g, s) \in Nodes /\ Mine(g, s) # None /\ Mine(g, s).id = owned[g].claim.id
  BY <1>0, HoldingIs DEF Finish
<1>c. /\ op' \in [Gateways -> Ops]
      /\ op'[g].pc = (IF op[g].pc = "wait" THEN "reserve" ELSE op[g].pc)
      /\ op[g] = NoOp => op'[g] = NoOp
      /\ \A h \in Gateways : h # g => op'[h] = op[h]
  BY <1>0, TaskOverIs DEF Finish
<1>d. /\ run[g] \in {"succeeded", "failed"}
      /\ run' = [run EXCEPT ![g] = "none"]
      /\ owned' = [owned EXCEPT ![g] = None]
      /\ UNCHANGED <<node, suspended, reg, pass, lease, reset, live, out>>
  BY DEF Finish, Forget
<1>e. \/ claim' = claim /\ age' = age /\ fresh' = fresh \ {Reader(g, "owned")} /\ tries' = tries
      \/ /\ claim = owned[g].claim /\ claim # None
         /\ claim' \in Claims /\ claim' # None /\ age' = 0 /\ fresh' = {}
         /\ claim'.id = claim.id
         /\ claim'.state = "active" => claim'.attempts = 0
         /\ tries' \in Nat /\ tries' <= claim'.attempts
  <2>1. CASE Unread(Reader(g, "owned"))
    BY <2>1 DEF Unread, Finish
  <2>2. CASE Same(owned[g].claim) /\ PutUnseen(Outcome(g))
    <3>1. /\ claim = owned[g].claim /\ claim \in Claims /\ claim # None
          /\ claim.state = "provisioning"
          /\ claim' = Outcome(g) /\ age' = 0 /\ fresh' = {}
      BY <1>0, <1>d, <2>2, HoldingIs, PlacementAssumption DEF Same, PutUnseen
    <3>2. CASE run[g] = "succeeded"
      <4>1. claim' = [claim EXCEPT !.state = "active", !.attempts = 0]
        BY <3>1, <3>2 DEF Outcome
      <4>2. 0 \in 0..MaxAttempts
        BY PlacementAssumption
      <4>3. /\ claim' \in Claims /\ claim'.id = claim.id /\ claim'.attempts = 0
            /\ claim'.state = "active"
        BY <3>1, <4>1, <4>2 DEF Claims, States
      <4>4. tries' = 0
        BY <3>1, <4>3 DEF Finish
      <4>5. QED
        BY <3>1, <4>3, <4>4, PlacementAssumption
    <3>3. CASE run[g] # "succeeded"
      <4>1. claim' \in {[claim EXCEPT !.state = "exhausted"], [claim EXCEPT !.state = "failed"]}
        BY <3>1, <3>3 DEF Outcome
      <4>2. /\ claim' \in Claims /\ claim'.id = claim.id
            /\ claim'.attempts = claim.attempts /\ claim'.state # "active"
        BY <3>1, <4>1 DEF Claims, States
      <4>3. tries' = tries
        BY <3>1, <4>2 DEF Finish
      <4>4. tries \in Nat /\ tries <= claim.attempts
        BY <3>1, StoredIs DEF Inv, Counted
      <4>5. QED
        BY <3>1, <4>2, <4>3, <4>4, PlacementAssumption
    <3>4. QED
      BY <3>2, <3>3
  <2>3. QED
    BY <2>1, <2>2 DEF Finish
<1>1. Typed'
  BY <1>0, PlacementAssumption, <1>c, <1>d, <1>e DEF Inv, Typed, TypeOK, Claims
<1>2. Quiet'
  BY <1>0, <1>c, <1>d DEF Inv, Quiet
<1>3. ASSUME NEW h \in Gateways PROVE LeasedTo(h)'
  BY <1>0, <1>c, <1>d DEF Inv, Typed, TypeOK, LeasedTo, Active
<1>4. ASSUME NEW h \in Gateways PROVE Recalls(h)'
  BY <1>0, <1>d DEF Inv, Recalls
<1>5. ASSUME NEW h \in Gateways PROVE Knows(h)'
  BY <1>0, <1>d, <1>e DEF Inv, Knows, Current
<1>6. ASSUME NEW h \in Gateways PROVE Keeps(h)'
  BY <1>0, <1>a, <1>d, <1>e DEF Inv, Typed, TypeOK, Keeps, Recalls
<1>7. ASSUME NEW h \in Gateways PROVE Clears(h)'
  <2>1. SUFFICES ASSUME h = g PROVE Clears(g)'
    BY <1>d DEF Clears
  <2>2. QED
    BY <1>0, <1>d DEF Inv, Clears, Active
<1>8. Counted'
  BY <1>0, <1>e DEF Inv, Counted
<1>9. Contest'
  BY <1>0, <1>a, <1>c, <1>d, <1>e
     DEF Inv, Typed, TypeOK, Contest, Recalls, Solo, Beating
<1>10. Stopped'
  BY <1>0, <1>c, <1>d DEF Inv, Stopped, Active
<1>11. QED
  BY <1>1, <1>2, <1>3, <1>4, <1>5, <1>6, <1>7, <1>8, <1>9, <1>10 DEF Inv

\* Restart keeps the invariant: a gateway that ends takes its own claim along with it,
\* and nobody else's.
LEMMA RestartKeeps ==
    ASSUME Inv, NEW g \in live, Restart(g)
    PROVE  Inv'
<1>0. g \in Gateways
  BY DEF Inv, Typed
<1>a. /\ pass' \in [Gateways -> Passes]
      /\ pass'[g] = IdlePass /\ pass'[g].pc = "idle"
      /\ \A h \in Gateways : h # g => pass'[h] = pass[h]
  BY <1>0, EndPassIs DEF Restart
<1>b. /\ owned' = [owned EXCEPT ![g] = None]
      /\ run' = [run EXCEPT ![g] = "none"]
      /\ lease' = [lease EXCEPT ![g] = "none"]
      /\ op' = [op EXCEPT ![g] = NoOp]
      /\ reset' = [reset EXCEPT ![g] = None]
      /\ fresh' \subseteq fresh
      /\ \A h \in Gateways \ {g} : \A a \in {"pass", "owned", "reset"} :
             Reader(h, a) \in fresh' <=> Reader(h, a) \in fresh
      /\ UNCHANGED <<age, node, suspended, live, tries, out>>
  BY <1>0, ReaderIs DEF Restart, Forget, Free
<1>c. /\ op' \in [Gateways -> Ops] /\ op'[g].pc = "none" /\ op'[g] = NoOp
      /\ \A h \in Gateways : h # g => op'[h] = op[h]
  BY <1>0, <1>b DEF Inv, Typed, Ops, NoOp
<1>d. /\ claim' \in Claims \cup {None}
      /\ claim = None <=> claim' = None
      /\ claim # None /\ claim.holder # g => claim' = claim
      /\ claim # None => /\ claim'.id = claim.id /\ claim'.state = claim.state
                         /\ claim'.attempts = claim.attempts
      /\ claim # None /\ claim.holder = g => claim' = [claim EXCEPT !.holder = Gone]
  <2>1. claim \in Claims => [claim EXCEPT !.holder = Gone] \in Claims
    BY DEF Claims
  <2>2. QED
    BY <2>1, PlacementAssumption DEF Restart, Inv, Typed, TypeOK, Claims
<1>e. reg' \in [Gateways -> Nodes \cup {None}]
  BY <1>0 DEF Restart, Inv, Typed, TypeOK
<1>1. Typed'
  BY <1>0, <1>a, <1>b, <1>c, <1>d, <1>e DEF Inv, Typed, TypeOK, Passes
<1>2. Quiet'
  BY <1>0, <1>a, <1>b DEF Inv, Quiet
<1>3. ASSUME NEW h \in Gateways PROVE LeasedTo(h)'
  BY <1>0, <1>a, <1>b, <1>c DEF Inv, Typed, TypeOK, LeasedTo, Active
<1>4. ASSUME NEW h \in Gateways PROVE Recalls(h)'
  BY <1>0, <1>a, <1>b DEF Inv, Recalls
<1>5. ASSUME NEW h \in Gateways PROVE Knows(h)'
  <2>1. CASE h = g
    BY <1>0, <1>a, <1>b, <2>1 DEF Knows, Inv, Typed, TypeOK
  <2>2. CASE h # g
    <3>1. ASSUME pass[h].pc \notin {"idle", "fire"}, Reader(h, "pass") \in fresh
          PROVE  claim' \in {pass[h].stored, [pass[h].stored EXCEPT !.holder = Gone]}
      <4>1. /\ pass[h].stored \in Claims /\ claim # None
            /\ claim \in {pass[h].stored, [pass[h].stored EXCEPT !.holder = Gone]}
        BY <3>1, ReadIs DEF Inv, Knows, Current
      <4>2. CASE claim.holder = g
        <5>1. claim # [pass[h].stored EXCEPT !.holder = Gone]
          BY <1>0, <4>1, <4>2, PlacementAssumption DEF Claims
        <5>2. QED
          BY <1>d, <4>1, <4>2, <5>1
      <4>3. CASE claim.holder # g
        BY <1>d, <4>1, <4>3
      <4>4. QED
        BY <4>2, <4>3
    <3>2. reset'[h] = reset[h]
      BY <1>b, <2>2 DEF Inv, Typed, TypeOK
    <3>3. QED
      BY <1>a, <1>b, <1>d DEF Knows, Current, Inv
  <2>3. QED
    BY <2>1, <2>2
<1>6. ASSUME NEW h \in Gateways PROVE Keeps(h)'
  BY <1>0, <1>a, <1>b, <1>d DEF Inv, Typed, TypeOK, Keeps, Recalls
<1>7. ASSUME NEW h \in Gateways PROVE Clears(h)'
  <2>1. SUFFICES ASSUME h = g PROVE Clears(g)'
    BY <1>b DEF Clears
  <2>2. QED
    BY <1>0, <1>a, <1>b DEF Inv, Typed, TypeOK, Clears, Active
<1>8. Counted'
  BY <1>0, <1>b, <1>d DEF Inv, Counted
<1>9. Contest'
  BY <1>0, <1>a, <1>b, <1>d
     DEF Inv, Typed, TypeOK, Contest, Recalls, Solo, Beating, Current
<1>10. Stopped'
  BY <1>0, <1>a, <1>b, <1>c DEF Inv, Stopped, Active
<1>11. QED
  BY <1>1, <1>2, <1>3, <1>4, <1>5, <1>6, <1>7, <1>8, <1>9, <1>10 DEF Inv

----------------------------------------------------------------------------
(* The heartbeat                                                           *)

\* A holding whose heartbeat is kept: it is not overdue, and what is missing at
\* half the stale period is only the answer to a write.  A holding that is lost
\* has ended before the stale period.
InTime(o, current) ==
    /\ o.unref < Stale
    /\ ~o.lost /\ ~o.due => o.unref < Half \/ (o.unref = Half /\ current)
    /\ ~o.lost /\ o.due => o.unref <= Half \/ (o.unref = Half + 1 /\ current)

\* Half of a stale period of four intervals or more leaves room for an interval
\* on either side.
LEMMA HalfIs ==
    Half \in Nat /\ Half >= 2 /\ Half + 1 < Stale /\ Stale \in Nat
  BY PlacementAssumption DEF Half

\* An interval after a heartbeat was kept, the next one is due in time.
LEMMA TicksInTime ==
    ASSUME NEW o \in Holdings, NEW current \in BOOLEAN, InTime(o, current),
           ~o.due, o.lost => o.unref < Stale - 1,
           NEW o1, o1 = [o EXCEPT !.due = ~o.lost,
                                  !.unref = IF @ < Stale THEN @ + 1 ELSE @]
    PROVE  /\ o1 \in Holdings /\ o1.claim = o.claim
           /\ InTime(o1, current) /\ o1.unref = o.unref + 1
<1>0. Half \in Nat /\ Half >= 2 /\ Half + 1 < Stale /\ Stale \in Nat
  BY HalfIs
<1>1. o.unref \in 0..Stale /\ o.claim \in Claims /\ o.lost \in BOOLEAN /\ o.due \in BOOLEAN
  BY DEF Holdings
<1>2. o.unref < Stale
  BY DEF InTime
<1>3. PICK lost \in BOOLEAN : lost = o.lost
  BY <1>1
<1>4. PICK u \in 0..Stale : u = o.unref + 1
  BY <1>0, <1>1, <1>2
<1>5. o1 = [o EXCEPT !.due = ~lost, !.unref = u]
  BY <1>2, <1>3, <1>4
<1>6. /\ o1.claim = o.claim /\ o1.unref = o.unref + 1
      /\ o1.lost = lost /\ o1.due = ~lost
  BY <1>3, <1>4, <1>5 DEF Holdings
<1>7. o1 \in Holdings
  BY <1>5 DEF Holdings
<1>8. CASE lost
  <2>1. o.unref < Stale - 1
    BY <1>3, <1>8
  <2>2. o1.unref < Stale
    BY <2>1, <1>0, <1>1, <1>6
  <2>3. QED
    BY <1>6, <1>7, <1>8, <2>2 DEF InTime
<1>9. CASE ~lost
  <2>1. o.unref < Half \/ (o.unref = Half /\ current)
    BY <1>3, <1>9 DEF InTime
  <2>2. /\ o1.unref < Stale
        /\ o1.unref <= Half \/ (o1.unref = Half + 1 /\ current)
    BY <2>1, <1>0, <1>1, <1>6
  <2>3. QED
    BY <1>6, <1>7, <1>9, <2>2 DEF InTime
<1>10. QED
  BY <1>8, <1>9

\* InTime is what Beating says of the holding.
LEMMA BeatingIs ==
    ASSUME NEW g \in Gateways
    PROVE  Beating(g) <=>
               (owned[g] # None => /\ claim = owned[g].claim
                                   /\ age <= owned[g].unref
                                   /\ InTime(owned[g], Current(g, "owned")))
  BY DEF Beating, InTime

\* What an interval does to a holding.
LEMMA TickIs ==
    ASSUME Inv, Tick, NEW g \in Gateways
    PROVE  /\ owned[g] = None <=> owned'[g] = None
           /\ owned[g] # None =>
                  /\ Working(g)
                  /\ owned'[g] \in Holdings /\ owned'[g].claim = owned[g].claim
           /\ pass[g].pc # "fire"
<1>1. pass[g].pc # "fire"
  BY DEF Tick
<1>2. CASE owned[g] = None
  <2>1. ~Working(g)
    BY <1>2 DEF Inv, LeasedTo, Working
  <2>2. QED
    BY <1>1, <1>2, <2>1 DEF Tick
<1>3. CASE owned[g] # None
  <2>1. Working(g) /\ owned[g] \in Holdings
    <3>1. run[g] \in {"none", "queued", "started", "recorded", "succeeded", "failed"}
      BY DEF Inv, Typed, TypeOK
    <3>2. run[g] \notin {"none", "queued", "succeeded", "failed"}
      BY <1>3 DEF Inv, LeasedTo, Tick
    <3>3. QED
      BY <1>3, <3>1, <3>2 DEF Inv, Typed, TypeOK, Working
  <2>2. owned'[g] = [owned[g] EXCEPT !.due = ~owned[g].lost,
                                    !.unref = IF @ < Stale THEN @ + 1 ELSE @]
    BY <2>1 DEF Tick
  <2>3. PICK b \in BOOLEAN : b = ~owned[g].lost
    OBVIOUS
  <2>4. PICK u \in 0..Stale : u = (IF owned[g].unref < Stale THEN owned[g].unref + 1
                                   ELSE owned[g].unref)
    <3>1. owned[g].unref \in 0..Stale /\ Stale \in Nat
      BY <2>1, PlacementAssumption DEF Holdings
    <3>2. QED
      BY <3>1
  <2>5. owned'[g] = [owned[g] EXCEPT !.due = b, !.unref = u]
    BY <2>1, <2>2, <2>3, <2>4 DEF Holdings
  <2>6. owned'[g] \in Holdings /\ owned'[g].claim = owned[g].claim
    BY <2>1, <2>5 DEF Holdings
  <2>7. QED
    BY <1>1, <1>3, <2>1, <2>6, PlacementAssumption
<1>4. QED
  BY <1>2, <1>3

\* An interval passes: every heartbeat under way is still younger than the stale period.
LEMMA TickKeeps ==
    ASSUME Inv, Tick
    PROVE  Inv'
<1>a. \A g \in Gateways :
          /\ owned[g] = None <=> owned'[g] = None
          /\ owned[g] # None =>
                 /\ Working(g)
                 /\ owned'[g] \in Holdings /\ owned'[g].claim = owned[g].claim
          /\ pass[g].pc # "fire"
  BY TickIs
<1>b. /\ age' \in 0..Stale
      /\ age' = age \/ age' = age + 1
      /\ age = Stale => age' = Stale
  <2>1. age \in 0..Stale /\ Stale \in Nat
    BY StoredIs
  <2>2. age' = (IF Held /\ age < Stale THEN age + 1 ELSE age)
    BY DEF Tick
  <2>3. QED
    BY <2>1, <2>2
<1>c. UNCHANGED <<claim, node, suspended, fresh, reg, pass, run, lease, op, reset, live,
                  tries, out>>
  BY DEF Tick
<1>1. Typed'
  <2>1. owned' \in [Gateways -> Holdings \cup {None}]
    <3>1. owned' = [g \in Gateways |-> owned'[g]]
      BY DEF Tick
    <3>2. \A g \in Gateways : owned'[g] \in Holdings \cup {None}
      BY <1>a
    <3>3. QED
      BY <3>1, <3>2
  <2>2. QED
    BY <2>1, <1>b, <1>c DEF Inv, Typed, TypeOK
<1>2. Quiet'
  BY <1>a, <1>b, <1>c DEF Inv, Quiet
<1>3. ASSUME NEW h \in Gateways PROVE LeasedTo(h)'
  BY <1>a, <1>b, <1>c DEF Inv, LeasedTo, Active
<1>4. ASSUME NEW h \in Gateways PROVE Recalls(h)'
  BY PlacementAssumption, <1>1, <1>a, <1>b, <1>c DEF Inv, Recalls
<1>5. ASSUME NEW h \in Gateways PROVE Knows(h)'
  BY <1>b, <1>c DEF Inv, Knows, Current
<1>6. ASSUME NEW h \in Gateways PROVE Keeps(h)'
  BY PlacementAssumption, <1>a, <1>b, <1>c DEF Inv, Keeps
<1>7. ASSUME NEW h \in Gateways PROVE Clears(h)'
  BY <1>a, <1>b, <1>c DEF Inv, Clears, Active
<1>8. Counted'
  BY <1>a, <1>b, <1>c DEF Inv, Counted
<1>9. Contest'
  <2>1. ASSUME ~Solo, NEW g \in Gateways PROVE Beating(g)'
    <3>1. SUFFICES ASSUME owned'[g] # None
                   PROVE  /\ claim = owned'[g].claim
                          /\ age' <= owned'[g].unref
                          /\ InTime(owned'[g], Current(g, "owned"))
      BY <1>c DEF Beating, InTime, Current
    <3>2. /\ owned[g] # None /\ owned[g] \in Holdings /\ Working(g)
          /\ owned'[g].claim = owned[g].claim
      BY <1>a, <3>1 DEF Inv, Typed, TypeOK
    <3>3. /\ claim = owned[g].claim /\ age <= owned[g].unref
          /\ InTime(owned[g], Current(g, "owned"))
      BY <2>1, <3>2, BeatingIs DEF Inv, Contest
    <3>4. /\ ~owned[g].due
          /\ owned[g].lost => owned[g].unref < Stale - 1
      BY <3>2 DEF Tick
    <3>5. owned'[g] = [owned[g] EXCEPT !.due = ~owned[g].lost,
                                      !.unref = IF @ < Stale THEN @ + 1 ELSE @]
      BY <3>2 DEF Tick
    <3>6. Current(g, "owned") \in BOOLEAN
      BY DEF Current
    <3>7. InTime(owned'[g], Current(g, "owned")) /\ owned'[g].unref = owned[g].unref + 1
      BY <3>2, <3>3, <3>4, <3>5, <3>6, TicksInTime
    <3>8. age' <= owned'[g].unref
      <4>1. age \in Nat /\ owned[g].unref \in Nat
        BY <3>2 DEF Inv, Typed, TypeOK, Holdings
      <4>2. QED
        BY <1>b, <3>3, <3>7, <4>1
    <3>9. QED
      BY <3>2, <3>3, <3>7, <3>8
  <2>2. QED
    BY <1>c, <2>1 DEF Inv, Contest, Solo
<1>10. Stopped'
  BY <1>a, <1>b, <1>c DEF Inv, Stopped, Active
<1>11. QED
  BY <1>1, <1>2, <1>3, <1>4, <1>5, <1>6, <1>7, <1>8, <1>9, <1>10 DEF Inv

\* What a heartbeat does to a holding and to the claim: it stays in time and its
\* claim is not touched but for the heartbeat_at.
LEMMA HeartbeatIs ==
    ASSUME Inv, NEW g \in live, HeartbeatOnce(g)
    PROVE  /\ g \in Gateways /\ Working(g)
           /\ owned[g] # None /\ owned[g] \in Holdings
           /\ owned'[g] # None /\ owned'[g] \in Holdings
           /\ owned'[g].claim = owned[g].claim
           /\ owned' = [owned EXCEPT ![g] = owned'[g]]
           /\ UNCHANGED <<claim, node, suspended, reg, pass, run, lease, op, reset, live,
                          tries, out>>
           /\ age' = 0 \/ age' = age
           /\ \/ age' = age /\ fresh' = fresh
              \/ age' = age /\ fresh' = fresh \cup {Reader(g, "owned")} /\ claim = owned[g].claim
              \/ fresh # {} /\ fresh' \subseteq {Reader(g, "owned")}
           /\ age <= owned[g].unref => age' <= owned'[g].unref
           /\ InTime(owned[g], Current(g, "owned")) =>
                  InTime(owned'[g], Reader(g, "owned") \in fresh')
<1> DEFINE o == owned[g]
           current == Reader(g, "owned") \in fresh
           beat == [o EXCEPT !.due = FALSE]
           refreshed == [beat EXCEPT !.unref = 0]
           lost == [beat EXCEPT !.lost = TRUE]
           unanswered == IF o.unref >= Half THEN lost ELSE beat
<1>0. g \in Gateways /\ Working(g) /\ run[g] # "none"
  BY DEF Inv, Typed, HeartbeatOnce, Working
<1>1. o # None /\ o \in Holdings
  BY <1>0, HoldingIs
<1>2. /\ UNCHANGED <<claim, node, suspended, reg, pass, run, lease, op, reset, live,
                     tries, out>>
      /\ o.due /\ ~o.lost
      /\ \/ /\ current /\ age' = 0 /\ owned' = [owned EXCEPT ![g] = refreshed]
            /\ fresh' = {Reader(g, "owned")}
         \/ /\ ~current /\ claim = o.claim /\ owned' = [owned EXCEPT ![g] = beat]
            /\ fresh' = fresh \cup {Reader(g, "owned")} /\ age' = age
         \/ /\ ~current /\ owned' = [owned EXCEPT ![g] = lost]
            /\ age' = age /\ fresh' = fresh
         \/ /\ current /\ age' = 0 /\ owned' = [owned EXCEPT ![g] = unanswered]
            /\ fresh' = {}
         \/ /\ owned' = [owned EXCEPT ![g] = unanswered]
            /\ age' = age /\ fresh' = fresh
  BY DEF HeartbeatOnce, Same, Half
<1>3. /\ o.unref \in 0..Stale /\ o.unref \in Nat /\ age \in Nat /\ Stale \in Nat
      /\ Half \in Nat /\ Half >= 2 /\ Half + 1 < Stale
  BY <1>1, HalfIs, StoredIs DEF Holdings
<1>4. /\ beat \in Holdings /\ beat.claim = o.claim /\ beat.unref = o.unref
      /\ ~beat.due /\ ~beat.lost
  BY <1>1, <1>2 DEF Holdings
<1> HIDE DEF beat
<1>5. /\ refreshed \in Holdings /\ refreshed.claim = o.claim /\ refreshed.unref = 0
      /\ ~refreshed.due /\ ~refreshed.lost
  <2>1. 0 \in 0..Stale
    BY <1>3
  <2>2. QED
    BY <1>4, <2>1 DEF Holdings
<1>6. /\ lost \in Holdings /\ lost.claim = o.claim /\ lost.unref = o.unref
      /\ lost.lost
  BY <1>4 DEF Holdings
<1>7. owned \in [Gateways -> Holdings \cup {None}]
  BY DEF Inv, Typed, TypeOK
<1> HIDE DEF refreshed, lost
<1>8. /\ owned'[g] \in {beat, refreshed, lost} /\ owned' = [owned EXCEPT ![g] = owned'[g]]
      /\ owned'[g] = beat \/ owned'[g] = lost => owned'[g].unref = o.unref
  BY <1>0, <1>2, <1>4, <1>6, <1>7
<1>9. /\ owned'[g] \in Holdings /\ owned'[g] # None /\ owned'[g].claim = o.claim
  BY <1>4, <1>5, <1>6, <1>8, PlacementAssumption
<1>10. age <= o.unref => age' <= owned'[g].unref
  BY <1>0, <1>2, <1>3, <1>4, <1>5, <1>6, <1>7
<1>11. /\ age' = 0 \/ age' = age
       /\ \/ age' = age /\ fresh' = fresh
          \/ age' = age /\ fresh' = fresh \cup {Reader(g, "owned")} /\ claim = o.claim
          \/ fresh # {} /\ fresh' \subseteq {Reader(g, "owned")}
  BY <1>2
<1>12. ASSUME InTime(o, Current(g, "owned"))
       PROVE  InTime(owned'[g], Reader(g, "owned") \in fresh')
  <2>1. /\ o.unref < Stale
        /\ o.unref <= Half \/ (o.unref = Half + 1 /\ current)
    BY <1>12, <1>2 DEF InTime, Current
  <2>2. CASE owned'[g] = lost
    BY <1>6, <2>1, <2>2 DEF InTime
  <2>3. CASE owned'[g] = refreshed
    BY <1>3, <1>5, <2>3 DEF InTime
  <2>4. CASE owned'[g] = beat /\ beat.unref < Half
    BY <1>4, <2>1, <2>4 DEF InTime
  <2>5. CASE owned'[g] = beat /\ ~(beat.unref < Half)
    <3>1. CASE owned'[g] = lost \/ owned'[g] = refreshed
      BY <3>1, <2>2, <2>3
    <3>2. CASE owned'[g] # lost /\ owned'[g] # refreshed
      <4>1. ~current /\ fresh' = fresh \cup {Reader(g, "owned")}
        BY <1>0, <1>2, <1>3, <1>4, <1>7, <2>5, <3>2
      <4>2. beat.unref = Half
        BY <1>3, <1>4, <2>1, <2>5, <4>1
      <4>3. QED
        BY <1>4, <2>1, <2>5, <4>1, <4>2 DEF InTime
    <3>3. QED
      BY <3>1, <3>2
  <2>6. QED
    BY <1>8, <2>2, <2>3, <2>4, <2>5
<1>13. QED
  BY <1>0, <1>1, <1>2, <1>9, <1>10, <1>12

\* HeartbeatOnce keeps the invariant.
LEMMA HeartbeatOnceKeeps ==
    ASSUME Inv, NEW g \in live, HeartbeatOnce(g)
    PROVE  Inv'
<1>0. g \in Gateways
  BY DEF Inv, Typed
<1>a. /\ Working(g) /\ owned[g] # None
      /\ owned'[g] # None /\ owned'[g] \in Holdings
      /\ owned'[g].claim = owned[g].claim
      /\ owned' = [owned EXCEPT ![g] = owned'[g]]
      /\ UNCHANGED <<claim, node, suspended, reg, pass, run, lease, op, reset, live,
                     tries, out>>
      /\ age' = 0 \/ age' = age
      /\ \/ age' = age /\ fresh' = fresh
         \/ age' = age /\ fresh' = fresh \cup {Reader(g, "owned")} /\ claim = owned[g].claim
         \/ fresh # {} /\ fresh' \subseteq {Reader(g, "owned")}
  BY HeartbeatIs
<1>b. \A h \in Gateways : h # g => owned'[h] = owned[h]
  BY <1>a DEF Inv, Typed, TypeOK
<1>c. owned[g].claim # None
  BY <1>0, <1>a, HoldingIs, PlacementAssumption DEF Working
<1>1. Typed'
  <2>1. owned' \in [Gateways -> Holdings \cup {None}]
    BY <1>0, <1>a DEF Inv, Typed, TypeOK
  <2>2. fresh' \subseteq Readers
    BY <1>0, <1>a, ReaderIs DEF Inv, Typed, TypeOK
  <2>3. age' \in 0..Stale
    BY <1>a, StoredIs
  <2>4. QED
    BY <1>a, <2>1, <2>2, <2>3 DEF Inv, Typed, TypeOK
<1>2. Quiet'
  BY <1>0, <1>a, <1>b, <1>c DEF Inv, Quiet
<1>3. ASSUME NEW h \in Gateways PROVE LeasedTo(h)'
  BY <1>0, <1>a, <1>b, <1>c DEF Inv, LeasedTo, Active
<1>4. ASSUME NEW h \in Gateways PROVE Recalls(h)'
  BY <1>0, <1>a, <1>b DEF Inv, Recalls
<1>5. ASSUME NEW h \in Gateways PROVE Knows(h)'
  BY <1>0, ReaderIs, <1>a DEF Inv, Knows, Current
<1>6. ASSUME NEW h \in Gateways PROVE Keeps(h)'
  BY <1>0, PlacementAssumption, <1>a, <1>b, <1>c DEF Inv, Keeps
<1>7. ASSUME NEW h \in Gateways PROVE Clears(h)'
  <2>1. SUFFICES ASSUME h = g PROVE Clears(g)'
    BY <1>a DEF Clears
  <2>2. QED
    BY <1>0, <1>a, <1>b, <1>c DEF Inv, Clears, Active
<1>8. Counted'
  BY <1>0, <1>a, <1>b, <1>c DEF Inv, Counted
<1>9. Contest'
  <2>1. ASSUME ~Solo, NEW h \in Gateways PROVE Beating(h)'
    <3>1. CASE h = g
      <4>1. /\ claim = owned[g].claim /\ age <= owned[g].unref
            /\ InTime(owned[g], Current(g, "owned"))
        BY <1>0, <1>a, <2>1, BeatingIs DEF Inv, Contest
      <4>2. age' <= owned'[g].unref /\ InTime(owned'[g], Reader(g, "owned") \in fresh')
        BY <4>1, HeartbeatIs
      <4>3. QED
        BY <1>a, <3>1, <4>1, <4>2 DEF Beating, InTime, Current
    <3>2. CASE h # g
      <4>1. owned[h] = None
        BY <1>0, <1>a, <2>1, <3>2 DEF Inv, Contest, Beating, Recalls
      <4>2. QED
        BY <1>b, <3>2, <4>1 DEF Beating
    <3>3. QED
      BY <3>1, <3>2
  <2>2. QED
    BY <1>a, <2>1 DEF Inv, Contest, Solo
<1>10. Stopped'
  BY <1>0, <1>a, <1>b, <1>c DEF Inv, Stopped, Active
<1>11. QED
  BY <1>1, <1>2, <1>3, <1>4, <1>5, <1>6, <1>7, <1>8, <1>9, <1>10 DEF Inv

----------------------------------------------------------------------------
(* The launch                                                              *)

\* The claim that a launch takes: it is new or a failed one, it counts one more
\* attempt than were made, nobody depends on it, and what is on the host is the
\* failed node of this claim.
LEMMA ClaimedIs ==
    ASSUME Inv, NEW g \in live, pass[g].pc = "claim", NEW id \in ClaimIds,
           IF pass[g].stored = None THEN claim = None /\ Unused(id)
           ELSE Reader(g, "pass") \in fresh /\ id = pass[g].stored.id,
           MayReplace(Seen(g), pass[g].stored),
           NEW c, c = Claimed(g, id)
    PROVE  /\ c \in Claims /\ c # None
           /\ c.id = id /\ c.state = "provisioning" /\ c.holder = g
           /\ tries < c.attempts /\ tries <= c.attempts
           /\ \A h \in Gateways : pass[h].pc # "fire"
           /\ \A h \in Gateways : owned[h] # None => owned[h].claim.id # id
           /\ ~Solo => \A h \in Gateways : owned[h] = None
           /\ node # None => node.id = id
<1>0. g \in Gateways
  BY DEF Inv, Typed
<1>1. CASE pass[g].stored = None
  <2>1. claim = None /\ Unused(id) /\ tries = 0
    BY <1>1 DEF Inv, Counted
  <2>2. c = [id |-> id, state |-> "provisioning", holder |-> g, attempts |-> 1]
    BY <1>1 DEF Claimed
  <2>3. 1 \in 0..MaxAttempts
    BY PlacementAssumption
  <2>4. c \in Claims
    BY <1>0, <2>2, <2>3 DEF Claims, States
  <2>5. \A h \in Gateways : pass[h].pc # "fire"
    BY <2>1 DEF Inv, Keeps, Recalls
  <2>6. \A h \in Gateways : owned[h] # None => owned[h].claim.id # id
    BY <2>1 DEF Unused
  <2>7. ASSUME ~Solo, NEW h \in Gateways PROVE owned[h] = None
    <3>1. owned[h] # None => owned[h].claim \in Claims
      BY DEF Inv, Typed, TypeOK, Holdings
    <3>2. QED
      BY <2>1, <2>7, <3>1, PlacementAssumption DEF Inv, Contest, Beating
  <2>8. node = None
    <3>1. CASE live = {g}
      BY <1>0, <1>1, <3>1 DEF Inv, Clears
    <3>2. CASE live # {g}
      BY <1>1, <3>2 DEF MayReplace, OwnFailed, Seen
    <3>3. QED
      BY <3>1, <3>2
  <2>9. c.id = id /\ c.state = "provisioning" /\ c.holder = g /\ tries < c.attempts /\ tries <= c.attempts
    BY <2>1, <2>2
  <2>10. QED
    BY <2>4, <2>5, <2>6, <2>7, <2>8, <2>9, PlacementAssumption
<1>2. CASE pass[g].stored # None
  <2>1. Reader(g, "pass") \in fresh /\ id = pass[g].stored.id
    BY <1>2
  <2>2. /\ pass[g].stored \in Claims /\ claim # None
        /\ claim.id = id /\ claim.state = pass[g].stored.state
        /\ claim.attempts = pass[g].stored.attempts
    BY <1>0, <2>1, ReadIs
  <2>3. pass[g].stored.state = "failed" /\ pass[g].stored.attempts < MaxAttempts
    BY <1>0, <1>2 DEF Inv, Recalls
  <2>4. Released
    BY <2>2, <2>3, ReleasedWhenOver
  <2>5. tries \in Nat /\ tries <= claim.attempts /\ claim.attempts \in 0..MaxAttempts
    BY <2>2, StoredIs DEF Inv, Counted
  <2>6. PICK n \in 0..MaxAttempts : n = pass[g].stored.attempts + 1
    BY <2>2, <2>3, <2>5, PlacementAssumption
  <2>7. c = [id |-> id, state |-> "provisioning", holder |-> g, attempts |-> n]
    BY <1>2, <2>6 DEF Claimed
  <2>8. c \in Claims
    BY <1>0, <2>7 DEF Claims, States
  <2>9. /\ c.id = id /\ c.state = "provisioning" /\ c.holder = g
        /\ tries < c.attempts /\ tries <= c.attempts
    BY <2>2, <2>5, <2>6, <2>7
  <2>10. node # None => node.id = id
    <3>1. CASE live = {g}
      BY <1>0, <2>1, <3>1 DEF Inv, Clears
    <3>2. CASE live # {g}
      BY <1>2, <2>1, <3>2 DEF MayReplace, OwnFailed, Seen
    <3>3. QED
      BY <3>1, <3>2
  <2>11. QED
    BY <2>2, <2>4, <2>8, <2>9, <2>10, PlacementAssumption DEF Released
<1>3. QED
  BY <1>1, <1>2

\* LaunchClaim: the host is taken, or the answer is lost, or the race for it is.
LEMMA LaunchClaimKeeps ==
    ASSUME Inv, NEW g \in live, LaunchClaim(g)
    PROVE  Inv'
<1>0. /\ g \in Gateways /\ pass[g].pc = "claim"
      /\ UNCHANGED <<node, suspended, reg, owned, run, op, reset, live, tries, out>>
  BY DEF Inv, Typed, LaunchClaim
<1>1. lease[g] = "launch" /\ ~Active(g) /\ op[g].pc \notin {"setup", "recorded", "teardown"}
  BY <1>0 DEF Inv, LeasedTo
<1>2. ASSUME NEW id \in ClaimIds,
             IF pass[g].stored = None THEN claim = None /\ Unused(id)
             ELSE Reader(g, "pass") \in fresh /\ id = pass[g].stored.id,
             MayReplace(Seen(g), pass[g].stored),
             \/ /\ Put(Reader(g, "owned"), Claimed(g, id))
                /\ pass' = [pass EXCEPT ![g] = [IdlePass EXCEPT
                               !.pc = "fire",
                               !.taken = Claimed(g, id),
                               !.replace = Seen(g) # None]]
                /\ UNCHANGED lease
             \/ PutUnseen(Claimed(g, id)) /\ Abandon(g)
      PROVE  Inv'
  <2>1. PICK c : c = Claimed(g, id)
    OBVIOUS
  <2>2. /\ c \in Claims /\ c # None
        /\ c.id = id /\ c.state = "provisioning" /\ c.holder = g
        /\ tries < c.attempts /\ tries <= c.attempts
        /\ \A h \in Gateways : pass[h].pc # "fire"
        /\ \A h \in Gateways : owned[h] # None => owned[h].claim.id # id
        /\ ~Solo => \A h \in Gateways : owned[h] = None
        /\ node # None => node.id = id
    BY <1>0, <1>2, <2>1, ClaimedIs
  <2>3. /\ claim' = c /\ age' = 0 /\ fresh' \subseteq {Reader(g, "owned")}
        /\ pass' \in [Gateways -> Passes]
        /\ \A h \in Gateways : h # g => pass'[h] = pass[h]
        /\ \/ pass'[g].pc = "fire" /\ pass'[g].taken = c /\ lease' = lease
           \/ pass'[g].pc = "idle" /\ lease' = [lease EXCEPT ![g] = "none"]
    <3>1. CASE /\ Put(Reader(g, "owned"), c)
               /\ pass' = [pass EXCEPT ![g] = [IdlePass EXCEPT !.pc = "fire", !.taken = c,
                                                              !.replace = Seen(g) # None]]
               /\ UNCHANGED lease
      <4>1. PICK b \in BOOLEAN : b = (Seen(g) # None)
        OBVIOUS
      <4>2. PICK r : r = [IdlePass EXCEPT !.pc = "fire", !.taken = c, !.replace = b]
        OBVIOUS
      <4>3. r \in Passes /\ r.pc = "fire" /\ r.taken = c
        BY <2>2, <4>2 DEF Passes, IdlePass
      <4>4. pass' = [pass EXCEPT ![g] = r] /\ pass \in [Gateways -> Passes]
        BY <3>1, <4>1, <4>2 DEF Inv, Typed, TypeOK, Passes
      <4>5. QED
        BY <1>0, <3>1, <4>3, <4>4 DEF Put
    <3>2. CASE PutUnseen(c) /\ Abandon(g)
      BY <1>0, <3>2, EndPassIs DEF PutUnseen, Abandon, Free
    <3>3. QED
      BY <1>2, <2>1, <3>1, <3>2
  <2>4. Typed'
    <3>1. fresh' \subseteq Readers
      BY <1>0, <2>2, <2>3, ReaderIs DEF Inv, Typed, TypeOK
    <3>2. lease' \in [Gateways -> {"none", "launch", "task", "op"}]
      BY <1>0, <2>2, <2>3 DEF Inv, Typed, TypeOK
    <3>3. 0 \in 0..Stale
      BY PlacementAssumption
    <3>4. QED
      BY <1>0, <2>2, <2>3, <3>1, <3>3 DEF Inv, Typed, TypeOK, Passes
  <2>5. Quiet'
    BY <1>0, <2>2, <2>3 DEF Inv, Quiet, Typed, TypeOK
  <2>6. ASSUME NEW h \in Gateways PROVE LeasedTo(h)'
    BY <1>0, <2>3 DEF Inv, LeasedTo, Active, Typed, TypeOK
  <2>7. ASSUME NEW h \in Gateways PROVE Recalls(h)'
    BY <1>0, <2>2, <2>3 DEF Inv, Recalls
  <2>8. ASSUME NEW h \in Gateways PROVE Knows(h)'
    BY <1>0, <2>2, <2>3, ReaderIs DEF Inv, Knows, Current
  <2>9. ASSUME NEW h \in Gateways PROVE Keeps(h)'
    BY <1>0, <2>2, <2>3 DEF Inv, Keeps
  <2>10. ASSUME NEW h \in Gateways PROVE Clears(h)'
    BY <1>0, <2>2, <2>3, <1>1 DEF Inv, Clears, Active
  <2>11. Counted'
    BY <1>0, <2>2, <2>3 DEF Counted, Inv
  <2>12. Contest'
    BY <1>0, <2>2, <2>3 DEF Inv, Contest, Beating, Solo
  <2>13. Stopped'
    BY <1>0, <2>2, <2>3 DEF Inv, Stopped, Active
  <2>14. QED
    BY <2>4, <2>5, <2>6, <2>7, <2>8, <2>9, <2>10, <2>11, <2>12, <2>13 DEF Inv
<1>3. ASSUME Unread(Reader(g, "pass")), Abandon(g)
      PROVE  Inv'
  <2>3. /\ claim' = claim /\ age' = age /\ fresh' = fresh \ {Reader(g, "pass")}
        /\ pass' \in [Gateways -> Passes]
        /\ \A h \in Gateways : h # g => pass'[h] = pass[h]
        /\ pass'[g].pc = "idle" /\ lease' = [lease EXCEPT ![g] = "none"]
    BY <1>0, <1>3, EndPassIs DEF Unread, Abandon, Free
  <2>4. Typed'
    <3>1. fresh' \subseteq Readers
      BY <1>0, <2>3, ReaderIs DEF Inv, Typed, TypeOK
    <3>2. lease' \in [Gateways -> {"none", "launch", "task", "op"}]
      BY <1>0, <2>3 DEF Inv, Typed, TypeOK
    <3>3. QED
      BY <1>0, <2>3 DEF Inv, Typed, TypeOK, Passes
  <2>5. Quiet'
    BY <1>0, <2>3 DEF Inv, Quiet, Typed, TypeOK
  <2>6. ASSUME NEW h \in Gateways PROVE LeasedTo(h)'
    BY <1>0, <2>3 DEF Inv, LeasedTo, Active, Typed, TypeOK
  <2>7. ASSUME NEW h \in Gateways PROVE Recalls(h)'
    BY <1>0, <2>3 DEF Inv, Recalls
  <2>8. ASSUME NEW h \in Gateways PROVE Knows(h)'
    BY <1>0, <2>3, ReaderIs DEF Inv, Knows, Current
  <2>9. ASSUME NEW h \in Gateways PROVE Keeps(h)'
    BY <1>0, <2>3 DEF Inv, Keeps
  <2>10. ASSUME NEW h \in Gateways PROVE Clears(h)'
    BY <1>0, <2>3, <1>1 DEF Inv, Clears, Active
  <2>11. Counted'
    BY <1>0, <2>3 DEF Inv, Counted
  <2>12. Contest'
    BY <1>0, <2>3, ReaderIs DEF Inv, Contest, Beating, Current, Solo
  <2>13. Stopped'
    BY <1>0, <2>3 DEF Inv, Stopped, Active
  <2>14. QED
    BY <2>4, <2>5, <2>6, <2>7, <2>8, <2>9, <2>10, <2>11, <2>12, <2>13 DEF Inv
<1>4. QED
  BY <1>2, <1>3 DEF LaunchClaim

\* At the moment of the fire the gateway has no provision under way, and with
\* several gateways nobody has.
LEMMA FireIs ==
    ASSUME Inv, NEW g \in live, pass[g].pc = "fire"
    PROVE  /\ g \in Gateways
           /\ pass[g].taken \in Claims /\ pass[g].taken # None
           /\ pass[g].taken.state = "provisioning" /\ pass[g].taken.holder = g
           /\ claim = pass[g].taken /\ age = 0 /\ tries < claim.attempts
           /\ tries \in Nat /\ claim.attempts \in 0..MaxAttempts
           /\ lease[g] = "launch"
           /\ \A h \in Gateways : ~Active(h)
           /\ \A h \in Gateways : owned[h] # None => owned[h].claim.id # claim.id
           /\ \A h \in Gateways : h # g => pass[h].pc # "fire"
           /\ ~Solo => \A h \in Gateways : owned[h] = None
           /\ node # None => node.id = claim.id
           /\ op[g].pc \notin {"setup", "recorded", "teardown"}
<1>0. g \in Gateways
  BY DEF Inv, Typed
<1>1. /\ pass[g].taken # None
      /\ pass[g].taken.state = "provisioning" /\ pass[g].taken.holder = g
      /\ claim = pass[g].taken /\ age = 0 /\ tries < claim.attempts
      /\ owned[g] # None => owned[g].claim.id # claim.id
      /\ lease[g] = "launch" /\ ~Active(g)
      /\ op[g].pc \notin {"setup", "recorded", "teardown"}
  BY <1>0 DEF Inv, Recalls, Keeps, LeasedTo
<1>2. pass[g].taken \in Claims
  BY <1>0, <1>1 DEF Inv, Typed, TypeOK
<1>3. tries \in Nat /\ claim.attempts \in 0..MaxAttempts
  BY <1>1, StoredIs
<1>4. ASSUME NEW h \in Gateways, h # g, owned[h] # None PROVE FALSE
  <2>1. ~Solo
    BY <1>4, OthersIdle
  <2>2. claim = owned[h].claim /\ owned[h].claim.holder = h
    BY <1>4, <2>1 DEF Inv, Contest, Beating, Recalls
  <2>3. QED
    BY <1>1, <1>4, <2>2
<1>5. \A h \in Gateways : h # g => pass[h].pc # "fire"
  BY <1>1 DEF Inv, Recalls, Keeps
<1>6. ASSUME ~Solo PROVE owned[g] = None
  BY <1>0, <1>1, <1>6 DEF Inv, Contest, Beating
<1>7. \A h \in Gateways : ~Active(h)
  BY <1>1, <1>4 DEF Inv, LeasedTo, Active
<1>8. node # None => node.id = claim.id
  <2>1. CASE Solo
    BY <1>0, <1>1, <2>1, OthersIdle DEF Inv, Clears
  <2>2. CASE ~Solo
    BY <1>1, <2>2 DEF Inv, Contest
  <2>3. QED
    BY <2>1, <2>2
<1>9. QED
  BY <1>0, <1>1, <1>2, <1>3, <1>4, <1>5, <1>6, <1>7, <1>8

\* The fire: the task is queued under the claim that was taken.
LEMMA FireKeeps ==
    ASSUME Inv, NEW g \in live, pass[g].pc = "fire",
           IF pass[g].replace THEN node' = None /\ reg' = [reg EXCEPT ![g] = None]
           ELSE UNCHANGED <<node, reg>>,
           run' = [run EXCEPT ![g] = "queued"],
           owned' = [owned EXCEPT ![g] = [claim |-> pass[g].taken, unref |-> 0,
                                          lost |-> FALSE, due |-> FALSE]],
           IF run[g] = "none" THEN UNCHANGED op ELSE TaskOver(g),
           lease' = [lease EXCEPT ![g] = "task"],
           tries' = tries + 1,
           EndPass(g),
           UNCHANGED <<claim, age, fresh, suspended, reset, live, out>>
    PROVE  Inv'
<1>0. /\ g \in Gateways
      /\ pass[g].taken \in Claims /\ pass[g].taken # None
      /\ pass[g].taken.state = "provisioning" /\ pass[g].taken.holder = g
      /\ claim = pass[g].taken /\ age = 0 /\ tries < claim.attempts
      /\ tries \in Nat /\ claim.attempts \in 0..MaxAttempts
      /\ lease[g] = "launch"
      /\ \A h \in Gateways : ~Active(h)
      /\ \A h \in Gateways : owned[h] # None => owned[h].claim.id # claim.id
      /\ \A h \in Gateways : h # g => pass[h].pc # "fire"
      /\ ~Solo => \A h \in Gateways : owned[h] = None
      /\ node # None => node.id = claim.id
      /\ op[g].pc \notin {"setup", "recorded", "teardown"}
  BY FireIs
<1>a. /\ pass' \in [Gateways -> Passes]
      /\ pass'[g] = IdlePass /\ pass'[g].pc = "idle"
      /\ \A h \in Gateways : h # g => pass'[h] = pass[h]
  BY <1>0, EndPassIs
<1>b. PICK o : o = [claim |-> pass[g].taken, unref |-> 0, lost |-> FALSE, due |-> FALSE]
  OBVIOUS
<1>c. /\ o \in Holdings /\ o # None /\ o.claim = claim /\ o.unref = 0
      /\ o.lost = FALSE /\ o.due = FALSE
  <2>1. 0 \in 0..Stale
    BY PlacementAssumption
  <2>2. o \in Holdings
    BY <1>0, <1>b, <2>1 DEF Holdings
  <2>3. QED
    BY <1>0, <1>b, <2>2, PlacementAssumption
<1>d. /\ owned'[g] = o /\ owned' = [owned EXCEPT ![g] = o]
      /\ owned' \in [Gateways -> Holdings \cup {None}]
      /\ \A h \in Gateways : h # g => owned'[h] = owned[h]
  BY <1>0, <1>b, <1>c DEF Inv, Typed, TypeOK
<1>e. /\ op' \in [Gateways -> Ops]
      /\ op'[g].pc \notin {"setup", "recorded", "teardown"}
      /\ op[g] = NoOp => op'[g] = NoOp
      /\ \A h \in Gateways : h # g => op'[h] = op[h]
  <2>1. CASE run[g] = "none"
    BY <1>0, <2>1 DEF Inv, Typed
  <2>2. CASE TaskOver(g)
    BY <1>0, <2>2, TaskOverIs
  <2>3. QED
    BY <2>1, <2>2
<1>f. /\ run'[g] = "queued" /\ lease'[g] = "task"
      /\ \A h \in Gateways : h # g => run'[h] = run[h] /\ lease'[h] = lease[h]
      /\ node' = None \/ node' = node
  BY <1>0 DEF Inv, Typed, TypeOK
<1>1. Typed'
  <2>1. tries' \in 0..MaxAttempts
    BY <1>0, PlacementAssumption
  <2>2. /\ node' \in Nodes \cup {None}
        /\ reg' \in [Gateways -> Nodes \cup {None}]
    BY <1>0 DEF Inv, Typed, TypeOK
  <2>3. run' \in [Gateways -> {"none", "queued", "started", "recorded", "succeeded",
                             "failed"}]
    BY <1>0 DEF Inv, Typed, TypeOK
  <2>4. lease' \in [Gateways -> {"none", "launch", "task", "op"}]
    BY <1>0 DEF Inv, Typed, TypeOK
  <2>5. QED
    BY <1>a, <1>d, <1>e, <2>1, <2>2 DEF Inv, Typed, TypeOK, Passes
<1>2. Quiet'
  BY <1>a, <1>d, <1>e, <1>f DEF Inv, Quiet
<1>3. ASSUME NEW h \in Gateways PROVE LeasedTo(h)'
  <2>1. CASE h = g
    BY <1>0, <1>a, <1>c, <1>d, <1>e, <1>f, <2>1 DEF LeasedTo, Active
  <2>2. CASE h # g
    BY <1>a, <1>e, <2>2 DEF Inv, LeasedTo, Active
  <2>3. QED
    BY <2>1, <2>2
<1>4. ASSUME NEW h \in Gateways PROVE Recalls(h)'
  BY <1>0, <1>a, <1>c, <1>d DEF Inv, Recalls
<1>5. ASSUME NEW h \in Gateways PROVE Knows(h)'
  BY <1>0, <1>a DEF Inv, Knows, Current
<1>6. ASSUME NEW h \in Gateways PROVE Keeps(h)'
  BY <1>0, <1>a, <1>c, <1>d DEF Inv, Keeps
<1>7. ASSUME NEW h \in Gateways PROVE Clears(h)'
  <2>1. SUFFICES ASSUME h = g PROVE Clears(g)'
    BY DEF Clears
  <2>2. QED
    BY <1>0, <1>a, <1>c, <1>d, <1>f DEF Clears, Active
<1>8. Counted'
  BY <1>0 DEF Inv, Counted
<1>9. Contest'
  <2>1. ASSUME NEW h \in Gateways, ~Solo PROVE Beating(h)'
    <3>1. CASE h = g
      BY <1>0, <1>c, <1>d, <3>1, HalfIs DEF Beating
    <3>2. CASE h # g
      BY <1>0, <1>d, <2>1, <3>2 DEF Beating
    <3>3. QED
      BY <3>1, <3>2
  <2>2. QED
    BY <1>0, <1>a, <1>e, <2>1 DEF Inv, Contest, Solo
<1>10. Stopped'
  BY <1>0, <1>a, <1>e, <1>f DEF Inv, Stopped, Active
<1>11. QED
  BY <1>1, <1>2, <1>3, <1>4, <1>5, <1>6, <1>7, <1>8, <1>9, <1>10 DEF Inv

\* LaunchFire: the task is fired, or refused for lack of capacity and the claim
\* given back.
LEMMA LaunchFireKeeps ==
    ASSUME Inv, NEW g \in live, LaunchFire(g)
    PROVE  Inv'
<1>0. /\ g \in Gateways /\ pass[g].pc = "fire"
      /\ pass[g].taken \in Claims /\ pass[g].taken # None
      /\ claim = pass[g].taken /\ age = 0 /\ tries < claim.attempts
      /\ claim.state = "provisioning" /\ claim.holder = g
      /\ tries \in Nat /\ claim.attempts \in 0..MaxAttempts
      /\ \A h \in Gateways : owned[h] # None => owned[h].claim.id # claim.id
      /\ \A h \in Gateways : h # g => pass[h].pc # "fire"
      /\ ~Solo => \A h \in Gateways : owned[h] = None
      /\ node # None => node.id = claim.id
      /\ UNCHANGED <<suspended, reset, live, out>>
  <2>1. pass[g].pc = "fire" /\ UNCHANGED <<suspended, reset, live, out>>
    BY DEF LaunchFire
  <2>2. QED
    BY <2>1, FireIs
<1>1. lease[g] = "launch" /\ ~Active(g) /\ op[g].pc \notin {"setup", "recorded", "teardown"}
  BY <1>0, FireIs
<1>2. ASSUME Abandon(g), UNCHANGED <<run, owned, op, tries>>,
             node' \in (IF pass[g].replace THEN {node, None} ELSE {node}),
             reg' = [reg EXCEPT ![g] = IF node' = node THEN @ ELSE None],
             \/ Unread(Reader(g, "owned"))
             \/ claim = pass[g].taken /\ PutUnseen(TakenBack(claim))
      PROVE  Inv'
  <2>1. /\ pass' \in [Gateways -> Passes] /\ pass'[g].pc = "idle"
        /\ \A h \in Gateways : h # g => pass'[h] = pass[h]
        /\ lease' = [lease EXCEPT ![g] = "none"]
    BY <1>0, <1>2, EndPassIs DEF Abandon, Free
  <2>2. /\ node' = node \/ node' = None
        /\ node' \in Nodes \cup {None}
        /\ reg' \in [Gateways -> Nodes \cup {None}]
    BY <1>0, <1>2 DEF Inv, Typed, TypeOK
  <2>3. /\ claim' \in Claims /\ claim' # None /\ claim'.id = claim.id
        /\ tries <= claim'.attempts
        /\ claim'.state # "active"
        /\ fresh' \subseteq fresh /\ age' = 0
        /\ claim' # claim => fresh' = {}
    <3>1. CASE Unread(Reader(g, "owned"))
      BY <1>0, <3>1 DEF Unread
    <3>2. CASE PutUnseen(TakenBack(claim))
      <4>1. PICK n \in 0..MaxAttempts : n = claim.attempts - 1
        BY <1>0, PlacementAssumption
      <4>2. claim' = [claim EXCEPT !.state = "failed", !.attempts = n]
        BY <1>0, <3>2, <4>1 DEF PutUnseen, TakenBack, Claims
      <4>3. /\ claim' \in Claims /\ claim'.id = claim.id /\ claim'.attempts = n
            /\ claim'.state = "failed"
        BY <1>0, <4>2 DEF Claims, States
      <4>4. tries <= n
        BY <1>0, <4>1
      <4>5. QED
        BY <3>2, <4>3, <4>4, PlacementAssumption DEF PutUnseen
    <3>3. QED
      BY <1>2, <3>1, <3>2
  <2>4. Typed'
    <3>1. fresh' \subseteq Readers
      BY <1>0, <2>3 DEF Inv, Typed, TypeOK
    <3>2. lease' \in [Gateways -> {"none", "launch", "task", "op"}]
      BY <1>0, <2>1 DEF Inv, Typed, TypeOK
    <3>3. 0 \in 0..Stale
      BY PlacementAssumption
    <3>4. QED
      BY <1>0, <1>2, <2>1, <2>3 DEF Inv, Typed, TypeOK, Passes
  <2>5. Quiet'
    BY <1>0, <1>2, <2>1 DEF Inv, Quiet
  <2>6. ASSUME NEW h \in Gateways PROVE LeasedTo(h)'
    BY <1>0, <1>2, <2>1 DEF Inv, LeasedTo, Active, Typed, TypeOK
  <2>7. ASSUME NEW h \in Gateways PROVE Recalls(h)'
    BY <1>0, <1>2, <2>1, <2>2, <2>3 DEF Inv, Recalls
  <2>8. ASSUME NEW h \in Gateways PROVE Knows(h)'
    BY <1>0, <2>1, <2>3 DEF Inv, Knows, Current
  <2>9. ASSUME NEW h \in Gateways PROVE Keeps(h)'
    BY <1>0, <1>2, <2>1, <2>2, <2>3 DEF Inv, Keeps
  <2>10. ASSUME NEW h \in Gateways PROVE Clears(h)'
    BY <1>0, <1>2, <2>1 DEF Inv, Clears, Active
  <2>11. Counted'
    BY <1>0, <1>2, <2>1, <2>2, <2>3 DEF Counted, Inv
  <2>12. Contest'
    BY <1>0, <1>2, <2>1, <2>3 DEF Inv, Contest, Beating, Solo
  <2>13. Stopped'
    BY <1>0, <1>2 DEF Inv, Stopped
  <2>14. QED
    BY <2>4, <2>5, <2>6, <2>7, <2>8, <2>9, <2>10, <2>11, <2>12, <2>13 DEF Inv
<1>3. QED
  BY <1>0, <1>2, FireKeeps DEF LaunchFire, Unwritten

----------------------------------------------------------------------------
(* The invariant holds                                                     *)

\* The invariant holds at the start.
LEMMA InitInv ==
    ASSUME Init PROVE Inv
<1>0. /\ \A g \in Gateways : pass[g] = IdlePass /\ pass[g].pc = "idle"
      /\ \A g \in Gateways : op[g] = NoOp /\ op[g].pc = "none"
      /\ IdlePass \in Passes /\ NoOp \in Ops
  BY DEF Init, IdlePass, NoOp, Passes, Ops
<1>1. Typed
  <2>1. 0 \in 0..Stale /\ 0 \in 0..MaxAttempts
    BY PlacementAssumption
  <2>2. pass \in [Gateways -> Passes] /\ op \in [Gateways -> Ops]
    BY <1>0 DEF Init
  <2>3. QED
    BY <2>1, <2>2 DEF Init, Typed, TypeOK, Passes
<1>2. Quiet
  BY DEF Init, Quiet
<1>3. ASSUME NEW g \in Gateways
      PROVE  LeasedTo(g) /\ Recalls(g) /\ Knows(g) /\ Keeps(g) /\ Clears(g)
  BY <1>0 DEF Init, LeasedTo, Recalls, Knows, Keeps, Clears, Active
<1>4. Counted
  BY DEF Init, Counted
<1>5. Contest
  BY <1>0 DEF Init, Contest, Beating
<1>6. Stopped
  BY <1>0 DEF Init, Stopped
<1>7. QED
  BY <1>1, <1>2, <1>3, <1>4, <1>5, <1>6 DEF Inv

\* A step that changes nothing keeps the invariant.
LEMMA StutterKeeps ==
    ASSUME Inv, UNCHANGED vars PROVE Inv'
<1>1. Typed' /\ Quiet' /\ Counted' /\ Stopped'
  BY DEF vars, Inv, Typed, TypeOK, Quiet, Counted, Stopped, Active
<1>2. ASSUME NEW g \in Gateways
      PROVE  /\ LeasedTo(g)' /\ Recalls(g)' /\ Knows(g)' /\ Keeps(g)' /\ Clears(g)'
             /\ Beating(g) => Beating(g)'
  BY DEF vars, Inv, LeasedTo, Recalls, Knows, Keeps, Clears, Beating, Active, Current
<1>3. Contest'
  BY <1>2 DEF vars, Inv, Contest, Solo
<1>4. QED
  BY <1>1, <1>2, <1>3 DEF Inv

\* Every step of the reconciler, of a provision, of an operator and of the
\* environment keeps the invariant.
LEMMA NextInv ==
    ASSUME Inv, [Next]_vars PROVE Inv'
<1>1. ASSUME NEW g \in live, Pass(g) PROVE Inv'
  BY <1>1, PassReadKeeps, PassSuspendedKeeps, SettleClearKeeps, PassEndsKeeps,
     SettleKeepKeeps, SettleWriteKeeps, SettleDropKeeps, PolicyReleaseKeeps,
     LaunchCheckKeeps, LaunchRefusedKeeps, LaunchClaimKeeps, LaunchFireKeeps
     DEF Pass
<1>2. ASSUME NEW g \in live, Task(g) PROVE Inv'
  BY <1>2, TaskStartKeeps, ProvisionRecordKeeps, ProvisionSucceedsKeeps,
     ProvisionFailsKeeps, HeartbeatOnceKeeps, FenceKeeps, FinishKeeps
     DEF Task
<1>3. ASSUME NEW g \in live, Operator(g) PROVE Inv'
  BY <1>3, SetupStartKeeps, SetupRecordKeeps, SetupEndKeeps, TakeOverKeeps,
     TeardownRequestKeeps, TeardownSuspendKeeps, TeardownCancelKeeps,
     TeardownReserveKeeps, TeardownEndKeeps, ResumeKeeps, ResetReadKeeps,
     ResetClearKeeps, ResetDeleteKeeps
     DEF Operator
<1>4. QED
  BY <1>1, <1>2, <1>3, WatchKeeps, RestartKeeps, ExpireKeeps, TickKeeps, StutterKeeps
     DEF Next

\* The inductive invariant is an invariant.
THEOREM Invariance == Spec => []Inv
  BY InitInv, NextInv, PTL DEF Spec

\* The variables always hold what the program's objects can hold.
THEOREM TypeCorrectness == Spec => []TypeOK
<1>1. Inv => TypeOK
  BY DEF Inv, Typed
<1>2. QED
  BY <1>1, Invariance, PTL

\* DELETE /nodes/{id}: from the end of a teardown to the resume, no provision of
\* the reconciler works on the host, whatever it was doing when the operator came
\* and however often the gateway restarts.
THEOREM NoPlacementAfterTeardown == Spec => []TornDownStaysOut
<1>1. Inv => TornDownStaysOut
  <2>1. SUFFICES ASSUME Inv, NEW g \in Gateways, out
                 PROVE  run[g] \in {"none", "succeeded", "failed"}
    BY DEF TornDownStaysOut
  <2>2. run[g] \in {"none", "queued", "started", "recorded", "succeeded", "failed"}
    BY <2>1 DEF Inv, Typed, TypeOK
  <2>3. ~Active(g)
    BY <2>1 DEF Inv, Stopped
  <2>4. QED
    BY <2>2, <2>3 DEF Active
<1>2. QED
  BY <1>1, Invariance, PTL

\* A provision under way has a host that is empty or its own.
LEMMA WorkerHost ==
    ASSUME Inv, NEW g \in Gateways, live = {g}, Working(g), node # None
    PROVE  owned[g] # None /\ node.id = owned[g].claim.id
  BY DEF Inv, Clears, LeasedTo, Active, Working

\* In the supported deployment neither a launch nor a provision writes over a node
\* of somebody else's, although the registry it decided on may lag behind: the
\* record in etcd is checked under the lease, and nobody else writes while it lasts.
THEOREM NothingOverwritten == Spec => LaunchesOverItsOwn
<1>1. ASSUME Inv, NEW g \in Gateways, Operated(g), LaunchFire(g) PROVE Untouched(g)
  <2>1. g \in live /\ pass[g].pc = "fire"
    BY <1>1 DEF Operated, LaunchFire
  <2>2. pass[g].taken # None /\ (node # None => node.id = pass[g].taken.id)
    BY <1>1, <2>1, FireIs
  <2>3. QED
    BY <2>2 DEF Untouched, Concerns
<1>2. ASSUME Inv, NEW g \in Gateways, Operated(g), Task(g) PROVE Untouched(g)
  <2>1. CASE node' = node
    BY <2>1 DEF Untouched
  <2>2. CASE node' # node
    <3>1. Working(g)
      BY <1>2, <2>2
         DEF Task, TaskStart, ProvisionRecord, ProvisionSucceeds, ProvisionFails,
             HeartbeatOnce, Fence, Finish, Working, durable
    <3>2. node # None => owned[g] # None /\ node.id = owned[g].claim.id
      BY <1>2, <3>1, WorkerHost DEF Operated
    <3>3. QED
      BY <3>2 DEF Untouched, Concerns
  <2>3. QED
    BY <2>1, <2>2
<1>3. Inv => [\A g \in Gateways :
                 Operated(g) /\ (LaunchFire(g) \/ Task(g)) => Untouched(g)]_vars
  BY <1>1, <1>2
<1>4. QED
  BY <1>3, Invariance, PTL DEF LaunchesOverItsOwn

----------------------------------------------------------------------------
(* Placement implements HostWork                                           *)

Workers == {g \in Gateways : Active(g)}

\* Workers is the set that the refinement names, before and after a step.
LEMMA WorkersAre ==
    /\ {g \in Gateways : run[g] = "queued" \/ Working(g)} = Workers
    /\ {g \in Gateways : run[g] = "queued" \/ Working(g)}' = Workers'
  BY DEF Workers, Active, Working

\* Two gateways never work at the same time.
LEMMA OneWorker ==
    ASSUME Inv, NEW g \in Gateways, NEW h \in Gateways, Active(g), Active(h)
    PROVE  g = h
<1>1. g \in live /\ h \in live /\ run[g] # "none" /\ run[h] # "none"
  BY DEF Inv, Quiet, Active
<1>2. CASE Solo
  BY <1>1, <1>2, OthersIdle
<1>3. CASE ~Solo
  <2>1. /\ owned[g] # None /\ owned[g].claim.holder = g
        /\ owned[h] # None /\ owned[h].claim.holder = h
    BY <1>1, HoldingIs
  <2>2. claim = owned[g].claim /\ claim = owned[h].claim
    BY <1>3, <2>1 DEF Inv, Contest, Beating
  <2>3. QED
    BY <2>1, <2>2
<1>4. QED
  BY <1>2, <1>3

\* The abstract step that a step of Placement may take.
Abstractly ==
    \/ \E g \in Gateways : /\ Workers = {} /\ tries < MaxAttempts
                           /\ Workers' = {g} /\ tries' = tries + 1
    \/ Workers # {} /\ Workers' = {} /\ tries' \in {tries, 0}
    \/ tries' = 0 /\ Workers' = Workers
    \/ Workers' = Workers /\ tries' = tries

\* A step that leaves the tasks alone, or moves one on.
LEMMA SameWorkers ==
    ASSUME Inv, \/ run' = run
                \/ \E g \in Gateways : /\ run' = [run EXCEPT ![g] = run'[g]]
                                       /\ Active(g) <=> Active(g)'
    PROVE  Workers' = Workers
  BY DEF Workers, Active, Inv, Typed, TypeOK

\* A step that ends the task of the one gateway that works.
LEMMA WorkerEnds ==
    ASSUME Inv, NEW g \in Gateways, Active(g), NEW s \in {"none", "succeeded", "failed"},
           run' = [run EXCEPT ![g] = s]
    PROVE  Workers # {} /\ Workers' = {}
<1>1. \A h \in Gateways : Active(h) => h = g
  BY OneWorker
<1>2. QED
  BY <1>1 DEF Workers, Active, Inv, Typed, TypeOK

\* Every step of a pass is abstractly a beginning, a fresh start or nothing.
LEMMA PassAbstractly ==
    ASSUME Inv, NEW g \in live, Pass(g)
    PROVE  Abstractly
<1>0. g \in Gateways
  BY DEF Inv, Typed
<1>1. CASE run' = run /\ tries' \in {tries, 0}
  <2>1. Workers' = Workers
    BY <1>1, SameWorkers
  <2>2. QED
    BY <1>1, <2>1 DEF Abstractly
<1>2. CASE pass[g].pc = "fire" /\ run' = [run EXCEPT ![g] = "queued"] /\ tries' = tries + 1
  <2>1. /\ \A h \in Gateways : ~Active(h)
        /\ tries < claim.attempts /\ tries \in Nat /\ claim.attempts \in 0..MaxAttempts
    BY <1>2, FireIs
  <2>2. Workers = {} /\ Workers' = {g}
    BY <1>0, <1>2, <2>1 DEF Workers, Active, Inv, Typed, TypeOK
  <2>3. tries < MaxAttempts
    BY <2>1, PlacementAssumption
  <2>4. QED
    BY <1>0, <1>2, <2>2, <2>3 DEF Abstractly
<1>3. LaunchFire(g) \/ (run' = run /\ tries' \in {tries, 0})
  BY DEF Pass, PassRead, PassSuspended, SettleClear, ClearNode, PassEnds, SettleKeep,
         SettleWrite, SettleDrop, PolicyRelease, LaunchCheck, LaunchRefused, LaunchClaim
<1>4. LaunchFire(g) =>
          \/ run' = run /\ tries' \in {tries, 0}
          \/ pass[g].pc = "fire" /\ run' = [run EXCEPT ![g] = "queued"] /\ tries' = tries + 1
  BY DEF LaunchFire
<1>5. QED
  BY <1>1, <1>2, <1>3, <1>4

\* Every step of a task is abstractly an end, a fresh start or nothing.
LEMMA TaskAbstractly ==
    ASSUME Inv, NEW g \in live, Task(g)
    PROVE  Abstractly
<1>0. g \in Gateways
  BY DEF Inv, Typed
<1>1. CASE \E s \in {"none", "succeeded", "failed"} :
               Active(g) /\ run' = [run EXCEPT ![g] = s] /\ tries' \in {tries, 0}
  <2>1. Workers # {} /\ Workers' = {}
    BY <1>0, <1>1, WorkerEnds
  <2>2. QED
    BY <1>1, <2>1 DEF Abstractly
<1>2. CASE /\ run' = run \/ (run' = [run EXCEPT ![g] = run'[g]] /\ (Active(g) <=> Active(g)'))
           /\ tries' \in {tries, 0}
  <2>1. Workers' = Workers
    BY <1>0, <1>2, SameWorkers
  <2>2. QED
    BY <1>2, <2>1 DEF Abstractly
<1>3. run \in [Gateways -> {"none", "queued", "started", "recorded", "succeeded", "failed"}]
  BY DEF Inv, Typed, TypeOK
<1>4. CASE TaskStart(g) \/ ProvisionRecord(g) \/ HeartbeatOnce(g) \/ Finish(g)
  BY <1>0, <1>2, <1>3, <1>4
     DEF TaskStart, ProvisionRecord, HeartbeatOnce, Finish, Active
<1>5. CASE ProvisionSucceeds(g) \/ ProvisionFails(g) \/ Fence(g)
  BY <1>0, <1>1, <1>5 DEF ProvisionSucceeds, ProvisionFails, Fence, Active, Working
<1>6. QED
  BY <1>4, <1>5 DEF Task

\* Every step of an operator is abstractly an end, a fresh start or nothing.
LEMMA OperatorAbstractly ==
    ASSUME Inv, NEW g \in live, Operator(g)
    PROVE  Abstractly
<1>0. g \in Gateways
  BY DEF Inv, Typed
<1>1. CASE \E s \in {"none", "succeeded", "failed"} :
               Active(g) /\ run' = [run EXCEPT ![g] = s] /\ tries' \in {tries, 0}
  <2>1. Workers # {} /\ Workers' = {}
    BY <1>0, <1>1, WorkerEnds
  <2>2. QED
    BY <1>1, <2>1 DEF Abstractly
<1>2. CASE run' = run /\ tries' \in {tries, 0}
  <2>1. Workers' = Workers
    BY <1>2, SameWorkers
  <2>2. QED
    BY <1>2, <2>1 DEF Abstractly
<1>3. CASE TeardownCancel(g)
  BY <1>1, <1>2, <1>3 DEF TeardownCancel, Active, Working
<1>4. CASE ~TeardownCancel(g)
  BY <1>2, <1>4
     DEF Operator, SetupStart, SetupRecord, SetupEnd, TakeOver, TeardownRequest,
         TeardownSuspend, TeardownReserve, TeardownEnd, Resume, ResetRead, ResetClear,
         ResetDelete, local
<1>5. QED
  BY <1>3, <1>4

\* Every step of Placement is a step of HostWork or leaves it unchanged.
LEMMA NextAbstractly ==
    ASSUME Inv, [Next]_vars
    PROVE  Abstractly
<1>1. CASE run' = run /\ tries' = tries
  <2>1. Workers' = Workers
    BY <1>1, SameWorkers
  <2>2. QED
    BY <1>1, <2>1 DEF Abstractly
<1>2. ASSUME NEW g \in live, Restart(g) PROVE Abstractly
  <2>0. g \in Gateways /\ run' = [run EXCEPT ![g] = "none"] /\ tries' = tries
    BY <1>2 DEF Inv, Typed, Restart
  <2>1. CASE Active(g)
    <3>1. Workers # {} /\ Workers' = {}
      BY <2>0, <2>1, WorkerEnds
    <3>2. QED
      BY <2>0, <3>1 DEF Abstractly
  <2>2. CASE ~Active(g)
    <3>1. run'[g] = "none" /\ ~Active(g)'
      BY <2>0 DEF Active, Inv, Typed, TypeOK
    <3>2. Workers' = Workers
      BY <2>0, <2>2, <3>1, SameWorkers
    <3>3. QED
      BY <2>0, <3>2 DEF Abstractly
  <2>3. QED
    BY <2>1, <2>2
<1>3. ASSUME NEW g \in live, Watch(g) PROVE Abstractly
  BY <1>1, <1>3 DEF Watch
<1>4. CASE Expire \/ Tick \/ UNCHANGED vars
  BY <1>1, <1>4 DEF Expire, Tick, vars, local
<1>5. QED
  BY <1>2, <1>3, <1>4, PassAbstractly, TaskAbstractly, OperatorAbstractly DEF Next

\* Placement implements HostWork: whatever the passes of several gateways, lost
\* answers, fences, restarts and operators do, one gateway works on the host at a
\* time, and at most max_attempts times between two successes or fresh starts.
THEOREM ImplementsHostWork == Spec => OneWorkerWithinBudget
<1>1. Init => Work!Init
  BY DEF Init, Work!Init, Working
<1>2. Inv /\ [Next]_vars => [Work!Next]_(Work!vars)
  <2>1. SUFFICES ASSUME Inv, [Next]_vars PROVE [Work!Next]_(Work!vars)
    OBVIOUS
  <2>2. Abstractly
    BY <2>1, NextAbstractly
  <2>3. QED
    BY <2>2, WorkersAre
       DEF Abstractly, Work!Next, Work!vars, Work!Begin, Work!End, Work!StartOver
<1>3. QED
  BY <1>1, <1>2, Invariance, PTL DEF Spec, OneWorkerWithinBudget, Work!Spec
=============================================================================
