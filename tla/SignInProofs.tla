---------------------------- MODULE SignInProofs ----------------------------
(***************************************************************************)
(* Proofs about SignIn, for any identities, workers, whitelist and refresh *)
(* window: accounts stay distinct and with their provider, and an address  *)
(* taken off the whitelist is refused from the next window on.             *)
(***************************************************************************)
EXTENDS SignIn, TLAPS

-----------------------------------------------------------------------------
(* The inductive invariant.                                                *)

ReqRecord == [op : {"idle", "signin", "use"},
              pc : {"done", "gate", "fetch", "served", "select", "upsert", "row"},
              who : Identities \cup {None}, user : Nat]

\* A request that reaches the accounts has brought an identity.
Fit == {q \in ReqRecord :
           /\ q.op = "signin" => q.who \in Identities
           /\ q.pc \in {"select", "upsert", "row"} => q.op = "signin"}

FetchRecord == [by : Requests, list : SUBSET Emails, since : Times]

Copy == [list : SUBSET Emails, loaded : BOOLEAN, next : Times, retry : Times]

Typed ==
    /\ users \in Seq(Accounts)
    /\ req \in [Requests -> Fit]
    /\ now \in 0..MaxTime
    /\ listed \subseteq Emails
    /\ gone \in [Emails -> Times \cup {None}]
    /\ cache \in [Watched -> Copy]
    /\ fetch \in [Watched -> FetchRecord \cup {None}]
    /\ file \in [list : SUBSET Emails, mtime : Times] \cup {None}
    /\ locked \in Workers \cup {None}

\* An account has its address, and its pair of issuer and sub, for itself.
Distinct(u) ==
    \A i, j \in DOMAIN u :
        i # j => /\ u[i].email # u[j].email
                 /\ <<u[i].issuer, u[i].sub>> # <<u[j].issuer, u[j].sub>>

\* The refresh under way is that of one request.
Fetching ==
    \A r \in Requests :
        req[r].pc = "fetch" =>
            On[r] \in Watched /\ fetch[On[r]] # None /\ fetch[On[r]].by = r

\* Whoever is on the list is on the document doc, or was taken off it at most one tick
\* before start.
Sourced(list, start, doc, off) ==
    \A e \in list : e \in doc \/ (off[e] # None /\ off[e] + 1 >= start)

\* The first tick of the window of t.
Span(t) == (t \div Window) * Window

\* A document under way is at most a tick old.
FetchesOK ==
    \A w \in Watched :
        fetch[w] # None =>
            /\ fetch[w].since <= now /\ now <= fetch[w].since + 1
            /\ Sourced(fetch[w].list, fetch[w].since + 1, listed, gone)

FileOK ==
    file # None => file.mtime <= now /\ Sourced(file.list, Span(file.mtime), listed, gone)

\* A copy that is still good was made in a window that has not ended.
CopiesOK ==
    \A w \in Watched :
        Fresh(w) => \E t \in 0..now : cache[w].next = NextRefresh(t)
                                      /\ Sourced(cache[w].list, Span(t), listed, gone)

Inv == Typed /\ Distinct(users) /\ Fetching /\ FetchesOK /\ FileOK /\ CopiesOK

-----------------------------------------------------------------------------
(* Windows.                                                                *)

\* A window holds its tick, ends at the next refresh and is Window long; a tick before
\* that refresh is in no later window.
LEMMA Windows ==
    /\ \A t \in Nat : /\ Span(t) \in Nat /\ Span(t) <= t
                      /\ NextRefresh(t) \in Nat /\ t < NextRefresh(t)
                      /\ NextRefresh(t) = Span(t) + Window
    /\ \A t, u \in Nat : u < NextRefresh(t) => Span(u) <= Span(t)
<1>1. Window \in Nat /\ Window > 0
  BY SignInAssumption
<1>2. ASSUME NEW t \in Nat
      PROVE  /\ t \div Window \in Nat
             /\ (t \div Window) * Window <= t
             /\ t < (t \div Window) * Window + Window
  BY <1>1
<1>3. ASSUME NEW q \in Nat
      PROVE  /\ q * Window \in Nat
             /\ (q + 1) * Window = q * Window + Window
  BY <1>1
<1>4. \A t \in Nat : /\ Span(t) \in Nat /\ Span(t) <= t
                     /\ NextRefresh(t) \in Nat /\ t < NextRefresh(t)
                     /\ NextRefresh(t) = Span(t) + Window
  BY <1>1, <1>2, <1>3 DEF Span, NextRefresh
<1>5. ASSUME NEW t \in Nat, NEW u \in Nat, u < NextRefresh(t)
      PROVE  Span(u) <= Span(t)
  <2>1. PICK p \in Nat : p = u \div Window
    BY <1>2
  <2>2. PICK q \in Nat : q = t \div Window
    BY <1>2
  <2>3. p * Window < (q + 1) * Window
    BY <1>1, <1>2, <1>3, <1>5, <2>1, <2>2 DEF NextRefresh
  <2>4. p <= q
    BY <1>1, <2>3
  <2>5. p * Window <= q * Window
    BY <1>1, <2>4
  <2>6. QED
    BY <2>1, <2>2, <2>5 DEF Span
<1>6. QED
  BY <1>4, <1>5

-----------------------------------------------------------------------------
(* Requests.                                                               *)

\* What the steps make of a request.
LEMMA Requesting ==
    /\ Idle \in Fit /\ Idle.pc = "done"
    /\ \A q \in Fit : \A pc \in {"done", "gate", "fetch", "served"} :
          [q EXCEPT !.pc = pc] \in Fit /\ [q EXCEPT !.pc = pc].pc = pc
    /\ \A q \in Fit : q.op = "signin" =>
          \A pc \in {"select", "upsert", "row"} :
             [q EXCEPT !.pc = pc] \in Fit /\ [q EXCEPT !.pc = pc].pc = pc
<1>1. Idle \in Fit /\ Idle.pc = "done"
  BY DEF Idle, Fit, ReqRecord
<1>2. ASSUME NEW q \in Fit, NEW pc \in {"done", "gate", "fetch", "served"}
      PROVE  [q EXCEPT !.pc = pc] \in Fit /\ [q EXCEPT !.pc = pc].pc = pc
  BY DEF Fit, ReqRecord
<1>3. ASSUME NEW q \in Fit, q.op = "signin", NEW pc \in {"select", "upsert", "row"}
      PROVE  [q EXCEPT !.pc = pc] \in Fit /\ [q EXCEPT !.pc = pc].pc = pc
  BY <1>3 DEF Fit, ReqRecord
<1>4. QED
  BY <1>1, <1>2, <1>3

\* A step that moves one request, and not into a refresh.
Moves(r) ==
    /\ req' \in [Requests -> Fit]
    /\ req'[r].pc # "fetch"
    /\ \A q \in Requests \ {r} : req'[q] = req[q]

\* The steps that pass, end or go on with a request move only that one.
LEMMA Moving ==
    ASSUME Typed, NEW r \in Requests
    PROVE  /\ \A q \in Fit : q.pc # "fetch" /\ req' = [req EXCEPT ![r] = q] => Moves(r)
           /\ Finish(r) \/ Pass(r) => Moves(r)
           /\ req[r].op = "signin" /\ Goto(r, "row") => Moves(r)
<1>1. req \in [Requests -> Fit] /\ req[r] \in Fit
  BY DEF Typed
<1>2. ASSUME NEW q \in Fit, q.pc # "fetch", req' = [req EXCEPT ![r] = q]
      PROVE  Moves(r)
  BY <1>1, <1>2 DEF Moves
<1>3. Finish(r) => Moves(r)
  BY <1>2, Requesting DEF Finish
<1>4. ASSUME Goto(r, "served")
      PROVE  Moves(r)
  BY <1>1, <1>2, <1>4, Requesting DEF Goto
<1>5. ASSUME req[r].op = "signin", NEW pc \in {"select", "row"}, Goto(r, pc)
      PROVE  Moves(r)
  BY <1>1, <1>2, <1>5, Requesting DEF Goto
<1>6. Pass(r) => Moves(r)
  <2>1. CASE req[r].op = "signin"
    BY <1>5, <2>1 DEF Pass
  <2>2. CASE req[r].op # "signin"
    BY <1>4, <2>2 DEF Pass
  <2>3. QED
    BY <2>1, <2>2
<1>7. QED
  BY <1>2, <1>3, <1>5, <1>6

-----------------------------------------------------------------------------
(* Accounts.                                                               *)

\* The accounts of a worker that signs a user in: they stay distinct, and each with the
\* provider it came from.
Kept ==
    /\ users' \in Seq(Accounts)
    /\ Distinct(users')
    /\ \A i \in DOMAIN users : i \in DOMAIN users' /\ users'[i].issuer = users[i].issuer

\* An identity is an account as it stands.
LEMMA Presented ==
    \A who \in Identities : who \in Accounts
<1>1. TAKE who \in Identities
<1>2. who.issuer \in Issuers /\ who.sub \in Subs
  BY DEF Issuers, Subs
<1>3. who = [issuer |-> who.issuer, sub |-> who.sub, email |-> who.email] /\ who.email \in Emails
  BY SignInAssumption
<1>4. QED
  BY <1>2, <1>3 DEF Accounts

\* Rewriting rows keeps a sequence of accounts.
LEMMA Rewritten ==
    ASSUME users \in Seq(Accounts), NEW u, DOMAIN u = DOMAIN users, u = [i \in DOMAIN users |-> u[i]],
           \A i \in DOMAIN users : u[i] \in Accounts
    PROVE  u \in Seq(Accounts)
<1>1. DOMAIN users = 1..Len(users) /\ Len(users) \in Nat
  OBVIOUS
<1>2. u \in [1..Len(users) -> Accounts]
  BY <1>1
<1>3. QED
  BY <1>1, <1>2

\* upsert_google_user keeps the accounts apart, whichever of its statements commits.
LEMMA Upserting ==
    ASSUME Inv, NEW r \in Requests, UpsertUser(r)
    PROVE  Kept /\ Moves(r) /\ locked' \in Workers \cup {None}
<1>1. /\ users \in Seq(Accounts) /\ Distinct(users) /\ req \in [Requests -> Fit] /\ req[r] \in Fit
      /\ req[r].pc = "upsert"
  BY DEF Inv, Typed, UpsertUser
<1>2. req[r].op = "signin" /\ req[r].who \in Identities
  BY <1>1 DEF Fit
<1>3. PICK who : who = req[r].who /\ who \in Identities /\ who \in Accounts
  BY <1>2, Presented
<1>4. Goto(r, "row") \/ Finish(r) => Moves(r)
  BY <1>2, Moving DEF Inv
<1>5. users' = users => Kept
  BY <1>1 DEF Kept
<1>6. /\ \A i : i \in Holder(who.issuer, who.sub) <=>
                  i \in DOMAIN users /\ users[i].issuer = who.issuer /\ users[i].sub = who.sub
      /\ \A i : i \in HoldersOf(who.email) <=> i \in DOMAIN users /\ users[i].email = who.email
      /\ \A i : i \in Rebindable(who) <=> i \in HoldersOf(who.email) /\ users[i].issuer = who.issuer
  BY DEF Holder, HoldersOf, Rebindable
<1>7. \A i \in DOMAIN users : users[i] \in Accounts
  BY <1>1
<1>8. On[r] \in Workers
  BY SignInAssumption
<1>9. CASE InsertUser(r)
  <2>1. CASE /\ ~(Holder(who.issuer, who.sub) # {} \/ HoldersOf(who.email) # {})
             /\ users' = Append(users, who) /\ Goto(r, "row") /\ locked' = None
    <3>1. \A i \in DOMAIN users : /\ users[i].email # who.email
                                  /\ <<users[i].issuer, users[i].sub>> # <<who.issuer, who.sub>>
      BY <1>6, <2>1
    <3>2. /\ users' \in Seq(Accounts) /\ DOMAIN users' = DOMAIN users \cup {Len(users) + 1}
          /\ users'[Len(users) + 1] = who /\ \A i \in DOMAIN users : users'[i] = users[i]
      BY <1>1, <1>3, <2>1
    <3>3. Distinct(users')
      BY <1>1, <3>1, <3>2 DEF Distinct
    <3>4. QED
      BY <1>4, <2>1, <3>2, <3>3 DEF Kept
  <2>2. CASE /\ Rebindable(who) # {} /\ Holder(who.issuer, who.sub) \subseteq Rebindable(who)
             /\ users' = [i \in DOMAIN users |->
                 IF i \in Rebindable(who)
                 THEN [users[i] EXCEPT !.sub = who.sub, !.issuer = who.issuer]
                 ELSE users[i]]
             /\ Goto(r, "row") /\ locked' = None
    <3>1. DOMAIN users' = DOMAIN users /\ users' = [i \in DOMAIN users |-> users'[i]]
      BY <2>2
    <3>2. ASSUME NEW i \in DOMAIN users
          PROVE  /\ users'[i] \in Accounts /\ users'[i].email = users[i].email
                 /\ users'[i].issuer = users[i].issuer
                 /\ i \notin Rebindable(who) => users'[i] = users[i]
                 /\ i \in Rebindable(who) => users'[i].sub = who.sub /\ users[i].issuer = who.issuer
      <4>1. CASE i \in Rebindable(who)
        <5>1. users'[i] = [users[i] EXCEPT !.sub = who.sub, !.issuer = who.issuer]
          BY <2>2, <4>1
        <5>2. users[i].issuer = who.issuer
          BY <1>6, <4>1
        <5>3. QED
          BY <1>3, <1>7, <4>1, <5>1, <5>2 DEF Accounts
      <4>2. CASE i \notin Rebindable(who)
        BY <1>7, <2>2, <4>2
      <4>3. QED
        BY <4>1, <4>2
    <3>3. users' \in Seq(Accounts)
      BY <1>1, <3>1, <3>2, Rewritten
    <3>4. ASSUME NEW i \in DOMAIN users, NEW j \in DOMAIN users, i # j
          PROVE  /\ users'[i].email # users'[j].email
                 /\ <<users'[i].issuer, users'[i].sub>> # <<users'[j].issuer, users'[j].sub>>
      <4>1. users[i].email # users[j].email
        BY <1>1, <3>4 DEF Distinct
      <4>2. <<users[i].issuer, users[i].sub>> # <<users[j].issuer, users[j].sub>>
        BY <1>1, <3>4 DEF Distinct
      <4>3. ~(i \in Rebindable(who) /\ j \in Rebindable(who))
        BY <1>6, <4>1
      <4>4. \A k \in DOMAIN users : k \notin Rebindable(who) =>
               <<users[k].issuer, users[k].sub>> # <<who.issuer, who.sub>>
        BY <1>6, <2>2
      <4>5. QED
        BY <3>2, <4>1, <4>2, <4>3, <4>4
    <3>5. Distinct(users')
      BY <3>1, <3>4 DEF Distinct
    <3>6. QED
      BY <1>4, <2>2, <3>1, <3>2, <3>3, <3>5 DEF Kept
  <2>3. CASE users' = users /\ Finish(r) /\ locked' \in {None, On[r]}
    BY <1>4, <1>5, <1>8, <2>3
  <2>4. QED
    BY <1>3, <1>9, <2>1, <2>2, <2>3 DEF InsertUser
<1>10. CASE RefreshUser(r)
  <2>1. locked' = None
    BY <1>10 DEF RefreshUser
  <2>2. CASE users' = users /\ Finish(r)
    BY <1>4, <1>5, <2>1, <2>2
  <2>3. CASE /\ Holder(who.issuer, who.sub) # {} =>
                    HoldersOf(who.email) \subseteq Holder(who.issuer, who.sub)
             /\ users' = [i \in DOMAIN users |->
                 IF i \in Holder(who.issuer, who.sub) THEN [users[i] EXCEPT !.email = who.email]
                 ELSE users[i]]
             /\ Goto(r, "row")
    <3>1. DOMAIN users' = DOMAIN users /\ users' = [i \in DOMAIN users |-> users'[i]]
      BY <2>3
    <3>2. ASSUME NEW i \in DOMAIN users
          PROVE  /\ users'[i] \in Accounts
                 /\ users'[i].issuer = users[i].issuer /\ users'[i].sub = users[i].sub
                 /\ i \notin Holder(who.issuer, who.sub) => users'[i] = users[i]
                 /\ i \in Holder(who.issuer, who.sub) => users'[i].email = who.email
      <4>1. CASE i \in Holder(who.issuer, who.sub)
        <5>1. users'[i] = [users[i] EXCEPT !.email = who.email]
          BY <2>3, <4>1
        <5>2. QED
          BY <1>3, <1>7, <4>1, <5>1 DEF Accounts
      <4>2. CASE i \notin Holder(who.issuer, who.sub)
        BY <1>7, <2>3, <4>2
      <4>3. QED
        BY <4>1, <4>2
    <3>3. users' \in Seq(Accounts)
      BY <1>1, <3>1, <3>2, Rewritten
    <3>4. ASSUME NEW i \in DOMAIN users, NEW j \in DOMAIN users, i # j
          PROVE  /\ users'[i].email # users'[j].email
                 /\ <<users'[i].issuer, users'[i].sub>> # <<users'[j].issuer, users'[j].sub>>
      <4>1. users[i].email # users[j].email
        BY <1>1, <3>4 DEF Distinct
      <4>2. <<users[i].issuer, users[i].sub>> # <<users[j].issuer, users[j].sub>>
        BY <1>1, <3>4 DEF Distinct
      <4>3. ~(i \in Holder(who.issuer, who.sub) /\ j \in Holder(who.issuer, who.sub))
        BY <1>6, <4>2
      <4>4. \A k \in DOMAIN users :
               Holder(who.issuer, who.sub) # {} /\ k \notin Holder(who.issuer, who.sub) =>
                   users[k].email # who.email
        BY <1>6, <2>3
      <4>5. QED
        BY <3>2, <4>1, <4>2, <4>3, <4>4
    <3>5. Distinct(users')
      BY <3>1, <3>4 DEF Distinct
    <3>6. QED
      BY <1>4, <2>1, <2>3, <3>1, <3>2, <3>3, <3>5 DEF Kept
  <2>4. QED
    BY <1>3, <1>10, <2>2, <2>3 DEF RefreshUser
<1>11. QED
  BY <1>9, <1>10 DEF UpsertUser

-----------------------------------------------------------------------------
(* The whitelist.                                                          *)

\* What is known of a copy, a file and a refresh does not depend on the accounts.
LEMMA Unchanged ==
    ASSUME Inv, UNCHANGED Whitelist
    PROVE  FetchesOK' /\ FileOK' /\ CopiesOK'
BY DEF Inv, Whitelist, FetchesOK, FileOK, CopiesOK, Sourced, Fresh

\* A request that moves, or none, leaves the refreshes with their requests.
LEMMA Remaining ==
    ASSUME Inv, NEW r \in Requests, Moves(r),
           \A w \in Watched : fetch'[w] = fetch[w] \/ (w = On[r] /\ req[r].pc = "fetch")
    PROVE  Fetching'
<1>1. SUFFICES ASSUME NEW q \in Requests, req'[q].pc = "fetch"
               PROVE  On[q] \in Watched /\ fetch'[On[q]] # None /\ fetch'[On[q]].by = q
  BY DEF Fetching
<1>2. q # r /\ req[q].pc = "fetch"
  BY <1>1 DEF Moves
<1>3. On[q] \in Watched /\ fetch[On[q]] # None /\ fetch[On[q]].by = q
  BY <1>2 DEF Inv, Fetching
<1>4. ~(On[q] = On[r] /\ req[r].pc = "fetch")
  BY <1>2, <1>3 DEF Inv, Fetching
<1>5. QED
  BY <1>3, <1>4

\* A step of a request that leaves the whitelist alone.
LEMMA QuietStep ==
    ASSUME Inv, NEW r \in Requests, UNCHANGED Whitelist, Moves(r),
           Kept \/ users' = users, locked' \in Workers \cup {None}
    PROVE  Inv'
<1>1. users' \in Seq(Accounts) /\ Distinct(users')
  BY DEF Inv, Typed, Kept
<1>2. Typed'
  BY <1>1 DEF Inv, Typed, Moves, Whitelist
<1>3. Fetching'
  BY Remaining DEF Whitelist
<1>4. QED
  BY <1>1, <1>2, <1>3, Unchanged DEF Inv

\* The steps of a request on the way to its account, and the requests themselves.
LEMMA AccountSteps ==
    ASSUME Inv, NEW r \in Requests,
           \/ SelectUser(r) \/ UpsertUser(r) \/ SignSession(r) \/ GiveUp(r) \/ Served(r)
           \/ \E who \in Presents[r] : StartSignIn(r, who)
           \/ \E i \in DOMAIN users : UseToken(r, i)
    PROVE  Inv'
<1>1. Typed /\ req \in [Requests -> Fit] /\ req[r] \in Fit /\ locked \in Workers \cup {None}
  BY DEF Inv, Typed
<1>2. CASE UpsertUser(r)
  BY <1>2, Upserting, QuietStep DEF UpsertUser
<1>3. CASE SignSession(r) \/ GiveUp(r) \/ Served(r)
  <2>1. Finish(r) /\ UNCHANGED Whitelist /\ users' = users /\ locked' = locked
    BY <1>3 DEF SignSession, GiveUp, Served
  <2>2. QED
    BY <1>1, <2>1, Moving, QuietStep
<1>4. CASE SelectUser(r)
  <2>1. PICK n \in Nat : req' = [req EXCEPT ![r].pc = "upsert", ![r].user = n]
    BY <1>4 DEF SelectUser
  <2>2. req[r].op = "signin"
    BY <1>1, <1>4 DEF SelectUser, Fit
  <2> DEFINE q == [req[r] EXCEPT !.pc = "upsert", !.user = n]
  <2>3. q \in Fit /\ q.pc = "upsert"
    BY <1>1, <2>2 DEF Fit, ReqRecord
  <2>4. req' = [req EXCEPT ![r] = q]
    BY <1>1, <2>1
  <2> HIDE DEF q
  <2>5. Moves(r)
    BY <1>1, <2>3, <2>4, Moving
  <2>6. UNCHANGED Whitelist /\ users' = users /\ locked' = locked
    BY <1>4 DEF SelectUser
  <2>7. QED
    BY <1>1, <2>5, <2>6, QuietStep
<1>5. CASE \E who \in Presents[r] : StartSignIn(r, who)
  <2>1. PICK who \in Presents[r] : StartSignIn(r, who)
    BY <1>5
  <2>2. who \in Identities
    BY SignInAssumption
  <2> DEFINE q == [op |-> "signin", pc |-> "gate", who |-> who, user |-> 0]
  <2>3. q \in Fit /\ q.pc = "gate"
    BY <2>2 DEF Fit, ReqRecord
  <2>4. req' = [req EXCEPT ![r] = q]
    BY <2>1 DEF StartSignIn
  <2> HIDE DEF q
  <2>5. Moves(r)
    BY <1>1, <2>3, <2>4, Moving
  <2>6. UNCHANGED Whitelist /\ users' = users /\ locked' = locked
    BY <2>1 DEF StartSignIn
  <2>7. QED
    BY <1>1, <2>5, <2>6, QuietStep
<1>6. CASE \E i \in DOMAIN users : UseToken(r, i)
  <2>1. PICK i \in DOMAIN users : UseToken(r, i)
    BY <1>6
  <2>2. i \in Nat
    BY DEF Inv, Typed
  <2> DEFINE q == [op |-> "use", pc |-> "gate", who |-> None, user |-> i]
  <2>3. q \in Fit /\ q.pc = "gate"
    BY <2>2 DEF Fit, ReqRecord
  <2>4. req' = [req EXCEPT ![r] = q]
    BY <2>1 DEF UseToken
  <2> HIDE DEF q
  <2>5. Moves(r)
    BY <1>1, <2>3, <2>4, Moving
  <2>6. UNCHANGED Whitelist /\ users' = users /\ locked' = locked
    BY <2>1 DEF UseToken
  <2>7. QED
    BY <1>1, <2>5, <2>6, QuietStep
<1>7. QED
  BY <1>2, <1>3, <1>4, <1>5, <1>6

\* The ticks that the copies and the file may name.
LEMMA Ticks ==
    ASSUME Inv
    PROVE  /\ now \in Nat /\ now \in Times /\ now + 1 \in Times
           /\ \A t \in 0..now : t \in Nat /\ NextRefresh(t) \in Times /\ t \in Times
           /\ Times \subseteq Nat
<1>1. /\ now \in Nat /\ now <= MaxTime /\ MaxTime \in Nat /\ Window \in Nat /\ Window >= 1
  BY SignInAssumption DEF Inv, Typed
<1>2. ASSUME NEW t \in 0..now
      PROVE  NextRefresh(t) \in Nat /\ NextRefresh(t) <= MaxTime + Window
  <2>1. t \in Nat /\ t <= MaxTime
    BY <1>1
  <2>2. Span(t) \in Nat /\ Span(t) <= t /\ NextRefresh(t) \in Nat /\ NextRefresh(t) = Span(t) + Window
    BY <2>1, Windows
  <2>3. QED
    BY <1>1, <2>1, <2>2
<1>3. QED
  BY <1>1, <1>2 DEF Times

\* A list that is the document is sourced in any window.
LEMMA Listed ==
    ASSUME NEW start
    PROVE  Sourced(listed, start, listed, gone)
BY DEF Sourced

\* _current: the gate answers from a copy, refuses or begins a refresh.
LEMMA GateStep ==
    ASSUME Inv, NEW r \in Requests, Gate(r)
    PROVE  Inv'
<1>1. /\ Typed /\ Distinct(users) /\ Fetching /\ FetchesOK /\ FileOK /\ CopiesOK
      /\ req \in [Requests -> Fit] /\ req[r] \in Fit /\ req[r].pc = "gate"
      /\ fetch \in [Watched -> FetchRecord \cup {None}]
  BY DEF Inv, Typed, Gate
<1>2. /\ users' = users /\ now' = now /\ listed' = listed /\ gone' = gone /\ file' = file
      /\ locked' = locked
  BY DEF Gate
<1>3. CASE (Pass(r) \/ Finish(r)) /\ cache' = cache /\ fetch' = fetch
  <2>1. UNCHANGED Whitelist
    BY <1>2, <1>3 DEF Whitelist
  <2>2. QED
    BY <1>1, <1>2, <1>3, <2>1, Moving, QuietStep DEF Typed
<1>4. CASE Refresh(r) /\ fetch[On[r]] = None /\ On[r] \in Watched
  <2> DEFINE f == [by |-> r, list |-> listed, since |-> now]
  <2>1. /\ f \in FetchRecord /\ f.by = r /\ f.list = listed /\ f.since = now
        /\ f \in [by : Requests, list : SUBSET Emails, since : Nat]
    BY <1>1, Ticks DEF FetchRecord, Typed
  <2>2. fetch' = [fetch EXCEPT ![On[r]] = f] /\ cache' = cache /\ Goto(r, "fetch")
    BY <1>4 DEF Refresh
  <2>3. f # None
    BY <2>1, SignInAssumption
  <2> HIDE DEF f
  <2>4. fetch' \in [Watched -> FetchRecord \cup {None}] /\ fetch'[On[r]] = f
    BY <1>1, <1>4, <2>1, <2>2
  <2>5. \A w \in Watched \ {On[r]} : fetch'[w] = fetch[w]
    BY <1>1, <2>2
  <2>6. /\ req' \in [Requests -> Fit] /\ req'[r].pc = "fetch"
        /\ \A q \in Requests \ {r} : req'[q] = req[q]
    BY <1>1, <2>2, Requesting DEF Goto
  <2>7. Typed'
    BY <1>1, <1>2, <2>2, <2>4, <2>6 DEF Typed
  <2>8. Fetching'
    <3>1. SUFFICES ASSUME NEW q \in Requests, req'[q].pc = "fetch"
                   PROVE  On[q] \in Watched /\ fetch'[On[q]] # None /\ fetch'[On[q]].by = q
      BY DEF Fetching
    <3>2. CASE q = r
      BY <1>4, <2>1, <2>3, <2>4, <3>2
    <3>3. CASE q # r
      <4>1. On[q] \in Watched /\ fetch[On[q]] # None /\ fetch[On[q]].by = q
        BY <1>1, <2>6, <3>1, <3>3 DEF Fetching
      <4>2. QED
        BY <1>4, <2>5, <4>1
    <3>4. QED
      BY <3>2, <3>3
  <2>9. FetchesOK'
    <3>1. SUFFICES ASSUME NEW w \in Watched, fetch'[w] # None
                   PROVE  /\ fetch'[w].since <= now' /\ now' <= fetch'[w].since + 1
                          /\ Sourced(fetch'[w].list, fetch'[w].since + 1, listed', gone')
      BY DEF FetchesOK
    <3>2. CASE w = On[r]
      BY <1>2, <2>1, <2>4, <3>2, Ticks DEF Sourced
    <3>3. CASE w # On[r]
      BY <1>1, <1>2, <2>5, <3>1, <3>3 DEF FetchesOK, Sourced
    <3>4. QED
      BY <3>2, <3>3
  <2>10. FileOK' /\ CopiesOK'
    BY <1>1, <1>2, <2>2 DEF FileOK, CopiesOK, Sourced, Fresh
  <2>11. QED
    BY <1>1, <1>2, <2>7, <2>8, <2>9, <2>10 DEF Inv
<1>5. QED
  BY <1>3, <1>4 DEF Gate, Answered, Refused

\* A worker that is not followed may replace the file with the document.
LEMMA GateElsewhereStep ==
    ASSUME Inv, NEW r \in Requests, GateElsewhere(r)
    PROVE  Inv'
<1>1. /\ Typed /\ Distinct(users) /\ FetchesOK /\ FileOK /\ CopiesOK
  BY DEF Inv
<1>2. /\ users' = users /\ now' = now /\ listed' = listed /\ gone' = gone /\ cache' = cache
      /\ fetch' = fetch /\ locked' = locked
  BY DEF GateElsewhere
<1>3. Moves(r)
  BY <1>1, Moving DEF GateElsewhere
<1>4. Fetching'
  BY <1>2, <1>3, Remaining
<1> DEFINE f == [list |-> listed, mtime |-> now]
<1>5. f \in [list : SUBSET Emails, mtime : Times] /\ f.list = listed /\ f.mtime = now
  BY <1>1, Ticks DEF Typed
<1>6. file' = file \/ file' = f
  BY DEF GateElsewhere
<1> HIDE DEF f
<1>7. file' \in [list : SUBSET Emails, mtime : Times] \cup {None}
  BY <1>1, <1>5, <1>6 DEF Typed
<1>8. Typed'
  BY <1>1, <1>2, <1>3, <1>7 DEF Typed, Moves
<1>9. FileOK'
  <2>1. CASE file' = file
    BY <1>1, <1>2, <2>1 DEF FileOK, Sourced
  <2>2. CASE file' = f
    BY <1>2, <1>5, <2>2, Ticks DEF FileOK, Sourced
  <2>3. QED
    BY <1>6, <2>1, <2>2
<1>10. FetchesOK' /\ CopiesOK'
  BY <1>1, <1>2 DEF FetchesOK, CopiesOK, Sourced, Fresh
<1>11. QED
  BY <1>1, <1>2, <1>4, <1>8, <1>9, <1>10 DEF Inv

\* A list that is sourced from a moment is sourced from every earlier one.
LEMMA Earlier ==
    ASSUME Inv, NEW list \in SUBSET Emails, NEW s \in Nat, NEW t \in Nat, t <= s,
           Sourced(list, s, listed, gone)
    PROVE  Sourced(list, t, listed, gone)
<1>1. \A e \in Emails : gone[e] # None => gone[e] \in Nat
  BY Ticks DEF Inv, Typed
<1>2. QED
  BY <1>1 DEF Sourced

\* The file is not younger than the present.
LEMMA Filed ==
    ASSUME Inv, file # None
    PROVE  /\ file.list \in SUBSET Emails /\ file.mtime \in 0..now
           /\ Sourced(file.list, Span(file.mtime), listed, gone)
<1>1. file \in [list : SUBSET Emails, mtime : Times]
  BY DEF Inv, Typed
<1>2. file.list \in SUBSET Emails /\ file.mtime \in Nat
  BY <1>1, Ticks
<1>3. file.mtime <= now /\ Sourced(file.list, Span(file.mtime), listed, gone)
  BY DEF Inv, FileOK
<1>4. QED
  BY <1>2, <1>3, Ticks

\* The end of a refresh: the document of the fetch, or the one of its end.
LEMMA FetchSucceedsStep ==
    ASSUME Inv, NEW r \in Requests, FetchSucceeds(r)
    PROVE  Inv'
<1>1. /\ Typed /\ Distinct(users) /\ Fetching /\ FetchesOK /\ FileOK /\ CopiesOK
      /\ req[r].pc = "fetch" /\ cache \in [Watched -> Copy]
      /\ fetch \in [Watched -> FetchRecord \cup {None}]
  BY DEF Inv, Typed, FetchSucceeds
<1>2. On[r] \in Watched /\ fetch[On[r]] # None
  BY <1>1 DEF Fetching
<1>3. PICK w \in Watched : w = On[r]
  BY <1>2
<1>4. PICK list \in {fetch[w].list, listed} :
         /\ cache' = [cache EXCEPT ![w].list = list, ![w].loaded = TRUE,
                                   ![w].next = NextRefresh(now)]
         /\ file' \in {file, [list |-> list, mtime |-> now]}
         /\ IF Asked(r)[1] \in list THEN Pass(r) ELSE Finish(r)
  BY <1>3 DEF FetchSucceeds
<1>5. /\ fetch' = [fetch EXCEPT ![w] = None]
      /\ users' = users /\ now' = now /\ listed' = listed /\ gone' = gone /\ locked' = locked
  BY <1>3 DEF FetchSucceeds
<1>6. Moves(r)
  BY <1>1, <1>4, Moving
<1>7. fetch' \in [Watched -> FetchRecord \cup {None}] /\ fetch'[w] = None
      /\ \A v \in Watched \ {w} : fetch'[v] = fetch[v]
  BY <1>1, <1>5
<1>8. Fetching'
  BY <1>1, <1>3, <1>6, <1>7, Remaining
<1>9. list \in SUBSET Emails /\ Sourced(list, Span(now), listed, gone)
  <2>1. CASE list = listed
    BY <1>1, <2>1, Listed DEF Typed
  <2>2. CASE list = fetch[w].list
    <3>1. /\ fetch[w] \in FetchRecord /\ fetch[w].since <= now /\ now <= fetch[w].since + 1
          /\ Sourced(fetch[w].list, fetch[w].since + 1, listed, gone)
      BY <1>1, <1>2, <1>3 DEF FetchesOK
    <3>2. fetch[w].list \in SUBSET Emails /\ fetch[w].since \in Nat
      BY <3>1, Ticks DEF FetchRecord
    <3>3. Span(now) \in Nat /\ Span(now) <= now /\ now \in Nat
      BY Ticks, Windows
    <3>4. Span(now) <= fetch[w].since + 1 /\ fetch[w].since + 1 \in Nat
      BY <3>1, <3>2, <3>3
    <3>5. QED
      BY <2>2, <3>1, <3>2, <3>3, <3>4, Earlier
  <2>3. QED
    BY <2>1, <2>2
<1>10. now \in 0..now /\ NextRefresh(now) \in Times /\ now \in Times
  BY Ticks
<1> DEFINE c == [cache[w] EXCEPT !.list = list, !.loaded = TRUE, !.next = NextRefresh(now)]
<1>11. c \in Copy /\ c.list = list /\ c.next = NextRefresh(now) /\ c.loaded = TRUE
  BY <1>1, <1>9, <1>10 DEF Copy
<1>12. cache' = [cache EXCEPT ![w] = c]
  BY <1>1, <1>4
<1> HIDE DEF c
<1>13. cache' \in [Watched -> Copy] /\ cache'[w] = c /\ \A v \in Watched \ {w} : cache'[v] = cache[v]
  BY <1>1, <1>11, <1>12
<1> DEFINE f == [list |-> list, mtime |-> now]
<1>14. f \in [list : SUBSET Emails, mtime : Times] /\ f.list = list /\ f.mtime = now
  BY <1>9, <1>10
<1>15. file' = file \/ file' = f
  BY <1>4
<1> HIDE DEF f
<1>16. file' \in [list : SUBSET Emails, mtime : Times] \cup {None}
  BY <1>1, <1>14, <1>15 DEF Typed
<1>17. Typed'
  BY <1>1, <1>5, <1>6, <1>7, <1>13, <1>16 DEF Typed, Moves
<1>18. FetchesOK'
  BY <1>1, <1>5, <1>7 DEF FetchesOK
<1>19. FileOK'
  <2>1. CASE file' = file
    BY <1>1, <1>5, <2>1 DEF FileOK
  <2>2. CASE file' = f
    BY <1>5, <1>9, <1>14, <2>2, Ticks DEF FileOK
  <2>3. QED
    BY <1>15, <2>1, <2>2
<1>20. CopiesOK'
  <2>1. SUFFICES ASSUME NEW v \in Watched, Fresh(v)'
                 PROVE  \E t \in 0..now' : cache'[v].next = NextRefresh(t)
                                           /\ Sourced(cache'[v].list, Span(t), listed', gone')
    BY DEF CopiesOK
  <2>2. CASE v = w
    BY <1>5, <1>9, <1>10, <1>11, <1>13, <2>2
  <2>3. CASE v # w
    <3>1. Fresh(v)
      BY <1>5, <1>13, <2>1, <2>3 DEF Fresh
    <3>2. QED
      BY <1>1, <1>5, <1>13, <2>3, <3>1 DEF CopiesOK
  <2>4. QED
    BY <2>2, <2>3
<1>21. QED
  BY <1>1, <1>5, <1>8, <1>17, <1>18, <1>19, <1>20 DEF Inv

\* A refresh that fails only begins the cooldown.
LEMMA FetchFailsStep ==
    ASSUME Inv, NEW r \in Requests, FetchFails(r)
    PROVE  Inv'
<1>1. /\ Typed /\ Distinct(users) /\ Fetching /\ FetchesOK /\ FileOK /\ CopiesOK
      /\ req[r].pc = "fetch" /\ cache \in [Watched -> Copy]
      /\ fetch \in [Watched -> FetchRecord \cup {None}]
  BY DEF Inv, Typed, FetchFails
<1>2. PICK w \in Watched : w = On[r]
  BY <1>1 DEF Fetching
<1>3. /\ cache' = [cache EXCEPT ![w].retry = now + 1] /\ fetch' = [fetch EXCEPT ![w] = None]
      /\ users' = users /\ now' = now /\ listed' = listed /\ gone' = gone /\ locked' = locked
      /\ file' = file /\ Finish(r)
  BY <1>2 DEF FetchFails
<1>4. Moves(r)
  BY <1>1, <1>3, Moving
<1>5. fetch' \in [Watched -> FetchRecord \cup {None}] /\ fetch'[w] = None
      /\ \A v \in Watched \ {w} : fetch'[v] = fetch[v]
  BY <1>1, <1>3
<1>6. Fetching'
  BY <1>1, <1>2, <1>4, <1>5, Remaining
<1> DEFINE c == [cache[w] EXCEPT !.retry = now + 1]
<1>7. /\ c \in Copy /\ c.list = cache[w].list /\ c.next = cache[w].next
      /\ c.loaded = cache[w].loaded
  BY <1>1, Ticks DEF Copy
<1>8. cache' = [cache EXCEPT ![w] = c]
  BY <1>1, <1>3
<1> HIDE DEF c
<1>9. cache' \in [Watched -> Copy] /\ cache'[w] = c /\ \A v \in Watched \ {w} : cache'[v] = cache[v]
  BY <1>1, <1>7, <1>8
<1>10. Typed'
  BY <1>1, <1>3, <1>4, <1>5, <1>9 DEF Typed, Moves
<1>11. FetchesOK' /\ FileOK'
  BY <1>1, <1>3, <1>5 DEF FetchesOK, FileOK
<1>12. CopiesOK'
  <2>1. \A v \in Watched : /\ cache'[v].list = cache[v].list /\ cache'[v].next = cache[v].next
                           /\ cache'[v].loaded = cache[v].loaded
    BY <1>7, <1>9
  <2>2. QED
    BY <1>1, <1>3, <2>1 DEF CopiesOK, Fresh
<1>13. QED
  BY <1>1, <1>3, <1>6, <1>10, <1>11, <1>12 DEF Inv

\* A worker that starts again has the copy of the file, within the window of its age.
LEMMA RestartStep ==
    ASSUME Inv, NEW w \in Workers, Restart(w)
    PROVE  Inv'
<1>1. /\ Typed /\ Distinct(users) /\ Fetching /\ FetchesOK /\ FileOK /\ CopiesOK
      /\ cache \in [Watched -> Copy] /\ fetch \in [Watched -> FetchRecord \cup {None}]
      /\ req \in [Requests -> Fit] /\ locked \in Workers \cup {None}
  BY DEF Inv, Typed
<1>2. /\ cache' = [v \in Watched |-> IF v = w THEN Seed(w) ELSE cache[v]]
      /\ fetch' = [v \in Watched |-> IF v = w THEN None ELSE fetch[v]]
      /\ req' = [r \in Requests |-> IF On[r] = w THEN Idle ELSE req[r]]
      /\ locked' = (IF locked = w THEN None ELSE locked)
      /\ users' = users /\ now' = now /\ listed' = listed /\ gone' = gone /\ file' = file
  BY DEF Restart
<1>3. now \in Nat /\ now \in Times /\ Times \subseteq Nat /\ 0 \in Times /\ NextRefresh(now) \in Times
  BY Ticks DEF Times
<1>4. Seed(w) \in Copy
  <2>1. CASE file = None
    BY <1>3, <2>1 DEF Seed, Cold, Copy
  <2>2. CASE file # None
    <3>1. /\ file.list \in SUBSET Emails /\ file.mtime \in 0..now
      BY <2>2, Filed
    <3>2. NextRefresh(file.mtime) \in Times
      BY <3>1, Ticks
    <3>3. PICK n \in Times : n = IF NextRefresh(file.mtime) > now THEN NextRefresh(file.mtime) ELSE now
      BY <1>3, <3>2
    <3>4. Seed(w) = [list |-> file.list, loaded |-> TRUE, retry |-> 0, next |-> n]
      BY <2>2, <3>3 DEF Seed
    <3>5. QED
      BY <1>3, <3>1, <3>4 DEF Copy
  <2>3. QED
    BY <2>1, <2>2
<1>5. ASSUME Seed(w).loaded, now < Seed(w).next
      PROVE  \E t \in 0..now : Seed(w).next = NextRefresh(t)
                               /\ Sourced(Seed(w).list, Span(t), listed, gone)
  <2>1. file # None
    BY <1>5 DEF Seed, Cold
  <2>2. file.mtime \in 0..now /\ Sourced(file.list, Span(file.mtime), listed, gone)
    BY <2>1, Filed
  <2>3. Seed(w).list = file.list /\
        Seed(w).next = IF NextRefresh(file.mtime) > now THEN NextRefresh(file.mtime) ELSE now
    BY <2>1 DEF Seed
  <2>4. Seed(w).next = NextRefresh(file.mtime)
    BY <1>3, <1>5, <2>3
  <2>5. QED
    BY <2>2, <2>3, <2>4
<1>6. cache' \in [Watched -> Copy] /\ fetch' \in [Watched -> FetchRecord \cup {None}]
  BY <1>1, <1>2, <1>4
<1>7. req' \in [Requests -> Fit]
  BY <1>1, <1>2, Requesting
<1>8. Typed'
  BY <1>1, <1>2, <1>6, <1>7 DEF Typed
<1>9. Fetching'
  <2>1. SUFFICES ASSUME NEW q \in Requests, req'[q].pc = "fetch"
                 PROVE  On[q] \in Watched /\ fetch'[On[q]] # None /\ fetch'[On[q]].by = q
    BY DEF Fetching
  <2>2. On[q] # w /\ req'[q] = req[q]
    BY <1>2, <2>1, Requesting
  <2>3. QED
    BY <1>1, <1>2, <2>1, <2>2 DEF Fetching
<1>10. FetchesOK'
  BY <1>1, <1>2 DEF FetchesOK
<1>11. FileOK'
  BY <1>1, <1>2 DEF FileOK
<1>12. CopiesOK'
  <2>1. SUFFICES ASSUME NEW v \in Watched, Fresh(v)'
                 PROVE  \E t \in 0..now' : cache'[v].next = NextRefresh(t)
                                           /\ Sourced(cache'[v].list, Span(t), listed', gone')
    BY DEF CopiesOK
  <2>2. CASE v = w
    <3>1. cache'[v] = Seed(w)
      BY <1>2, <2>2
    <3>2. Seed(w).loaded /\ now < Seed(w).next
      BY <1>2, <2>1, <3>1 DEF Fresh
    <3>3. QED
      BY <1>2, <1>5, <3>1, <3>2
  <2>3. CASE v # w
    <3>1. cache'[v] = cache[v]
      BY <1>2, <2>3
    <3>2. Fresh(v)
      BY <1>2, <2>1, <3>1 DEF Fresh
    <3>3. QED
      BY <1>1, <1>2, <3>1, <3>2 DEF CopiesOK
  <2>4. QED
    BY <2>2, <2>3
<1>13. QED
  BY <1>1, <1>2, <1>8, <1>9, <1>10, <1>11, <1>12 DEF Inv

\* An address that is taken off now was taken off in this window or later.
LEMMA EditStep ==
    ASSUME Inv, NEW e \in Changing, EditList(e)
    PROVE  Inv'
<1>1. /\ Typed /\ Distinct(users) /\ Fetching /\ FetchesOK /\ FileOK /\ CopiesOK
      /\ gone \in [Emails -> Times \cup {None}] /\ listed \subseteq Emails
  BY DEF Inv, Typed
<1>2. /\ users' = users /\ req' = req /\ now' = now /\ cache' = cache /\ fetch' = fetch
      /\ file' = file /\ locked' = locked
  BY DEF EditList
<1>3. e \in Emails /\ now \in Nat /\ now \in Times /\ now # None
  BY Ticks, SignInAssumption
<1>4. gone' \in [Emails -> Times \cup {None}] /\ listed' \subseteq Emails
  BY <1>1, <1>3 DEF EditList
<1>5. ASSUME NEW list \in SUBSET Emails, NEW s \in Nat, s <= now + 1, Sourced(list, s, listed, gone)
      PROVE  Sourced(list, s, listed', gone')
  <2>1. SUFFICES ASSUME NEW x \in list
                 PROVE  x \in listed' \/ (gone'[x] # None /\ gone'[x] + 1 >= s)
    BY DEF Sourced
  <2>2. CASE x # e
    BY <1>1, <1>5, <2>2 DEF EditList, Sourced
  <2>3. CASE x = e
    BY <1>1, <1>3, <1>5, <2>3 DEF EditList
  <2>4. QED
    BY <2>2, <2>3
<1>6. Typed'
  BY <1>1, <1>2, <1>4 DEF Typed
<1>7. Fetching'
  BY <1>1, <1>2 DEF Fetching
<1>8. FetchesOK'
  <2>1. SUFFICES ASSUME NEW w \in Watched, fetch[w] # None
                 PROVE  /\ fetch[w].since <= now /\ now <= fetch[w].since + 1
                        /\ Sourced(fetch[w].list, fetch[w].since + 1, listed', gone')
    BY <1>2 DEF FetchesOK
  <2>2. /\ fetch[w].since <= now /\ now <= fetch[w].since + 1
        /\ Sourced(fetch[w].list, fetch[w].since + 1, listed, gone)
    BY <1>1, <2>1 DEF FetchesOK
  <2>3. fetch[w].list \in SUBSET Emails /\ fetch[w].since \in Nat
    BY <1>1, <2>1, Ticks DEF Typed, FetchRecord
  <2>4. fetch[w].since + 1 \in Nat /\ fetch[w].since + 1 <= now + 1
    BY <1>3, <2>2, <2>3
  <2>5. QED
    BY <1>5, <2>2, <2>3, <2>4
<1>9. \A t \in 0..now : Span(t) \in Nat /\ Span(t) <= now + 1
  <2>1. TAKE t \in 0..now
  <2>2. t \in Nat /\ t <= now
    BY <1>3
  <2>3. Span(t) \in Nat /\ Span(t) <= t
    BY <2>2, Windows
  <2>4. QED
    BY <1>3, <2>2, <2>3
<1>10. FileOK'
  <2>1. SUFFICES ASSUME file # None
                 PROVE  file.mtime <= now /\ Sourced(file.list, Span(file.mtime), listed', gone')
    BY <1>2 DEF FileOK
  <2>2. file.mtime \in 0..now /\ file.list \in SUBSET Emails
    BY <2>1, Filed
  <2>3. file.mtime <= now /\ Sourced(file.list, Span(file.mtime), listed, gone)
    BY <1>1, <2>1 DEF FileOK
  <2>4. QED
    BY <1>5, <1>9, <2>2, <2>3
<1>11. CopiesOK'
  <2>1. SUFFICES ASSUME NEW w \in Watched, Fresh(w)
                 PROVE  \E t \in 0..now : cache[w].next = NextRefresh(t)
                                          /\ Sourced(cache[w].list, Span(t), listed', gone')
    BY <1>2 DEF CopiesOK, Fresh
  <2>2. PICK t \in 0..now : cache[w].next = NextRefresh(t)
                            /\ Sourced(cache[w].list, Span(t), listed, gone)
    BY <1>1, <2>1 DEF CopiesOK
  <2>3. cache[w].list \in SUBSET Emails
    BY <1>1 DEF Typed, Copy
  <2>4. QED
    BY <1>5, <1>9, <2>2, <2>3
<1>12. QED
  BY <1>1, <1>2, <1>6, <1>7, <1>8, <1>10, <1>11 DEF Inv

\* Time passes: a fetch under way has just begun, and a copy may run out.
LEMMA TickStep ==
    ASSUME Inv, Tick
    PROVE  Inv'
<1>1. /\ Typed /\ Distinct(users) /\ Fetching /\ FetchesOK /\ FileOK /\ CopiesOK
  BY DEF Inv
<1>2. /\ now < MaxTime /\ now' = now + 1 /\ \A w \in Watched : fetch[w] # None => fetch[w].since = now
      /\ users' = users /\ req' = req /\ listed' = listed /\ gone' = gone /\ cache' = cache
      /\ fetch' = fetch /\ file' = file /\ locked' = locked
  BY DEF Tick
<1>3. now \in Nat /\ Times \subseteq Nat /\ now' \in 0..MaxTime /\ 0..now \subseteq 0..now'
  BY <1>2, Ticks, SignInAssumption
<1>4. Typed'
  BY <1>1, <1>2, <1>3 DEF Typed
<1>5. Fetching'
  BY <1>1, <1>2 DEF Fetching
<1>6. FetchesOK'
  BY <1>1, <1>2, <1>3 DEF FetchesOK
<1>7. FileOK'
  <2>1. file # None => file.mtime \in Nat
    BY <1>1, <1>3 DEF Typed
  <2>2. QED
    BY <1>1, <1>2, <1>3, <2>1 DEF FileOK
<1>8. CopiesOK'
  <2>1. \A w \in Watched : cache[w].next \in Nat
    BY <1>1, <1>3 DEF Typed, Copy
  <2>2. \A w \in Watched : Fresh(w)' => Fresh(w)
    BY <1>2, <1>3, <2>1 DEF Fresh
  <2>3. QED
    BY <1>1, <1>2, <1>3, <2>2 DEF CopiesOK
<1>9. QED
  BY <1>1, <1>2, <1>4, <1>5, <1>6, <1>7, <1>8 DEF Inv

\* A write of the worker that left a transaction open commits it.
LEMMA CommitStep ==
    ASSUME Inv, NEW w \in Workers, CommitOpen(w)
    PROVE  Inv'
<1>1. locked' = None /\ users' = users /\ req' = req /\ UNCHANGED Whitelist
  BY DEF CommitOpen
<1>2. Typed' /\ Distinct(users') /\ Fetching'
  BY <1>1 DEF Inv, Typed, Fetching, Whitelist
<1>3. QED
  BY <1>1, <1>2, Unchanged DEF Inv

-----------------------------------------------------------------------------
(* The theorems.                                                           *)

\* The invariant holds before anyone has signed in.
LEMMA InvInit == Init => Inv
<1>1. SUFFICES ASSUME Init PROVE Inv
  OBVIOUS
<1>2. MaxTime \in Nat /\ Window \in Nat /\ Window >= 1 /\ Changing \subseteq Emails
  BY SignInAssumption
<1>3. NextRefresh(0) \in Times /\ 0 \in Times
  <2>1. Span(0) \in Nat /\ Span(0) <= 0 /\ NextRefresh(0) = Span(0) + Window
    BY Windows
  <2>2. QED
    BY <1>2, <2>1 DEF Times
<1>4. Cold(0) \in Copy /\ Cold(0).loaded = FALSE
  BY <1>3 DEF Cold, Copy
<1>5. users = <<>> /\ users \in Seq(Accounts) /\ DOMAIN users = {}
  BY <1>1 DEF Init
<1>6. req \in [Requests -> Fit] /\ \A r \in Requests : req[r].pc = "done"
  BY <1>1, Requesting DEF Init
<1>7. Typed
  BY <1>1, <1>2, <1>4, <1>5, <1>6 DEF Init, Typed
<1>8. Distinct(users) /\ Fetching
  BY <1>5, <1>6 DEF Distinct, Fetching
<1>9. FetchesOK /\ FileOK /\ CopiesOK
  BY <1>1, <1>4 DEF Init, FetchesOK, FileOK, CopiesOK, Fresh
<1>10. QED
  BY <1>7, <1>8, <1>9 DEF Inv

\* Every step preserves the invariant.
LEMMA InvNext == Inv /\ [Next]_vars => Inv'
<1>1. SUFFICES ASSUME Inv, [Next]_vars PROVE Inv'
  OBVIOUS
<1>2. CASE \E r \in Requests : Serve(r)
  <2>1. PICK r \in Requests : Serve(r)
    BY <1>2
  <2>2. CASE Gate(r) \/ GateElsewhere(r) \/ FetchSucceeds(r) \/ FetchFails(r)
    BY <1>1, <2>2, GateStep, GateElsewhereStep, FetchSucceedsStep, FetchFailsStep
  <2>3. CASE SelectUser(r) \/ UpsertUser(r) \/ SignSession(r) \/ GiveUp(r) \/ Served(r)
    BY <1>1, <2>3, AccountSteps
  <2>4. QED
    BY <2>1, <2>2, <2>3 DEF Serve
<1>3. CASE \E r \in Requests : \E who \in Presents[r] : StartSignIn(r, who)
  BY <1>1, <1>3, AccountSteps
<1>4. CASE \E r \in Requests, i \in DOMAIN users : UseToken(r, i)
  BY <1>1, <1>4, AccountSteps
<1>5. CASE \E w \in Workers : Restart(w) \/ CommitOpen(w)
  BY <1>1, <1>5, RestartStep, CommitStep
<1>6. CASE \E e \in Changing : EditList(e)
  BY <1>1, <1>6, EditStep
<1>7. CASE Tick
  BY <1>1, <1>7, TickStep
<1>8. CASE UNCHANGED vars
  BY <1>1, <1>8 DEF Inv, Typed, Fetching, FetchesOK, FileOK, CopiesOK, Fresh, vars
<1>9. QED
  BY <1>1, <1>2, <1>3, <1>4, <1>5, <1>6, <1>7, <1>8 DEF Next

\* The inductive invariant holds in every state of every behaviour.
THEOREM InvHolds == Spec => []Inv
BY InvInit, InvNext, PTL DEF Spec

\* The variables keep their types, and no two accounts ever share an address or a pair of
\* issuer and sub, however many workers sign their users in at the same time.
THEOREM TypesHold == Spec => []TypeOK
<1>1. Inv => TypeOK
  <2>1. SUFFICES ASSUME Inv PROVE TypeOK
    OBVIOUS
  <2>2. now \in Times
    BY <2>1, Ticks
  <2>3. req \in [Requests -> ReqRecord]
    BY <2>1 DEF Inv, Typed, Fit
  <2>4. QED
    BY <2>1, <2>2, <2>3 DEF Inv, Typed, Distinct, TypeOK, ReqRecord, FetchRecord, Copy
<1>2. QED
  BY <1>1, InvHolds, PTL

\* The accounts in one step: they keep their issuer.
LEMMA KeepsStep ==
    Inv /\ [Next]_vars => [\A i \in DOMAIN users : users'[i].issuer = users[i].issuer]_users
<1>1. SUFFICES ASSUME Inv, [Next]_vars, users' # users
               PROVE  \A i \in DOMAIN users : users'[i].issuer = users[i].issuer
  OBVIOUS
<1>2. PICK r \in Requests : UpsertUser(r)
  BY <1>1 DEF Next, Serve, Gate, GateElsewhere, FetchSucceeds, FetchFails, SelectUser, SignSession,
              GiveUp, Served, StartSignIn, UseToken, Restart, CommitOpen, EditList, Tick, vars
<1>3. QED
  BY <1>1, <1>2, Upserting DEF Kept

\* upsert_google_user: an account, with its role and its tokens, never moves to another
\* provider, whatever addresses and subs are vouched for.
THEOREM AccountsStay == Spec => AccountKeepsIssuer
BY InvHolds, KeepsStep, PTL DEF Spec, AccountKeepsIssuer

\* The gate in one step: whom the whitelist lets in.
Admits ==
    \A r \in Requests :
          /\ On[r] \in Watched
          /\ req[r].pc \in {"gate", "fetch"}
          /\ req'[r].pc \in {"select", "served"}
          /\ Asked(r) \notin Trusted
          => LET e == Asked(r)[1] IN
             e \in listed \/ (gone[e] # None /\ gone[e] + 1 >= WindowStart)

\* Only the gate of a request, or the end of its refresh, lets it in.
LEMMA Admission ==
    ASSUME Inv, Next, NEW r \in Requests, On[r] \in Watched,
           req[r].pc \in {"gate", "fetch"}, req'[r].pc \in {"select", "served"}
    PROVE  Gate(r) \/ FetchSucceeds(r)
<1>1. req \in [Requests -> Fit] /\ Idle.pc = "done"
  BY Requesting DEF Inv, Typed
<1>2. req'[r] # req[r] /\ req[r] # Idle /\ req'[r] # Idle
  BY <1>1
<1>3. \A q \in Requests : \A v : req' = [req EXCEPT ![q] = v] => q = r /\ req'[r] = v
  BY <1>1, <1>2
<1>4. \A q \in Requests : Finish(q) => FALSE
  BY <1>2, <1>3 DEF Finish
<1>5. \A q \in Requests : \A pc : Goto(q, pc) => q = r
  BY <1>3 DEF Goto
<1>6. CASE \E q \in Requests : Serve(q)
  <2>1. PICK q \in Requests : Serve(q)
    BY <1>6
  <2>2. CASE Gate(q)
    <3>1. q = r
      BY <1>4, <1>5, <2>2 DEF Gate, Answered, Refused, Refresh, Pass
    <3>2. QED
      BY <2>2, <3>1
  <2>3. CASE FetchSucceeds(q)
    <3>1. q = r
      BY <1>4, <1>5, <2>3 DEF FetchSucceeds, Pass
    <3>2. QED
      BY <2>3, <3>1
  <2>4. CASE GateElsewhere(q)
    <3>1. q = r
      BY <1>4, <1>5, <2>4 DEF GateElsewhere, Pass
    <3>2. QED
      BY <2>4, <3>1 DEF GateElsewhere
  <2>5. CASE FetchFails(q) \/ SignSession(q) \/ GiveUp(q) \/ Served(q)
    BY <1>4, <2>5 DEF FetchFails, SignSession, GiveUp, Served
  <2>6. CASE SelectUser(q)
    <3>1. q # r
      BY <2>6 DEF SelectUser
    <3>2. req'[r] = req[r]
      BY <1>1, <2>6, <3>1 DEF SelectUser
    <3>3. QED
      BY <1>2, <3>2
  <2>7. CASE UpsertUser(q)
    <3>1. q # r
      BY <2>7 DEF UpsertUser
    <3>2. QED
      BY <1>2, <2>7, <3>1, Upserting DEF Moves
  <2>8. QED
    BY <2>1, <2>2, <2>3, <2>4, <2>5, <2>6, <2>7 DEF Serve
<1>7. CASE \/ \E q \in Requests : \E who \in Presents[q] : StartSignIn(q, who)
           \/ \E q \in Requests, i \in DOMAIN users : UseToken(q, i)
  <2>1. PICK q \in Requests : req[q] = Idle /\ \E v : req' = [req EXCEPT ![q] = v]
    BY <1>7 DEF StartSignIn, UseToken
  <2>2. QED
    BY <1>2, <1>3, <2>1
<1>8. CASE \E w \in Workers : Restart(w) \/ CommitOpen(w)
  BY <1>2, <1>8 DEF Restart, CommitOpen
<1>9. CASE (\E e \in Changing : EditList(e)) \/ Tick
  BY <1>2, <1>9 DEF EditList, Tick
<1>10. QED
  BY <1>6, <1>7, <1>8, <1>9 DEF Next

\* A request that is let in is on the document, or left it within the window.
LEMMA AdmitsStep == Inv /\ [Next]_vars => [Admits]_vars
<1>1. SUFFICES ASSUME Inv, Next, NEW r \in Requests, On[r] \in Watched,
                      req[r].pc \in {"gate", "fetch"}, req'[r].pc \in {"select", "served"},
                      Asked(r) \notin Trusted
               PROVE  Asked(r)[1] \in listed
                      \/ (gone[Asked(r)[1]] # None /\ gone[Asked(r)[1]] + 1 >= WindowStart)
  BY DEF Admits
<1>2. /\ FetchesOK /\ CopiesOK /\ Fetching /\ WindowStart = Span(now) /\ Typed
      /\ req \in [Requests -> Fit] /\ Idle.pc = "done"
  BY <1>1, Requesting DEF Inv, Typed, WindowStart, Span
<1>3. PICK w \in Watched : w = On[r]
  BY <1>1
<1>4. ~Finish(r) /\ ~Goto(r, "fetch")
  <2>1. Finish(r) => req'[r].pc = "done"
    BY <1>2 DEF Finish
  <2>2. Goto(r, "fetch") => req'[r].pc = "fetch"
    BY <1>2, Requesting DEF Goto
  <2>3. QED
    BY <1>1, <2>1, <2>2
<1>5. ASSUME NEW list \in SUBSET Emails, NEW s \in Nat, Span(now) <= s, Span(now) \in Nat,
             Sourced(list, s, listed, gone), Asked(r)[1] \in list
      PROVE  Asked(r)[1] \in listed
             \/ (gone[Asked(r)[1]] # None /\ gone[Asked(r)[1]] + 1 >= WindowStart)
  <2>1. Sourced(list, Span(now), listed, gone)
    BY <1>1, <1>5, Earlier
  <2>2. QED
    BY <1>2, <1>5, <2>1 DEF Sourced
<1>6. CASE Gate(r)
  <2>1. ~IsFullAccess(Asked(r)[1], Asked(r)[2])
    <3>1. Asked(r) = <<Asked(r)[1], Asked(r)[2]>>
      BY DEF Asked
    <3>2. QED
      BY <1>1, <3>1 DEF IsFullAccess
  <2>2. Fresh(w) /\ Asked(r)[1] \in cache[w].list
    BY <1>3, <1>4, <1>6, <2>1 DEF Gate, Answered, Refused, Refresh
  <2>3. PICK t \in 0..now : cache[w].next = NextRefresh(t)
                            /\ Sourced(cache[w].list, Span(t), listed, gone)
    BY <1>2, <2>2 DEF CopiesOK
  <2>4. t \in Nat /\ now \in Nat /\ now < NextRefresh(t)
    BY <1>1, <2>2, <2>3, Ticks DEF Fresh
  <2>5. Span(now) <= Span(t) /\ Span(t) \in Nat /\ Span(now) \in Nat
    BY <2>4, Windows
  <2>6. cache[w].list \in SUBSET Emails
    BY <1>2 DEF Typed, Copy
  <2>7. QED
    BY <1>5, <2>2, <2>3, <2>5, <2>6
<1>7. CASE FetchSucceeds(r)
  <2>1. req[r].pc = "fetch" /\ fetch[w] # None
    BY <1>2, <1>3, <1>7 DEF FetchSucceeds, Fetching
  <2>2. PICK list \in {fetch[w].list, listed} : Asked(r)[1] \in list
    BY <1>3, <1>4, <1>7 DEF FetchSucceeds
  <2>3. CASE list = listed
    BY <2>2, <2>3
  <2>4. CASE list = fetch[w].list
    <3>1. /\ fetch[w] \in FetchRecord /\ fetch[w].since <= now /\ now <= fetch[w].since + 1
          /\ Sourced(fetch[w].list, fetch[w].since + 1, listed, gone)
      BY <1>2, <2>1 DEF FetchesOK, Typed
    <3>2. fetch[w].list \in SUBSET Emails /\ fetch[w].since \in Nat /\ now \in Nat
      BY <1>1, <3>1, Ticks DEF FetchRecord
    <3>3. Span(now) \in Nat /\ Span(now) <= now
      BY <3>2, Windows
    <3>4. Span(now) <= fetch[w].since + 1 /\ fetch[w].since + 1 \in Nat
      BY <3>1, <3>2, <3>3
    <3>5. QED
      BY <1>5, <2>2, <2>4, <3>1, <3>2, <3>3, <3>4
  <2>5. QED
    BY <2>2, <2>3, <2>4
<1>8. QED
  BY <1>1, <1>6, <1>7, Admission

\* SSOAllowlist: whoever is let in by the whitelist is on it, or was taken off no earlier
\* than one fetch before the present window began; no stale copy, old file or failed
\* refresh lets anyone in for longer.
THEOREM RemovedRefused == Spec => RemovedIsRefused
<1>1. [][Admits]_vars => RemovedIsRefused
  BY PTL DEF Admits, RemovedIsRefused
<1>2. QED
  BY <1>1, InvHolds, AdmitsStep, PTL DEF Spec
=============================================================================
