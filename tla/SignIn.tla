------------------------------- MODULE SignIn -------------------------------
(***************************************************************************)
(* Signing in and using a token: the sign-in policy, the accounts table    *)
(* and the SSO whitelist (api/auth.py, auth/signin_policy.py,              *)
(* auth/store.py, auth/allowlist.py, auth/dependencies.py).                *)
(*                                                                         *)
(* A worker process has one whitelist object with a lock around its        *)
(* refresh, and one store lock; several workers share the database and the *)
(* whitelist's cache file.  Time is counted in ticks, Window of them in a  *)
(* refresh interval; a fetch ends within a tick, by its deadline.          *)
(***************************************************************************)
EXTENDS Naturals, Sequences, FiniteSets

CONSTANTS
    Requests,    \* the browsers and clients, one request each at a time
    Workers,     \* the gateway processes
    On,          \* the worker that serves each request
    Identities,  \* what a provider may vouch for: issuer, sub and email
    Presents,    \* bound: the identities that sign in with each request
    Emails,      \* the addresses of the identities
    Trusted,     \* the full-access list: pairs of email and issuer
    Changing,    \* bound: the addresses that come and go on the whitelist
    Watched,     \* bound: the workers whose whitelist copy is followed
    Window,      \* ticks in a refresh interval
    MaxTime,     \* bound: ticks in all
    None         \* nothing read, no file, no fetch

ASSUME SignInAssumption ==
    /\ On \in [Requests -> Workers]
    /\ \A l \in Identities :
          /\ l = [issuer |-> l.issuer, sub |-> l.sub, email |-> l.email]
          /\ l.email \in Emails
    /\ Presents \in [Requests -> SUBSET Identities]
    /\ Changing \subseteq Emails
    /\ Watched \subseteq Workers
    /\ Window \in Nat \ {0} /\ MaxTime \in Nat
    /\ None \notin Workers \cup Nat
    /\ None \notin [by : Requests, list : SUBSET Emails, since : Nat]

Issuers == {l.issuer : l \in Identities}
Subs == {l.sub : l \in Identities}
Times == 0..(MaxTime + Window)

VARIABLES
    users,     \* the users table, by id
    req,       \* the request under way
    now,       \* the time
    listed,    \* the addresses the whitelist document holds
    gone,      \* when an address was last taken off it
    cache,     \* each worker's copy of the document
    fetch,     \* the refresh each worker has under way, or None
    file,      \* the cache file
    locked     \* the worker that left a write transaction open, or None

vars == <<users, req, now, listed, gone, cache, fetch, file, locked>>

Accounts == [issuer : Issuers, sub : Subs, email : Emails]

\* A request at "gate" waits for the whitelist's answer about its address; one
\* at "upsert" or "row" is inside upsert_google_user.
Idle == [op |-> "idle", pc |-> "done", who |-> None, user |-> 0]

NextRefresh(t) == ((t \div Window) + 1) * Window

Cold(t) == [list |-> {}, loaded |-> FALSE, next |-> NextRefresh(t), retry |-> 0]

Init ==
    /\ users = <<>>
    /\ req = [r \in Requests |-> Idle]
    /\ now = 0
    /\ listed \in {Emails, Emails \ Changing}
    /\ gone = [e \in Emails |-> None]
    /\ cache = [w \in Watched |-> Cold(0)]
    /\ fetch = [w \in Watched |-> None]
    /\ file = None
    /\ locked = None

Whitelist == <<now, listed, gone, cache, fetch, file>>

Finish(r) == req' = [req EXCEPT ![r] = Idle]
Goto(r, pc) == req' = [req EXCEPT ![r].pc = pc]

-----------------------------------------------------------------------------
(* The whitelist of a worker.                                              *)

Fresh(w) == cache[w].loaded /\ now < cache[w].next

Cooling(w) == now < cache[w].retry

\* is_full_access: the trust list is keyed by email and issuer.
IsFullAccess(email, issuer) == <<email, issuer>> \in Trusted

\* The address and issuer the gate is asked about: those vouched for at
\* sign-in, those of the token's account at use.
Asked(r) ==
    IF req[r].op = "signin" THEN <<req[r].who.email, req[r].who.issuer>>
    ELSE <<users[req[r].user].email, users[req[r].user].issuer>>

\* check_signin_policy goes on to the store, _authenticate to the request.
Pass(r) == Goto(r, IF req[r].op = "signin" THEN "select" ELSE "served")

\* enforce_allowlist answers from the copy while it is fresh.
Answered(r) ==
    /\ Fresh(On[r])
    /\ IF Asked(r)[1] \in cache[On[r]].list THEN Pass(r) ELSE Finish(r)
    /\ UNCHANGED <<cache, fetch>>

\* _current: a copy past its window is refused during the cooldown of a failed
\* refresh, and refreshed otherwise; who finds the lock held looks again when
\* it is free.
Refused(r) ==
    /\ ~Fresh(On[r])
    /\ Cooling(On[r])
    /\ Finish(r)
    /\ UNCHANGED <<cache, fetch>>

Refresh(r) ==
    /\ ~Fresh(On[r])
    /\ ~Cooling(On[r])
    /\ fetch' = [fetch EXCEPT ![On[r]] = [by |-> r, list |-> listed, since |-> now]]
    /\ Goto(r, "fetch")
    /\ UNCHANGED cache

Gate(r) ==
    /\ req[r].pc = "gate"
    /\ On[r] \in Watched
    /\ \/ /\ IsFullAccess(Asked(r)[1], Asked(r)[2])
          /\ Pass(r)
          /\ UNCHANGED <<cache, fetch>>
       \/ /\ ~IsFullAccess(Asked(r)[1], Asked(r)[2])
          /\ fetch[On[r]] = None
          /\ Answered(r) \/ Refused(r) \/ Refresh(r)
    /\ UNCHANGED <<users, now, listed, gone, file, locked>>

\* A worker that is not followed asks its own copy: either answer is possible,
\* and it may have fetched the document and replaced the file.
GateElsewhere(r) ==
    /\ req[r].pc = "gate"
    /\ On[r] \notin Watched
    /\ Pass(r) \/ Finish(r)
    /\ file' \in {file, [list |-> listed, mtime |-> now]}
    /\ UNCHANGED <<users, now, listed, gone, cache, fetch, locked>>

\* The document arrives, as it was at some moment of the fetch; the copy is
\* good until the next boundary from now, and the file is replaced if it can.
FetchSucceeds(r) ==
    LET w == On[r] IN
    /\ req[r].pc = "fetch"
    /\ \E list \in {fetch[w].list, listed} :
           /\ cache' = [cache EXCEPT ![w].list = list, ![w].loaded = TRUE,
                                     ![w].next = NextRefresh(now)]
           /\ file' \in {file, [list |-> list, mtime |-> now]}
           /\ IF Asked(r)[1] \in list THEN Pass(r) ELSE Finish(r)
    /\ fetch' = [fetch EXCEPT ![w] = None]
    /\ UNCHANGED <<users, now, listed, gone, locked>>

\* A status, transport, size or document error, or the deadline: the caller is
\* refused and the cooldown begins.
FetchFails(r) ==
    LET w == On[r] IN
    /\ req[r].pc = "fetch"
    /\ cache' = [cache EXCEPT ![w].retry = now + 1]
    /\ fetch' = [fetch EXCEPT ![w] = None]
    /\ Finish(r)
    /\ UNCHANGED <<users, now, listed, gone, file, locked>>

\* A fetch does not outlive its deadline.
Tick ==
    /\ now < MaxTime
    /\ \A w \in Watched : fetch[w] # None => fetch[w].since = now
    /\ now' = now + 1
    /\ UNCHANGED <<users, req, listed, gone, cache, fetch, file, locked>>

\* The owner of the document edits it.
EditList(e) ==
    /\ listed' = IF e \in listed THEN listed \ {e} ELSE listed \cup {e}
    /\ gone' = IF e \in listed THEN [gone EXCEPT ![e] = now] ELSE gone
    /\ UNCHANGED <<users, req, now, cache, fetch, file, locked>>

SeedUnaged(w) ==
    IF file = None THEN Cold(now)
    ELSE [list |-> file.list, loaded |-> TRUE, retry |-> 0, next |-> NextRefresh(now)]

\* The process ends and starts again; the file seeds the new copy within the
\* window of its own age.
Seed(w) ==
    IF file = None THEN Cold(now)
    ELSE [list |-> file.list, loaded |-> TRUE, retry |-> 0,
          next |-> IF NextRefresh(file.mtime) > now THEN NextRefresh(file.mtime) ELSE now]

Restart(w) ==
    /\ cache' = [v \in Watched |-> IF v = w THEN Seed(w) ELSE cache[v]]
    /\ cache' # cache \/ \E r \in Requests : On[r] = w /\ req[r] # Idle
    /\ fetch' = [v \in Watched |-> IF v = w THEN None ELSE fetch[v]]
    /\ req' = [r \in Requests |-> IF On[r] = w THEN Idle ELSE req[r]]
    /\ locked' = IF locked = w THEN None ELSE locked
    /\ UNCHANGED <<users, now, listed, gone, file>>

-----------------------------------------------------------------------------
(* Accounts.                                                               *)

Holder(issuer, sub) ==
    {i \in DOMAIN users : users[i].issuer = issuer /\ users[i].sub = sub}

HoldersOf(email) == {i \in DOMAIN users : users[i].email = email}

MayWrite(w) == locked \in {None, w}

\* oauth_callback and the local form: the identity has been verified and goes
\* to the whitelist before anything is stored.
StartSignIn(r, who) ==
    /\ req[r] = Idle
    /\ req' = [req EXCEPT ![r] = [op |-> "signin", pc |-> "gate", who |-> who, user |-> 0]]
    /\ UNCHANGED <<users, Whitelist, locked>>

\* upsert_google_user under the worker's store lock: the row of the pair ...
SelectUser(r) ==
    /\ req[r].pc = "select"
    /\ \A q \in Requests : On[q] = On[r] => req[q].pc \notin {"upsert", "row"}
    /\ req' = [req EXCEPT ![r].pc = "upsert",
           ![r].user = IF Holder(req[r].who.issuer, req[r].who.sub) = {} THEN 0 ELSE 1]
    /\ UNCHANGED <<users, Whitelist, locked>>

RebindableAnywhere(who) == HoldersOf(who.email)

\* ... is inserted when there was none; when the insert collides, the row of
\* the same issuer and address is rebound to the new sub.
Rebindable(who) == {i \in HoldersOf(who.email) : users[i].issuer = who.issuer}

InsertUser(r) ==
    LET who == req[r].who
        clash == Holder(who.issuer, who.sub) # {} \/ HoldersOf(who.email) # {}
        rebound == Rebindable(who)
    IN
    /\ req[r].user = 0
    /\ \/ /\ ~clash
          /\ users' = Append(users, who)
          /\ Goto(r, "row")
          /\ locked' = None
       \/ /\ clash
          /\ rebound = {}
          /\ Finish(r)
          /\ locked' = None
          /\ UNCHANGED users
       \/ /\ clash
          /\ rebound # {}
          /\ Holder(who.issuer, who.sub) \subseteq rebound
          /\ users' = [i \in DOMAIN users |->
                 IF i \in rebound
                 THEN [users[i] EXCEPT !.sub = who.sub, !.issuer = who.issuer]
                 ELSE users[i]]
          /\ Goto(r, "row")
          /\ locked' = None
       \/ /\ clash
          /\ rebound # {}
          /\ ~(Holder(who.issuer, who.sub) \subseteq rebound)
          /\ Finish(r)
          /\ locked' = On[r]
          /\ UNCHANGED users

RefreshUserUnchecked(r) ==
    LET who == req[r].who
        mine == Holder(who.issuer, who.sub)
    IN
    /\ req[r].user # 0
    /\ users' = [i \in DOMAIN users |->
           IF i \in mine THEN [users[i] EXCEPT !.email = who.email] ELSE users[i]]
    /\ Goto(r, "row")
    /\ locked' = None

\* ... and refreshed with the address otherwise, unless another row holds it.
RefreshUser(r) ==
    LET who == req[r].who
        mine == Holder(who.issuer, who.sub)
    IN
    /\ req[r].user # 0
    /\ \/ /\ mine # {} => HoldersOf(who.email) \subseteq mine
          /\ users' = [i \in DOMAIN users |->
                 IF i \in mine THEN [users[i] EXCEPT !.email = who.email] ELSE users[i]]
          /\ Goto(r, "row")
       \/ /\ mine # {}
          /\ ~(HoldersOf(who.email) \subseteq mine)
          /\ Finish(r)
          /\ UNCHANGED users
    /\ locked' = None

UpsertUser(r) ==
    /\ req[r].pc = "upsert"
    /\ MayWrite(On[r])
    /\ InsertUser(r) \/ RefreshUser(r)
    /\ UNCHANGED <<Whitelist>>

\* The row is read back and the session signed; a row that another worker has
\* rebound meanwhile fails the request.
SignSession(r) ==
    /\ req[r].pc = "row"
    /\ Finish(r)
    /\ UNCHANGED <<users, Whitelist, locked>>

\* busy_timeout: the write lock is not released in time.
GiveUp(r) ==
    /\ req[r].pc = "upsert"
    /\ ~MayWrite(On[r])
    /\ Finish(r)
    /\ UNCHANGED <<users, Whitelist, locked>>

\* record_usage or another write of the worker commits what is open.
CommitOpen(w) ==
    /\ locked = w
    /\ locked' = None
    /\ UNCHANGED <<users, req, Whitelist>>

\* A live token of account i is presented: _authenticate resolves it and asks
\* the whitelist about the account.  (A use on a worker that is not followed
\* changes nothing here.)
UseToken(r, i) ==
    /\ On[r] \in Watched
    /\ req[r] = Idle
    /\ req' = [req EXCEPT ![r] = [op |-> "use", pc |-> "gate", who |-> None, user |-> i]]
    /\ UNCHANGED <<users, Whitelist, locked>>

\* The request goes on to a node.
Served(r) ==
    /\ req[r].pc = "served"
    /\ Finish(r)
    /\ UNCHANGED <<users, Whitelist, locked>>

\* The steps of a sign-in, of the callback and of the local form alike (policy,
\* account, session), and of a request with a token.
Serve(r) ==
    \/ Gate(r) \/ GateElsewhere(r) \/ FetchSucceeds(r) \/ FetchFails(r) \/ SelectUser(r)
    \/ UpsertUser(r) \/ SignSession(r) \/ GiveUp(r) \/ Served(r)

Next ==
    \/ \E r \in Requests : Serve(r)
    \/ \E r \in Requests : \E who \in Presents[r] : StartSignIn(r, who)
    \/ \E r \in Requests, i \in DOMAIN users : UseToken(r, i)
    \/ \E w \in Workers : Restart(w) \/ CommitOpen(w)
    \/ \E e \in Changing : EditList(e)
    \/ Tick

Spec == Init /\ [][Next]_vars

-----------------------------------------------------------------------------
(* Properties.                                                             *)

\* Every variable keeps its type, and an account has its pair of issuer and
\* sub, and its address, for itself.
TypeOK ==
    /\ users \in Seq(Accounts)
    /\ \A i, j \in DOMAIN users :
           i # j => /\ users[i].email # users[j].email
                    /\ <<users[i].issuer, users[i].sub>> # <<users[j].issuer, users[j].sub>>
    /\ req \in [Requests ->
           [op : {"idle", "signin", "use"},
            pc : {"done", "gate", "fetch", "served", "select", "upsert", "row"},
            who : Identities \cup {None}, user : Nat]]
    /\ now \in Times
    /\ listed \subseteq Emails
    /\ gone \in [Emails -> Times \cup {None}]
    /\ cache \in [Watched ->
           [list : SUBSET Emails, loaded : BOOLEAN, next : Times, retry : Times]]
    /\ fetch \in [Watched ->
           [by : Requests, list : SUBSET Emails, since : Times] \cup {None}]
    /\ file \in [list : SUBSET Emails, mtime : Times] \cup {None}
    /\ locked \in Workers \cup {None}

\* An account, with its role and its tokens, never moves to another provider,
\* whatever addresses and subs the providers vouch for and whichever workers
\* sign their users in at the same time (upsert_google_user).
AccountKeepsIssuer ==
    [][\A i \in DOMAIN users : users'[i].issuer = users[i].issuer]_users

\* The first tick of the window that holds the present.
WindowStart == (now \div Window) * Window

\* Who is let in by the whitelist is on it, or was taken off no earlier than
\* one fetch before the present window began: a copy is not served past its
\* window, nor after a restart from an old file, nor when it cannot be
\* refreshed (SSOAllowlist, used by check_signin_policy and _authenticate).
RemovedIsRefused ==
    [][\A r \in Requests :
          /\ On[r] \in Watched
          /\ req[r].pc \in {"gate", "fetch"}
          /\ req'[r].pc \in {"select", "served"}
          /\ Asked(r) \notin Trusted
          => LET e == Asked(r)[1] IN
             e \in listed \/ (gone[e] # None /\ gone[e] + 1 >= WindowStart)]_vars

=============================================================================
