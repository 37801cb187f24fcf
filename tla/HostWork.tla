------------------------------ MODULE HostWork ------------------------------
(***************************************************************************)
(* What automatic placement promises about one host: at any moment at most *)
(* one gateway works on it, and it is tried at most MaxAttempts times      *)
(* between two successes or decisions to start over.                       *)
(***************************************************************************)
EXTENDS Naturals

CONSTANTS Gateways, MaxAttempts

VARIABLES
    workers,    \* the gateways that work on the host
    tries       \* attempts since the last success or fresh start

vars == <<workers, tries>>

Init ==
    /\ workers = {}
    /\ tries = 0

Begin(g) ==
    /\ workers = {}
    /\ tries < MaxAttempts
    /\ workers' = {g}
    /\ tries' = tries + 1

\* The work succeeds, which starts the count again, or it does not.
End ==
    /\ workers # {}
    /\ workers' = {}
    /\ tries' \in {tries, 0}

\* The claim is given up, or its node turned out to be serving.
StartOver ==
    /\ tries' = 0
    /\ UNCHANGED workers

Next == (\E g \in Gateways : Begin(g)) \/ End \/ StartOver

Spec == Init /\ [][Next]_vars
=============================================================================
