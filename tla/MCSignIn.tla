------------------------------ MODULE MCSignIn ------------------------------
(***************************************************************************)
(* Instances of SignIn for TLC.                                            *)
(***************************************************************************)
EXTENDS SignIn

CONSTANTS google, local, s1, s2, a, b, r1, r2, w1, w2

Id(issuer, sub, email) == [issuer |-> issuer, sub |-> sub, email |-> email]

\* One address under two subs of a provider and at a second provider, and one
\* sub that changes its address.
Known == {Id(google, s1, a), Id(google, s2, a), Id(local, s1, a), Id(google, s1, b)}

\* The second address is on the full-access list.
FullAccess == {<<b, google>>}

\* Elsewhere the second sub takes the address and the first changes its own.
Split ==
    [r \in Requests |-> IF r = r1 THEN Known ELSE {Id(google, s2, a), Id(google, s1, b)}]

Apart == [r \in Requests |-> IF r = r1 THEN w1 ELSE w2]
=============================================================================
