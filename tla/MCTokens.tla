------------------------------ MODULE MCTokens ------------------------------
(***************************************************************************)
(* Instances of Tokens for TLC.                                            *)
(***************************************************************************)
EXTENDS Tokens, TLC

CONSTANTS s1, s2, m1, m2, w1, w2

\* A new secret is rolled out over the old one.
Rolled == <<s1, s2>>

\* The database is new, or holds a key generated before keys were marked, or
\* a user's own token of the same name.
Starts ==
    { <<>>,
      <<Row("named", ConfigKey(s1, 0), Models)>>,
      <<Row("named", RandomKey(1), Models)>> }

\* A token is minted for one model, and edited or exported for the other.
Asks ==
    [op \in Ops |->
        CASE op = "mint" -> {{m1}}
          [] op \in {"edit", "link", "config"} -> {{m2}}
          [] OTHER -> {{}}]

\* Both workers mint, one of them exports and edits as well.
Sent == [w \in Workers |-> IF w = w1 THEN {"download", "plain", "mint"} ELSE Ops]
=============================================================================
