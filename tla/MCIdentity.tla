----------------------------- MODULE MCIdentity ------------------------------
(***************************************************************************)
(* Small sets for Identity.  What names a session, a code's row or an      *)
(* account is the same set of ids, and so are tokens and codes.            *)
(***************************************************************************)
EXTENDS Identity, TLC

CONSTANTS c, a, w1, w2, i1, i2, k1, k2, e1, e2, n1, n2, b1, p1, p2

\* Each has an e-mail and a phone; in a plain signup anyone may give any pair.
TwoPeople == {<<e1, n1>>, <<e2, n2>>}
TheOther == e1 :> e2 @@ e2 :> e1 @@ n1 :> n2 @@ n2 :> n1

Symmetry ==
  Permutations(Workers) \cup Permutations(SessionIds) \cup Permutations(Tokens)
    \cup {TheOther}
=============================================================================
