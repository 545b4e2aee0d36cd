----------------------------- MODULE MCBackOffice -----------------------------
(***************************************************************************)
(* BackOffice over all routes and small sets of everything else.  Members  *)
(* of staff also name roles.                                               *)
(***************************************************************************)
EXTENDS BackOffice, Api, TLC

CONSTANTS m1, m2, t1, t2, t3, w1, w2, d1, d2, one

Symmetry == Permutations(Workers) \cup Permutations(Staff) \cup Permutations(Tokens)
=============================================================================
