--------------------------- MODULE MCConfiguration ----------------------------
(***************************************************************************)
(* Small sets for Configuration.  Rates also name stages.                  *)
(***************************************************************************)
EXTENDS Configuration, TLC

CONSTANTS r1, r2, r3, w1, w2, n1, n2, one

\* No stage, one, two of which one is shared, and an assignee named twice.
SomePlans == {<<>>, <<<<n1>>>>, <<<<n2>>, <<n1, n2>>>>, <<<<n1, n1>>>>}

Symmetry == Permutations(Rates) \cup Permutations(Workers)
=============================================================================
