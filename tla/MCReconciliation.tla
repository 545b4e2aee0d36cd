-------------------------- MODULE MCReconciliation --------------------------
(* Small instances of Reconciliation for TLC. *)
EXTENDS Reconciliation, TLC

CONSTANTS s1, s2

\* One cent is due.  With three units to a cent, an amount of 4 is a third of a
\* cent off, 6 exactly a cent and 9 two cents.
OneCent == [s \in Settlements |-> 3]
AmountsOfEach == s1 :> {6, 9} @@ s2 :> {0, 4}

Symmetry == Permutations(Workers) \cup Permutations(Records)
=============================================================================
