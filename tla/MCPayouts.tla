----------------------------- MODULE MCPayouts -----------------------------
(* Small instances of Payouts for TLC. *)
EXTENDS Payouts, TLC

Symmetry == Permutations(Workers) \cup Permutations(Settlements)
=============================================================================
