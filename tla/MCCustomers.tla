----------------------------- MODULE MCCustomers ------------------------------
(***************************************************************************)
(* Small sets for Customers.  Transactions also name users and places,     *)
(* account numbers devices, agents and e-mails.                            *)
(***************************************************************************)
EXTENDS Customers, TLC

CONSTANTS d1, d2, e1, e2, n1, n2, w1, w2

Symmetry == Permutations(Workers) \cup Permutations(Txns) \cup Permutations(Numbers)
=============================================================================
