--------------------------- MODULE MCTransactions ---------------------------
(* One transaction with two documents, for the fair specification. *)
EXTENDS Transactions

CONSTANTS d1, d2, w1, w2

TwoDocuments == {d1, d2}
TwoWorkers == {w1, w2}
=============================================================================
