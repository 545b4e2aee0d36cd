----------------------------- MODULE MCDeposits -----------------------------
(* Small instances of Deposits for TLC. *)
EXTENDS Deposits, TLC

CONSTANTS t1, t2, s1, s2

\* Two full payments to one account, notified as the bank posts them.
OneAccount == [s \in Sessions |-> t1]
FullPayment == [s \in Sessions |-> 5]
OneExpected == [t \in Txns |-> 5]
TrueNotices == {[session |-> s, txn |-> t1, amount |-> 5] : s \in Sessions}

\* A transfer to each of two accounts, one of them of a transaction without a
\* naira equivalent.  The bank posts 5 for both; s1 is notified with too small
\* an amount and as a full payment, s2 for the account of the other.
TwoAccounts == s1 :> t1 @@ s2 :> t2
ExpectedOrNot == t1 :> 5 @@ t2 :> Nil
AnyNotices == {[session |-> s1, txn |-> t1, amount |-> 3],
               [session |-> s1, txn |-> t1, amount |-> 5],
               [session |-> s2, txn |-> t1, amount |-> 5]}

WorkerSymmetry == Permutations(Workers)
=============================================================================
