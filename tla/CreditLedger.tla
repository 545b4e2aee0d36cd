---------------------------- MODULE CreditLedger ----------------------------
(***************************************************************************)
(* What the deposit side promises: a transaction is credited with at most  *)
(* one bank transfer, one that was made to its own account for an amount   *)
(* it accepts; a transfer never replaces an earlier credit, whether by     *)
(* another transfer or by staff.  Staff may record a credit at any time.   *)
(***************************************************************************)
CONSTANTS Txns, Sessions, Nil, Staff,
          Payable   \* Payable[t]: the transfers that may pay for t

VARIABLE credit     \* what a transaction is credited with, Nil if nothing

Init == credit = [t \in Txns |-> Nil]

CreditTransfer(t, s) ==
  /\ credit[t] = Nil
  /\ s \in Payable[t]
  /\ credit' = [credit EXCEPT ![t] = s]

CreditByStaff(t) == credit' = [credit EXCEPT ![t] = Staff]

Next == \E t \in Txns : CreditByStaff(t) \/ \E s \in Sessions : CreditTransfer(t, s)

Spec == Init /\ [][Next]_credit
=============================================================================
