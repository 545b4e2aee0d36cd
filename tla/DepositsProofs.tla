--------------------------- MODULE DepositsProofs ---------------------------
(***************************************************************************)
(* The safety properties of Deposits, for any transactions, sessions,      *)
(* handlers and amounts.                                                   *)
(***************************************************************************)
EXTENDS Deposits, TLAPS

-----------------------------------------------------------------------------
(* TypeOK                                                                  *)

\* A handler that goes on, returns or throws stays a handler.
LEMMA GotoType ==
  ASSUME TypeOK, NEW w \in Workers, NEW pc \in Programs, Goto(w, pc)
  PROVE  req' \in [Workers -> Handler]
BY DEF TypeOK, Goto, Handler

LEMMA ReturnType ==
  ASSUME TypeOK, NEW w \in Workers, Return(w)
  PROVE  req' \in [Workers -> Handler]
<1>1. Idle \in Handler BY DEF Idle, Handler, Programs
<1> QED BY <1>1 DEF TypeOK, Return

LEMMA ThrowType ==
  ASSUME TypeOK, NEW w \in Workers, Throw(w)
  PROVE  req' \in [Workers -> Handler]
<1>1. CASE Goto(w, "failing") BY <1>1, GotoType DEF Programs
<1>2. CASE Return(w) BY <1>2, ReturnType
<1> QED BY <1>1, <1>2 DEF Throw

\* Writing the status of a row leaves it a row.
LEMMA StatusType ==
  ASSUME TypeOK, NEW s, NEW st \in DepositStatuses,
         deposit' = [deposit EXCEPT ![s].status = st]
  PROVE  deposit' \in [Sessions -> DepositRow]
BY DEF TypeOK, DepositRow

\* Every handler leaves the rows and its own state in their types.
LEMMA TypeOKStep == TypeOK /\ InFlight /\ [Next]_vars => TypeOK'
<1> SUFFICES ASSUME TypeOK, InFlight, [Next]_vars PROVE TypeOK'
  OBVIOUS
<1>1. ASSUME NEW w \in Workers, Step(w) PROVE TypeOK'
  <2>0. req[w] \in Handler /\ (req[w].txn \in Txns \/ req[w].txn \notin Txns)
    BY DEF TypeOK
  <2>a. req[w].pc \in OnSession => req[w].session \in Sessions
    BY DEF InFlight, HandlerOK
  <2> USE <2>0, GotoType, ReturnType, ThrowType, StatusType, ConstantsAssumption
          DEF TypeOK, DepositStatuses, Programs, TxStatuses
  <2>1. CASE LookupDeposit(w) BY <2>1 DEF LookupDeposit
  <2>2. CASE InsertDeposit(w)
    <3>1. CASE Return(w) /\ UNCHANGED deposit BY <2>2, <3>1 DEF InsertDeposit
    <3>2. CASE deposit' = [deposit EXCEPT ![req[w].session] = [status |-> "PENDING",
                 txn |-> req[w].txn, amount |-> req[w].amount, origin |-> "webhook"]]
               /\ req' = [req EXCEPT ![w].pc = "verify", ![w].amount = Nil]
      <4>1. deposit' \in [Sessions -> DepositRow] BY <3>2 DEF Handler, DepositRow
      <4>2. req' \in [Workers -> Handler] BY <3>2 DEF Handler
      <4> QED BY <2>2, <4>1, <4>2 DEF InsertDeposit
    <3> QED BY <2>2, <3>1, <3>2 DEF InsertDeposit
  <2>3. CASE VerifyDeposit(w) BY <2>3, <2>a DEF VerifyDeposit, At, OnSession
  <2>4. CASE VerifyFails(w) BY <2>4 DEF VerifyFails
  <2>5. CASE MarkFailed(w) BY <2>5 DEF MarkFailed
  <2>6. CASE SettleDeposit(w) BY <2>6 DEF SettleDeposit
  <2>7. CASE AmountMismatch(w) BY <2>7 DEF AmountMismatch
  <2>8. CASE SetDepositPending(w) BY <2>8 DEF SetDepositPending
  <2>9. CASE SetDepositConfirmed(w) BY <2>9 DEF SetDepositConfirmed
  <2>10. CASE CreateSettlement(w)
    <3>1. [status |-> "CONFIRMED", ref |-> req[w].session] \in SettlementRow
      BY DEF Handler, SettlementRow
    <3> QED BY <2>10, <3>1 DEF CreateSettlement
  <2>11. CASE NotifyConfirmed(w) BY <2>11 DEF NotifyConfirmed
  <2>12. CASE ManualInsert(w)
    <3>1. req[w].session \in Sessions
      BY <2>12, <2>a DEF ManualInsert, At, OnSession
    <3>2. Posted[req[w].session] \in Int BY <3>1
    <3>3. [status |-> "VERIFIED", txn |-> req[w].txn, amount |-> Posted[req[w].session],
           origin |-> "manual"] \in DepositRow
      BY <3>2 DEF Handler, DepositRow
    <3> QED BY <2>12, <3>1, <3>3 DEF ManualInsert
  <2>13. CASE ManualVerifyFails(w) BY <2>13 DEF ManualVerifyFails
  <2>14. CASE AdminSetConfirmed(w) BY <2>14 DEF AdminSetConfirmed
  <2>15. CASE ConfirmFails(w) BY <2>15 DEF ConfirmFails
  <2> QED
    BY ONLY <1>1, <2>1, <2>2, <2>3, <2>4, <2>5, <2>6, <2>7, <2>8, <2>9, <2>10,
       <2>11, <2>12, <2>13, <2>14, <2>15 DEF Step
<1> USE ConstantsAssumption DEF TypeOK, At, Goto, Return, Throw, Idle, Exists,
        Programs, Handler, SettlementRow, TxStatuses
<1>2. ASSUME NEW w \in Workers, NEW n \in Notices, ReceiveWebhook(w, n)
      PROVE TypeOK'
  BY <1>2 DEF ReceiveWebhook
<1>3. ASSUME NEW w \in Workers, NEW s \in Sessions, ManualVerify(w, s)
      PROVE TypeOK'
  <2>1. deposit[s].txn \in Txns \cup {Nil} BY DEF DepositRow
  <2>2. req' \in [Workers -> Handler] BY <1>3, <2>1 DEF ManualVerify
  <2> QED BY <1>3, <2>2 DEF ManualVerify
<1>4. ASSUME NEW w \in Workers, NEW t \in Txns, AdminConfirm(w, t)
      PROVE TypeOK'
  BY <1>4 DEF AdminConfirm
<1>5. CASE Environment
  <2>1. ASSUME NEW t \in Txns, InitiateDeposit(t) PROVE TypeOK'
    <3>1. settlement' \in [Txns -> SettlementRow]
      BY ONLY TypeOK, <2>1 DEF InitiateDeposit, TypeOK, SettlementRow
    <3> QED BY <2>1, <3>1 DEF InitiateDeposit
  <2>2. ASSUME NEW t \in Txns, ConfirmSettlement(t) PROVE TypeOK'
    BY <2>2 DEF ConfirmSettlement
  <2>3. ASSUME NEW t \in Txns, Blacklist(t) \/ Unblacklist(t) PROVE TypeOK'
    BY <2>3 DEF Blacklist, Unblacklist
  <2>4. ASSUME NEW t \in Txns, NEW st \in ReviewStatuses, ReviewTransaction(t, st)
        PROVE TypeOK'
    BY <2>4 DEF ReviewTransaction
  <2>5. CASE Crash BY <2>5 DEF Crash
  <2> QED BY <1>5, <2>1, <2>2, <2>3, <2>4, <2>5 DEF Environment
<1>6. CASE UNCHANGED vars BY <1>6 DEF vars
<1> QED BY <1>1, <1>2, <1>3, <1>4, <1>5, <1>6 DEF Next, Request

-----------------------------------------------------------------------------
(* DepositInv                                                              *)

\* No statement deletes a row or changes its account, amount or origin.
RowsKept ==
  \A s \in Sessions : Exists(s) =>
    /\ Exists(s)'
    /\ deposit'[s].txn = deposit[s].txn
    /\ deposit'[s].amount = deposit[s].amount
    /\ deposit'[s].origin = deposit[s].origin

\* A credit by staff is not taken back, nor is a transfer's by a transfer.
CreditsKept ==
  \A t \in Txns : settlement'[t].ref \in {settlement[t].ref, Staff}
                    \/ settlement[t].ref = Nil

\* What the bank has answered stays answered.
LEMMA AnsweredKept == [Next]_vars => answered \subseteq answered'
BY DEF Next, Request, ReceiveWebhook, ManualVerify, AdminConfirm, Environment,
   InitiateDeposit, ConfirmSettlement, Blacklist, Unblacklist,
   ReviewTransaction, Crash, vars, Step, LookupDeposit, InsertDeposit,
   VerifyDeposit, VerifyFails, MarkFailed, SettleDeposit, AmountMismatch,
   SetDepositPending, SetDepositConfirmed, CreateSettlement, NotifyConfirmed,
   ConfirmFails, ManualInsert, ManualVerifyFails, AdminSetConfirmed

\* Writing a status, and inserting under a unique key, keep the rows.
LEMMA StatusKeeps ==
  ASSUME TypeOK, NEW s, NEW st \in {"VERIFIED", "SETTLED", "FAILED"},
         deposit' = [deposit EXCEPT ![s].status = st]
  PROVE  RowsKept
BY DEF TypeOK, DepositRow, RowsKept, Exists

LEMMA InsertKeeps ==
  ASSUME TypeOK, NEW s, NEW row, ~Exists(s),
         deposit' = [deposit EXCEPT ![s] = row]
  PROVE  RowsKept
BY DEF TypeOK, RowsKept, Exists

LEMMA SameKeeps == TypeOK /\ UNCHANGED deposit => RowsKept
BY DEF TypeOK, RowsKept, Exists

\* Every step keeps the rows.
LEMMA RowsStep == TypeOK /\ [Next]_vars => RowsKept
<1> SUFFICES ASSUME TypeOK, [Next]_vars PROVE RowsKept
  OBVIOUS
<1>1. ASSUME NEW w \in Workers, Step(w) PROVE RowsKept
  <2>1. CASE UNCHANGED deposit BY <2>1, SameKeeps
  <2>2. CASE InsertDeposit(w) \/ ManualInsert(w)
    BY <2>2, SameKeeps, InsertKeeps DEF InsertDeposit, ManualInsert
  <2>3. CASE VerifyDeposit(w) \/ MarkFailed(w) \/ SettleDeposit(w)
    BY <2>3, StatusKeeps DEF VerifyDeposit, MarkFailed, SettleDeposit
  <2> QED
    BY <1>1, <2>1, <2>2, <2>3
    DEF Step, LookupDeposit, VerifyFails, AmountMismatch, SetDepositPending,
        SetDepositConfirmed, CreateSettlement, NotifyConfirmed, ConfirmFails,
        ManualVerifyFails, AdminSetConfirmed
<1>2. CASE UNCHANGED deposit BY <1>2, SameKeeps
<1> QED
  BY <1>1, <1>2
  DEF Next, Request, ReceiveWebhook, ManualVerify, AdminConfirm, Environment,
      InitiateDeposit, ConfirmSettlement, Blacklist, Unblacklist,
      ReviewTransaction, Crash, vars

\* Every step keeps the credits: a settlement is only created where there is
\* none, and only staff overwrite one.
LEMMA CreditsStep == TypeOK /\ RowsOK /\ [Next]_vars => CreditsKept
<1> SUFFICES ASSUME TypeOK, RowsOK, [Next]_vars PROVE CreditsKept
  OBVIOUS
<1> USE DEF CreditsKept, TypeOK, SettlementRow, RowsOK
<1>1. CASE UNCHANGED settlement BY <1>1
<1>2. ASSUME NEW w \in Workers, CreateSettlement(w) PROVE CreditsKept
  BY <1>1, <1>2 DEF CreateSettlement
<1>3. ASSUME NEW w \in Workers, NEW t \in Txns, AdminConfirm(w, t)
      PROVE CreditsKept
  BY <1>3 DEF AdminConfirm
<1>4. ASSUME NEW t \in Txns, InitiateDeposit(t) \/ ConfirmSettlement(t)
      PROVE CreditsKept
  BY <1>4 DEF InitiateDeposit, ConfirmSettlement
<1> QED
  BY <1>1, <1>2, <1>3, <1>4
  DEF Next, Request, ReceiveWebhook, ManualVerify, Environment, Blacklist,
      Unblacklist, ReviewTransaction, Crash, vars, Step, LookupDeposit,
      InsertDeposit, VerifyDeposit, VerifyFails, MarkFailed, SettleDeposit,
      AmountMismatch, SetDepositPending, SetDepositConfirmed, NotifyConfirmed, ConfirmFails,
      ManualInsert, ManualVerifyFails, AdminSetConfirmed

\* What other handlers do to the rows leaves a handler's knowledge true.
LEMMA OtherHandler ==
  ASSUME TypeOK, RowsKept, CreditsKept, answered \subseteq answered',
         NEW w \in Workers, HandlerOK(w), req'[w] = req[w]
  PROVE  HandlerOK(w)'
BY ConstantsAssumption
DEF TypeOK, RowsKept, CreditsKept, HandlerOK, OnRow, OnSession, Programs,
    Exists, Matches

\* A handler knows nothing once it returned, and little once it threw.
LEMMA ReturnOK ==
  ASSUME TypeOK, NEW w \in Workers, Return(w)
  PROVE  HandlerOK(w)'
BY DEF TypeOK, Return, Idle, HandlerOK, OnRow, OnSession, Programs

LEMMA ThrowOK ==
  ASSUME TypeOK, RowsKept, NEW w \in Workers, HandlerOK(w),
         req[w].pc \in OnRow, Throw(w)
  PROVE  HandlerOK(w)'
<1>1. CASE Return(w) BY <1>1, ReturnOK
<1>2. CASE Goto(w, "failing")
  <2>1. req'[w] = [req[w] EXCEPT !.pc = "failing"]
    BY <1>2 DEF Goto, TypeOK
  <2> QED
    BY <2>1 DEF TypeOK, Handler, RowsKept, HandlerOK, OnRow, OnSession,
                Programs, Exists
<1> QED BY <1>1, <1>2 DEF Throw

\* Each statement of a handler establishes what its next one relies on.
LEMMA OwnStep ==
  ASSUME TypeOK, RowsOK, RowsKept, CreditsKept, answered \subseteq answered',
         NEW w \in Workers, HandlerOK(w), Step(w)
  PROVE  HandlerOK(w)'
<1> DEFINE s == req[w].session
<1>0. req[w] \in Handler
  BY DEF TypeOK
<1>1. ASSUME NEW pc \in Programs, Goto(w, pc)
      PROVE req'[w].pc = pc /\ req'[w].session = req[w].session
              /\ req'[w].txn = req[w].txn /\ req'[w].amount = req[w].amount
  BY <1>0, <1>1 DEF Goto, TypeOK, Handler
<1> USE <1>1, ReturnOK, ThrowOK
        DEF HandlerOK, OnRow, OnSession, Programs, At
<1>2. CASE LookupDeposit(w) BY <1>2 DEF LookupDeposit
<1>3. CASE InsertDeposit(w)
  <2>1. CASE ~Return(w)
    <3>1. req'[w] = [req[w] EXCEPT !.pc = "verify", !.amount = Nil]
      BY <1>3, <2>1 DEF InsertDeposit, TypeOK
    <3>2. s \in Sessions /\ req[w].txn \in Txns BY <1>3 DEF InsertDeposit
    <3>3. deposit'[s].txn = req[w].txn /\ deposit'[s].status = "PENDING"
      BY <1>3, <2>1, <3>2 DEF InsertDeposit, TypeOK
    <3> HIDE DEF s
    <3>4. req'[w].pc = "verify" /\ req'[w].session = s /\ req'[w].txn = req[w].txn
      BY <1>0, <3>1 DEF Handler, s
    <3> QED BY <3>2, <3>3, <3>4 DEF Exists
  <2> QED BY <2>1
<1>4. CASE VerifyDeposit(w)
  BY <1>4 DEF VerifyDeposit, TypeOK, DepositRow, Exists
<1>5. CASE VerifyFails(w) BY <1>5 DEF VerifyFails
<1>6. CASE MarkFailed(w) BY <1>6 DEF MarkFailed
<1>7. CASE SettleDeposit(w)
  BY <1>7 DEF SettleDeposit, TypeOK, DepositRow, Exists, RowsKept, Matches
<1>8. CASE AmountMismatch(w)
  BY <1>8 DEF AmountMismatch, RowsKept, Exists
<1>9. CASE SetDepositPending(w) BY <1>9 DEF SetDepositPending
<1>10. CASE SetDepositConfirmed(w)
  BY <1>10 DEF SetDepositConfirmed, RowsKept, Exists, Matches
<1>11. CASE CreateSettlement(w)
  BY <1>11 DEF CreateSettlement, RowsKept, Exists
<1>12. CASE NotifyConfirmed(w) BY <1>12 DEF NotifyConfirmed
<1>13. CASE ManualInsert(w)
  BY <1>13 DEF ManualInsert, TypeOK, Exists
<1>14. CASE ManualVerifyFails(w) BY <1>14 DEF ManualVerifyFails
<1>15. CASE AdminSetConfirmed(w) BY <1>15 DEF AdminSetConfirmed
<1>16. CASE ConfirmFails(w) BY <1>16 DEF ConfirmFails
<1> QED
  BY ONLY <1>2, <1>3, <1>4, <1>5, <1>6, <1>7, <1>8, <1>9, <1>10, <1>11,
     <1>12, <1>13, <1>14, <1>15, <1>16, Step(w) DEF Step

\* A step of one handler leaves the local state of the others alone.
LEMMA OthersUnchanged ==
  ASSUME TypeOK, NEW w \in Workers, NEW v \in Workers, v # w,
         Step(w) \/ Request(w)
  PROVE  req'[v] = req[v]
BY DEF TypeOK, Request, ReceiveWebhook, ManualVerify, AdminConfirm, Step,
   Goto, Return, Throw, LookupDeposit, InsertDeposit, VerifyDeposit,
   VerifyFails, MarkFailed, SettleDeposit, AmountMismatch, SetDepositPending,
   SetDepositConfirmed, CreateSettlement, NotifyConfirmed, ConfirmFails, ManualInsert,
   ManualVerifyFails, AdminSetConfirmed

\* A row names an account.
LEMMA RowTxn ==
  ASSUME RowsOK, NEW s \in Sessions, Exists(s)
  PROVE  deposit[s].txn \in Txns
<1>1. RowSays(s) \in [session : Sessions, txn : Txns, amount : Int]
  BY ConstantsAssumption DEF RowsOK, Sourced, BankSays
<1> QED BY <1>1 DEF RowSays

LEMMA InFlightStep == TypeOK /\ InFlight /\ RowsOK /\ [Next]_vars => InFlight'
<1> SUFFICES ASSUME TypeOK, InFlight, RowsOK, [Next]_vars,
                    NEW w \in Workers
             PROVE  HandlerOK(w)'
  BY DEF InFlight
<1>1. RowsKept /\ CreditsKept /\ HandlerOK(w) /\ answered \subseteq answered'
  BY RowsStep, CreditsStep, AnsweredKept DEF InFlight
<1>2. CASE Step(w) BY <1>1, <1>2, OwnStep
<1>3. CASE Request(w)
  <2>1. ASSUME NEW n \in Notices, ReceiveWebhook(w, n) PROVE HandlerOK(w)'
    <3>1. n \in [session : Sessions, txn : Txns, amount : Int]
          /\ n = [session |-> n.session, txn |-> n.txn, amount |-> n.amount]
      BY ConstantsAssumption
    <3>2. req'[w] = [pc |-> "lookup", session |-> n.session, txn |-> n.txn,
                     amount |-> n.amount, marksFailed |-> TRUE]
      BY <2>1 DEF ReceiveWebhook, TypeOK
    <3> QED BY <3>1, <3>2 DEF HandlerOK, OnRow, OnSession, Programs
  <2>3. ASSUME NEW s \in Sessions, ManualVerify(w, s) PROVE HandlerOK(w)'
    <3>1. req'[w].pc = (IF Exists(s) THEN "verify" ELSE "manual")
          /\ req'[w].session = s
          /\ req'[w].txn = (IF Exists(s) THEN deposit[s].txn ELSE AccountOf[s])
      BY <2>3 DEF ManualVerify, TypeOK
    <3>2. Exists(s) => deposit[s].txn \in Txns
      BY RowTxn
    <3>3. UNCHANGED <<deposit, answered>> BY <2>3 DEF ManualVerify
    <3> QED
      BY <3>1, <3>2, <3>3, ConstantsAssumption
      DEF HandlerOK, OnRow, OnSession, Programs, Exists
  <2>2. CASE \E t \in Txns : AdminConfirm(w, t)
    BY <2>2 DEF AdminConfirm, TypeOK, HandlerOK, OnRow, OnSession, Programs, Idle
  <2> QED BY <1>3, <2>1, <2>2, <2>3 DEF Request
<1>4. CASE \E v \in Workers : v # w /\ (Step(v) \/ Request(v))
  BY <1>1, <1>4, OthersUnchanged, OtherHandler
<1>5. CASE Crash
  BY <1>5 DEF Crash, Idle, HandlerOK, OnRow, OnSession, Programs
<1>6. CASE Environment /\ ~Crash
  BY <1>1, <1>6, OtherHandler DEF Environment, InitiateDeposit,
     ConfirmSettlement, Blacklist, Unblacklist, ReviewTransaction
<1>7. CASE UNCHANGED vars BY <1>1, <1>7, OtherHandler DEF vars
<1> QED BY <1>2, <1>3, <1>4, <1>5, <1>6, <1>7 DEF Next

LEMMA RowsOKStep == TypeOK /\ InFlight /\ RowsOK /\ [Next]_vars => RowsOK'
<1> SUFFICES ASSUME TypeOK, InFlight, RowsOK, [Next]_vars PROVE RowsOK'
  OBVIOUS
<1>1. ASSUME NEW s \in Sessions, Exists(s)' PROVE Sourced(s)'
  <2>1. CASE Exists(s)
    BY <2>1, RowsStep DEF RowsKept, RowsOK, Sourced, RowSays, BankSays
  <2>2. ASSUME NEW w \in Workers, InsertDeposit(w), ~Exists(s) PROVE Sourced(s)'
    <3>1. s = req[w].session
      BY <1>1, <2>2 DEF InsertDeposit, Exists, TypeOK
    <3>2. [session |-> s, txn |-> req[w].txn, amount |-> req[w].amount] \in Notices
      BY <2>2, <3>1 DEF InFlight, HandlerOK, InsertDeposit, At
    <3>3. deposit'[s] = [status |-> "PENDING", txn |-> req[w].txn,
                         amount |-> req[w].amount, origin |-> "webhook"]
      BY <2>2, <3>1 DEF InsertDeposit, TypeOK
    <3> QED BY <3>2, <3>3 DEF Sourced, RowSays
  <2>3. ASSUME NEW w \in Workers, ManualInsert(w), ~Exists(s) PROVE Sourced(s)'
    <3>1. s = req[w].session
      BY <1>1, <2>3 DEF ManualInsert, Exists, TypeOK
    <3>2. req[w].txn = AccountOf[s]
      BY <2>3, <3>1 DEF InFlight, HandlerOK, ManualInsert, At
    <3>3. deposit'[s] = [status |-> "VERIFIED", txn |-> AccountOf[s],
                         amount |-> Posted[s], origin |-> "manual"]
      BY <2>3, <3>1, <3>2 DEF ManualInsert, TypeOK
    <3> QED BY <3>3 DEF Sourced, RowSays, BankSays
  <2>4. ASSUME NEW w \in Workers, VerifyDeposit(w) \/ MarkFailed(w) \/ SettleDeposit(w)
        PROVE Exists(s)
    <3>1. Exists(req[w].session)
      BY <2>4 DEF VerifyDeposit, MarkFailed, SettleDeposit, At, InFlight,
         HandlerOK, OnRow, OnSession, Programs
    <3> QED
      BY <1>1, <2>4, <3>1 DEF VerifyDeposit, MarkFailed, SettleDeposit, Exists, TypeOK
  <2>5. CASE UNCHANGED deposit BY <1>1, <2>1, <2>5 DEF Exists
  <2> QED
    BY <2>1, <2>2, <2>3, <2>4, <2>5
    DEF Next, Request, ReceiveWebhook, ManualVerify, AdminConfirm, Environment,
        InitiateDeposit, ConfirmSettlement, Blacklist, Unblacklist,
        ReviewTransaction, Crash, vars, Step, LookupDeposit, VerifyFails,
        AmountMismatch, SetDepositPending, SetDepositConfirmed,
        CreateSettlement, NotifyConfirmed, ConfirmFails, ManualVerifyFails,
        AdminSetConfirmed
<1>3. ASSUME NEW s \in answered' PROVE Exists(s)'
  <2>1. CASE s \in answered BY <2>1, RowsStep DEF RowsOK, RowsKept, TypeOK
  <2>2. ASSUME NEW w \in Workers, VerifyDeposit(w), s = req[w].session PROVE Exists(s)'
    <3>1. s \in Sessions /\ Exists(s)
      BY <2>2 DEF VerifyDeposit, At, InFlight, HandlerOK, OnRow, OnSession, Programs
    <3> QED BY <3>1, RowsStep DEF RowsKept
  <2>3. ASSUME NEW w \in Workers, ManualInsert(w), s = req[w].session PROVE Exists(s)'
    <3>1. s \in Sessions
      BY <2>3 DEF ManualInsert, At, InFlight, HandlerOK, OnSession, Programs
    <3>2. CASE Exists(s) BY <3>1, <3>2, RowsStep DEF RowsKept
    <3>3. CASE ~Exists(s)
      BY <2>3, <3>1, <3>3 DEF ManualInsert, Exists, TypeOK
    <3> QED BY <3>2, <3>3
  <2> QED
    BY <1>3, <2>1, <2>2, <2>3
    DEF Next, Request, ReceiveWebhook, ManualVerify, AdminConfirm, Environment,
        InitiateDeposit, ConfirmSettlement, Blacklist, Unblacklist,
        ReviewTransaction, Crash, vars, Step, LookupDeposit, InsertDeposit,
        VerifyDeposit, VerifyFails, MarkFailed, SettleDeposit, AmountMismatch,
        SetDepositPending, SetDepositConfirmed, CreateSettlement,
        NotifyConfirmed, ConfirmFails, ManualInsert, ManualVerifyFails,
        AdminSetConfirmed
<1>2. ASSUME NEW t \in Txns
      PROVE settlement'[t].ref # Nil => settlement'[t].status = "CONFIRMED"
  <2> USE DEF TypeOK, SettlementRow, RowsOK
  <2>1. CASE UNCHANGED settlement BY <2>1
  <2>2. ASSUME NEW w \in Workers, CreateSettlement(w)
        PROVE settlement'[t].ref # Nil => settlement'[t].status = "CONFIRMED"
    BY <2>1, <2>2 DEF CreateSettlement
  <2>3. ASSUME NEW w \in Workers, NEW u \in Txns, AdminConfirm(w, u)
        PROVE settlement'[t].ref # Nil => settlement'[t].status = "CONFIRMED"
    BY <2>3 DEF AdminConfirm
  <2>4. ASSUME NEW u \in Txns, InitiateDeposit(u) \/ ConfirmSettlement(u)
        PROVE settlement'[t].ref # Nil => settlement'[t].status = "CONFIRMED"
    BY <2>4 DEF InitiateDeposit, ConfirmSettlement
  <2> QED
    BY <2>1, <2>2, <2>3, <2>4
    DEF Next, Request, ReceiveWebhook, ManualVerify, Environment, Blacklist,
        Unblacklist, ReviewTransaction, Crash, vars, Step, LookupDeposit,
        InsertDeposit, VerifyDeposit, VerifyFails, MarkFailed, SettleDeposit,
        AmountMismatch, SetDepositPending, SetDepositConfirmed,
        NotifyConfirmed, ConfirmFails, ManualInsert, ManualVerifyFails, AdminSetConfirmed
<1> QED BY <1>1, <1>2, <1>3 DEF RowsOK

\* A transfer that pays for a transaction never stops paying for it.
LEMMA PaysKept ==
  ASSUME TypeOK, RowsOK, RowsKept, answered \subseteq answered',
         NEW s \in Sessions, NEW t \in Txns, Pays(s, t)
  PROVE  Pays(s, t)'
BY DEF RowsOK, RowsKept, Pays, Exists, Matches

LEMMA CreditBackedStep ==
  TypeOK /\ InFlight /\ RowsOK /\ CreditBacked /\ [Next]_vars => CreditBacked'
<1> SUFFICES ASSUME TypeOK, InFlight, RowsOK, CreditBacked, [Next]_vars
             PROVE  CreditBacked'
  OBVIOUS
<1>0. RowsOK' BY RowsOKStep
<1> SUFFICES ASSUME NEW t \in Txns, settlement'[t].ref \in Sessions
             PROVE  Pays(settlement[t].ref, t)'
  <2>1. ASSUME NEW t \in Txns, settlement'[t].ref \in Sessions,
               Pays(settlement[t].ref, t)'
        PROVE  settlement'[t].status = "CONFIRMED" /\ Sourced(settlement[t].ref)'
    BY <1>0, <2>1, ConstantsAssumption DEF RowsOK, Pays
  <2> QED BY <2>1 DEF CreditBacked
<1>1. RowsKept /\ answered \subseteq answered' BY RowsStep, AnsweredKept
<1>2. CASE settlement'[t].ref = settlement[t].ref
  BY <1>1, <1>2, PaysKept DEF CreditBacked
<1>3. ASSUME NEW w \in Workers, CreateSettlement(w), req[w].txn = t,
             settlement'[t].ref = req[w].session
      PROVE Pays(settlement[t].ref, t)'
  <2>1. Pays(req[w].session, t)
    BY <1>3 DEF InFlight, HandlerOK, CreateSettlement, At, OnSession, OnRow,
            Programs, Pays
  <2> QED BY <1>1, <1>3, <2>1, PaysKept
<1>4. ASSUME NEW w \in Workers, CreateSettlement(w)
      PROVE Pays(settlement[t].ref, t)'
  BY <1>2, <1>3, <1>4 DEF CreateSettlement, TypeOK
<1>5. Staff \notin Sessions
  BY ConstantsAssumption
<1>6. ASSUME NEW w \in Workers, NEW u \in Txns, AdminConfirm(w, u)
      PROVE Pays(settlement[t].ref, t)'
  BY <1>2, <1>5, <1>6 DEF AdminConfirm, TypeOK
<1>7. ASSUME NEW u \in Txns, InitiateDeposit(u) \/ ConfirmSettlement(u)
      PROVE Pays(settlement[t].ref, t)'
  BY <1>2, <1>5, <1>7 DEF InitiateDeposit, ConfirmSettlement, TypeOK, SettlementRow
<1> QED
  BY <1>2, <1>4, <1>6, <1>7
  DEF Next, Request, ReceiveWebhook, ManualVerify, Environment, Blacklist,
      Unblacklist, ReviewTransaction, Crash, vars, Step, LookupDeposit,
      InsertDeposit, VerifyDeposit, VerifyFails, MarkFailed, SettleDeposit,
      AmountMismatch, SetDepositPending, SetDepositConfirmed,
      NotifyConfirmed, ConfirmFails, ManualInsert, ManualVerifyFails, AdminSetConfirmed

LEMMA ConfirmedIsBackedStep ==
  TypeOK /\ InFlight /\ RowsOK /\ ConfirmedIsBacked /\ [Next]_vars
    => ConfirmedIsBacked'
<1> SUFFICES ASSUME TypeOK, InFlight, RowsOK, ConfirmedIsBacked, [Next]_vars,
                    NEW t \in Txns, txStatus'[t] = "DEPOSIT_CONFIRMED",
                    settlement'[t].ref # Staff
             PROVE  \E s \in Sessions : Pays(s, t)'
  BY DEF ConfirmedIsBacked
<1>1. RowsKept /\ CreditsKept /\ answered \subseteq answered'
  BY RowsStep, CreditsStep, AnsweredKept
<1>2. settlement[t].ref # Staff
  BY <1>1, ConstantsAssumption DEF CreditsKept
<1>3. CASE txStatus[t] = "DEPOSIT_CONFIRMED"
  BY <1>1, <1>2, <1>3, PaysKept DEF ConfirmedIsBacked
<1>4. ASSUME NEW w \in Workers, SetDepositConfirmed(w)
      PROVE \E s \in Sessions : Pays(s, t)'
  <2>1. CASE req[w].txn = t
    <3>1. req[w].session \in Sessions /\ Pays(req[w].session, t)
      BY <1>4, <2>1 DEF InFlight, HandlerOK, SetDepositConfirmed, At,
         OnSession, OnRow, Programs, Pays
    <3> QED BY <1>1, <3>1, PaysKept
  <2>2. CASE req[w].txn # t
    BY <1>3, <1>4, <2>2 DEF SetDepositConfirmed, TypeOK
  <2> QED BY <2>1, <2>2
<1>5. ASSUME NEW w \in Workers, AdminSetConfirmed(w)
      PROVE \E s \in Sessions : Pays(s, t)'
  BY <1>2, <1>3, <1>5 DEF AdminSetConfirmed, At, InFlight, HandlerOK, TypeOK
<1>6. ASSUME NEW w \in Workers, SetDepositPending(w)
      PROVE \E s \in Sessions : Pays(s, t)'
  BY <1>3, <1>6 DEF SetDepositPending, TypeOK
<1>7. ASSUME NEW u \in Txns, NEW st \in ReviewStatuses, ReviewTransaction(u, st)
      PROVE \E s \in Sessions : Pays(s, t)'
  BY <1>3, <1>7, ConstantsAssumption DEF ReviewTransaction, TypeOK
<1> QED
  BY <1>3, <1>4, <1>5, <1>6, <1>7
  DEF Next, Request, ReceiveWebhook, ManualVerify, AdminConfirm, Environment,
      InitiateDeposit, ConfirmSettlement, Blacklist, Unblacklist, Crash, vars,
      Step, LookupDeposit, InsertDeposit, VerifyDeposit, VerifyFails,
      MarkFailed, SettleDeposit, AmountMismatch, CreateSettlement,
      NotifyConfirmed, ConfirmFails, ManualInsert, ManualVerifyFails

\* DepositInv is inductive and holds of every account just opened.
THEOREM DepositInvariant == Spec => []DepositInv
<1>1. Init => DepositInv
  <2> SUFFICES ASSUME Init PROVE DepositInv
    OBVIOUS
  <2>1. TypeOK
    BY ConstantsAssumption DEF Init, TypeOK, NoDeposit, NoSettlement, Idle,
       Programs, Handler, DepositRow, SettlementRow, TxStatuses
  <2>2. InFlight /\ RowsOK
    BY DEF Init, InFlight, HandlerOK, RowsOK, Idle, OnSession, OnRow, Programs,
       NoDeposit, NoSettlement, Exists
  <2>3. CreditBacked /\ ConfirmedIsBacked
    BY ConstantsAssumption DEF Init, CreditBacked, ConfirmedIsBacked, NoSettlement
  <2> QED BY <2>1, <2>2, <2>3 DEF DepositInv
<1>2. DepositInv /\ [Next]_vars => DepositInv'
  BY TypeOKStep, InFlightStep, RowsOKStep, CreditBackedStep,
     ConfirmedIsBackedStep DEF DepositInv
<1> QED BY <1>1, <1>2, PTL DEF Spec

\* Rows and handlers keep the shape the schema and the code give them.
THEOREM TypeCorrect == Spec => []TypeOK
BY DepositInvariant, PTL DEF DepositInv

\* A confirmed settlement names a session the bank has answered for, and an
\* account and an expected amount that one notification, or the bank, named
\* together for it: no notification is compared with the bank's answer.
THEOREM CreditIsBacked == Spec => []CreditBacked
BY DepositInvariant, PTL DEF DepositInv

\* What a true credit needs besides: notifications that say what the bank
\* says.  Then a confirmed settlement names a transfer the bank made to its
\* transaction's own account, for an amount that is accepted.
THEOREM TruthfulNoticesSuffice ==
  ASSUME TruthfulNotices
  PROVE  Spec => []CreditIsTrue
<1>1. CreditBacked => CreditIsTrue
  <2> SUFFICES ASSUME CreditBacked, NEW t \in Txns, settlement[t].ref \in Sessions
               PROVE  AccountOf[settlement[t].ref] = t
                        /\ Matches(t, Posted[settlement[t].ref])
    BY DEF CreditIsTrue
  <2> DEFINE s == settlement[t].ref
  <2>1. Pays(s, t) /\ Sourced(s) BY DEF CreditBacked
  <2>2. RowSays(s) = BankSays(s)
    <3>1. RowSays(s).session = s BY DEF RowSays
    <3> QED BY <2>1, <3>1 DEF Sourced, TruthfulNotices
  <2>3. deposit[s].txn = AccountOf[s] /\ deposit[s].amount = Posted[s]
    BY <2>2 DEF RowSays, BankSays
  <2> QED BY <2>1, <2>3 DEF Pays
<1> QED BY <1>1, CreditIsBacked, PTL

\* DEPOSIT_CONFIRMED means a transfer that pays for the transaction or a
\* confirmation by staff.
THEOREM ConfirmationIsBacked == Spec => []ConfirmedIsBacked
BY DepositInvariant, PTL DEF DepositInv

-----------------------------------------------------------------------------
(* Refinement of CreditLedger                                              *)

credit == [t \in Txns |-> settlement[t].ref]

LEMMA CreditOne ==
  ASSUME TypeOK, NEW t \in Txns, NEW r,
         settlement' = [settlement EXCEPT ![t] = [status |-> "CONFIRMED", ref |-> r]]
  PROVE  credit' = [credit EXCEPT ![t] = r]
BY DEF TypeOK, credit

\* Every step is a credit by a transfer that may pay for the transaction, a
\* credit by staff, or none: a transfer never replaces an earlier credit.
LEMMA LedgerStep ==
  DepositInv /\ [Next]_vars => [Ledger!Next]_credit
<1> SUFFICES ASSUME DepositInv, [Next]_vars
             PROVE  Ledger!Next \/ UNCHANGED credit
  OBVIOUS
<1> USE DEF DepositInv, TypeOK, SettlementRow
<1>1. CASE UNCHANGED settlement BY <1>1 DEF credit
<1>2. ASSUME NEW w \in Workers, CreateSettlement(w)
      PROVE Ledger!Next \/ UNCHANGED credit
  <2> DEFINE t == req[w].txn
             s == req[w].session
  <2>1. CASE settlement[t].status = "NONE"
    <3>1. t \in Txns /\ s \in Sessions /\ s \in MayPay[t]
      <4>1. s \in Sessions /\ t \in Txns /\ Exists(s) /\ deposit[s].txn = t
            /\ Matches(t, deposit[s].amount)
        BY <1>2 DEF InFlight, HandlerOK, CreateSettlement, At, OnSession,
           OnRow, Programs
      <4>2. RowSays(s) \in Notices \cup {BankSays(s)}
        BY <4>1 DEF RowsOK, Sourced
      <4>3. RowSays(s).session = s /\ RowSays(s).txn = t
            /\ Matches(t, RowSays(s).amount)
        BY <4>1 DEF RowSays
      <4> HIDE DEF s, t
      <4> QED BY <4>1, <4>2, <4>3 DEF MayPay
    <3>2. credit[t] = Nil BY <2>1, <3>1 DEF RowsOK, credit
    <3>3. credit' = [credit EXCEPT ![t] = s]
      <4>1. settlement' = [settlement EXCEPT ![t] =
                             [status |-> "CONFIRMED", ref |-> s]]
        BY <1>2, <2>1 DEF CreateSettlement
      <4> QED BY <3>1, <4>1, CreditOne
    <3> HIDE DEF t, s
    <3> QED
      BY <3>1, <3>2, <3>3 DEF Ledger!Next, Ledger!CreditTransfer, credit
  <2>2. CASE settlement[t].status # "NONE"
    BY <1>1, <1>2, <2>2 DEF CreateSettlement
  <2> QED BY <2>1, <2>2
<1>3. ASSUME NEW t \in Txns,
             settlement' = [settlement EXCEPT ![t] =
                              [status |-> "CONFIRMED", ref |-> Staff]]
      PROVE Ledger!Next
  <2>1. credit' = [credit EXCEPT ![t] = Staff] BY <1>3, CreditOne
  <2>2. Ledger!CreditByStaff(t) BY <2>1 DEF Ledger!CreditByStaff, credit
  <2> QED BY <2>2 DEF Ledger!Next
<1>4. ASSUME NEW t \in Txns, InitiateDeposit(t) PROVE UNCHANGED credit
  BY <1>4 DEF InitiateDeposit, credit
<1> QED
  BY <1>1, <1>2, <1>3, <1>4
  DEF Next, Request, ReceiveWebhook, ManualVerify, AdminConfirm, Environment,
      ConfirmSettlement, Blacklist, Unblacklist, ReviewTransaction, Crash, vars,
      Step, LookupDeposit, InsertDeposit, VerifyDeposit, VerifyFails,
      MarkFailed, SettleDeposit, AmountMismatch, SetDepositPending,
      SetDepositConfirmed, NotifyConfirmed, ConfirmFails, ManualInsert, ManualVerifyFails,
      AdminSetConfirmed

\* The deposit side implements the ledger.
THEOREM ImplementsLedger == Spec => LedgerSpec
<1>1. Init => Ledger!Init
  BY DEF Init, Ledger!Init, NoSettlement
<1>2. DepositInv /\ [Next]_vars => [Ledger!Next]_credit
  BY LedgerStep
<1> QED
  BY <1>1, <1>2, DepositInvariant, PTL DEF Spec, LedgerSpec, Ledger!Spec, credit

-----------------------------------------------------------------------------
(* SettledIsCredited                                                       *)

\* The handlers on a webhook's row go on marking it FAILED when they throw.
LEMMA MarksStep ==
  ASSUME DepositInv, SettledInv, [Next]_vars, NEW w \in Workers
  PROVE  MarksOK(w)'
<1>1. TypeOK /\ RowsKept /\ HandlerOK(w) /\ MarksOK(w) /\ req[w] \in Handler
  BY RowsStep DEF DepositInv, InFlight, SettledInv, TypeOK
<1>2. CASE req'[w] = req[w]
  BY <1>1, <1>2 DEF MarksOK, HandlerOK, OnRow, OnSession, Programs, RowsKept
<1>3. CASE Step(w)
  <2>1. ASSUME NEW pc \in Programs, Goto(w, pc)
        PROVE req'[w] = [req[w] EXCEPT !.pc = pc]
    BY <1>1, <2>1 DEF Goto, TypeOK
  <2>2. ASSUME Return(w) PROVE req'[w].pc = "idle"
    BY <1>1, <2>2 DEF Return, Idle, TypeOK
  <2>3. CASE InsertDeposit(w)
    <3>1. CASE Return(w) BY <2>2, <3>1 DEF MarksOK, OnSession
    <3>2. CASE ~Return(w)
      <4>1. req'[w] = [req[w] EXCEPT !.pc = "verify", !.amount = Nil]
        BY <1>1, <2>3, <3>2 DEF InsertDeposit, TypeOK
      <4>2. req'[w].marksFailed = req[w].marksFailed BY <1>1, <4>1 DEF Handler
      <4>3. req[w].marksFailed
        BY <1>1, <2>3 DEF InsertDeposit, At, MarksOK, OnRow, OnSession, Programs
      <4> QED BY <4>2, <4>3 DEF MarksOK
    <3> QED BY <3>1, <3>2
  <2>4. CASE ManualInsert(w)
    <3>1. CASE Return(w) BY <2>2, <3>1 DEF MarksOK, OnSession
    <3>2. CASE ~Return(w)
      <4>1. req[w].session \in Sessions
        BY <1>1, <2>4 DEF ManualInsert, HandlerOK, At, OnSession, Programs
      <4>2. deposit'[req[w].session].origin = "manual"
        BY <1>1, <2>4, <3>2, <4>1 DEF ManualInsert, TypeOK
      <4>3. req'[w] = [req[w] EXCEPT !.pc = "compare"]
        BY <2>1, <2>4, <3>2 DEF ManualInsert, Programs
      <4> QED
        BY <1>1, <4>2, <4>3 DEF MarksOK, OnRow, OnSession, Programs, Handler
    <3> QED BY <3>1, <3>2
  <2>5. CASE LookupDeposit(w)
    BY <1>1, <2>1, <2>2, <2>5 DEF LookupDeposit, At, MarksOK, OnRow, OnSession,
       Programs, Handler
  <2>6. CASE ManualVerifyFails(w) \/ AdminSetConfirmed(w) \/ SetDepositPending(w)
             \/ MarkFailed(w)
    BY <2>2, <2>6 DEF ManualVerifyFails, AdminSetConfirmed, SetDepositPending,
       MarkFailed, MarksOK, OnSession
  <2>7. CASE req[w].pc \in OnRow
    <3>1. deposit'[req[w].session].origin = deposit[req[w].session].origin
      BY <1>1, <2>7 DEF HandlerOK, RowsKept, OnRow
    <3>2. ASSUME NEW pc \in OnRow, Goto(w, pc) PROVE MarksOK(w)'
      BY <1>1, <2>1, <2>7, <3>1, <3>2 DEF MarksOK, OnRow, OnSession, Handler,
         Programs
    <3>3. ASSUME Return(w) PROVE MarksOK(w)'
      BY <2>2, <3>3 DEF MarksOK, OnSession
    <3> QED
      BY <1>3, <2>3, <2>4, <2>5, <2>6, <2>7, <3>2, <3>3 DEF Step, Throw, OnRow, OnSession, Programs,
         VerifyDeposit, VerifyFails, SettleDeposit, AmountMismatch,
         SetDepositConfirmed, CreateSettlement, NotifyConfirmed, ConfirmFails
  <2> QED
    BY <1>3, <2>3, <2>4, <2>5, <2>6, <2>7 DEF Step, At, OnRow, OnSession,
       Programs, VerifyDeposit, VerifyFails, SettleDeposit, AmountMismatch,
       SetDepositConfirmed, CreateSettlement, NotifyConfirmed, ConfirmFails
<1>4. CASE Request(w)
  <2>1. ASSUME NEW s \in Sessions, ManualVerify(w, s) PROVE MarksOK(w)'
    <3>1. req'[w].pc = (IF Exists(s) THEN "verify" ELSE "manual")
          /\ req'[w].marksFailed = Exists(s)
      BY <1>1, <2>1 DEF ManualVerify, TypeOK
    <3>2. CASE Exists(s) BY <3>1, <3>2 DEF MarksOK
    <3>3. CASE ~Exists(s) BY <3>1, <3>3 DEF MarksOK
    <3> QED BY <3>2, <3>3
  <2>2. ASSUME NEW n \in Notices, ReceiveWebhook(w, n) PROVE MarksOK(w)'
    BY <1>1, <2>2 DEF ReceiveWebhook, MarksOK, TypeOK
  <2>3. ASSUME NEW t \in Txns, AdminConfirm(w, t) PROVE MarksOK(w)'
    BY <1>1, <2>3 DEF AdminConfirm, Idle, MarksOK, OnSession, TypeOK
  <2> QED BY <1>4, <2>1, <2>2, <2>3 DEF Request
<1>5. CASE \E v \in Workers : v # w /\ (Step(v) \/ Request(v))
  BY <1>1, <1>2, <1>5, OthersUnchanged
<1>6. CASE Crash
  BY <1>6 DEF Crash, Idle, MarksOK, OnSession
<1> QED
  BY <1>2, <1>3, <1>4, <1>5, <1>6 DEF Next, Environment, InitiateDeposit,
     ConfirmSettlement, Blacklist, Unblacklist, ReviewTransaction, vars

\* The only statement that sets SETTLED is confirmTransactionDeposit's, and
\* its handler goes on to the credit.
LEMMA BecomesSettled ==
  ASSUME DepositInv, [Next]_vars, NEW s \in Sessions,
         deposit'[s].status = "SETTLED"
  PROVE  \/ deposit[s].status = "SETTLED"
         \/ \E w \in Workers : req'[w].session = s /\ req'[w].pc = "confirm"
<1> USE DEF DepositInv, TypeOK
<1>1. CASE UNCHANGED deposit BY <1>1
<1>2. ASSUME NEW w \in Workers, SettleDeposit(w), req[w].session = s
      PROVE req'[w].session = s /\ req'[w].pc = "confirm"
  BY <1>2 DEF SettleDeposit, Goto, Handler
<1>3. ASSUME NEW w \in Workers, SettleDeposit(w), req[w].session # s
      PROVE deposit[s].status = "SETTLED"
  BY <1>3 DEF SettleDeposit
<1>4. ASSUME NEW w \in Workers,
             VerifyDeposit(w) \/ MarkFailed(w) \/ InsertDeposit(w) \/ ManualInsert(w)
      PROVE deposit[s].status = "SETTLED"
  BY <1>1, <1>4 DEF VerifyDeposit, MarkFailed, InsertDeposit, ManualInsert, DepositRow
<1> QED
  BY <1>1, <1>2, <1>3, <1>4
  DEF Next, Request, ReceiveWebhook, ManualVerify, AdminConfirm, Environment,
      InitiateDeposit, ConfirmSettlement, Blacklist, Unblacklist,
      ReviewTransaction, Crash, vars, Step, LookupDeposit, VerifyFails,
      AmountMismatch, SetDepositPending, SetDepositConfirmed, CreateSettlement,
      NotifyConfirmed, ConfirmFails, ManualVerifyFails, AdminSetConfirmed

\* A handler that leaves the way to the credit has credited or marked its row.
LEMMA SettledStep ==
  ASSUME DepositInv, SettledInv, [Next]_vars, ~MayCrash, NEW s \in Sessions
  PROVE  SettledOK(s)'
<1> SUFFICES ASSUME deposit'[s].status = "SETTLED", deposit'[s].origin = "webhook",
                    ~Credited(s)'
             PROVE  \E w \in Workers : req'[w].session = s
                      /\ req'[w].pc \in {"confirm", "credit", "failing"}
  BY DEF SettledOK
<1>1. TypeOK /\ InFlight /\ RowsKept /\ CreditsKept
  BY RowsStep, CreditsStep DEF DepositInv
<1> SUFFICES ASSUME deposit[s].status = "SETTLED"
             PROVE  \E w \in Workers : req'[w].session = s
                      /\ req'[w].pc \in {"confirm", "credit", "failing"}
  BY BecomesSettled
<1>2. deposit[s].origin = "webhook" /\ ~Credited(s)
  <2>1. Exists(s) /\ deposit[s].txn \in Txns BY RowTxn DEF Exists, DepositInv
  <2> QED
    BY <1>1, <2>1, ConstantsAssumption DEF RowsKept, CreditsKept, Credited
<1>3. PICK w \in Workers : req[w].session = s
                          /\ req[w].pc \in {"confirm", "credit", "failing"}
  BY <1>2 DEF SettledInv, SettledOK
<1> DEFINE t == deposit[s].txn
<1>4. req[w] \in Handler /\ req[w].txn = t /\ t \in Txns /\ deposit'[s].txn = t
  BY <1>1, <1>3 DEF TypeOK, InFlight, HandlerOK, OnRow, OnSession, Programs, RowsKept
<1>5. req[w].marksFailed
  BY <1>2, <1>3 DEF SettledInv, MarksOK, OnSession, Programs
<1>6. ASSUME NEW pc \in Programs, Goto(w, pc)
      PROVE req'[w].pc = pc /\ req'[w].session = s
  BY <1>1, <1>3, <1>4, <1>6 DEF Goto, TypeOK, Handler
<1>7. CASE Step(w)
  <2>1. CASE SetDepositConfirmed(w)
    BY <1>6, <2>1 DEF SetDepositConfirmed, Programs
  <2>2. CASE CreateSettlement(w)
    <3>1. CASE settlement[t].status = "NONE"
      <4>1. settlement'[t].ref = s
        BY <1>1, <1>3, <1>4, <2>2, <3>1 DEF CreateSettlement, TypeOK
      <4> QED BY <1>4, <4>1 DEF Credited
    <3>2. CASE settlement[t].status # "NONE"
      BY <1>4, <1>5, <1>6, <2>2, <3>2 DEF CreateSettlement, Throw, Programs
    <3> QED BY <3>1, <3>2
  <2>3. CASE MarkFailed(w)
    BY <1>1, <1>3, <2>3 DEF MarkFailed, TypeOK, DepositRow
  <2>4. CASE ConfirmFails(w)
    BY <1>5, <1>6, <2>4 DEF ConfirmFails, Throw, Programs
  <2> QED
    BY <1>3, <1>7, <2>1, <2>2, <2>3, <2>4 DEF Step, At, LookupDeposit, InsertDeposit,
       VerifyDeposit, VerifyFails, SettleDeposit, AmountMismatch,
       SetDepositPending, NotifyConfirmed, ConfirmFails, ManualInsert, ManualVerifyFails,
       AdminSetConfirmed
<1>8. CASE req'[w] = req[w] BY <1>3, <1>8
<1>9. CASE Request(w)
  BY <1>3, <1>9 DEF Request, ReceiveWebhook, ManualVerify, AdminConfirm, At
<1>10. CASE \E v \in Workers : v # w /\ (Step(v) \/ Request(v))
  BY <1>1, <1>8, <1>10, OthersUnchanged
<1> QED
  BY <1>7, <1>8, <1>9, <1>10
  DEF Next, Environment, InitiateDeposit, ConfirmSettlement, Blacklist,
      Unblacklist, ReviewTransaction, Crash, vars

\* While the process does not die, a notified deposit that is SETTLED and that
\* no handler works on is the one its transaction is credited with.
THEOREM SettledMeansCredited ==
  ASSUME ~MayCrash
  PROVE  Spec => []SettledIsCredited
<1>1. Init => SettledInv
  BY DEF Init, SettledInv, MarksOK, SettledOK, Idle, NoDeposit, OnSession
<1>2. DepositInv /\ SettledInv /\ [Next]_vars => SettledInv'
  BY MarksStep, SettledStep DEF SettledInv
<1>3. SettledInv => SettledIsCredited
  BY DEF SettledInv, SettledOK, SettledIsCredited, Working
<1> QED BY <1>1, <1>2, <1>3, DepositInvariant, PTL DEF Spec
=============================================================================
