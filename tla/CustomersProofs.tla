--------------------------- MODULE CustomersProofs ---------------------------
(***************************************************************************)
(* What Customers keeps, for any transactions, account numbers, users,     *)
(* devices, outlets, agents and handlers: each of its three parts has an   *)
(* inductive invariant, and a behaviour of the whole is one of each.       *)
(***************************************************************************)
EXTENDS Customers, TLAPS

-----------------------------------------------------------------------------
(* Virtual accounts                                                        *)

\* The actions of one handler.
Acts(w) ==
  \/ \E t \in Txns : CustomerRequest(w, t) \/ AdminRequest(w, t)
  \/ CustomerLookup(w) \/ Deactivate(w) \/ LookupAccount(w)
  \/ ReadTransaction(w) \/ InsertAccount(w) \/ SetAwaitingDeposit(w)
  \/ MarkRow(w) \/ StepFails(w)
  \/ \E n \in Numbers : \/ OpenAccount(w, n) \/ OpenedInVain(w, n)
                        \/ \E block \in BOOLEAN : AskBank(w, n, block)

\* What is written of the rows and the bank is never taken back: a number keeps
\* its owner, a row its number.
Kept ==
  /\ \A n \in Numbers : Opened(n) => bank'[n].owner = bank[n].owner
  /\ \A t \in Txns : Exists(t) => row'[t].status # "NONE" /\ row'[t].number = row[t].number

RowsOK ==
  /\ row \in [Txns -> RowType]
  /\ \A t \in Txns : ~Exists(t) => row[t] = NoRow
  /\ \A t \in Txns : Exists(t) => row[t].number \in Numbers
  /\ BlacklistedNotActive

\* A statement that updates some rows, each in one of the ways the code does.
LEMMA RowsUpdated ==
  ASSUME RowsOK, row' \in [Txns -> RowType],
         \A t \in Txns :
           \/ row'[t] = row[t]
           \/ /\ Exists(t) /\ row'[t].number = row[t].number
              /\ row'[t].status # "NONE"
              /\ row'[t].blacklisted = TRUE => row'[t].status # "ACTIVE"
  PROVE  /\ RowsOK'
         /\ \A t \in Txns : Exists(t) =>
              row'[t].status # "NONE" /\ row'[t].number = row[t].number
         /\ \A t \in Txns : ~Exists(t) => row'[t].status = "NONE"
BY DEF RowsOK, Exists, BlacklistedNotActive

LEMMA RowsStep ==
  AccountInv /\ [Next]_vars
    => /\ RowsOK'
       /\ \A t \in Txns : Exists(t) =>
            row'[t].status # "NONE" /\ row'[t].number = row[t].number
       /\ \A t \in Txns : ~Exists(t) =>
            \/ row'[t].status = "NONE"
            \/ \E w \in Workers : InsertAccount(w) /\ req[w].txn = t
<1> DEFINE Goal == /\ RowsOK'
                   /\ \A t \in Txns : Exists(t) =>
                        row'[t].status # "NONE" /\ row'[t].number = row[t].number
                   /\ \A t \in Txns : ~Exists(t) =>
                        \/ row'[t].status = "NONE"
                        \/ \E w \in Workers : InsertAccount(w) /\ req[w].txn = t
<1> SUFFICES ASSUME AccountInv, [Next]_vars PROVE Goal
  OBVIOUS
<1>0. /\ RowsOK /\ row \in [Txns -> RowType]
      /\ \A w \in Workers : HandlerOK(w)
  BY DEF AccountInv, TypeOK, RowsOK, AwaitingHasAccount
<1>1. CASE UNCHANGED row
  BY <1>0, <1>1 DEF RowsOK, Exists, BlacklistedNotActive
<1>2. ASSUME NEW w \in Workers, Deactivate(w) PROVE Goal
  <2> DEFINE t == req[w].txn
  <2>1. t \in Txns /\ Exists(t)
    BY <1>0, <1>2 DEF Deactivate, At, HandlerOK, Creating
  <2>2. row' = [row EXCEPT ![t] = [row[t] EXCEPT !.status = "INACTIVE"]]
    BY <1>2 DEF Deactivate
  <2> HIDE DEF t
  <2>3. row' \in [Txns -> RowType] BY <1>0, <2>1, <2>2 DEF RowType
  <2>4. \A u \in Txns :
          \/ row'[u] = row[u]
          \/ u = t /\ row'[u].status = "INACTIVE" /\ row'[u].number = row[u].number
    BY <1>0, <2>1, <2>2 DEF RowType
  <2> QED BY <1>0, <2>1, <2>3, <2>4, RowsUpdated
<1>3. ASSUME NEW w \in Workers, InsertAccount(w) PROVE Goal
  <2> DEFINE t == req[w].txn
  <2>1. t \in Txns /\ req[w].number \in Numbers
    BY <1>0, <1>3 DEF InsertAccount, At, HandlerOK
  <2>2. CASE Exists(t) BY <1>1, <1>3, <2>2 DEF InsertAccount
  <2>3. CASE ~Exists(t)
    <3>1. row' = [row EXCEPT ![t] = NewRow(req[w].number)]
      BY <1>3, <2>3 DEF InsertAccount
    <3>2. row' \in [Txns -> RowType]
      BY <1>0, <2>1, <3>1 DEF NewRow, RowType
    <3>3. \A u \in Txns : u # t => row'[u] = row[u]
      BY <1>0, <3>1
    <3>4. /\ row'[t].status = "ACTIVE" /\ row'[t].number \in Numbers
          /\ row'[t].blacklisted = FALSE
      BY <1>0, <2>1, <3>1 DEF NewRow
    <3> QED
      BY <1>0, <1>3, <2>3, <3>2, <3>3, <3>4 DEF RowsOK, Exists, BlacklistedNotActive
  <2> QED BY <2>2, <2>3
<1>4. ASSUME NEW w \in Workers, MarkRow(w) PROVE Goal
  <2> DEFINE n == req[w].number
             b == req[w].block
  <2>1. n \in Numbers BY <1>0, <1>4 DEF MarkRow, At, HandlerOK
  <2>2. b \in BOOLEAN BY DEF AccountInv, TypeOK, Handler
  <2>3. row' = [t \in Txns |-> IF row[t].number = n THEN Marked(row[t], b) ELSE row[t]]
    BY <1>4 DEF MarkRow
  <2> HIDE DEF n, b
  <2>4. \A t \in Txns : row[t].number = n => Exists(t)
    BY <1>0, <2>1, VirtualAccountsAssumption DEF RowsOK, NoRow
  <2>5. ASSUME NEW r \in RowType
        PROVE /\ Marked(r, b) \in RowType /\ Marked(r, b).number = r.number
              /\ Marked(r, b).status # "NONE"
              /\ Marked(r, b).blacklisted = TRUE => Marked(r, b).status # "ACTIVE"
    <3>1. CASE b = TRUE BY <3>1 DEF Marked, RowType
    <3>2. CASE b = FALSE BY <3>2 DEF Marked, RowType
    <3> QED BY <2>2, <3>1, <3>2
  <2>6. row' \in [Txns -> RowType] BY <1>0, <2>3, <2>5
  <2>7. \A t \in Txns : row'[t] = row[t] \/ (Exists(t) /\ row'[t] = Marked(row[t], b))
    BY <2>3, <2>4
  <2>8. ASSUME NEW t \in Txns
        PROVE  \/ row'[t] = row[t]
               \/ /\ Exists(t) /\ row'[t].number = row[t].number
                  /\ row'[t].status # "NONE"
                  /\ row'[t].blacklisted = TRUE => row'[t].status # "ACTIVE"
    <3>1. row[t] \in RowType BY <1>0
    <3>2. CASE row'[t] = row[t] BY <3>2
    <3>3. CASE Exists(t) /\ row'[t] = Marked(row[t], b) BY ONLY <2>5, <3>1, <3>3
    <3> QED BY <2>7, <3>2, <3>3
  <2> QED BY <1>0, <2>6, <2>8, RowsUpdated
<1>5. CASE DeactivateExpired
  <2>1. \A t \in Txns : row'[t] =
          IF row[t].status = "ACTIVE" /\ row[t].expired
          THEN [row[t] EXCEPT !.status = "INACTIVE"] ELSE row[t]
    BY <1>5 DEF DeactivateExpired
  <2>2. ASSUME NEW t \in Txns
        PROVE /\ row'[t] \in RowType
              /\ \/ row'[t] = row[t]
                 \/ /\ Exists(t) /\ row'[t].status = "INACTIVE"
                    /\ row'[t].number = row[t].number
    BY <1>0, <2>1 DEF RowType, Exists
  <2>3. row' \in [Txns -> RowType] BY <1>5, <2>2 DEF DeactivateExpired
  <2> QED BY <1>0, <2>2, <2>3, RowsUpdated
<1>6. ASSUME NEW t \in Txns, Expire(t) PROVE Goal
  <2>1. row' = [row EXCEPT ![t] = [row[t] EXCEPT !.expired = TRUE]] /\ Exists(t)
    BY <1>6 DEF Expire
  <2>2. row' \in [Txns -> RowType] BY <1>0, <2>1 DEF RowType
  <2>3. ASSUME NEW u \in Txns
        PROVE \/ row'[u] = row[u]
              \/ /\ u = t /\ row'[u].status = row[u].status
                 /\ row'[u].number = row[u].number
                 /\ row'[u].blacklisted = row[u].blacklisted
    BY <1>0, <2>1 DEF RowType
  <2>4. row[t].blacklisted => row[t].status # "ACTIVE"
    BY <1>0 DEF RowsOK, BlacklistedNotActive
  <2>5. row[t].status # "NONE" BY <2>1 DEF Exists
  <2> QED BY <1>0, <2>1, <2>2, <2>3, <2>4, <2>5, RowsUpdated
<1> QED
  BY <1>1, <1>2, <1>3, <1>4, <1>5, <1>6
  DEF Next, Works, Fails, CustomerRequest, AdminRequest, CustomerLookup, LookupAccount,
      ReadTransaction, SetAwaitingDeposit, StepFails, OpenAccount,
      OpenedInVain, AskBank, Review, vars

-----------------------------------------------------------------------------
(* The bank, the transactions and the handlers                             *)

\* The bank opens an account once.
LEMMA BankStep ==
  AccountInv /\ [Next]_vars
    => /\ bank' \in [Numbers -> [owner : Txns \cup {Nil}, blocked : BOOLEAN]]
       /\ \A n \in Numbers : Opened(n) => bank'[n].owner = bank[n].owner
<1> DEFINE Bank == [owner : Txns \cup {Nil}, blocked : BOOLEAN]
           Goal == /\ bank' \in [Numbers -> Bank]
                   /\ \A n \in Numbers : Opened(n) => bank'[n].owner = bank[n].owner
<1> SUFFICES ASSUME AccountInv, [Next]_vars PROVE Goal
  OBVIOUS
<1>0. bank \in [Numbers -> Bank] /\ \A w \in Workers : HandlerOK(w)
  BY DEF AccountInv, TypeOK
<1>1. CASE UNCHANGED bank BY <1>0, <1>1
<1>2. ASSUME NEW w \in Workers, NEW n \in Numbers,
             OpenAccount(w, n) \/ OpenedInVain(w, n)
      PROVE Goal
  <2>1. req[w].txn \in Txns
    BY <1>0, <1>2 DEF OpenAccount, OpenedInVain, At, HandlerOK, Creating
  <2>2. ~Opened(n) /\ bank' = [bank EXCEPT ![n] = [bank[n] EXCEPT !.owner = req[w].txn]]
    BY <1>2 DEF OpenAccount, OpenedInVain
  <2> QED BY <1>0, <2>1, <2>2
<1>3. ASSUME NEW w \in Workers, NEW n \in Numbers, NEW block \in BOOLEAN,
             AskBank(w, n, block)
      PROVE Goal
  <2>1. bank' = [bank EXCEPT ![n] = [bank[n] EXCEPT !.blocked = block]]
    BY <1>3 DEF AskBank
  <2>2. bank[n] \in Bank BY <1>0
  <2>3. /\ [bank[n] EXCEPT !.blocked = block] \in Bank
        /\ [bank[n] EXCEPT !.blocked = block].owner = bank[n].owner
    BY <2>2
  <2> QED BY <1>0, <2>1, <2>3
<1> QED
  BY <1>1, <1>2, <1>3
  DEF Next, Works, Fails, CustomerRequest, AdminRequest, CustomerLookup, Deactivate,
      LookupAccount, ReadTransaction, InsertAccount, SetAwaitingDeposit,
      MarkRow, StepFails, DeactivateExpired, Expire, Review, vars

LEMMA KeptStep == AccountInv /\ [Next]_vars => Kept
BY RowsStep, BankStep DEF Kept

\* What a handler knows survives the steps of the others.
LEMMA OtherHandler ==
  ASSUME AccountInv, Kept, NEW w \in Workers, req'[w] = req[w]
  PROVE  HandlerOK(w)'
<1>1. HandlerOK(w) BY DEF AccountInv
<1>2. ASSUME NEW n \in Numbers, NEW t \in Txns, bank[n].owner = t
      PROVE bank'[n].owner = t
  BY <1>2, VirtualAccountsAssumption DEF Kept, Opened
<1> QED BY <1>1, <1>2 DEF HandlerOK, Kept, Exists, Creating

\* The local state a handler's own step leaves it with.
LEMMA OwnStep ==
  ASSUME AccountInv, Kept, NEW w \in Workers, Acts(w)
  PROVE  req' \in [Workers -> Handler] /\ HandlerOK(w)'
<1>0. /\ req \in [Workers -> Handler] /\ req[w] \in Handler /\ HandlerOK(w)
      /\ row \in [Txns -> RowType]
      /\ bank \in [Numbers -> [owner : Txns \cup {Nil}, blocked : BOOLEAN]]
  BY DEF AccountInv, TypeOK
<1>1. CASE Return(w)
  BY <1>0, <1>1 DEF Return, Idle, Handler, HandlerOK, Creating
<1>2. ASSUME NEW pc \in {"customer", "lookup"}, NEW t \in Txns,
             req' = [req EXCEPT ![w] = [Idle EXCEPT !.pc = pc, !.txn = t]]
      PROVE req' \in [Workers -> Handler] /\ HandlerOK(w)'
  BY <1>0, <1>2 DEF Idle, Handler, HandlerOK, Creating
<1>3. ASSUME NEW pc \in {"lookup", "renew", "read", "open"}, Goto(w, pc),
             req[w].pc \in Creating
      PROVE req' \in [Workers -> Handler] /\ HandlerOK(w)'
  <2>1. req[w].txn \in Txns BY <1>0, <1>3 DEF HandlerOK
  <2>2. req' = [req EXCEPT ![w] = [req[w] EXCEPT !.pc = pc]] BY <1>3 DEF Goto
  <2> QED BY <1>0, <2>1, <2>2 DEF Handler, HandlerOK, Creating
<1>4. CASE CustomerLookup(w) /\ Goto(w, "deactivate") /\ Exists(req[w].txn)
  <2>1. req[w].txn \in Txns BY <1>0, <1>4 DEF CustomerLookup, At, HandlerOK, Creating
  <2>2. req' = [req EXCEPT ![w] = [req[w] EXCEPT !.pc = "deactivate"]]
    BY <1>4 DEF Goto
  <2> QED BY <1>0, <1>4, <2>1, <2>2 DEF Kept, Exists, Handler, HandlerOK, Creating
<1>5. ASSUME NEW n \in Numbers, OpenAccount(w, n)
      PROVE req' \in [Workers -> Handler] /\ HandlerOK(w)'
  <2>1. req[w].txn \in Txns BY <1>0, <1>5 DEF OpenAccount, At, HandlerOK, Creating
  <2>2. req' = [req EXCEPT ![w] = [req[w] EXCEPT !.pc = "insert", !.number = n]]
    BY <1>5 DEF OpenAccount
  <2>3. bank'[n].owner = req[w].txn BY <1>0, <1>5 DEF OpenAccount
  <2> QED BY <1>0, <2>1, <2>2, <2>3 DEF Handler, HandlerOK, Creating
<1>6. CASE InsertAccount(w) /\ Goto(w, "await")
  <2>1. req[w].txn \in Txns BY <1>0, <1>6 DEF InsertAccount, At, HandlerOK
  <2>2. req' = [req EXCEPT ![w] = [req[w] EXCEPT !.pc = "await"]]
    BY <1>6 DEF Goto
  <2>3. Exists(req[w].txn)'
    BY <1>0, <1>1, <1>6, <2>1, <2>2
    DEF InsertAccount, NewRow, Exists, Kept, Return, Idle
  <2> QED BY <1>0, <2>1, <2>2, <2>3 DEF Handler, HandlerOK, Exists, Creating
<1>7. ASSUME NEW n \in Numbers, NEW block \in BOOLEAN, AskBank(w, n, block)
      PROVE req' \in [Workers -> Handler] /\ HandlerOK(w)'
  BY <1>0, <1>7 DEF AskBank, Idle, Handler, HandlerOK, Creating
<1>8. ASSUME CustomerLookup(w) PROVE req' \in [Workers -> Handler] /\ HandlerOK(w)'
  <2>1. CASE row[req[w].txn].status = "NONE"
    <3>1. req[w].txn \in Txns
      BY <1>0, <1>8 DEF CustomerLookup, At, HandlerOK, Creating
    <3>2. ~row[req[w].txn].expired
      BY <2>1, <3>1 DEF AccountInv, Exists, NoRow
    <3>3. Goto(w, "lookup") BY <1>8, <2>1, <3>2 DEF CustomerLookup
    <3> QED BY <1>3, <1>8, <3>3 DEF CustomerLookup, At, Creating
  <2>2. CASE row[req[w].txn].status # "NONE" /\ row[req[w].txn].expired
    BY <1>4, <1>8, <2>2 DEF CustomerLookup, Exists
  <2>3. CASE row[req[w].txn].status # "NONE" /\ ~row[req[w].txn].expired
    BY <1>1, <1>8, <2>3 DEF CustomerLookup
  <2> QED BY <2>1, <2>2, <2>3
<1>9. ASSUME NEW t \in Txns, CustomerRequest(w, t) \/ AdminRequest(w, t)
      PROVE req' \in [Workers -> Handler] /\ HandlerOK(w)'
  BY <1>2, <1>9 DEF CustomerRequest, AdminRequest
<1>10. ASSUME \/ Deactivate(w) \/ LookupAccount(w) \/ ReadTransaction(w)
       PROVE req' \in [Workers -> Handler] /\ HandlerOK(w)'
  BY <1>1, <1>3, <1>10 DEF Deactivate, LookupAccount, ReadTransaction, At, Creating
<1> QED
  BY <1>1, <1>5, <1>6, <1>7, <1>8, <1>9, <1>10
  DEF Acts, InsertAccount, SetAwaitingDeposit, MarkRow, StepFails, OpenedInVain

\* A step of one handler leaves the local state of the others alone.
LEMMA OthersUnchanged ==
  ASSUME AccountInv, NEW w \in Workers, NEW v \in Workers, v # w, Acts(w)
  PROVE  req'[v] = req[v]
BY DEF AccountInv, TypeOK, Acts, Goto, Return, CustomerRequest, AdminRequest,
   CustomerLookup, Deactivate, LookupAccount, ReadTransaction, InsertAccount,
   SetAwaitingDeposit, MarkRow, StepFails, OpenAccount, OpenedInVain, AskBank

LEMMA HandlersStep ==
  AccountInv /\ [Next]_vars
    => req' \in [Workers -> Handler] /\ \A w \in Workers : HandlerOK(w)'
<1> SUFFICES ASSUME AccountInv, [Next]_vars
             PROVE  req' \in [Workers -> Handler] /\ \A w \in Workers : HandlerOK(w)'
  OBVIOUS
<1>0. Kept /\ req \in [Workers -> Handler] BY KeptStep DEF AccountInv, TypeOK
<1>1. CASE UNCHANGED req BY <1>0, <1>1, OtherHandler
<1>2. ASSUME NEW w \in Workers, Acts(w)
      PROVE req' \in [Workers -> Handler] /\ \A v \in Workers : HandlerOK(v)'
  <2>1. req' \in [Workers -> Handler] /\ HandlerOK(w)' BY <1>0, <1>2, OwnStep
  <2>2. ASSUME NEW v \in Workers, v # w PROVE HandlerOK(v)'
    BY <1>0, <1>2, <2>2, OthersUnchanged, OtherHandler
  <2> QED BY <2>1, <2>2
<1> QED
  BY <1>1, <1>2 DEF Next, Works, Fails, Acts, DeactivateExpired, Expire, Review, vars

LEMMA StatusStep ==
  AccountInv /\ [Next]_vars
    => /\ txStatus' \in [Txns -> {"REVIEW", "APPROVED", "REJECTED", "AWAITING_DEPOSIT"}]
       /\ \A t \in Txns : txStatus'[t] = "AWAITING_DEPOSIT" =>
            txStatus[t] = "AWAITING_DEPOSIT" \/ Exists(t)
<1> DEFINE Goal ==
      /\ txStatus' \in [Txns -> {"REVIEW", "APPROVED", "REJECTED", "AWAITING_DEPOSIT"}]
      /\ \A t \in Txns : txStatus'[t] = "AWAITING_DEPOSIT" =>
           txStatus[t] = "AWAITING_DEPOSIT" \/ Exists(t)
<1> SUFFICES ASSUME AccountInv, [Next]_vars PROVE Goal
  OBVIOUS
<1>0. /\ txStatus \in [Txns -> {"REVIEW", "APPROVED", "REJECTED", "AWAITING_DEPOSIT"}]
      /\ \A w \in Workers : HandlerOK(w)
  BY DEF AccountInv, TypeOK
<1>1. CASE UNCHANGED txStatus BY <1>0, <1>1
<1>2. ASSUME NEW w \in Workers, SetAwaitingDeposit(w) PROVE Goal
  <2>1. req[w].txn \in Txns /\ Exists(req[w].txn)
    BY <1>0, <1>2 DEF SetAwaitingDeposit, At, HandlerOK
  <2> QED BY <1>0, <1>2, <2>1 DEF SetAwaitingDeposit
<1>3. ASSUME NEW t \in Txns, Review(t, "APPROVED") \/ Review(t, "REJECTED") PROVE Goal
  BY <1>0, <1>3 DEF Review
<1> QED
  BY <1>1, <1>2, <1>3
  DEF Next, Works, Fails, CustomerRequest, AdminRequest, CustomerLookup, Deactivate,
      LookupAccount, ReadTransaction, InsertAccount, MarkRow, StepFails,
      OpenAccount, OpenedInVain, AskBank, DeactivateExpired, Expire, vars

-----------------------------------------------------------------------------
(* The theorems                                                            *)

\* AccountInv holds in every reachable state of virtual-account.service.ts,
\* however requests, failures, expiries and reviews interleave.
THEOREM AccountInvariant == Spec => []AccountInv
<1>1. Init => AccountInv
  BY VirtualAccountsAssumption
  DEF Init, AccountInv, TypeOK, RowType, Handler, HandlerOK, NoRow, NotOpened,
      Idle, Exists, Creating, AwaitingHasAccount, BlacklistedNotActive
<1>2. AccountInv /\ [Next]_vars => AccountInv'
  <2> SUFFICES ASSUME AccountInv, [Next]_vars PROVE AccountInv'
    OBVIOUS
  <2>1. RowsOK' /\ Kept BY RowsStep, KeptStep
  <2>2. bank' \in [Numbers -> [owner : Txns \cup {Nil}, blocked : BOOLEAN]]
    BY BankStep
  <2>3. req' \in [Workers -> Handler] /\ \A w \in Workers : HandlerOK(w)'
    BY HandlersStep
  <2>4. /\ txStatus' \in [Txns -> {"REVIEW", "APPROVED", "REJECTED", "AWAITING_DEPOSIT"}]
        /\ \A t \in Txns : txStatus'[t] = "AWAITING_DEPOSIT" => Exists(t)'
    BY StatusStep, <2>1 DEF Kept, Exists, AccountInv, AwaitingHasAccount
  <2>5. ASSUME NEW t \in Txns, Exists(t)'
        PROVE row'[t].number \in Numbers /\ bank'[row'[t].number].owner = t
    <3>1. row'[t].number \in Numbers BY <2>1, <2>5 DEF RowsOK, Exists
    <3>2. CASE Exists(t)
      BY <2>1, <3>2, VirtualAccountsAssumption
      DEF Kept, AccountInv, AwaitingHasAccount, Opened
    <3>3. CASE ~Exists(t)
      <4>1. PICK w \in Workers : InsertAccount(w) /\ req[w].txn = t
        BY <2>5, <3>3, RowsStep DEF Exists
      <4>2. bank[req[w].number].owner = t
        BY <4>1 DEF InsertAccount, At, HandlerOK, AccountInv
      <4>3. row'[t].number = req[w].number /\ bank' = bank
        BY <3>3, <4>1 DEF InsertAccount, NewRow, AccountInv, TypeOK
      <4> QED BY <3>1, <4>2, <4>3
    <3> QED BY <3>1, <3>2, <3>3
  <2> QED
    BY <2>1, <2>2, <2>3, <2>4, <2>5
    DEF AccountInv, TypeOK, RowsOK, Exists, AwaitingHasAccount
<1> QED BY <1>1, <1>2, PTL DEF Spec

\* A transaction that awaits a deposit has an account, the bank's for it alone
\* (createVirtualAccount stores the row before it sets the status).
THEOREM AwaitingNeedsAccount == Spec => []AwaitingHasAccount
<1>1. AccountInv => AwaitingHasAccount BY DEF AccountInv
<1> QED BY <1>1, AccountInvariant, PTL

\* Blacklisting, deactivation and release never leave a blacklisted row ACTIVE.
THEOREM BlacklistedStaysInactive == Spec => []BlacklistedNotActive
<1>1. AccountInv => BlacklistedNotActive BY DEF AccountInv
<1> QED BY <1>1, AccountInvariant, PTL

\* The unique key on transactionId alone keeps a stored number: the loser of a
\* race between two creations does not replace it.
THEOREM NumbersAreKept == Spec => NumberIsKept
<1>1. AccountInv /\ [Next]_vars
        => [\A t \in Txns : Exists(t) => row'[t].number = row[t].number]_vars
  BY KeptStep DEF Kept
<1> QED BY <1>1, AccountInvariant, PTL DEF Spec, NumberIsKept

-----------------------------------------------------------------------------
(* Requests that do not overlap or fail                                    *)

\* The handler that takes a step is the only one in flight.
OnlyOne(w) ==
  \A v \in Workers : v # w => req[v].pc = "idle" /\ req'[v] = req[v]

\* What calm means for the handlers, the numbers and the accounts in turn.
HandlersCalm ==
  \A w \in Workers :
    /\ req[w].pc \in {"read", "open", "insert"} => row[req[w].txn].status = "NONE"
    /\ req[w].pc = "insert" => ~bank[req[w].number].blocked
    /\ req[w].pc = "mark" => bank[req[w].number].blocked = req[w].block
NumberCalm(n) ==
  IF bank[n].owner # Nil
  THEN \/ \E t \in Txns : row[t].number = n
       \/ \E w \in Workers : req[w].pc = "insert" /\ req[w].number = n
  ELSE ~bank[n].blocked
AccountCalm(t) ==
  row[t].status # "NONE" =>
    \/ row[t].blacklisted = bank[row[t].number].blocked
    \/ \E w \in Workers : req[w].pc = "mark" /\ req[w].number = row[t].number
AllCalm ==
  /\ Alone
  /\ HandlersCalm
  /\ \A n \in Numbers : NumberCalm(n)
  /\ \A t \in Txns : AccountCalm(t)

LEMMA UndisturbedParts == Undisturbed <=> (calm => AllCalm)
<1>1. Undisturbed => (calm => AllCalm)
  BY DEF Undisturbed, AllCalm, HandlersCalm, NumberCalm, AccountCalm, Exists, Opened, At
<1>2. (calm => AllCalm) => Undisturbed
  BY DEF Undisturbed, AllCalm, HandlersCalm, NumberCalm, AccountCalm, Exists, Opened, At
<1> QED BY <1>1, <1>2

\* A step that leaves the bank alone, and of the rows what calm speaks of.
LEMMA Alike ==
  ASSUME AllCalm, Alone', UNCHANGED bank,
         \A t \in Txns :
           /\ row'[t].status = "NONE" <=> row[t].status = "NONE"
           /\ row'[t].number = row[t].number
           /\ row'[t].blacklisted = row[t].blacklisted,
         \A w \in Workers :
           \/ req'[w] = req[w] /\ (req[w].pc # "idle" => req[w].pc = "mark" \/ req[w].txn \in Txns)
           \/ /\ req[w].pc \notin {"insert", "mark"}
              /\ req'[w].pc \notin {"insert", "mark"}
              /\ req'[w].pc \in {"read", "open"} =>
                   req'[w].txn \in Txns /\ row[req'[w].txn].status = "NONE"
  PROVE  AllCalm'
<1>1. HandlersCalm'
  BY DEF AllCalm, HandlersCalm
<1>2. ASSUME NEW n \in Numbers PROVE NumberCalm(n)'
  BY DEF AllCalm, NumberCalm
<1>3. ASSUME NEW t \in Txns PROVE AccountCalm(t)'
  BY DEF AllCalm, AccountCalm
<1> QED BY <1>1, <1>2, <1>3 DEF AllCalm

LEMMA StepAlone ==
  ASSUME AccountInv, Alone, Alone', NEW w \in Workers, NEW h, req' = [req EXCEPT ![w] = h],
         req[w].pc # "idle" \/ h.pc # "idle"
  PROVE  OnlyOne(w) /\ req'[w] = h
<1>1. /\ req'[w] = h
      /\ \A v \in Workers : v # w => req'[v] = req[v]
  BY DEF AccountInv, TypeOK
<1> QED BY <1>1 DEF OnlyOne, Alone, At

LEMMA CalmOpen ==
  ASSUME AccountInv, AllCalm, Alone', NEW w \in Workers, NEW n \in Numbers, OpenAccount(w, n)
  PROVE  AllCalm'
<1> DEFINE h == [req[w] EXCEPT !.pc = "insert", !.number = n]
<1>1. req[w] \in Handler /\ HandlerOK(w) /\ req[w].pc = "open"
  BY DEF AccountInv, TypeOK, OpenAccount, At
<1>2. req[w].txn \in Txns BY <1>1 DEF HandlerOK, Creating
<1>3. req' = [req EXCEPT ![w] = h] BY DEF OpenAccount
<1>4. h.pc = "insert" /\ h.number = n /\ h.txn = req[w].txn BY <1>1 DEF Handler
<1> HIDE DEF h
<1>5. OnlyOne(w) /\ req'[w] = h BY <1>1, <1>3, StepAlone DEF AllCalm
<1>6. /\ bank[n].owner = Nil /\ UNCHANGED row
      /\ bank' = [bank EXCEPT ![n] = [bank[n] EXCEPT !.owner = req[w].txn]]
  BY DEF OpenAccount, Opened
<1>7. /\ \A m \in Numbers : m # n => bank'[m] = bank[m]
      /\ bank'[n].owner = req[w].txn /\ bank'[n].blocked = bank[n].blocked
  BY <1>6 DEF AccountInv, TypeOK
<1>8. ~bank[n].blocked BY <1>6 DEF AllCalm, NumberCalm
<1>9. HandlersCalm'
  BY <1>1, <1>4, <1>5, <1>6, <1>7, <1>8 DEF AllCalm, HandlersCalm, OnlyOne
<1>10. ASSUME NEW m \in Numbers PROVE NumberCalm(m)'
  <2>1. CASE m = n
    BY <1>2, <1>4, <1>5, <1>7, <2>1, VirtualAccountsAssumption DEF NumberCalm
  <2>2. CASE m # n
    BY <1>1, <1>5, <1>6, <1>7, <2>2 DEF AllCalm, NumberCalm, OnlyOne
  <2> QED BY <2>1, <2>2
<1>11. ASSUME NEW t \in Txns PROVE AccountCalm(t)'
  <2>1. Exists(t) => row[t].number # n /\ row[t].number \in Numbers
    BY <1>6, VirtualAccountsAssumption DEF AccountInv, AwaitingHasAccount
  <2> QED BY <1>1, <1>5, <1>6, <1>7, <2>1 DEF AllCalm, AccountCalm, OnlyOne, Exists
<1> QED BY <1>9, <1>10, <1>11 DEF AllCalm

LEMMA CalmInsert ==
  ASSUME AccountInv, AllCalm, Alone', NEW w \in Workers, InsertAccount(w)
  PROVE  AllCalm'
<1> DEFINE t == req[w].txn
           n == req[w].number
           h == [req[w] EXCEPT !.pc = "await"]
<1>1. req[w] \in Handler /\ HandlerOK(w) /\ req[w].pc = "insert"
  BY DEF AccountInv, TypeOK, InsertAccount, At
<1>2. t \in Txns /\ n \in Numbers BY <1>1 DEF HandlerOK
<1>3. row[t].status = "NONE" /\ ~bank[n].blocked BY <1>1 DEF AllCalm, HandlersCalm
<1>4. row' = [row EXCEPT ![t] = NewRow(n)] /\ req' = [req EXCEPT ![w] = h] /\ UNCHANGED bank
  BY <1>3 DEF InsertAccount, Exists, Goto
<1>5. h.pc = "await" BY <1>1 DEF Handler
<1> HIDE DEF h
<1>6. OnlyOne(w) /\ req'[w] = h BY <1>1, <1>4, StepAlone DEF AllCalm
<1>7. /\ row'[t].status = "ACTIVE" /\ row'[t].number = n /\ row'[t].blacklisted = FALSE
      /\ \A u \in Txns : u # t => row'[u] = row[u]
  BY <1>2, <1>4 DEF AccountInv, TypeOK, NewRow
<1>8. row[t].number = Nil BY <1>2, <1>3 DEF AccountInv, Exists, NoRow
<1>9. HandlersCalm'
  BY <1>4, <1>5, <1>6 DEF HandlersCalm, OnlyOne
<1>10. ASSUME NEW m \in Numbers PROVE NumberCalm(m)'
  <2>1. CASE m = n BY <1>2, <1>3, <1>4, <1>7, <2>1 DEF NumberCalm, AllCalm
  <2>2. CASE m # n
    <3>1. \A u \in Txns : row[u].number = m => row'[u].number = m
      BY <1>7, <1>8, VirtualAccountsAssumption
    <3>2. \A v \in Workers : ~(req[v].pc = "insert" /\ req[v].number = m)
      BY <1>6, <2>2 DEF OnlyOne
    <3> QED BY <1>4, <3>1, <3>2 DEF NumberCalm, AllCalm
  <2> QED BY <2>1, <2>2
<1>11. ASSUME NEW u \in Txns PROVE AccountCalm(u)'
  <2>1. CASE u = t
    <3>1. bank[n].blocked = FALSE BY <1>2, <1>3 DEF AccountInv, TypeOK
    <3> QED BY <1>4, <1>7, <2>1, <3>1 DEF AccountCalm
  <2>2. CASE u # t
    BY <1>1, <1>4, <1>6, <1>7, <2>2 DEF AllCalm, AccountCalm, OnlyOne
  <2> QED BY <2>1, <2>2
<1> QED BY <1>9, <1>10, <1>11 DEF AllCalm

LEMMA CalmAsk ==
  ASSUME AccountInv, AllCalm, Alone', NEW w \in Workers, NEW n \in Numbers,
         NEW block \in BOOLEAN, AskBank(w, n, block)
  PROVE  AllCalm'
<1> DEFINE h == [Idle EXCEPT !.pc = "mark", !.number = n, !.block = block]
<1>1. req' = [req EXCEPT ![w] = h] /\ req[w].pc = "idle" /\ bank[n].owner # Nil
  BY DEF AskBank, At, Opened
<1>2. h.pc = "mark" /\ h.number = n /\ h.block = block BY DEF Idle
<1> HIDE DEF h
<1>3. OnlyOne(w) /\ req'[w] = h BY <1>1, <1>2, StepAlone DEF AllCalm
<1>4. UNCHANGED row /\ bank' = [bank EXCEPT ![n] = [bank[n] EXCEPT !.blocked = block]]
  BY DEF AskBank
<1>5. /\ \A m \in Numbers : m # n => bank'[m] = bank[m]
      /\ bank'[n].owner = bank[n].owner /\ bank'[n].blocked = block
  BY <1>4 DEF AccountInv, TypeOK
<1>6. HandlersCalm' BY <1>2, <1>3, <1>5 DEF HandlersCalm, OnlyOne
<1>7. ASSUME NEW m \in Numbers PROVE NumberCalm(m)'
  <2>1. \A v \in Workers : req[v].pc # "insert" BY <1>1, <1>3 DEF OnlyOne
  <2> QED BY <1>1, <1>4, <1>5, <2>1 DEF AllCalm, NumberCalm
<1>8. ASSUME NEW t \in Txns PROVE AccountCalm(t)'
  <2>1. \A v \in Workers : req[v].pc # "mark" BY <1>1, <1>3 DEF OnlyOne
  <2>2. Exists(t) => row[t].number \in Numbers BY DEF AccountInv, AwaitingHasAccount
  <2> QED BY <1>2, <1>3, <1>4, <1>5, <2>1, <2>2 DEF AllCalm, AccountCalm, Exists
<1> QED BY <1>6, <1>7, <1>8 DEF AllCalm

LEMMA CalmMark ==
  ASSUME AccountInv, AllCalm, Alone', NEW w \in Workers, MarkRow(w)
  PROVE  AllCalm'
<1> DEFINE n == req[w].number
           b == req[w].block
<1>1. req[w] \in Handler /\ HandlerOK(w) /\ req[w].pc = "mark"
  BY DEF AccountInv, TypeOK, MarkRow, At
<1>2. n \in Numbers /\ b \in BOOLEAN /\ bank[n].blocked = b
  BY <1>1 DEF HandlerOK, Handler, AllCalm, HandlersCalm
<1>3. /\ row' = [t \in Txns |-> IF row[t].number = n THEN Marked(row[t], b) ELSE row[t]]
      /\ req' = [req EXCEPT ![w] = Idle] /\ UNCHANGED bank
  BY DEF MarkRow, Return
<1>4. OnlyOne(w) /\ req'[w] = Idle BY <1>1, <1>3, StepAlone DEF AllCalm
<1>5. ASSUME NEW t \in Txns
      PROVE  /\ row'[t].number = row[t].number
             /\ row[t].number = n => row'[t].blacklisted = b
             /\ row[t].number # n => row'[t] = row[t]
  BY <1>3 DEF Marked, AccountInv, TypeOK, RowType
<1>6. HandlersCalm' BY <1>4 DEF HandlersCalm, OnlyOne, Idle
<1>7. ASSUME NEW m \in Numbers PROVE NumberCalm(m)'
  <2>1. \A v \in Workers : req[v].pc # "insert" BY <1>1, <1>4 DEF OnlyOne
  <2> QED BY <1>3, <1>5, <2>1 DEF AllCalm, NumberCalm
<1>8. ASSUME NEW t \in Txns PROVE AccountCalm(t)'
  <2>1. CASE row[t].number = n BY <1>2, <1>3, <1>5, <2>1 DEF AccountCalm
  <2>2. CASE row[t].number # n
    BY <1>3, <1>4, <1>5, <2>2 DEF AllCalm, AccountCalm, OnlyOne
  <2> QED BY <2>1, <2>2
<1> QED BY <1>6, <1>7, <1>8 DEF AllCalm

\* The steps between the bank's calls, and those of no handler.
LEMMA CalmRest ==
  ASSUME AccountInv, AllCalm, Alone',
         \/ \E w \in Workers :
              \/ \E t \in Txns : CustomerRequest(w, t) \/ AdminRequest(w, t)
              \/ CustomerLookup(w) \/ Deactivate(w) \/ LookupAccount(w)
              \/ ReadTransaction(w) \/ SetAwaitingDeposit(w)
         \/ \E t \in Txns : Expire(t) \/ Review(t, "APPROVED") \/ Review(t, "REJECTED")
         \/ DeactivateExpired
  PROVE  AllCalm'
<1>1. /\ row \in [Txns -> RowType] /\ req \in [Workers -> Handler]
      /\ \A w \in Workers : HandlerOK(w)
  BY DEF AccountInv, TypeOK
<1>2. UNCHANGED bank
  BY DEF CustomerRequest, AdminRequest, CustomerLookup, Deactivate, LookupAccount,
     ReadTransaction, SetAwaitingDeposit, Expire, Review, DeactivateExpired
<1> DEFINE Rows == \A t \in Txns :
             /\ row'[t].status = "NONE" <=> row[t].status = "NONE"
             /\ row'[t].number = row[t].number
             /\ row'[t].blacklisted = row[t].blacklisted
           Moves(w) ==
             /\ req[w].pc \notin {"insert", "mark"}
             /\ req'[w].pc \notin {"insert", "mark"}
             /\ req'[w].pc \in {"read", "open"} =>
                  req'[w].txn \in Txns /\ row[req'[w].txn].status = "NONE"
             /\ \A v \in Workers : v # w => req'[v] = req[v]
           Goal == Rows /\ (req' = req \/ \E w \in Workers : Moves(w))
<1>3. UNCHANGED row => Rows OBVIOUS
<1>4. ASSUME NEW w \in Workers, NEW t \in Txns, CustomerRequest(w, t) \/ AdminRequest(w, t)
      PROVE  Goal
  <2>1. PICK pc \in {"customer", "lookup"} :
          req' = [req EXCEPT ![w] = [Idle EXCEPT !.pc = pc, !.txn = t]]
    BY <1>4 DEF CustomerRequest, AdminRequest
  <2>2. req'[w].pc = pc /\ \A v \in Workers : v # w => req'[v] = req[v]
    BY <1>1, <2>1 DEF Idle
  <2>3. req[w].pc = "idle" /\ UNCHANGED row
    BY <1>4 DEF CustomerRequest, AdminRequest, At
  <2>4. Moves(w) BY <2>2, <2>3
  <2> QED BY <1>3, <2>3, <2>4
<1>5. ASSUME NEW w \in Workers, CustomerLookup(w) PROVE Goal
  BY <1>1, <1>3, <1>5 DEF CustomerLookup, At, Goto, Return, Idle, Handler
<1>6. ASSUME NEW w \in Workers, Deactivate(w) PROVE Goal
  <2>1. req[w].txn \in Txns /\ row[req[w].txn].status # "NONE" /\ req[w].pc = "deactivate"
    BY <1>1, <1>6 DEF Deactivate, At, HandlerOK, Creating, Exists
  <2>2. row' = [row EXCEPT ![req[w].txn] = [row[req[w].txn] EXCEPT !.status = "INACTIVE"]]
    BY <1>6 DEF Deactivate
  <2>3. Rows BY <1>1, <2>1, <2>2 DEF RowType
  <2>4. req' = [req EXCEPT ![w] = [req[w] EXCEPT !.pc = "renew"]]
    BY <1>6 DEF Deactivate, Goto
  <2>5. Moves(w) BY <1>1, <2>1, <2>4 DEF Handler
  <2> QED BY <2>3, <2>5
<1>7. ASSUME NEW w \in Workers, LookupAccount(w) PROVE Goal
  <2>1. req[w].txn \in Txns BY <1>1, <1>7 DEF LookupAccount, At, HandlerOK, Creating
  <2> QED BY <1>1, <1>3, <1>7, <2>1 DEF LookupAccount, At, Goto, Return, Idle, Handler, Exists
<1>8. ASSUME NEW w \in Workers, ReadTransaction(w) PROVE Goal
  <2>1. /\ req[w].txn \in Txns /\ row[req[w].txn].status = "NONE"
        /\ req[w].pc = "read"
    BY <1>1, <1>8 DEF ReadTransaction, At, HandlerOK, Creating, AllCalm, HandlersCalm
  <2> QED BY <1>1, <1>3, <1>8, <2>1 DEF ReadTransaction, Goto, Return, Idle, Handler
<1>9. ASSUME NEW w \in Workers, SetAwaitingDeposit(w) PROVE Goal
  BY <1>1, <1>3, <1>9 DEF SetAwaitingDeposit, At, Return, Idle
<1>10. ASSUME NEW t \in Txns, Expire(t) PROVE Goal
  <2>1. row' = [row EXCEPT ![t] = [row[t] EXCEPT !.expired = TRUE]] /\ req' = req
    BY <1>10 DEF Expire
  <2>2. Rows BY <1>1, <2>1 DEF RowType
  <2> QED BY <2>1, <2>2
<1>11. ASSUME NEW t \in Txns, Review(t, "APPROVED") \/ Review(t, "REJECTED") PROVE Goal
  BY <1>3, <1>11 DEF Review
<1>12. ASSUME DeactivateExpired PROVE Goal
  <2>1. \A t \in Txns : row'[t] =
          IF row[t].status = "ACTIVE" /\ row[t].expired
          THEN [row[t] EXCEPT !.status = "INACTIVE"] ELSE row[t]
    BY <1>12 DEF DeactivateExpired
  <2>2. Rows BY <1>1, <2>1 DEF RowType
  <2>3. req' = req BY <1>12 DEF DeactivateExpired
  <2> QED BY <2>2, <2>3
<1>13. Goal
  BY <1>4, <1>5, <1>6, <1>7, <1>8, <1>9, <1>10, <1>11, <1>12
<1>14. \A w \in Workers : req[w].pc # "idle" => req[w].pc = "mark" \/ req[w].txn \in Txns
  BY <1>1 DEF Handler, HandlerOK, Creating
<1>15. \A w \in Workers :
         \/ req'[w] = req[w]
         \/ /\ req[w].pc \notin {"insert", "mark"}
            /\ req'[w].pc \notin {"insert", "mark"}
            /\ req'[w].pc \in {"read", "open"} =>
                 req'[w].txn \in Txns /\ row[req'[w].txn].status = "NONE"
  BY <1>13
<1> QED BY <1>2, <1>13, <1>14, <1>15, Alike

LEMMA CalmInit == Init => CalmInv
<1> SUFFICES ASSUME Init PROVE AccountInv /\ Undisturbed
  BY DEF CalmInv
<1>1. AccountInv
  BY VirtualAccountsAssumption
  DEF Init, AccountInv, TypeOK, RowType, Handler, HandlerOK, NoRow, NotOpened,
      Idle, Exists, Creating, AwaitingHasAccount, BlacklistedNotActive
<1>2. AllCalm
  BY DEF Init, AllCalm, Alone, At, HandlersCalm, NumberCalm, AccountCalm, Idle, NoRow, NotOpened
<1> QED BY <1>1, <1>2, UndisturbedParts

LEMMA CalmNext == AccountInv /\ Undisturbed /\ [Next]_vars => Undisturbed'
<1> SUFFICES ASSUME AccountInv, Undisturbed, [Next]_vars, calm' PROVE AllCalm'
  BY UndisturbedParts, PTL
<1>1. CASE UNCHANGED vars
  <2>1. AllCalm BY <1>1, UndisturbedParts DEF vars
  <2> QED BY <1>1, <2>1 DEF vars, AllCalm, Alone, At, HandlersCalm, NumberCalm, AccountCalm
<1>2. CASE Next
  <2>1. Works /\ calm /\ Alone' BY <1>2 DEF Next
  <2>2. AllCalm BY <2>1, UndisturbedParts
  <2> QED BY <2>1, <2>2, CalmOpen, CalmInsert, CalmAsk, CalmMark, CalmRest DEF Works
<1> QED BY <1>1, <1>2

\* What the rows and the bank agree on as long as requests neither meet nor fail.
THEOREM CalmInvariant == Spec => []CalmInv
<1>1. Init => Undisturbed BY CalmInit DEF CalmInv
<1> QED BY <1>1, CalmNext, AccountInvariant, PTL DEF Spec, CalmInv

\* Calls of blacklistAccount and unblacklistAccount one after the other leave the
\* row and the bank of one mind, whatever creations, expiries and reviews come
\* between them.
THEOREM BankAndRowsAgree == Spec => []BankAgrees
<1>1. CalmInv => BankAgrees
  BY UndisturbedParts DEF CalmInv, BankAgrees, AllCalm, AccountCalm, Exists
<1> QED BY <1>1, CalmInvariant, PTL

\* createVirtualAccount called one request at a time, with no failure, opens no
\* account at the bank that no row names in the end.
THEOREM NoAccountIsLost == Spec => []NoOrphan
<1>1. CalmInv => NoOrphan
  BY UndisturbedParts DEF CalmInv, NoOrphan, AllCalm, NumberCalm, Opened
<1> QED BY <1>1, CalmInvariant, PTL

-----------------------------------------------------------------------------
(* Outlets: the agent of a new branch                                      *)

AgentRow == [email : P!OrNil(Mailboxes), phone : P!OrNil(Phones), branch : P!OrNil(Places)]
PlaceHandler ==
  [pc : {"idle", "name", "email", "insert", "write", "find", "move", "hire"},
   kind : {"NONE", "branch", "station"}, id : P!OrNil(Places), name : P!OrNil(Names),
   email : P!OrNil(Emails), clear : BOOLEAN, agent : AgentRow, found : P!OrNil(Agents)]

OutletsTypeOK ==
  /\ place \in [Places -> [kind : {"NONE", "branch", "station"}, name : P!OrNil(Names),
                           email : P!OrNil(Emails)]]
  /\ agent \in [Agents -> AgentRow]
  /\ placeReq \in [Workers -> PlaceHandler]
  /\ asked \in AgentRow

\* A hired agent can be told by e-mail.
HiredHaveEmail == \A g \in P!Hired : agent[g].email # Nil

\* Nobody is ever dismissed.
StillHired == \A g \in P!Hired : g \in P!Hired'

\* An agent who is the one that was named.
IsThe(g, a) ==
  \/ a.email # Nil /\ agent[g].email = a.email
  \/ a.phone # Nil /\ agent[g].phone = a.phone

\* Of requests that meet no other and do not fail: what is known of the agent that
\* the last createBranch named.
PlaceKnows(w) ==
  LET h == placeReq[w] IN
  /\ h.pc \in {"name", "email", "insert", "write"} => asked = P!NoAgent
  /\ h.pc \in {"find", "move", "hire"} => asked = [h.agent EXCEPT !.branch = h.id]
  /\ h.pc = "move" => h.found \in P!Hired /\ IsThe(h.found, h.agent)
  /\ h.pc = "hire" => \A g \in P!Hired : ~IsThe(g, h.agent)
Appointed ==
  P!Quiet /\ asked.email # Nil /\ asked.phone # Nil =>
    \E g \in P!Hired : agent[g].branch = asked.branch /\ IsThe(g, asked)
OutletsCalm ==
  /\ \A v, w \in Workers : v = w \/ placeReq[v].pc = "idle" \/ placeReq[w].pc = "idle"
  /\ \A w \in Workers : PlaceKnows(w)
  /\ Appointed

OutletsInv ==
  /\ OutletsTypeOK
  /\ HiredHaveEmail
  /\ \A w \in Workers : placeReq[w].pc = "move" => placeReq[w].found \in P!Hired
  /\ placeCalm => OutletsCalm

LEMMA PlaceIdle == P!Idle \in PlaceHandler /\ P!Idle.pc = "idle"
BY DEF P!Idle, PlaceHandler, AgentRow, P!NoAgent, P!OrNil

LEMMA OutletsInit == P!Init => OutletsInv
<1> SUFFICES ASSUME P!Init PROVE OutletsInv
  OBVIOUS
<1>1. /\ P!NoPlace \in [kind : {"NONE", "branch", "station"}, name : P!OrNil(Names),
                        email : P!OrNil(Emails)]
      /\ P!NoAgent \in AgentRow
  BY DEF P!NoPlace, P!NoAgent, AgentRow, P!OrNil
<1>2. OutletsTypeOK BY <1>1, PlaceIdle DEF P!Init, OutletsTypeOK
<1>3. HiredHaveEmail BY DEF HiredHaveEmail, P!Hired, P!Init
<1>4. \A w \in Workers : placeReq[w].pc = "idle" BY PlaceIdle DEF P!Init
<1>5. asked.email = Nil BY DEF P!Init, P!NoAgent
<1>6. OutletsCalm BY <1>4, <1>5 DEF OutletsCalm, PlaceKnows, Appointed
<1> QED BY <1>2, <1>3, <1>4, <1>6 DEF OutletsInv

-----------------------------------------------------------------------------
\* A step of one handler: what has to be shown of it.
LEMMA PlaceStep ==
  ASSUME OutletsInv, NEW w \in Workers, NEW h \in PlaceHandler,
         placeReq' = [placeReq EXCEPT ![w] = h],
         OutletsTypeOK', HiredHaveEmail', StillHired, h.pc = "move" => h.found \in P!Hired',
         placeCalm' =>
           /\ placeCalm
           /\ placeReq[w].pc # "idle" \/ \A v \in Workers : placeReq[v].pc = "idle"
           /\ PlaceKnows(w)'
           /\ h.pc = "idle" => Appointed'
  PROVE  OutletsInv'
<1>1. /\ placeReq'[w] = h
      /\ \A v \in Workers : v # w => placeReq'[v] = placeReq[v]
  BY DEF OutletsInv, OutletsTypeOK
<1>2. ASSUME placeCalm' PROVE OutletsCalm'
  <2>1. OutletsCalm BY <1>2 DEF OutletsInv
  <2>2. \A v \in Workers : v # w => placeReq'[v].pc = "idle"
    BY <1>1, <1>2, <2>1 DEF OutletsCalm
  <2>3. \A v \in Workers : v # w => PlaceKnows(v)' BY <2>2 DEF PlaceKnows
  <2>4. Appointed'
    <3>1. CASE h.pc = "idle" BY <1>2, <3>1
    <3>2. CASE h.pc # "idle" BY <1>1, <3>2 DEF Appointed, P!Quiet, P!At
    <3> QED BY <3>1, <3>2
  <2> QED BY <1>2, <2>2, <2>3, <2>4 DEF OutletsCalm
<1>3. \A v \in Workers : placeReq'[v].pc = "move" => placeReq'[v].found \in P!Hired'
  BY <1>1 DEF OutletsInv, StillHired
<1> QED BY <1>2, <1>3 DEF OutletsInv

\* A request that names no agent: nobody is asked for.
LEMMA PlaceCalls ==
  ASSUME OutletsInv, NEW w \in Workers, NEW h \in PlaceHandler, P!Call(w, h),
         h.pc \in {"idle", "name", "email"},
         place' \in [Places -> [kind : {"NONE", "branch", "station"}, name : P!OrNil(Names),
                                email : P!OrNil(Emails)]],
         agent' \in [Agents -> AgentRow], HiredHaveEmail', StillHired
  PROVE  OutletsInv'
<1>1. /\ placeReq' = [placeReq EXCEPT ![w] = h] /\ asked' = P!NoAgent
      /\ placeCalm' => placeCalm /\ \A v \in Workers : placeReq[v].pc = "idle"
  BY DEF P!Call, P!Quiet, P!At
<1>2. OutletsTypeOK' /\ placeReq'[w] = h
  BY <1>1 DEF OutletsInv, OutletsTypeOK, P!NoAgent, AgentRow, P!OrNil
<1>3. PlaceKnows(w)' BY <1>1, <1>2 DEF PlaceKnows
<1>4. Appointed' BY <1>1 DEF Appointed, P!NoAgent
<1> QED BY <1>1, <1>2, <1>3, <1>4, PlaceStep

LEMMA PlaceRequests ==
  ASSUME OutletsInv, NEW w \in Workers,
         \/ \E email \in P!OrNil(Emails), name \in P!OrNil(Names) :
              \/ \E a \in {P!NoAgent} \cup
                          [email : P!OrNil(Mailboxes), phone : P!OrNil(Phones), branch : {Nil}],
                    kind \in {"branch", "station"} :
                   name # Nil /\ P!CreatePlace(w, kind, name, email, a)
              \/ \E p \in Places, clear \in BOOLEAN : P!UpdatePlace(w, p, name, email, clear)
         \/ \E p \in Places : P!DeleteStation(w, p)
  PROVE  OutletsInv'
<1> DEFINE PlaceRow == [kind : {"NONE", "branch", "station"}, name : P!OrNil(Names),
                        email : P!OrNil(Emails)]
<1>1. /\ OutletsTypeOK /\ place \in [Places -> PlaceRow] /\ agent \in [Agents -> AgentRow]
      /\ UNCHANGED agent => HiredHaveEmail' /\ StillHired
  BY DEF OutletsInv, OutletsTypeOK, HiredHaveEmail, StillHired, P!Hired
<1>2. ASSUME NEW email \in P!OrNil(Emails), NEW name \in P!OrNil(Names),
             NEW a \in {P!NoAgent} \cup
                       [email : P!OrNil(Mailboxes), phone : P!OrNil(Phones), branch : {Nil}],
             NEW kind \in {"branch", "station"}, P!CreatePlace(w, kind, name, email, a)
      PROVE  OutletsInv'
  <2> DEFINE h == [P!Idle EXCEPT !.pc = "name", !.kind = kind, !.name = name, !.email = email,
                                 !.agent = a]
  <2>1. a \in AgentRow BY DEF AgentRow, P!NoAgent, P!OrNil
  <2>2. h \in PlaceHandler /\ h.pc = "name"
    BY <2>1 DEF P!Idle, PlaceHandler, P!OrNil
  <2>3. P!Call(w, h) /\ UNCHANGED <<place, agent>> BY <1>2 DEF P!CreatePlace
  <2> HIDE DEF h
  <2> QED BY <1>1, <2>2, <2>3, PlaceCalls
<1>3. ASSUME NEW email \in P!OrNil(Emails), NEW name \in P!OrNil(Names), NEW p \in Places,
             NEW clear \in BOOLEAN, P!UpdatePlace(w, p, name, email, clear)
      PROVE  OutletsInv'
  <2> DEFINE pc == IF name \in {Nil, place[p].name} THEN "email" ELSE "name"
             named == IF name = place[p].name THEN Nil ELSE name
             h == [P!Idle EXCEPT !.pc = pc, !.kind = place[p].kind, !.id = p, !.email = email,
                                 !.clear = clear, !.name = named]
  <2>1. /\ pc \in {"name", "email"} /\ named \in P!OrNil(Names) /\ p \in P!OrNil(Places)
        /\ place[p].kind \in {"NONE", "branch", "station"}
    BY <1>1 DEF P!OrNil
  <2>2. P!Call(w, h) /\ UNCHANGED <<place, agent>> BY <1>3 DEF P!UpdatePlace
  <2> HIDE DEF pc, named
  <2>3. h \in PlaceHandler /\ h.pc = pc
    BY <2>1 DEF P!Idle, PlaceHandler, AgentRow, P!NoAgent, P!OrNil
  <2> HIDE DEF h
  <2> QED BY <1>1, <2>1, <2>2, <2>3, PlaceCalls
<1>4. ASSUME NEW p \in Places, P!DeleteStation(w, p) PROVE OutletsInv'
  <2>1. P!Call(w, P!Idle) /\ UNCHANGED agent /\ place' = [place EXCEPT ![p] = P!NoPlace]
    BY <1>4 DEF P!DeleteStation
  <2>2. P!NoPlace \in PlaceRow BY DEF P!NoPlace, P!OrNil
  <2>3. place' \in [Places -> PlaceRow] BY <1>1, <2>1, <2>2
  <2> QED BY <1>1, <2>1, <2>3, PlaceIdle, PlaceCalls
<1> QED BY <1>2, <1>3, <1>4

LEMMA AgentRequests ==
  ASSUME OutletsInv, NEW w \in Workers,
         \/ \E g \in Agents, email \in Mailboxes, phone \in Phones, b \in Places :
              P!UpdateAgent(w, g, email, phone, b) \/ P!CreateAgent(w, g, email, phone, b)
         \/ \E gs \in SUBSET Agents \ {{}}, b \in Places : P!AddAgentsToBranch(w, gs, b)
  PROVE  OutletsInv'
<1>1. /\ OutletsTypeOK /\ agent \in [Agents -> AgentRow] /\ HiredHaveEmail
      /\ place \in [Places -> [kind : {"NONE", "branch", "station"}, name : P!OrNil(Names),
                               email : P!OrNil(Emails)]]
  BY DEF OutletsInv, OutletsTypeOK
<1>2. ASSUME NEW g \in Agents, NEW email \in Mailboxes, NEW phone \in Phones, NEW b \in Places,
             P!UpdateAgent(w, g, email, phone, b) \/ P!CreateAgent(w, g, email, phone, b)
      PROVE  OutletsInv'
  <2> DEFINE c == [email |-> email, phone |-> phone, branch |-> b]
  <2>1. /\ P!Call(w, P!Idle) /\ UNCHANGED place /\ agent' = [agent EXCEPT ![g] = c]
        /\ email # Nil
    BY <1>2 DEF P!UpdateAgent, P!CreateAgent, P!MayBe
  <2>2. c \in AgentRow /\ c.email # Nil BY <2>1 DEF AgentRow, P!OrNil
  <2> HIDE DEF c
  <2>3. agent' \in [Agents -> AgentRow] BY <1>1, <2>1, <2>2
  <2>4. HiredHaveEmail' /\ StillHired
    <3>1. c # P!NoAgent BY <2>2 DEF P!NoAgent
    <3> QED BY <1>1, <2>1, <2>2, <3>1 DEF HiredHaveEmail, StillHired, P!Hired
  <2> QED BY <1>1, <2>1, <2>3, <2>4, PlaceIdle, PlaceCalls
<1>3. ASSUME NEW gs \in SUBSET Agents, NEW b \in Places, P!AddAgentsToBranch(w, gs, b)
      PROVE  OutletsInv'
  <2>1. /\ P!Call(w, P!Idle) /\ UNCHANGED place /\ gs \subseteq P!Hired
        /\ agent' = [g \in Agents |->
             IF g \in gs THEN [agent[g] EXCEPT !.branch = b] ELSE agent[g]]
    BY <1>3 DEF P!AddAgentsToBranch
  <2>2. ASSUME NEW g \in Agents PROVE agent'[g] \in AgentRow /\ agent'[g].email = agent[g].email
                                      /\ (agent'[g] = agent[g] \/ g \in P!Hired)
    <3>1. CASE g \in gs
      <4>1. agent'[g] = [agent[g] EXCEPT !.branch = b] BY <2>1, <3>1
      <4> QED BY <1>1, <2>1, <3>1, <4>1 DEF AgentRow, P!OrNil
    <3>2. CASE g \notin gs BY <1>1, <2>1, <3>2
    <3> QED BY <3>1, <3>2
  <2>3. agent' = [g \in Agents |-> agent'[g]] BY <2>1
  <2>4. agent' \in [Agents -> AgentRow] BY <2>2, <2>3
  <2>5. HiredHaveEmail' BY <1>1, <2>2 DEF HiredHaveEmail, P!Hired
  <2>6. StillHired
    <3>1. ASSUME NEW g \in P!Hired PROVE agent'[g] # P!NoAgent
      <4>1. g \in Agents /\ agent[g].email # Nil BY <1>1 DEF P!Hired, HiredHaveEmail
      <4> QED BY <2>2, <4>1 DEF P!NoAgent
    <3> QED BY <3>1 DEF StillHired, P!Hired
  <2> QED BY <1>1, <2>1, <2>4, <2>5, <2>6, PlaceIdle, PlaceCalls
<1> QED BY <1>2, <1>3

-----------------------------------------------------------------------------
LEMMA PlaceTyped ==
  ASSUME OutletsInv, NEW w \in Workers
  PROVE  /\ placeReq[w] \in PlaceHandler
         /\ placeReq \in [Workers -> PlaceHandler]
         /\ agent \in [Agents -> AgentRow] /\ asked \in AgentRow
         /\ UNCHANGED agent =>
              HiredHaveEmail' /\ StillHired /\ agent' \in [Agents -> AgentRow]
BY DEF OutletsInv, OutletsTypeOK, HiredHaveEmail, StillHired, P!Hired

\* A handler goes on or returns, and writes at most a place.
LEMMA PlaceGoesOn ==
  ASSUME OutletsInv, NEW w \in Workers, NEW h \in PlaceHandler,
         placeReq' = [placeReq EXCEPT ![w] = h],
         place' \in [Places -> [kind : {"NONE", "branch", "station"}, name : P!OrNil(Names),
                                email : P!OrNil(Emails)]],
         UNCHANGED <<agent, asked>>, placeReq[w].pc # "idle",
         h.pc = "move" => h.found \in P!Hired,
         placeCalm' =>
           placeCalm /\ PlaceKnows(w)' /\ (h.pc = "idle" => asked = P!NoAgent)
  PROVE  OutletsInv'
<1>1. OutletsTypeOK' /\ HiredHaveEmail' /\ StillHired
  BY PlaceTyped DEF OutletsInv, OutletsTypeOK
<1>3. h.pc = "move" => h.found \in P!Hired' BY DEF P!Hired
<1>2. asked = P!NoAgent => Appointed' BY DEF Appointed, P!NoAgent
<1> QED BY <1>1, <1>2, <1>3, PlaceStep

LEMMA PlaceFails ==
  ASSUME OutletsInv, NEW w \in Workers, P!StepFails(w)
  PROVE  OutletsInv'
<1>1. /\ placeReq' = [placeReq EXCEPT ![w] = P!Idle] /\ UNCHANGED <<agent, asked, place>>
      /\ placeReq[w].pc # "idle" /\ ~placeCalm'
  BY DEF P!StepFails, P!Return, P!At
<1>2. place \in [Places -> [kind : {"NONE", "branch", "station"}, name : P!OrNil(Names),
                            email : P!OrNil(Emails)]]
  BY DEF OutletsInv, OutletsTypeOK
<1> QED BY <1>1, <1>2, PlaceIdle, PlaceGoesOn

LEMMA PlaceWrites ==
  ASSUME OutletsInv, NEW w \in Workers, P!ReadName(w) \/ P!ReadEmail(w) \/ P!Write(w)
  PROVE  OutletsInv'
<1> DEFINE PlaceRow == [kind : {"NONE", "branch", "station"}, name : P!OrNil(Names),
                        email : P!OrNil(Emails)]
           h == placeReq[w]
<1>1. /\ h \in PlaceHandler /\ place \in [Places -> PlaceRow]
      /\ placeReq \in [Workers -> PlaceHandler]
  BY PlaceTyped DEF OutletsInv, OutletsTypeOK
<1>2. /\ h.pc \in {"name", "email", "write"} /\ UNCHANGED <<agent, asked>>
      /\ placeCalm' => placeCalm
  BY DEF P!ReadName, P!ReadEmail, P!Write, P!At
<1>3. placeCalm => asked = P!NoAgent BY <1>2 DEF OutletsInv, OutletsCalm, PlaceKnows
<1>4. ASSUME P!Return(w), place' \in [Places -> PlaceRow] PROVE OutletsInv'
  <2>1. placeReq' = [placeReq EXCEPT ![w] = P!Idle] BY <1>4 DEF P!Return
  <2>2. PlaceKnows(w)' BY <1>1, <2>1, PlaceIdle DEF PlaceKnows
  <2> QED BY <1>2, <1>3, <1>4, <2>1, <2>2, PlaceIdle, PlaceGoesOn
<1>5. ASSUME NEW pc \in {"email", "insert", "write"}, P!Goto(w, pc), UNCHANGED place
      PROVE  OutletsInv'
  <2> DEFINE k == [h EXCEPT !.pc = pc]
  <2>1. k \in PlaceHandler /\ k.pc = pc BY <1>1 DEF PlaceHandler
  <2>2. placeReq' = [placeReq EXCEPT ![w] = k] BY <1>5 DEF P!Goto
  <2> HIDE DEF k
  <2>3. placeReq'[w] = k BY <1>1, <2>2
  <2>4. placeCalm => PlaceKnows(w)' BY <1>2, <1>3, <2>1, <2>3 DEF PlaceKnows
  <2> QED BY <1>1, <1>2, <1>5, <2>1, <2>2, <2>4, PlaceGoesOn
<1>6. CASE P!ReadName(w) \/ P!ReadEmail(w)
  BY <1>1, <1>4, <1>5, <1>6 DEF P!ReadName, P!ReadEmail
<1>7. CASE P!Write(w)
  <2> DEFINE old == place[h.id]
             name == IF h.name = Nil THEN old.name ELSE h.name
             email == IF h.email # Nil \/ h.clear THEN h.email ELSE old.email
             c == [old EXCEPT !.name = name, !.email = email]
  <2>1. P!Return(w) BY <1>7 DEF P!Write
  <2>2. CASE UNCHANGED place BY <1>1, <1>4, <2>1, <2>2
  <2>3. CASE place' = [place EXCEPT ![h.id] = c]
    <3>1. CASE h.id \in Places
      <4>1. old \in PlaceRow BY <1>1, <3>1
      <4>2. name \in P!OrNil(Names) /\ email \in P!OrNil(Emails)
        BY <1>1, <4>1 DEF PlaceHandler
      <4> HIDE DEF old, name, email
      <4>3. c \in PlaceRow BY <4>1, <4>2
      <4> HIDE DEF c
      <4>4. place' \in [Places -> PlaceRow] BY <1>1, <2>3, <3>1, <4>3
      <4> QED BY <1>4, <2>1, <4>4
    <3>2. CASE h.id \notin Places
      <4>1. place' = place BY <1>1, <2>3, <3>2
      <4> QED BY <1>1, <1>4, <2>1, <4>1
    <3> QED BY <3>1, <3>2
  <2> QED BY <1>7, <2>2, <2>3 DEF P!Write
<1> QED BY <1>6, <1>7

LEMMA PlaceInserts ==
  ASSUME OutletsInv, NEW w \in Workers, NEW p \in Places, P!Insert(w, p)
  PROVE  OutletsInv'
<1> DEFINE PlaceRow == [kind : {"NONE", "branch", "station"}, name : P!OrNil(Names),
                        email : P!OrNil(Emails)]
           h == placeReq[w]
           c == [kind |-> h.kind, name |-> h.name, email |-> h.email]
<1>1. /\ h \in PlaceHandler /\ place \in [Places -> PlaceRow]
      /\ placeReq \in [Workers -> PlaceHandler]
  BY PlaceTyped DEF OutletsInv, OutletsTypeOK
<1>2. /\ h.pc = "insert" /\ UNCHANGED <<agent, placeCalm>>
      /\ place' = [place EXCEPT ![p] = c]
  BY DEF P!Insert, P!At
<1>3. c \in PlaceRow BY <1>1 DEF PlaceHandler
<1> HIDE DEF c
<1>4. place' \in [Places -> PlaceRow] BY <1>1, <1>2, <1>3
<1>5. placeCalm => asked = P!NoAgent BY <1>2 DEF OutletsInv, OutletsCalm, PlaceKnows
<1>6. CASE P!Return(w) /\ UNCHANGED asked
  <2>1. placeReq' = [placeReq EXCEPT ![w] = P!Idle] BY <1>6 DEF P!Return
  <2>2. PlaceKnows(w)' BY <1>1, <2>1, PlaceIdle DEF PlaceKnows
  <2> QED BY <1>2, <1>4, <1>5, <1>6, <2>1, <2>2, PlaceIdle, PlaceGoesOn
<1>7. ASSUME placeReq' = [placeReq EXCEPT ![w] = [h EXCEPT !.pc = "find", !.id = p]],
             asked' = [h.agent EXCEPT !.branch = p]
      PROVE  OutletsInv'
  <2> DEFINE k == [h EXCEPT !.pc = "find", !.id = p]
  <2>1. k \in PlaceHandler /\ k.pc = "find" /\ k.id = p /\ k.agent = h.agent
    BY <1>1 DEF PlaceHandler, P!OrNil
  <2>2. asked' \in AgentRow
    <3>1. h.agent \in AgentRow BY <1>1 DEF PlaceHandler
    <3> QED BY <1>7, <3>1 DEF AgentRow, P!OrNil
  <2>3. placeReq' = [placeReq EXCEPT ![w] = k] BY <1>7
  <2> HIDE DEF k
  <2>4. placeReq'[w] = k BY <1>1, <2>3
  <2>5. PlaceKnows(w)' BY <1>7, <2>1, <2>4 DEF PlaceKnows
  <2>6. OutletsTypeOK' /\ HiredHaveEmail' /\ StillHired
    BY <1>1, <1>2, <1>4, <2>1, <2>2, <2>3, PlaceTyped DEF OutletsTypeOK
  <2> QED BY <1>2, <2>1, <2>3, <2>5, <2>6, PlaceStep
<1> QED BY <1>6, <1>7 DEF P!Insert

LEMMA AgentFound ==
  ASSUME OutletsInv, NEW w \in Workers, P!FindAgent(w)
  PROVE  OutletsInv'
<1> DEFINE h == placeReq[w]
           found == {g \in P!Hired : \/ h.agent.email # Nil /\ agent[g].email = h.agent.email
                                     \/ h.agent.phone # Nil /\ agent[g].phone = h.agent.phone}
<1>1. /\ h \in PlaceHandler /\ placeReq \in [Workers -> PlaceHandler]
      /\ place \in [Places -> [kind : {"NONE", "branch", "station"}, name : P!OrNil(Names),
                               email : P!OrNil(Emails)]]
  BY PlaceTyped DEF OutletsInv, OutletsTypeOK
<1>2. h.pc = "find" /\ UNCHANGED <<place, agent, asked, placeCalm>>
  BY DEF P!FindAgent, P!At
<1>3. placeCalm => asked = [h.agent EXCEPT !.branch = h.id]
  BY <1>2 DEF OutletsInv, OutletsCalm, PlaceKnows
<1>4. \A g \in P!Hired : g \in found <=> IsThe(g, h.agent) BY DEF IsThe
<1>5. CASE found = {} /\ P!Goto(w, "hire")
  <2> DEFINE k == [h EXCEPT !.pc = "hire"]
  <2>1. k \in PlaceHandler /\ k.pc = "hire" /\ k.id = h.id /\ k.agent = h.agent
    BY <1>1 DEF PlaceHandler
  <2>2. placeReq' = [placeReq EXCEPT ![w] = k] BY <1>5 DEF P!Goto
  <2>3. \A g \in P!Hired : ~IsThe(g, h.agent) BY <1>4, <1>5
  <2> HIDE DEF h, k
  <2>4. placeReq'[w] = k BY <1>1, <2>2
  <2>5. placeCalm => PlaceKnows(w)'
    BY <1>2, <1>3, <2>1, <2>3, <2>4 DEF PlaceKnows, P!Hired, IsThe
  <2> QED BY <1>1, <1>2, <2>1, <2>2, <2>5, PlaceGoesOn DEF h
<1>6. ASSUME NEW g \in found,
             placeReq' = [placeReq EXCEPT ![w] = [h EXCEPT !.pc = "move", !.found = g]]
      PROVE  OutletsInv'
  <2> DEFINE k == [h EXCEPT !.pc = "move", !.found = g]
  <2>1. g \in P!Hired /\ g \in Agents /\ IsThe(g, h.agent) BY <1>4 DEF P!Hired
  <2>2. k \in PlaceHandler /\ k.pc = "move" /\ k.id = h.id /\ k.agent = h.agent /\ k.found = g
    BY <1>1, <2>1 DEF PlaceHandler, P!OrNil
  <2>3. placeReq' = [placeReq EXCEPT ![w] = k] BY <1>6
  <2> HIDE DEF h, k
  <2>4. placeReq'[w] = k BY <1>1, <2>3
  <2>5. placeCalm => PlaceKnows(w)'
    BY <1>2, <1>3, <2>1, <2>2, <2>4 DEF PlaceKnows, P!Hired, IsThe
  <2> QED BY <1>1, <1>2, <2>2, <2>3, <2>5, PlaceGoesOn DEF h
<1> QED BY <1>5, <1>6 DEF P!FindAgent

\* The end of a createBranch that named an agent.
LEMMA AgentAppointed ==
  ASSUME OutletsInv, NEW w \in Workers, P!MoveAgent(w) \/ \E g \in Agents : P!HireAgent(w, g)
  PROVE  OutletsInv'
<1> DEFINE h == placeReq[w]
<1>1. /\ h \in PlaceHandler /\ placeReq \in [Workers -> PlaceHandler]
      /\ agent \in [Agents -> AgentRow] /\ HiredHaveEmail
  BY PlaceTyped DEF OutletsInv
<1>2. /\ h.pc \in {"move", "hire"} /\ UNCHANGED <<place, asked, placeCalm>>
      /\ placeReq' = [placeReq EXCEPT ![w] = P!Idle]
  BY DEF P!MoveAgent, P!HireAgent, P!At, P!Return
<1>3. PlaceKnows(w)' BY <1>1, <1>2, PlaceIdle DEF PlaceKnows
<1>4. h.agent \in AgentRow /\ h.id \in P!OrNil(Places) BY <1>1 DEF PlaceHandler
<1>5. ASSUME placeCalm
      PROVE  /\ asked = [h.agent EXCEPT !.branch = h.id]
             /\ asked.email = h.agent.email /\ asked.phone = h.agent.phone
             /\ asked.branch = h.id
  <2>1. asked = [h.agent EXCEPT !.branch = h.id]
    BY <1>2, <1>5 DEF OutletsInv, OutletsCalm, PlaceKnows
  <2> QED BY <1>4, <2>1 DEF AgentRow
<1>6. ASSUME agent' \in [Agents -> AgentRow], HiredHaveEmail', StillHired,
             placeCalm /\ asked.email # Nil /\ asked.phone # Nil =>
               \E g \in Agents :
                 agent'[g] # P!NoAgent /\ agent'[g].branch = asked.branch /\ IsThe(g, asked)'
      PROVE  OutletsInv'
  <2>1. OutletsTypeOK' BY <1>2, <1>6, PlaceIdle DEF OutletsInv, OutletsTypeOK
  <2>2. placeCalm' => Appointed' BY <1>2, <1>6 DEF Appointed, P!Hired, IsThe
  <2>3. h.pc # "idle" BY <1>2
  <2> HIDE DEF h
  <2> QED BY <1>2, <1>3, <1>6, <2>1, <2>2, <2>3, PlaceIdle, PlaceStep DEF h
<1>7. CASE P!MoveAgent(w)
  <2>0. PICK g : g = h.found OBVIOUS
  <2> DEFINE c == [agent[g] EXCEPT !.branch = h.id]
  <2>1. agent' = [agent EXCEPT ![g] = c] /\ h.pc = "move" /\ g = h.found
    BY <1>7, <2>0 DEF P!MoveAgent, P!At
  <2>2. g \in Agents /\ agent[g] \in AgentRow /\ agent[g].email # Nil
    BY <1>1, <2>1 DEF OutletsInv, P!Hired, HiredHaveEmail
  <2>3. /\ c \in AgentRow /\ c.email = agent[g].email /\ c.phone = agent[g].phone
        /\ c.branch = h.id
    BY <1>4, <2>2 DEF AgentRow
  <2>4. placeCalm => IsThe(g, h.agent)
    BY <2>1 DEF OutletsInv, OutletsCalm, PlaceKnows
  <2> HIDE DEF c
  <2>5. /\ agent' \in [Agents -> AgentRow] /\ HiredHaveEmail' /\ StillHired
        /\ agent'[g] = c
    <3>1. c # P!NoAgent BY <2>2, <2>3 DEF P!NoAgent
    <3> QED BY <1>1, <2>1, <2>2, <2>3, <3>1 DEF HiredHaveEmail, StillHired, P!Hired
  <2>6. agent'[g] # P!NoAgent BY <2>2, <2>3, <2>5 DEF P!NoAgent
  <2>7. placeCalm => IsThe(g, asked)' /\ agent'[g].branch = asked.branch
    BY <1>2, <1>5, <2>3, <2>4, <2>5 DEF IsThe
  <2> QED BY <1>6, <2>2, <2>5, <2>6, <2>7
<1>8. ASSUME NEW g \in Agents, P!HireAgent(w, g) PROVE OutletsInv'
  <2> DEFINE c == [h.agent EXCEPT !.branch = h.id]
  <2>1. h.pc = "hire" /\ g \notin P!Hired BY <1>8 DEF P!HireAgent, P!At
  <2>2. /\ c \in AgentRow /\ c.email = h.agent.email /\ c.phone = h.agent.phone
        /\ c.branch = h.id
    BY <1>4 DEF AgentRow
  <2>3. agent' = IF P!MayBe(g, h.agent.email, h.agent.phone)
                 THEN [agent EXCEPT ![g] = c] ELSE agent
    BY <1>8 DEF P!HireAgent
  <2> HIDE DEF c
  <2>4. CASE P!MayBe(g, h.agent.email, h.agent.phone)
    <3>1. agent' = [agent EXCEPT ![g] = c] /\ c.email # Nil
      BY <2>2, <2>3, <2>4 DEF P!MayBe
    <3>2. /\ agent' \in [Agents -> AgentRow] /\ HiredHaveEmail' /\ agent'[g] = c
          /\ StillHired
      BY <1>1, <2>1, <2>2, <3>1 DEF HiredHaveEmail, StillHired, P!Hired
    <3>3. agent'[g] # P!NoAgent BY <3>1, <3>2 DEF P!NoAgent
    <3>4. placeCalm => IsThe(g, asked)' /\ agent'[g].branch = asked.branch
      BY <1>2, <1>5, <2>2, <3>1, <3>2 DEF IsThe
    <3> QED BY <1>6, <3>2, <3>3, <3>4
  <2>5. CASE ~P!MayBe(g, h.agent.email, h.agent.phone)
    <3>1. agent' = agent BY <2>3, <2>5
    <3>2. ASSUME placeCalm, asked.email # Nil, asked.phone # Nil PROVE FALSE
      <4>1. \A o \in P!Hired : ~IsThe(o, h.agent)
        BY <2>1, <3>2 DEF OutletsInv, OutletsCalm, PlaceKnows
      <4> QED BY <1>5, <2>5, <3>2, <4>1 DEF P!MayBe, IsThe
    <3> QED BY <1>6, <3>1, <3>2, PlaceTyped
  <2> QED BY <2>4, <2>5
<1> QED BY <1>7, <1>8

LEMMA OutletsNext == OutletsInv /\ [P!Next]_(P!vars) => OutletsInv'
<1> SUFFICES ASSUME OutletsInv, [P!Next]_(P!vars) PROVE OutletsInv'
  OBVIOUS
<1>1. ASSUME UNCHANGED <<place, agent, placeReq, asked, placeCalm>> PROVE OutletsInv'
  BY <1>1 DEF OutletsInv, OutletsTypeOK, HiredHaveEmail, P!Hired, OutletsCalm, PlaceKnows,
              IsThe, Appointed, P!Quiet, P!At
<1> QED BY <1>1, PlaceRequests, AgentRequests, PlaceWrites, PlaceInserts, AgentFound,
           AgentAppointed, PlaceFails
        DEF P!Next, P!Rest, P!vars

\* What every behaviour of the outlets keeps.
THEOREM OutletsInvariant == P!Spec => []OutletsInv
BY OutletsInit, OutletsNext, PTL DEF P!Spec

\* NamedAgentWorksThere for any outlets, agents and requests: whichever row the
\* search finds is moved, and when it finds none, none stands in the way of a new one.
THEOREM BranchHasItsAgent == P!Spec => []NamedAgentWorksThere
<1>1. OutletsInv => NamedAgentWorksThere
  BY DEF OutletsInv, OutletsCalm, Appointed, IsThe, NamedAgentWorksThere,
         P!NamedAgentWorksThere
<1> QED BY <1>1, OutletsInvariant, PTL

-----------------------------------------------------------------------------
(* Notifications: pushes and the tokens they go to                         *)

PartStates ==
  {"off", "start", "send", "clean, SENT", "clean, FAILED", "SENT", "FAILED", "PENDING"}
Owners == Users \cup {Nil}
NoteHandler ==
  [pc : {"idle", "create", "update", "prefs", "default", "note", "sending"},
   user : Owners, channels : SUBSET N!Channels, skip : BOOLEAN, note : Notes \cup {Nil},
   parts : [N!Channels -> PartStates], tokens : SUBSET Devices, invalid : SUBSET Devices]

NotesTypeOK ==
  /\ device \in [Devices -> [owner : Owners, active : BOOLEAN]]
  /\ live \in [Devices -> Owners]
  /\ noteReq \in [Workers -> NoteHandler]

\* A token in use is whose its user is; one that is not in use is nobody's.
Settled(d) == IF device[d].active THEN live[d] = device[d].owner ELSE live[d] = Nil

Push(w) == noteReq[w].parts["PUSH"]
Cleans(w) == Push(w) \in {"clean, SENT", "clean, FAILED"}

\* Of requests that meet no other and do not die: what the one in flight has read.
PushKnows(w) ==
  LET h == noteReq[w] IN
  /\ Push(w) = "send" => \A d \in h.tokens : live[d] = h.user
  /\ Cleans(w) => \A d \in h.invalid : live[d] = Nil
  /\ \A d \in Devices : Settled(d) \/ (Cleans(w) /\ d \in h.invalid)
AllSettled == N!Quiet => \A d \in Devices : Settled(d)
NotesCalm ==
  /\ \A v, w \in Workers : v = w \/ noteReq[v].pc = "idle" \/ noteReq[w].pc = "idle"
  /\ \A w \in Workers : noteReq[w].pc # "idle" => PushKnows(w)
  /\ AllSettled
  /\ strays = {}

NotesInv ==
  /\ NotesTypeOK
  /\ \A w \in Workers : noteReq[w].pc # "sending" => noteReq[w].parts = N!NoParts
  /\ noteCalm => NotesCalm

LEMMA ChannelsThere == "PUSH" \in N!Channels /\ N!NoParts["PUSH"] = "off"
BY DEF N!Channels, N!NoParts

LEMMA NoteIdle ==
  /\ N!Idle \in NoteHandler /\ N!Idle.pc = "idle" /\ N!Idle.parts["PUSH"] = "off"
  /\ N!Idle.parts = N!NoParts
BY DEF N!Idle, NoteHandler, N!NoParts, N!Channels, PartStates, Owners

LEMMA NotesInit == N!Init => NotesInv
<1> SUFFICES ASSUME N!Init PROVE NotesInv
  OBVIOUS
<1>1. NotesTypeOK BY NoteIdle DEF N!Init, NotesTypeOK, Owners
<1>2. \A w \in Workers : noteReq[w].pc = "idle" /\ noteReq[w].parts = N!NoParts
  BY NoteIdle DEF N!Init, Push
<1>3. NotesCalm BY <1>2 DEF N!Init, NotesCalm, AllSettled, Settled
<1> QED BY <1>1, <1>2, <1>3 DEF NotesInv

LEMMA NoteTyped ==
  ASSUME NotesInv, NEW w \in Workers
  PROVE  /\ noteReq[w] \in NoteHandler /\ noteReq \in [Workers -> NoteHandler]
         /\ Push(w) \in PartStates /\ noteReq[w].tokens \subseteq Devices
         /\ noteReq[w].invalid \subseteq Devices
         /\ noteCalm /\ noteReq[w].pc # "idle" =>
              PushKnows(w) /\ strays = {} /\ \A d \in Devices : ~Cleans(w) => Settled(d)
<1>1. noteReq[w] \in NoteHandler BY DEF NotesInv, NotesTypeOK
<1>2. Push(w) \in PartStates BY <1>1, ChannelsThere DEF NoteHandler, Push
<1> QED BY <1>1, <1>2 DEF NotesInv, NotesTypeOK, NoteHandler, NotesCalm, PushKnows

\* A step of one handler: what has to be shown of it.
LEMMA NoteStep ==
  ASSUME NotesInv, NEW w \in Workers, NEW h \in NoteHandler,
         noteReq' = [noteReq EXCEPT ![w] = h],
         h.pc # "sending" => h.parts = N!NoParts,
         device' \in [Devices -> [owner : Owners, active : BOOLEAN]],
         live' \in [Devices -> Owners],
         noteCalm' =>
           /\ noteCalm
           /\ noteReq[w].pc # "idle" \/ N!Quiet
           /\ PushKnows(w)' /\ strays' = {}
  PROVE  NotesInv'
<1>1. /\ noteReq'[w] = h
      /\ \A v \in Workers : v # w => noteReq'[v] = noteReq[v]
  BY DEF NotesInv, NotesTypeOK
<1>2. NotesTypeOK' BY <1>1 DEF NotesInv, NotesTypeOK
<1>3. \A v \in Workers : noteReq'[v].pc # "sending" => noteReq'[v].parts = N!NoParts
  BY <1>1 DEF NotesInv
<1>4. ASSUME noteCalm' PROVE NotesCalm'
  <2>1. NotesCalm BY <1>4 DEF NotesInv
  <2>2. \A v \in Workers : v # w => noteReq'[v].pc = "idle"
    BY <1>1, <1>4, <2>1 DEF NotesCalm, N!Quiet, N!At
  <2>3. ASSUME N!Quiet', NEW d \in Devices PROVE Settled(d)'
    <3>1. Push(w)' = "off" BY <1>3, <2>3, ChannelsThere DEF N!Quiet, N!At, Push
    <3>2. ~Cleans(w)' BY <3>1 DEF Cleans
    <3> QED BY <1>4, <3>2 DEF PushKnows
  <2> QED BY <1>4, <2>2, <2>3 DEF NotesCalm, AllSettled
<1> QED BY <1>2, <1>3, <1>4 DEF NotesInv

\* A handler goes on beside the devices.
LEMMA NoteGoesOn ==
  ASSUME NotesInv, NEW w \in Workers, NEW h \in NoteHandler,
         noteReq' = [noteReq EXCEPT ![w] = h], UNCHANGED <<device, live, strays>>,
         h.pc # "sending" => h.parts = N!NoParts,
         noteCalm' => noteCalm /\ (noteReq[w].pc # "idle" \/ N!Quiet),
         \/ h.parts["PUSH"] \in {"off", "start", "SENT", "FAILED", "PENDING"} /\ (Cleans(w) => ~noteCalm')
         \/ /\ h.parts["PUSH"] = Push(w) /\ h.tokens = noteReq[w].tokens
            /\ h.invalid = noteReq[w].invalid /\ h.user = noteReq[w].user
            /\ noteReq[w].pc # "idle"
  PROVE  NotesInv'
<1>1. noteReq'[w] = h BY DEF NotesInv, NotesTypeOK
<1>2. ASSUME noteCalm' PROVE PushKnows(w)' /\ strays' = {}
  <2>1. strays = {} /\ (N!Quiet => \A d \in Devices : Settled(d))
    BY <1>2 DEF NotesInv, NotesCalm, AllSettled
  <2>2. noteReq[w].pc # "idle" => PushKnows(w) BY <1>2 DEF NotesInv, NotesCalm
  <2>3. \A d \in Devices : Settled(d) => Settled(d)' BY DEF Settled
  <2>4. CASE /\ h.parts["PUSH"] \in {"off", "start", "SENT", "FAILED", "PENDING"}
             /\ ~Cleans(w)
    <3>1. \A d \in Devices : Settled(d) BY <1>2, <2>1, <2>2, <2>4 DEF PushKnows
    <3> QED BY <1>1, <2>1, <2>3, <2>4, <3>1 DEF PushKnows, Push, Cleans
  <2>5. CASE /\ h.parts["PUSH"] = Push(w) /\ h.tokens = noteReq[w].tokens
             /\ h.invalid = noteReq[w].invalid /\ h.user = noteReq[w].user
             /\ noteReq[w].pc # "idle"
    <3>1. PushKnows(w) /\ Push(w)' = Push(w) /\ (Cleans(w)' <=> Cleans(w))
      BY <1>1, <2>2, <2>5 DEF Push, Cleans
    <3> QED BY <1>1, <2>1, <2>3, <2>5, <3>1 DEF PushKnows
  <2> QED BY <1>2, <2>4, <2>5
<1>3. /\ device' \in [Devices -> [owner : Owners, active : BOOLEAN]]
      /\ live' \in [Devices -> Owners]
  BY DEF NotesInv, NotesTypeOK
<1> QED BY <1>2, <1>3, NoteStep

\* With no handler at work, or when nothing is claimed any more.
LEMMA NoteBeside ==
  ASSUME NotesInv, UNCHANGED noteReq, UNCHANGED strays,
         device' \in [Devices -> [owner : Owners, active : BOOLEAN]],
         live' \in [Devices -> Owners],
         noteCalm' => noteCalm /\ N!Quiet /\ \A d \in Devices : Settled(d) => Settled(d)'
  PROVE  NotesInv'
<1>1. NotesTypeOK' BY DEF NotesInv, NotesTypeOK
<1>2. \A w \in Workers : noteReq'[w].pc # "sending" => noteReq'[w].parts = N!NoParts
  BY DEF NotesInv
<1>3. ASSUME noteCalm' PROVE NotesCalm'
  <2>1. \A w \in Workers : noteReq'[w].pc = "idle" BY <1>3 DEF N!Quiet, N!At
  <2>2. \A d \in Devices : Settled(d)'
    BY <1>3 DEF NotesInv, NotesCalm, AllSettled
  <2>3. strays' = {} BY <1>3 DEF NotesInv, NotesCalm
  <2> QED BY <2>1, <2>2, <2>3 DEF NotesCalm, AllSettled
<1> QED BY <1>1, <1>2, <1>3 DEF NotesInv

-----------------------------------------------------------------------------
LEMMA NoteCalls ==
  ASSUME NotesInv, NEW w \in Workers,
         \E u \in Users :
           \/ \E d \in Devices : N!ReadToken(w, u, d)
           \/ \E channels \in {{c} : c \in N!Channels} \cup {N!All}, skip \in BOOLEAN :
                N!Send(w, u, channels, skip)
  PROVE  NotesInv'
<1>1. Push(w) = "off" \/ noteReq[w].pc # "idle" BY ChannelsThere DEF NotesInv, Push
<1>2. ASSUME NEW h \in NoteHandler, N!Call(w, h), h.pc # "sending", h.parts = N!Idle.parts,
             UNCHANGED <<device, live, strays>>
      PROVE  NotesInv'
  <2>1. /\ noteReq' = [noteReq EXCEPT ![w] = h] /\ noteReq[w].pc = "idle"
        /\ noteCalm' => noteCalm /\ N!Quiet
    BY <1>2 DEF N!Call, N!At
  <2>2. h.parts["PUSH"] = "off" /\ ~Cleans(w) BY <1>1, <1>2, <2>1, NoteIdle DEF Cleans
  <2> QED BY <1>2, <2>1, <2>2, NoteIdle, NoteGoesOn
<1>3. ASSUME NEW u \in Users, NEW d \in Devices, N!ReadToken(w, u, d) PROVE NotesInv'
  <2> DEFINE pc == IF device[d].owner = Nil THEN "create" ELSE "update"
             h == [N!Idle EXCEPT !.user = u, !.tokens = {d}, !.pc = pc]
  <2>1. pc \in {"create", "update"} OBVIOUS
  <2>2. N!Call(w, h) /\ UNCHANGED <<device, live, strays>> BY <1>3 DEF N!ReadToken
  <2> HIDE DEF pc
  <2>3. h \in NoteHandler /\ h.pc # "sending" /\ h.parts = N!Idle.parts
    BY <2>1, NoteIdle DEF NoteHandler, N!Idle, Owners
  <2> HIDE DEF h
  <2> QED BY <1>2, <2>2, <2>3
<1>4. ASSUME NEW u \in Users, NEW channels \in SUBSET N!Channels, NEW skip \in BOOLEAN,
             N!Send(w, u, channels, skip)
      PROVE  NotesInv'
  <2> DEFINE pc == IF skip THEN "note" ELSE "prefs"
             h == [N!Idle EXCEPT !.pc = pc, !.user = u, !.channels = channels, !.skip = skip]
  <2>1. pc \in {"note", "prefs"} OBVIOUS
  <2>2. N!Call(w, h) /\ UNCHANGED <<device, live, strays>> BY <1>4 DEF N!Send
  <2> HIDE DEF pc
  <2>3. h \in NoteHandler /\ h.pc # "sending" /\ h.parts = N!Idle.parts
    BY <2>1, NoteIdle DEF NoteHandler, N!Idle, Owners
  <2> HIDE DEF h
  <2> QED BY <1>2, <2>2, <2>3
<1> QED BY <1>3, <1>4 DEF N!All

\* A handler returns and leaves the devices as they are.
LEMMA NoteReturns ==
  ASSUME NotesInv, NEW w \in Workers, N!Return(w), UNCHANGED <<device, live, strays>>,
         noteCalm' => noteCalm /\ noteReq[w].pc # "idle" /\ ~Cleans(w)
  PROVE  NotesInv'
BY NoteIdle, NoteGoesOn DEF N!Return

LEMMA NoteChecks ==
  ASSUME NotesInv, NEW w \in Workers,
         \/ N!CheckPreferences(w) \/ N!DefaultPreferences(w) \/ N!Die(w)
         \/ \E n \in Notes : N!CreateNotification(w, n)
  PROVE  NotesInv'
<1> DEFINE h == noteReq[w]
<1>1. h \in NoteHandler BY NoteTyped
<1>2. h.pc # "sending" => h.parts = N!NoParts /\ Push(w) = "off"
  BY ChannelsThere DEF NotesInv, Push
<1>3. CASE N!Die(w)
  BY <1>3, NoteReturns DEF N!Die
<1>4. ASSUME h.pc \in {"prefs", "default"}, NEW pc \in {"default", "note"}, N!Goto(w, pc),
             UNCHANGED <<device, live, strays, noteCalm>>
      PROVE  NotesInv'
  <2> DEFINE k == [h EXCEPT !.pc = pc]
  <2>1. k \in NoteHandler /\ k.pc = pc /\ k.parts = h.parts BY <1>1 DEF NoteHandler
  <2>2. noteReq' = [noteReq EXCEPT ![w] = k] BY <1>4 DEF N!Goto
  <2>3. h.parts["PUSH"] = "off" /\ ~Cleans(w) BY <1>2, <1>4 DEF Push, Cleans
  <2> HIDE DEF h, k
  <2> QED BY <1>2, <1>4, <2>1, <2>2, <2>3, NoteGoesOn DEF h
<1>5. CASE N!CheckPreferences(w)
  <2>1. h.pc = "prefs" /\ UNCHANGED <<device, live, strays, noteCalm>>
    BY <1>5 DEF N!CheckPreferences, N!At
  <2>2. N!Return(w) \/ N!Goto(w, "default") \/ N!Goto(w, "note")
    BY <1>5 DEF N!CheckPreferences
  <2>3. ~Cleans(w) BY <1>2, <2>1 DEF Cleans
  <2> QED BY <1>4, <2>1, <2>2, <2>3, NoteReturns
<1>6. CASE N!DefaultPreferences(w)
  BY <1>4, <1>6 DEF N!DefaultPreferences, N!At
<1>7. ASSUME NEW n \in Notes, N!CreateNotification(w, n) PROVE NotesInv'
  <2> DEFINE parts == [c \in N!Channels |-> IF c \in h.channels THEN "start" ELSE "off"]
             k == [h EXCEPT !.pc = "sending", !.note = n, !.parts = parts]
  <2>1. /\ h.pc = "note" /\ UNCHANGED <<device, live, strays, noteCalm>>
        /\ noteReq' = [noteReq EXCEPT ![w] = k]
    BY <1>7 DEF N!CreateNotification, N!At
  <2>2. parts \in [N!Channels -> PartStates] /\ parts["PUSH"] \in {"off", "start"}
    BY ChannelsThere DEF PartStates
  <2> HIDE DEF parts
  <2>3. k \in NoteHandler /\ k.pc = "sending" /\ k.parts = parts
    BY <1>1, <2>2 DEF NoteHandler
  <2>4. ~Cleans(w) BY <1>2, <2>1 DEF Cleans
  <2> HIDE DEF h, k
  <2> QED BY <2>1, <2>2, <2>3, <2>4, NoteGoesOn DEF h
<1> QED BY <1>3, <1>5, <1>6, <1>7

\* Another part of a push, or of the notification, is done.
LEMMA PartDone ==
  ASSUME NotesInv, NEW w \in Workers, NEW c \in N!Channels, NEW state \in PartStates,
         Push(w) # "off" \/ c # "PUSH"
  PROVE  LET parts == [noteReq[w].parts EXCEPT ![c] = state] IN
         /\ parts \in [N!Channels -> PartStates]
         /\ c # "PUSH" => parts["PUSH"] = Push(w)
         /\ c = "PUSH" => parts["PUSH"] = state
         /\ [noteReq[w] EXCEPT !.parts = parts] \in NoteHandler
<1>1. noteReq[w] \in NoteHandler BY NoteTyped
<1>2. noteReq[w].parts \in [N!Channels -> PartStates] BY <1>1 DEF NoteHandler
<1> DEFINE parts == [noteReq[w].parts EXCEPT ![c] = state]
<1>3. /\ parts \in [N!Channels -> PartStates]
      /\ c # "PUSH" => parts["PUSH"] = Push(w)
      /\ c = "PUSH" => parts["PUSH"] = state
  BY <1>2, ChannelsThere DEF Push
<1> HIDE DEF parts
<1>4. [noteReq[w] EXCEPT !.parts = parts] \in NoteHandler BY <1>1, <1>3 DEF NoteHandler
<1> QED BY <1>3, <1>4 DEF parts

-----------------------------------------------------------------------------
\* A channel other than the push comes to its end, or a part is marked.
LEMMA NoteDelivers ==
  ASSUME NotesInv, NEW w \in Workers, NEW c \in N!Channels,
         N!Mark(w, c) \/ \E outcome \in {"SENT", "FAILED", "PENDING"} : N!Deliver(w, c, outcome)
  PROVE  NotesInv'
<1> DEFINE h == noteReq[w]
<1>1. h \in NoteHandler /\ h.parts \in [N!Channels -> PartStates]
  BY NoteTyped DEF NoteHandler
<1>2. h.pc # "sending" => h.parts = N!NoParts BY DEF NotesInv
<1>3. ASSUME NEW state \in {"off", "SENT", "FAILED", "PENDING"}, h.parts[c] # "off",
             c = "PUSH" => ~Cleans(w),
             noteReq' = [noteReq EXCEPT ![w] = [h EXCEPT !.parts = [h.parts EXCEPT ![c] = state]]],
             UNCHANGED <<device, live, strays, noteCalm>>
      PROVE  NotesInv'
  <2> DEFINE parts == [h.parts EXCEPT ![c] = state]
             k == [h EXCEPT !.parts = parts]
  <2>1. h.pc = "sending" BY <1>2, <1>3 DEF N!NoParts
  <2>2. /\ c # "PUSH" => parts["PUSH"] = Push(w)
        /\ c = "PUSH" => parts["PUSH"] = state
        /\ parts \in [N!Channels -> PartStates]
    BY <1>1, ChannelsThere DEF Push, PartStates
  <2>3. noteReq' = [noteReq EXCEPT ![w] = k] BY <1>3
  <2> HIDE DEF parts
  <2>4. /\ k \in NoteHandler /\ k.pc = "sending" /\ k.parts = parts
        /\ k.tokens = h.tokens /\ k.invalid = h.invalid /\ k.user = h.user
    BY <1>1, <2>1, <2>2 DEF NoteHandler
  <2> HIDE DEF h, k
  <2>5. CASE c # "PUSH" BY <1>3, <2>1, <2>2, <2>3, <2>4, <2>5, NoteGoesOn DEF h
  <2>6. CASE c = "PUSH"
    <3>1. k.parts["PUSH"] \in {"off", "start", "SENT", "FAILED", "PENDING"} BY <2>2, <2>4, <2>6
    <3>2. ~Cleans(w) /\ noteReq[w].pc # "idle" BY <1>3, <2>1, <2>6 DEF h
    <3> QED BY <1>3, <2>3, <2>4, <3>1, <3>2, NoteGoesOn
  <2> QED BY <2>5, <2>6
<1>4. ASSUME NEW outcome \in {"SENT", "FAILED", "PENDING"}, N!Deliver(w, c, outcome) PROVE NotesInv'
  <2>1. /\ c # "PUSH" /\ h.parts[c] = "start" /\ UNCHANGED <<device, live, strays, noteCalm>>
        /\ noteReq' = [noteReq EXCEPT ![w] =
             [h EXCEPT !.parts = [h.parts EXCEPT ![c] = outcome]]]
    BY <1>4 DEF N!Deliver
  <2> QED BY <1>3, <2>1
<1>5. CASE N!Mark(w, c)
  <2>1. h.parts[c] \in {"SENT", "FAILED", "PENDING"} /\ UNCHANGED <<device, live, strays, noteCalm>>
    BY <1>5 DEF N!Mark
  <2>2. c = "PUSH" => ~Cleans(w) BY <2>1 DEF Cleans, Push
  <2>3. CASE [h.parts EXCEPT ![c] = "off"] = N!NoParts /\ N!Return(w)
    <3>1. h.pc # "idle" BY <1>2, <2>1 DEF N!NoParts
    <3>2. c # "PUSH" => Push(w) = "off"
      BY <1>1, <2>3, ChannelsThere DEF Push
    <3>3. ~Cleans(w) BY <2>2, <3>2 DEF Cleans
    <3> QED BY <2>1, <2>3, <3>1, <3>3, NoteReturns
  <2>4. CASE noteReq' = [noteReq EXCEPT ![w] =
               [h EXCEPT !.parts = [h.parts EXCEPT ![c] = "off"]]]
    BY <1>3, <2>1, <2>2, <2>4
  <2> QED BY <1>5, <2>3, <2>4 DEF N!Mark, N!Return
<1> QED BY <1>4, <1>5

\* The devices that a push goes to are those of its user.
LEMMA PushReads ==
  ASSUME NotesInv, NEW w \in Workers, N!ReadDevices(w)
  PROVE  NotesInv'
<1> DEFINE h == noteReq[w]
           tokens == {d \in Devices : device[d].owner = h.user /\ device[d].active}
           state == IF tokens = {} THEN "SENT" ELSE "send"
           parts == [h.parts EXCEPT !["PUSH"] = state]
           k == [h EXCEPT !.tokens = tokens, !.parts = parts]
<1>1. /\ Push(w) = "start" /\ UNCHANGED <<device, live, strays, noteCalm>>
      /\ noteReq' = [noteReq EXCEPT ![w] = k]
  BY DEF N!ReadDevices, Push
<1>2. h \in NoteHandler /\ h.parts \in [N!Channels -> PartStates]
  BY NoteTyped DEF NoteHandler
<1>3. h.pc = "sending" BY <1>1, ChannelsThere DEF NotesInv, Push
<1>4. /\ noteCalm => (\A d \in Devices : Settled(d)) /\ strays = {}
      /\ device \in [Devices -> [owner : Owners, active : BOOLEAN]]
      /\ live \in [Devices -> Owners]
  BY <1>1, <1>3, NoteTyped DEF Cleans, NotesInv, NotesTypeOK
<1>5. noteCalm => \A d \in tokens : live[d] = h.user BY <1>4 DEF Settled
<1>6. tokens \subseteq Devices /\ state \in {"SENT", "send"} OBVIOUS
<1> HIDE DEF tokens, state
<1>7. parts \in [N!Channels -> PartStates] /\ parts["PUSH"] = state
  BY <1>2, <1>6, ChannelsThere DEF PartStates
<1> HIDE DEF parts
<1>8. /\ k \in NoteHandler /\ k.pc = "sending" /\ k.parts = parts /\ k.tokens = tokens
      /\ k.user = h.user
  BY <1>2, <1>3, <1>6, <1>7 DEF NoteHandler
<1> HIDE DEF h, k
<1>9. noteReq'[w] = k BY <1>1 DEF NotesInv, NotesTypeOK
<1>10. noteCalm => PushKnows(w)'
  BY <1>1, <1>4, <1>5, <1>6, <1>7, <1>8, <1>9 DEF PushKnows, Push, Cleans, Settled
<1> QED BY <1>1, <1>3, <1>4, <1>8, <1>10, NoteStep DEF h

\* What the provider accepts goes to the user who registered the device last.
LEMMA PushSends ==
  ASSUME NotesInv, NEW w \in Workers, NEW ok \in SUBSET Devices, NEW invalid \in SUBSET Devices,
         N!SendToTokens(w, ok, invalid)
  PROVE  NotesInv'
<1> DEFINE h == noteReq[w]
           state == IF invalid # {} THEN (IF ok # {} THEN "clean, SENT" ELSE "clean, FAILED")
                    ELSE IF ok # {} THEN "SENT" ELSE "FAILED"
           parts == [h.parts EXCEPT !["PUSH"] = state]
           k == [h EXCEPT !.invalid = invalid, !.parts = parts]
           S == {o \in ok : live[o] # h.user}
<1>1. /\ Push(w) = "send" /\ UNCHANGED <<device, noteCalm>>
      /\ noteReq' = [noteReq EXCEPT ![w] = k]
      /\ ok \subseteq h.tokens
      /\ live' = [d \in Devices |-> IF d \in invalid THEN Nil ELSE live[d]]
      /\ strays' = strays \cup {<<h.user, d>> : d \in S}
  BY DEF N!SendToTokens, Push
<1>2. h \in NoteHandler /\ h.parts \in [N!Channels -> PartStates]
  BY NoteTyped DEF NoteHandler
<1>3. h.pc = "sending" BY <1>1, ChannelsThere DEF NotesInv, Push
<1>4. /\ noteCalm => /\ \A d \in Devices : Settled(d)
                     /\ strays = {}
                     /\ \A d \in h.tokens : live[d] = h.user
      /\ device \in [Devices -> [owner : Owners, active : BOOLEAN]]
      /\ live \in [Devices -> Owners]
  BY <1>1, <1>3, NoteTyped DEF Cleans, PushKnows, NotesInv, NotesTypeOK
<1>5. noteCalm => strays' = {}
  <2>1. noteCalm => S = {} BY <1>1, <1>4
  <2> HIDE DEF S
  <2> QED BY <1>1, <1>4, <2>1
<1>6. /\ state \in PartStates /\ state # "send"
      /\ state \in {"clean, SENT", "clean, FAILED"} \/ invalid = {}
  BY DEF PartStates
<1> HIDE DEF state, S
<1>7. parts \in [N!Channels -> PartStates] /\ parts["PUSH"] = state
  BY <1>2, <1>6, ChannelsThere
<1> HIDE DEF parts
<1>8. /\ k \in NoteHandler /\ k.pc = "sending" /\ k.parts = parts /\ k.invalid = invalid
  BY <1>2, <1>3, <1>7 DEF NoteHandler
<1> HIDE DEF h, k
<1>9. noteReq'[w] = k BY <1>1 DEF NotesInv, NotesTypeOK
<1>10. noteCalm => PushKnows(w)'
  BY <1>1, <1>4, <1>6, <1>7, <1>8, <1>9 DEF PushKnows, Push, Cleans, Settled
<1>11. live' \in [Devices -> Owners] BY <1>1, <1>4 DEF Owners
<1> QED BY <1>1, <1>3, <1>4, <1>5, <1>8, <1>10, <1>11, NoteStep DEF h

\* The tokens that the provider called invalid are put out of use, and no others.
LEMMA PushCleans ==
  ASSUME NotesInv, NEW w \in Workers, N!DeactivateTokens(w)
  PROVE  NotesInv'
<1> DEFINE h == noteReq[w]
           state == N!Outcome(w)
           parts == [h.parts EXCEPT !["PUSH"] = state]
           k == [h EXCEPT !.parts = parts]
<1>1. /\ Cleans(w) /\ UNCHANGED <<live, strays, noteCalm>>
      /\ device' = [d \in Devices |->
           IF d \in h.invalid THEN [device[d] EXCEPT !.active = FALSE] ELSE device[d]]
      /\ noteReq' = [noteReq EXCEPT ![w] = k]
  BY DEF N!DeactivateTokens, N!Cleaning, Cleans, Push
<1>2. h \in NoteHandler /\ h.parts \in [N!Channels -> PartStates]
  BY NoteTyped DEF NoteHandler
<1>3. h.pc = "sending" BY <1>1, ChannelsThere DEF NotesInv, Push, Cleans
<1>4. /\ noteCalm => PushKnows(w) /\ strays = {}
      /\ device \in [Devices -> [owner : Owners, active : BOOLEAN]]
      /\ live \in [Devices -> Owners]
  BY <1>3, NoteTyped DEF NotesInv, NotesTypeOK
<1>5. ASSUME NEW d \in Devices
      PROVE  /\ device'[d] \in [owner : Owners, active : BOOLEAN]
             /\ noteCalm => Settled(d)'
  <2>1. device[d] \in [owner : Owners, active : BOOLEAN] BY <1>4
  <2>2. CASE d \in h.invalid
    <3>1. device'[d] = [device[d] EXCEPT !.active = FALSE] BY <1>1, <2>2
    <3>2. /\ device'[d] \in [owner : Owners, active : BOOLEAN]
          /\ device'[d].active = FALSE
      BY <2>1, <3>1
    <3>3. noteCalm => live[d] = Nil BY <1>1, <1>4, <2>2 DEF PushKnows
    <3> QED BY <1>1, <3>2, <3>3 DEF Settled
  <2>3. CASE d \notin h.invalid
    <3>1. device'[d] = device[d] BY <1>1, <2>3
    <3>2. noteCalm => Settled(d) BY <1>4, <2>3 DEF PushKnows
    <3> QED BY <1>1, <2>1, <3>1, <3>2 DEF Settled
  <2> QED BY <2>2, <2>3
<1>6. device' \in [Devices -> [owner : Owners, active : BOOLEAN]]
  <2>1. device' = [d \in Devices |-> device'[d]] BY <1>1
  <2> QED BY <1>5, <2>1
<1>7. state \in {"SENT", "FAILED"} BY DEF N!Outcome
<1> HIDE DEF state
<1>8. parts \in [N!Channels -> PartStates] /\ parts["PUSH"] = state
  BY <1>2, <1>7, ChannelsThere DEF PartStates
<1> HIDE DEF parts
<1>9. k \in NoteHandler /\ k.pc = "sending" /\ k.parts = parts
  BY <1>2, <1>3, <1>8 DEF NoteHandler
<1> HIDE DEF h, k
<1>10. noteReq'[w] = k BY <1>1 DEF NotesInv, NotesTypeOK
<1>11. noteCalm => PushKnows(w)'
  BY <1>5, <1>7, <1>8, <1>9, <1>10 DEF PushKnows, Push, Cleans
<1> QED BY <1>1, <1>3, <1>4, <1>6, <1>9, <1>11, NoteStep DEF h

\* A token is registered: it is its new user's, whoever had it.
LEMMA TokenWritten ==
  ASSUME NotesInv, NEW w \in Workers, N!WriteToken(w)
  PROVE  NotesInv'
<1> DEFINE h == noteReq[w]
<1>1. /\ h.pc \in {"create", "update"} /\ UNCHANGED <<strays, noteCalm>> /\ N!Return(w)
      /\ noteReq' = [noteReq EXCEPT ![w] = N!Idle]
  BY DEF N!WriteToken, N!At, N!Return
<1>2. /\ Push(w) = "off" /\ ~Cleans(w) BY <1>1, ChannelsThere DEF NotesInv, Push, Cleans
<1>3. CASE UNCHANGED <<device, live>>
  BY <1>1, <1>2, <1>3, NoteReturns
<1>4. ASSUME device' = [d \in Devices |->
               IF d \in h.tokens THEN [owner |-> h.user, active |-> TRUE] ELSE device[d]],
             live' = [d \in Devices |-> IF d \in h.tokens THEN h.user ELSE live[d]]
      PROVE  NotesInv'
  <2>1. h.user \in Owners BY NoteTyped DEF NoteHandler
  <2>2. /\ noteCalm => (\A d \in Devices : Settled(d)) /\ strays = {}
        /\ device \in [Devices -> [owner : Owners, active : BOOLEAN]]
        /\ live \in [Devices -> Owners]
    BY <1>1, <1>2, NoteTyped DEF NotesInv, NotesTypeOK
  <2>3. /\ device' \in [Devices -> [owner : Owners, active : BOOLEAN]]
        /\ live' \in [Devices -> Owners]
    BY <1>4, <2>1, <2>2
  <2>4. noteCalm => \A d \in Devices : Settled(d)'
    BY <1>4, <2>1, <2>2 DEF Settled
  <2>5. noteReq'[w] = N!Idle BY <1>1 DEF NotesInv, NotesTypeOK
  <2>6. noteCalm => PushKnows(w)'
    BY <2>4, <2>5, NoteIdle DEF PushKnows, Push, Cleans
  <2>7. h.pc # "idle" BY <1>1
  <2> HIDE DEF h
  <2> QED BY <1>1, <2>2, <2>3, <2>6, <2>7, NoteIdle, NoteStep DEF h
<1> QED BY <1>3, <1>4 DEF N!WriteToken

LEMMA NotesNext == NotesInv /\ [N!Next]_(N!vars) => NotesInv'
<1> SUFFICES ASSUME NotesInv, [N!Next]_(N!vars) PROVE NotesInv'
  OBVIOUS
<1>1. /\ device \in [Devices -> [owner : Owners, active : BOOLEAN]]
      /\ live \in [Devices -> Owners]
  BY DEF NotesInv, NotesTypeOK
<1>2. ASSUME UNCHANGED <<device, noteReq, live, strays, noteCalm>> PROVE NotesInv'
  BY <1>2 DEF NotesInv, NotesTypeOK, NotesCalm, PushKnows, AllSettled, Settled, N!Quiet, N!At,
              Cleans, Push
<1>3. ASSUME NEW u \in Users, NEW enabled \in SUBSET N!Channels,
             N!UpdatePreferences(u, enabled)
      PROVE  NotesInv'
  <2>1. UNCHANGED <<device, noteReq, live, strays>> /\ (noteCalm' => noteCalm /\ N!Quiet)
    BY <1>3 DEF N!UpdatePreferences
  <2> QED BY <1>1, <2>1, NoteBeside DEF Settled
<1>4. ASSUME NEW d \in Devices, N!UnregisterToken(d) PROVE NotesInv'
  <2> DEFINE c == [device[d] EXCEPT !.active = FALSE]
  <2>1. /\ UNCHANGED <<noteReq, strays>> /\ (noteCalm' => noteCalm /\ N!Quiet)
        /\ device' = [device EXCEPT ![d] = c] /\ live' = [live EXCEPT ![d] = Nil]
    BY <1>4 DEF N!UnregisterToken
  <2>2. c \in [owner : Owners, active : BOOLEAN] /\ c.active = FALSE BY <1>1
  <2> HIDE DEF c
  <2>3. /\ device' \in [Devices -> [owner : Owners, active : BOOLEAN]]
        /\ live' \in [Devices -> Owners]
        /\ \A e \in Devices : Settled(e) => Settled(e)'
    BY <1>1, <2>1, <2>2 DEF Settled, Owners
  <2> QED BY <2>1, <2>3, NoteBeside
<1> QED BY <1>2, <1>3, <1>4, NoteCalls, NoteChecks, NoteDelivers, PushReads, PushSends,
           PushCleans, TokenWritten
        DEF N!Next, N!Rest, N!vars

\* What every behaviour of the notifications keeps.
THEOREM NotesInvariant == N!Spec => []NotesInv
BY NotesInit, NotesNext, PTL DEF N!Spec

\* PushesReachTheirUser for any users, devices and handlers: the devices that a
\* push reads are those whose token its user registered last, and stay so.
THEOREM NoPushStrays == N!Spec => []PushesReachTheirUser
<1>1. NotesInv => PushesReachTheirUser
  BY DEF NotesInv, NotesCalm, PushesReachTheirUser, N!PushesReachTheirUser
<1> QED BY <1>1, NotesInvariant, PTL

\* LiveTokensActive for any users, devices and handlers: while tokens are cleaned
\* up after a push, only those of its answer are in use and nobody's.
THEOREM TokensAreCleanedUp == N!Spec => []LiveTokensActive
<1>1. NotesInv => LiveTokensActive
  BY DEF NotesInv, NotesCalm, AllSettled, Settled, LiveTokensActive, N!LiveTokensActive
<1> QED BY <1>1, NotesInvariant, PTL

-----------------------------------------------------------------------------
(* The whole                                                               *)

\* A step of Customers is one of the part that focus names, and the others
\* stutter: it implements each of the three.
THEOREM CustomersImplements == CustomersSpec => Spec /\ N!Spec /\ P!Spec
<1>1. CustomersInit => Init /\ N!Init /\ P!Init
  BY DEF CustomersInit
<1>2. ASSUME [CustomersNext]_<<focus, vars, noteVars, placeVars>>
      PROVE  [Next]_vars /\ [N!Next]_(N!vars) /\ [P!Next]_(P!vars)
  <2>1. UNCHANGED noteVars => UNCHANGED N!vars BY DEF noteVars, N!vars
  <2>2. UNCHANGED placeVars => UNCHANGED P!vars BY DEF placeVars, P!vars
  <2> QED BY <1>2, <2>1, <2>2 DEF CustomersNext
<1> QED BY <1>1, <1>2, PTL DEF CustomersSpec, Spec, N!Spec, P!Spec

\* What the run of Customers checks, of the whole and for any sets: the rows and
\* the bank, the devices of a push, and the agent of a branch.
THEOREM CustomersKeeps ==
  CustomersSpec =>
    [](AwaitingHasAccount /\ BankAgrees /\ NoOrphan /\ PushesReachTheirUser /\
       LiveTokensActive /\ NamedAgentWorksThere)
BY CustomersImplements, AwaitingNeedsAccount, BankAndRowsAgree, NoAccountIsLost, NoPushStrays,
   TokensAreCleanedUp, BranchHasItsAgent, PTL
=============================================================================
