------------------------------ MODULE Deposits ------------------------------
(***************************************************************************)
(* Naira deposits on Providus virtual accounts: the notification webhook,  *)
(* the verification of a deposit with the bank, the confirmation of the    *)
(* transaction it pays for, manual verification by staff, and the two      *)
(* staff paths that confirm a deposit without the bank.                    *)
(*                                                                         *)
(* The server is one Node.js process: a handler runs until it awaits the   *)
(* database or the bank, then another may run.  Each action below is the   *)
(* part of a handler between two awaits whose order can be observed; a     *)
(* database statement is atomic, and no handler opens a transaction.       *)
(***************************************************************************)
EXTENDS Integers

CONSTANTS
  Txns,         \* FX transactions, each with its own virtual account
  Sessions,     \* bank session ids, one for every transfer the bank reports
  Workers,      \* requests in flight at the same time
  Nil,          \* a null column, or a field that is not set
  Staff,        \* the payment reference of a confirmation typed in by staff
  AccountOf,    \* AccountOf[s]: the transaction whose account the bank credited
  Posted,       \* Posted[s]: settledAmount in the bank's verification answer
  Notices,      \* the webhook payloads that may arrive: nothing makes their
                \* account or amount those of the bank
  Expected,     \* Expected[t]: nairaEquivalent, Nil when no rate was known
  ReviewStatuses,  \* the statuses other components write to a transaction
  MayCrash      \* whether the process may be killed and started again

ASSUME ConstantsAssumption ==
  /\ AccountOf \in [Sessions -> Txns]
  /\ Posted \in [Sessions -> Int]
  /\ Notices \subseteq [session : Sessions, txn : Txns, amount : Int]
  /\ Expected \in [Txns -> Int \cup {Nil}]
  /\ Nil \notin Int
  /\ {Nil, Staff} \cap Sessions = {}
  /\ Nil # Staff
  /\ Nil \notin Txns
  /\ "DEPOSIT_CONFIRMED" \notin ReviewStatuses
  /\ MayCrash \in BOOLEAN

VARIABLES
  txStatus,     \* Transaction.status
  account,      \* VirtualAccount.isBlacklisted of the transaction's account
  deposit,      \* the ProvidusDeposit row of a session
  settlement,   \* the Settlement row of a transaction (the inbound payment)
  req,          \* the handlers in flight
  answered      \* history: the sessions the bank has answered for

vars == <<txStatus, account, deposit, settlement, req, answered>>

DepositStatuses == {"PENDING", "VERIFIED", "SETTLED", "FAILED"}

NoDeposit == [status |-> "NONE", txn |-> Nil, amount |-> Nil, origin |-> Nil]
NoSettlement == [status |-> "NONE", ref |-> Nil]
Idle == [pc |-> "idle", session |-> Nil, txn |-> Nil, amount |-> Nil,
         marksFailed |-> FALSE]

\* confirmTransactionDeposit compares the amounts only when one is expected.
Matches(t, amount) == Expected[t] = Nil \/ amount = Expected[t]

Exists(s) == deposit[s].status # "NONE"

-----------------------------------------------------------------------------
(* A transaction whose account was just opened: createVirtualAccount has   *)
(* stored the account and set the status.                                  *)

Init ==
  /\ txStatus = [t \in Txns |-> "AWAITING_DEPOSIT"]
  /\ account = [t \in Txns |-> "OPEN"]
  /\ deposit = [s \in Sessions |-> NoDeposit]
  /\ settlement = [t \in Txns |-> NoSettlement]
  /\ req = [w \in Workers |-> Idle]
  /\ answered = {}

At(w, pc) == req[w].pc = pc
Goto(w, pc) == req' = [req EXCEPT ![w].pc = pc]
Return(w) == req' = [req EXCEPT ![w] = Idle]

\* An exception below verifyDeposit is caught there and the row is marked
\* FAILED; manualVerifyDeposit, which confirms without it, only rethrows.
Throw(w) == IF req[w].marksFailed THEN Goto(w, "failing") ELSE Return(w)

-----------------------------------------------------------------------------
(* handleDepositWebhook                                                    *)

\* Notification n arrives, the first or a repeated one, and the account whose
\* number it gives is read; a blacklisted one ends the request with an error.
ReceiveWebhook(w, n) ==
  /\ At(w, "idle")
  /\ account[n.txn] # "BLACKLISTED"
  /\ req' = [req EXCEPT ![w] = [pc |-> "lookup", session |-> n.session,
                txn |-> n.txn, amount |-> n.amount, marksFailed |-> TRUE]]
  /\ UNCHANGED <<txStatus, account, deposit, settlement, answered>>

\* A session that already has a row, in whatever state, is answered with it.
LookupDeposit(w) ==
  /\ At(w, "lookup")
  /\ IF Exists(req[w].session) THEN Return(w) ELSE Goto(w, "insert")
  /\ UNCHANGED <<txStatus, account, deposit, settlement, answered>>

\* The row is inserted with the notification's account and amount; sessionId
\* is unique, so a second insert throws.
InsertDeposit(w) ==
  LET s == req[w].session IN
  /\ At(w, "insert")
  /\ IF Exists(s)
       THEN Return(w) /\ UNCHANGED deposit
       ELSE /\ deposit' = [deposit EXCEPT ![s] = [status |-> "PENDING",
                  txn |-> req[w].txn, amount |-> req[w].amount,
                  origin |-> "webhook"]]
            /\ req' = [req EXCEPT ![w].pc = "verify", ![w].amount = Nil]
  /\ UNCHANGED <<txStatus, account, settlement, answered>>

-----------------------------------------------------------------------------
(* verifyDeposit                                                           *)

\* The bank knows the session: the row becomes VERIFIED.  The account and the
\* amount of the answer are not looked at, those in the row are kept.
VerifyDeposit(w) ==
  /\ At(w, "verify")
  /\ deposit' = [deposit EXCEPT ![req[w].session].status = "VERIFIED"]
  /\ answered' = answered \cup {req[w].session}
  /\ Goto(w, "compare")
  /\ UNCHANGED <<txStatus, account, settlement>>

\* Mutant: the failed call is logged but the row is left as it is.
VerifyFailsSilently(w) ==
  /\ At(w, "verify")
  /\ Return(w)
  /\ UNCHANGED <<txStatus, account, deposit, settlement, answered>>

\* Mutant: the failed call is logged and the confirmation goes on without it.
VerifyFailsGoesOn(w) ==
  /\ At(w, "verify")
  /\ Goto(w, "compare")
  /\ UNCHANGED <<txStatus, account, deposit, settlement, answered>>

\* The bank call fails or times out.
VerifyFails(w) ==
  /\ At(w, "verify")
  /\ Throw(w)
  /\ UNCHANGED <<txStatus, account, deposit, settlement, answered>>

\* Mutant: the catch rethrows without writing FAILED.
MarkNothing(w) ==
  /\ At(w, "failing")
  /\ Return(w)
  /\ UNCHANGED <<txStatus, account, deposit, settlement, answered>>

\* The catch of verifyDeposit.
MarkFailed(w) ==
  /\ At(w, "failing")
  /\ deposit' = [deposit EXCEPT ![req[w].session].status = "FAILED"]
  /\ Return(w)
  /\ UNCHANGED <<txStatus, account, settlement, answered>>

-----------------------------------------------------------------------------
(* confirmTransactionDeposit                                               *)

\* Mutant: the comparison of the amounts is dropped.
SettleAnyAmount(w) ==
  /\ At(w, "compare")
  /\ deposit' = [deposit EXCEPT ![req[w].session].status = "SETTLED"]
  /\ Goto(w, "confirm")
  /\ UNCHANGED <<txStatus, account, settlement, answered>>

\* The settled amount in the row is what is expected: the row is SETTLED.
SettleDeposit(w) ==
  LET s == req[w].session IN
  /\ At(w, "compare")
  /\ Matches(req[w].txn, deposit[s].amount)
  /\ deposit' = [deposit EXCEPT ![s].status = "SETTLED"]
  /\ Goto(w, "confirm")
  /\ UNCHANGED <<txStatus, account, settlement, answered>>

\* It is not: the customer is notified before the status is set.
AmountMismatch(w) ==
  /\ At(w, "compare")
  /\ ~Matches(req[w].txn, deposit[req[w].session].amount)
  /\ Goto(w, "mismatch")
  /\ UNCHANGED <<txStatus, account, deposit, settlement, answered>>

SetDepositPending(w) ==
  /\ At(w, "mismatch")
  /\ txStatus' = [txStatus EXCEPT ![req[w].txn] = "DEPOSIT_PENDING"]
  /\ Return(w)
  /\ UNCHANGED <<account, deposit, settlement, answered>>

\* No condition on the status the transaction has by now.
SetDepositConfirmed(w) ==
  /\ At(w, "confirm")
  /\ txStatus' = [txStatus EXCEPT ![req[w].txn] = "DEPOSIT_CONFIRMED"]
  /\ Goto(w, "credit")
  /\ UNCHANGED <<account, deposit, settlement, answered>>

\* Mutant: the settlement is upserted, as the admin service does.
UpsertSettlement(w) ==
  /\ At(w, "credit")
  /\ settlement' = [settlement EXCEPT ![req[w].txn] =
                      [status |-> "CONFIRMED", ref |-> req[w].session]]
  /\ Goto(w, "notify")
  /\ UNCHANGED <<txStatus, account, deposit, answered>>

\* Settlement.transactionId is unique: a second insert throws.
CreateSettlement(w) ==
  LET t == req[w].txn IN
  /\ At(w, "credit")
  /\ IF settlement[t].status = "NONE"
       THEN /\ settlement' = [settlement EXCEPT ![t] =
                  [status |-> "CONFIRMED", ref |-> req[w].session]]
            /\ Goto(w, "notify")
       ELSE Throw(w) /\ UNCHANGED settlement
  /\ UNCHANGED <<txStatus, account, deposit, answered>>

\* The step log and the customer's notification.
NotifyConfirmed(w) ==
  /\ At(w, "notify")
  /\ Return(w)
  /\ UNCHANGED <<txStatus, account, deposit, settlement, answered>>

\* A read, a write or a notification fails: what was written before it stays.
ConfirmFails(w) ==
  /\ req[w].pc \in {"compare", "mismatch", "confirm", "credit", "notify"}
  /\ Throw(w)
  /\ UNCHANGED <<txStatus, account, deposit, settlement, answered>>

-----------------------------------------------------------------------------
(* manualVerifyDeposit                                                     *)

\* A row that exists is verified again, whatever its status, for the account
\* it names; else the account will be the one in the bank's answer.
ManualVerify(w, s) ==
  /\ At(w, "idle")
  /\ req' = [req EXCEPT ![w] =
       [pc |-> IF Exists(s) THEN "verify" ELSE "manual", session |-> s,
        txn |-> IF Exists(s) THEN deposit[s].txn ELSE AccountOf[s],
        amount |-> Nil, marksFailed |-> Exists(s)]]
  /\ UNCHANGED <<txStatus, account, deposit, settlement, answered>>

\* Otherwise the row is made from the bank's answer, VERIFIED at once; the
\* account's blacklisting is not consulted.
ManualInsert(w) ==
  LET s == req[w].session IN
  /\ At(w, "manual")
  /\ answered' = answered \cup {s}
  /\ IF Exists(s)
       THEN Return(w) /\ UNCHANGED deposit
       ELSE /\ deposit' = [deposit EXCEPT ![s] = [status |-> "VERIFIED",
                  txn |-> req[w].txn, amount |-> Posted[s], origin |-> "manual"]]
            /\ Goto(w, "compare")
  /\ UNCHANGED <<txStatus, account, settlement>>

ManualVerifyFails(w) ==
  /\ At(w, "manual")
  /\ Return(w)
  /\ UNCHANGED <<txStatus, account, deposit, settlement, answered>>

-----------------------------------------------------------------------------
(* The payment and admin services' own records of a deposit                *)

\* initiateDeposit: a PENDING settlement, once for a transaction.
InitiateDeposit(t) ==
  /\ settlement[t].status = "NONE"
  /\ settlement' = [settlement EXCEPT ![t].status = "PENDING"]
  /\ UNCHANGED <<txStatus, account, deposit, req, answered>>

\* PaymentService.confirmDeposit: the row is confirmed, the status is not.
ConfirmSettlement(t) ==
  /\ settlement[t].status # "NONE"
  /\ settlement' = [settlement EXCEPT ![t] =
                      [status |-> "CONFIRMED", ref |-> Staff]]
  /\ UNCHANGED <<txStatus, account, deposit, req, answered>>

\* AdminService.confirmDeposit: upsert the row, then set the status.
AdminConfirm(w, t) ==
  /\ At(w, "idle")
  /\ settlement' = [settlement EXCEPT ![t] =
                      [status |-> "CONFIRMED", ref |-> Staff]]
  /\ req' = [req EXCEPT ![w] = [Idle EXCEPT !.pc = "admin", !.txn = t]]
  /\ UNCHANGED <<txStatus, account, deposit, answered>>

AdminSetConfirmed(w) ==
  /\ At(w, "admin")
  /\ txStatus' = [txStatus EXCEPT ![req[w].txn] = "DEPOSIT_CONFIRMED"]
  /\ Return(w)
  /\ UNCHANGED <<account, deposit, settlement, answered>>

-----------------------------------------------------------------------------
(* What the rest of the system does to the shared rows                     *)

Blacklist(t) ==
  /\ account' = [account EXCEPT ![t] = "BLACKLISTED"]
  /\ UNCHANGED <<txStatus, deposit, settlement, req, answered>>

Unblacklist(t) ==
  /\ account' = [account EXCEPT ![t] = "OPEN"]
  /\ UNCHANGED <<txStatus, deposit, settlement, req, answered>>

\* Staff reviews and payouts set a status without looking at the current one.
ReviewTransaction(t, status) ==
  /\ txStatus' = [txStatus EXCEPT ![t] = status]
  /\ UNCHANGED <<account, deposit, settlement, req, answered>>

\* The process dies: what it had not written is lost, nothing resumes it.
Crash ==
  /\ MayCrash
  /\ req' = [w \in Workers |-> Idle]
  /\ UNCHANGED <<txStatus, account, deposit, settlement, answered>>

-----------------------------------------------------------------------------
Step(w) ==
  \/ LookupDeposit(w) \/ InsertDeposit(w)
  \/ VerifyDeposit(w) \/ VerifyFails(w) \/ MarkFailed(w)
  \/ SettleDeposit(w) \/ AmountMismatch(w) \/ SetDepositPending(w)
  \/ SetDepositConfirmed(w) \/ CreateSettlement(w) \/ NotifyConfirmed(w)
  \/ ConfirmFails(w) \/ ManualInsert(w) \/ ManualVerifyFails(w) \/ AdminSetConfirmed(w)

Request(w) ==
  \/ \E n \in Notices : ReceiveWebhook(w, n)
  \/ \E s \in Sessions : ManualVerify(w, s)
  \/ \E t \in Txns : AdminConfirm(w, t)

Environment ==
  \/ \E t \in Txns : \/ InitiateDeposit(t) \/ ConfirmSettlement(t)
                     \/ Blacklist(t) \/ Unblacklist(t)
                     \/ \E st \in ReviewStatuses : ReviewTransaction(t, st)
  \/ Crash

Next == (\E w \in Workers : Step(w) \/ Request(w)) \/ Environment

Spec == Init /\ [][Next]_vars

\* The event loop resumes every handler, and every call to the database, the
\* bank (30 s timeout) or the mail server returns; nobody has to send requests.
FairSpec == Spec /\ \A w \in Workers : WF_vars(Step(w))
-----------------------------------------------------------------------------
(* Properties                                                              *)

Programs == {"idle", "lookup", "insert", "verify", "failing", "compare",
             "mismatch", "confirm", "credit", "notify", "manual", "admin"}

TxStatuses == ReviewStatuses \cup
  {"AWAITING_DEPOSIT", "DEPOSIT_PENDING", "DEPOSIT_CONFIRMED"}
DepositRow == [status : DepositStatuses \cup {"NONE"}, txn : Txns \cup {Nil},
               amount : Int \cup {Nil}, origin : {"webhook", "manual", Nil}]
SettlementRow == [status : {"NONE", "PENDING", "CONFIRMED"},
                  ref : Sessions \cup {Nil, Staff}]
Handler == [pc : Programs, session : Sessions \cup {Nil},
            txn : Txns \cup {Nil}, amount : Int \cup {Nil},
            marksFailed : BOOLEAN]

\* Every row and every handler has the shape the schema and the code give it.
TypeOK ==
  /\ txStatus \in [Txns -> TxStatuses]
  /\ account \in [Txns -> {"OPEN", "BLACKLISTED"}]
  /\ deposit \in [Sessions -> DepositRow]
  /\ settlement \in [Txns -> SettlementRow]
  /\ req \in [Workers -> Handler]
  /\ answered \subseteq Sessions

\* The transfer pays for t as far as the program looks: the bank knows it, and
\* its row names t's account and an amount t accepts.
Pays(s, t) ==
  s \in answered /\ deposit[s].txn = t /\ Matches(t, deposit[s].amount)

\* What the bank answers for s, and what the row of s says.
BankSays(s) == [session |-> s, txn |-> AccountOf[s], amount |-> Posted[s]]
RowSays(s) == [session |-> s, txn |-> deposit[s].txn, amount |-> deposit[s].amount]

\* A row says what one notification said, or, made by hand, what the bank said.
Sourced(s) ==
  RowSays(s) \in IF deposit[s].origin = "manual" THEN {BankSays(s)} ELSE Notices

\* A settlement the system confirmed refers to a transfer the bank has answered
\* for, and to an account and an expected amount that come together from one
\* notification, or from the bank when the row was made by hand: whatever
\* interleaves or dies between the notification, the bank's answer, the
\* comparison in confirmTransactionDeposit and the insert of the settlement.
\* The code does not compare a notification's account and amount with the
\* bank's, so that they are the bank's too is not claimed.
CreditBacked ==
  \A t \in Txns : settlement[t].ref \in Sessions =>
    /\ settlement[t].status = "CONFIRMED"
    /\ Pays(settlement[t].ref, t)
    /\ Sourced(settlement[t].ref)

\* A transaction is DEPOSIT_CONFIRMED only if some transfer pays for it in this
\* sense or staff confirmed it, in every interleaving of the webhook, the
\* manual and the admin handlers.
ConfirmedIsBacked ==
  \A t \in Txns : txStatus[t] = "DEPOSIT_CONFIRMED" =>
    settlement[t].ref = Staff \/ \E s \in Sessions : Pays(s, t)

\* Were every notification what the bank says, a credit would be a transfer
\* that the bank made to that account for an amount that is accepted.
TruthfulNotices == \A n \in Notices : n = BankSays(n.session)
CreditIsTrue ==
  \A t \in Txns : settlement[t].ref \in Sessions =>
    AccountOf[settlement[t].ref] = t /\ Matches(t, Posted[settlement[t].ref])

Credited(s) == settlement[deposit[s].txn].ref \in {s, Staff}

Working(s) == {w \in Workers : req[w].session = s}

\* While the process does not die, a deposit made by a notification that is
\* left SETTLED, with no handler at work on it, is the one its transaction is
\* credited with (or staff has since taken the credit over): the losers of a
\* race for Settlement.transactionId all end FAILED.
SettledIsCredited ==
  \A s \in Sessions :
    deposit[s].status = "SETTLED" /\ deposit[s].origin = "webhook"
      /\ Working(s) = {} => Credited(s)

\* The deposit side implements the ledger: confirmations by transfers never
\* replace a credit, through the unique key of Settlement alone.
MayPay == [t \in Txns |-> {s \in Sessions : \E n \in Notices \cup {BankSays(s)} :
              n.session = s /\ n.txn = t /\ Matches(t, n.amount)}]
Ledger == INSTANCE CreditLedger WITH
  credit <- [t \in Txns |-> settlement[t].ref],
  Payable <- MayPay
LedgerSpec == Ledger!Spec

\* A notified deposit does not stay PENDING: verifyDeposit ends in VERIFIED or
\* in its catch, which sets FAILED, whatever call under it throws.
PendingIsResolved ==
  \A s \in Sessions : deposit[s].status = "PENDING" ~> deposit[s].status # "PENDING"

-----------------------------------------------------------------------------
(* What the proofs need to know besides: the handlers' local state.        *)

OnSession == Programs \ {"idle", "admin"}
OnRow == OnSession \ {"lookup", "insert", "manual"}

\* A handler acts on the account a notification, the row or the bank named;
\* past the insert the row exists and names it, past verification the bank has
\* answered, and past the comparison the amount in the row is the expected one.
HandlerOK(w) ==
  LET r == req[w] IN
  /\ r.pc \in OnSession => r.session \in Sessions /\ r.txn \in Txns
  /\ r.pc \in {"lookup", "insert"} =>
       [session |-> r.session, txn |-> r.txn, amount |-> r.amount] \in Notices
  /\ r.pc = "manual" => r.txn = AccountOf[r.session]
  /\ r.pc \in OnRow => Exists(r.session) /\ deposit[r.session].txn = r.txn
  /\ r.pc \in OnRow \ {"verify", "failing"} => r.session \in answered
  /\ r.pc \in {"confirm", "credit"} => Matches(r.txn, deposit[r.session].amount)
  /\ r.pc = "admin" => r.txn \in Txns /\ settlement[r.txn].ref = Staff

InFlight == \A w \in Workers : HandlerOK(w)

\* Every row says what it was made from, and the bank is asked about rows only;
\* a settlement that names a payment is confirmed.
RowsOK ==
  /\ \A s \in answered : Exists(s)
  /\ \A s \in Sessions : Exists(s) => Sourced(s)
  /\ \A t \in Txns : settlement[t].ref # Nil => settlement[t].status = "CONFIRMED"

\* Inductive: a transfer that pays for a transaction goes on doing so, because
\* no statement changes the account or the amount of a row.
DepositInv == TypeOK /\ InFlight /\ RowsOK /\ CreditBacked /\ ConfirmedIsBacked

\* A handler on a webhook's row marks it FAILED when it throws.
MarksOK(w) ==
  req[w].pc \in OnSession \ {"manual"} /\ ~req[w].marksFailed
    => req[w].pc \in OnRow /\ deposit[req[w].session].origin = "manual"

\* A webhook's row that is SETTLED is credited, or some handler is on its way
\* to credit it or to mark it.
SettledOK(s) ==
  deposit[s].status = "SETTLED" /\ deposit[s].origin = "webhook" /\ ~Credited(s)
    => \E w \in Workers : req[w].session = s
                          /\ req[w].pc \in {"confirm", "credit", "failing"}

\* Inductive, with DepositInv, while the process does not die.
SettledInv == (\A w \in Workers : MarksOK(w)) /\ (\A s \in Sessions : SettledOK(s))
=============================================================================
