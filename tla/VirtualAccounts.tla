-------------------------- MODULE VirtualAccounts --------------------------
(***************************************************************************)
(* The virtual account of a transaction: opened at the bank on request of  *)
(* the customer or of staff, expiring, blacklisted and released.           *)
(*                                                                         *)
(* The bank's own accounts are a variable of their own: a row and the bank *)
(* are written by separate awaited calls, and the bank's may take 30 s.    *)
(***************************************************************************)
EXTENDS FiniteSets

CONSTANTS
  Txns,       \* transactions
  Numbers,    \* account numbers the bank hands out
  Workers,    \* requests in flight at the same time
  Nil,        \* a field that is not set
  MayFail     \* whether statements fail, answers are lost, the process dies

ASSUME VirtualAccountsAssumption ==
  /\ Nil \notin Txns \cup Numbers
  /\ MayFail \in BOOLEAN

VARIABLES
  txStatus,   \* Transaction.status, as far as accounts depend on it
  row,        \* the VirtualAccount row of a transaction
  bank,       \* the bank's accounts: for whom it opened them, and blacklisting
  req,        \* the handlers in flight
  calm        \* history: no request has met another one, or failed

vars == <<txStatus, row, bank, req, calm>>

NoRow == [status |-> "NONE", number |-> Nil, blacklisted |-> FALSE, expired |-> FALSE]
NotOpened == [owner |-> Nil, blocked |-> FALSE]
Idle == [pc |-> "idle", txn |-> Nil, number |-> Nil, block |-> FALSE]

Init ==
  /\ txStatus = [t \in Txns |-> "REVIEW"]
  /\ row = [t \in Txns |-> NoRow]
  /\ bank = [n \in Numbers |-> NotOpened]
  /\ req = [w \in Workers |-> Idle]
  /\ calm = TRUE

Exists(t) == row[t].status # "NONE"
Opened(n) == bank[n].owner # Nil
At(w, pc) == req[w].pc = pc
Goto(w, pc) == req' = [req EXCEPT ![w].pc = pc]
Return(w) == req' = [req EXCEPT ![w] = Idle]

-----------------------------------------------------------------------------
(* createTransactionVirtualAccount, the customer's request                 *)

CustomerRequest(w, t) ==
  /\ At(w, "idle")
  /\ txStatus[t] = "APPROVED"
  /\ req' = [req EXCEPT ![w] = [Idle EXCEPT !.pc = "customer", !.txn = t]]
  /\ UNCHANGED <<txStatus, row, bank>>

\* An account that is not expired is the answer; an expired one is deactivated
\* before "creating new one".
CustomerLookup(w) ==
  LET r == row[req[w].txn] IN
  /\ At(w, "customer")
  /\ CASE r.status = "NONE" -> Goto(w, "lookup")
       [] r.expired         -> Goto(w, "deactivate")
       [] OTHER             -> Return(w)
  /\ UNCHANGED <<txStatus, row, bank>>

Deactivate(w) ==
  /\ At(w, "deactivate")
  /\ row' = [row EXCEPT ![req[w].txn].status = "INACTIVE"]
  /\ Goto(w, "renew")
  /\ UNCHANGED <<txStatus, bank>>

-----------------------------------------------------------------------------
(* createVirtualAccount                                                    *)

AdminRequest(w, t) ==
  /\ At(w, "idle")
  /\ req' = [req EXCEPT ![w] = [Idle EXCEPT !.pc = "lookup", !.txn = t]]
  /\ UNCHANGED <<txStatus, row, bank>>

\* Mutant: no look for an existing account.
NoLookup(w) ==
  /\ At(w, "lookup") \/ At(w, "renew")
  /\ Goto(w, "read")
  /\ UNCHANGED <<txStatus, row, bank>>

\* An account the transaction already has is returned, in whatever state.
LookupAccount(w) ==
  /\ At(w, "lookup") \/ At(w, "renew")
  /\ IF Exists(req[w].txn) THEN Return(w) ELSE Goto(w, "read")
  /\ UNCHANGED <<txStatus, row, bank>>

ReadTransaction(w) ==
  /\ At(w, "read")
  /\ IF txStatus[req[w].txn] = "APPROVED" THEN Goto(w, "open") ELSE Return(w)
  /\ UNCHANGED <<txStatus, row, bank>>

\* Mutant: the status is written before the account is stored.
OpenAndAwait(w, n) ==
  /\ At(w, "open")
  /\ ~Opened(n)
  /\ bank' = [bank EXCEPT ![n].owner = req[w].txn]
  /\ txStatus' = [txStatus EXCEPT ![req[w].txn] = "AWAITING_DEPOSIT"]
  /\ req' = [req EXCEPT ![w].pc = "insert", ![w].number = n]
  /\ UNCHANGED row

\* The bank opens an account with a number it has not used.
OpenAccount(w, n) ==
  /\ At(w, "open")
  /\ ~Opened(n)
  /\ bank' = [bank EXCEPT ![n].owner = req[w].txn]
  /\ req' = [req EXCEPT ![w].pc = "insert", ![w].number = n]
  /\ UNCHANGED <<txStatus, row>>

\* It does, and the answer is lost or late.
OpenedInVain(w, n) ==
  /\ MayFail
  /\ At(w, "open")
  /\ ~Opened(n)
  /\ bank' = [bank EXCEPT ![n].owner = req[w].txn]
  /\ Return(w)
  /\ UNCHANGED <<txStatus, row>>

NewRow(n) == [status |-> "ACTIVE", number |-> n, blacklisted |-> FALSE, expired |-> FALSE]

\* VirtualAccount.transactionId is unique: a second insert throws.
InsertAccount(w) ==
  LET t == req[w].txn IN
  /\ At(w, "insert")
  /\ IF Exists(t)
       THEN Return(w) /\ UNCHANGED row
       ELSE /\ row' = [row EXCEPT ![t] = NewRow(req[w].number)]
            /\ Goto(w, "await")
  /\ UNCHANGED <<txStatus, bank>>

\* No condition on the status the transaction has by now.
SetAwaitingDeposit(w) ==
  /\ At(w, "await")
  /\ txStatus' = [txStatus EXCEPT ![req[w].txn] = "AWAITING_DEPOSIT"]
  /\ Return(w)
  /\ UNCHANGED <<row, bank>>

-----------------------------------------------------------------------------
(* blacklistAccount, unblacklistAccount, deactivateExpiredAccounts         *)

\* Mutant: the row is looked for, but the bank is not told.
MarkOnly(w, n, block) ==
  /\ At(w, "idle")
  /\ Opened(n)
  /\ req' = [req EXCEPT ![w] = [Idle EXCEPT !.pc = "mark", !.number = n, !.block = block]]
  /\ UNCHANGED <<txStatus, row, bank>>

\* The bank first, for the number staff typed in.
AskBank(w, n, block) ==
  /\ At(w, "idle")
  /\ Opened(n)
  /\ bank' = [bank EXCEPT ![n].blocked = block]
  /\ req' = [req EXCEPT ![w] = [Idle EXCEPT !.pc = "mark", !.number = n, !.block = block]]
  /\ UNCHANGED <<txStatus, row>>

Marked(r, block) ==
  [r EXCEPT !.status = IF block THEN "BLACKLISTED" ELSE "ACTIVE", !.blacklisted = block]

\* Then the row; there may be none with that number, and the update throws.
MarkRow(w) ==
  /\ At(w, "mark")
  /\ row' = [t \in Txns |-> IF row[t].number = req[w].number
                             THEN Marked(row[t], req[w].block) ELSE row[t]]
  /\ Return(w)
  /\ UNCHANGED <<txStatus, bank>>

DeactivateExpired ==
  /\ row' = [t \in Txns |-> IF row[t].status = "ACTIVE" /\ row[t].expired
                             THEN [row[t] EXCEPT !.status = "INACTIVE"] ELSE row[t]]
  /\ UNCHANGED <<txStatus, bank, req>>

-----------------------------------------------------------------------------
(* The environment                                                         *)

\* expiresAt passes (a RESERVED account has none).
Expire(t) ==
  /\ Exists(t)
  /\ row' = [row EXCEPT ![t].expired = TRUE]
  /\ UNCHANGED <<txStatus, bank, req>>

\* Staff decide; neither decision reads the current status.
Review(t, status) ==
  /\ txStatus' = [txStatus EXCEPT ![t] = status]
  /\ UNCHANGED <<row, bank, req>>

\* A call other than the opening fails, or the process dies at it.
StepFails(w) ==
  /\ MayFail
  /\ ~At(w, "idle")
  /\ Return(w)
  /\ UNCHANGED <<txStatus, row, bank>>

Works ==
  \/ \E w \in Workers :
       \/ \E t \in Txns : CustomerRequest(w, t) \/ AdminRequest(w, t)
       \/ CustomerLookup(w) \/ Deactivate(w) \/ LookupAccount(w)
       \/ ReadTransaction(w) \/ InsertAccount(w) \/ SetAwaitingDeposit(w)
       \/ MarkRow(w)
       \/ \E n \in Numbers : \/ OpenAccount(w, n)
                             \/ \E block \in BOOLEAN : AskBank(w, n, block)
  \/ \E t \in Txns : Expire(t) \/ Review(t, "APPROVED") \/ Review(t, "REJECTED")
  \/ DeactivateExpired

Fails == \E w \in Workers : StepFails(w) \/ \E n \in Numbers : OpenedInVain(w, n)

Alone == \A v, w \in Workers : v = w \/ At(v, "idle") \/ At(w, "idle")

Next ==
  \/ Works /\ calm' = (calm /\ Alone')
  \/ Fails /\ calm' = FALSE

Spec == Init /\ [][Next]_vars

-----------------------------------------------------------------------------
(* Properties                                                              *)

RowType == [status : {"NONE", "ACTIVE", "INACTIVE", "BLACKLISTED"},
            number : Numbers \cup {Nil}, blacklisted : BOOLEAN, expired : BOOLEAN]
Handler == [pc : {"idle", "customer", "deactivate", "lookup", "renew", "read",
                  "open", "insert", "await", "mark"},
            txn : Txns \cup {Nil}, number : Numbers \cup {Nil}, block : BOOLEAN]

\* Rows, bank accounts and handlers have the shape the code gives them.
TypeOK ==
  /\ txStatus \in [Txns -> {"REVIEW", "APPROVED", "REJECTED", "AWAITING_DEPOSIT"}]
  /\ row \in [Txns -> RowType]
  /\ bank \in [Numbers -> [owner : Txns \cup {Nil}, blocked : BOOLEAN]]
  /\ req \in [Workers -> Handler]

\* A transaction waits for a deposit only when it has an account, and the
\* account is one the bank opened for this transaction and no other.
AwaitingHasAccount ==
  \A t \in Txns :
    /\ txStatus[t] = "AWAITING_DEPOSIT" => Exists(t)
    /\ Exists(t) => row[t].number \in Numbers /\ bank[row[t].number].owner = t

\* The number a customer was shown stays the transaction's: a concurrent
\* request that opened another account does not replace it.
NumberIsKept ==
  [][\A t \in Txns : Exists(t) => row'[t].number = row[t].number]_vars

\* A blacklisted account is not ACTIVE, whatever deactivations, expiries and
\* releases interleave with the blacklisting.
BlacklistedNotActive ==
  \A t \in Txns : row[t].blacklisted => row[t].status # "ACTIVE"

\* When requests do not overlap and nothing fails, the row and the bank agree
\* on the blacklisting whenever no handler is at work on the number.
BankAgrees ==
  calm => \A t \in Txns :
    Exists(t) /\ (\A w \in Workers : req[w].number # row[t].number)
      => row[t].blacklisted = bank[row[t].number].blocked

\* When requests do not overlap and nothing fails, no account is opened at the
\* bank that no transaction has.
NoOrphan ==
  calm => \A n \in Numbers : Opened(n) =>
    \/ \E t \in Txns : row[t].number = n
    \/ \E w \in Workers : req[w].number = n

-----------------------------------------------------------------------------
(* What the proofs need to know besides                                    *)

Creating == {"customer", "deactivate", "lookup", "renew", "read", "open"}

\* A handler that creates knows its transaction; the account it is about to
\* store is the bank's for that transaction; a row, once stored, stays.
HandlerOK(w) ==
  LET r == req[w] IN
  /\ r.pc \in Creating \cup {"insert", "await"} => r.txn \in Txns
  /\ r.pc = "insert" => r.number \in Numbers /\ bank[r.number].owner = r.txn
  /\ r.pc \in {"deactivate", "await"} => Exists(r.txn)
  /\ r.pc = "mark" => r.number \in Numbers

\* Inductive: the bank never gives a number to another transaction, and a row
\* is stored before the status that needs it.
AccountInv ==
  /\ TypeOK
  /\ \A w \in Workers : HandlerOK(w)
  /\ \A t \in Txns : ~Exists(t) => row[t] = NoRow
  /\ AwaitingHasAccount
  /\ BlacklistedNotActive

\* What a request that meets no other, and does not fail, relies on: it is the
\* only one, its transaction still has no account when it stores the one it
\* opened, and only its own account or number may be out of step with the rows.
Undisturbed ==
  calm =>
    /\ Alone
    /\ \A w \in Workers :
         /\ req[w].pc \in {"read", "open", "insert"} => ~Exists(req[w].txn)
         /\ At(w, "insert") => ~bank[req[w].number].blocked
         /\ At(w, "mark") => bank[req[w].number].blocked = req[w].block
    /\ \A n \in Numbers :
         IF Opened(n)
         THEN \/ \E t \in Txns : row[t].number = n
              \/ \E w \in Workers : At(w, "insert") /\ req[w].number = n
         ELSE ~bank[n].blocked
    /\ \A t \in Txns : Exists(t) =>
         \/ row[t].blacklisted = bank[row[t].number].blocked
         \/ \E w \in Workers : At(w, "mark") /\ req[w].number = row[t].number

\* The inductive invariant of requests that do not overlap or fail.
CalmInv == AccountInv /\ Undisturbed
=============================================================================
