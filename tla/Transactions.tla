---------------------------- MODULE Transactions ----------------------------
(***************************************************************************)
(* A customer's transaction from its creation to its disbursement: the     *)
(* rows a creation writes one by one, the upload of documents, and what    *)
(* staff decide about the transaction and about each document.             *)
(*                                                                         *)
(* A handler stops at every statement that another may overtake.  What the *)
(* payment services write on a transaction is PaymentsWrite.  Left out are *)
(* columns no decision reads: amounts, rates, reasons, the payout method.  *)
(***************************************************************************)
EXTENDS Naturals, FiniteSets

CONSTANTS
  Transactions,  \* Transaction ids
  Documents,     \* TransactionDocument ids: a bound on the rows
  Workers,       \* requests in flight at the same time
  MaxCalls,      \* a bound on the requests of a behaviour
  Nil            \* no row

ASSUME TransactionsAssumption ==
  /\ MaxCalls \in Nat
  /\ Nil \notin Transactions \cup Documents

VARIABLES
  kyc,      \* whether the customer has a UserKyc row
  trx,      \* the Transaction rows
  doc,      \* the TransactionDocument rows
  pickup,   \* the transactions with a CashPickup row
  trail,    \* TransactionStepLog and TransactionHistory, by what they record
  req,      \* the handlers in flight
  calls,    \* history: requests so far
  word,     \* history: what staff last said of each document by itself
  covered   \* history: the documents a recorded approval was about

vars == <<kyc, trx, doc, pickup, trail, req, calls, word, covered>>

Steps == {"PERSONAL_INFO", "DOCUMENT_UPLOAD", "DEPOSIT_INFO",
          "DEPOSIT_CONFIRMATION", "ADMIN_REVIEW", "DISBURSEMENT"}
NoTransaction == [status |-> "NONE", step |-> "NONE"]
NoDocument == [trx |-> Nil, status |-> "NONE"]
Idle == [pc |-> "idle", trx |-> Nil, doc |-> Nil, step |-> "NONE", docs |-> {},
         pickup |-> FALSE]

Init ==
  /\ kyc \in BOOLEAN
  /\ trx = [t \in Transactions |-> NoTransaction]
  /\ doc = [d \in Documents |-> NoDocument]
  /\ pickup = {}
  /\ trail = [t \in Transactions |-> {}]
  /\ req = [w \in Workers |-> Idle]
  /\ calls = 0
  /\ word = [d \in Documents |-> "NONE"]
  /\ covered = [t \in Transactions |-> {}]

At(w, pc) == req[w].pc = pc
Exists(t) == trx[t].status # "NONE"
\* Ids that no row and no request in flight has.
Fresh == {d \in Documents : doc[d].trx = Nil /\ \A w \in Workers : d \notin req[w].docs}
DocumentsOf(t) == {d \in Documents : doc[d].trx = t}

Return(w) == req' = [req EXCEPT ![w] = Idle]
Goto(w, pc) == req' = [req EXCEPT ![w].pc = pc]

\* A request arrives at an idle worker, which then runs handler h.
Call(w, h) ==
  /\ At(w, "idle")
  /\ calls < MaxCalls
  /\ calls' = calls + 1
  /\ req' = [req EXCEPT ![w] = h]

Record(t, entry) == trail' = [trail EXCEPT ![t] = trail[t] \cup {entry}]

-----------------------------------------------------------------------------
(* createTransaction, for a customer or through an agent                   *)

\* The user is read with his KYC; a BVN or NIN given makes the missing row.
\* D are the inline documents whose type is known.
Create(w, t, inline, D, toPickup) ==
  /\ ~Exists(t)
  /\ \A v \in Workers : req[v].trx # t
  /\ D \subseteq Fresh
  /\ inline \/ D = {}
  /\ \E pc \in IF kyc THEN {"insert"} ELSE {"insert", "kyc"} :
       Call(w, [pc |-> pc, trx |-> t, doc |-> Nil,
                step |-> IF inline THEN "DOCUMENT_UPLOAD" ELSE "PERSONAL_INFO",
                docs |-> D, pickup |-> toPickup])
  /\ UNCHANGED <<kyc, trx, doc, pickup, trail, word, covered>>

\* userId is unique in UserKyc: the second of two first requests is refused.
CreateKyc(w) ==
  /\ At(w, "kyc")
  /\ kyc' = TRUE
  /\ IF kyc THEN Return(w) ELSE Goto(w, "insert")
  /\ UNCHANGED <<trx, doc, pickup, trail, calls, word, covered>>

InsertTransaction(w) ==
  LET h == req[w] IN
  /\ At(w, "insert")
  /\ trx' = [trx EXCEPT ![h.trx] =
       [status |-> IF h.step = "DOCUMENT_UPLOAD" THEN "AWAITING_VERIFICATION" ELSE "DRAFT",
        step   |-> h.step]]
  /\ Goto(w, "log")
  /\ UNCHANGED <<kyc, doc, pickup, trail, calls, word, covered>>

LogCreation(w) ==
  LET h == req[w] IN
  /\ At(w, "log")
  /\ Record(h.trx, h.step)
  /\ IF h.step = "DOCUMENT_UPLOAD" THEN Goto(w, "inline")
     ELSE IF h.pickup THEN Goto(w, "pickup") ELSE Return(w)
  /\ UNCHANGED <<kyc, trx, doc, pickup, calls, word, covered>>

\* createMany: all the inline documents in one statement.
InlineDocuments(w) ==
  LET h == req[w] IN
  /\ At(w, "inline")
  /\ doc' = [d \in Documents |->
               IF d \in h.docs THEN [trx |-> h.trx, status |-> "PENDING"] ELSE doc[d]]
  /\ IF h.pickup THEN Goto(w, "pickup") ELSE Return(w)
  /\ UNCHANGED <<kyc, trx, pickup, trail, calls, word, covered>>

CreatePickup(w) ==
  /\ At(w, "pickup")
  /\ pickup' = pickup \cup {req[w].trx}
  /\ Return(w)
  /\ UNCHANGED <<kyc, trx, doc, trail, calls, word, covered>>

-----------------------------------------------------------------------------
(* uploadDocuments, by the customer or by the agent who made it            *)

\* The transaction's step is read before the files go to the file store.
Upload(w, t, D) ==
  /\ Exists(t)
  /\ D # {} /\ D \subseteq Fresh
  /\ Call(w, [pc |-> "file", trx |-> t, doc |-> Nil, step |-> trx[t].step,
              docs |-> D, pickup |-> FALSE])
  /\ UNCHANGED <<kyc, trx, doc, pickup, trail, word, covered>>

\* One file is stored and its row made; only a transaction read at its first
\* step is moved on, after the last file.
StoreFile(w, d) ==
  LET h == req[w] IN
  /\ At(w, "file")
  /\ d \in h.docs
  /\ doc' = [doc EXCEPT ![d] = [trx |-> h.trx, status |-> "PENDING"]]
  /\ req' = [req EXCEPT ![w] =
       IF h.docs # {d} THEN [h EXCEPT !.docs = h.docs \ {d}]
       ELSE IF h.step = "PERSONAL_INFO" THEN [h EXCEPT !.pc = "step", !.docs = {}]
       ELSE Idle]
  /\ UNCHANGED <<kyc, trx, pickup, trail, calls, word, covered>>

MoveStep(w) ==
  /\ At(w, "step")
  /\ trx' = [trx EXCEPT ![req[w].trx].step = "DOCUMENT_UPLOAD"]
  /\ Goto(w, "log_upload")
  /\ UNCHANGED <<kyc, doc, pickup, trail, calls, word, covered>>

LogUpload(w) ==
  /\ At(w, "log_upload")
  /\ Record(req[w].trx, "DOCUMENT_UPLOAD")
  /\ Return(w)
  /\ UNCHANGED <<kyc, trx, doc, pickup, calls, word, covered>>

-----------------------------------------------------------------------------
(* AdminTransactionsService: no decision reads the status it overwrites    *)

Staff(w, t, pc) ==
  /\ Exists(t)
  /\ Call(w, [Idle EXCEPT !.pc = pc, !.trx = t])

Decide(t, status, step) ==
  trx' = [trx EXCEPT ![t] = [status |-> status, step |-> step]]

RequestInformation(w, t) ==
  /\ Staff(w, t, "ask_all")
  /\ Decide(t, "COMPLIANCE_REVIEW", trx[t].step)
  /\ UNCHANGED <<kyc, doc, pickup, trail, word, covered>>

AskAboutAll(w) ==
  /\ At(w, "ask_all")
  /\ doc' = [d \in Documents |->
       IF doc[d].trx = req[w].trx THEN [doc[d] EXCEPT !.status = "REQUIRES_MANUAL_REVIEW"]
       ELSE doc[d]]
  /\ Return(w)
  /\ UNCHANGED <<kyc, trx, pickup, trail, calls, word, covered>>

Review(w, t) ==
  /\ Staff(w, t, "log_review")
  /\ Decide(t, "ADMIN_APPROVAL_PENDING", "ADMIN_REVIEW")
  /\ UNCHANGED <<kyc, doc, pickup, trail, word, covered>>

LogReview(w) ==
  /\ At(w, "log_review")
  /\ Record(req[w].trx, "ADMIN_REVIEW")
  /\ Goto(w, "record_review")
  /\ UNCHANGED <<kyc, trx, doc, pickup, calls, word, covered>>

\* The event for the next reviewers follows, and no row depends on it.
RecordReview(w) ==
  /\ At(w, "record_review")
  /\ Record(req[w].trx, "ADMIN_REVIEW_COMPLETED")
  /\ Return(w)
  /\ UNCHANGED <<kyc, trx, doc, pickup, calls, word, covered>>

Approve(w, t) ==
  /\ Exists(t)
  /\ Call(w, [Idle EXCEPT !.pc = "verify_all", !.trx = t, !.docs = DocumentsOf(t)])
  /\ Decide(t, "APPROVED", "ADMIN_REVIEW")
  /\ UNCHANGED <<kyc, doc, pickup, trail, word, covered>>

\* Mutant: every document of the transaction, whatever was said of it.
VerifyEveryDocument(w) ==
  /\ At(w, "verify_all")
  /\ doc' = [d \in Documents |->
       IF doc[d].trx = req[w].trx THEN [doc[d] EXCEPT !.status = "VERIFIED"] ELSE doc[d]]
  /\ Goto(w, "record_approval")
  /\ UNCHANGED <<kyc, trx, pickup, trail, calls, word, covered>>
\* Mutant: the approval leaves the documents as they are.
VerifyNothing(w) ==
  /\ At(w, "verify_all")
  /\ Goto(w, "record_approval")
  /\ UNCHANGED <<kyc, trx, doc, pickup, trail, calls, word, covered>>
\* Mutant: the request ends before the history row.
VerifyAndReturn(w) ==
  /\ At(w, "verify_all")
  /\ doc' = [d \in Documents |->
       IF doc[d].trx = req[w].trx /\ doc[d].status = "PENDING"
       THEN [doc[d] EXCEPT !.status = "VERIFIED"] ELSE doc[d]]
  /\ Return(w)
  /\ UNCHANGED <<kyc, trx, pickup, trail, calls, word, covered>>
\* updateMany: the documents that are PENDING by now, the ones uploaded since
\* the decision included.
VerifyPending(w) ==
  /\ At(w, "verify_all")
  /\ doc' = [d \in Documents |->
       IF doc[d].trx = req[w].trx /\ doc[d].status = "PENDING"
       THEN [doc[d] EXCEPT !.status = "VERIFIED"] ELSE doc[d]]
  /\ Goto(w, "record_approval")
  /\ UNCHANGED <<kyc, trx, pickup, trail, calls, word, covered>>

RecordApproval(w) ==
  LET h == req[w] IN
  /\ At(w, "record_approval")
  /\ Record(h.trx, "TRANSACTION_APPROVED")
  /\ covered' = [covered EXCEPT ![h.trx] = covered[h.trx] \cup h.docs]
  /\ Return(w)
  /\ UNCHANGED <<kyc, trx, doc, pickup, calls, word>>

Reject(w, t) ==
  /\ Staff(w, t, "record_rejection")
  /\ Decide(t, "REJECTED", "ADMIN_REVIEW")
  /\ UNCHANGED <<kyc, doc, pickup, trail, word, covered>>

RecordRejection(w) ==
  /\ At(w, "record_rejection")
  /\ Record(req[w].trx, "TRANSACTION_REJECTED")
  /\ Return(w)
  /\ UNCHANGED <<kyc, trx, doc, pickup, calls, word, covered>>

Settle(w, t) ==
  /\ Staff(w, t, "log_settle")
  /\ Decide(t, "DISBURSEMENT_IN_PROGRESS", "DISBURSEMENT")
  /\ UNCHANGED <<kyc, doc, pickup, trail, word, covered>>

LogSettle(w) ==
  /\ At(w, "log_settle")
  /\ Record(req[w].trx, "DISBURSEMENT")
  /\ Goto(w, "record_settle")
  /\ UNCHANGED <<kyc, trx, doc, pickup, calls, word, covered>>

RecordSettle(w) ==
  /\ At(w, "record_settle")
  /\ Record(req[w].trx, "TRANSACTION_SETTLED")
  /\ Return(w)
  /\ UNCHANGED <<kyc, trx, doc, pickup, calls, word, covered>>

-----------------------------------------------------------------------------
(* Decisions about one document; documents are never deleted, so the       *)
(* lookup that precedes each decides only whether it exists.               *)

SayOf(d, status) ==
  /\ doc[d].trx # Nil
  /\ doc' = [doc EXCEPT ![d].status = status]
  /\ word' = [word EXCEPT ![d] = status]

ApproveDocument(d) ==
  /\ calls < MaxCalls
  /\ calls' = calls + 1
  /\ SayOf(d, "VERIFIED")
  /\ UNCHANGED <<kyc, trx, pickup, trail, req, covered>>

RejectDocument(w, d) ==
  /\ Call(w, [Idle EXCEPT !.pc = "record_document", !.trx = doc[d].trx, !.doc = d])
  /\ SayOf(d, "FAILED")
  /\ UNCHANGED <<kyc, trx, pickup, trail, covered>>

MoreInfoOnDocument(w, d) ==
  /\ Call(w, [Idle EXCEPT !.pc = "record_document", !.trx = doc[d].trx, !.doc = d])
  /\ SayOf(d, "REQUIRES_MANUAL_REVIEW")
  /\ UNCHANGED <<kyc, trx, pickup, trail, covered>>

RecordDocument(w) ==
  LET h == req[w] IN
  /\ At(w, "record_document")
  /\ Record(h.trx, h.doc)
  /\ Return(w)
  /\ UNCHANGED <<kyc, trx, doc, pickup, calls, word, covered>>

-----------------------------------------------------------------------------
(* The agent's disbursement, and what the payment services write           *)

\* The status is read before the receipt is stored.
Disburse(w, t) ==
  /\ trx[t].status = "APPROVED"
  /\ Call(w, [Idle EXCEPT !.pc = "disburse", !.trx = t])
  /\ UNCHANGED <<kyc, trx, doc, pickup, trail, word, covered>>

RecordDisbursement(w) ==
  LET t == req[w].trx IN
  /\ At(w, "disburse")
  /\ Decide(t, "DISBURSEMENT_IN_PROGRESS", "DISBURSEMENT")
  /\ Record(t, "DISBURSEMENT_RECORDED")
  /\ Return(w)
  /\ UNCHANGED <<kyc, doc, pickup, calls, word, covered>>

\* An account is opened for it, its deposit is found short or is confirmed,
\* or its payout is completed.
PaymentsWrite(t) ==
  /\ Exists(t)
  /\ calls < MaxCalls
  /\ calls' = calls + 1
  /\ \E s \in {<<"AWAITING_DEPOSIT", "DEPOSIT_INFO">>,
               <<"DEPOSIT_PENDING", "DEPOSIT_CONFIRMATION">>,
               <<"DEPOSIT_CONFIRMED", "DEPOSIT_CONFIRMATION">>,
               <<"COMPLETED", trx[t].step>>} : Decide(t, s[1], s[2])
  /\ UNCHANGED <<kyc, doc, pickup, trail, req, word, covered>>

\* An error is passed to the client, or the process dies; rows stay.
StepFails(w) ==
  /\ ~At(w, "idle")
  /\ Return(w)
  /\ UNCHANGED <<kyc, trx, doc, pickup, trail, calls, word, covered>>

\* With no request in flight the service waits.
Rest ==
  /\ \A w \in Workers : At(w, "idle")
  /\ UNCHANGED vars

\* What happens while no statement fails.
Work ==
  \/ \E w \in Workers, t \in Transactions :
       \/ \E b, p \in BOOLEAN, D \in SUBSET Documents : Create(w, t, b, D, p)
       \/ \E D \in SUBSET Documents : Upload(w, t, D)
       \/ RequestInformation(w, t) \/ Review(w, t) \/ Approve(w, t)
       \/ Reject(w, t) \/ Settle(w, t) \/ Disburse(w, t)
  \/ \E w \in Workers :
       \/ CreateKyc(w) \/ InsertTransaction(w) \/ LogCreation(w)
       \/ InlineDocuments(w) \/ CreatePickup(w)
       \/ MoveStep(w) \/ LogUpload(w)
       \/ AskAboutAll(w) \/ LogReview(w) \/ RecordReview(w)
       \/ VerifyPending(w) \/ RecordApproval(w) \/ RecordRejection(w)
       \/ LogSettle(w) \/ RecordSettle(w)
       \/ RecordDocument(w) \/ RecordDisbursement(w)
  \/ \E w \in Workers, d \in Documents :
       StoreFile(w, d) \/ RejectDocument(w, d) \/ MoreInfoOnDocument(w, d)
  \/ \E d \in Documents : ApproveDocument(d)
  \/ \E t \in Transactions : PaymentsWrite(t)
  \/ Rest

Next == Work \/ \E w \in Workers : StepFails(w)

Spec == Init /\ [][Next]_vars

\* A handler's next statement: the database and the file store answer.
Continue(w) ==
  \/ CreateKyc(w) \/ InsertTransaction(w) \/ LogCreation(w) \/ InlineDocuments(w)
  \/ CreatePickup(w) \/ MoveStep(w) \/ LogUpload(w) \/ AskAboutAll(w)
  \/ LogReview(w) \/ RecordReview(w) \/ VerifyPending(w) \/ RecordApproval(w)
  \/ RecordRejection(w) \/ LogSettle(w) \/ RecordSettle(w) \/ RecordDocument(w)
  \/ RecordDisbursement(w) \/ \E d \in Documents : StoreFile(w, d)

\* The service while nothing fails, which alone reaches the end of a request.
FairSpec == Init /\ [][Work]_vars /\ \A w \in Workers : WF_vars(Continue(w))

-----------------------------------------------------------------------------
(* Properties                                                              *)

Statuses == {"DRAFT", "AWAITING_VERIFICATION", "COMPLIANCE_REVIEW",
             "ADMIN_APPROVAL_PENDING", "APPROVED", "REJECTED", "AWAITING_DEPOSIT",
             "DEPOSIT_PENDING", "DEPOSIT_CONFIRMED", "DISBURSEMENT_IN_PROGRESS",
             "COMPLETED"}
Verdicts == {"PENDING", "VERIFIED", "FAILED", "REQUIRES_MANUAL_REVIEW"}
Entries == Steps \cup Documents \cup
  {"ADMIN_REVIEW_COMPLETED", "TRANSACTION_APPROVED", "TRANSACTION_REJECTED",
   "TRANSACTION_SETTLED", "DISBURSEMENT_RECORDED"}
Pcs == {"idle", "kyc", "insert", "log", "inline", "pickup", "file", "step",
        "log_upload", "ask_all", "log_review", "record_review", "verify_all",
        "record_approval", "record_rejection", "log_settle", "record_settle",
        "record_document", "disburse"}

Handler ==
  [pc : Pcs, trx : Transactions \cup {Nil}, doc : Documents \cup {Nil},
   step : Steps \cup {"NONE"}, docs : SUBSET Documents, pickup : BOOLEAN]

\* Every row and every handler in flight has a value of its type.
TypeOK ==
  /\ kyc \in BOOLEAN
  /\ trx \in [Transactions -> {NoTransaction} \cup [status : Statuses, step : Steps]]
  /\ doc \in [Documents -> {NoDocument} \cup [trx : Transactions, status : Verdicts]]
  /\ pickup \subseteq Transactions
  /\ trail \in [Transactions -> SUBSET Entries]
  /\ req \in [Workers -> Handler]
  /\ calls \in 0..MaxCalls
  /\ word \in [Documents -> Verdicts \cup {"NONE"}]
  /\ covered \in [Transactions -> SUBSET Documents]

\* The documents of a request whose rows it has yet to make.
Reserved(w) ==
  IF req[w].pc \in {"kyc", "insert", "log", "inline", "file"} THEN req[w].docs ELSE {}

\* What a handler read or chose still holds when it writes: a request has its
\* new transaction and its new documents to itself, and an approval carries
\* documents of its own transaction.
HandlerOK(w) ==
  LET h == req[w] IN
  /\ h.pc = "idle" <=> h.trx = Nil
  /\ h.pc \in {"kyc", "insert"} =>
       ~Exists(h.trx) /\ \A v \in Workers \ {w} : req[v].trx # h.trx
  /\ h.pc \notin {"idle", "kyc", "insert"} => Exists(h.trx)
  /\ h.pc \in {"kyc", "insert", "log"} => h.step \in {"PERSONAL_INFO", "DOCUMENT_UPLOAD"}
  /\ h.pc = "record_document" => h.doc \in Documents
  /\ \A d \in Reserved(w) : doc[d].trx = Nil
  /\ h.pc \in {"verify_all", "record_approval"} => \A d \in h.docs : doc[d].trx = h.trx
  /\ h.pc = "record_approval" => \A d \in h.docs : doc[d].status # "PENDING"
Apart == \A v, w \in Workers : v # w => Reserved(v) \cap Reserved(w) = {}
RowsOK ==
  \A d \in Documents :
    IF doc[d].trx = Nil THEN word[d] = "NONE" ELSE Exists(doc[d].trx)

\* What staff said of a document by itself stands against what is said of its
\* transaction: an approval that sweeps the documents, one made by another
\* member of staff at the same time included, never verifies one that was
\* rejected or asked about.
WordStands ==
  \A d \in Documents :
    word[d] \in {"FAILED", "REQUIRES_MANUAL_REVIEW"} =>
      doc[d].status \in {"FAILED", "REQUIRES_MANUAL_REVIEW"}

\* An approval that made it to the history has settled every document the
\* transaction had when it was decided: none of them waits any more, whatever
\* failed on the way.
ApprovalCovers ==
  \A t \in Transactions : \A d \in covered[t] : doc[d].trx = t /\ doc[d].status # "PENDING"

\* The inductive invariant.
TransactionsInv ==
  /\ TypeOK
  /\ \A w \in Workers : HandlerOK(w)
  /\ Apart
  /\ RowsOK
  /\ WordStands
  /\ ApprovalCovers

\* If nothing fails, an approval that was written is recorded in the history.
ApprovalIsRecorded ==
  \A t \in Transactions : trx[t].status = "APPROVED" ~> "TRANSACTION_APPROVED" \in trail[t]
=============================================================================
