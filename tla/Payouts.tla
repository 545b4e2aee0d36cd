------------------------------ MODULE Payouts ------------------------------
(***************************************************************************)
(* Outbound settlements: payouts to beneficiaries, their batches, approval *)
(* and processing one by one or by batch, completion by staff, by a        *)
(* reconciliation that matches, or by the receipt an agent uploads.        *)
(*                                                                         *)
(* As in Deposits, an action is the part of a handler between two awaits   *)
(* whose order can be observed.  Each payout is linked to one transaction, *)
(* and the two share a name.                                               *)
(***************************************************************************)
EXTENDS FiniteSets

CONSTANTS
  Settlements,   \* OutboundSettlement ids, and their transactions'
  Batches,       \* SettlementBatch ids
  Workers,       \* requests in flight at the same time
  Nil,           \* a null column, or a field that is not set
  MayCrash       \* whether the process may be killed and started again

ASSUME PayoutsAssumption ==
  /\ Nil \notin Settlements \cup Batches
  /\ MayCrash \in BOOLEAN

VARIABLES
  payout,      \* the OutboundSettlement rows
  batch,       \* the SettlementBatch rows
  txStatus,    \* Transaction.status of the linked transaction
  req          \* the handlers in flight

vars == <<payout, batch, txStatus, req>>

Statuses == {"NONE", "PENDING", "PROCESSING", "SUBMITTED", "COMPLETED", "FAILED"}

NoPayout == [status |-> "NONE", approved |-> FALSE, reference |-> FALSE, batch |-> Nil]
\* processed: the settlements counted in metadata.processResults.
NoBatch == [status |-> "NONE", processed |-> {}]
Idle == [pc |-> "idle", payout |-> Nil, batch |-> Nil, todo |-> {},
         succeeded |-> {}, failed |-> {}]

Members(b) == {p \in Settlements : payout[p].batch = b}

Init ==
  /\ payout = [p \in Settlements |-> NoPayout]
  /\ batch = [b \in Batches |-> NoBatch]
  /\ txStatus = [p \in Settlements |-> "APPROVED"]
  /\ req = [w \in Workers |-> Idle]

At(w, pc) == req[w].pc = pc
Goto(w, pc) == req' = [req EXCEPT ![w].pc = pc]
Return(w) == req' = [req EXCEPT ![w] = Idle]
SetStatus(p, status) == payout' = [payout EXCEPT ![p].status = status]

\* A call of processSettlement ends; in a batch the loop goes on and counts.
BackInLoop(w) == [req[w] EXCEPT !.pc = "loop", !.payout = Nil]
EndCall(w, inLoop) ==
  req' = [req EXCEPT ![w] = IF req[w].batch = Nil THEN Idle ELSE inLoop]
Succeed(w) ==
  EndCall(w, [BackInLoop(w) EXCEPT !.succeeded = req[w].succeeded \cup {req[w].payout}])
Fail(w) ==
  EndCall(w, [BackInLoop(w) EXCEPT !.failed = req[w].failed \cup {req[w].payout}])

-----------------------------------------------------------------------------
(* createOutboundSettlement, createSettlementBatch                         *)

CreatePayout(p) ==
  /\ payout[p].status = "NONE"
  /\ SetStatus(p, "PENDING")
  /\ UNCHANGED <<batch, txStatus, req>>

\* All settlements asked for are PENDING when they are read.
ReadForBatch(w, S) ==
  /\ At(w, "idle")
  /\ S # {}
  /\ \A p \in S : payout[p].status = "PENDING"
  /\ req' = [req EXCEPT ![w] = [Idle EXCEPT !.pc = "newbatch", !.todo = S]]
  /\ UNCHANGED <<payout, batch, txStatus>>

InsertBatch(w, b) ==
  /\ At(w, "newbatch")
  /\ batch[b].status = "NONE"
  /\ batch' = [batch EXCEPT ![b].status = "PENDING"]
  /\ req' = [req EXCEPT ![w].pc = "link", ![w].batch = b]
  /\ UNCHANGED <<payout, txStatus>>

\* The settlements are linked by id, whatever their status or batch is by now.
LinkMembers(w) ==
  /\ At(w, "link")
  /\ payout' = [p \in Settlements |->
       IF p \in req[w].todo THEN [payout[p] EXCEPT !.batch = req[w].batch]
       ELSE payout[p]]
  /\ Return(w)
  /\ UNCHANGED <<batch, txStatus>>

\* A statement fails: the batch may be left without its members.
BatchFails(w) ==
  /\ At(w, "newbatch") \/ At(w, "link")
  /\ Return(w)
  /\ UNCHANGED <<payout, batch, txStatus>>

-----------------------------------------------------------------------------
(* approveSettlement, approveSettlementBatch                               *)

ReadToApprove(w, p) ==
  /\ At(w, "idle")
  /\ payout[p].status = "PENDING"
  /\ req' = [req EXCEPT ![w] = [Idle EXCEPT !.pc = "approve", !.payout = p]]
  /\ UNCHANGED <<payout, batch, txStatus>>

ApprovePayout(w) ==
  /\ At(w, "approve")
  /\ payout' = [payout EXCEPT ![req[w].payout].status = "PROCESSING",
                              ![req[w].payout].approved = TRUE]
  /\ Return(w)
  /\ UNCHANGED <<batch, txStatus>>

ReadBatchToApprove(w, b) ==
  /\ At(w, "idle")
  /\ batch[b].status = "PENDING"
  /\ req' = [req EXCEPT ![w] = [Idle EXCEPT !.pc = "approvebatch", !.batch = b]]
  /\ UNCHANGED <<payout, batch, txStatus>>

ApproveBatch(w) ==
  /\ At(w, "approvebatch")
  /\ batch' = [batch EXCEPT ![req[w].batch].status = "PROCESSING"]
  /\ Goto(w, "approvemembers")
  /\ UNCHANGED <<payout, txStatus>>

\* Every member is approved, whatever its status.
ApproveMembers(w) ==
  /\ At(w, "approvemembers")
  /\ payout' = [p \in Settlements |->
       IF p \in Members(req[w].batch)
       THEN [payout[p] EXCEPT !.status = "PROCESSING", !.approved = TRUE]
       ELSE payout[p]]
  /\ Return(w)
  /\ UNCHANGED <<batch, txStatus>>

-----------------------------------------------------------------------------
(* processSettlement                                                       *)

\* The status is read; another than PROCESSING throws, and the catch of
\* processSettlement marks the payout FAILED on that account too.
AfterRead(p) == IF payout[p].status = "PROCESSING" THEN "submit" ELSE "failing"

ReadToProcess(w, p) ==
  /\ At(w, "idle")
  /\ payout[p].status # "NONE"
  /\ req' = [req EXCEPT ![w] = [Idle EXCEPT !.pc = AfterRead(p), !.payout = p]]
  /\ UNCHANGED <<payout, batch, txStatus>>

SubmitPayout(w) ==
  /\ At(w, "submit")
  /\ payout' = [payout EXCEPT ![req[w].payout].status = "SUBMITTED",
                              ![req[w].payout].reference = TRUE]
  /\ Goto(w, "notify")
  /\ UNCHANGED <<batch, txStatus>>

NotifyProcessed(w) ==
  /\ At(w, "notify")
  /\ Succeed(w)
  /\ UNCHANGED <<payout, batch, txStatus>>

\* The update, or the customer's notification after it, throws.
ProcessThrows(w) ==
  /\ At(w, "submit") \/ At(w, "notify")
  /\ Goto(w, "failing")
  /\ UNCHANGED <<payout, batch, txStatus>>

\* Mutant: an error of one member leaves the loop of the batch.
FailWholeBatch(w) ==
  /\ At(w, "failing")
  /\ SetStatus(req[w].payout, "FAILED")
  /\ Return(w)
  /\ UNCHANGED <<batch, txStatus>>

FailPayout(w) ==
  /\ At(w, "failing")
  /\ SetStatus(req[w].payout, "FAILED")
  /\ Fail(w)
  /\ UNCHANGED <<batch, txStatus>>

-----------------------------------------------------------------------------
(* processSettlementBatch                                                  *)

\* The batch is read together with its members.
ReadBatchToProcess(w, b) ==
  /\ At(w, "idle")
  /\ batch[b].status = "PROCESSING"
  /\ req' = [req EXCEPT ![w] =
       [Idle EXCEPT !.pc = "loop", !.batch = b, !.todo = Members(b)]]
  /\ UNCHANGED <<payout, batch, txStatus>>

\* Mutant: the status is the one read with the batch, before the loop.
NextFromSnapshot(w, p) ==
  /\ At(w, "loop")
  /\ p \in req[w].todo
  /\ req' = [req EXCEPT ![w].pc = "submit", ![w].payout = p, ![w].todo = req[w].todo \ {p}]
  /\ UNCHANGED <<payout, batch, txStatus>>

NextMember(w, p) ==
  /\ At(w, "loop")
  /\ p \in req[w].todo
  /\ req' = [req EXCEPT ![w].pc = AfterRead(p), ![w].payout = p,
                        ![w].todo = req[w].todo \ {p}]
  /\ UNCHANGED <<payout, batch, txStatus>>

Verdict(w) ==
  CASE req[w].failed = {}    -> "SUBMITTED"
    [] req[w].succeeded = {} -> "FAILED"
    [] OTHER                 -> "PROCESSING"

\* Mutant: a batch some members of which failed is submitted all the same.
AnySuccess(w) ==
  /\ At(w, "loop")
  /\ req[w].todo = {}
  /\ batch' = [batch EXCEPT ![req[w].batch] =
       [status |-> IF req[w].succeeded # {} \/ req[w].failed = {}
                   THEN "SUBMITTED" ELSE "FAILED",
        processed |-> req[w].succeeded \cup req[w].failed]]
  /\ Return(w)
  /\ UNCHANGED <<payout, txStatus>>

EndBatch(w) ==
  /\ At(w, "loop")
  /\ req[w].todo = {}
  /\ batch' = [batch EXCEPT ![req[w].batch] =
       [status |-> Verdict(w), processed |-> req[w].succeeded \cup req[w].failed]]
  /\ Return(w)
  /\ UNCHANGED <<payout, txStatus>>

-----------------------------------------------------------------------------
(* Completion                                                              *)

\* completeSettlement: no condition on the status.
CompletePayout(w, p) ==
  /\ At(w, "idle")
  /\ payout[p].status # "NONE"
  /\ SetStatus(p, "COMPLETED")
  /\ req' = [req EXCEPT ![w] = [Idle EXCEPT !.pc = "completetx", !.payout = p]]
  /\ UNCHANGED <<batch, txStatus>>

CompleteTransaction(w) ==
  /\ At(w, "completetx")
  /\ txStatus' = [txStatus EXCEPT ![req[w].payout] = "COMPLETED"]
  /\ Return(w)
  /\ UNCHANGED <<payout, batch>>

\* reconcileSettlement with an amount that matches; it reads no status.
ReconcileMatched(w, p) ==
  /\ At(w, "idle")
  /\ payout[p].status # "NONE"
  /\ SetStatus(p, "COMPLETED")
  /\ UNCHANGED <<batch, txStatus, req>>

\* recordDisbursement: the transaction is read, the receipt is uploaded, then
\* one database transaction sets its status and completes (or makes) the payout.
ReadForDisbursement(w, p) ==
  /\ At(w, "idle")
  /\ txStatus[p] = "APPROVED"
  /\ req' = [req EXCEPT ![w] = [Idle EXCEPT !.pc = "upload", !.payout = p]]
  /\ UNCHANGED <<payout, batch, txStatus>>

RecordDisbursement(w) ==
  /\ At(w, "upload")
  /\ txStatus' = [txStatus EXCEPT ![req[w].payout] = "DISBURSEMENT_IN_PROGRESS"]
  /\ SetStatus(req[w].payout, "COMPLETED")
  /\ Return(w)
  /\ UNCHANGED batch

\* The upload or the database transaction fails.
DisbursementFails(w) ==
  /\ At(w, "upload")
  /\ Return(w)
  /\ UNCHANGED <<payout, batch, txStatus>>

\* The process dies: what it had not written is lost, nothing resumes it.
Crash ==
  /\ MayCrash
  /\ req' = [w \in Workers |-> Idle]
  /\ UNCHANGED <<payout, batch, txStatus>>

-----------------------------------------------------------------------------
Step(w) ==
  \/ (\E b \in Batches : InsertBatch(w, b)) \/ LinkMembers(w) \/ BatchFails(w)
  \/ ApprovePayout(w) \/ ApproveBatch(w) \/ ApproveMembers(w)
  \/ SubmitPayout(w) \/ NotifyProcessed(w) \/ ProcessThrows(w) \/ FailPayout(w)
  \/ (\E p \in Settlements : NextMember(w, p)) \/ EndBatch(w)
  \/ CompleteTransaction(w) \/ RecordDisbursement(w) \/ DisbursementFails(w)

Request(w) ==
  \/ \E S \in SUBSET Settlements : ReadForBatch(w, S)
  \/ \E p \in Settlements : \/ ReadToApprove(w, p) \/ ReadToProcess(w, p)
                            \/ CompletePayout(w, p) \/ ReconcileMatched(w, p)
                            \/ ReadForDisbursement(w, p)
  \/ \E b \in Batches : ReadBatchToApprove(w, b) \/ ReadBatchToProcess(w, b)

Environment == (\E p \in Settlements : CreatePayout(p)) \/ Crash

Next == (\E w \in Workers : Step(w) \/ Request(w)) \/ Environment

Spec == Init /\ [][Next]_vars

\* The event loop resumes every handler and every call it makes returns.
FairSpec == Spec /\ \A w \in Workers : WF_vars(Step(w))

-----------------------------------------------------------------------------
(* Properties                                                              *)

Programs == {"idle", "newbatch", "link", "approve", "approvebatch",
             "approvemembers", "submit", "notify", "failing", "loop",
             "completetx", "upload"}

Row == [status : Statuses, approved : BOOLEAN, reference : BOOLEAN,
        batch : Batches \cup {Nil}]
BatchRow == [status : {"NONE", "PENDING", "PROCESSING", "SUBMITTED", "FAILED"},
             processed : SUBSET Settlements]
Handler == [pc : Programs, payout : Settlements \cup {Nil},
            batch : Batches \cup {Nil}, todo : SUBSET Settlements,
            succeeded : SUBSET Settlements, failed : SUBSET Settlements]

\* Every row and every handler has the shape the schema and the code give it.
TypeOK ==
  /\ payout \in [Settlements -> Row]
  /\ batch \in [Batches -> BatchRow]
  /\ txStatus \in [Settlements -> {"APPROVED", "DISBURSEMENT_IN_PROGRESS", "COMPLETED"}]
  /\ req \in [Workers -> Handler]

\* No payment reference is ever given to a payout nobody approved, by itself or
\* with its batch: whatever approvals, batches, retries and crashes interleave.
PaidIsApproved == \A p \in Settlements : payout[p].reference => payout[p].approved

\* A batch that is SUBMITTED has had each of the members it went through
\* submitted: a partial failure, or a retry after one, does not end SUBMITTED
\* with an unpaid member.
SubmittedBatchIsPaid ==
  \A b \in Batches : batch[b].status = "SUBMITTED" =>
    \A p \in batch[b].processed : payout[p].reference

\* A member read with its batch is counted as succeeded or failed by the same
\* run of processSettlementBatch, however many of the others throw.
EveryMemberCounted ==
  \A w \in Workers, p \in Settlements :
    At(w, "loop") /\ p \in req[w].todo
      ~> p \in req[w].succeeded \cup req[w].failed

\* A payout is submitted while it is PROCESSING: the guard in
\* processSettlement, "Settlement cannot be processed", still holds when the
\* submission is written.
SubmitsProcessing ==
  [][\A w \in Workers : At(w, "submit") /\ req'[w].pc = "notify" =>
       payout[req[w].payout].status = "PROCESSING"]_vars

-----------------------------------------------------------------------------
(* What the proofs need to know besides: the handlers' local state.        *)

OnPayout == {"approve", "submit", "notify", "failing", "completetx", "upload"}

\* A handler about to submit read an approved payout; one about to notify, and
\* one that counted a success, wrote its reference.
HandlerOK(w) ==
  LET r == req[w] IN
  /\ r.pc \in OnPayout => r.payout \in Settlements
  /\ r.pc = "submit" => payout[r.payout].approved
  /\ r.pc = "notify" => payout[r.payout].reference
  /\ \A p \in r.succeeded : payout[p].reference

\* Inductive: approvals and references are never taken back, and PROCESSING is
\* written together with the approver.
PayoutInv ==
  /\ TypeOK
  /\ \A w \in Workers : HandlerOK(w)
  /\ \A p \in Settlements : payout[p].status = "PROCESSING" => payout[p].approved
  /\ PaidIsApproved
  /\ SubmittedBatchIsPaid
=============================================================================
