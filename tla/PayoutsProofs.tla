--------------------------- MODULE PayoutsProofs ---------------------------
(***************************************************************************)
(* The safety properties of Payouts, for any settlements, batches and      *)
(* handlers.                                                               *)
(***************************************************************************)
EXTENDS Payouts, TLAPS

\* A handler that goes on or returns stays a handler.
LEMMA GotoType ==
  ASSUME TypeOK, NEW w \in Workers, NEW pc \in Programs, Goto(w, pc)
  PROVE  /\ req' \in [Workers -> Handler]
         /\ req'[w] = [req[w] EXCEPT !.pc = pc]
BY DEF TypeOK, Goto, Handler

LEMMA IdleType == Idle \in Handler
BY DEF Idle, Handler, Programs

LEMMA ReturnType ==
  ASSUME TypeOK, NEW w \in Workers, Return(w)
  PROVE  req' \in [Workers -> Handler] /\ req'[w] = Idle
BY IdleType DEF TypeOK, Return

\* The calls of processSettlement in a batch come back to its loop.
LEMMA EndType ==
  ASSUME TypeOK, NEW w \in Workers, req[w].payout \in Settlements,
         Succeed(w) \/ Fail(w)
  PROVE  req' \in [Workers -> Handler]
<1>1. req[w] \in Handler BY DEF TypeOK
<1>2. BackInLoop(w) \in Handler
  BY <1>1 DEF BackInLoop, Handler, Programs
<1>3. [BackInLoop(w) EXCEPT !.succeeded = req[w].succeeded \cup {req[w].payout}] \in Handler
  BY <1>1, <1>2 DEF Handler
<1>4. [BackInLoop(w) EXCEPT !.failed = req[w].failed \cup {req[w].payout}] \in Handler
  BY <1>1, <1>2 DEF Handler
<1> QED BY <1>3, <1>4, IdleType DEF TypeOK, Succeed, Fail, EndCall

-----------------------------------------------------------------------------
(* The settlement rows                                                     *)

RowsOK ==
  /\ payout \in [Settlements -> Row]
  /\ \A p \in Settlements : payout[p].status = "PROCESSING" => payout[p].approved
  /\ PaidIsApproved

\* No statement takes back an approval or a payment reference.
RowsKept ==
  \A p \in Settlements : /\ payout[p].approved => payout'[p].approved
                         /\ payout[p].reference => payout'[p].reference

\* Writing any status but PROCESSING keeps the rows as they must be.
LEMMA StatusKeeps ==
  ASSUME RowsOK, NEW p \in Settlements, NEW st \in Statuses \ {"PROCESSING"},
         SetStatus(p, st)
  PROVE  RowsOK' /\ RowsKept
BY DEF RowsOK, RowsKept, SetStatus, Row, Statuses, PaidIsApproved

LEMMA SameKeeps == RowsOK /\ UNCHANGED payout => RowsOK' /\ RowsKept
BY DEF RowsOK, RowsKept, PaidIsApproved

LEMMA RowsStep == PayoutInv /\ [Next]_vars => RowsOK' /\ RowsKept
<1> SUFFICES ASSUME PayoutInv, [Next]_vars PROVE RowsOK' /\ RowsKept
  OBVIOUS
<1>0. RowsOK /\ TypeOK /\ \A w \in Workers : HandlerOK(w) /\ req[w] \in Handler
  BY DEF PayoutInv, TypeOK, RowsOK
<1>1. ASSUME NEW w \in Workers, Step(w) PROVE RowsOK' /\ RowsKept
  <2> DEFINE r == req[w]
  <2>0. HandlerOK(w) /\ r \in Handler BY <1>0
  <2>1. CASE UNCHANGED payout BY <1>0, <2>1, SameKeeps
  <2>2. CASE LinkMembers(w)
    <3>1. r.batch \in Batches \cup {Nil} BY <2>0 DEF Handler
    <3>2. \A p \in Settlements :
            payout'[p] = [payout[p] EXCEPT !.batch = r.batch] \/ payout'[p] = payout[p]
      BY <2>2 DEF LinkMembers
    <3> HIDE DEF r
    <3>3. \A p \in Settlements :
            /\ payout'[p] \in Row
            /\ payout'[p].status = payout[p].status
            /\ payout'[p].approved = payout[p].approved
            /\ payout'[p].reference = payout[p].reference
      BY <1>0, <3>1, <3>2 DEF RowsOK, Row
    <3>4. payout' \in [Settlements -> Row]
      BY <2>2, <3>3 DEF LinkMembers
    <3> QED BY <1>0, <3>3, <3>4 DEF RowsOK, RowsKept, PaidIsApproved
  <2>3. CASE ApprovePayout(w)
    <3>1. r.payout \in Settlements
      BY <2>0, <2>3 DEF ApprovePayout, At, HandlerOK, OnPayout
    <3> QED
      BY <1>0, <2>3, <3>1 DEF ApprovePayout, RowsOK, RowsKept, Row, Statuses,
                              PaidIsApproved
  <2>4. CASE ApproveMembers(w)
    <3>1. \A p \in Settlements : payout'[p] =
            IF p \in Members(r.batch)
            THEN [payout[p] EXCEPT !.status = "PROCESSING", !.approved = TRUE]
            ELSE payout[p]
      BY <2>4 DEF ApproveMembers
    <3> HIDE DEF r
    <3>2. ASSUME NEW p \in Settlements
          PROVE  /\ payout'[p] \in Row
                 /\ payout'[p].status = "PROCESSING" => payout'[p].approved
                 /\ payout[p].approved => payout'[p].approved
                 /\ payout'[p].reference = payout[p].reference
      <4>0. payout[p] \in Row BY <1>0 DEF RowsOK
      <4>1. CASE p \in Members(r.batch)
        <5>1. payout'[p] = [payout[p] EXCEPT !.status = "PROCESSING", !.approved = TRUE]
          BY <3>1, <4>1
        <5>2. payout'[p].approved = TRUE BY <4>0, <5>1 DEF Row
        <5>3. payout'[p] \in Row /\ payout'[p].reference = payout[p].reference
          BY <4>0, <5>1 DEF Row, Statuses
        <5> QED BY <5>2, <5>3
      <4>2. CASE p \notin Members(r.batch)
        <5>1. payout'[p] = payout[p] BY <3>1, <4>2
        <5> QED BY <1>0, <4>0, <5>1 DEF RowsOK
      <4> QED BY <4>1, <4>2
    <3>3. payout' \in [Settlements -> Row]
      BY <2>4, <3>2 DEF ApproveMembers
    <3> QED BY <1>0, <3>2, <3>3 DEF RowsOK, RowsKept, PaidIsApproved
  <2>5. CASE SubmitPayout(w)
    <3>1. r.payout \in Settlements /\ payout[r.payout].approved
      BY <2>0, <2>5 DEF SubmitPayout, At, HandlerOK, OnPayout
    <3> QED
      BY <1>0, <2>5, <3>1 DEF SubmitPayout, RowsOK, RowsKept, Row, Statuses,
                              PaidIsApproved
  <2>6. CASE FailPayout(w) \/ RecordDisbursement(w)
    <3>1. r.payout \in Settlements
      BY <2>0, <2>6 DEF FailPayout, RecordDisbursement, At, HandlerOK, OnPayout
    <3> QED
      BY <1>0, <2>6, <3>1, StatusKeeps DEF FailPayout, RecordDisbursement, Statuses
  <2> QED
    BY <1>1, <2>1, <2>2, <2>3, <2>4, <2>5, <2>6
    DEF Step, InsertBatch, BatchFails, ApproveBatch, NotifyProcessed,
        ProcessThrows, NextMember, EndBatch, CompleteTransaction, DisbursementFails
<1>2. ASSUME NEW w \in Workers, NEW p \in Settlements,
             CompletePayout(w, p) \/ ReconcileMatched(w, p)
      PROVE RowsOK' /\ RowsKept
  BY <1>0, <1>2, StatusKeeps DEF CompletePayout, ReconcileMatched, Statuses
<1>3. ASSUME NEW p \in Settlements, CreatePayout(p) PROVE RowsOK' /\ RowsKept
  BY <1>0, <1>3, StatusKeeps DEF CreatePayout, Statuses
<1>4. CASE UNCHANGED payout BY <1>0, <1>4, SameKeeps
<1> QED
  BY <1>1, <1>2, <1>3, <1>4
  DEF Next, Request, ReadForBatch, ReadToApprove, ReadToProcess,
      ReadForDisbursement, ReadBatchToApprove, ReadBatchToProcess, Environment,
      Crash, vars

-----------------------------------------------------------------------------
(* The handlers                                                            *)

\* What a handler knows survives the steps of the others.
LEMMA OtherHandler ==
  ASSUME TypeOK, RowsKept, NEW w \in Workers, HandlerOK(w), req'[w] = req[w]
  PROVE  HandlerOK(w)'
<1>1. req[w] \in Handler BY DEF TypeOK
<1> QED BY <1>1 DEF RowsKept, HandlerOK, OnPayout, Handler

\* A step of one handler leaves the local state of the others alone.
LEMMA OthersUnchanged ==
  ASSUME TypeOK, NEW w \in Workers, NEW v \in Workers, v # w,
         Step(w) \/ Request(w)
  PROVE  req'[v] = req[v]
BY DEF TypeOK, Request, Step, Goto, Return, Succeed, Fail, EndCall, ReadForBatch,
   InsertBatch, LinkMembers, BatchFails, ReadToApprove, ApprovePayout,
   ReadBatchToApprove, ApproveBatch, ApproveMembers, ReadToProcess,
   SubmitPayout, NotifyProcessed, ProcessThrows, FailPayout,
   ReadBatchToProcess, NextMember, EndBatch, CompletePayout,
   CompleteTransaction, ReconcileMatched, ReadForDisbursement,
   RecordDisbursement, DisbursementFails

\* What a handler's own step makes of its local state is typed and true.
Local(w) == req[w] \in Handler /\ HandlerOK(w)

LEMMA IdleLocal ==
  ASSUME NEW w \in Workers, req'[w] = Idle PROVE Local(w)'
BY IdleType DEF Local, HandlerOK, OnPayout, Idle

LEMMA EndLocal ==
  ASSUME TypeOK, RowsKept, NEW w \in Workers, Local(w),
         req[w].payout \in Settlements,
         \/ Fail(w)
         \/ Succeed(w) /\ payout[req[w].payout].reference
  PROVE  Local(w)'
<1>1. req[w] \in Handler BY DEF Local
<1>2. req' \in [Workers -> Handler] BY EndType
<1>3. CASE req[w].batch = Nil
  BY <1>3, IdleLocal DEF TypeOK, Fail, Succeed, EndCall
<1>4. CASE req[w].batch # Nil
  <2>1. /\ req'[w].pc = "loop"
        /\ req'[w].succeeded \in {req[w].succeeded, req[w].succeeded \cup {req[w].payout}}
        /\ req'[w].succeeded = req[w].succeeded \/ payout[req[w].payout].reference
    <3>1. /\ BackInLoop(w) \in Handler
          /\ BackInLoop(w).pc = "loop"
          /\ BackInLoop(w).succeeded = req[w].succeeded
      BY <1>1 DEF BackInLoop, Handler, Programs
    <3>2. CASE Fail(w)
      <4>1. req'[w] = [BackInLoop(w) EXCEPT
                         !.failed = req[w].failed \cup {req[w].payout}]
        BY <1>4, <3>2 DEF TypeOK, Fail, EndCall
      <4> QED BY <3>1, <4>1 DEF Handler
    <3>3. CASE Succeed(w) /\ payout[req[w].payout].reference
      <4>1. req'[w] = [BackInLoop(w) EXCEPT
                         !.succeeded = req[w].succeeded \cup {req[w].payout}]
        BY <1>4, <3>3 DEF TypeOK, Succeed, EndCall
      <4>2. /\ req'[w].pc = "loop"
            /\ req'[w].succeeded = req[w].succeeded \cup {req[w].payout}
        BY <3>1, <4>1 DEF Handler
      <4> QED BY <3>3, <4>2
    <3> QED BY <3>2, <3>3
  <2>2. \A p \in req'[w].succeeded : payout[p].reference
    BY <2>1 DEF Local, HandlerOK
  <2>3. req'[w].succeeded \subseteq Settlements
    BY <1>2 DEF Handler
  <2> QED BY <1>2, <2>1, <2>2, <2>3 DEF Local, HandlerOK, OnPayout, RowsKept
<1> QED BY <1>3, <1>4

LEMMA OwnStep ==
  ASSUME PayoutInv, RowsKept, RowsOK', NEW w \in Workers, Step(w)
  PROVE  Local(w)'
<1>0. TypeOK /\ Local(w) /\ req[w] \in Handler
  BY DEF PayoutInv, TypeOK, Local
<1>1. \A p \in req[w].succeeded : payout'[p].reference
  BY <1>0 DEF Local, HandlerOK, RowsKept, Handler
<1>2. ASSUME NEW pc \in Programs \ {"notify", "submit"}, Goto(w, pc),
             pc \in OnPayout => req[w].payout \in Settlements
      PROVE Local(w)'
  <2>1. /\ req'[w] = [req[w] EXCEPT !.pc = pc]
        /\ req'[w] \in Handler
    BY <1>0, <1>2, GotoType
  <2>2. /\ req'[w].pc = pc
        /\ req'[w].payout = req[w].payout
        /\ req'[w].succeeded = req[w].succeeded
    BY <1>0, <2>1 DEF Handler
  <2> QED BY <1>1, <1>2, <2>1, <2>2 DEF Local, HandlerOK
<1>3. ASSUME Return(w) PROVE Local(w)'
  BY <1>0, <1>3, ReturnType, IdleLocal
<1>4. ASSUME NEW b \in Batches, InsertBatch(w, b) PROVE Local(w)'
  <2>1. req'[w] = [req[w] EXCEPT !.pc = "link", !.batch = b]
    BY <1>0, <1>4 DEF InsertBatch, TypeOK
  <2>2. /\ req'[w].pc = "link"
        /\ req'[w].succeeded = req[w].succeeded
        /\ req'[w] \in Handler
    BY <1>0, <2>1 DEF Handler, Programs
  <2> QED BY <1>1, <2>2 DEF Local, HandlerOK, OnPayout
<1>5. CASE ApproveBatch(w)
  BY <1>2, <1>5 DEF ApproveBatch, OnPayout, Programs
<1>6. CASE SubmitPayout(w)
  <2>1. req[w].payout \in Settlements
    BY <1>0, <1>6 DEF SubmitPayout, At, Local, HandlerOK, OnPayout
  <2>2. payout'[req[w].payout].reference
    BY <1>0, <1>6, <2>1 DEF SubmitPayout, TypeOK, Row
  <2>3. req'[w] \in Handler /\ req'[w] = [req[w] EXCEPT !.pc = "notify"]
    BY <1>0, <1>6, GotoType DEF SubmitPayout, Programs, TypeOK
  <2>4. /\ req'[w].pc = "notify"
        /\ req'[w].payout = req[w].payout
        /\ req'[w].succeeded = req[w].succeeded
    BY <1>0, <2>3 DEF Handler
  <2> QED BY <1>1, <2>1, <2>2, <2>3, <2>4 DEF Local, HandlerOK
<1>7. CASE NotifyProcessed(w)
  BY <1>0, <1>7, EndLocal DEF NotifyProcessed, At, Local, HandlerOK, OnPayout
<1>8. CASE ProcessThrows(w)
  BY <1>0, <1>2, <1>8 DEF ProcessThrows, At, Local, HandlerOK, OnPayout, Programs
<1>9. CASE FailPayout(w)
  BY <1>0, <1>9, EndLocal DEF FailPayout, At, Local, HandlerOK, OnPayout
<1>10. ASSUME NEW p \in Settlements, NextMember(w, p) PROVE Local(w)'
  <2>1. req'[w] = [req[w] EXCEPT !.pc = AfterRead(p), !.payout = p,
                                 !.todo = req[w].todo \ {p}]
    BY <1>0, <1>10 DEF NextMember, TypeOK
  <2>2. AfterRead(p) \in {"submit", "failing"} /\ UNCHANGED payout
    BY <1>10 DEF NextMember, AfterRead
  <2>3. AfterRead(p) = "submit" => payout'[p].approved
    BY <2>2 DEF AfterRead, PayoutInv
  <2>4. /\ req'[w].pc = AfterRead(p)
        /\ req'[w].payout = p
        /\ req'[w].succeeded = req[w].succeeded
        /\ req'[w] \in Handler
    BY <1>0, <2>1, <2>2 DEF Handler, Programs
  <2> QED BY <1>1, <2>2, <2>3, <2>4 DEF Local, HandlerOK
<1> QED
  BY <1>3, <1>4, <1>5, <1>6, <1>7, <1>8, <1>9, <1>10, Step(w)
  DEF Step, LinkMembers, BatchFails, ApprovePayout, ApproveMembers, EndBatch,
      CompleteTransaction, RecordDisbursement, DisbursementFails

\* A new request reads what it needs and starts with nothing counted.
LEMMA NewLocal ==
  ASSUME PayoutInv, NEW w \in Workers, Request(w)
  PROVE  Local(w)'
<1>0. TypeOK /\ req[w] \in Handler /\ req \in [Workers -> Handler]
  BY DEF PayoutInv, TypeOK
<1>1. ASSUME NEW pc \in Programs \ {"notify"}, NEW p \in Settlements \cup {Nil},
             NEW b \in Batches \cup {Nil}, NEW S \in SUBSET Settlements,
             req'[w] = [pc |-> pc, payout |-> p, batch |-> b, todo |-> S,
                        succeeded |-> {}, failed |-> {}],
             pc \in OnPayout => p \in Settlements,
             pc = "submit" => payout'[p].approved
      PROVE Local(w)'
  BY <1>1 DEF Local, Handler, HandlerOK
<1>2. ASSUME NEW S \in SUBSET Settlements, ReadForBatch(w, S) PROVE Local(w)'
  <2>1. req'[w] = [pc |-> "newbatch", payout |-> Nil, batch |-> Nil, todo |-> S,
                   succeeded |-> {}, failed |-> {}]
    BY <1>0, <1>2 DEF ReadForBatch, Idle
  <2> QED BY <1>1, <2>1 DEF OnPayout, Programs
<1>3. ASSUME NEW p \in Settlements, ReadToApprove(w, p) PROVE Local(w)'
  <2>1. req'[w] = [pc |-> "approve", payout |-> p, batch |-> Nil, todo |-> {},
                   succeeded |-> {}, failed |-> {}]
    BY <1>0, <1>3 DEF ReadToApprove, Idle
  <2> QED BY <1>1, <2>1 DEF Programs
<1>4. ASSUME NEW p \in Settlements, ReadToProcess(w, p) PROVE Local(w)'
  <2>1. req'[w] = [pc |-> AfterRead(p), payout |-> p, batch |-> Nil, todo |-> {},
                   succeeded |-> {}, failed |-> {}]
    BY <1>0, <1>4 DEF ReadToProcess, Idle
  <2>2. AfterRead(p) \in {"submit", "failing"} /\ UNCHANGED payout
    BY <1>4 DEF AfterRead, ReadToProcess
  <2>3. AfterRead(p) = "submit" => payout'[p].approved
    BY <2>2 DEF AfterRead, PayoutInv
  <2> QED BY <1>1, <2>1, <2>2, <2>3 DEF Programs
<1>5. ASSUME NEW p \in Settlements, CompletePayout(w, p) PROVE Local(w)'
  <2>1. req'[w] = [pc |-> "completetx", payout |-> p, batch |-> Nil, todo |-> {},
                   succeeded |-> {}, failed |-> {}]
    BY <1>0, <1>5 DEF CompletePayout, Idle
  <2> QED BY <1>1, <2>1 DEF Programs
<1>6. ASSUME NEW p \in Settlements, ReconcileMatched(w, p) PROVE Local(w)'
  <2>1. req'[w] = req[w] /\ At(w, "idle") BY <1>6 DEF ReconcileMatched
  <2>2. RowsKept BY RowsStep, <1>6 DEF Next, Request
  <2>3. HandlerOK(w)' BY <1>0, <2>1, <2>2, OtherHandler DEF PayoutInv
  <2> QED BY <1>0, <2>1, <2>3 DEF Local
<1>7. ASSUME NEW p \in Settlements, ReadForDisbursement(w, p) PROVE Local(w)'
  <2>1. req'[w] = [pc |-> "upload", payout |-> p, batch |-> Nil, todo |-> {},
                   succeeded |-> {}, failed |-> {}]
    BY <1>0, <1>7 DEF ReadForDisbursement, Idle
  <2> QED BY <1>1, <2>1 DEF Programs
<1>8. ASSUME NEW b \in Batches, ReadBatchToApprove(w, b) PROVE Local(w)'
  <2>1. req'[w] = [pc |-> "approvebatch", payout |-> Nil, batch |-> b, todo |-> {},
                   succeeded |-> {}, failed |-> {}]
    BY <1>0, <1>8 DEF ReadBatchToApprove, Idle
  <2> QED BY <1>1, <2>1 DEF OnPayout, Programs
<1>9. ASSUME NEW b \in Batches, ReadBatchToProcess(w, b) PROVE Local(w)'
  <2>1. req'[w] = [pc |-> "loop", payout |-> Nil, batch |-> b, todo |-> Members(b),
                   succeeded |-> {}, failed |-> {}]
    BY <1>0, <1>9 DEF ReadBatchToProcess, Idle
  <2>2. Members(b) \in SUBSET Settlements BY DEF Members
  <2> QED BY <1>1, <2>1, <2>2 DEF OnPayout, Programs
<1> QED
  BY <1>2, <1>3, <1>4, <1>5, <1>6, <1>7, <1>8, <1>9 DEF Request

\* The handlers after a step: the one that took it, and the others.
LEMMA HandlersStep ==
  PayoutInv /\ [Next]_vars
    => req' \in [Workers -> Handler] /\ \A w \in Workers : HandlerOK(w)'
<1> SUFFICES ASSUME PayoutInv, [Next]_vars
             PROVE  req' \in [Workers -> Handler] /\ \A w \in Workers : HandlerOK(w)'
  OBVIOUS
<1>0. /\ TypeOK /\ RowsOK' /\ RowsKept
      /\ \A w \in Workers : HandlerOK(w) /\ req[w] \in Handler
  BY RowsStep DEF PayoutInv, TypeOK
<1>1. ASSUME NEW v \in Workers, req'[v] = req[v] PROVE Local(v)'
  BY <1>0, <1>1, OtherHandler DEF Local
<1>2. ASSUME NEW w \in Workers, Step(w) \/ Request(w)
      PROVE \A v \in Workers : Local(v)'
  <2>1. Local(w)' BY <1>0, <1>2, OwnStep, NewLocal
  <2>2. ASSUME NEW v \in Workers, v # w PROVE Local(v)'
    <3>1. req'[v] = req[v] BY <1>0, <1>2, <2>2, OthersUnchanged
    <3> QED BY <1>1, <3>1
  <2> QED BY <2>1, <2>2
<1>3. ASSUME Crash PROVE \A v \in Workers : Local(v)'
  BY <1>3, IdleLocal DEF Crash
<1>4. ASSUME UNCHANGED req PROVE \A v \in Workers : Local(v)'
  BY <1>1, <1>4
<1>5. \A v \in Workers : Local(v)'
  BY <1>2, <1>3, <1>4 DEF Next, Environment, CreatePayout, vars
<1>6. req' = [v \in Workers |-> req'[v]]
  <2>1. req = [w \in Workers |-> req[w]] BY <1>0 DEF TypeOK
  <2>2. ASSUME NEW w \in Workers, Step(w) \/ Request(w)
        PROVE  req' = [v \in Workers |-> req'[v]]
    BY <2>1, <2>2
    DEF Step, Request, Goto, Return, Succeed, Fail, EndCall, ReadForBatch,
        InsertBatch, LinkMembers, BatchFails, ReadToApprove, ApprovePayout,
        ReadBatchToApprove, ApproveBatch, ApproveMembers, ReadToProcess,
        SubmitPayout, NotifyProcessed, ProcessThrows, FailPayout,
        ReadBatchToProcess, NextMember, EndBatch, CompletePayout,
        CompleteTransaction, ReconcileMatched, ReadForDisbursement,
        RecordDisbursement, DisbursementFails
  <2>3. CASE Crash BY <2>3 DEF Crash
  <2>4. CASE UNCHANGED req BY <2>1, <2>4
  <2> QED BY <2>2, <2>3, <2>4 DEF Next, Environment, CreatePayout, vars
<1> QED BY <1>5, <1>6 DEF Local

-----------------------------------------------------------------------------
(* The batches and the transactions                                        *)

\* A batch is submitted by the loop that counted its members, and only when no
\* member failed.
LEMMA BatchesStep ==
  PayoutInv /\ [Next]_vars
    => batch' \in [Batches -> BatchRow] /\ SubmittedBatchIsPaid'
<1> SUFFICES ASSUME PayoutInv, [Next]_vars
             PROVE  batch' \in [Batches -> BatchRow] /\ SubmittedBatchIsPaid'
  OBVIOUS
<1>0. /\ batch \in [Batches -> BatchRow] /\ SubmittedBatchIsPaid /\ RowsKept
      /\ \A w \in Workers : HandlerOK(w) /\ req[w] \in Handler
  BY RowsStep DEF PayoutInv, TypeOK
<1>1. CASE UNCHANGED batch
  BY <1>0, <1>1 DEF SubmittedBatchIsPaid, RowsKept, BatchRow
<1>2. ASSUME NEW b, NEW row \in BatchRow, batch' = [batch EXCEPT ![b] = row],
             row.status = "SUBMITTED" =>
               \A p \in row.processed : payout'[p].reference
      PROVE batch' \in [Batches -> BatchRow] /\ SubmittedBatchIsPaid'
  <2>1. batch' \in [Batches -> BatchRow] BY <1>0, <1>2
  <2>2. ASSUME NEW c \in Batches, batch'[c].status = "SUBMITTED",
               NEW p \in batch'[c].processed
        PROVE payout'[p].reference
    <3>1. CASE c = b BY <1>0, <1>2, <2>2, <3>1
    <3>2. CASE c # b
      <4>1. batch'[c] = batch[c] BY <1>0, <1>2, <3>2
      <4> QED BY <1>0, <2>2, <4>1 DEF SubmittedBatchIsPaid, RowsKept, BatchRow
    <3> QED BY <3>1, <3>2
  <2> QED BY <2>1, <2>2 DEF SubmittedBatchIsPaid
<1>3. ASSUME NEW w \in Workers, NEW b \in Batches, InsertBatch(w, b)
      PROVE batch' \in [Batches -> BatchRow] /\ SubmittedBatchIsPaid'
  <2>1. batch' = [batch EXCEPT ![b] = [batch[b] EXCEPT !.status = "PENDING"]]
    BY <1>3 DEF InsertBatch
  <2>2. /\ [batch[b] EXCEPT !.status = "PENDING"] \in BatchRow
        /\ [batch[b] EXCEPT !.status = "PENDING"].status = "PENDING"
    BY <1>0 DEF BatchRow
  <2> QED BY <1>2, <2>1, <2>2
<1>4. ASSUME NEW w \in Workers, ApproveBatch(w)
      PROVE batch' \in [Batches -> BatchRow] /\ SubmittedBatchIsPaid'
  <2> DEFINE b == req[w].batch
  <2>1. batch' = [batch EXCEPT ![b] = [batch[b] EXCEPT !.status = "PROCESSING"]]
    BY <1>4 DEF ApproveBatch
  <2>2. CASE b \in Batches
    <3>1. /\ [batch[b] EXCEPT !.status = "PROCESSING"] \in BatchRow
          /\ [batch[b] EXCEPT !.status = "PROCESSING"].status = "PROCESSING"
      BY <1>0, <2>2 DEF BatchRow
    <3> QED BY <1>2, <2>1, <3>1
  <2>3. CASE b \notin Batches
    <3>1. batch' = batch BY <1>0, <2>1, <2>3
    <3> QED BY <1>1, <3>1
  <2> QED BY <2>2, <2>3
<1>5. ASSUME NEW w \in Workers, EndBatch(w)
      PROVE batch' \in [Batches -> BatchRow] /\ SubmittedBatchIsPaid'
  <2> DEFINE row == [status |-> Verdict(w),
                     processed |-> req[w].succeeded \cup req[w].failed]
  <2>1. batch' = [batch EXCEPT ![req[w].batch] = row]
    BY <1>5 DEF EndBatch
  <2>2. row \in BatchRow
    BY <1>0 DEF Handler, BatchRow, Verdict
  <2>3. ASSUME row.status = "SUBMITTED", NEW p \in row.processed
        PROVE payout'[p].reference
    <3>1. req[w].failed = {} BY <2>3 DEF Verdict
    <3>2. p \in req[w].succeeded /\ p \in Settlements BY <1>0, <2>3, <3>1 DEF Handler
    <3> QED BY <1>0, <3>2 DEF HandlerOK, RowsKept
  <2> HIDE DEF row
  <2> QED BY <1>2, <2>1, <2>2, <2>3
<1> QED
  BY <1>1, <1>3, <1>4, <1>5
  DEF Next, Step, Request, Environment, LinkMembers, BatchFails, ReadForBatch,
      ReadToApprove, ApprovePayout, ReadBatchToApprove, ApproveMembers,
      ReadToProcess, SubmitPayout, NotifyProcessed, ProcessThrows, FailPayout,
      ReadBatchToProcess, NextMember, CompletePayout, CompleteTransaction,
      ReconcileMatched, ReadForDisbursement, RecordDisbursement,
      DisbursementFails, CreatePayout, Crash, vars

TxStatuses == {"APPROVED", "DISBURSEMENT_IN_PROGRESS", "COMPLETED"}

LEMMA TransactionsStep ==
  PayoutInv /\ [Next]_vars => txStatus' \in [Settlements -> TxStatuses]
<1> SUFFICES ASSUME PayoutInv, [Next]_vars
             PROVE  txStatus' \in [Settlements -> TxStatuses]
  OBVIOUS
<1>1. txStatus \in [Settlements -> TxStatuses]
  BY DEF PayoutInv, TypeOK, TxStatuses
<1>2. CASE UNCHANGED txStatus BY <1>1, <1>2
<1>3. CASE \E w \in Workers : CompleteTransaction(w) \/ RecordDisbursement(w)
  BY <1>1, <1>3 DEF CompleteTransaction, RecordDisbursement, TxStatuses
<1> QED
  BY <1>2, <1>3
  DEF Next, Step, Request, Environment, InsertBatch, LinkMembers, BatchFails,
      ReadForBatch, ReadToApprove, ApprovePayout, ReadBatchToApprove,
      ApproveBatch, ApproveMembers, ReadToProcess, SubmitPayout,
      NotifyProcessed, ProcessThrows, FailPayout, ReadBatchToProcess,
      NextMember, EndBatch, CompletePayout, ReconcileMatched,
      ReadForDisbursement, DisbursementFails, CreatePayout, Crash, vars

-----------------------------------------------------------------------------
(* The theorems                                                            *)

\* PayoutInv holds in every reachable state: of settlement.service.ts, however
\* many approvals, batches, retries, completions and crashes interleave.
THEOREM PayoutInvariant == Spec => []PayoutInv
<1>1. Init => PayoutInv
  <2> SUFFICES ASSUME Init PROVE PayoutInv
    OBVIOUS
  <2>1. TypeOK
    BY IdleType DEF Init, TypeOK, Row, Statuses, NoPayout, BatchRow, NoBatch
  <2>2. \A w \in Workers : HandlerOK(w)
    BY DEF Init, HandlerOK, OnPayout, Idle
  <2>3. \A p \in Settlements : payout[p].status = "PROCESSING" => payout[p].approved
    BY DEF Init, NoPayout
  <2>4. PaidIsApproved /\ SubmittedBatchIsPaid
    BY DEF Init, NoPayout, NoBatch, PaidIsApproved, SubmittedBatchIsPaid
  <2> QED BY <2>1, <2>2, <2>3, <2>4 DEF PayoutInv
<1>2. PayoutInv /\ [Next]_vars => PayoutInv'
  <2> SUFFICES ASSUME PayoutInv, [Next]_vars PROVE PayoutInv'
    OBVIOUS
  <2>1. RowsOK' BY RowsStep
  <2>2. req' \in [Workers -> Handler] /\ \A w \in Workers : HandlerOK(w)'
    BY HandlersStep
  <2>3. batch' \in [Batches -> BatchRow] /\ SubmittedBatchIsPaid'
    BY BatchesStep
  <2>4. txStatus' \in [Settlements -> TxStatuses]
    BY TransactionsStep
  <2> QED BY <2>1, <2>2, <2>3, <2>4 DEF PayoutInv, TypeOK, RowsOK, TxStatuses
<1> QED BY <1>1, <1>2, PTL DEF Spec

\* No payment reference without an approval (processSettlement's status guard
\* and the two approve handlers).
THEOREM PaidNeedsApproval == Spec => []PaidIsApproved
<1>1. PayoutInv => PaidIsApproved BY DEF PayoutInv
<1> QED BY <1>1, PayoutInvariant, PTL

\* A batch ends SUBMITTED only with all it went through submitted
\* (processSettlementBatch's count).
THEOREM SubmittedBatchesArePaid == Spec => []SubmittedBatchIsPaid
<1>1. PayoutInv => SubmittedBatchIsPaid BY DEF PayoutInv
<1> QED BY <1>1, PayoutInvariant, PTL
=============================================================================
