------------------------- MODULE TransactionsProofs -------------------------
(***************************************************************************)
(* The safety properties of Transactions, for any transactions, documents  *)
(* and requests, with and without failures.                                *)
(***************************************************************************)
EXTENDS Transactions, TLAPS

\* What no step takes back: a transaction, the transaction of a document, and
\* that a document was decided about.
Grows ==
  /\ \A t \in Transactions : Exists(t) => trx'[t].status # "NONE"
  /\ \A d \in Documents : doc[d].trx # Nil =>
       /\ doc'[d].trx = doc[d].trx
       /\ doc[d].status # "PENDING" => doc'[d].status # "PENDING"

\* The rest of the invariant after a step.
Rows == RowsOK' /\ WordStands' /\ ApprovalCovers'

LEMMA HandlerFacts ==
  ASSUME TypeOK, NEW w \in Workers
  PROVE  /\ req[w] \in Handler
         /\ req[w].trx \in Transactions \cup {Nil}
         /\ req[w].docs \subseteq Documents
         /\ Reserved(w) \subseteq Documents
BY DEF TypeOK, Handler, Reserved

LEMMA IdleHandler ==
  /\ Idle \in Handler /\ Idle.pc = "idle" /\ Idle.trx = Nil /\ Idle.docs = {}
BY DEF Idle, Handler, Pcs

\* A handler that a step leaves alone.
LEMMA OtherHandler ==
  ASSUME TypeOK, Grows, NEW v \in Workers, HandlerOK(v), req'[v] = req[v],
         req[v].pc \in {"kyc", "insert"} =>
           /\ trx'[req[v].trx].status = "NONE"
           /\ \A u \in Workers \ {v} : req'[u].trx # req[v].trx,
         \A d \in Reserved(v) : doc'[d].trx = Nil
  PROVE  HandlerOK(v)'
<1> DEFINE h == req[v]
<1>1. h.trx \in Transactions \cup {Nil} /\ h.docs \subseteq Documents
  BY HandlerFacts
<1>2. Reserved(v)' = Reserved(v) BY DEF Reserved
<1>3. h.pc \notin {"idle", "kyc", "insert"} => trx'[h.trx].status # "NONE"
  BY <1>1 DEF HandlerOK, Grows, Exists
<1>4. h.pc \in {"verify_all", "record_approval"} => \A d \in h.docs : doc'[d].trx = h.trx
  <2> SUFFICES ASSUME h.pc \in {"verify_all", "record_approval"}, NEW d \in h.docs
               PROVE  doc'[d].trx = h.trx
    OBVIOUS
  <2>1. doc[d].trx = h.trx /\ h.trx # Nil BY DEF HandlerOK
  <2> QED BY <1>1, <2>1 DEF Grows
<1>5. h.pc = "record_approval" => \A d \in h.docs : doc'[d].status # "PENDING"
  <2> SUFFICES ASSUME h.pc = "record_approval", NEW d \in h.docs
               PROVE  doc'[d].status # "PENDING"
    OBVIOUS
  <2>1. doc[d].trx = h.trx /\ h.trx # Nil /\ doc[d].status # "PENDING" BY DEF HandlerOK
  <2> QED BY <1>1, <2>1 DEF Grows
<1> QED BY <1>2, <1>3, <1>4, <1>5 DEF HandlerOK, Exists

\* A step of one handler: what has to be shown of it.
LEMMA HandlerStep ==
  ASSUME TransactionsInv, TypeOK', Grows, NEW w \in Workers,
         req' = [req EXCEPT ![w] = req'[w]],
         HandlerOK(w)',
         \A t \in Transactions : ~Exists(t) /\ t # req[w].trx => trx'[t].status = "NONE",
         \/ req'[w].trx = Nil
         \/ req'[w].trx = req[w].trx
         \/ Exists(req'[w].trx)
         \/ \A v \in Workers : req[v].trx # req'[w].trx,
         \A d \in Documents \ Reserved(w) : doc[d].trx = Nil => doc'[d].trx = Nil,
         Reserved(w)' \subseteq Reserved(w) \cup Fresh
  PROVE  (\A v \in Workers : HandlerOK(v)') /\ Apart'
<1>1. ASSUME NEW v \in Workers, v # w PROVE HandlerOK(v)'
  <2>1. req'[v] = req[v] BY <1>1 DEF TransactionsInv, TypeOK
  <2>2. HandlerOK(v) /\ HandlerOK(w) /\ TypeOK BY DEF TransactionsInv
  <2>3. req[v].trx \in Transactions \cup {Nil} BY <2>2, HandlerFacts
  <2>4. ASSUME req[v].pc \in {"kyc", "insert"}
        PROVE  /\ trx'[req[v].trx].status = "NONE"
               /\ \A u \in Workers \ {v} : req'[u].trx # req[v].trx
    <3>1. /\ ~Exists(req[v].trx) /\ req[v].trx # Nil
          /\ \A u \in Workers \ {v} : req[u].trx # req[v].trx
      BY <2>2, <2>4 DEF HandlerOK
    <3>2. req[w].trx # req[v].trx BY <1>1, <3>1
    <3>3. req'[w].trx # req[v].trx BY <3>1, <3>2
    <3>4. \A u \in Workers \ {v, w} : req'[u] = req[u] BY DEF TransactionsInv, TypeOK
    <3> QED BY <2>3, <3>1, <3>2, <3>3, <3>4
  <2>6. \A d \in Reserved(v) : doc'[d].trx = Nil
    <3> SUFFICES ASSUME NEW d \in Reserved(v) PROVE doc'[d].trx = Nil
      OBVIOUS
    <3>1. d \in Documents /\ doc[d].trx = Nil BY <2>2, HandlerFacts DEF HandlerOK
    <3>2. d \notin Reserved(w) BY <1>1 DEF TransactionsInv, Apart
    <3> QED BY <3>1, <3>2
  <2> QED BY <2>1, <2>2, <2>4, <2>6, OtherHandler
<1>2. \A v \in Workers : v # w => Reserved(v)' = Reserved(v)
  BY DEF TransactionsInv, TypeOK, Reserved
<1>3. \A v \in Workers : v # w => Reserved(v) \cap Fresh = {}
  BY DEF Reserved, Fresh
<1>4. \A v \in Workers : v # w => Reserved(v) \cap Reserved(w)' = {}
  BY <1>3 DEF TransactionsInv, Apart
<1>5. Apart' BY <1>2, <1>4 DEF TransactionsInv, Apart
<1> QED BY <1>1, <1>5

\* A step that no handler takes.
LEMMA OutsideStep ==
  ASSUME TransactionsInv, Grows, req' = req,
         \A t \in Transactions : ~Exists(t) => trx'[t].status = "NONE",
         \A d \in Documents : doc[d].trx = Nil => doc'[d].trx = Nil
  PROVE  (\A v \in Workers : HandlerOK(v)') /\ Apart'
<1>1. ASSUME NEW v \in Workers PROVE HandlerOK(v)'
  <2>1. HandlerOK(v) /\ TypeOK BY DEF TransactionsInv
  <2>2. req[v].trx \in Transactions \cup {Nil} /\ Reserved(v) \subseteq Documents
    BY <2>1, HandlerFacts
  <2>3. req[v].pc \in {"kyc", "insert"} =>
           /\ trx'[req[v].trx].status = "NONE"
           /\ \A u \in Workers \ {v} : req'[u].trx # req[v].trx
    BY <2>1, <2>2 DEF HandlerOK
  <2>5. \A d \in Reserved(v) : doc'[d].trx = Nil BY <2>1, <2>2 DEF HandlerOK
  <2> QED BY <2>1, <2>3, <2>5, OtherHandler
<1>2. \A v \in Workers : Reserved(v)' = Reserved(v) BY DEF Reserved
<1>3. Apart' BY <1>2 DEF TransactionsInv, Apart
<1> QED BY <1>1, <1>3

\* The rows when no document is written and no approval recorded.
LEMMA RowsUnchanged ==
  ASSUME TransactionsInv, Grows, UNCHANGED <<doc, word, covered>>
  PROVE  Rows
<1>1. TypeOK /\ RowsOK /\ WordStands /\ ApprovalCovers BY DEF TransactionsInv
<1>2. WordStands' /\ ApprovalCovers' BY <1>1 DEF WordStands, ApprovalCovers
<1>3. ASSUME NEW d \in Documents, doc[d].trx # Nil
      PROVE  trx'[doc[d].trx].status # "NONE"
  <2>1. doc[d].trx \in Transactions BY <1>1, <1>3 DEF TypeOK, NoDocument
  <2> QED BY <1>1, <1>3, <2>1 DEF RowsOK, Grows
<1>4. RowsOK' BY <1>1, <1>3 DEF RowsOK, Exists
<1> QED BY <1>2, <1>4 DEF Rows

LEMMA SameRowsGrow ==
  ASSUME UNCHANGED <<trx, doc>>
  PROVE  Grows
BY DEF Grows, Exists

\* A handler that only goes on, or returns: where it may go.
LEMMA OnlyHandler ==
  ASSUME TransactionsInv, NEW w \in Workers, NEW h \in Handler,
         req' = [req EXCEPT ![w] = h],
         UNCHANGED <<trx, doc, word, covered>>,
         TypeOK',
         \/ h = Idle
         \/ /\ h = [req[w] EXCEPT !.pc = h.pc]
            /\ \/ req[w].pc = "kyc" /\ h.pc = "insert"
               \/ /\ req[w].pc \notin {"idle", "kyc", "insert"}
                  /\ h.pc \in {"pickup", "record_review", "record_settle"}
               \/ req[w].pc = "log" /\ h.pc = "inline"
  PROVE  TransactionsInv'
<1>1. TypeOK /\ HandlerOK(w) BY DEF TransactionsInv
<1>2. req'[w] = h BY <1>1 DEF TypeOK
<1>3. Grows BY SameRowsGrow
<1>4. h = Idle \/ (h.trx = req[w].trx /\ h.docs = req[w].docs /\ h.step = req[w].step)
  BY <1>1, HandlerFacts DEF Handler
<1>5. h = Idle => h.pc = "idle" /\ h.trx = Nil /\ h.docs = {} BY IdleHandler
<1>6. h = Idle \/ req[w].pc # "idle" OBVIOUS
<1>7. Reserved(w)' \subseteq Reserved(w) BY <1>2, <1>4, <1>5 DEF Reserved
<1>8. h.pc \in {"kyc", "insert"} =>
        ~Exists(h.trx)' /\ \A v \in Workers \ {w} : req'[v].trx # h.trx
  <2> SUFFICES ASSUME h.pc \in {"kyc", "insert"}
               PROVE  ~Exists(h.trx)' /\ \A v \in Workers \ {w} : req'[v].trx # h.trx
    OBVIOUS
  <2>1. req[w].pc = "kyc" /\ h.trx = req[w].trx BY <1>4, <1>5
  <2>2. \A v \in Workers \ {w} : req'[v] = req[v] BY <1>1 DEF TypeOK
  <2> QED BY <1>1, <2>1, <2>2 DEF HandlerOK, Exists
<1>9. HandlerOK(w)'
  BY <1>1, <1>2, <1>4, <1>5, <1>7, <1>8 DEF HandlerOK, Exists
<1>10. (\A v \in Workers : HandlerOK(v)') /\ Apart'
  BY <1>1, <1>2, <1>3, <1>4, <1>5, <1>7, <1>9, HandlerStep DEF Exists
<1>11. Rows BY <1>3, RowsUnchanged
<1> QED BY <1>10, <1>11 DEF TransactionsInv, Rows

-----------------------------------------------------------------------------
(* The steps that write no transaction and no document.                    *)

LEMMA GotoFacts ==
  ASSUME TypeOK, NEW w \in Workers, NEW pc \in Pcs, Goto(w, pc)
  PROVE  \E h \in Handler :
           h.pc = pc /\ h = [req[w] EXCEPT !.pc = h.pc] /\ req' = [req EXCEPT ![w] = h]
<1> DEFINE h == [req[w] EXCEPT !.pc = pc]
<1>1. h \in Handler /\ h.pc = pc BY HandlerFacts DEF Handler
<1>2. req' = [req EXCEPT ![w] = h] BY DEF Goto, TypeOK
<1> QED BY <1>1, <1>2

LEMMA ReturnStep ==
  ASSUME TransactionsInv, NEW w \in Workers, Return(w),
         UNCHANGED <<trx, doc, word, covered>>,
         kyc' \in BOOLEAN, pickup' \subseteq Transactions, calls' \in 0..MaxCalls,
         trail' \in [Transactions -> SUBSET Entries]
  PROVE  TransactionsInv'
<1>1. TypeOK BY DEF TransactionsInv
<1>2. req' = [req EXCEPT ![w] = Idle] BY DEF Return
<1>3. req' \in [Workers -> Handler] BY <1>1, <1>2, IdleHandler DEF TypeOK
<1>4. TypeOK' BY <1>1, <1>3 DEF TypeOK
<1> QED BY <1>2, <1>4, IdleHandler, OnlyHandler

LEMMA GotoStep ==
  ASSUME TransactionsInv, NEW w \in Workers, NEW pc \in Pcs, Goto(w, pc),
         UNCHANGED <<trx, doc, word, covered>>,
         kyc' \in BOOLEAN, pickup' \subseteq Transactions, calls' \in 0..MaxCalls,
         trail' \in [Transactions -> SUBSET Entries],
         \/ req[w].pc = "kyc" /\ pc = "insert"
         \/ /\ req[w].pc \notin {"idle", "kyc", "insert"}
            /\ pc \in {"pickup", "record_review", "record_settle"}
         \/ req[w].pc = "log" /\ pc = "inline"
  PROVE  TransactionsInv'
<1>1. TypeOK BY DEF TransactionsInv
<1>2. PICK h \in Handler :
        h.pc = pc /\ h = [req[w] EXCEPT !.pc = h.pc] /\ req' = [req EXCEPT ![w] = h]
  BY <1>1, GotoFacts
<1>3. req' \in [Workers -> Handler] BY <1>1, <1>2 DEF TypeOK
<1>4. TypeOK' BY <1>1, <1>3 DEF TypeOK
<1> QED BY <1>2, <1>4, OnlyHandler

LEMMA RecordFacts ==
  ASSUME TypeOK, NEW t \in Transactions, NEW e \in Entries, Record(t, e)
  PROVE  trail' \in [Transactions -> SUBSET Entries]
BY DEF TypeOK, Record

LEMMA EntryFacts ==
  /\ Steps \subseteq Entries
  /\ Documents \subseteq Entries
  /\ {"ADMIN_REVIEW", "ADMIN_REVIEW_COMPLETED", "TRANSACTION_APPROVED",
      "TRANSACTION_REJECTED", "TRANSACTION_SETTLED", "DISBURSEMENT",
      "DISBURSEMENT_RECORDED", "DOCUMENT_UPLOAD"} \subseteq Entries
BY DEF Entries, Steps

LEMMA BusyFacts ==
  ASSUME TransactionsInv, NEW w \in Workers, req[w].pc # "idle"
  PROVE  req[w].trx \in Transactions
<1>1. HandlerOK(w) /\ TypeOK BY DEF TransactionsInv
<1> QED BY <1>1, HandlerFacts DEF HandlerOK

LEMMA RecordSteps ==
  ASSUME TransactionsInv, NEW w \in Workers,
         \/ CreateKyc(w) \/ LogCreation(w) \/ CreatePickup(w) \/ LogUpload(w)
         \/ LogReview(w) \/ RecordReview(w) \/ RecordRejection(w)
         \/ LogSettle(w) \/ RecordSettle(w) \/ RecordDocument(w) \/ StepFails(w)
  PROVE  TransactionsInv'
<1>1. TypeOK /\ HandlerOK(w) BY DEF TransactionsInv
<1>2. /\ kyc \in BOOLEAN /\ pickup \subseteq Transactions /\ calls \in 0..MaxCalls
      /\ trail \in [Transactions -> SUBSET Entries]
  BY <1>1 DEF TypeOK
<1>3. {"insert", "inline", "pickup", "record_review", "record_settle"} \subseteq Pcs
  BY DEF Pcs
<1>4. CASE CreateKyc(w)
  BY <1>2, <1>3, <1>4, ReturnStep, GotoStep DEF CreateKyc, At
<1>5. CASE LogCreation(w)
  <2>1. req[w].trx \in Transactions /\ req[w].step \in Entries
    BY <1>1, <1>5, BusyFacts, EntryFacts DEF LogCreation, At, HandlerOK, Steps
  <2>2. trail' \in [Transactions -> SUBSET Entries]
    BY <1>1, <1>5, <2>1, RecordFacts DEF LogCreation
  <2> QED BY <1>2, <1>3, <1>5, <2>2, ReturnStep, GotoStep DEF LogCreation, At
<1>6. CASE CreatePickup(w)
  BY <1>2, <1>6, BusyFacts, ReturnStep DEF CreatePickup, At
<1>7. CASE LogUpload(w) \/ RecordReview(w) \/ RecordRejection(w) \/ RecordSettle(w)
  <2>1. req[w].trx \in Transactions
    BY <1>7, BusyFacts DEF LogUpload, RecordReview, RecordRejection, RecordSettle, At
  <2>2. trail' \in [Transactions -> SUBSET Entries]
    BY <1>1, <1>7, <2>1, RecordFacts, EntryFacts
       DEF LogUpload, RecordReview, RecordRejection, RecordSettle
  <2> QED BY <1>2, <1>7, <2>2, ReturnStep
          DEF LogUpload, RecordReview, RecordRejection, RecordSettle
<1>8. CASE LogReview(w) \/ LogSettle(w)
  <2>1. req[w].trx \in Transactions BY <1>8, BusyFacts DEF LogReview, LogSettle, At
  <2>2. trail' \in [Transactions -> SUBSET Entries]
    BY <1>1, <1>8, <2>1, RecordFacts, EntryFacts DEF LogReview, LogSettle
  <2> QED BY <1>2, <1>3, <1>8, <2>2, GotoStep DEF LogReview, LogSettle, At
<1>9. CASE RecordDocument(w)
  <2>1. req[w].trx \in Transactions /\ req[w].doc \in Entries
    BY <1>1, <1>9, BusyFacts, EntryFacts DEF RecordDocument, At, HandlerOK
  <2>2. trail' \in [Transactions -> SUBSET Entries]
    BY <1>1, <1>9, <2>1, RecordFacts DEF RecordDocument
  <2> QED BY <1>2, <1>9, <2>2, ReturnStep DEF RecordDocument
<1>10. CASE StepFails(w)
  BY <1>2, <1>10, ReturnStep DEF StepFails
<1> QED BY <1>4, <1>5, <1>6, <1>7, <1>8, <1>9, <1>10

-----------------------------------------------------------------------------
(* The requests that arrive.                                               *)

TypedRows ==
  /\ trx' \in [Transactions -> {NoTransaction} \cup [status : Statuses, step : Steps]]
  /\ doc' \in [Documents -> {NoDocument} \cup [trx : Transactions, status : Verdicts]]
  /\ word' \in [Documents -> Verdicts \cup {"NONE"}]

LEMMA CallStep ==
  ASSUME TransactionsInv, NEW w \in Workers, NEW h \in Handler, Call(w, h),
         UNCHANGED <<kyc, pickup, trail, covered>>,
         TypedRows, Grows, Rows,
         \A t \in Transactions : ~Exists(t) => trx'[t].status = "NONE",
         \A d \in Documents : doc[d].trx = Nil => doc'[d].trx = Nil,
         Exists(h.trx) \/ \A v \in Workers : req[v].trx # h.trx,
         h.pc \in {"kyc", "insert", "file"} => h.docs \subseteq Fresh,
         h.pc # "log" /\ h.pc # "inline",
         HandlerOK(w)'
  PROVE  TransactionsInv'
<1>1. TypeOK /\ HandlerOK(w) BY DEF TransactionsInv
<1>2. req' = [req EXCEPT ![w] = h] /\ req'[w] = h BY <1>1 DEF Call, TypeOK
<1>3. calls' \in 0..MaxCalls BY <1>1, TransactionsAssumption DEF Call, TypeOK
<1>4. TypeOK' BY <1>1, <1>2, <1>3 DEF TypeOK, TypedRows
<1>5. req[w].pc = "idle" /\ req[w].trx = Nil /\ Reserved(w) = {}
  BY <1>1 DEF Call, At, HandlerOK, Reserved
<1>6. Reserved(w)' \subseteq Reserved(w) \cup Fresh BY <1>2 DEF Reserved
<1>7. (\A v \in Workers : HandlerOK(v)') /\ Apart'
  BY <1>2, <1>4, <1>5, <1>6, HandlerStep
<1> QED BY <1>4, <1>7 DEF TransactionsInv, Rows

LEMMA TypedUnchanged ==
  ASSUME TypeOK, UNCHANGED <<trx, doc, word>>
  PROVE  TypedRows
BY DEF TypeOK, TypedRows

LEMMA CreateStep ==
  ASSUME TransactionsInv, NEW w \in Workers, NEW t \in Transactions,
         NEW inline \in BOOLEAN, NEW D \in SUBSET Documents, NEW toPickup \in BOOLEAN,
         Create(w, t, inline, D, toPickup)
  PROVE  TransactionsInv'
<1> DEFINE Step == IF inline THEN "DOCUMENT_UPLOAD" ELSE "PERSONAL_INFO"
<1>1. PICK pc \in {"insert", "kyc"} :
        Call(w, [pc |-> pc, trx |-> t, doc |-> Nil, step |-> Step, docs |-> D,
                 pickup |-> toPickup])
  BY DEF Create
<1> DEFINE h == [pc |-> pc, trx |-> t, doc |-> Nil, step |-> Step, docs |-> D,
                 pickup |-> toPickup]
<1>2. h \in Handler BY DEF Handler, Pcs, Steps
<1>3. TypeOK BY DEF TransactionsInv
<1>4. req'[w] = h /\ \A v \in Workers \ {w} : req'[v] = req[v]
  BY <1>1, <1>3 DEF Call, TypeOK
<1>5. /\ ~Exists(t) /\ (\A v \in Workers : req[v].trx # t) /\ D \subseteq Fresh
      /\ UNCHANGED <<kyc, trx, doc, pickup, trail, word, covered>>
  BY DEF Create
<1>6. Reserved(w)' = D BY <1>4 DEF Reserved
<1>7. \A d \in D : doc[d].trx = Nil BY <1>5 DEF Fresh
<1>8. HandlerOK(w)'
  BY <1>4, <1>5, <1>6, <1>7, TransactionsAssumption DEF HandlerOK, Exists
<1>9. Grows BY <1>5, SameRowsGrow
<1>10. Rows BY <1>5, <1>9, RowsUnchanged
<1>11. TypedRows BY <1>3, <1>5, TypedUnchanged
<1> QED BY <1>1, <1>2, <1>5, <1>8, <1>9, <1>10, <1>11, CallStep DEF Exists

LEMMA UploadStep ==
  ASSUME TransactionsInv, NEW w \in Workers, NEW t \in Transactions,
         NEW D \in SUBSET Documents, Upload(w, t, D)
  PROVE  TransactionsInv'
<1> DEFINE h == [pc |-> "file", trx |-> t, doc |-> Nil, step |-> trx[t].step,
                 docs |-> D, pickup |-> FALSE]
<1>1. TypeOK /\ RowsOK BY DEF TransactionsInv
<1>2. /\ Exists(t) /\ D \subseteq Fresh /\ Call(w, h)
      /\ UNCHANGED <<kyc, trx, doc, pickup, trail, word, covered>>
  BY DEF Upload
<1>3. trx[t].step \in Steps \cup {"NONE"} BY <1>1 DEF TypeOK, NoTransaction
<1>4. h \in Handler BY <1>3 DEF Handler, Pcs
<1>5. req'[w] = h BY <1>1, <1>2 DEF Call, TypeOK
<1>6. Reserved(w)' = D BY <1>5 DEF Reserved
<1>7. \A d \in D : doc[d].trx = Nil BY <1>2 DEF Fresh
<1>9. HandlerOK(w)'
  BY <1>2, <1>5, <1>6, <1>7, TransactionsAssumption DEF HandlerOK, Exists
<1>10. Grows BY <1>2, SameRowsGrow
<1>11. Rows BY <1>2, <1>10, RowsUnchanged
<1>12. TypedRows BY <1>1, <1>2, TypedUnchanged
<1> QED BY <1>2, <1>4, <1>9, <1>10, <1>11, <1>12, CallStep DEF Exists

\* What a decision does to the transactions.
LEMMA DecideFacts ==
  ASSUME TransactionsInv, NEW t \in Transactions, Exists(t),
         NEW s \in Statuses, NEW st \in Steps,
         Decide(t, s, st)
  PROVE  /\ trx' \in [Transactions -> {NoTransaction} \cup [status : Statuses, step : Steps]]
         /\ \A u \in Transactions : Exists(u) <=> trx'[u].status # "NONE"
<1>1. trx \in [Transactions -> {NoTransaction} \cup [status : Statuses, step : Steps]]
  BY DEF TransactionsInv, TypeOK
<1>3. trx' = [trx EXCEPT ![t] = [status |-> s, step |-> st]] BY DEF Decide
<1>4. s # "NONE" BY DEF Statuses
<1>5. \A u \in Transactions : Exists(u) <=> trx'[u].status # "NONE"
  BY <1>1, <1>3, <1>4 DEF Exists
<1> QED BY <1>1, <1>3, <1>5

LEMMA DecisionStep ==
  ASSUME TransactionsInv, NEW w \in Workers, NEW t \in Transactions, Exists(t),
         NEW pc \in Pcs \ {"kyc", "insert", "log", "inline", "file", "step", "idle",
                            "verify_all", "record_approval", "record_document"},
         NEW s \in Statuses, NEW st \in Steps,
         Call(w, [Idle EXCEPT !.pc = pc, !.trx = t]),
         Decide(t, s, st),
         UNCHANGED <<kyc, doc, pickup, trail, word, covered>>
  PROVE  TransactionsInv'
<1> DEFINE h == [Idle EXCEPT !.pc = pc, !.trx = t]
<1>1. h \in Handler /\ h.pc = pc /\ h.trx = t /\ h.docs = {}
  BY DEF Handler, Idle
<1>2. TypeOK BY DEF TransactionsInv
<1>3. /\ trx' \in [Transactions -> {NoTransaction} \cup [status : Statuses, step : Steps]]
      /\ \A u \in Transactions : Exists(u) <=> trx'[u].status # "NONE"
  BY DecideFacts
<1>4. TypedRows BY <1>2, <1>3 DEF TypedRows, TypeOK
<1>5. Grows BY <1>3 DEF Grows
<1>6. Rows BY <1>3, <1>5, RowsUnchanged
<1>7. req'[w] = h BY <1>2 DEF Call, TypeOK
<1>8. Reserved(w)' = {} BY <1>1, <1>7 DEF Reserved
<1>9. HandlerOK(w)'
  BY <1>1, <1>3, <1>7, <1>8, TransactionsAssumption DEF HandlerOK, Exists
<1> QED BY <1>1, <1>3, <1>4, <1>5, <1>6, <1>9, CallStep

LEMMA StaffSteps ==
  ASSUME TransactionsInv, NEW w \in Workers, NEW t \in Transactions,
         \/ RequestInformation(w, t) \/ Review(w, t) \/ Reject(w, t) \/ Settle(w, t)
  PROVE  TransactionsInv'
<1>1. {"COMPLIANCE_REVIEW", "ADMIN_APPROVAL_PENDING", "REJECTED",
       "DISBURSEMENT_IN_PROGRESS"} \subseteq Statuses
      /\ {"ADMIN_REVIEW", "DISBURSEMENT"} \subseteq Steps
  BY DEF Statuses, Steps
<1>2. {"ask_all", "log_review", "record_rejection", "log_settle"} \subseteq
      Pcs \ {"kyc", "insert", "log", "inline", "file", "step", "idle",
             "verify_all", "record_approval", "record_document"}
  BY DEF Pcs
<1>3. Exists(t) => trx[t].step \in Steps
  BY DEF TransactionsInv, TypeOK, Exists, NoTransaction
<1>4. CASE RequestInformation(w, t)
  BY <1>1, <1>2, <1>3, <1>4, DecisionStep DEF RequestInformation, Staff
<1>5. CASE Review(w, t)
  BY <1>1, <1>2, <1>5, DecisionStep DEF Review, Staff
<1>6. CASE Reject(w, t)
  BY <1>1, <1>2, <1>6, DecisionStep DEF Reject, Staff
<1>7. CASE Settle(w, t)
  BY <1>1, <1>2, <1>7, DecisionStep DEF Settle, Staff
<1> QED BY <1>4, <1>5, <1>6, <1>7

LEMMA ApproveStep ==
  ASSUME TransactionsInv, NEW w \in Workers, NEW t \in Transactions, Approve(w, t)
  PROVE  TransactionsInv'
<1> DEFINE h == [Idle EXCEPT !.pc = "verify_all", !.trx = t, !.docs = DocumentsOf(t)]
<1>1. /\ h \in Handler /\ h.pc = "verify_all" /\ h.trx = t
      /\ h.docs = {d \in Documents : doc[d].trx = t}
  BY DEF Handler, Idle, Pcs, DocumentsOf
<1>2. TypeOK BY DEF TransactionsInv
<1>3. Exists(t) /\ Call(w, h) /\ Decide(t, "APPROVED", "ADMIN_REVIEW")
      /\ UNCHANGED <<kyc, doc, pickup, trail, word, covered>>
  BY DEF Approve
<1>4. /\ trx' \in [Transactions -> {NoTransaction} \cup [status : Statuses, step : Steps]]
      /\ \A u \in Transactions : Exists(u) <=> trx'[u].status # "NONE"
  BY <1>3, DecideFacts DEF Statuses, Steps
<1>5. TypedRows BY <1>2, <1>3, <1>4 DEF TypedRows, TypeOK
<1>6. Grows BY <1>3, <1>4 DEF Grows
<1>7. Rows BY <1>3, <1>4, <1>6, RowsUnchanged
<1>8. req'[w] = h BY <1>2, <1>3 DEF Call, TypeOK
<1>9. Reserved(w)' = {} BY <1>1, <1>8 DEF Reserved
<1>10. HandlerOK(w)'
  BY <1>1, <1>3, <1>4, <1>8, <1>9, TransactionsAssumption DEF HandlerOK, Exists
<1> QED BY <1>1, <1>3, <1>4, <1>5, <1>6, <1>7, <1>10, CallStep

LEMMA DisburseStep ==
  ASSUME TransactionsInv, NEW w \in Workers, NEW t \in Transactions, Disburse(w, t)
  PROVE  TransactionsInv'
<1> DEFINE h == [Idle EXCEPT !.pc = "disburse", !.trx = t]
<1>1. h \in Handler /\ h.pc = "disburse" /\ h.trx = t /\ h.docs = {}
  BY DEF Handler, Idle, Pcs
<1>2. TypeOK BY DEF TransactionsInv
<1>3. Exists(t) /\ Call(w, h)
      /\ UNCHANGED <<kyc, trx, doc, pickup, trail, word, covered>>
  BY DEF Disburse, Exists
<1>4. req'[w] = h BY <1>2, <1>3 DEF Call, TypeOK
<1>5. Reserved(w)' = {} BY <1>1, <1>4 DEF Reserved
<1>6. HandlerOK(w)'
  BY <1>1, <1>3, <1>4, <1>5, TransactionsAssumption DEF HandlerOK, Exists
<1>7. Grows BY <1>3, SameRowsGrow
<1>8. Rows BY <1>3, <1>7, RowsUnchanged
<1>9. TypedRows BY <1>2, <1>3, TypedUnchanged
<1> QED BY <1>1, <1>3, <1>6, <1>7, <1>8, <1>9, CallStep DEF Exists

\* What is said of a document: it keeps its transaction and waits no more.
LEMMA SayFacts ==
  ASSUME TransactionsInv, NEW d \in Documents, NEW s \in Verdicts \ {"PENDING"},
         SayOf(d, s), UNCHANGED <<trx, covered>>
  PROVE  /\ TypedRows /\ Grows /\ Rows
         /\ \A e \in Documents : doc'[e].trx = doc[e].trx
<1>1. TypeOK /\ RowsOK /\ WordStands /\ ApprovalCovers BY DEF TransactionsInv
<1>2. doc[d].trx # Nil /\ doc[d] \in [trx : Transactions, status : Verdicts]
  BY <1>1 DEF SayOf, TypeOK, NoDocument
<1>3. /\ doc' = [doc EXCEPT ![d] = [doc[d] EXCEPT !.status = s]]
      /\ word' = [word EXCEPT ![d] = s]
  BY <1>1 DEF SayOf, TypeOK
<1>4. [doc[d] EXCEPT !.status = s] = [trx |-> doc[d].trx, status |-> s] BY <1>2
<1>5. doc'[d].trx = doc[d].trx /\ doc'[d].status = s /\ word'[d] = s
  BY <1>1, <1>3, <1>4 DEF TypeOK
<1>6. \A e \in Documents \ {d} : doc'[e] = doc[e] /\ word'[e] = word[e]
  BY <1>1, <1>3 DEF TypeOK
<1>7. TypedRows BY <1>1, <1>2, <1>3, <1>4 DEF TypedRows, TypeOK
<1>8. Grows BY <1>5, <1>6 DEF Grows, Exists
<1>9. RowsOK'
  <2>1. \A u \in Transactions : Exists(u)' = Exists(u) BY DEF Exists
  <2>2. \A e \in Documents : doc[e].trx # Nil => doc[e].trx \in Transactions
    BY <1>1 DEF TypeOK, NoDocument
  <2> QED BY <1>1, <1>2, <1>5, <1>6, <2>1, <2>2 DEF RowsOK, TypeOK, Exists
<1>10. WordStands' BY <1>1, <1>5, <1>6 DEF WordStands
<1>11. ApprovalCovers'
  BY <1>1, <1>5, <1>6 DEF ApprovalCovers, TypeOK
<1> QED BY <1>5, <1>6, <1>7, <1>8, <1>9, <1>10, <1>11 DEF Rows

LEMMA DocumentSteps ==
  ASSUME TransactionsInv, NEW w \in Workers, NEW d \in Documents,
         RejectDocument(w, d) \/ MoreInfoOnDocument(w, d)
  PROVE  TransactionsInv'
<1> DEFINE h == [Idle EXCEPT !.pc = "record_document", !.trx = doc[d].trx, !.doc = d]
<1>1. TypeOK /\ RowsOK BY DEF TransactionsInv
<1>2. PICK s \in {"FAILED", "REQUIRES_MANUAL_REVIEW"} :
        /\ SayOf(d, s) /\ Call(w, h)
        /\ UNCHANGED <<kyc, trx, pickup, trail, covered>>
  <2>1. CASE RejectDocument(w, d) BY <2>1 DEF RejectDocument
  <2>2. CASE MoreInfoOnDocument(w, d) BY <2>2 DEF MoreInfoOnDocument
  <2> QED BY <2>1, <2>2
<1>3. s \in Verdicts \ {"PENDING"} BY <1>2 DEF Verdicts
<1>4. /\ TypedRows /\ Grows /\ Rows
      /\ \A e \in Documents : doc'[e].trx = doc[e].trx
  BY <1>2, <1>3, SayFacts
<1>5. doc[d].trx \in Transactions BY <1>1, <1>2 DEF SayOf, TypeOK, NoDocument
<1>6. h \in Handler /\ h.pc = "record_document" /\ h.trx = doc[d].trx
      /\ h.docs = {} /\ h.doc = d
  BY <1>5 DEF Handler, Idle, Pcs
<1>7. req'[w] = h BY <1>1, <1>2 DEF Call, TypeOK
<1>8. Reserved(w)' = {} BY <1>6, <1>7 DEF Reserved
<1>9. Exists(doc[d].trx)
  BY <1>1, <1>2, <1>5 DEF RowsOK, SayOf
<1>10. HandlerOK(w)'
  BY <1>2, <1>5, <1>6, <1>7, <1>8, <1>9, TransactionsAssumption DEF HandlerOK, Exists
<1> QED BY <1>2, <1>4, <1>6, <1>9, <1>10, CallStep DEF Exists

-----------------------------------------------------------------------------
(* The statements of a request that write a transaction or a document.     *)

\* A handler that writes and goes on to a pc that promises little, or returns.
LEMMA WriteStep ==
  ASSUME TransactionsInv, NEW w \in Workers, NEW h \in Handler,
         req' = [req EXCEPT ![w] = h],
         UNCHANGED <<kyc, pickup, calls>>,
         trail' \in [Transactions -> SUBSET Entries],
         covered' \in [Transactions -> SUBSET Documents],
         TypedRows, Grows, Rows,
         \A t \in Transactions : ~Exists(t) /\ t # req[w].trx => trx'[t].status = "NONE",
         \A d \in Documents \ Reserved(w) : doc[d].trx = Nil => doc'[d].trx = Nil,
         h.trx = Nil \/ h.trx = req[w].trx,
         h.docs \subseteq Reserved(w) \/ h.pc \notin {"kyc", "insert", "log", "inline", "file"},
         HandlerOK(w)'
  PROVE  TransactionsInv'
<1>1. TypeOK BY DEF TransactionsInv
<1>2. req'[w] = h BY <1>1 DEF TypeOK
<1>3. TypeOK' BY <1>1, <1>2 DEF TypeOK, TypedRows
<1>4. Reserved(w)' \subseteq Reserved(w) \cup Fresh BY <1>2 DEF Reserved
<1>5. (\A v \in Workers : HandlerOK(v)') /\ Apart'
  BY <1>2, <1>3, <1>4, HandlerStep
<1> QED BY <1>3, <1>5 DEF TransactionsInv, Rows

LEMMA IdleOK ==
  ASSUME NEW w \in Workers, req'[w] = Idle
  PROVE  HandlerOK(w)'
BY TransactionsAssumption DEF HandlerOK, Idle, Reserved, Exists

LEMMA InsertStep ==
  ASSUME TransactionsInv, NEW w \in Workers, InsertTransaction(w)
  PROVE  TransactionsInv'
<1> DEFINE h == [req[w] EXCEPT !.pc = "log"]
<1> DEFINE t == req[w].trx
<1>1. TypeOK /\ HandlerOK(w) /\ RowsOK /\ WordStands /\ ApprovalCovers
  BY DEF TransactionsInv
<1>2. req[w] \in Handler /\ req[w].pc = "insert" /\ t \in Transactions
  BY <1>1, HandlerFacts, BusyFacts DEF InsertTransaction, At
<1>3. /\ ~Exists(t) /\ req[w].step \in {"PERSONAL_INFO", "DOCUMENT_UPLOAD"}
      /\ \A v \in Workers \ {w} : req[v].trx # t
      /\ \A d \in Reserved(w) : doc[d].trx = Nil
  BY <1>1, <1>2 DEF HandlerOK
<1>4. /\ h \in Handler /\ h.pc = "log" /\ h.trx = t /\ h.docs = req[w].docs
      /\ h.step = req[w].step
  BY <1>2 DEF Handler, Pcs
<1>5. req' = [req EXCEPT ![w] = h] /\ req'[w] = h
  BY <1>1 DEF InsertTransaction, Goto, TypeOK
<1>6. PICK s \in {"AWAITING_VERIFICATION", "DRAFT"} :
        trx' = [trx EXCEPT ![t] = [status |-> s, step |-> req[w].step]]
  BY DEF InsertTransaction
<1>7. UNCHANGED <<kyc, doc, pickup, trail, calls, word, covered>>
  BY DEF InsertTransaction
<1>8. /\ trx'[t].status # "NONE" /\ trx'[t].step = req[w].step
      /\ \A u \in Transactions \ {t} : trx'[u] = trx[u]
  BY <1>1, <1>2, <1>6 DEF TypeOK
<1>9. [status |-> s, step |-> req[w].step] \in [status : Statuses, step : Steps]
  BY <1>3 DEF Statuses, Steps
<1>10. TypedRows BY <1>1, <1>2, <1>6, <1>7, <1>9 DEF TypedRows, TypeOK
<1>11. Grows BY <1>7, <1>8 DEF Grows, Exists
<1>12. Rows
  <2>3. \A d \in Documents : doc[d].trx # Nil => trx'[doc[d].trx].status # "NONE"
    <3>1. \A d \in Documents : doc[d].trx # Nil => doc[d].trx \in Transactions
      BY <1>1 DEF TypeOK, NoDocument
    <3> QED BY <1>1, <1>11, <3>1 DEF RowsOK, Grows
  <2>4. RowsOK' BY <1>1, <1>7, <2>3 DEF RowsOK, Exists
  <2>5. WordStands' /\ ApprovalCovers' BY <1>1, <1>7 DEF WordStands, ApprovalCovers
  <2> QED BY <2>4, <2>5 DEF Rows
<1>13. Reserved(w)' = Reserved(w) BY <1>2, <1>4, <1>5 DEF Reserved
<1>14. HandlerOK(w)'
  <2>1. /\ req'[w].pc = "log" /\ req'[w].trx = t /\ req'[w].step = req[w].step
        /\ t # Nil
    BY <1>2, <1>4, <1>5, TransactionsAssumption
  <2>2. \A d \in Reserved(w)' : doc'[d].trx = Nil BY <1>3, <1>7, <1>13
  <2> QED BY <1>3, <1>8, <2>1, <2>2 DEF HandlerOK, Exists
<1>15. h.docs \subseteq Reserved(w) BY <1>2, <1>4 DEF Reserved
<1>17. \A u \in Transactions : ~Exists(u) /\ u # t => trx'[u].status = "NONE"
  BY <1>8 DEF Exists
<1>18. /\ trail' \in [Transactions -> SUBSET Entries]
       /\ covered' \in [Transactions -> SUBSET Documents]
  BY <1>1, <1>7 DEF TypeOK
<1> QED BY <1>2, <1>4, <1>5, <1>7, <1>10, <1>11, <1>12, <1>14, <1>15, <1>17,
           <1>18, WriteStep

\* New documents: the handler had reserved them, so nothing was said of them
\* and no approval covers them.
LEMMA NewDocuments ==
  ASSUME TransactionsInv, NEW w \in Workers, NEW D \in SUBSET Reserved(w),
         req[w].pc \in {"inline", "file"},
         doc' = [d \in Documents |->
           IF d \in D THEN [trx |-> req[w].trx, status |-> "PENDING"] ELSE doc[d]],
         UNCHANGED <<trx, word, covered>>
  PROVE  TypedRows /\ Grows /\ Rows
<1>1. TypeOK /\ HandlerOK(w) /\ RowsOK /\ WordStands /\ ApprovalCovers
  BY DEF TransactionsInv
<1>2. /\ req[w].trx \in Transactions /\ Exists(req[w].trx) /\ req[w].trx # Nil
      /\ \A d \in Reserved(w) : doc[d].trx = Nil
  BY <1>1, BusyFacts, TransactionsAssumption DEF HandlerOK
<1>3. D \subseteq Documents BY <1>1, HandlerFacts
<1>4. \A d \in D : word[d] = "NONE" BY <1>1, <1>2, <1>3 DEF RowsOK
<1>5. \A t \in Transactions : covered[t] \cap D = {}
  <2> SUFFICES ASSUME NEW t \in Transactions, NEW d \in covered[t], d \in D
               PROVE  FALSE
    OBVIOUS
  <2>1. doc[d].trx = t BY <1>1 DEF ApprovalCovers
  <2> QED BY <1>2, <2>1, TransactionsAssumption
<1>6. [trx |-> req[w].trx, status |-> "PENDING"] \in [trx : Transactions, status : Verdicts]
  BY <1>2 DEF Verdicts
<1>7. TypedRows
  <2>1. \A d \in Documents :
          doc'[d] \in {NoDocument} \cup [trx : Transactions, status : Verdicts]
    BY <1>1, <1>6 DEF TypeOK
  <2> QED BY <1>1, <2>1 DEF TypedRows, TypeOK
<1>8. Grows BY <1>2 DEF Grows, Exists
<1>9. RowsOK' BY <1>1, <1>2 DEF RowsOK, Exists
<1>10. WordStands' BY <1>1, <1>4 DEF WordStands
<1>11. ApprovalCovers' BY <1>1, <1>5 DEF ApprovalCovers, TypeOK
<1> QED BY <1>7, <1>8, <1>9, <1>10, <1>11 DEF Rows

LEMMA DocumentFacts ==
  ASSUME TransactionsInv
  PROVE  /\ trail \in [Transactions -> SUBSET Entries]
         /\ covered \in [Transactions -> SUBSET Documents]
BY DEF TransactionsInv, TypeOK

LEMMA InlineStep ==
  ASSUME TransactionsInv, NEW w \in Workers, InlineDocuments(w)
  PROVE  TransactionsInv'
<1>1. TypeOK /\ HandlerOK(w) BY DEF TransactionsInv
<1>2. req[w] \in Handler /\ req[w].pc = "inline"
  BY <1>1, HandlerFacts DEF InlineDocuments, At
<1>3. Reserved(w) = req[w].docs BY <1>2 DEF Reserved
<1>4. UNCHANGED <<kyc, trx, pickup, trail, calls, word, covered>>
  BY DEF InlineDocuments
<1>5. doc' = [d \in Documents |->
        IF d \in Reserved(w) THEN [trx |-> req[w].trx, status |-> "PENDING"] ELSE doc[d]]
  BY <1>3 DEF InlineDocuments
<1>6. TypedRows /\ Grows /\ Rows BY <1>2, <1>4, <1>5, NewDocuments
<1>7. \A d \in Documents \ Reserved(w) : doc[d].trx = Nil => doc'[d].trx = Nil
  BY <1>5
<1>8. CASE Return(w)
  <2>1. req' = [req EXCEPT ![w] = Idle] /\ req'[w] = Idle BY <1>1, <1>8 DEF Return, TypeOK
  <2>2. HandlerOK(w)' BY <2>1, IdleOK
  <2> QED BY <1>4, <1>6, <1>7, <2>1, <2>2, IdleHandler, DocumentFacts, WriteStep DEF Exists
<1>9. CASE Goto(w, "pickup")
  <2>1. PICK h \in Handler :
          h.pc = "pickup" /\ h = [req[w] EXCEPT !.pc = h.pc] /\ req' = [req EXCEPT ![w] = h]
    BY <1>1, <1>9, GotoFacts DEF Pcs
  <2>2. req'[w] = h /\ h.trx = req[w].trx BY <1>1, <1>2, <2>1 DEF TypeOK, Handler
  <2>3. Reserved(w)' = {} BY <2>1, <2>2 DEF Reserved
  <2>4. req[w].trx # Nil /\ trx'[req[w].trx].status # "NONE"
    BY <1>1, <1>2, <1>4 DEF HandlerOK, Exists
  <2>5. HandlerOK(w)' BY <2>1, <2>2, <2>3, <2>4 DEF HandlerOK, Exists
  <2> QED BY <1>4, <1>6, <1>7, <2>1, <2>2, <2>5, DocumentFacts, WriteStep DEF Exists
<1> QED BY <1>8, <1>9 DEF InlineDocuments

LEMMA StoreFileStep ==
  ASSUME TransactionsInv, NEW w \in Workers, NEW d \in Documents, StoreFile(w, d)
  PROVE  TransactionsInv'
<1>1. TypeOK /\ HandlerOK(w) BY DEF TransactionsInv
<1>2. req[w] \in Handler /\ req[w].pc = "file" /\ d \in req[w].docs
  BY <1>1, HandlerFacts DEF StoreFile, At
<1>3. Reserved(w) = req[w].docs BY <1>2 DEF Reserved
<1>4. UNCHANGED <<kyc, trx, pickup, trail, calls, word, covered>>
  BY DEF StoreFile
<1>5. doc' = [e \in Documents |->
        IF e \in {d} THEN [trx |-> req[w].trx, status |-> "PENDING"] ELSE doc[e]]
  BY <1>1 DEF StoreFile, TypeOK
<1>6. TypedRows /\ Grows /\ Rows BY <1>2, <1>3, <1>4, <1>5, NewDocuments
<1>7. \A e \in Documents \ Reserved(w) : doc[e].trx = Nil => doc'[e].trx = Nil
  BY <1>2, <1>3, <1>5
<1> DEFINE h1 == [req[w] EXCEPT !.docs = req[w].docs \ {d}]
<1> DEFINE h2 == [req[w] EXCEPT !.pc = "step", !.docs = {}]
<1>8. /\ h1 \in Handler /\ h1.pc = "file" /\ h1.trx = req[w].trx /\ h1.step = req[w].step
      /\ h1.docs = req[w].docs \ {d}
      /\ h2 \in Handler /\ h2.pc = "step" /\ h2.trx = req[w].trx /\ h2.step = req[w].step
  BY <1>2 DEF Handler, Pcs
<1>9. /\ req[w].trx # Nil /\ trx'[req[w].trx].status # "NONE"
      /\ \A e \in Reserved(w) : doc[e].trx = Nil
  BY <1>1, <1>2, <1>4 DEF HandlerOK, Exists
<1>10. CASE req' = [req EXCEPT ![w] = h1]
  <2>1. req'[w] = h1 BY <1>1, <1>10 DEF TypeOK
  <2>2. Reserved(w)' = req[w].docs \ {d} BY <1>8, <2>1 DEF Reserved
  <2>3. \A e \in Reserved(w)' : doc'[e].trx = Nil
    BY <1>1, <1>3, <1>5, <1>9, <2>2, HandlerFacts
  <2>4. HandlerOK(w)' BY <1>8, <1>9, <2>1, <2>3 DEF HandlerOK, Exists
  <2> QED BY <1>3, <1>4, <1>6, <1>7, <1>8, <1>10, <2>4, DocumentFacts, WriteStep DEF Exists
<1>11. CASE req' = [req EXCEPT ![w] = h2] /\ req[w].step = "PERSONAL_INFO"
  <2>1. req'[w] = h2 BY <1>1, <1>11 DEF TypeOK
  <2>2. Reserved(w)' = {} BY <1>8, <2>1 DEF Reserved
  <2>3. HandlerOK(w)' BY <1>8, <1>9, <1>11, <2>1, <2>2 DEF HandlerOK, Exists
  <2> QED BY <1>4, <1>6, <1>7, <1>8, <1>11, <2>3, DocumentFacts, WriteStep DEF Exists
<1>12. CASE req' = [req EXCEPT ![w] = Idle]
  <2>1. req'[w] = Idle BY <1>1, <1>12 DEF TypeOK
  <2>2. HandlerOK(w)' BY <2>1, IdleOK
  <2> QED BY <1>4, <1>6, <1>7, <1>12, <2>2, IdleHandler, DocumentFacts, WriteStep DEF Exists
<1>13. \/ req' = [req EXCEPT ![w] = h1]
       \/ req' = [req EXCEPT ![w] = h2] /\ req[w].step = "PERSONAL_INFO"
       \/ req' = [req EXCEPT ![w] = Idle]
  BY DEF StoreFile
<1> QED BY <1>10, <1>11, <1>12, <1>13

LEMMA MoveStepStep ==
  ASSUME TransactionsInv, NEW w \in Workers, MoveStep(w)
  PROVE  TransactionsInv'
<1> DEFINE t == req[w].trx
<1>1. TypeOK /\ HandlerOK(w) /\ RowsOK BY DEF TransactionsInv
<1>2. req[w] \in Handler /\ req[w].pc = "step" /\ t \in Transactions
  BY <1>1, HandlerFacts, BusyFacts DEF MoveStep, At
<1>3. UNCHANGED <<kyc, doc, pickup, trail, calls, word, covered>>
  BY DEF MoveStep
<1>4. Exists(t) /\ t # Nil BY <1>1, <1>2 DEF HandlerOK
<1>5. trx[t] \in [status : Statuses, step : Steps]
  BY <1>1, <1>2, <1>4 DEF TypeOK, Exists, NoTransaction
<1>6. trx' = [trx EXCEPT ![t] = [status |-> trx[t].status, step |-> "DOCUMENT_UPLOAD"]]
  <2>1. [trx[t] EXCEPT !.step = "DOCUMENT_UPLOAD"] =
        [status |-> trx[t].status, step |-> "DOCUMENT_UPLOAD"]
    BY <1>5
  <2>2. trx' = [trx EXCEPT ![t] = [trx[t] EXCEPT !.step = "DOCUMENT_UPLOAD"]]
    BY <1>1, <1>2 DEF MoveStep, TypeOK
  <2> QED BY <2>1, <2>2
<1>7. Decide(t, trx[t].status, "DOCUMENT_UPLOAD") BY <1>6 DEF Decide
<1>8. /\ trx' \in [Transactions -> {NoTransaction} \cup [status : Statuses, step : Steps]]
      /\ \A u \in Transactions : Exists(u) <=> trx'[u].status # "NONE"
  <2>1. trx[t].status \in Statuses /\ "DOCUMENT_UPLOAD" \in Steps BY <1>5 DEF Steps
  <2> QED BY <1>2, <1>4, <1>7, <2>1, DecideFacts
<1>9. TypedRows BY <1>1, <1>3, <1>8 DEF TypedRows, TypeOK
<1>10. Grows BY <1>3, <1>8 DEF Grows
<1>11. Rows BY <1>3, <1>8, <1>10, RowsUnchanged
<1>12. PICK h \in Handler :
         h.pc = "log_upload" /\ h = [req[w] EXCEPT !.pc = h.pc] /\ req' = [req EXCEPT ![w] = h]
  <2>1. "log_upload" \in Pcs BY DEF Pcs
  <2> QED BY <1>1, <2>1, GotoFacts DEF MoveStep
<1>13. req'[w] = h /\ h.trx = t BY <1>1, <1>2, <1>12 DEF TypeOK, Handler
<1>14. Reserved(w)' = {} BY <1>12, <1>13 DEF Reserved
<1>15. HandlerOK(w)' BY <1>2, <1>4, <1>8, <1>12, <1>13, <1>14 DEF HandlerOK, Exists
<1> QED BY <1>2, <1>3, <1>8, <1>9, <1>10, <1>11, <1>12, <1>13, <1>15, DocumentFacts, WriteStep

\* A statement that writes verdicts: a document keeps its transaction, and one
\* that was decided about, one that staff spoke of included, stays so.
LEMMA VerdictStep ==
  ASSUME TransactionsInv, NEW w \in Workers, NEW h \in Handler,
         req' = [req EXCEPT ![w] = h],
         NEW D \in SUBSET Documents, NEW s \in Verdicts \ {"PENDING"},
         D \subseteq DocumentsOf(req[w].trx),
         s = "VERIFIED" => \A d \in D : doc[d].status = "PENDING",
         doc' = [d \in Documents |->
           IF d \in D THEN [doc[d] EXCEPT !.status = s] ELSE doc[d]],
         UNCHANGED <<kyc, trx, pickup, trail, calls, word, covered>>,
         s # "VERIFIED" => s = "REQUIRES_MANUAL_REVIEW",
         req[w].pc # "idle",
         h = Idle \/ /\ h.pc = "record_approval" /\ h.trx = req[w].trx
                     /\ h.docs \subseteq DocumentsOf(h.trx)
                     /\ \A d \in h.docs : doc'[d].status # "PENDING",
         Exists(req[w].trx)
  PROVE  TransactionsInv'
<1>1. TypeOK /\ HandlerOK(w) /\ RowsOK /\ WordStands /\ ApprovalCovers
  BY DEF TransactionsInv
<1>2. req'[w] = h /\ req[w].trx \in Transactions BY <1>1, BusyFacts DEF TypeOK
<1>3. \A d \in D : doc[d].trx = req[w].trx /\ req[w].trx # Nil
                  /\ doc[d] \in [trx : Transactions, status : Verdicts]
  BY <1>1, <1>2, TransactionsAssumption DEF DocumentsOf, TypeOK, NoDocument
<1>4. \A d \in D : [doc[d] EXCEPT !.status = s] = [trx |-> doc[d].trx, status |-> s]
  BY <1>3
<1>5. doc' = [d \in Documents |->
        IF d \in D THEN [trx |-> doc[d].trx, status |-> s] ELSE doc[d]]
  BY <1>4
<1>6. \A d \in Documents : doc'[d].trx = doc[d].trx BY <1>5
<1>7. TypedRows
  <2>1. \A d \in Documents :
          doc'[d] \in {NoDocument} \cup [trx : Transactions, status : Verdicts]
    <3> SUFFICES ASSUME NEW d \in Documents
                 PROVE  doc'[d] \in {NoDocument} \cup [trx : Transactions, status : Verdicts]
      OBVIOUS
    <3>1. CASE d \in D BY <1>3, <1>5, <3>1
    <3>2. CASE d \notin D BY <1>1, <1>5, <3>2 DEF TypeOK
    <3> QED BY <3>1, <3>2
  <2> QED BY <1>1, <1>5, <2>1 DEF TypedRows, TypeOK
<1>8. Grows BY <1>5 DEF Grows, Exists
<1>9. RowsOK' BY <1>1, <1>6 DEF RowsOK, Exists
<1>10. WordStands' BY <1>1, <1>5 DEF WordStands
<1>11. ApprovalCovers' BY <1>1, <1>5 DEF ApprovalCovers, TypeOK
<1>12. Reserved(w)' = {} BY <1>2, IdleHandler DEF Reserved
<1>13. HandlerOK(w)'
  <2>1. CASE h = Idle BY <1>2, <2>1, IdleOK
  <2>2. CASE h # Idle
    <3>1. /\ h.pc = "record_approval" /\ h.trx = req[w].trx
          /\ \A d \in h.docs : d \in Documents /\ doc[d].trx = h.trx
          /\ \A d \in h.docs : doc'[d].status # "PENDING"
      BY <2>2 DEF DocumentsOf
    <3>2. h.trx # Nil BY <1>2, <3>1, TransactionsAssumption
    <3> QED BY <1>2, <1>6, <1>12, <3>1, <3>2 DEF HandlerOK, Exists
  <2> QED BY <2>1, <2>2
<1>14. h.pc \notin {"kyc", "insert", "log", "inline", "file"}
       /\ (h.trx = Nil \/ h.trx = req[w].trx)
  BY IdleHandler
<1> QED BY <1>2, <1>6, <1>7, <1>8, <1>9, <1>10, <1>11, <1>13, <1>14, DocumentFacts,
           WriteStep DEF Rows, Exists

LEMMA AskStep ==
  ASSUME TransactionsInv, NEW w \in Workers, AskAboutAll(w)
  PROVE  TransactionsInv'
<1> DEFINE D == DocumentsOf(req[w].trx)
<1>1. HandlerOK(w) /\ req[w].pc = "ask_all" /\ Exists(req[w].trx)
  BY DEF TransactionsInv, AskAboutAll, At, HandlerOK
<1>2. D \in SUBSET Documents BY DEF DocumentsOf
<1>3. doc' = [d \in Documents |->
        IF d \in D THEN [doc[d] EXCEPT !.status = "REQUIRES_MANUAL_REVIEW"] ELSE doc[d]]
  BY DEF AskAboutAll, DocumentsOf
<1>4. req' = [req EXCEPT ![w] = Idle]
      /\ UNCHANGED <<kyc, trx, pickup, trail, calls, word, covered>>
  BY DEF AskAboutAll, Return
<1> QED BY <1>1, <1>2, <1>3, <1>4, IdleHandler, VerdictStep DEF Verdicts

LEMMA VerifyStep ==
  ASSUME TransactionsInv, NEW w \in Workers, VerifyPending(w)
  PROVE  TransactionsInv'
<1> DEFINE D == {d \in Documents : doc[d].trx = req[w].trx /\ doc[d].status = "PENDING"}
<1>1. /\ TypeOK /\ HandlerOK(w) /\ req[w].pc = "verify_all" /\ Exists(req[w].trx)
      /\ \A d \in req[w].docs : doc[d].trx = req[w].trx
  BY DEF TransactionsInv, VerifyPending, At, HandlerOK
<1>2. D \in SUBSET Documents /\ D \subseteq DocumentsOf(req[w].trx) BY DEF DocumentsOf
<1>3. doc' = [d \in Documents |->
        IF d \in D THEN [doc[d] EXCEPT !.status = "VERIFIED"] ELSE doc[d]]
  BY DEF VerifyPending
<1>4. UNCHANGED <<kyc, trx, pickup, trail, calls, word, covered>>
  BY DEF VerifyPending
<1>5. PICK h \in Handler :
        h.pc = "record_approval" /\ h = [req[w] EXCEPT !.pc = h.pc]
        /\ req' = [req EXCEPT ![w] = h]
  <2>1. "record_approval" \in Pcs BY DEF Pcs
  <2> QED BY <1>1, <2>1, GotoFacts DEF VerifyPending
<1>6. h.trx = req[w].trx /\ h.docs = req[w].docs /\ h.docs \subseteq Documents
  BY <1>1, <1>5, HandlerFacts DEF Handler
<1>7. h.docs \subseteq DocumentsOf(h.trx) BY <1>1, <1>6 DEF DocumentsOf
<1>8. \A d \in h.docs : doc'[d].status # "PENDING"
  <2> SUFFICES ASSUME NEW d \in h.docs PROVE doc'[d].status # "PENDING"
    OBVIOUS
  <2>1. d \in Documents /\ doc[d].trx = req[w].trx /\ req[w].trx # Nil
    BY <1>1, <1>6, BusyFacts, TransactionsAssumption
  <2>2. doc[d] \in [trx : Transactions, status : Verdicts]
    BY <1>1, <2>1 DEF TypeOK, NoDocument
  <2>3. CASE d \in D
    <3>1. [doc[d] EXCEPT !.status = "VERIFIED"].status = "VERIFIED" BY <2>2
    <3> QED BY <1>3, <2>1, <2>3, <3>1
  <2>4. CASE d \notin D
    <3>1. ~(d \in Documents /\ doc[d].trx = req[w].trx /\ doc[d].status = "PENDING")
      BY <2>4
    <3>2. doc'[d] = doc[d] BY <1>3, <2>1, <2>4
    <3> QED BY <2>1, <3>1, <3>2
  <2> QED BY <2>3, <2>4
<1>9. "VERIFIED" \in Verdicts \ {"PENDING"} BY DEF Verdicts
<1>10. \A d \in D : doc[d].status = "PENDING" OBVIOUS
<1>11. req' = [req EXCEPT ![w] = h] /\ req[w].pc # "idle" BY <1>1, <1>5
<1>12. h.pc = "record_approval" /\ h.trx = req[w].trx BY <1>5, <1>6
<1>13. Exists(req[w].trx) BY <1>1
<1> HIDE DEF D
<1> QED BY <1>2, <1>3, <1>4, <1>7, <1>8, <1>9, <1>10, <1>11, <1>12, <1>13, VerdictStep

LEMMA RecordApprovalStep ==
  ASSUME TransactionsInv, NEW w \in Workers, RecordApproval(w)
  PROVE  TransactionsInv'
<1> DEFINE t == req[w].trx
<1>1. TypeOK /\ HandlerOK(w) /\ RowsOK /\ WordStands /\ ApprovalCovers
  BY DEF TransactionsInv
<1>2. /\ req[w].pc = "record_approval" /\ t \in Transactions /\ req[w].docs \subseteq Documents
      /\ \A d \in req[w].docs : doc[d].trx = t /\ doc[d].status # "PENDING"
  BY <1>1, BusyFacts, HandlerFacts DEF RecordApproval, At, HandlerOK
<1>3. /\ covered' = [covered EXCEPT ![t] = covered[t] \cup req[w].docs]
      /\ UNCHANGED <<kyc, trx, doc, pickup, calls, word>>
      /\ req' = [req EXCEPT ![w] = Idle]
  BY DEF RecordApproval, Return
<1>4. trail' \in [Transactions -> SUBSET Entries]
  BY <1>1, <1>2, RecordFacts, EntryFacts DEF RecordApproval
<1>5. covered' \in [Transactions -> SUBSET Documents] BY <1>1, <1>2, <1>3 DEF TypeOK
<1>6. TypedRows BY <1>1, <1>3, TypedUnchanged
<1>7. Grows BY <1>3, SameRowsGrow
<1>8. ApprovalCovers' BY <1>1, <1>2, <1>3 DEF ApprovalCovers, TypeOK
<1>9. RowsOK' /\ WordStands' BY <1>1, <1>3 DEF RowsOK, WordStands, Exists
<1>10. req'[w] = Idle BY <1>1, <1>3 DEF TypeOK
<1>11. HandlerOK(w)' BY <1>10, IdleOK
<1> QED BY <1>1, <1>3, <1>4, <1>5, <1>6, <1>7, <1>8, <1>9, <1>11, IdleHandler,
           DocumentFacts, WriteStep DEF Rows, Exists

LEMMA RecordDisbursementStep ==
  ASSUME TransactionsInv, NEW w \in Workers, RecordDisbursement(w)
  PROVE  TransactionsInv'
<1> DEFINE t == req[w].trx
<1>1. TypeOK /\ HandlerOK(w) BY DEF TransactionsInv
<1>2. t \in Transactions /\ Exists(t)
  BY <1>1, BusyFacts DEF RecordDisbursement, At, HandlerOK
<1>3. /\ Decide(t, "DISBURSEMENT_IN_PROGRESS", "DISBURSEMENT")
      /\ UNCHANGED <<kyc, doc, pickup, calls, word, covered>>
      /\ req' = [req EXCEPT ![w] = Idle]
  BY DEF RecordDisbursement, Return
<1>4. trail' \in [Transactions -> SUBSET Entries]
  BY <1>1, <1>2, RecordFacts, EntryFacts DEF RecordDisbursement
<1>5. /\ trx' \in [Transactions -> {NoTransaction} \cup [status : Statuses, step : Steps]]
      /\ \A u \in Transactions : Exists(u) <=> trx'[u].status # "NONE"
  <2>1. "DISBURSEMENT_IN_PROGRESS" \in Statuses /\ "DISBURSEMENT" \in Steps
    BY DEF Statuses, Steps
  <2> QED BY <1>2, <1>3, <2>1, DecideFacts
<1>6. TypedRows BY <1>1, <1>3, <1>5 DEF TypedRows, TypeOK
<1>7. Grows BY <1>3, <1>5 DEF Grows
<1>8. Rows BY <1>3, <1>5, <1>7, RowsUnchanged
<1>9. req'[w] = Idle BY <1>1, <1>3 DEF TypeOK
<1>10. HandlerOK(w)' BY <1>9, IdleOK
<1> QED BY <1>3, <1>4, <1>5, <1>6, <1>7, <1>8, <1>10, IdleHandler, DocumentFacts, WriteStep

-----------------------------------------------------------------------------
(* The steps of no handler, and the theorems.                              *)

LEMMA OutsideSteps ==
  ASSUME TransactionsInv,
         \/ \E d \in Documents : ApproveDocument(d)
         \/ \E t \in Transactions : PaymentsWrite(t)
  PROVE  TransactionsInv'
<1>1. TypeOK BY DEF TransactionsInv
<1>2. calls' \in 0..MaxCalls
  BY <1>1, TransactionsAssumption DEF TypeOK, ApproveDocument, PaymentsWrite
<1>3. ASSUME NEW d \in Documents, ApproveDocument(d) PROVE TransactionsInv'
  <2>1. /\ SayOf(d, "VERIFIED")
        /\ UNCHANGED <<kyc, trx, pickup, trail, req, covered>>
    BY <1>3 DEF ApproveDocument
  <2>2. "VERIFIED" \in Verdicts \ {"PENDING"} BY DEF Verdicts
  <2>3. /\ TypedRows /\ Grows /\ Rows
        /\ \A e \in Documents : doc'[e].trx = doc[e].trx
    BY <2>1, <2>2, SayFacts
  <2>4. TypeOK' BY <1>1, <1>2, <2>1, <2>3 DEF TypeOK, TypedRows
  <2>5. (\A v \in Workers : HandlerOK(v)') /\ Apart'
    BY <2>1, <2>3, OutsideStep DEF Exists
  <2> QED BY <2>3, <2>4, <2>5 DEF TransactionsInv, Rows
<1>4. ASSUME NEW t \in Transactions, PaymentsWrite(t) PROVE TransactionsInv'
  <2>1. PICK s \in {<<"AWAITING_DEPOSIT", "DEPOSIT_INFO">>,
               <<"DEPOSIT_PENDING", "DEPOSIT_CONFIRMATION">>,
               <<"DEPOSIT_CONFIRMED", "DEPOSIT_CONFIRMATION">>,
               <<"COMPLETED", trx[t].step>>} : Decide(t, s[1], s[2])
    BY <1>4 DEF PaymentsWrite
  <2>2. Exists(t) /\ UNCHANGED <<kyc, doc, pickup, trail, req, word, covered>>
    BY <1>4 DEF PaymentsWrite
  <2>3. s[1] \in Statuses /\ s[2] \in Steps
    <3>1. trx[t].step \in Steps BY <1>1, <2>2 DEF TypeOK, Exists, NoTransaction
    <3> QED BY <2>1, <3>1 DEF Statuses, Steps
  <2>4. /\ trx' \in [Transactions -> {NoTransaction} \cup [status : Statuses, step : Steps]]
        /\ \A u \in Transactions : Exists(u) <=> trx'[u].status # "NONE"
    BY <2>1, <2>2, <2>3, DecideFacts
  <2>5. Grows BY <2>2, <2>4 DEF Grows
  <2>6. Rows BY <2>2, <2>4, <2>5, RowsUnchanged
  <2>7. TypeOK' BY <1>1, <1>2, <2>2, <2>4 DEF TypeOK
  <2>8. (\A v \in Workers : HandlerOK(v)') /\ Apart' BY <2>2, <2>4, <2>5, OutsideStep
  <2> QED BY <2>6, <2>7, <2>8 DEF TransactionsInv, Rows
<1> QED BY <1>3, <1>4

LEMMA UnchangedStep ==
  ASSUME TransactionsInv, UNCHANGED vars
  PROVE  TransactionsInv'
BY DEF TransactionsInv, vars, TypeOK, HandlerOK, Apart, RowsOK, WordStands,
       ApprovalCovers, Reserved, Exists

LEMMA InitInv ==
  ASSUME Init
  PROVE  TransactionsInv
<1>1. TypeOK
  BY TransactionsAssumption, IdleHandler DEF Init, TypeOK
<1>2. \A w \in Workers : HandlerOK(w)
  BY TransactionsAssumption DEF Init, HandlerOK, Idle, Reserved, Exists
<1>3. Apart BY IdleHandler DEF Init, Apart, Reserved
<1>4. RowsOK /\ WordStands /\ ApprovalCovers
  BY DEF Init, RowsOK, WordStands, ApprovalCovers, NoDocument
<1> QED BY <1>1, <1>2, <1>3, <1>4 DEF TransactionsInv

\* Every step of Next preserves the invariant: one lemma for each action.
LEMMA NextInv ==
  ASSUME TransactionsInv, [Next]_vars
  PROVE  TransactionsInv'
<1>1. ASSUME NEW w \in Workers, NEW t \in Transactions,
             \/ \E b, p \in BOOLEAN, D \in SUBSET Documents : Create(w, t, b, D, p)
             \/ \E D \in SUBSET Documents : Upload(w, t, D)
      PROVE  TransactionsInv'
  BY <1>1, CreateStep, UploadStep
<1>2. ASSUME NEW w \in Workers, NEW t \in Transactions,
             \/ RequestInformation(w, t) \/ Review(w, t) \/ Approve(w, t)
             \/ Reject(w, t) \/ Settle(w, t) \/ Disburse(w, t)
      PROVE  TransactionsInv'
  BY <1>2, StaffSteps, ApproveStep, DisburseStep
<1>3. ASSUME NEW w \in Workers,
             \/ CreateKyc(w) \/ LogCreation(w) \/ CreatePickup(w) \/ LogUpload(w)
             \/ LogReview(w) \/ RecordReview(w) \/ RecordRejection(w)
             \/ LogSettle(w) \/ RecordSettle(w) \/ RecordDocument(w) \/ StepFails(w)
      PROVE  TransactionsInv'
  BY <1>3, RecordSteps
<1>4. ASSUME NEW w \in Workers,
             \/ InsertTransaction(w) \/ InlineDocuments(w) \/ MoveStep(w)
             \/ AskAboutAll(w) \/ VerifyPending(w) \/ RecordApproval(w)
             \/ RecordDisbursement(w)
      PROVE  TransactionsInv'
  BY <1>4, InsertStep, InlineStep, MoveStepStep, AskStep, VerifyStep,
     RecordApprovalStep, RecordDisbursementStep
<1>5. ASSUME NEW w \in Workers, NEW d \in Documents,
             StoreFile(w, d) \/ RejectDocument(w, d) \/ MoreInfoOnDocument(w, d)
      PROVE  TransactionsInv'
  BY <1>5, StoreFileStep, DocumentSteps
<1>6. CASE Rest BY <1>6, UnchangedStep DEF Rest
<1>7. CASE UNCHANGED vars BY <1>7, UnchangedStep
<1> QED BY <1>1, <1>2, <1>3, <1>4, <1>5, <1>6, <1>7, OutsideSteps DEF Next, Work

\* Whatever the interleaving and wherever a request fails, what staff said of a
\* document stands, and a recorded approval left no document of it waiting.
THEOREM TransactionsInvariant == Spec => []TransactionsInv
<1>1. Init => TransactionsInv BY InitInv
<1>2. TransactionsInv /\ [Next]_vars => TransactionsInv' BY NextInv
<1> QED BY <1>1, <1>2, PTL DEF Spec

\* The staff's word about one document against the sweep of an approval.
THEOREM WordStandsAlways == Spec => []WordStands
<1>1. TransactionsInv => WordStands BY DEF TransactionsInv
<1> QED BY <1>1, TransactionsInvariant, PTL

\* What an approval in the history was about.
THEOREM ApprovalCoversAlways == Spec => []ApprovalCovers
<1>1. TransactionsInv => ApprovalCovers BY DEF TransactionsInv
<1> QED BY <1>1, TransactionsInvariant, PTL
=============================================================================
