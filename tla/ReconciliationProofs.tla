------------------------ MODULE ReconciliationProofs ------------------------
(***************************************************************************)
(* The safety properties of Reconciliation, for any settlements, amounts,  *)
(* records and handlers.                                                   *)
(***************************************************************************)
EXTENDS Reconciliation, TLAPS

\* A column keeps whole units.
LEMMA NearestInt == ASSUME NEW x \in Int PROVE Nearest(x) \subseteq Int
<1> DEFINE k == x \div Cent
<1>1. k \in Int /\ Cent \in Int BY ReconciliationAssumption
<1> HIDE DEF k
<1>2. Cent * k \in Int /\ Cent * k + Cent \in Int BY <1>1
<1> QED BY <1>2 DEF Nearest, k

\* What is written with an amount, and that it is a verdict on it.
LEMMA FindingFacts ==
  ASSUME NEW s \in Settlements, NEW a \in Int \cup {Nil}, NEW f \in Findings(s, a)
  PROVE  /\ f.status \in {"PENDING", "MATCHED", "VARIANCE"}
         /\ f.variance \in Int \cup {Nil}
         /\ f.status = "PENDING" => f.variance = Nil
         /\ f.status # "PENDING" => ~NoAmount(a) /\ a \in Int
         /\ f.status = "MATCHED" => Off(s, a) <= Cent
         /\ f = [variance |-> f.variance, status |-> f.status]
<1>1. CASE NoAmount(a)
  <2>1. f = [variance |-> Nil, status |-> "PENDING"] BY <1>1 DEF Findings
  <2> QED BY <2>1
<1>2. CASE ~NoAmount(a)
  <2>1. a \in Int /\ a - Due[s] \in Int
    BY <1>2, ReconciliationAssumption DEF NoAmount
  <2>2. f \in Compared(s, a) BY <1>2 DEF Findings
  <2>3. /\ f.variance \in Nearest(a - Due[s]) /\ f.status \in {"MATCHED", "VARIANCE"}
        /\ f.status = "MATCHED" => Off(s, a) <= Cent
        /\ f = [variance |-> f.variance, status |-> f.status]
    BY <2>2 DEF Compared
  <2> QED BY <1>2, <2>1, <2>3, NearestInt
<1> QED BY <1>1, <1>2

\* What the column of the amount gets.
LEMMA StoredFacts ==
  ASSUME NEW a \in Int \cup {Nil}, NEW x \in Int \cup {Nil}, NEW y \in Stored(a, x)
  PROVE  /\ y \in Int \cup {Nil}
         /\ a = Nil => y = x
         /\ a # Nil => y \in Nearest(a)
<1>1. CASE a = Nil BY <1>1 DEF Stored
<1>2. CASE a # Nil BY <1>2, NearestInt DEF Stored
<1> QED BY <1>1, <1>2

\* What is never taken back: an amount that was reported, a record's settlement.
Kept ==
  /\ \A s \in Settlements : reported[s] \subseteq reported'[s]
  /\ \A r \in Records :
       record[r].settlement # Nil => record'[r].settlement = record[r].settlement

LEMMA RecordUnchanged ==
  ASSUME TypeOK, Kept, NEW r \in Records, RecordOK(r), record'[r] = record[r]
  PROVE  RecordOK(r)'
BY DEF TypeOK, Row, Kept, RecordOK

LEMMA HandlerUnchanged ==
  ASSUME TypeOK, Kept, NEW w \in Workers, HandlerOK(w), req'[w] = req[w]
  PROVE  HandlerOK(w)'
<1> DEFINE h == req[w]
<1>1. h \in Handler /\ req'[w] = h BY DEF TypeOK
<1>2. h.settlement # Nil => reported[h.settlement] \subseteq reported'[h.settlement]
  BY <1>1 DEF Handler, Kept
<1>3. h.pc = "write" /\ h.found # Nil => record'[h.found].settlement = h.settlement
  <2> SUFFICES ASSUME h.pc = "write", h.found # Nil
               PROVE  record'[h.found].settlement = h.settlement
    OBVIOUS
  <2>1. h.found \in Records BY <1>1 DEF Handler
  <2>2. record[h.found].settlement = h.settlement /\ h.settlement # Nil
    BY DEF HandlerOK
  <2> QED BY <2>1, <2>2 DEF Kept
<1> QED BY <1>1, <1>2, <1>3 DEF HandlerOK

\* A request that ends, or goes on with its batch, knows nothing more.
LEMMA IdleOK ==
  ASSUME NEW w \in Workers,
         req'[w].pc \in {"idle", "batch"}, req'[w].settlement = Nil
  PROVE  HandlerOK(w)'
BY DEF HandlerOK

LEMMA IdleHandler ==
  /\ Idle \in Handler
  /\ Idle.pc = "idle" /\ Idle.settlement = Nil
BY DEF Idle, Handler

\* A step of one handler: what has to be shown of it.
LEMMA HandlerStep ==
  ASSUME RecordsInv, Kept, NEW w \in Workers,
         req' = [req EXCEPT ![w] = req'[w]],
         HandlerOK(w)'
  PROVE  \A v \in Workers : HandlerOK(v)'
<1> SUFFICES ASSUME NEW v \in Workers PROVE HandlerOK(v)'
  OBVIOUS
<1>1. CASE v = w BY <1>1
<1>2. CASE v # w
  <2>1. req'[v] = req[v] BY <1>2 DEF RecordsInv, TypeOK
  <2> QED BY <2>1, HandlerUnchanged DEF RecordsInv
<1> QED BY <1>1, <1>2

-----------------------------------------------------------------------------
\* Each action preserves the invariant.
Preserved ==
  /\ TypeOK'
  /\ \A r \in Records : RecordOK(r)'
  /\ \A w \in Workers : HandlerOK(w)'
  /\ CompletedWasReported'

\* An action that leaves the records alone and reports no amount.
LEMMA OnlyHandler ==
  ASSUME RecordsInv, NEW w \in Workers, NEW h \in Handler,
         req' = [req EXCEPT ![w] = h],
         UNCHANGED <<payout, record, reported>>,
         h.settlement # Nil /\ ~NoAmount(h.actual) => h.actual \in reported[h.settlement],
         h.pc \in {"bank", "find", "write", "complete"} => h.settlement # Nil,
         h.pc = "write" /\ h.found # Nil => record[h.found].settlement = h.settlement,
         h.pc # "complete"
  PROVE  Preserved
<1>1. TypeOK' BY DEF RecordsInv, TypeOK
<1>2. Kept BY DEF Kept
<1>3. req'[w] = h BY DEF RecordsInv, TypeOK
<1>4. HandlerOK(w)' BY <1>3 DEF HandlerOK
<1>5. \A v \in Workers : HandlerOK(v)' BY <1>2, <1>3, <1>4, HandlerStep
<1>6. \A r \in Records : RecordOK(r)' BY <1>2, RecordUnchanged DEF RecordsInv
<1>7. CompletedWasReported' BY DEF RecordsInv, CompletedWasReported
<1> QED BY <1>1, <1>5, <1>6, <1>7 DEF Preserved

LEMMA ReturnOnly ==
  ASSUME RecordsInv, NEW w \in Workers, Return(w),
         UNCHANGED <<payout, record, reported>>
  PROVE  Preserved
BY OnlyHandler, IdleHandler DEF Return

LEMMA ReconcileStep ==
  ASSUME RecordsInv, NEW w \in Workers, NEW s \in Settlements,
         NEW a \in Amounts[s] \cup {Nil}, Reconcile(w, s, a)
  PROVE  Preserved
<1>0. a \in Int \cup {Nil} BY ReconciliationAssumption
<1>1. PICK pc \in {"bank", "find"} :
        req' = [req EXCEPT ![w] =
          [pc |-> pc, settlement |-> s, actual |-> a, found |-> Nil, todo |-> {}]]
  BY DEF Reconcile
<1> DEFINE h == [pc |-> pc, settlement |-> s, actual |-> a, found |-> Nil, todo |-> {}]
<1>2. h \in Handler BY <1>0 DEF Handler
<1>3. req'[w] = h /\ req' = [req EXCEPT ![w] = h] BY <1>1 DEF RecordsInv, TypeOK
<1>4. /\ reported' = [reported EXCEPT ![s] = reported[s] \cup ({a} \ {Nil, 0})]
      /\ UNCHANGED <<payout, record>>
  BY DEF Reconcile, Report
<1>5. TypeOK'
  BY <1>0, <1>2, <1>3, <1>4 DEF RecordsInv, TypeOK
<1>6. Kept BY <1>4 DEF RecordsInv, TypeOK, Kept
<1>7. ~NoAmount(a) => a \in reported'[s] BY <1>4 DEF RecordsInv, TypeOK, NoAmount
<1>8. HandlerOK(w)'
  BY <1>3, <1>7, ReconciliationAssumption DEF HandlerOK
<1>9. \A v \in Workers : HandlerOK(v)' BY <1>3, <1>6, <1>8, HandlerStep
<1>10. \A r \in Records : RecordOK(r)' BY <1>4, <1>6, RecordUnchanged DEF RecordsInv
<1>11. CompletedWasReported' BY <1>4, <1>6 DEF RecordsInv, CompletedWasReported, Kept
<1> QED BY <1>5, <1>9, <1>10, <1>11 DEF Preserved

LEMMA BankAnswersStep ==
  ASSUME RecordsInv, NEW w \in Workers, NEW a, BankAnswers(w, a)
  PROVE  Preserved
<1> DEFINE h == [req[w] EXCEPT !.pc = "find", !.actual = a]
           s == req[w].settlement
<1>1. req[w] \in Handler /\ s \in Settlements
  BY DEF RecordsInv, TypeOK, Handler, HandlerOK, BankAnswers, At
<1>a. a \in Int /\ a # Nil BY <1>1, ReconciliationAssumption DEF BankAnswers
<1>2. h \in Handler /\ h.pc = "find" /\ h.settlement = s /\ h.actual = a
  BY <1>1, <1>a DEF Handler
<1>3. req'[w] = h /\ req' = [req EXCEPT ![w] = h]
  BY <1>1 DEF RecordsInv, TypeOK, BankAnswers
<1>4. /\ reported' = [reported EXCEPT ![s] = reported[s] \cup ({a} \ {Nil, 0})]
      /\ UNCHANGED <<payout, record>>
  BY DEF BankAnswers, Report
<1> HIDE DEF h, s
<1>5. TypeOK'
  BY <1>1, <1>2, <1>3, <1>4, <1>a DEF RecordsInv, TypeOK
<1>6. Kept BY <1>1, <1>4 DEF RecordsInv, TypeOK, Kept
<1>7. ~NoAmount(a) => a \in reported'[s] BY <1>1, <1>4 DEF RecordsInv, TypeOK, NoAmount
<1>8. HandlerOK(w)' BY <1>2, <1>3, <1>7, <1>1, ReconciliationAssumption DEF HandlerOK
<1>9. \A v \in Workers : HandlerOK(v)' BY <1>3, <1>6, <1>8, HandlerStep
<1>10. \A r \in Records : RecordOK(r)' BY <1>4, <1>6, RecordUnchanged DEF RecordsInv
<1>11. CompletedWasReported' BY <1>4, <1>6 DEF RecordsInv, CompletedWasReported, Kept
<1> QED BY <1>5, <1>9, <1>10, <1>11 DEF Preserved

\* The row an update or an insert writes, with the handler that goes on.
LEMMA WriteStep ==
  ASSUME RecordsInv, NEW w \in Workers, NEW r \in Records, NEW c \in Row,
         NEW f \in Findings(req[w].settlement, req[w].actual),
         At(w, "write"), AfterWrite(w, f.status), UNCHANGED <<payout, reported>>,
         record' = [record EXCEPT ![r] = c],
         c.settlement = req[w].settlement,
         record[r].settlement \in {Nil, c.settlement},
         c.actual # Nil =>
           \E a \in {0} \cup reported[c.settlement] : c.actual \in Nearest(a),
         ~NoAmount(req[w].actual) => c.actual \in Nearest(req[w].actual),
         c.variance = f.variance, c.status = f.status
  PROVE  Preserved
<1> DEFINE s == req[w].settlement
           a == req[w].actual
<1>1. /\ req[w] \in Handler /\ s \in Settlements /\ a \in Int \cup {Nil}
      /\ ~NoAmount(a) => a \in reported[s]
  BY DEF RecordsInv, TypeOK, Handler, HandlerOK, At
<1>2. s # Nil BY <1>1, ReconciliationAssumption
<1>f. /\ f.status \in {"PENDING", "MATCHED", "VARIANCE"}
      /\ f.status = "PENDING" => f.variance = Nil
      /\ f.status # "PENDING" => a \in reported[s] /\ ~NoAmount(a)
      /\ f.status = "MATCHED" => Off(s, a) <= Cent
      /\ f = [variance |-> f.variance, status |-> f.status]
  BY <1>1, FindingFacts
<1> DEFINE h == IF f.status = "MATCHED" THEN ToComplete(w) ELSE Idle
<1>t. /\ ToComplete(w) \in Handler /\ ToComplete(w).pc = "complete"
      /\ ToComplete(w).settlement = s /\ ToComplete(w).actual = Nil
  BY <1>1 DEF ToComplete, Idle, Handler
<1>3. h \in Handler BY <1>t, IdleHandler
<1>4. req'[w] = h /\ req' = [req EXCEPT ![w] = h]
  BY DEF AfterWrite, RecordsInv, TypeOK
<1>5. TypeOK' BY <1>3, <1>4 DEF RecordsInv, TypeOK
<1>6. Kept BY DEF RecordsInv, TypeOK, Kept
<1>7. HandlerOK(w)'
  <2>1. CASE f.status = "MATCHED"
    <3>1. req'[w] = ToComplete(w) BY <1>4, <2>1
    <3>2. \E x \in reported'[s] : Off(s, x) <= Cent BY <1>f, <2>1
    <3>3. NoAmount(Nil) BY DEF NoAmount
    <3> HIDE DEF s, a
    <3> QED BY <1>2, <1>t, <3>1, <3>2, <3>3 DEF HandlerOK
  <2>2. CASE f.status # "MATCHED"
    <3>1. req'[w] = Idle BY <1>4, <2>2
    <3> QED BY <3>1, IdleHandler, IdleOK
  <2> QED BY <2>1, <2>2
<1>8. \A v \in Workers : HandlerOK(v)' BY <1>4, <1>6, <1>7, HandlerStep
<1>9. RecordOK(r)'
  <2>1. record'[r] = c BY DEF RecordsInv, TypeOK
  <2>2. f.status # "PENDING" => Follows(c, a)
    BY <1>f DEF Follows
  <2>3. c.settlement = s /\ reported' = reported OBVIOUS
  <2> HIDE DEF s, a
  <2> QED BY <1>2, <1>f, <2>1, <2>2, <2>3 DEF RecordOK, Follows
<1>10. \A q \in Records : q # r => record'[q] = record[q]
  BY DEF RecordsInv, TypeOK
<1>11. \A q \in Records : RecordOK(q)'
  BY <1>6, <1>9, <1>10, RecordUnchanged DEF RecordsInv
<1>12. CompletedWasReported' BY DEF RecordsInv, CompletedWasReported
<1> QED BY <1>5, <1>8, <1>11, <1>12 DEF Preserved

LEMMA UpdateRecordStep ==
  ASSUME RecordsInv, NEW w \in Workers, UpdateRecord(w)
  PROVE  Preserved
<1> DEFINE h == req[w]
           r == h.found
<1>1. PICK f \in Findings(h.settlement, h.actual), y \in Stored(h.actual, record[r].actual) :
        /\ record' = [record EXCEPT ![r] =
             [settlement |-> record[r].settlement, manual |-> record[r].manual,
              actual |-> y, variance |-> f.variance, status |-> f.status]]
        /\ AfterWrite(w, f.status)
  BY DEF UpdateRecord
<1> DEFINE c == [settlement |-> record[r].settlement, manual |-> record[r].manual,
                 actual |-> y, variance |-> f.variance, status |-> f.status]
<1>a. /\ At(w, "write") /\ UNCHANGED <<payout, reported>> /\ r # Nil
      /\ record' = [record EXCEPT ![r] = c]
  BY <1>1 DEF UpdateRecord
<1>2. h \in Handler /\ HandlerOK(w) BY DEF RecordsInv, TypeOK
<1>3. r \in Records /\ h.settlement \in Settlements /\ h.actual \in Int \cup {Nil}
  BY <1>a, <1>2 DEF Handler, HandlerOK, At
<1>4. record[r].settlement = h.settlement BY <1>a, <1>2 DEF HandlerOK, At
<1>5. record[r] \in Row /\ RecordOK(r) /\ record[r].actual \in Int \cup {Nil}
  BY <1>3 DEF RecordsInv, TypeOK, Row
<1>6. /\ f.status \in {"PENDING", "MATCHED", "VARIANCE"}
      /\ f.variance \in Int \cup {Nil}
  BY <1>3, FindingFacts
<1>y. /\ y \in Int \cup {Nil}
      /\ h.actual = Nil => y = record[r].actual
      /\ h.actual # Nil => y \in Nearest(h.actual)
  <2> DEFINE a == h.actual
             x == record[r].actual
  <2>1. a \in Int \cup {Nil} /\ x \in Int \cup {Nil} /\ y \in Stored(a, x)
    BY <1>3, <1>5
  <2> HIDE DEF a, x
  <2>2. y \in Int \cup {Nil} /\ (a = Nil => y = x) /\ (a # Nil => y \in Nearest(a))
    BY <2>1, StoredFacts
  <2> QED BY <2>2 DEF a, x
<1>7. c \in Row BY <1>5, <1>6, <1>y DEF Row
<1>8. y # Nil => \E a \in {0} \cup reported[h.settlement] : y \in Nearest(a)
  <2>1. h.settlement # Nil BY <1>3, ReconciliationAssumption
  <2>2. h.actual # Nil => h.actual \in {0} \cup reported[h.settlement]
    BY <1>2, <2>1 DEF HandlerOK, NoAmount
  <2>3. record[r].actual # Nil =>
          \E a \in {0} \cup reported[h.settlement] : record[r].actual \in Nearest(a)
    BY <1>4, <1>5, <2>1 DEF RecordOK
  <2> HIDE DEF h, r
  <2> QED BY <1>y, <2>2, <2>3
<1>9. /\ c.settlement = h.settlement /\ c.actual = y
      /\ record[r].settlement \in {Nil, c.settlement}
      /\ c.variance = f.variance /\ c.status = f.status
  BY <1>4
<1>10. ~NoAmount(h.actual) => y \in Nearest(h.actual) BY <1>y DEF NoAmount
<1> HIDE DEF c
<1> QED BY <1>1, <1>a, <1>3, <1>7, <1>8, <1>9, <1>10, WriteStep

LEMMA CreateRecordStep ==
  ASSUME RecordsInv, NEW w \in Workers, CreateRecord(w)
  PROVE  Preserved
<1> DEFINE h == req[w]
<1>1. PICK r \in RecordsOf(Nil), f \in Findings(h.settlement, h.actual),
           y \in Stored(h.actual, Nil) :
        /\ record' = [record EXCEPT ![r] =
             [settlement |-> h.settlement, manual |-> TRUE,
              actual |-> y, variance |-> f.variance, status |-> f.status]]
        /\ AfterWrite(w, f.status)
  BY DEF CreateRecord
<1> DEFINE c == [settlement |-> h.settlement, manual |-> TRUE,
                 actual |-> y, variance |-> f.variance, status |-> f.status]
<1>2. At(w, "write") /\ UNCHANGED <<payout, reported>>
      /\ record' = [record EXCEPT ![r] = c]
  BY <1>1 DEF CreateRecord
<1>3. h \in Handler /\ HandlerOK(w) BY DEF RecordsInv, TypeOK
<1>4. /\ r \in Records /\ record[r].settlement = Nil
      /\ h.settlement \in Settlements /\ h.actual \in Int \cup {Nil}
  BY <1>2, <1>3 DEF Handler, HandlerOK, At, RecordsOf
<1>5. /\ f.status \in {"PENDING", "MATCHED", "VARIANCE"}
      /\ f.variance \in Int \cup {Nil}
  BY <1>4, FindingFacts
<1>y. /\ y \in Int \cup {Nil}
      /\ h.actual = Nil => y = Nil
      /\ h.actual # Nil => y \in Nearest(h.actual)
  BY <1>4, StoredFacts
<1>6. c \in Row BY <1>4, <1>5, <1>y DEF Row
<1>7. y # Nil => \E a \in {0} \cup reported[h.settlement] : y \in Nearest(a)
  <2>1. h.settlement # Nil BY <1>4, ReconciliationAssumption
  <2>2. h.actual # Nil => h.actual \in {0} \cup reported[h.settlement]
    BY <1>3, <2>1 DEF HandlerOK, NoAmount
  <2> HIDE DEF h
  <2> QED BY <1>y, <2>2
<1>8. /\ c.settlement = h.settlement /\ c.actual = y
      /\ c.variance = f.variance /\ c.status = f.status
  OBVIOUS
<1>9. ~NoAmount(h.actual) => y \in Nearest(h.actual) BY <1>y DEF NoAmount
<1> HIDE DEF c
<1> QED BY <1>1, <1>2, <1>4, <1>6, <1>7, <1>8, <1>9, WriteStep

LEMMA FindRecordStep ==
  ASSUME RecordsInv, NEW w \in Workers, FindRecord(w)
  PROVE  Preserved
<1> DEFINE rows == RecordsOf(req[w].settlement)
<1>1. PICK r \in IF rows = {} THEN {Nil} ELSE rows :
        req' = [req EXCEPT ![w].pc = "write", ![w].found = r]
  BY DEF FindRecord
<1>2. At(w, "find") /\ UNCHANGED <<payout, record, reported>> BY DEF FindRecord
<1>3. req[w] \in Handler /\ HandlerOK(w) BY DEF RecordsInv, TypeOK
<1> DEFINE h == [req[w] EXCEPT !.pc = "write", !.found = r]
<1>4. /\ r \in Records \cup {Nil}
      /\ r # Nil => record[r].settlement = req[w].settlement
  BY DEF RecordsOf
<1>5. /\ h \in Handler /\ h.pc = "write" /\ h.found = r
      /\ h.settlement = req[w].settlement /\ h.actual = req[w].actual
  BY <1>3, <1>4 DEF Handler
<1>6. req' = [req EXCEPT ![w] = h] BY <1>1 DEF RecordsInv, TypeOK
<1>7. /\ req[w].settlement # Nil
      /\ ~NoAmount(req[w].actual) => req[w].actual \in reported[req[w].settlement]
  BY <1>2, <1>3 DEF HandlerOK, At
<1> HIDE DEF h
<1> QED BY <1>2, <1>4, <1>5, <1>6, <1>7, OnlyHandler

LEMMA BankFailsStep ==
  ASSUME RecordsInv, NEW w \in Workers, BankFails(w)
  PROVE  Preserved
<1> DEFINE h == [req[w] EXCEPT !.pc = "find"]
<1>1. At(w, "bank") /\ UNCHANGED <<payout, record, reported>> BY DEF BankFails
<1>2. req[w] \in Handler /\ HandlerOK(w) BY DEF RecordsInv, TypeOK
<1>3. /\ h \in Handler /\ h.pc = "find"
      /\ h.settlement = req[w].settlement /\ h.actual = req[w].actual
  BY <1>2 DEF Handler
<1>4. req' = [req EXCEPT ![w] = h] BY DEF BankFails, RecordsInv, TypeOK
<1>5. /\ req[w].settlement # Nil
      /\ ~NoAmount(req[w].actual) => req[w].actual \in reported[req[w].settlement]
  BY <1>1, <1>2 DEF HandlerOK, At
<1> HIDE DEF h
<1> QED BY <1>1, <1>3, <1>4, <1>5, OnlyHandler

LEMMA CompletePayoutStep ==
  ASSUME RecordsInv, NEW w \in Workers, CompletePayout(w)
  PROVE  Preserved
<1> DEFINE s == req[w].settlement
<1>1. /\ At(w, "complete") /\ Return(w) /\ UNCHANGED <<record, reported>>
      /\ payout' = [payout EXCEPT ![s] = "COMPLETED"]
  BY DEF CompletePayout
<1>2. req[w] \in Handler /\ HandlerOK(w) BY DEF RecordsInv, TypeOK
<1>3. s \in Settlements /\ s # Nil BY <1>1, <1>2 DEF Handler, HandlerOK, At
<1>4. \E a \in reported[s] : Off(s, a) <= Cent
  BY <1>1, <1>2 DEF HandlerOK, At
<1>5. req'[w] = Idle /\ req' = [req EXCEPT ![w] = Idle]
  BY <1>1 DEF Return, RecordsInv, TypeOK
<1> HIDE DEF s
<1>6. TypeOK' BY <1>1, <1>3, <1>5, IdleHandler DEF RecordsInv, TypeOK
<1>7. Kept BY <1>1 DEF Kept
<1>8. \A v \in Workers : HandlerOK(v)' BY <1>5, <1>7, IdleHandler, IdleOK, HandlerStep
<1>9. \A r \in Records : RecordOK(r)' BY <1>1, <1>7, RecordUnchanged DEF RecordsInv
<1>10. CompletedWasReported'
  BY <1>1, <1>3, <1>4 DEF RecordsInv, TypeOK, CompletedWasReported
<1> QED BY <1>6, <1>8, <1>9, <1>10 DEF Preserved

LEMMA ReconcileBatchStep ==
  ASSUME RecordsInv, NEW w \in Workers, NEW S \in SUBSET Settlements,
         ReconcileBatch(w, S)
  PROVE  Preserved
<1> DEFINE h == [Idle EXCEPT !.pc = "batch", !.todo = S]
<1>1. h \in Handler /\ h.pc = "batch" /\ h.settlement = Nil
  BY DEF Idle, Handler
<1>2. req' = [req EXCEPT ![w] = h] /\ UNCHANGED <<payout, record, reported>>
  BY DEF ReconcileBatch
<1> HIDE DEF h
<1> QED BY <1>1, <1>2, OnlyHandler

\* A handler's batch is done, or has fewer members left.
LEMMA NextMemberFacts ==
  ASSUME RecordsInv, NEW w \in Workers, NEW s, At(w, "batch"), NextMember(w, s)
  PROVE  \E h \in Handler :
           /\ req' = [req EXCEPT ![w] = h]
           /\ h.pc \in {"idle", "batch"}
           /\ h.settlement # Nil /\ ~NoAmount(h.actual) => h.actual \in reported[h.settlement]
<1> DEFINE k == [req[w] EXCEPT !.todo = req[w].todo \ {s}]
           h == IF req[w].todo = {s} THEN Idle ELSE k
<1>1. req[w] \in Handler /\ HandlerOK(w) BY DEF RecordsInv, TypeOK
<1>2. /\ k \in Handler /\ k.pc = "batch"
      /\ k.settlement = req[w].settlement /\ k.actual = req[w].actual
  BY <1>1 DEF Handler, At
<1>3. req' = [req EXCEPT ![w] = h] BY DEF NextMember
<1>4. req[w].settlement # Nil /\ ~NoAmount(req[w].actual)
        => req[w].actual \in reported[req[w].settlement]
  BY <1>1 DEF HandlerOK
<1> HIDE DEF k
<1> QED BY <1>2, <1>3, <1>4, IdleHandler

LEMMA AutoRecordStep ==
  ASSUME RecordsInv, NEW w \in Workers, AutoRecord(w)
  PROVE  Preserved
<1>1. PICK s \in req[w].todo, r \in RecordsOf(Nil) :
        /\ record' = [record EXCEPT ![r] =
             [settlement |-> s, manual |-> FALSE, actual |-> Nil,
              variance |-> Nil, status |-> "PENDING"]]
        /\ NextMember(w, s)
  BY DEF AutoRecord
<1> DEFINE c == [settlement |-> s, manual |-> FALSE, actual |-> Nil,
                 variance |-> Nil, status |-> "PENDING"]
<1>2. At(w, "batch") /\ UNCHANGED <<payout, reported>> BY DEF AutoRecord
<1>3. PICK h \in Handler :
        /\ req' = [req EXCEPT ![w] = h]
        /\ h.pc \in {"idle", "batch"}
        /\ h.settlement # Nil /\ ~NoAmount(h.actual) => h.actual \in reported[h.settlement]
  BY <1>1, <1>2, NextMemberFacts
<1>4. req'[w] = h BY <1>3 DEF RecordsInv, TypeOK
<1>5. r \in Records /\ record[r].settlement = Nil BY DEF RecordsOf
<1>6. s \in Settlements /\ s # Nil
  BY ReconciliationAssumption DEF RecordsInv, TypeOK, Handler
<1>7. /\ c \in Row /\ c.settlement = s /\ c.actual = Nil
      /\ c.variance = Nil /\ c.status = "PENDING"
  BY <1>6 DEF Row
<1>8. record' = [record EXCEPT ![r] = c] BY <1>1
<1> HIDE DEF c
<1>9. TypeOK' BY <1>2, <1>3, <1>7, <1>8 DEF RecordsInv, TypeOK
<1>10. Kept BY <1>2, <1>5, <1>8 DEF RecordsInv, TypeOK, Kept
<1>11. HandlerOK(w)' BY <1>2, <1>3, <1>4 DEF HandlerOK
<1>12. \A v \in Workers : HandlerOK(v)' BY <1>3, <1>4, <1>10, <1>11, HandlerStep
<1>13. RecordOK(r)'
  <2>1. record'[r] = c BY <1>5, <1>8 DEF RecordsInv, TypeOK
  <2> QED BY <1>6, <1>7, <2>1 DEF RecordOK
<1>14. \A q \in Records : q # r => record'[q] = record[q]
  BY <1>8 DEF RecordsInv, TypeOK
<1>15. \A q \in Records : RecordOK(q)'
  BY <1>10, <1>13, <1>14, RecordUnchanged DEF RecordsInv
<1>16. CompletedWasReported' BY <1>2 DEF RecordsInv, CompletedWasReported
<1> QED BY <1>9, <1>12, <1>15, <1>16 DEF Preserved

LEMMA AutoFailsStep ==
  ASSUME RecordsInv, NEW w \in Workers, AutoFails(w)
  PROVE  Preserved
<1>1. PICK s \in req[w].todo : NextMember(w, s) BY DEF AutoFails
<1>2. At(w, "batch") /\ UNCHANGED <<payout, record, reported>> BY DEF AutoFails
<1>3. PICK h \in Handler :
        /\ req' = [req EXCEPT ![w] = h]
        /\ h.pc \in {"idle", "batch"}
        /\ h.settlement # Nil /\ ~NoAmount(h.actual) => h.actual \in reported[h.settlement]
  BY <1>1, <1>2, NextMemberFacts
<1> QED BY <1>2, <1>3, OnlyHandler

LEMMA ResolveVarianceStep ==
  ASSUME RecordsInv, NEW r \in Records, ResolveVariance(r)
  PROVE  Preserved
<1> DEFINE c == [record[r] EXCEPT !.status = "RESOLVED"]
<1>1. record[r] \in Row /\ RecordOK(r) BY DEF RecordsInv, TypeOK
<1>2. /\ c \in Row /\ c.status = "RESOLVED"
      /\ c.settlement = record[r].settlement /\ c.actual = record[r].actual
  BY <1>1 DEF Row
<1>3. /\ record[r].status # "NONE" /\ UNCHANGED <<payout, req, reported>>
      /\ record' = [record EXCEPT ![r] = c]
  BY DEF ResolveVariance, RecordsInv, TypeOK
<1> HIDE DEF c
<1>4. TypeOK' BY <1>2, <1>3 DEF RecordsInv, TypeOK
<1>5. Kept BY <1>2, <1>3 DEF RecordsInv, TypeOK, Kept
<1>6. \A w \in Workers : HandlerOK(w)' BY <1>3, <1>5, HandlerUnchanged DEF RecordsInv
<1>7. RecordOK(r)'
  <2>1. record'[r] = c BY <1>3 DEF RecordsInv, TypeOK
  <2> QED BY <1>1, <1>2, <1>3, <2>1 DEF RecordOK
<1>8. \A q \in Records : q # r => record'[q] = record[q]
  BY <1>3 DEF RecordsInv, TypeOK
<1>9. \A q \in Records : RecordOK(q)'
  BY <1>5, <1>7, <1>8, RecordUnchanged DEF RecordsInv
<1>10. CompletedWasReported' BY <1>3 DEF RecordsInv, CompletedWasReported
<1> QED BY <1>4, <1>6, <1>9, <1>10 DEF Preserved

-----------------------------------------------------------------------------
LEMMA InitInv == Init => RecordsInv
<1> SUFFICES ASSUME Init PROVE RecordsInv
  OBVIOUS
<1>1. NoRecord \in Row /\ NoRecord.settlement = Nil /\ NoRecord.status = "NONE"
  BY DEF NoRecord, Row
<1>2. TypeOK BY <1>1, IdleHandler DEF Init, TypeOK
<1>3. \A r \in Records : RecordOK(r) BY <1>1 DEF Init, RecordOK
<1>4. \A w \in Workers : HandlerOK(w) BY IdleHandler DEF Init, HandlerOK
<1>5. CompletedWasReported BY DEF Init, CompletedWasReported
<1> QED BY <1>2, <1>3, <1>4, <1>5 DEF RecordsInv

LEMMA NextInv == RecordsInv /\ [Next]_vars => RecordsInv'
<1> SUFFICES ASSUME RecordsInv, [Next]_vars PROVE Preserved
  BY DEF Preserved, RecordsInv
<1>1. CASE UNCHANGED vars
  BY <1>1 DEF vars, RecordsInv, Preserved, TypeOK, RecordOK, HandlerOK,
     CompletedWasReported
<1>2. CASE Next
  <2>1. ASSUME NEW w \in Workers, Step(w) PROVE Preserved
    BY <2>1, BankAnswersStep, BankFailsStep, FindRecordStep, UpdateRecordStep,
       CreateRecordStep, CompletePayoutStep, AutoRecordStep DEF Step
  <2>2. ASSUME NEW w \in Workers, Request(w) PROVE Preserved
    BY <2>2, ReconcileStep, ReconcileBatchStep DEF Request
  <2>3. ASSUME NEW w \in Workers, StepFails(w) PROVE Preserved
    BY <2>3, ReturnOnly DEF StepFails
  <2> QED BY <1>2, <2>1, <2>2, <2>3, AutoFailsStep, ResolveVarianceStep
    DEF Next, Works, Fails
<1> QED BY <1>1, <1>2

\* Every SettlementReconciliation row follows from one amount reported for its
\* settlement, and the handlers know what they need to write the next one so,
\* however many calls of reconcileSettlement, reconcileBatch and resolveVariance
\* overlap, and wherever one of them fails.
THEOREM RecordsInvariant == Spec => []RecordsInv
<1> QED BY InitInv, NextInv, PTL DEF Spec

\* reconcileSettlement sets a settlement to COMPLETED only if an amount no more
\* than a cent off the one due was entered or answered for it.
THEOREM CompletedNeedsReport == Spec => []CompletedWasReported
<1>1. RecordsInv => CompletedWasReported BY DEF RecordsInv
<1> QED BY <1>1, RecordsInvariant, PTL

\* The amount, the variance and the verdict of a row are those of one amount
\* that was entered, or answered by the bank, for its settlement.
THEOREM VerdictsAreReported == Spec => []RecordsOK
<1>1. RecordsInv => RecordsOK BY DEF RecordsInv, RecordsOK
<1> QED BY <1>1, RecordsInvariant, PTL

-----------------------------------------------------------------------------
(* Requests that do not overlap or fail                                    *)

\* The handler that takes a step is the only one in flight.
OnlyOne(w) ==
  \A v \in Workers : v # w => req[v].pc = "idle" /\ req'[v] = req[v]

\* What has to be shown of a step after which calm still holds.
CalmStep ==
  /\ Alone'
  /\ \A w \in Workers :
       At(w, "write")' /\ req'[w].found = Nil => RecordsOf(req[w].settlement)' = {}
  /\ \A r \in Records : record'[r].manual => record'[r].settlement # Nil
  /\ \A q, r \in Records :
       record'[q].manual /\ record'[r].manual /\ record'[q].settlement = record'[r].settlement
         => q = r
  /\ \A r \in Records : record'[r].status = "MATCHED" =>
       \/ payout'[record'[r].settlement] = "COMPLETED"
       \/ \E w \in Workers :
            req'[w].pc = "complete" /\ req'[w].settlement = record'[r].settlement

LEMMA CalmStepSuffices ==
  ASSUME CalmStep
  PROVE  Undisturbed' /\ OneManualRecord' /\ MatchedIsCompleted'
<1>1. Undisturbed' BY DEF CalmStep, Undisturbed
<1>2. OneManualRecord' BY DEF CalmStep, OneManualRecord
<1>3. ASSUME NEW s \in Settlements, NEW r \in RecordsOf(s)', record'[r].status = "MATCHED"
      PROVE  \/ payout'[s] = "COMPLETED"
             \/ \E w \in Workers : At(w, "complete")' /\ req'[w].settlement = s
  <2>1. r \in Records /\ record'[r].settlement = s BY <1>3 DEF RecordsOf
  <2> QED BY <1>3, <2>1 DEF CalmStep, At
<1>4. MatchedIsCompleted' BY <1>3 DEF MatchedIsCompleted
<1> QED BY <1>1, <1>2, <1>4

\* A matched record's settlement is a settlement.
LEMMA MatchedBefore ==
  ASSUME CalmInv, calm, NEW r \in Records, record[r].status = "MATCHED"
  PROVE  \/ payout[record[r].settlement] = "COMPLETED"
         \/ \E w \in Workers : req[w].pc = "complete" /\ req[w].settlement = record[r].settlement
<1>1. record[r].settlement \in Settlements
  <2>1. RecordOK(r) /\ record[r] \in Row BY DEF CalmInv, RecordsInv, TypeOK
  <2>2. record[r].settlement # Nil BY <2>1 DEF RecordOK
  <2> QED BY <2>1, <2>2 DEF Row
<1> QED BY <1>1 DEF CalmInv, MatchedIsCompleted, RecordsOf, At

\* A step that writes no row, and is not the one that completes a settlement.
LEMMA NothingWritten ==
  ASSUME CalmInv, calm, Alone', NEW w \in Workers, OnlyOne(w),
         UNCHANGED <<payout, record>>, req[w].pc # "complete",
         req'[w].pc = "write" /\ req'[w].found = Nil => RecordsOf(req'[w].settlement) = {}
  PROVE  CalmStep
<1>1. \A v \in Workers : At(v, "write")' /\ req'[v].found = Nil
        => RecordsOf(req[v].settlement)' = {}
  <2>1. \A s : RecordsOf(s)' = RecordsOf(s) BY DEF RecordsOf
  <2> QED BY <2>1 DEF OnlyOne, At
<1>2. \A r \in Records : record'[r].manual => record'[r].settlement # Nil
  BY DEF CalmInv, Undisturbed
<1>3. \A q, r \in Records :
        record'[q].manual /\ record'[r].manual /\ record'[q].settlement = record'[r].settlement
          => q = r
  BY DEF CalmInv, OneManualRecord
<1>4. ASSUME NEW r \in Records, record'[r].status = "MATCHED"
      PROVE  payout'[record'[r].settlement] = "COMPLETED"
  BY <1>4, MatchedBefore DEF OnlyOne
<1> QED BY <1>1, <1>2, <1>3, <1>4 DEF CalmStep

\* A row written by the handler that is at work on its settlement, or by a batch:
\* made of a free row, or changed with its settlement and how it was made kept.
LEMMA RowWritten ==
  ASSUME CalmInv, calm, Alone', NEW w \in Workers, OnlyOne(w), UNCHANGED payout,
         req[w].pc # "complete", req'[w].pc # "write",
         NEW r \in Records, NEW c \in Row, record' = [record EXCEPT ![r] = c],
         c.settlement # Nil,
         \/ c.settlement = record[r].settlement /\ c.manual = record[r].manual
         \/ ~c.manual
         \/ RecordsOf(c.settlement) = {},
         c.status = "MATCHED" =>
           req'[w].pc = "complete" /\ req'[w].settlement = c.settlement
  PROVE  CalmStep
<1>1. /\ record'[r] = c
      /\ \A q \in Records : q # r => record'[q] = record[q]
  BY DEF CalmInv, RecordsInv, TypeOK
<1>2. \A v \in Workers : ~At(v, "write")'
  BY DEF OnlyOne, At
<1>3. \A q \in Records : record'[q].manual => record'[q].settlement # Nil
  BY <1>1 DEF CalmInv, Undisturbed
<1>4. ASSUME NEW q \in Records, NEW p \in Records, record'[q].manual, record'[p].manual,
             record'[q].settlement = record'[p].settlement
      PROVE  q = p
  <2>1. CASE q # r /\ p # r
    BY <1>1, <1>4, <2>1 DEF CalmInv, OneManualRecord
  <2>2. ASSUME NEW o \in Records, o # r, record[o].manual, record[o].settlement = c.settlement,
               c.manual
        PROVE  FALSE
    BY <2>2 DEF RecordsOf, CalmInv, OneManualRecord
  <2> QED BY <1>1, <1>4, <2>1, <2>2
<1>5. ASSUME NEW q \in Records, record'[q].status = "MATCHED"
      PROVE  \/ payout'[record'[q].settlement] = "COMPLETED"
             \/ \E v \in Workers :
                  req'[v].pc = "complete" /\ req'[v].settlement = record'[q].settlement
  <2>1. CASE q = r BY <1>1, <1>5, <2>1
  <2>2. CASE q # r BY <1>1, <1>5, <2>2, MatchedBefore DEF OnlyOne
  <2> QED BY <2>1, <2>2
<1> QED BY <1>2, <1>3, <1>4, <1>5 DEF CalmStep

\* After a step under calm its handler was, or is, the only one in flight.
LEMMA StepAlone ==
  ASSUME CalmInv, calm, Alone', NEW w \in Workers, NEW h, req' = [req EXCEPT ![w] = h],
         req[w].pc # "idle" \/ h.pc # "idle"
  PROVE  OnlyOne(w) /\ req'[w] = h
<1>1. /\ req'[w] = h
      /\ \A v \in Workers : v # w => req'[v] = req[v]
  BY DEF CalmInv, RecordsInv, TypeOK
<1>2. Alone BY DEF CalmInv, Undisturbed
<1> QED BY <1>1, <1>2 DEF OnlyOne, Alone, At

LEMMA CalmRequest ==
  ASSUME CalmInv, calm, Alone', NEW w \in Workers, Request(w)
  PROVE  CalmStep
<1>1. ASSUME NEW s \in Settlements, NEW a \in Amounts[s] \cup {Nil}, Reconcile(w, s, a)
      PROVE  CalmStep
  <2>1. PICK pc \in {"bank", "find"} :
          req' = [req EXCEPT ![w] =
            [pc |-> pc, settlement |-> s, actual |-> a, found |-> Nil, todo |-> {}]]
    BY <1>1 DEF Reconcile
  <2> DEFINE h == [pc |-> pc, settlement |-> s, actual |-> a, found |-> Nil, todo |-> {}]
  <2>2. req' = [req EXCEPT ![w] = h] /\ h.pc = pc BY <2>1
  <2> HIDE DEF h
  <2>3. OnlyOne(w) /\ req'[w].pc = pc BY <2>2, StepAlone
  <2> QED BY <1>1, <2>3, NothingWritten DEF Reconcile, At
<1>2. ASSUME NEW S \in SUBSET Settlements, ReconcileBatch(w, S) PROVE CalmStep
  <2> DEFINE h == [Idle EXCEPT !.pc = "batch", !.todo = S]
  <2>1. req' = [req EXCEPT ![w] = h] /\ h.pc = "batch" BY <1>2 DEF ReconcileBatch, Idle
  <2> HIDE DEF h
  <2>2. OnlyOne(w) /\ req'[w].pc = "batch" BY <2>1, StepAlone
  <2> QED BY <1>2, <2>2, NothingWritten DEF ReconcileBatch, At
<1> QED BY <1>1, <1>2 DEF Request

\* Only the one program counter of a request that goes on matters here.
LEMMA CalmBank ==
  ASSUME CalmInv, calm, Alone', NEW w \in Workers,
         BankFails(w) \/ (\E a : BankAnswers(w, a))
  PROVE  CalmStep
<1>1. At(w, "bank") /\ UNCHANGED <<payout, record>>
  BY DEF BankFails, BankAnswers
<1>2. req \in [Workers -> Handler] BY DEF CalmInv, RecordsInv, TypeOK
<1>3. /\ req'[w].pc = "find"
      /\ req' = [req EXCEPT ![w] = req'[w]]
  BY <1>2 DEF BankFails, BankAnswers, Handler
<1>4. OnlyOne(w) BY <1>3, StepAlone
<1> QED BY <1>1, <1>3, <1>4, NothingWritten DEF At

LEMMA CalmFind ==
  ASSUME CalmInv, calm, Alone', NEW w \in Workers, FindRecord(w)
  PROVE  CalmStep
<1> DEFINE rows == RecordsOf(req[w].settlement)
<1>1. PICK r \in IF rows = {} THEN {Nil} ELSE rows :
        req' = [req EXCEPT ![w].pc = "write", ![w].found = r]
  BY DEF FindRecord
<1>2. At(w, "find") /\ UNCHANGED <<payout, record>> BY DEF FindRecord
<1>3. req \in [Workers -> Handler] BY DEF CalmInv, RecordsInv, TypeOK
<1>4. /\ req'[w].pc = "write" /\ req'[w].found = r
      /\ req'[w].settlement = req[w].settlement
      /\ req' = [req EXCEPT ![w] = req'[w]]
  BY <1>1, <1>3 DEF Handler
<1>5. OnlyOne(w) BY <1>4, StepAlone
<1>6. r = Nil => rows = {} BY ReconciliationAssumption DEF RecordsOf
<1> QED BY <1>2, <1>4, <1>5, <1>6, NothingWritten DEF At

\* What AfterWrite leaves: the settlement is completed next if the row matches.
LEMMA CalmAfterWrite ==
  ASSUME CalmInv, calm, Alone', NEW w \in Workers, NEW st, At(w, "write"), AfterWrite(w, st)
  PROVE  /\ OnlyOne(w)
         /\ req'[w].pc \in {"complete", "idle"}
         /\ st = "MATCHED" =>
              req'[w].pc = "complete" /\ req'[w].settlement = req[w].settlement
<1>1. req \in [Workers -> Handler] BY DEF CalmInv, RecordsInv, TypeOK
<1>2. /\ ToComplete(w).pc = "complete" /\ ToComplete(w).settlement = req[w].settlement
      /\ Idle.pc = "idle"
  BY DEF ToComplete, Idle
<1>3. req'[w] = (IF st = "MATCHED" THEN ToComplete(w) ELSE Idle)
      /\ req' = [req EXCEPT ![w] = req'[w]]
  BY <1>1 DEF AfterWrite
<1>4. OnlyOne(w) BY <1>3, StepAlone DEF At
<1> QED BY <1>2, <1>3, <1>4

LEMMA CalmUpdate ==
  ASSUME CalmInv, calm, Alone', NEW w \in Workers, UpdateRecord(w)
  PROVE  CalmStep
<1> DEFINE h == req[w]
           r == h.found
<1>1. PICK f \in Findings(h.settlement, h.actual), y \in Stored(h.actual, record[r].actual) :
        /\ record' = [record EXCEPT ![r] =
             [settlement |-> record[r].settlement, manual |-> record[r].manual,
              actual |-> y, variance |-> f.variance, status |-> f.status]]
        /\ AfterWrite(w, f.status)
  BY DEF UpdateRecord
<1> DEFINE c == [settlement |-> record[r].settlement, manual |-> record[r].manual,
                 actual |-> y, variance |-> f.variance, status |-> f.status]
<1>a. /\ At(w, "write") /\ UNCHANGED payout /\ r # Nil
      /\ record' = [record EXCEPT ![r] = c]
  BY <1>1 DEF UpdateRecord
<1>2. h \in Handler /\ HandlerOK(w) BY DEF CalmInv, RecordsInv, TypeOK
<1>3. r \in Records /\ h.settlement \in Settlements /\ h.actual \in Int \cup {Nil}
  BY <1>a, <1>2 DEF Handler, HandlerOK, At
<1>4. record[r].settlement = h.settlement /\ h.settlement # Nil
  BY <1>a, <1>2 DEF HandlerOK, At
<1>5. c \in Row
  <2>1. record[r] \in Row /\ record[r].actual \in Int \cup {Nil}
    BY <1>3 DEF CalmInv, RecordsInv, TypeOK, Row
  <2>2. y \in Int \cup {Nil}
    <3> DEFINE a == h.actual
               x == record[r].actual
    <3>1. a \in Int \cup {Nil} /\ x \in Int \cup {Nil} /\ y \in Stored(a, x)
      BY <1>3, <2>1
    <3> HIDE DEF a, x
    <3> QED BY <3>1, StoredFacts
  <2>3. f.status \in {"PENDING", "MATCHED", "VARIANCE"} /\ f.variance \in Int \cup {Nil}
    BY <1>3, FindingFacts
  <2> QED BY <2>1, <2>2, <2>3 DEF Row
<1>6. /\ c.settlement = h.settlement /\ c.manual = record[r].manual
      /\ c.status = f.status
  BY <1>4
<1> HIDE DEF c
<1>7. /\ OnlyOne(w) /\ req[w].pc = "write" /\ req'[w].pc \in {"complete", "idle"}
      /\ c.status = "MATCHED" =>
           req'[w].pc = "complete" /\ req'[w].settlement = c.settlement
  BY <1>1, <1>a, <1>4, <1>6, CalmAfterWrite DEF At
<1> HIDE DEF h, r
<1>8. c.settlement # Nil /\ c.settlement = record[r].settlement
  BY <1>4, <1>6
<1> QED BY <1>a, <1>3, <1>5, <1>6, <1>7, <1>8, RowWritten

LEMMA CalmCreate ==
  ASSUME CalmInv, calm, Alone', NEW w \in Workers, CreateRecord(w)
  PROVE  CalmStep
<1> DEFINE h == req[w]
<1>1. PICK r \in RecordsOf(Nil), f \in Findings(h.settlement, h.actual),
           y \in Stored(h.actual, Nil) :
        /\ record' = [record EXCEPT ![r] =
             [settlement |-> h.settlement, manual |-> TRUE,
              actual |-> y, variance |-> f.variance, status |-> f.status]]
        /\ AfterWrite(w, f.status)
  BY DEF CreateRecord
<1> DEFINE c == [settlement |-> h.settlement, manual |-> TRUE,
                 actual |-> y, variance |-> f.variance, status |-> f.status]
<1>2. At(w, "write") /\ h.found = Nil /\ UNCHANGED payout
      /\ record' = [record EXCEPT ![r] = c]
  BY <1>1 DEF CreateRecord
<1>3. h \in Handler /\ HandlerOK(w) BY DEF CalmInv, RecordsInv, TypeOK
<1>4. /\ r \in Records /\ h.settlement # Nil
      /\ h.settlement \in Settlements /\ h.actual \in Int \cup {Nil}
  BY <1>2, <1>3 DEF Handler, HandlerOK, At, RecordsOf
<1>5. c \in Row
  <2>1. y \in Int \cup {Nil} BY <1>4, StoredFacts
  <2>2. f.status \in {"PENDING", "MATCHED", "VARIANCE"} /\ f.variance \in Int \cup {Nil}
    BY <1>4, FindingFacts
  <2> QED BY <1>4, <2>1, <2>2 DEF Row
<1>6. RecordsOf(h.settlement) = {} BY <1>2 DEF CalmInv, Undisturbed
<1>7. c.settlement = h.settlement /\ c.status = f.status
  OBVIOUS
<1>8. RecordsOf(c.settlement) = {} BY <1>6, <1>7
<1> HIDE DEF c
<1>9. /\ OnlyOne(w) /\ req[w].pc = "write" /\ req'[w].pc \in {"complete", "idle"}
      /\ c.status = "MATCHED" =>
           req'[w].pc = "complete" /\ req'[w].settlement = c.settlement
  BY <1>1, <1>2, <1>7, CalmAfterWrite DEF At
<1>10. c.settlement # Nil BY <1>4, <1>7
<1> HIDE DEF h
<1> QED BY <1>2, <1>4, <1>5, <1>8, <1>9, <1>10, RowWritten

LEMMA CalmAuto ==
  ASSUME CalmInv, calm, Alone', NEW w \in Workers, AutoRecord(w)
  PROVE  CalmStep
<1>1. PICK s \in req[w].todo, r \in RecordsOf(Nil) :
        /\ record' = [record EXCEPT ![r] =
             [settlement |-> s, manual |-> FALSE, actual |-> Nil,
              variance |-> Nil, status |-> "PENDING"]]
        /\ NextMember(w, s)
  BY DEF AutoRecord
<1> DEFINE c == [settlement |-> s, manual |-> FALSE, actual |-> Nil,
                 variance |-> Nil, status |-> "PENDING"]
<1>2. At(w, "batch") /\ UNCHANGED payout BY DEF AutoRecord
<1>3. RecordsInv BY DEF CalmInv
<1>4. PICK h \in Handler : req' = [req EXCEPT ![w] = h] /\ h.pc \in {"idle", "batch"}
  BY <1>1, <1>2, <1>3, NextMemberFacts
<1>5. OnlyOne(w) /\ req'[w] = h BY <1>2, <1>4, StepAlone DEF At
<1>6. r \in Records /\ s \in Settlements /\ s # Nil
  BY <1>3, ReconciliationAssumption DEF RecordsInv, TypeOK, Handler, RecordsOf
<1>7. c \in Row /\ c.settlement = s /\ ~c.manual /\ c.status = "PENDING"
  BY <1>6 DEF Row
<1>8. record' = [record EXCEPT ![r] = c] BY <1>1
<1> HIDE DEF c
<1> QED BY <1>2, <1>4, <1>5, <1>6, <1>7, <1>8, RowWritten DEF At

LEMMA CalmComplete ==
  ASSUME CalmInv, calm, Alone', NEW w \in Workers, CompletePayout(w)
  PROVE  CalmStep
<1>1. /\ At(w, "complete") /\ UNCHANGED record /\ req' = [req EXCEPT ![w] = Idle]
      /\ payout' = [payout EXCEPT ![req[w].settlement] = "COMPLETED"]
  BY DEF CompletePayout, Return
<1>2. OnlyOne(w) /\ req'[w] = Idle BY <1>1, StepAlone DEF At
<1>3. \A v \in Workers : ~At(v, "write")' BY <1>2 DEF OnlyOne, At, Idle
<1>4. ASSUME NEW r \in Records, record'[r].status = "MATCHED"
      PROVE  payout'[record'[r].settlement] = "COMPLETED"
  <2>1. \/ payout[record[r].settlement] = "COMPLETED"
        \/ record[r].settlement = req[w].settlement
    BY <1>1, <1>2, <1>4, MatchedBefore DEF OnlyOne
  <2>2. record[r].settlement \in Settlements
    <3>1. RecordOK(r) /\ record[r] \in Row BY DEF CalmInv, RecordsInv, TypeOK
    <3>2. record[r].settlement # Nil BY <1>1, <1>4, <3>1 DEF RecordOK
    <3> QED BY <3>1, <3>2 DEF Row
  <2> QED BY <1>1, <2>1, <2>2 DEF CalmInv, RecordsInv, TypeOK
<1> QED BY <1>1, <1>3, <1>4 DEF CalmStep, CalmInv, Undisturbed, OneManualRecord

LEMMA CalmResolve ==
  ASSUME CalmInv, calm, Alone', NEW r \in Records, ResolveVariance(r)
  PROVE  CalmStep
<1>1. UNCHANGED <<payout, req>> BY DEF ResolveVariance
<1>2. \A q \in Records :
        /\ record'[q].settlement = record[q].settlement
        /\ record'[q].manual = record[q].manual
        /\ record'[q].status = "MATCHED" => record[q].status = "MATCHED"
  BY DEF ResolveVariance, CalmInv, RecordsInv, TypeOK, Row
<1>3. \A s : RecordsOf(s)' = RecordsOf(s) BY <1>2 DEF RecordsOf
<1>4. \A w \in Workers : At(w, "write")' /\ req'[w].found = Nil
        => RecordsOf(req[w].settlement)' = {}
  <2> SUFFICES ASSUME NEW w \in Workers, At(w, "write")', req'[w].found = Nil
               PROVE  RecordsOf(req[w].settlement)' = {}
    OBVIOUS
  <2>1. At(w, "write") /\ req[w].found = Nil BY <1>1 DEF At
  <2>2. RecordsOf(req[w].settlement) = {} BY <2>1 DEF CalmInv, Undisturbed
  <2> QED BY <1>1, <1>3, <2>2
<1>5. \A q \in Records : record'[q].manual => record'[q].settlement # Nil
  BY <1>2 DEF CalmInv, Undisturbed
<1>6. \A q, p \in Records :
        record'[q].manual /\ record'[p].manual /\ record'[q].settlement = record'[p].settlement
          => q = p
  BY <1>2 DEF CalmInv, OneManualRecord
<1>7. \A q \in Records : record'[q].status = "MATCHED" =>
        \/ payout'[record'[q].settlement] = "COMPLETED"
        \/ \E w \in Workers :
             req'[w].pc = "complete" /\ req'[w].settlement = record'[q].settlement
  BY <1>1, <1>2, MatchedBefore
<1> QED BY <1>4, <1>5, <1>6, <1>7 DEF CalmStep

LEMMA CalmInit == Init => CalmInv
<1> SUFFICES ASSUME Init PROVE Undisturbed /\ OneManualRecord /\ MatchedIsCompleted
  BY InitInv DEF CalmInv
<1> QED BY DEF Init, Idle, NoRecord, Undisturbed, OneManualRecord, MatchedIsCompleted,
       Alone, At, RecordsOf

LEMMA CalmNext == CalmInv /\ [Next]_vars => CalmInv'
<1> SUFFICES ASSUME CalmInv, [Next]_vars
             PROVE  Undisturbed' /\ OneManualRecord' /\ MatchedIsCompleted'
  BY NextInv DEF CalmInv
<1>1. CASE ~calm'
  BY <1>1 DEF Undisturbed, OneManualRecord, MatchedIsCompleted
<1>2. CASE UNCHANGED vars
  BY <1>2 DEF vars, CalmInv, Undisturbed, OneManualRecord, MatchedIsCompleted,
     Alone, At, RecordsOf
<1>3. CASE calm' /\ Next
  <2>1. Works /\ calm /\ Alone' BY <1>3 DEF Next
  <2>2. CASE \E w \in Workers : Step(w) \/ Request(w)
    BY <2>1, <2>2, CalmBank, CalmFind, CalmUpdate, CalmCreate, CalmComplete, CalmAuto,
       CalmRequest, CalmStepSuffices DEF Step
  <2>3. CASE \E r \in Records : ResolveVariance(r)
    BY <2>1, <2>3, CalmResolve, CalmStepSuffices
  <2> QED BY <2>1, <2>2, <2>3 DEF Works
<1> QED BY <1>1, <1>2, <1>3

\* What records and matches agree on as long as nothing meets or fails.
THEOREM CalmInvariant == Spec => []CalmInv
<1> QED BY CalmInit, CalmNext, PTL DEF Spec

\* Calls of reconcileSettlement one after the other leave one record of a
\* settlement that was made by hand, and none that is MATCHED with its settlement
\* not completed.
THEOREM OneRecordEach == Spec => []OneManualRecord
<1>1. CalmInv => OneManualRecord BY DEF CalmInv
<1> QED BY <1>1, CalmInvariant, PTL

THEOREM MatchedCompletes == Spec => []MatchedIsCompleted
<1>1. CalmInv => MatchedIsCompleted BY DEF CalmInv
<1> QED BY <1>1, CalmInvariant, PTL
=============================================================================
