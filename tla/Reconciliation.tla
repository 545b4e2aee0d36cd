--------------------------- MODULE Reconciliation ---------------------------
(***************************************************************************)
(* Reconciliation of outbound settlements with what was really paid: staff *)
(* give an amount, a bank session to ask about, or both; a batch only gets *)
(* PENDING records; a matched record completes its settlement.             *)
(*                                                                         *)
(* A settlement's amount never changes, so the statement that reads it is  *)
(* part of the action after it, and expectedAmount is Due of the record's  *)
(* settlement.  An amount may be finer than the cents its column keeps: it *)
(* is counted in parts of a cent, Cent of them to 0.01.                    *)
(***************************************************************************)
EXTENDS Integers, FiniteSets

CONSTANTS
  Settlements,   \* OutboundSettlement ids
  Due,           \* the amount of each
  Cent,          \* how many units make 0.01, the tolerance
  Records,       \* SettlementReconciliation ids: a bound on the rows
  Amounts,       \* what staff enter and the bank answers for each
  Workers,       \* requests in flight at the same time
  Nil,           \* a null column, an amount not given, no row
  MayFail        \* whether a statement may fail or the process die

ASSUME ReconciliationAssumption ==
  /\ Amounts \in [Settlements -> SUBSET Int]
  /\ Due \in [Settlements -> Nat \ {0}]
  /\ Cent \in Nat \ {0}
  /\ \A s \in Settlements : Due[s] % Cent = 0
  /\ Nil \notin Settlements \cup Records \cup Int
  /\ MayFail \in BOOLEAN

VARIABLES
  payout,      \* OutboundSettlement.status, as far as this service writes it
  record,      \* the SettlementReconciliation rows
  req,         \* the handlers in flight
  reported,    \* history: the amounts given or answered for each settlement,
               \* 0 being none
  calm         \* history: no request has met another one, or failed

vars == <<payout, record, req, reported, calm>>

NoRecord == [settlement |-> Nil, manual |-> FALSE, actual |-> Nil,
             variance |-> Nil, status |-> "NONE"]
Idle == [pc |-> "idle", settlement |-> Nil, actual |-> Nil, found |-> Nil, todo |-> {}]

Init ==
  /\ payout = [s \in Settlements |-> "SUBMITTED"]
  /\ record = [r \in Records |-> NoRecord]
  /\ req = [w \in Workers |-> Idle]
  /\ reported = [s \in Settlements |-> {}]
  /\ calm = TRUE

At(w, pc) == req[w].pc = pc
Return(w) == req' = [req EXCEPT ![w] = Idle]
RecordsOf(s) == {r \in Records : record[r].settlement = s}

\* An amount of 0 is falsy, and counts as no amount.
NoAmount(a) == a \in {Nil, 0}

\* How far an amount is off the one due.
Off(s, a) == IF a < Due[s] THEN Due[s] - a ELSE a - Due[s]

\* What a column with two decimals keeps of x: the nearest whole cent, one of
\* the two at a half, where a difference of doubles may fall on either side.
Nearest(x) ==
  {y \in {Cent * (x \div Cent), Cent * (x \div Cent) + Cent} :
     2 * (x - y) <= Cent /\ 2 * (y - x) <= Cent}

\* The variance and the status of an amount.  Less than a cent off is a match;
\* exactly a cent off may come out below 0.01 as a difference of two doubles
\* (10.03 - 10.02) or not (1.01 - 1).
Compared(s, a) ==
  [variance : Nearest(a - Due[s]),
   status : {v \in {"MATCHED", "VARIANCE"} :
               IF v = "MATCHED" THEN Off(s, a) <= Cent ELSE Off(s, a) >= Cent}]

\* Mutant: a variance that is not set counts as one of 0.
FindingsUnset(s, a) ==
  IF NoAmount(a) THEN {[variance |-> Nil, status |-> "MATCHED"]} ELSE Compared(s, a)

\* What is written with an amount, or with none.
Findings(s, a) ==
  IF NoAmount(a) THEN {[variance |-> Nil, status |-> "PENDING"]} ELSE Compared(s, a)

\* What the column of the amount gets; one that was not given leaves it alone.
Stored(a, before) == IF a = Nil THEN {before} ELSE Nearest(a)

Report(s, a) ==
  reported' = [reported EXCEPT ![s] = reported[s] \cup ({a} \ {Nil, 0})]

-----------------------------------------------------------------------------
(* reconcileSettlement                                                     *)

\* The request gives an amount or none, and may name a session of the bank.
Reconcile(w, s, a) ==
  /\ At(w, "idle")
  /\ \E pc \in {"bank", "find"} :
       req' = [req EXCEPT ![w] =
         [pc |-> pc, settlement |-> s, actual |-> a, found |-> Nil, todo |-> {}]]
  /\ Report(s, a)
  /\ UNCHANGED <<payout, record>>

\* The bank's amount takes the place of the one given.
BankAnswers(w, a) ==
  /\ At(w, "bank")
  /\ a \in Amounts[req[w].settlement]
  /\ req' = [req EXCEPT ![w].pc = "find", ![w].actual = a]
  /\ Report(req[w].settlement, a)
  /\ UNCHANGED <<payout, record>>

\* An error of the bank is logged, and the amount given is used.
BankFails(w) ==
  /\ At(w, "bank")
  /\ req' = [req EXCEPT ![w].pc = "find"]
  /\ UNCHANGED <<payout, record, reported>>

\* Mutant: no record is looked for.
FindNothing(w) ==
  /\ At(w, "find")
  /\ req' = [req EXCEPT ![w].pc = "write"]
  /\ UNCHANGED <<payout, record, reported>>

\* findFirst without an order: any record of the settlement.
FindRecord(w) ==
  /\ At(w, "find")
  /\ LET rows == RecordsOf(req[w].settlement) IN
     \E r \in IF rows = {} THEN {Nil} ELSE rows :
       req' = [req EXCEPT ![w].pc = "write", ![w].found = r]
  /\ UNCHANGED <<payout, record, reported>>

ToComplete(w) == [Idle EXCEPT !.pc = "complete", !.settlement = req[w].settlement]

\* Mutant: every verdict but PENDING completes it.
AfterVerdict(w, status) ==
  req' = [req EXCEPT ![w] = IF status # "PENDING" THEN ToComplete(w) ELSE Idle]

\* Only a match goes on to the settlement; the amount is not needed any more.
AfterWrite(w, status) ==
  req' = [req EXCEPT ![w] = IF status = "MATCHED" THEN ToComplete(w) ELSE Idle]

\* Mutant: the settlement is completed only when the record is new.
UpdateAndReturn(w) ==
  LET h == req[w] IN
  /\ At(w, "write")
  /\ h.found # Nil
  /\ \E f \in Findings(h.settlement, h.actual) :
       record' = [record EXCEPT ![h.found].variance = f.variance,
                                ![h.found].status = f.status]
  /\ Return(w)
  /\ UNCHANGED <<payout, reported>>

\* The row found keeps its settlement and the way it was made.
UpdateRecord(w) ==
  LET h == req[w] IN
  /\ At(w, "write")
  /\ h.found # Nil
  /\ \E f \in Findings(h.settlement, h.actual),
        y \in Stored(h.actual, record[h.found].actual) :
       /\ record' = [record EXCEPT ![h.found] =
            [settlement |-> record[h.found].settlement,
             manual |-> record[h.found].manual,
             actual |-> y, variance |-> f.variance, status |-> f.status]]
       /\ AfterWrite(w, f.status)
  /\ UNCHANGED <<payout, reported>>

CreateRecord(w) ==
  LET h == req[w] IN
  /\ At(w, "write")
  /\ h.found = Nil
  /\ \E r \in RecordsOf(Nil), f \in Findings(h.settlement, h.actual),
        y \in Stored(h.actual, Nil) :
       /\ record' = [record EXCEPT ![r] =
            [settlement |-> h.settlement, manual |-> TRUE,
             actual |-> y, variance |-> f.variance, status |-> f.status]]
       /\ AfterWrite(w, f.status)
  /\ UNCHANGED <<payout, reported>>

CompletePayout(w) ==
  /\ At(w, "complete")
  /\ payout' = [payout EXCEPT ![req[w].settlement] = "COMPLETED"]
  /\ Return(w)
  /\ UNCHANGED <<record, reported>>

-----------------------------------------------------------------------------
(* reconcileBatch with createReconciliation, resolveVariance               *)

\* The members as they are read with the batch.
ReconcileBatch(w, S) ==
  /\ At(w, "idle")
  /\ S # {}
  /\ req' = [req EXCEPT ![w] = [Idle EXCEPT !.pc = "batch", !.todo = S]]
  /\ UNCHANGED <<payout, record, reported>>

NextMember(w, s) ==
  req' = [req EXCEPT ![w] =
    IF req[w].todo = {s} THEN Idle ELSE [req[w] EXCEPT !.todo = req[w].todo \ {s}]]

AutoRecord(w) ==
  /\ At(w, "batch")
  /\ \E s \in req[w].todo, r \in RecordsOf(Nil) :
       /\ record' = [record EXCEPT ![r] =
            [settlement |-> s, manual |-> FALSE, actual |-> Nil,
             variance |-> Nil, status |-> "PENDING"]]
       /\ NextMember(w, s)
  /\ UNCHANGED <<payout, reported>>

\* The error is counted and the loop goes on.
AutoFails(w) ==
  /\ MayFail
  /\ At(w, "batch")
  /\ \E s \in req[w].todo : NextMember(w, s)
  /\ UNCHANGED <<payout, record, reported>>

ResolveVariance(r) ==
  /\ record[r].status # "NONE"
  /\ record' = [record EXCEPT ![r].status = "RESOLVED"]
  /\ UNCHANGED <<payout, req, reported>>

\* A statement fails and the request with it, or the process dies.
StepFails(w) ==
  /\ MayFail
  /\ ~At(w, "idle")
  /\ Return(w)
  /\ UNCHANGED <<payout, record, reported>>

-----------------------------------------------------------------------------
Step(w) ==
  \/ \E s \in Settlements : \E a \in Amounts[s] : BankAnswers(w, a)
  \/ BankFails(w)
  \/ FindRecord(w)
  \/ UpdateRecord(w)
  \/ CreateRecord(w)
  \/ CompletePayout(w)
  \/ AutoRecord(w)

Request(w) ==
  \/ \E s \in Settlements : \E a \in Amounts[s] \cup {Nil} : Reconcile(w, s, a)
  \/ \E S \in SUBSET Settlements : ReconcileBatch(w, S)

Works ==
  \/ \E w \in Workers : Step(w) \/ Request(w)
  \/ \E r \in Records : ResolveVariance(r)

Fails == \E w \in Workers : AutoFails(w) \/ StepFails(w)

Alone == \A v, w \in Workers : v = w \/ At(v, "idle") \/ At(w, "idle")

Next ==
  \/ Works /\ calm' = (calm /\ Alone')
  \/ Fails /\ calm' = FALSE

Spec == Init /\ [][Next]_vars

-----------------------------------------------------------------------------
(* Properties                                                              *)

Row == [settlement : Settlements \cup {Nil}, manual : BOOLEAN,
        actual : Int \cup {Nil}, variance : Int \cup {Nil},
        status : {"NONE", "PENDING", "MATCHED", "VARIANCE", "RESOLVED"}]
Handler == [pc : {"idle", "bank", "find", "write", "complete", "batch"},
            settlement : Settlements \cup {Nil}, actual : Int \cup {Nil},
            found : Records \cup {Nil}, todo : SUBSET Settlements]

TypeOK ==
  /\ payout \in [Settlements -> {"SUBMITTED", "COMPLETED"}]
  /\ record \in [Records -> Row]
  /\ req \in [Workers -> Handler]
  /\ reported \in [Settlements -> SUBSET Int]

\* The verdict and the variance of row c follow from amount a; the amount it
\* keeps is a's.
Follows(c, a) ==
  /\ c.actual \in Nearest(a)
  /\ [variance |-> c.variance, status |-> c.status] \in Findings(c.settlement, a)

\* A record's amount, variance and verdict follow from one amount reported for
\* its own settlement.  A PENDING record shows no variance, even if it keeps an
\* older amount; a RESOLVED one keeps the columns it had.
RecordOK(r) ==
  LET c == record[r] IN
  /\ c.status # "NONE" => c.settlement # Nil
  /\ c.settlement # Nil /\ c.actual # Nil =>
       \E a \in {0} \cup reported[c.settlement] : c.actual \in Nearest(a)
  /\ c.status = "PENDING" => c.variance = Nil
  /\ c.status \in {"MATCHED", "VARIANCE"} =>
       c.settlement # Nil /\ \E a \in reported[c.settlement] : Follows(c, a)

\* However requests overlap or fail, no record mixes the amount, the variance
\* and the verdict of two reports, or of a report for another settlement.
RecordsOK == \A r \in Records : RecordOK(r)

\* What a handler knows: its amount was reported for its settlement, the record
\* it found is of that settlement, and it completes only within a cent.
HandlerOK(w) ==
  LET h == req[w] IN
  /\ h.pc \in {"bank", "find", "write", "complete"} => h.settlement # Nil
  /\ h.settlement # Nil /\ ~NoAmount(h.actual) => h.actual \in reported[h.settlement]
  /\ h.pc = "write" /\ h.found # Nil => record[h.found].settlement = h.settlement
  /\ h.pc = "complete" =>
       \E a \in reported[h.settlement] : Off(h.settlement, a) <= Cent

\* reconcileSettlement completes a settlement only if an amount no more than a
\* cent off the one due was given or answered for it at some time, however many
\* requests overlap or fail.
CompletedWasReported ==
  \A s \in Settlements : payout[s] = "COMPLETED" =>
    \E a \in reported[s] : Off(s, a) <= Cent

\* The inductive invariant of the reconciliations: the records written by
\* reconcileSettlement and createReconciliation say what was reported.
RecordsInv ==
  /\ TypeOK
  /\ \A r \in Records : RecordOK(r)
  /\ \A w \in Workers : HandlerOK(w)
  /\ CompletedWasReported

\* When requests do not overlap or fail, reconcileSettlement updates the record
\* it finds, and makes one only for a settlement that has none, by batch or by
\* hand.
OneManualRecord ==
  calm => \A q, r \in Records :
    record[q].manual /\ record[r].manual /\ record[q].settlement = record[r].settlement
      => q = r

\* Nor is a record left MATCHED with its settlement not completed: the two are
\* separate statements of reconcileSettlement.
MatchedIsCompleted ==
  calm => \A s \in Settlements :
    (\E r \in RecordsOf(s) : record[r].status = "MATCHED")
      => \/ payout[s] = "COMPLETED"
         \/ \E w \in Workers : At(w, "complete") /\ req[w].settlement = s

\* What a request that meets no other relies on: it is the only one, and a
\* settlement it found no record of still has none when it writes.
Undisturbed ==
  calm =>
    /\ Alone
    /\ \A w \in Workers :
         At(w, "write") /\ req[w].found = Nil => RecordsOf(req[w].settlement) = {}
    /\ \A r \in Records : record[r].manual => record[r].settlement # Nil

\* The inductive invariant of requests that do not overlap or fail.
CalmInv == RecordsInv /\ Undisturbed /\ OneManualRecord /\ MatchedIsCompleted
=============================================================================
