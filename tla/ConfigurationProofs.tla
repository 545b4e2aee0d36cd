------------------------- MODULE ConfigurationProofs -------------------------
(***************************************************************************)
(* What Configuration keeps, for any rates, templates, plans, minutes and  *)
(* requests: each of its two parts has an inductive invariant, every quote *)
(* of the cache is one FreshRate allows, and a behaviour of the whole is   *)
(* one of each part.                                                       *)
(***************************************************************************)
EXTENDS Configuration, TLAPS

-----------------------------------------------------------------------------
(* Rates: the cache, and what FreshRate promises of it                     *)

USE DEF At, Empty

LEMMA InitInv == Init => RateInv
<1> SUFFICES ASSUME Init PROVE RateInv
  OBVIOUS
<1> USE RateCacheAssumption DEF Init
<1>1. TypeOK
  BY DEF TypeOK, NoRow, Row, Idle, Pcs, Fresh!LongAgo, MaxAge
<1>2. CacheInv
  BY DEF CacheInv, Idle
<1>3. SeenInv
  BY DEF SeenInv, Best, Valid, NoRow, Fresh!LongAgo, MaxAge
<1> QED BY <1>1, <1>2, <1>3 DEF RateInv

\* After Observe the history is right for the new rows and the new time.
LEMMA Observed ==
  ASSUME TypeOK, SeenInv, now' \in Nat, now <= now', Observe
  PROVE  /\ seen' \in [Rates -> Int]
         /\ \A r \in Rates : seen[r] <= seen'[r]
         /\ \A r \in Rates : seen'[r] \in {seen[r], now'}
         /\ SeenInv'
BY DEF TypeOK, SeenInv, Observe, Best, Valid

\* The cache's part survives whatever only moves the history forward.
LEMMA CacheKept ==
  ASSUME TypeOK, CacheInv, UNCHANGED <<cache, now>>,
         seen' \in [Rates -> Int], \A r \in Rates : seen[r] <= seen'[r]
  PROVE  \A c \in cache' : now' < c.until /\ c.until - seen'[c.rate] <= MaxAge
<1> SUFFICES ASSUME NEW c \in cache
             PROVE  now < c.until /\ c.until - seen'[c.rate] <= MaxAge
  OBVIOUS
<1>1. c.rate \in Rates /\ c.until \in Nat
  BY DEF TypeOK, CacheRow
<1>2. now < c.until /\ c.until - seen[c.rate] <= MaxAge
  BY DEF CacheInv
<1>3. seen[c.rate] <= seen'[c.rate] /\ seen[c.rate] \in Int /\ seen'[c.rate] \in Int
  BY <1>1 DEF TypeOK
<1> QED BY <1>1, <1>2, <1>3, RateCacheAssumption DEF MaxAge

LEMMA LookupInv ==
  ASSUME RateInv, NEW w \in Workers, Lookup(w) PROVE RateInv'
<1> USE RateCacheAssumption DEF RateInv, Lookup
<1>1. TypeOK'
  <2>1. CASE UNCHANGED answer
    BY <2>1 DEF TypeOK, Pcs
  <2>2. ASSUME NEW c \in cache, answer' = <<c.rate, now>>, UNCHANGED req PROVE TypeOK'
    BY <2>2 DEF TypeOK, CacheRow
  <2> QED BY <2>1, <2>2
<1>2. CacheInv'
  <2>1. \A c \in cache' : now' < c.until /\ c.until - seen'[c.rate] <= MaxAge
    BY DEF CacheInv
  <2>2. ASSUME NEW v \in Workers
        PROVE  /\ ~At(v, "idle")' => now' - req'[v].since \in 0..Delay
               /\ At(v, "fill")' => \E r \in Rates : req'[v].rate = <<r>> /\ req'[v].since <= seen'[r]
    <3>1. CASE req'[v] = req[v]
      BY <3>1 DEF CacheInv
    <3>2. CASE req'[v] = [pc |-> "query", rate |-> <<>>, since |-> now]
      BY <3>2 DEF TypeOK
    <3> QED BY <3>1, <3>2 DEF TypeOK
  <2> QED BY <2>1, <2>2 DEF CacheInv
<1>3. SeenInv'
  BY DEF SeenInv, Best, Valid
<1> QED BY <1>1, <1>2, <1>3

LEMMA QueryInv ==
  ASSUME RateInv, NEW w \in Workers, Query(w) PROVE RateInv'
<1> USE RateCacheAssumption DEF RateInv, Query, Return, Idle
<1>1. TypeOK'
  <2>1. ASSUME NEW r \in Best(row, now),
               req' = [req EXCEPT ![w] = [pc |-> "fill", rate |-> <<r>>, since |-> now]]
        PROVE  TypeOK'
    <3>1. r \in Rates
      BY DEF Best, Valid
    <3> QED BY <2>1, <3>1 DEF TypeOK, Pcs
  <2>2. CASE Return(w)
    BY <2>2 DEF TypeOK, Pcs
  <2> QED BY <2>1, <2>2
<1>2. CacheInv'
  <2>1. ASSUME NEW r \in Best(row, now),
               req' = [req EXCEPT ![w] = [pc |-> "fill", rate |-> <<r>>, since |-> now]]
        PROVE  CacheInv'
    <3>1. r \in Rates /\ seen[r] = now
      BY DEF Best, Valid, SeenInv
    <3> QED BY <2>1, <3>1 DEF TypeOK, CacheInv
  <2>2. CASE Return(w)
    BY <2>2 DEF TypeOK, CacheInv
  <2> QED BY <2>1, <2>2
<1>3. SeenInv'
  BY DEF SeenInv, Best, Valid
<1> QED BY <1>1, <1>2, <1>3

LEMMA FillInv ==
  ASSUME RateInv, NEW w \in Workers, Fill(w) PROVE RateInv'
<1> USE RateCacheAssumption DEF RateInv, Fill, Return, Idle
<1> PICK r \in Rates : req[w].rate = <<r>> /\ req[w].since <= seen[r]
  BY DEF CacheInv
<1>1. cache' = {[rate |-> r, until |-> now + TTL]} /\ answer' = <<r, now>>
  OBVIOUS
<1>2. now - req[w].since \in 0..Delay /\ req[w].since \in Nat /\ now \in Nat /\ seen[r] \in Int
  BY DEF CacheInv, TypeOK
<1>3. TypeOK'
  BY <1>1, <1>2 DEF TypeOK, Pcs, CacheRow
<1>4. CacheInv'
  <2>1. \A c \in cache' : now' < c.until /\ c.until - seen'[c.rate] <= MaxAge
    BY <1>1, <1>2 DEF MaxAge
  <2>2. \A v \in Workers :
          /\ ~At(v, "idle")' => now' - req'[v].since \in 0..Delay
          /\ At(v, "fill")' => \E q \in Rates : req'[v].rate = <<q>> /\ req'[v].since <= seen'[q]
    BY DEF CacheInv, TypeOK
  <2> QED BY <2>1, <2>2 DEF CacheInv
<1>5. SeenInv'
  BY DEF SeenInv, Best, Valid
<1> QED BY <1>3, <1>4, <1>5

LEMMA ClearInv ==
  ASSUME RateInv, NEW w \in Workers, Clear(w) \/ StepFails(w) PROVE RateInv'
<1> USE RateCacheAssumption DEF RateInv
<1>1. /\ cache' \in {{}, cache} /\ UNCHANGED <<now, row, answer, seen>>
      /\ req' = [req EXCEPT ![w] = Idle]
  BY DEF Clear, StepFails, Return
<1>2. TypeOK'
  BY <1>1 DEF TypeOK, Pcs, Idle
<1>3. CacheInv'
  <2>1. \A c \in cache' : now' < c.until /\ c.until - seen'[c.rate] <= MaxAge
    BY <1>1 DEF CacheInv
  <2>2. ASSUME NEW v \in Workers
        PROVE  /\ ~At(v, "idle")' => now' - req'[v].since \in 0..Delay
               /\ At(v, "fill")' => \E r \in Rates : req'[v].rate = <<r>> /\ req'[v].since <= seen'[r]
    <3>1. req'[v] = req[v] \/ req'[v].pc = "idle"
      BY <1>1 DEF TypeOK, Idle
    <3> QED BY <1>1, <3>1 DEF CacheInv
  <2> QED BY <2>1, <2>2 DEF CacheInv
<1>4. SeenInv'
  BY <1>1 DEF SeenInv, Best, Valid
<1> QED BY <1>2, <1>3, <1>4

LEMMA TickInv ==
  ASSUME RateInv, Tick PROVE RateInv'
<1> USE RateCacheAssumption DEF RateInv, Tick
<1>1. now' \in Nat /\ now <= now' /\ now \in Nat
  BY DEF TypeOK
<1>2. /\ seen' \in [Rates -> Int]
      /\ \A r \in Rates : seen[r] <= seen'[r]
      /\ SeenInv'
  BY <1>1, Observed
<1>3. TypeOK'
  BY <1>1, <1>2 DEF TypeOK, Alive
<1>4. CacheInv'
  <2>1. \A c \in cache' : now' < c.until /\ c.until - seen'[c.rate] <= MaxAge
    <3> SUFFICES ASSUME NEW c \in cache'
                 PROVE  now' < c.until /\ c.until - seen'[c.rate] <= MaxAge
      OBVIOUS
    <3>1. c \in cache /\ now' < c.until /\ c.rate \in Rates /\ c.until \in Nat
      BY DEF Alive, TypeOK, CacheRow
    <3>2. c.until - seen[c.rate] <= MaxAge /\ seen[c.rate] <= seen'[c.rate]
      BY <3>1, <1>2 DEF CacheInv
    <3>3. seen[c.rate] \in Int /\ seen'[c.rate] \in Int
      BY <3>1, <1>2 DEF TypeOK
    <3> QED BY <3>1, <3>2, <3>3 DEF MaxAge
  <2>2. ASSUME NEW w \in Workers PROVE ~At(w, "idle")' => now' - req'[w].since \in 0..Delay
    BY DEF CacheInv, TypeOK
  <2>3. ASSUME NEW w \in Workers, At(w, "fill")'
        PROVE  \E r \in Rates : req'[w].rate = <<r>> /\ req'[w].since <= seen'[r]
    <3>1. PICK r \in Rates : req[w].rate = <<r>> /\ req[w].since <= seen[r]
      BY <2>3 DEF CacheInv
    <3>2. seen[r] <= seen'[r] /\ seen[r] \in Int /\ seen'[r] \in Int /\ req[w].since \in Nat
      BY <1>2 DEF TypeOK
    <3> QED BY <3>1, <3>2
  <2> QED BY <2>1, <2>2, <2>3 DEF CacheInv
<1> QED BY <1>2, <1>3, <1>4

\* Staff change the rows; what is cached and in flight stays.
LEMMA RowsInv ==
  ASSUME RateInv, row' \in [Rates -> Row], Observe, UNCHANGED <<now, cache, answer>>,
         req' = req \/ \E w \in Workers :
           req' = [req EXCEPT ![w] = [pc |-> "clear", rate |-> <<>>, since |-> now]]
  PROVE  RateInv'
<1> USE RateCacheAssumption DEF RateInv
<1>1. /\ seen' \in [Rates -> Int]
      /\ \A r \in Rates : seen[r] <= seen'[r]
      /\ SeenInv'
  BY Observed DEF TypeOK
<1>2. TypeOK'
  <2>1. req' \in [Workers -> [pc : Pcs, rate : {<<>>} \cup {<<r>> : r \in Rates}, since : Nat]]
    <3>1. ASSUME NEW w \in Workers,
                 req' = [req EXCEPT ![w] = [pc |-> "clear", rate |-> <<>>, since |-> now]]
          PROVE  req' \in [Workers -> [pc : Pcs, rate : {<<>>} \cup {<<r>> : r \in Rates}, since : Nat]]
      BY <3>1 DEF TypeOK, Pcs
    <3> QED BY <3>1 DEF TypeOK
  <2> QED BY <1>1, <2>1 DEF TypeOK
<1>3. CacheInv'
  <2>1. \A c \in cache' : now' < c.until /\ c.until - seen'[c.rate] <= MaxAge
    BY <1>1, CacheKept
  <2>2. ASSUME NEW v \in Workers
        PROVE  /\ ~At(v, "idle")' => now' - req'[v].since \in 0..Delay
               /\ At(v, "fill")' => \E r \in Rates : req'[v].rate = <<r>> /\ req'[v].since <= seen'[r]
    <3>1. CASE req'[v] = req[v]
      <4>1. ~At(v, "idle")' => now' - req'[v].since \in 0..Delay
        BY <3>1 DEF CacheInv
      <4>2. ASSUME At(v, "fill")'
            PROVE  \E r \in Rates : req'[v].rate = <<r>> /\ req'[v].since <= seen'[r]
        <5>1. PICK r \in Rates : req[v].rate = <<r>> /\ req[v].since <= seen[r]
          BY <3>1, <4>2 DEF CacheInv
        <5>2. seen[r] <= seen'[r] /\ seen[r] \in Int /\ seen'[r] \in Int /\ req[v].since \in Nat
          BY <1>1 DEF TypeOK
        <5> QED BY <3>1, <5>1, <5>2
      <4> QED BY <4>1, <4>2
    <3>2. CASE req'[v] = [pc |-> "clear", rate |-> <<>>, since |-> now]
      BY <3>2 DEF TypeOK
    <3> QED BY <3>1, <3>2 DEF TypeOK
  <2> QED BY <2>1, <2>2 DEF CacheInv
<1> QED BY <1>1, <1>2, <1>3

LEMMA CreateRateInv ==
  ASSUME RateInv, NEW w \in Workers, NEW r \in Rates, NEW u \in Dates, CreateRate(w, r, u)
  PROVE  RateInv'
<1>1. row' \in [Rates -> Row]
  BY RateCacheAssumption DEF RateInv, TypeOK, CreateRate, Row
<1> QED BY <1>1, RowsInv DEF CreateRate

LEMMA ScheduleInv ==
  ASSUME RateInv, NEW r \in Rates, NEW f \in Dates, NEW u \in Dates, Schedule(r, f, u)
  PROVE  RateInv'
<1>1. row' \in [Rates -> Row]
  BY RateCacheAssumption DEF RateInv, TypeOK, Schedule, Row
<1> QED BY <1>1, RowsInv DEF Schedule

LEMMA UpdateInv ==
  ASSUME RateInv, NEW r \in Rates, NEW p \in Row, Update(r, p) PROVE RateInv'
<1>1. row' \in [Rates -> Row]
  BY DEF RateInv, TypeOK, Update
<1> QED BY <1>1, RowsInv DEF Update

LEMMA NextInv == RateInv /\ [Next]_vars => RateInv'
<1> SUFFICES ASSUME RateInv, [Next]_vars PROVE RateInv'
  OBVIOUS
<1>1. CASE UNCHANGED vars
  BY <1>1 DEF vars, RateInv, TypeOK, CacheInv, SeenInv, Best, Valid
<1>2. ASSUME NEW w \in Workers, Lookup(w) PROVE RateInv'
  BY <1>2, LookupInv
<1>3. ASSUME NEW w \in Workers, Query(w) PROVE RateInv'
  BY <1>3, QueryInv
<1>4. ASSUME NEW w \in Workers, Fill(w) PROVE RateInv'
  BY <1>4, FillInv
<1>5. ASSUME NEW w \in Workers, Clear(w) \/ StepFails(w) PROVE RateInv'
  BY <1>5, ClearInv
<1>6. CASE Tick
  BY <1>6, TickInv
<1>7. ASSUME NEW w \in Workers, NEW r \in Rates, NEW u \in Dates, CreateRate(w, r, u)
      PROVE  RateInv'
  BY <1>7, CreateRateInv
<1>8. ASSUME NEW r \in Rates, NEW f \in Dates, NEW u \in Dates, Schedule(r, f, u)
      PROVE  RateInv'
  BY <1>8, ScheduleInv
<1>9. ASSUME NEW r \in Rates, NEW f \in Dates, NEW u \in Dates, NEW b \in BOOLEAN,
             Update(r, [made |-> TRUE, from |-> f, until |-> u, active |-> b])
      PROVE  RateInv'
  <2>1. [made |-> TRUE, from |-> f, until |-> u, active |-> b] \in Row
    BY RateCacheAssumption DEF Row
  <2> QED BY ONLY <1>9, <2>1, UpdateInv, RateInv, f \in Dates, u \in Dates, r \in Rates
<1>10. ASSUME NEW r \in Rates, Deactivate(r) PROVE RateInv'
  <2>1. [row[r] EXCEPT !.active = FALSE] \in Row
    BY DEF RateInv, TypeOK, Row
  <2> QED BY <1>10, <2>1, UpdateInv DEF Deactivate
<1> QED BY <1>1, <1>2, <1>3, <1>4, <1>5, <1>6, <1>7, <1>8, <1>9, <1>10 DEF Next

\* What is cached or about to be was the database's answer recently enough,
\* in every reachable state.
THEOREM CacheInvariant == Spec => []RateInv
BY InitInv, NextInv, PTL DEF Spec

-----------------------------------------------------------------------------
(* Every step is one of FreshRate's, or one it does not see.               *)

LEMMA AbstractInit == Init => Fresh!Init
BY DEF Init, Fresh!Init

\* Observe is what FreshRate lets the clock and the rows do.
LEMMA AbstractChange ==
  ASSUME RateInv, now' \in {now, now + 1}, Observe, UNCHANGED answer
  PROVE  Fresh!Change
<1>1. now \in Nat /\ seen' = [r \in Rates |-> seen'[r]]
  BY DEF RateInv, TypeOK, Observe
<1>2. \A r \in Rates : seen'[r] \in {seen[r], now'}
  BY DEF Observe
<1> QED BY <1>1, <1>2 DEF Fresh!Change

LEMMA AbstractLookup ==
  ASSUME RateInv, NEW w \in Workers, Lookup(w)
  PROVE  (\E r \in Rates : Fresh!Quote(r)) \/ UNCHANGED <<now, seen, answer>>
<1>1. CASE UNCHANGED answer
  BY <1>1 DEF Lookup
<1>2. ASSUME NEW c \in cache, answer' = <<c.rate, now>>
      PROVE  \E r \in Rates : Fresh!Quote(r)
  <2>1. c.rate \in Rates /\ c.until \in Nat /\ now \in Nat /\ seen[c.rate] \in Int
    BY DEF RateInv, TypeOK, CacheRow
  <2>2. now < c.until /\ c.until - seen[c.rate] <= MaxAge
    BY DEF RateInv, CacheInv
  <2>3. now - seen[c.rate] <= MaxAge
    BY <2>1, <2>2, RateCacheAssumption DEF MaxAge
  <2> QED BY <1>2, <2>1, <2>3 DEF Fresh!Quote, Lookup
<1> QED BY <1>1, <1>2 DEF Lookup

LEMMA AbstractFill ==
  ASSUME RateInv, NEW w \in Workers, Fill(w)
  PROVE  \E r \in Rates : Fresh!Quote(r)
<1>1. PICK r \in Rates : req[w].rate = <<r>> /\ req[w].since <= seen[r]
  BY DEF RateInv, CacheInv, Fill
<1>2. now - req[w].since \in 0..Delay /\ req[w].since \in Nat /\ now \in Nat /\ seen[r] \in Int
  BY DEF RateInv, CacheInv, TypeOK, Fill
<1>3. now - seen[r] <= MaxAge
  BY <1>1, <1>2, RateCacheAssumption DEF MaxAge
<1>4. answer' = <<r, now>> /\ UNCHANGED <<now, seen>>
  BY <1>1 DEF Fill
<1> QED BY <1>3, <1>4 DEF Fresh!Quote

LEMMA AbstractNext ==
  RateInv /\ [Next]_vars => [Fresh!Next]_<<now, seen, answer>>
<1> SUFFICES ASSUME RateInv, [Next]_vars
             PROVE  Fresh!Next \/ UNCHANGED <<now, seen, answer>>
  OBVIOUS
<1>1. CASE UNCHANGED vars
  BY <1>1 DEF vars
<1>2. ASSUME NEW w \in Workers, Lookup(w)
      PROVE  Fresh!Next \/ UNCHANGED <<now, seen, answer>>
  BY <1>2, AbstractLookup DEF Fresh!Next
<1>3. ASSUME NEW w \in Workers, Query(w) \/ Clear(w) \/ StepFails(w)
      PROVE  UNCHANGED <<now, seen, answer>>
  BY <1>3 DEF Query, Clear, StepFails
<1>4. ASSUME NEW w \in Workers, Fill(w) PROVE Fresh!Next
  BY <1>4, AbstractFill DEF Fresh!Next
<1>5. CASE Tick
  BY <1>5, AbstractChange DEF Tick, Fresh!Next
<1>6. ASSUME NEW w \in Workers, NEW r \in Rates, NEW u \in Dates, CreateRate(w, r, u)
      PROVE  Fresh!Next
  BY <1>6, AbstractChange DEF CreateRate, Fresh!Next
<1>7. ASSUME NEW r \in Rates, NEW f \in Dates, NEW u \in Dates, Schedule(r, f, u)
      PROVE  Fresh!Next
  BY <1>7, AbstractChange DEF Schedule, Fresh!Next
<1>8. ASSUME NEW r \in Rates, NEW p, Update(r, p) PROVE Fresh!Next
  BY <1>8, AbstractChange DEF Update, Fresh!Next
<1> QED BY <1>1, <1>2, <1>3, <1>4, <1>5, <1>6, <1>7, <1>8 DEF Next, Deactivate

\* The payment service keeps its promise: every quote was the database's
\* answer no longer ago than the life of the key and one request.
THEOREM CacheImplementsFreshRate == Spec => QuotesAreFresh
BY AbstractInit, AbstractNext, CacheInvariant, PTL DEF Spec, QuotesAreFresh, Fresh!Spec

-----------------------------------------------------------------------------
(* Templates: their stages are those of the plans given for them           *)

FlowHandler ==
  [pc : {"idle", "delete", "stage", "assign"}, template : Templates \cup {Nil},
   plan : Plans \cup {<<>>}, order : Nat, stage : Stages \cup {Nil}, done : Nat]
StageRow == [template : Templates \cup {Nil}, order : Nat, assignees : SUBSET Admins]

GivenFor(t) == W!Elements(given[t])

FlowTyped ==
  /\ template \in [Templates -> {"NONE", "ACTIVE", "DRAFT", "ARCHIVED"}]
  /\ stage \in [Stages -> StageRow]
  /\ flowReq \in [Workers -> FlowHandler]
  /\ given \in [Templates -> Seq(Plans)]
  /\ flowCalm \in BOOLEAN
  /\ \A t \in Templates : template[t] = "NONE" <=> given[t] = <<>>

\* A stage is at a place of a plan given for its template, with assignees of it.
StageOK(s) ==
  stage[s] # W!NoStage =>
    /\ stage[s].template \in Templates
    /\ \E plan \in GivenFor(stage[s].template) :
         /\ stage[s].order \in DOMAIN plan
         /\ stage[s].assignees \subseteq W!Elements(plan[stage[s].order])

\* A handler is at a place of a plan given for its template; the stage it fills is
\* at that place with assignees of it, or was deleted by another and its id not
\* given again.
AtWork(h) ==
  h.pc # "idle" =>
    /\ h.template \in Templates /\ h.plan \in Plans
    /\ h.plan \in GivenFor(h.template)
    /\ h.pc = "delete" => h.order = 0
    /\ h.pc = "stage" => h.done = 0
    /\ h.pc \in {"stage", "assign"} => h.order \in 1..Len(h.plan)
    /\ h.pc = "assign" =>
         /\ h.stage \in Stages /\ h.done < Len(h.plan[h.order])
         /\ \/ stage[h.stage] = W!NoStage
            \/ /\ stage[h.stage].template = h.template /\ stage[h.stage].order = h.order
               /\ stage[h.stage].assignees \subseteq W!Elements(h.plan[h.order])

\* What a request that meets no other has placed of its plan.
Progress(h) ==
  /\ h.plan = Head(given[h.template])
  /\ h.pc = "stage" => W!Placed(W!StagesOf(h.template), h.plan, h.order - 1)
  /\ h.pc = "assign" =>
       /\ h.stage \in W!StagesOf(h.template)
       /\ stage[h.stage].order = h.order
       /\ stage[h.stage].assignees = {h.plan[h.order][j] : j \in 1..h.done}
       /\ W!Placed(W!StagesOf(h.template) \ {h.stage}, h.plan, h.order - 1)

Complete(t) == W!Placed(W!StagesOf(t), Head(given[t]), Len(Head(given[t])))

AloneAtWork ==
  flowCalm =>
    /\ \A v, w \in Workers : flowReq[v].pc # "idle" /\ flowReq[w].pc # "idle" => v = w
    /\ \A w \in Workers : flowReq[w].pc # "idle" => Progress(flowReq[w])
    /\ \A t \in Templates : template[t] # "NONE" =>
         \/ \E w \in Workers : flowReq[w].pc # "idle" /\ flowReq[w].template = t
         \/ Complete(t)

\* No two handlers fill the same stage.
OneFiller ==
  \A v, w \in Workers :
    v # w /\ flowReq[w].stage \in Stages => flowReq[v].stage # flowReq[w].stage

FlowInv ==
  /\ FlowTyped
  /\ \A s \in Stages : StageOK(s)
  /\ \A w \in Workers : AtWork(flowReq[w])
  /\ OneFiller
  /\ AloneAtWork

LEMMA FlowFacts ==
  ASSUME FlowInv
  PROVE  /\ template \in [Templates -> {"NONE", "ACTIVE", "DRAFT", "ARCHIVED"}]
         /\ stage \in [Stages -> StageRow] /\ flowReq \in [Workers -> FlowHandler]
         /\ given \in [Templates -> Seq(Plans)] /\ flowCalm \in BOOLEAN
         /\ \A t \in Templates : template[t] = "NONE" <=> given[t] = <<>>
         /\ \A s \in Stages : StageOK(s)
         /\ \A w \in Workers : AtWork(flowReq[w])
         /\ OneFiller
BY DEF FlowInv, FlowTyped

LEMMA FlowIdle ==
  /\ W!Idle \in FlowHandler /\ W!Idle.pc = "idle" /\ W!Idle.stage = Nil
  /\ W!NoStage \in StageRow /\ W!NoStage.template = Nil /\ W!NoStage.order = 0
  /\ W!NoStage.assignees = {}
BY DEF W!Idle, W!NoStage, FlowHandler, StageRow

-----------------------------------------------------------------------------
(* The lists of plans, and the rows of a plan                              *)

LEMMA PlanPushed ==
  ASSUME NEW P, NEW s \in Seq(P), NEW p \in P
  PROVE  /\ <<p>> \o s \in Seq(P) /\ Head(<<p>> \o s) = p /\ <<p>> \o s # <<>>
         /\ p \in W!Elements(<<p>> \o s)
         /\ \A q \in W!Elements(s) : q \in W!Elements(<<p>> \o s)
<1>1. PICK t : t = <<p>> \o s OBVIOUS
<1>2. /\ t \in Seq(P) /\ Len(t) = Len(s) + 1 /\ DOMAIN t = 1..Len(t) /\ DOMAIN s = 1..Len(s)
      /\ t[1] = p /\ Len(s) \in Nat
  BY <1>1
<1>3. Head(t) = p BY <1>1
<1>4. 1 \in DOMAIN t BY <1>2
<1>5. ASSUME NEW i \in DOMAIN s PROVE i + 1 \in DOMAIN t /\ t[i + 1] = s[i]
  BY <1>1, <1>2
<1>6. p \in {t[i] : i \in DOMAIN t} BY <1>2, <1>4
<1>7. \A i \in DOMAIN s : s[i] \in {t[j] : j \in DOMAIN t} BY <1>5
<1>8. t # <<>> BY <1>2
<1> QED BY <1>1, <1>2, <1>3, <1>6, <1>7, <1>8 DEF W!Elements

LEMMA PlanTyped ==
  ASSUME NEW plan \in Plans
  PROVE  /\ plan \in Seq(Seq(Admins)) /\ DOMAIN plan = 1..Len(plan) /\ Len(plan) \in Nat
         /\ \A i \in 1..Len(plan) :
              /\ plan[i] \in Seq(Admins) /\ Len(plan[i]) \in Nat
              /\ DOMAIN plan[i] = 1..Len(plan[i])
<1>1. plan \in Seq(Seq(Admins)) BY TemplatesAssumption
<1>2. ASSUME NEW i \in 1..Len(plan)
      PROVE  plan[i] \in Seq(Admins)
  BY <1>1
<1> QED BY <1>1, <1>2

\* Rows that stay as they are stay placed.
LEMMA PlacedKept ==
  ASSUME NEW R, \A r \in R : stage'[r] = stage[r], NEW plan, NEW n, W!Placed(R, plan, n)
  PROVE  W!Placed(R, plan, n)'
BY DEF W!Placed

LEMMA NonePlaced ==
  ASSUME NEW plan
  PROVE  W!Placed({}, plan, 0) /\ W!Placed({}, plan, 0)'
BY DEF W!Placed

\* One row more, at the next place.
LEMMA OneMorePlaced ==
  ASSUME NEW R, NEW s, s \notin R, NEW plan, NEW n \in Nat \ {0},
         W!Placed(R, plan, n - 1)', stage'[s].order = n,
         stage'[s].assignees = W!Elements(plan[n])
  PROVE  W!Placed(R \cup {s}, plan, n)'
<1> DEFINE Q == R \cup {s}
<1>1. \A r \in R : stage'[r].order \in 1..(n - 1) BY DEF W!Placed
<1>2. \A r \in Q : stage'[r].order \in 1..n BY <1>1
<1>3. ASSUME NEW i \in 1..n
      PROVE  \E q \in Q : /\ {r \in Q : stage'[r].order = i} = {q}
                          /\ stage'[q].assignees = W!Elements(plan[i])
  <2>1. CASE i = n
    <3>1. {r \in Q : stage'[r].order = i} = {s} BY <1>1, <2>1
    <3> QED BY <2>1, <3>1
  <2>2. CASE i # n
    <3>1. i \in 1..(n - 1) BY <2>2
    <3>2. PICK q \in R : /\ {r \in R : stage'[r].order = i} = {q}
                         /\ stage'[q].assignees = W!Elements(plan[i])
      BY <3>1 DEF W!Placed
    <3>3. {r \in Q : stage'[r].order = i} = {q} BY <2>2, <3>2
    <3> QED BY <3>2, <3>3
  <2> QED BY <2>1, <2>2
<1> QED BY <1>2, <1>3 DEF W!Placed

-----------------------------------------------------------------------------
LEMMA FlowInit == W!Init => FlowInv
<1> SUFFICES ASSUME W!Init PROVE FlowInv
  OBVIOUS
<1>1. FlowTyped BY FlowIdle DEF W!Init, FlowTyped
<1>2. \A s \in Stages : StageOK(s) BY DEF W!Init, StageOK
<1>3. \A w \in Workers : AtWork(flowReq[w]) BY FlowIdle DEF W!Init, AtWork
<1>4. AloneAtWork BY FlowIdle DEF W!Init, AloneAtWork
<1>5. OneFiller BY FlowIdle, TemplatesAssumption DEF W!Init, OneFiller
<1> QED BY <1>1, <1>2, <1>3, <1>4, <1>5 DEF FlowInv

\* A stage belongs to a template that there is.
LEMMA StagesHaveTemplate ==
  ASSUME FlowInv, NEW t \in Templates, template[t] = "NONE"
  PROVE  W!StagesOf(t) = {}
<1> SUFFICES ASSUME NEW s \in Stages, stage[s].template = t PROVE FALSE
  BY DEF W!StagesOf
<1>1. stage[s] # W!NoStage BY FlowIdle, TemplatesAssumption
<1>2. given[t] = <<>> BY FlowFacts
<1>3. GivenFor(t) = {} BY <1>2 DEF GivenFor, W!Elements
<1> QED BY <1>1, <1>3, FlowFacts DEF StageOK

\* Only rows of t change, come or go.
OnlyOf(t) ==
  \A s \in Stages :
    \/ stage'[s] = stage[s]
    \/ stage[s].template \in {t, Nil} /\ stage'[s].template \in {t, Nil}

LEMMA OthersComplete ==
  ASSUME NEW t, OnlyOf(t), UNCHANGED given, NEW u \in Templates, u # t, Complete(u)
  PROVE  Complete(u)'
<1>1. PICK R : R = W!StagesOf(u) OBVIOUS
<1>2. PICK p : p = Head(given[u]) OBVIOUS
<1>3. Nil # u BY TemplatesAssumption
<1>4. \A r \in R : stage'[r] = stage[r] BY <1>1, <1>3 DEF OnlyOf, W!StagesOf
<1>5. W!StagesOf(u)' = R BY <1>1, <1>3 DEF OnlyOf, W!StagesOf
<1>6. W!Placed(R, p, Len(p)) BY <1>1, <1>2 DEF Complete
<1>7. W!Placed(R, p, Len(p))' BY <1>4, <1>6, PlacedKept
<1>8. Head(given[u])' = p BY <1>2
<1> QED BY <1>5, <1>7, <1>8 DEF Complete, W!Placed

\* The stages that other handlers fill stay or go.
OthersKept(w) ==
  \A v \in Workers \ {w} :
    flowReq[v].pc = "assign" =>
      stage'[flowReq[v].stage] \in {W!NoStage, stage[flowReq[v].stage]}

\* A handler at work moves on to h: one of the template keeps at its plan, or it
\* leaves the template complete.
LEMMA FlowMoves ==
  ASSUME FlowInv, NEW w \in Workers, NEW h \in FlowHandler, NEW g \in FlowHandler,
         g = flowReq[w], g.pc # "idle", flowReq' = [flowReq EXCEPT ![w] = h],
         UNCHANGED <<template, given>>, stage' \in [Stages -> StageRow],
         \A s \in Stages : StageOK(s)', AtWork(h)',
         OthersKept(w), OnlyOf(g.template),
         h.stage \in Stages => \A v \in Workers \ {w} : flowReq[v].stage # h.stage, flowCalm' \in BOOLEAN, flowCalm' => flowCalm,
         flowCalm' => IF h.pc = "idle" THEN Complete(g.template)'
                      ELSE h.template = g.template /\ Progress(h)'
  PROVE  FlowInv'
<1>1. FlowTyped' BY FlowFacts DEF FlowTyped
<1>2. /\ flowReq'[w] = h
      /\ \A v \in Workers : v # w => flowReq'[v] = flowReq[v]
  BY FlowFacts
<1>3. ASSUME NEW v \in Workers PROVE AtWork(flowReq[v])'
  <2>1. CASE v = w BY <1>2, <2>1 DEF AtWork
  <2>2. CASE v # w
    <3>1. PICK k : k = flowReq[v] OBVIOUS
    <3>2. AtWork(k) BY <3>1, FlowFacts
    <3>3. k.pc = "assign" =>
            stage'[k.stage] \in {W!NoStage, stage[k.stage]}
      BY <2>2, <3>1 DEF OthersKept
    <3>4. AtWork(k)' BY <3>2, <3>3 DEF AtWork, GivenFor
    <3> QED BY <1>2, <2>2, <3>1, <3>4 DEF AtWork
  <2> QED BY <2>1, <2>2
<1>4. ASSUME flowCalm'
      PROVE  /\ \A v, u \in Workers : flowReq'[v].pc # "idle" /\ flowReq'[u].pc # "idle" => v = u
             /\ \A v \in Workers : flowReq'[v].pc # "idle" => Progress(flowReq[v])'
             /\ \A t \in Templates : template[t] # "NONE" =>
                  \/ \E v \in Workers : flowReq'[v].pc # "idle" /\ flowReq'[v].template = t
                  \/ Complete(t)'
  <2>1. /\ \A v \in Workers : v # w => flowReq[v].pc = "idle"
        /\ \A t \in Templates : template[t] # "NONE" => t = g.template \/ Complete(t)
    BY <1>4 DEF FlowInv, AloneAtWork
  <2>2. \A v \in Workers : v # w => flowReq'[v].pc = "idle" BY <1>2, <2>1
  <2>3. ASSUME NEW v \in Workers, flowReq'[v].pc # "idle" PROVE Progress(flowReq[v])'
    <3>1. flowReq'[v] = h BY <1>2, <2>2, <2>3
    <3>2. Progress(h)' BY <1>4, <2>3, <3>1
    <3> QED BY <3>1, <3>2 DEF Progress, W!Placed, W!StagesOf
  <2>4. ASSUME NEW t \in Templates, template[t] # "NONE"
        PROVE  \/ \E v \in Workers : flowReq'[v].pc # "idle" /\ flowReq'[v].template = t
               \/ Complete(t)'
    <3>1. CASE t # g.template BY <2>1, <2>4, <3>1, OthersComplete
    <3>2. CASE t = g.template
      <4>1. CASE h.pc = "idle" BY <1>4, <3>2, <4>1 DEF Complete
      <4>2. CASE h.pc # "idle" BY <1>2, <1>4, <3>2, <4>2
      <4> QED BY <4>1, <4>2
    <3> QED BY <3>1, <3>2
  <2> QED BY <2>2, <2>3, <2>4
<1>5. AloneAtWork' BY <1>4 DEF AloneAtWork
<1>6. OneFiller' BY <1>2, FlowFacts DEF OneFiller
<1> QED BY <1>1, <1>3, <1>5, <1>6 DEF FlowInv

-----------------------------------------------------------------------------
\* A handler is done with the stages up to g.order.
LEMMA StageDone ==
  ASSUME FlowInv, NEW w \in Workers, NEW g \in FlowHandler, g = flowReq[w], g.pc # "idle",
         g.order \in 0..Len(g.plan), W!NextStage(w),
         UNCHANGED <<template, given, flowCalm>>, stage' \in [Stages -> StageRow],
         \A s \in Stages : StageOK(s)', OthersKept(w), OnlyOf(g.template),
         flowCalm => W!Placed(W!StagesOf(g.template), g.plan, g.order)'
  PROVE  FlowInv'
<1>1. PICK h : h = IF g.order = Len(g.plan) THEN W!Idle
                   ELSE [g EXCEPT !.pc = "stage", !.order = g.order + 1, !.stage = Nil, !.done = 0]
  OBVIOUS
<1>2. flowReq' = [flowReq EXCEPT ![w] = h] BY <1>1 DEF W!NextStage
<1>3. /\ AtWork(g) /\ g.template \in Templates /\ g.plan \in Plans
      /\ g.plan \in GivenFor(g.template) /\ g.order \in Nat /\ Len(g.plan) \in Nat
  BY FlowFacts, PlanTyped DEF AtWork, FlowHandler
<1>4. flowCalm => g.plan = Head(given[g.template])
  BY DEF FlowInv, AloneAtWork, Progress
<1>5. CASE g.order = Len(g.plan)
  <2>1. h = W!Idle BY <1>1, <1>5
  <2>2. AtWork(h)' BY <2>1, FlowIdle DEF AtWork
  <2>3. flowCalm' => Complete(g.template)'
    BY <1>4, <1>5 DEF Complete, W!Placed, W!StagesOf
  <2>4. h.stage \notin Stages BY <2>1, FlowIdle, TemplatesAssumption
  <2> QED BY <1>2, <2>1, <2>2, <2>3, <2>4, FlowIdle, FlowFacts, FlowMoves
<1>6. CASE g.order # Len(g.plan)
  <2>0. PICK n \in Nat : n = g.order + 1 BY <1>3
  <2>. h = [g EXCEPT !.pc = "stage", !.order = n, !.stage = Nil, !.done = 0]
    BY <1>1, <1>6, <2>0
  <2>1. /\ h \in FlowHandler /\ h.pc = "stage" /\ h.template = g.template /\ h.plan = g.plan
        /\ h.order = g.order + 1 /\ h.done = 0 /\ h.stage \notin Stages
    BY <2>0, TemplatesAssumption DEF FlowHandler
  <2>2. AtWork(h)' BY <1>3, <1>6, <2>1 DEF AtWork, GivenFor
  <2>3. PICK R : R = W!StagesOf(g.template)' OBVIOUS
  <2>4. ASSUME flowCalm PROVE Progress(h)'
    <3>1. W!Placed(R, g.plan, g.order)' BY <2>3, <2>4 DEF W!Placed
    <3>2. W!StagesOf(h.template)' = R BY <2>1, <2>3 DEF W!StagesOf
    <3>3. h.order - 1 = g.order BY <1>3, <2>1
    <3>4. W!Placed(W!StagesOf(h.template), h.plan, h.order - 1)'
      BY <2>1, <3>1, <3>2, <3>3 DEF W!Placed
    <3> QED BY <1>4, <2>1, <2>4, <3>4 DEF Progress
  <2> QED BY <1>2, <2>1, <2>2, <2>4, FlowFacts, FlowMoves
<1> QED BY <1>5, <1>6

LEMMA StagesDeleted ==
  ASSUME FlowInv, NEW w \in Workers, W!DeleteStages(w)
  PROVE  FlowInv'
<1>1. PICK g : g = flowReq[w] OBVIOUS
<1>2. /\ g \in FlowHandler /\ g.pc = "delete" /\ AtWork(g) /\ W!NextStage(w)
      /\ UNCHANGED <<template, given, flowCalm>>
  BY <1>1, FlowFacts DEF W!DeleteStages, W!At
<1>3. g.template \in Templates /\ g.plan \in Plans /\ g.order = 0 BY <1>2 DEF AtWork
<1>4. PICK R : R = W!StagesOf(g.template) OBVIOUS
<1>5. /\ stage' = [s \in Stages |-> stage'[s]]
      /\ \A s \in Stages : stage'[s] = IF s \in R THEN W!NoStage ELSE stage[s]
  BY <1>1, <1>4 DEF W!DeleteStages
<1>6. stage' \in [Stages -> StageRow] BY <1>5, FlowIdle, FlowFacts
<1>7. ASSUME NEW s \in Stages PROVE StageOK(s)'
  BY <1>2, <1>5, FlowFacts DEF StageOK, GivenFor
<1>8. OthersKept(w)
  <2> SUFFICES ASSUME NEW v \in Workers \ {w}, flowReq[v].pc = "assign",
                      NEW s \in Stages, s = flowReq[v].stage, stage'[s] # W!NoStage
               PROVE  stage[s] # W!NoStage /\ stage'[s] = stage[s]
    BY FlowFacts DEF OthersKept, AtWork
  <2> QED BY <1>5
<1>9. OnlyOf(g.template) BY <1>4, <1>5, FlowIdle DEF OnlyOf, W!StagesOf
<1>10. W!Placed(W!StagesOf(g.template), g.plan, g.order)'
  <2>1. W!StagesOf(g.template)' = {}
    BY <1>3, <1>4, <1>5, FlowIdle, TemplatesAssumption DEF W!StagesOf
  <2> QED BY <1>3, <2>1, NonePlaced DEF W!Placed
<1>11. g.order \in 0..Len(g.plan) BY <1>3, PlanTyped
<1> QED BY <1>1, <1>2, <1>6, <1>7, <1>8, <1>9, <1>10, <1>11, StageDone

\* A request that fails, or is refused an assignee named twice.
LEMMA FlowFails ==
  ASSUME FlowInv, NEW w \in Workers, flowReq[w].pc # "idle", W!Return(w),
         UNCHANGED <<template, stage, given>>, flowCalm' = FALSE
  PROVE  FlowInv'
<1>1. flowReq' = [flowReq EXCEPT ![w] = W!Idle] BY DEF W!Return
<1>2. AtWork(W!Idle)' BY FlowIdle DEF AtWork
<1>3. \A s \in Stages : StageOK(s)' BY FlowFacts DEF StageOK, GivenFor
<1>4. OthersKept(w) BY FlowFacts DEF OthersKept, AtWork
<1>5. OnlyOf(flowReq[w].template) BY DEF OnlyOf
<1>6. W!Idle.stage \notin Stages BY FlowIdle, TemplatesAssumption
<1> QED BY <1>6, <1>1, <1>2, <1>3, <1>4, <1>5, FlowIdle, FlowFacts, FlowMoves

\* A new row, under an id that no handler has.
LEMMA StageCreated ==
  ASSUME FlowInv, NEW w \in Workers, NEW s \in Stages, W!CreateStage(w, s)
  PROVE  FlowInv'
<1>1. PICK g : g = flowReq[w] OBVIOUS
<1>2. /\ g \in FlowHandler /\ g.pc = "stage" /\ AtWork(g)
      /\ UNCHANGED <<template, given, flowCalm>>
      /\ stage[s] = W!NoStage /\ \A v \in Workers : flowReq[v].stage # s
  BY <1>1, FlowFacts DEF W!CreateStage, W!At
<1>3. /\ g.template \in Templates /\ g.plan \in Plans /\ g.order \in 1..Len(g.plan)
      /\ g.plan \in GivenFor(g.template) /\ g.order \in DOMAIN g.plan /\ Nil # g.template
      /\ Len(g.plan) \in Nat /\ g.order \in Nat \ {0}
      /\ g.plan[g.order] \in Seq(Admins)
  BY <1>2, PlanTyped, TemplatesAssumption DEF AtWork
<1>4. PICK r : r = [W!NoStage EXCEPT !.template = g.template, !.order = g.order] OBVIOUS
<1>5. /\ r \in StageRow /\ r.template = g.template /\ r.order = g.order /\ r.assignees = {}
  BY <1>3, <1>4 DEF W!NoStage, StageRow
<1>6. stage' = [stage EXCEPT ![s] = r] BY <1>1, <1>4 DEF W!CreateStage
<1>7. /\ stage' \in [Stages -> StageRow] /\ stage'[s] = r
      /\ \A q \in Stages : q # s => stage'[q] = stage[q]
  BY <1>5, <1>6, FlowFacts
<1>8. ASSUME NEW q \in Stages PROVE StageOK(q)'
  <2>1. CASE q = s
    BY <1>2, <1>3, <1>5, <1>7, <2>1 DEF StageOK, GivenFor
  <2>2. CASE q # s BY <1>2, <1>7, <2>2, FlowFacts DEF StageOK, GivenFor
  <2> QED BY <2>1, <2>2
<1>9. OthersKept(w)
  BY <1>2, <1>7, FlowFacts DEF OthersKept, AtWork
<1>10. OnlyOf(g.template) BY <1>2, <1>5, <1>7, FlowIdle DEF OnlyOf
<1>11. PICK R : R = W!StagesOf(g.template) OBVIOUS
<1>12. /\ s \notin R /\ W!StagesOf(g.template)' = R \cup {s} /\ \A q \in R : stage'[q] = stage[q]
  BY <1>2, <1>3, <1>5, <1>7, <1>11, FlowIdle DEF W!StagesOf
<1>13. flowCalm => /\ g.plan = Head(given[g.template])
                   /\ W!Placed(R, g.plan, g.order - 1)'
  <2>1. flowCalm => Progress(g) BY <1>1, <1>2 DEF FlowInv, AloneAtWork
  <2> QED BY <1>2, <1>11, <1>12, <2>1, PlacedKept DEF Progress
<1>14. CASE g.plan[g.order] = <<>>
  <2>1. W!NextStage(w) BY <1>1, <1>14 DEF W!CreateStage
  <2>2. W!Elements(g.plan[g.order]) = {} BY <1>14 DEF W!Elements
  <2>3. flowCalm => W!Placed(R \cup {s}, g.plan, g.order)'
    BY <1>3, <1>5, <1>7, <1>12, <1>13, <2>2, OneMorePlaced
  <2>4. flowCalm => W!Placed(W!StagesOf(g.template), g.plan, g.order)'
    BY <1>12, <2>3 DEF W!Placed
  <2>5. g.order \in 0..Len(g.plan) BY <1>3
  <2> QED BY <1>1, <1>2, <1>7, <1>8, <1>9, <1>10, <2>1, <2>4, <2>5, StageDone
<1>15. CASE g.plan[g.order] # <<>>
  <2>1. PICK h : h = [g EXCEPT !.pc = "assign", !.stage = s] OBVIOUS
  <2>2. flowReq' = [flowReq EXCEPT ![w] = h]
    BY <1>1, <1>15, <2>1 DEF W!CreateStage
  <2>3. /\ h \in FlowHandler /\ h.pc = "assign" /\ h.template = g.template /\ h.plan = g.plan
        /\ h.order = g.order /\ h.stage = s /\ h.done = 0
    BY <1>2, <2>1 DEF FlowHandler, AtWork
  <2>4. 0 < Len(g.plan[g.order]) BY <1>3, <1>15
  <2>5. AtWork(h)' BY <1>2, <1>3, <1>5, <1>7, <2>3, <2>4 DEF AtWork, GivenFor
  <2>6. ASSUME flowCalm PROVE Progress(h)'
    <3>1. W!StagesOf(h.template)' = R \cup {s} BY <1>12, <2>3
    <3>2. W!StagesOf(h.template)' \ {h.stage} = R BY <1>12, <2>3, <3>1
    <3>3. W!Placed(W!StagesOf(h.template) \ {h.stage}, h.plan, h.order - 1)'
      BY <1>13, <2>3, <2>6, <3>2 DEF W!Placed
    <3>4. stage'[h.stage].assignees = {h.plan[h.order][j] : j \in 1..h.done}
      BY <1>5, <1>7, <2>3
    <3>5. h.plan = Head(given'[h.template]) BY <1>2, <1>13, <2>3, <2>6
    <3>6. h.stage \in W!StagesOf(h.template)' BY <2>3, <3>1
    <3> QED BY <1>5, <1>7, <2>3, <3>3, <3>4, <3>5, <3>6 DEF Progress
  <2> QED BY <1>1, <1>2, <1>7, <1>8, <1>9, <1>10, <2>2, <2>3, <2>5, <2>6, FlowFacts, FlowMoves
<1> QED BY <1>14, <1>15

-----------------------------------------------------------------------------
\* The next assignee of the stage at hand; the stage is done with its last one.
LEMMA Assigned ==
  ASSUME FlowInv, NEW w \in Workers, W!Assign(w)
  PROVE  FlowInv'
<1>1. PICK g : g = flowReq[w] OBVIOUS
<1>2. PICK s : s = g.stage OBVIOUS
<1>3. PICK a : a = g.plan[g.order][g.done + 1] OBVIOUS
<1>4. /\ g \in FlowHandler /\ g.pc = "assign" /\ AtWork(g)
      /\ UNCHANGED <<template, given>>
  BY <1>1, FlowFacts DEF W!Assign, W!At
<1>5. /\ g.template \in Templates /\ g.plan \in Plans /\ g.order \in 1..Len(g.plan)
      /\ g.plan \in GivenFor(g.template) /\ g.order \in DOMAIN g.plan /\ Nil # g.template
      /\ Len(g.plan) \in Nat /\ g.order \in Nat \ {0} /\ g.done \in Nat
      /\ g.plan[g.order] \in Seq(Admins) /\ g.done + 1 \in 1..Len(g.plan[g.order])
      /\ s \in Stages /\ DOMAIN g.plan[g.order] = 1..Len(g.plan[g.order])
  <2>1. g.done \in Nat /\ g.done < Len(g.plan[g.order]) BY <1>4 DEF AtWork, FlowHandler
  <2> QED BY <1>2, <1>4, <2>1, PlanTyped, TemplatesAssumption DEF AtWork
<1>6. CASE stage[s] = W!NoStage \/ a \in stage[s].assignees
  BY <1>1, <1>2, <1>3, <1>4, <1>6, FlowFails DEF W!Assign
<1>7. CASE ~(stage[s] = W!NoStage \/ a \in stage[s].assignees)
  <2>1. PICK r : r = [stage[s] EXCEPT !.assignees = stage[s].assignees \cup {a}] OBVIOUS
  <2>2. stage' = [stage EXCEPT ![s] = r] /\ UNCHANGED flowCalm
    BY <1>1, <1>2, <1>3, <1>7, <2>1 DEF W!Assign
  <2>3. /\ stage[s] \in StageRow /\ stage[s].template = g.template
        /\ stage[s].order = g.order
        /\ stage[s].assignees \subseteq W!Elements(g.plan[g.order])
    BY <1>2, <1>4, <1>5, <1>7, FlowFacts DEF AtWork
  <2>4. a \in W!Elements(g.plan[g.order]) /\ a \in Admins
    BY <1>3, <1>5 DEF W!Elements
  <2>5. /\ r \in StageRow /\ r.template = g.template /\ r.order = g.order
        /\ r.assignees = stage[s].assignees \cup {a}
        /\ r.assignees \subseteq W!Elements(g.plan[g.order])
    BY <2>1, <2>3, <2>4 DEF StageRow
  <2>6. /\ stage' \in [Stages -> StageRow] /\ stage'[s] = r
        /\ \A q \in Stages : q # s => stage'[q] = stage[q]
    BY <1>5, <2>2, <2>5, FlowFacts
  <2>7. ASSUME NEW q \in Stages PROVE StageOK(q)'
    <3>1. CASE q = s BY <1>4, <1>5, <2>5, <2>6, <3>1 DEF StageOK, GivenFor
    <3>2. CASE q # s BY <1>4, <2>6, <3>2, FlowFacts DEF StageOK, GivenFor
    <3> QED BY <3>1, <3>2
  <2>8. \A v \in Workers \ {w} : flowReq[v].stage # s
    BY <1>1, <1>2, <1>5, FlowFacts DEF OneFiller
  <2>9. OthersKept(w) BY <2>6, <2>8, FlowFacts DEF OthersKept, AtWork
  <2>10. OnlyOf(g.template) BY <2>3, <2>5, <2>6 DEF OnlyOf
  <2>11. PICK R : R = W!StagesOf(g.template) \ {s} OBVIOUS
  <2>12. /\ s \notin R /\ W!StagesOf(g.template)' = R \cup {s}
         /\ \A q \in R : stage'[q] = stage[q]
    BY <1>5, <2>3, <2>5, <2>6, <2>11 DEF W!StagesOf
  <2>13. ASSUME flowCalm
         PROVE  /\ g.plan = Head(given[g.template])
                /\ W!Placed(R, g.plan, g.order - 1)'
                /\ r.assignees = {g.plan[g.order][j] : j \in 1..(g.done + 1)}
    <3>1. Progress(g) BY <1>1, <1>4, <2>13 DEF FlowInv, AloneAtWork
    <3>2. W!Placed(R, g.plan, g.order - 1) BY <1>2, <1>4, <2>11, <3>1 DEF Progress
    <3>3. W!Placed(R, g.plan, g.order - 1)' BY <2>12, <3>2, PlacedKept
    <3>4. stage[s].assignees = {g.plan[g.order][j] : j \in 1..g.done}
      BY <1>2, <1>4, <3>1 DEF Progress
    <3>5. 1..(g.done + 1) = (1..g.done) \cup {g.done + 1} BY <1>5
    <3> QED BY <1>3, <1>4, <2>5, <3>1, <3>3, <3>4, <3>5 DEF Progress
  <2>14. CASE g.done + 1 = Len(g.plan[g.order])
    <3>1. W!NextStage(w) BY <1>1, <1>2, <1>3, <1>7, <2>14 DEF W!Assign
    <3>2. flowCalm => r.assignees = W!Elements(g.plan[g.order])
      BY <1>5, <2>13, <2>14 DEF W!Elements
    <3>3. flowCalm => W!Placed(R \cup {s}, g.plan, g.order)'
      BY <1>5, <2>5, <2>6, <2>12, <2>13, <3>2, OneMorePlaced
    <3>4. flowCalm => W!Placed(W!StagesOf(g.template), g.plan, g.order)'
      BY <2>12, <3>3 DEF W!Placed
    <3>5. g.order \in 0..Len(g.plan) BY <1>5
    <3> QED BY <1>1, <1>4, <2>2, <2>6, <2>7, <2>9, <2>10, <3>1, <3>4, <3>5, StageDone
  <2>15. CASE g.done + 1 # Len(g.plan[g.order])
    <3>1. PICK n \in Nat : n = g.done + 1 BY <1>5
    <3>2. PICK h : h = [g EXCEPT !.done = n] OBVIOUS
    <3>3. flowReq' = [flowReq EXCEPT ![w] = h]
      BY <1>1, <1>2, <1>3, <1>7, <2>15, <3>1, <3>2 DEF W!Assign
    <3>4. /\ h \in FlowHandler /\ h.pc = "assign" /\ h.template = g.template
          /\ h.plan = g.plan /\ h.order = g.order /\ h.stage = s /\ h.done = n
      BY <1>2, <1>4, <3>2 DEF FlowHandler
    <3>5. n < Len(g.plan[g.order]) BY <1>5, <2>15, <3>1
    <3>6. AtWork(h)'
      BY <1>4, <1>5, <2>5, <2>6, <3>4, <3>5 DEF AtWork, GivenFor
    <3>7. ASSUME flowCalm PROVE Progress(h)'
      <4>1. W!StagesOf(h.template)' = R \cup {s} BY <2>12, <3>4
      <4>2. W!StagesOf(h.template)' \ {h.stage} = R BY <2>12, <3>4, <4>1
      <4>3. W!Placed(W!StagesOf(h.template) \ {h.stage}, h.plan, h.order - 1)'
        BY <2>13, <3>4, <3>7, <4>2 DEF W!Placed
      <4>4. stage'[h.stage].assignees = {h.plan[h.order][j] : j \in 1..h.done}
        BY <2>6, <2>13, <3>1, <3>4, <3>7
      <4>5. h.plan = Head(given'[h.template]) BY <1>4, <2>13, <3>4, <3>7
      <4>6. h.stage \in W!StagesOf(h.template)' BY <3>4, <4>1
      <4> QED BY <2>5, <2>6, <3>4, <4>3, <4>4, <4>5, <4>6 DEF Progress
    <3> QED BY <1>1, <1>4, <2>2, <2>6, <2>7, <2>8, <2>9, <2>10, <3>3, <3>4, <3>6, <3>7,
               FlowFacts, FlowMoves
  <2> QED BY <2>14, <2>15
<1> QED BY <1>6, <1>7

-----------------------------------------------------------------------------
\* A request for template t begins with a plan, or ends with none to place.
LEMMA FlowCalled ==
  ASSUME FlowInv, NEW w \in Workers, NEW t \in Templates, NEW plan \in Plans,
         NEW h \in FlowHandler, W!Call(w, h), UNCHANGED stage,
         template' \in [Templates -> {"NONE", "ACTIVE", "DRAFT", "ARCHIVED"}],
         template'[t] # "NONE", \A u \in Templates \ {t} : template'[u] = template[u],
         given' = [given EXCEPT ![t] = <<plan>> \o given[t]],
         h.stage = Nil,
         \/ /\ h = W!Idle /\ plan = <<>> /\ template[t] = "NONE"
         \/ /\ h.template = t /\ h.plan = plan
            /\ \/ h.pc = "delete" /\ h.order = 0
               \/ h.pc = "stage" /\ h.order = 1 /\ h.done = 0 /\ plan # <<>> /\ template[t] = "NONE"
  PROVE  FlowInv'
<1>1. /\ flowReq' = [flowReq EXCEPT ![w] = h] /\ flowReq[w].pc = "idle"
      /\ flowCalm' = (flowCalm /\ \A v \in Workers : flowReq[v].pc = "idle")
  BY DEF W!Call, W!At
<1>2. /\ flowReq'[w] = h /\ \A v \in Workers : v # w => flowReq'[v] = flowReq[v]
  BY <1>1, FlowFacts
<1>3. PICK p : p = <<plan>> \o given[t] OBVIOUS
<1>4. /\ p \in Seq(Plans) /\ Head(p) = plan /\ plan \in W!Elements(p) /\ p # <<>>
      /\ \A q \in W!Elements(given[t]) : q \in W!Elements(p)
  <2>1. given[t] \in Seq(Plans) BY FlowFacts
  <2> QED BY <1>3, <2>1, PlanPushed
<1>5. /\ given' \in [Templates -> Seq(Plans)] /\ given'[t] = p
      /\ \A u \in Templates \ {t} : given'[u] = given[u]
  BY <1>3, <1>4, FlowFacts
<1>6. \A u \in Templates : \A q \in GivenFor(u) : q \in GivenFor(u)'
  BY <1>4, <1>5 DEF GivenFor
<1>7. FlowTyped'
  <2>1. flowReq' \in [Workers -> FlowHandler] BY <1>1, FlowFacts
  <2>2. flowCalm' \in BOOLEAN BY <1>1
  <2>3. \A u \in Templates : template'[u] = "NONE" <=> given'[u] = <<>>
    BY <1>4, <1>5, FlowFacts
  <2> QED BY <1>5, <2>1, <2>2, <2>3, FlowFacts DEF FlowTyped
<1>8. ASSUME NEW s \in Stages PROVE StageOK(s)'
  BY <1>6, FlowFacts DEF StageOK
<1>9. ASSUME NEW v \in Workers PROVE AtWork(flowReq[v])'
  <2>1. CASE v = w
    <3>1. CASE h = W!Idle BY <1>2, <2>1, <3>1, FlowIdle DEF AtWork
    <3>2. CASE h # W!Idle
      <4>1. h.template = t /\ h.plan = plan BY <3>2
      <4>2. h.plan \in GivenFor(h.template)' BY <1>4, <1>5, <4>1 DEF GivenFor
      <4>3. h.pc = "stage" => h.order \in 1..Len(h.plan)
        BY <4>1, <3>2, PlanTyped
      <4>4. AtWork(h)' BY <3>2, <4>1, <4>2, <4>3 DEF AtWork
      <4> QED BY <1>2, <2>1, <4>4 DEF AtWork
    <3> QED BY <3>1, <3>2
  <2>2. CASE v # w
    <3>1. PICK k : k = flowReq[v] OBVIOUS
    <3>2. AtWork(k) BY <3>1, FlowFacts
    <3>3. k.pc # "idle" => k.plan \in GivenFor(k.template)' BY <1>6, <3>2 DEF AtWork
    <3>4. AtWork(k)' BY <3>2, <3>3 DEF AtWork
    <3> QED BY <1>2, <2>2, <3>1, <3>4 DEF AtWork
  <2> QED BY <2>1, <2>2
<1>10. OneFiller'
  <2> SUFFICES ASSUME NEW v \in Workers, NEW u \in Workers, v # u, flowReq'[u].stage \in Stages
               PROVE  flowReq'[v].stage # flowReq'[u].stage
    BY DEF OneFiller
  <2>1. flowReq'[w].stage \notin Stages BY <1>2, TemplatesAssumption
  <2>2. u # w /\ flowReq'[u] = flowReq[u] BY <1>2, <2>1
  <2>3. CASE v = w BY <2>1, <2>3
  <2>4. CASE v # w BY <1>2, <2>2, <2>4, FlowFacts DEF OneFiller
  <2> QED BY <2>3, <2>4
<1>11. ASSUME flowCalm'
       PROVE  /\ \A v, u \in Workers : flowReq'[v].pc # "idle" /\ flowReq'[u].pc # "idle" => v = u
              /\ \A v \in Workers : flowReq'[v].pc # "idle" => Progress(flowReq[v])'
              /\ \A u \in Templates : template'[u] # "NONE" =>
                   \/ \E v \in Workers : flowReq'[v].pc # "idle" /\ flowReq'[v].template = u
                   \/ Complete(u)'
  <2>1. flowCalm /\ \A v \in Workers : flowReq[v].pc = "idle" BY <1>1, <1>11, FlowFacts
  <2>2. \A v \in Workers : v # w => flowReq'[v].pc = "idle" BY <1>2, <2>1
  <2>3. \A u \in Templates : template[u] # "NONE" => Complete(u)
    BY <2>1 DEF FlowInv, AloneAtWork
  <2>4. template[t] = "NONE" => W!StagesOf(t)' = {}
    BY StagesHaveTemplate DEF W!StagesOf
  <2>5. ASSUME NEW u \in Templates, u # t, template'[u] # "NONE" PROVE Complete(u)'
    <3>1. PICK R : R = W!StagesOf(u) OBVIOUS
    <3>2. PICK q : q = Head(given[u]) OBVIOUS
    <3>3. Head(given'[u]) = q /\ W!StagesOf(u)' = R
      BY <1>5, <2>5, <3>1, <3>2 DEF W!StagesOf
    <3>4. W!Placed(R, q, Len(q))
      BY <2>3, <2>5, <3>1, <3>2 DEF Complete
    <3>5. W!Placed(R, q, Len(q))' BY <3>4, PlacedKept
    <3> QED BY <3>3, <3>5 DEF Complete, W!Placed
  <2>6. ASSUME h.pc # "idle" PROVE Progress(h)'
    <3>1. h.template = t /\ h.plan = plan BY <2>6, FlowIdle
    <3>2. h.plan = Head(given'[h.template]) BY <1>4, <1>5, <3>1
    <3>3. h.pc = "stage" => W!Placed(W!StagesOf(h.template), h.plan, h.order - 1)'
      BY <2>4, <3>1, FlowIdle, NonePlaced DEF W!Placed
    <3>4. h.pc # "assign" BY FlowIdle
    <3> QED BY <3>2, <3>3, <3>4 DEF Progress
  <2>7. ASSUME h.pc = "idle" PROVE Complete(t)'
    <3>1. plan = <<>> /\ template[t] = "NONE" BY <2>7
    <3>2. Head(given'[t]) = <<>> BY <1>4, <1>5, <3>1
    <3> QED BY <2>4, <3>1, <3>2, NonePlaced DEF Complete, W!Placed
  <2>8. ASSUME NEW v \in Workers, flowReq'[v].pc # "idle" PROVE Progress(flowReq[v])'
    <3>1. v = w /\ flowReq'[v] = h BY <1>2, <2>2, <2>8
    <3>2. Progress(h)' BY <2>6, <2>8, <3>1
    <3> QED BY <3>1, <3>2 DEF Progress, W!Placed, W!StagesOf
  <2>9. h.pc # "idle" => h.template = t BY FlowIdle
  <2> QED BY <1>2, <2>2, <2>5, <2>7, <2>8, <2>9
<1>12. AloneAtWork' BY <1>11 DEF AloneAtWork
<1> QED BY <1>7, <1>8, <1>9, <1>10, <1>12 DEF FlowInv

-----------------------------------------------------------------------------
LEMMA TemplateWritten ==
  ASSUME FlowInv, NEW w \in Workers, NEW t \in Templates, NEW plan \in Plans,
         \/ \E status \in {"ACTIVE", "DRAFT"} : W!CreateTemplate(w, t, plan, status)
         \/ W!UpdateTemplate(w, t, plan)
  PROVE  FlowInv'
<1>1. ASSUME NEW status \in {"ACTIVE", "DRAFT"}, W!CreateTemplate(w, t, plan, status)
      PROVE  FlowInv'
  <2>1. PICK h : h = IF plan = <<>> THEN W!Idle
                     ELSE [W!Idle EXCEPT !.pc = "stage", !.template = t, !.plan = plan, !.order = 1]
    OBVIOUS
  <2>2. /\ template[t] = "NONE" /\ W!Call(w, h) /\ UNCHANGED stage
        /\ template' = [template EXCEPT ![t] = status] /\ given' = [given EXCEPT ![t] = <<plan>>]
    BY <1>1, <2>1 DEF W!CreateTemplate
  <2>3. given[t] = <<>> BY <2>2, FlowFacts
  <2>4. <<plan>> = <<plan>> \o given[t] BY <2>3
  <2>5. /\ h \in FlowHandler /\ h.stage = Nil
        /\ plan = <<>> => h = W!Idle
        /\ plan # <<>> => /\ h.template = t /\ h.plan = plan /\ h.pc = "stage"
                          /\ h.order = 1 /\ h.done = 0
    BY <2>1, FlowIdle DEF W!Idle, FlowHandler
  <2>6. /\ template' \in [Templates -> {"NONE", "ACTIVE", "DRAFT", "ARCHIVED"}]
        /\ template'[t] # "NONE" /\ \A u \in Templates \ {t} : template'[u] = template[u]
    BY <2>2, FlowFacts
  <2> QED BY <2>2, <2>4, <2>5, <2>6, FlowCalled
<1>2. CASE W!UpdateTemplate(w, t, plan)
  <2>1. PICK h : h = [W!Idle EXCEPT !.pc = "delete", !.template = t, !.plan = plan] OBVIOUS
  <2>2. /\ template[t] # "NONE" /\ W!Call(w, h) /\ UNCHANGED <<template, stage>>
        /\ given' = [given EXCEPT ![t] = <<plan>> \o given[t]]
    BY <1>2, <2>1 DEF W!UpdateTemplate
  <2>3. /\ h \in FlowHandler /\ h.stage = Nil /\ h.template = t /\ h.plan = plan
        /\ h.pc = "delete" /\ h.order = 0
    BY <2>1 DEF W!Idle, FlowHandler
  <2> QED BY <2>2, <2>3, FlowFacts, FlowCalled
<1> QED BY <1>1, <1>2

\* The status of a template that there is says nothing of its stages.
LEMMA StatusSet ==
  ASSUME FlowInv, UNCHANGED <<stage, flowReq, given, flowCalm>>,
         template' \in [Templates -> {"NONE", "ACTIVE", "DRAFT", "ARCHIVED"}],
         \A t \in Templates : template[t] = "NONE" <=> template'[t] = "NONE"
  PROVE  FlowInv'
<1>1. FlowTyped' BY FlowFacts DEF FlowTyped
<1>2. \A s \in Stages : StageOK(s)' BY FlowFacts DEF StageOK, GivenFor
<1>3. \A w \in Workers : AtWork(flowReq[w])' BY FlowFacts DEF AtWork, GivenFor
<1>4. OneFiller' BY FlowFacts DEF OneFiller
<1>5. AloneAtWork'
  BY DEF FlowInv, AloneAtWork, Progress, Complete, W!Placed, W!StagesOf
<1> QED BY <1>1, <1>2, <1>3, <1>4, <1>5 DEF FlowInv

LEMMA FlowNext == FlowInv /\ [W!Next]_(W!vars) => FlowInv'
<1> SUFFICES ASSUME FlowInv, [W!Next]_(W!vars) PROVE FlowInv'
  OBVIOUS
<1>1. CASE UNCHANGED W!vars BY <1>1, StatusSet, FlowFacts DEF W!vars
<1>2. CASE W!Rest BY <1>2, StatusSet, FlowFacts DEF W!Rest, W!vars
<1>3. ASSUME NEW t \in Templates, NEW status \in {"ACTIVE", "ARCHIVED"}, W!SetStatus(t, status)
      PROVE  FlowInv'
  BY <1>3, StatusSet, FlowFacts DEF W!SetStatus
<1>4. ASSUME NEW w \in Workers, W!StepFails(w) PROVE FlowInv'
  BY <1>4, FlowFails DEF W!StepFails, W!At
<1>5. ASSUME NEW w \in Workers, NEW t \in Templates, NEW plan \in Plans,
             \/ \E status \in {"ACTIVE", "DRAFT"} : W!CreateTemplate(w, t, plan, status)
             \/ W!UpdateTemplate(w, t, plan)
      PROVE  FlowInv'
  BY <1>5, TemplateWritten
<1>6. ASSUME NEW w \in Workers,
             (\E s \in Stages : W!CreateStage(w, s)) \/ W!DeleteStages(w) \/ W!Assign(w)
      PROVE  FlowInv'
  BY <1>6, StageCreated, StagesDeleted, Assigned
<1> QED BY <1>1, <1>2, <1>3, <1>4, <1>5, <1>6 DEF W!Next

\* The templates' inductive invariant: where in which plan every handler is, who
\* fills which stage, and what a request that meets no other has placed.
THEOREM TemplatesInvariant == W!Spec => []FlowInv
BY FlowInit, FlowNext, PTL DEF W!Spec

\* The stages of a template are the last plan given for it as soon as no request is
\* at work (createTemplate, updateTemplate of workflow.service.ts), for any plans,
\* as long as requests neither overlap nor fail.
THEOREM StagesFollowThePlan == W!Spec => []StagesAreThePlan
<1>1. FlowInv => StagesAreThePlan
  <2> SUFFICES ASSUME FlowInv, flowCalm, \A w \in Workers : flowReq[w].pc = "idle",
                      NEW t \in Templates, template[t] # "NONE"
               PROVE  Complete(t)
    BY DEF StagesAreThePlan, W!StagesAreThePlan, W!At, Complete
  <2> QED BY DEF FlowInv, AloneAtWork
<1> QED BY <1>1, TemplatesInvariant, PTL

\* Nobody is assigned to a stage who was not given for its place in a plan of its
\* template, however updates of the template interleave or fail.
THEOREM AssigneesAreGiven == W!Spec => []AssigneesWereGiven
<1>1. FlowInv => AssigneesWereGiven
  BY DEF FlowInv, StageOK, GivenFor, AssigneesWereGiven, W!AssigneesWereGiven
<1> QED BY <1>1, TemplatesInvariant, PTL

-----------------------------------------------------------------------------
(* The whole                                                               *)

\* A step of Configuration is one of the part that focus names, and the other
\* stutters: it implements both.
THEOREM ConfigurationImplements == ConfigurationSpec => Spec /\ W!Spec
<1>1. ConfigurationInit => Init /\ W!Init
  BY DEF ConfigurationInit
<1>2. ASSUME [ConfigurationNext]_<<focus, vars, flowVars>>
      PROVE  [Next]_vars /\ [W!Next]_(W!vars)
  <2>1. UNCHANGED flowVars => UNCHANGED W!vars BY DEF flowVars, W!vars
  <2> QED BY <1>2, <2>1 DEF ConfigurationNext
<1> QED BY <1>1, <1>2, PTL DEF ConfigurationSpec, Spec, W!Spec

\* What the run of Configuration checks, of the whole and for any sets: the cached
\* rates implement fresh ones, and stages are as their plans say.
THEOREM ConfigurationKeeps ==
  ConfigurationSpec => QuotesAreFresh /\ [](StagesAreThePlan /\ AssigneesWereGiven)
BY ConfigurationImplements, CacheImplementsFreshRate, StagesFollowThePlan, AssigneesAreGiven, PTL
=============================================================================
