----------------------------- MODULE RateCache ------------------------------
(***************************************************************************)
(* The exchange rate of one pair of currencies: rows that staff create,    *)
(* change and deactivate through two services, and the payment service's   *)
(* cache of the rate in front of them.  Only one of the two services knows *)
(* of the cache.                                                           *)
(*                                                                         *)
(* The clock counts minutes; a row is valid from and until a minute.       *)
(***************************************************************************)
EXTENDS Integers

CONSTANTS
  Rates,     \* ExchangeRate ids of the pair: a bound on the rows
  Workers,   \* requests in flight at the same time
  TTL,       \* minutes a cached rate lives: 5 in the code
  Delay,     \* minutes a request may take from one statement to the next
  Dates,     \* what a date column may be given, in minutes
  MaxTime    \* a bound on the clock

ASSUME RateCacheAssumption ==
  /\ TTL \in Nat \ {0}
  /\ Delay \in Nat
  /\ Dates \subseteq Nat
  /\ MaxTime \in Nat

VARIABLES
  now,       \* the clock
  row,       \* the ExchangeRate rows
  cache,     \* the key of the pair in Redis: empty, or a rate and its expiry
  req,       \* the handlers in flight
  answer,    \* history: the last quote, and when it was given
  seen       \* history: when each rate was last the database's answer

vars == <<now, row, cache, req, answer, seen>>

MaxAge == TTL + Delay
Fresh == INSTANCE FreshRate

NoRow == [made |-> FALSE, from |-> 0, until |-> 0, active |-> FALSE]
Row == [made : BOOLEAN, from : Nat, until : Nat, active : BOOLEAN]
Empty == {}
Idle == [pc |-> "idle", rate |-> <<>>, since |-> 0]

Init ==
  /\ now = 0
  /\ row = [r \in Rates |-> NoRow]
  /\ cache = Empty
  /\ req = [w \in Workers |-> Idle]
  /\ answer = <<>>
  /\ seen = [r \in Rates |-> Fresh!LongAgo]

At(w, pc) == req[w].pc = pc
Return(w) == req' = [req EXCEPT ![w] = Idle]

\* findFirst of the active rows not yet over, latest validFrom first: a rate
\* scheduled for later is the answer from the moment it is created.
Valid(rows, t) == {r \in Rates : rows[r].active /\ rows[r].until > t}
Best(rows, t) ==
  {r \in Valid(rows, t) : \A q \in Valid(rows, t) : rows[q].from <= rows[r].from}

Observe == seen' = [r \in Rates |-> IF r \in Best(row', now') THEN now' ELSE seen[r]]

-----------------------------------------------------------------------------
(* getExchangeRate                                                         *)

\* A hit is answered at once, a miss goes on to the database.
Lookup(w) ==
  /\ At(w, "idle")
  /\ \/ /\ cache = Empty
        /\ req' = [req EXCEPT ![w] = [pc |-> "query", rate |-> <<>>, since |-> now]]
        /\ UNCHANGED answer
     \/ \E c \in cache :
          /\ answer' = <<c.rate, now>>
          /\ UNCHANGED req
  /\ UNCHANGED <<now, row, cache, seen>>

\* With no row the request ends in NotFoundError.
Query(w) ==
  /\ At(w, "query")
  /\ \/ Best(row, now) = {} /\ Return(w)
     \/ \E r \in Best(row, now) :
          req' = [req EXCEPT ![w] = [pc |-> "fill", rate |-> <<r>>, since |-> now]]
  /\ UNCHANGED <<now, row, cache, answer, seen>>

\* Mutant: every fill extends what is cached already.
FillForGood(w) ==
  /\ At(w, "fill")
  /\ cache' = {[rate |-> req[w].rate[1], until |-> now + TTL + TTL]}
  /\ answer' = <<req[w].rate[1], now>>
  /\ Return(w)
  /\ UNCHANGED <<now, row, seen>>
\* setex with the rate read before, whatever has become of it since.
Fill(w) ==
  /\ At(w, "fill")
  /\ cache' = {[rate |-> req[w].rate[1], until |-> now + TTL]}
  /\ answer' = <<req[w].rate[1], now>>
  /\ Return(w)
  /\ UNCHANGED <<now, row, seen>>

\* The key expires by itself.
Alive(t) == {c \in cache : t < c.until}

\* No request waits longer than Delay for a statement.
Tick ==
  /\ now < MaxTime
  /\ \A w \in Workers : ~At(w, "idle") => now - req[w].since < Delay
  /\ now' = now + 1
  /\ cache' = Alive(now + 1)
  /\ UNCHANGED <<row, req, answer>>
  /\ Observe

-----------------------------------------------------------------------------
(* createExchangeRate of the payment service, and the admin's RateService  *)

\* The row is valid from now on, by the column's default.
CreateRate(w, r, until) ==
  /\ At(w, "idle")
  /\ ~row[r].made
  /\ until > now
  /\ row' = [row EXCEPT ![r] = [made |-> TRUE, from |-> now, until |-> until, active |-> TRUE]]
  /\ req' = [req EXCEPT ![w] = [pc |-> "clear", rate |-> <<>>, since |-> now]]
  /\ UNCHANGED <<now, cache, answer>>
  /\ Observe

\* The row's currencies are made upper case but the key is not: a request in
\* lower case deletes a key that nothing is cached under.
Clear(w) ==
  /\ At(w, "clear")
  /\ cache' \in {Empty, cache}
  /\ Return(w)
  /\ UNCHANGED <<now, row, answer, seen>>

\* Staff may schedule a rate; the cache is left alone here and below.
Schedule(r, from, until) ==
  /\ ~row[r].made
  /\ row' = [row EXCEPT ![r] = [made |-> TRUE, from |-> from, until |-> until, active |-> TRUE]]
  /\ UNCHANGED <<now, cache, req, answer>>
  /\ Observe

Update(r, patched) ==
  /\ row[r].made /\ patched.made
  /\ row' = [row EXCEPT ![r] = patched]
  /\ UNCHANGED <<now, cache, req, answer>>
  /\ Observe

Deactivate(r) == Update(r, [row[r] EXCEPT !.active = FALSE])

\* Redis or the database answers with an error, or the process dies.
StepFails(w) ==
  /\ ~At(w, "idle")
  /\ Return(w)
  /\ UNCHANGED <<now, row, cache, answer, seen>>

Next ==
  \/ \E w \in Workers : Lookup(w) \/ Query(w) \/ Fill(w) \/ Clear(w) \/ StepFails(w)
  \/ Tick
  \/ \E w \in Workers, r \in Rates, u \in Dates : CreateRate(w, r, u)
  \/ \E r \in Rates, f, u \in Dates : Schedule(r, f, u)
  \/ \E r \in Rates, f, u \in Dates, b \in BOOLEAN :
       Update(r, [made |-> TRUE, from |-> f, until |-> u, active |-> b])
  \/ \E r \in Rates : Deactivate(r)

Spec == Init /\ [][Next]_vars

-----------------------------------------------------------------------------
(* Properties                                                              *)

CacheRow == [rate : Rates, until : Nat]
Pcs == {"idle", "query", "fill", "clear"}

\* Every row, the key and every handler in flight have values of their types.
TypeOK ==
  /\ now \in Nat
  /\ row \in [Rates -> Row]
  /\ cache \in SUBSET CacheRow
  /\ \A c, d \in cache : c = d
  /\ req \in [Workers -> [pc : Pcs, rate : {<<>>} \cup {<<r>> : r \in Rates}, since : Nat]]
  /\ answer \in {<<>>} \cup Rates \X Nat
  /\ seen \in [Rates -> Int]

\* A rate in the cache, or on its way to it, was the database's answer no
\* longer ago than the request that read it and the life of the key allow,
\* whatever was created, changed or deleted in between.
CacheInv ==
  /\ \A c \in cache : now < c.until /\ c.until - seen[c.rate] <= MaxAge
  /\ \A w \in Workers :
       /\ ~At(w, "idle") => now - req[w].since \in 0..Delay
       /\ At(w, "fill") => \E r \in Rates : req[w].rate = <<r>> /\ req[w].since <= seen[r]

\* The history of what the database would answer is kept with every change.
SeenInv ==
  /\ \A r \in Rates : seen[r] <= now
  /\ \A r \in Best(row, now) : seen[r] = now

RateInv == TypeOK /\ CacheInv /\ SeenInv

\* Every quote, from the cache or not, was the database's answer at most five
\* minutes and one request ago: the abstract promise.
QuotesAreFresh == Fresh!Spec
=============================================================================
