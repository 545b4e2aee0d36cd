----------------------------- MODULE FreshRate ------------------------------
(***************************************************************************)
(* What the payment service promises of the exchange rate it quotes for a  *)
(* pair of currencies: the database gave that rate as the pair's answer no *)
(* more than MaxAge ago.                                                   *)
(***************************************************************************)
EXTENDS Integers

CONSTANTS
  Rates,     \* ExchangeRate ids
  MaxAge     \* how old the answer may be

VARIABLES
  now,       \* the clock
  seen,      \* when each rate was last the database's answer
  answer     \* the last quote, and when it was given

LongAgo == 0 - MaxAge - 1

Init ==
  /\ now = 0
  /\ seen \in [Rates -> {LongAgo, 0}]
  /\ answer = <<>>

\* Time passes and staff change the rates.
Change ==
  /\ now' \in {now, now + 1}
  /\ seen' = [r \in Rates |-> seen'[r]]
  /\ \A r \in Rates : seen'[r] \in {seen[r], now'}
  /\ UNCHANGED answer

Quote(r) ==
  /\ now - seen[r] <= MaxAge
  /\ answer' = <<r, now>>
  /\ UNCHANGED <<now, seen>>

Next == Change \/ \E r \in Rates : Quote(r)

Spec == Init /\ [][Next]_<<now, seen, answer>>
=============================================================================
