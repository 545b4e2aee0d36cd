--------------------------------- MODULE Otp ---------------------------------
(***************************************************************************)
(* One-time codes: sendOtp writes a code to the OtpLog table and to two    *)
(* keys in Redis, one under the e-mail and one under the code itself;      *)
(* validateOtp takes it back from the first of the three that knows it.    *)
(*                                                                         *)
(* One purpose is modelled: every key and every row carries its purpose.   *)
(* Codes are drawn at random, so two that are sent may be equal.           *)
(***************************************************************************)
EXTENDS Naturals, FiniteSets

CONSTANTS
  Emails,      \* addresses that codes are sent to
  NoEmail,     \* a code sent to a phone, and a validation without e-mail
  Codes,       \* the six digits
  Rows,        \* OtpLog ids: a bound on the codes sent
  Registered,  \* e-mails with a User row
  Workers,     \* requests in flight at the same time
  Life,        \* OTP_EXPIRY_MINUTES
  Delay,       \* minutes a request may take from one statement to the next
  MaxTime,     \* a bound on the clock
  MaxCalls,    \* a bound on the validations
  Nil,         \* no code, no row, no key
  MayFail      \* whether a statement may fail or the process die

VARIABLES
  now,       \* the clock, in minutes
  row,       \* OtpLog rows
  mailKey,   \* otp:<email>:<purpose>, the code last sent there
  codeKey,   \* otp:code:<code>:<purpose>, the e-mail it was last sent to
  verified,  \* the users with emailVerified
  req,       \* the handlers in flight
  calls,     \* history: validations so far
  answer     \* history: the last code accepted, and when it was found

vars == <<now, row, mailKey, codeKey, verified, req, calls, answer>>

Contacts == Emails \cup {NoEmail}
NoRow == [email |-> NoEmail, code |-> Nil, used |-> FALSE, sent |-> 0]
NoKey == {}
Idle == [pc |-> "idle", email |-> NoEmail, code |-> Nil, via |-> "none", row |-> Nil, since |-> 0]

Init ==
  /\ now = 0
  /\ row = [i \in Rows |-> NoRow]
  /\ mailKey = [c \in Contacts |-> NoKey]
  /\ codeKey = [x \in Codes |-> NoKey]
  /\ verified = {}
  /\ req = [w \in Workers |-> Idle]
  /\ calls = 0
  /\ answer = <<>>

At(w, pc) == req[w].pc = pc
Return(w) == req' = [req EXCEPT ![w] = Idle]
Goto(w, pc) == req' = [req EXCEPT ![w] = [req[w] EXCEPT !.pc = pc, !.since = now]]
Call(w, h) ==
  /\ At(w, "idle")
  /\ req' = [req EXCEPT ![w] = [h EXCEPT !.since = now]]

-----------------------------------------------------------------------------
(* sendOtp                                                                 *)

CreateRow(w, i, c, x) ==
  /\ row[i] = NoRow
  /\ Call(w, [Idle EXCEPT !.pc = "mail_key", !.email = c, !.code = x])
  /\ row' = [row EXCEPT ![i] = [email |-> c, code |-> x, used |-> FALSE, sent |-> now]]
  /\ UNCHANGED <<now, mailKey, codeKey, verified, calls, answer>>

SetMailKey(w) ==
  LET h == req[w] IN
  /\ At(w, "mail_key")
  /\ mailKey' = [mailKey EXCEPT ![h.email] = {[code |-> h.code, until |-> now + Life]}]
  /\ Goto(w, "code_key")
  /\ UNCHANGED <<now, row, codeKey, verified, calls, answer>>

\* Mutant: the key is set without its expiry.
SetCodeKeyForGood(w) ==
  LET h == req[w] IN
  /\ At(w, "code_key")
  /\ codeKey' = [codeKey EXCEPT ![h.code] = {[email |-> h.email, until |-> MaxTime + Life]}]
  /\ Return(w)
  /\ UNCHANGED <<now, row, mailKey, verified, calls, answer>>
SetCodeKey(w) ==
  LET h == req[w] IN
  /\ At(w, "code_key")
  /\ codeKey' = [codeKey EXCEPT ![h.code] = {[email |-> h.email, until |-> now + Life]}]
  /\ Return(w)
  /\ UNCHANGED <<now, row, mailKey, verified, calls, answer>>

-----------------------------------------------------------------------------
(* validateOtp                                                             *)

Validate(w, c, x) ==
  /\ calls < MaxCalls /\ calls' = calls + 1
  /\ Call(w, [Idle EXCEPT !.pc = IF c = NoEmail THEN "ask_code_key" ELSE "ask_mail_key",
                          !.email = c, !.code = x])
  /\ UNCHANGED <<now, row, mailKey, codeKey, verified, answer>>

Accept(c, x) == answer' = <<[email |-> c, code |-> x, at |-> now]>>

\* Without an e-mail the code's own key tells whose it is.
AskCodeKey(w) ==
  LET h == req[w] IN
  /\ At(w, "ask_code_key")
  /\ \/ codeKey[h.code] = NoKey /\ Goto(w, "find") /\ UNCHANGED answer
     \/ \E k \in codeKey[h.code] :
          /\ req' = [req EXCEPT ![w] =
               [h EXCEPT !.pc = "drop_code_key", !.email = k.email, !.via = "code", !.since = now]]
          /\ Accept(k.email, h.code)
  /\ UNCHANGED <<now, row, mailKey, codeKey, verified, calls>>

AskMailKey(w) ==
  LET h == req[w]
      hit == \E k \in mailKey[h.email] : k.code = h.code
  IN
  /\ At(w, "ask_mail_key")
  /\ \/ ~hit /\ Goto(w, "find") /\ UNCHANGED answer
     \/ /\ hit
        /\ req' = [req EXCEPT ![w] = [h EXCEPT !.pc = "drop_mail_key", !.via = "mail", !.since = now]]
        /\ Accept(h.email, h.code)
  /\ UNCHANGED <<now, row, mailKey, codeKey, verified, calls>>

\* Whatever code the key holds by now goes with it.
DropMailKey(w) ==
  LET h == req[w] IN
  /\ At(w, "drop_mail_key")
  /\ mailKey' = [mailKey EXCEPT ![h.email] = NoKey]
  /\ Goto(w, IF h.via = "code" THEN "mark" ELSE "drop_code_key")
  /\ UNCHANGED <<now, row, codeKey, verified, calls, answer>>

DropCodeKey(w) ==
  LET h == req[w] IN
  /\ At(w, "drop_code_key")
  /\ codeKey' = [codeKey EXCEPT ![h.code] = NoKey]
  /\ Goto(w, IF h.via = "code" /\ h.email # NoEmail THEN "drop_mail_key" ELSE "mark")
  /\ UNCHANGED <<now, row, mailKey, verified, calls, answer>>

\* Without an e-mail every row of the code is marked, whoever it was sent to.
Mark(w) ==
  LET h == req[w] IN
  /\ At(w, "mark")
  /\ row' = [i \in Rows |->
       IF row[i].code = h.code /\ (h.via = "code" \/ row[i].email = h.email)
       THEN [row[i] EXCEPT !.used = TRUE] ELSE row[i]]
  /\ IF h.via = "mail" THEN Goto(w, "verify") ELSE Return(w)
  /\ UNCHANGED <<now, mailKey, codeKey, verified, calls, answer>>

\* For REGISTRATION; without a user the update throws, with the code spent.
Verify(w) ==
  /\ At(w, "verify")
  /\ verified' = verified \cup (Registered \cap {req[w].email})
  /\ Return(w)
  /\ UNCHANGED <<now, row, mailKey, codeKey, calls, answer>>

Matches(i, c, x) ==
  /\ row[i].code = x /\ ~row[i].used /\ now < row[i].sent + Life
  /\ c # NoEmail => row[i].email = c

\* A refusal counts an attempt, which nothing reads.
Find(w) ==
  LET h == req[w] IN
  /\ At(w, "find")
  /\ \/ /\ \A i \in Rows : ~Matches(i, h.email, h.code)
        /\ Return(w)
        /\ UNCHANGED answer
     \/ \E i \in {j \in Rows : Matches(j, h.email, h.code)} :
          /\ req' = [req EXCEPT ![w] = [h EXCEPT !.pc = "use", !.row = i, !.since = now]]
          /\ Accept(h.email, h.code)
  /\ UNCHANGED <<now, row, mailKey, codeKey, verified, calls>>

\* The keys stay.
Use(w) ==
  /\ At(w, "use")
  /\ row' = [row EXCEPT ![req[w].row] = [row[req[w].row] EXCEPT !.used = TRUE]]
  /\ Return(w)
  /\ UNCHANGED <<now, mailKey, codeKey, verified, calls, answer>>

-----------------------------------------------------------------------------

\* No request waits longer than Delay for a statement.
Tick ==
  /\ now < MaxTime
  /\ \A w \in Workers : ~At(w, "idle") => now - req[w].since < Delay
  /\ now' = now + 1
  /\ mailKey' = [c \in Contacts |-> {k \in mailKey[c] : now' < k.until}]
  /\ codeKey' = [x \in Codes |-> {k \in codeKey[x] : now' < k.until}]
  /\ UNCHANGED <<row, verified, req, calls, answer>>

StepFails(w) ==
  /\ MayFail
  /\ ~At(w, "idle")
  /\ Return(w)
  /\ UNCHANGED <<now, row, mailKey, codeKey, verified, calls, answer>>

\* With no request in flight the service waits.
Rest == (\A w \in Workers : At(w, "idle")) /\ UNCHANGED vars

Next ==
  \/ \E w \in Workers :
       \/ \E i \in Rows, c \in Contacts, x \in Codes : CreateRow(w, i, c, x)
       \/ \E c \in Contacts, x \in Codes : Validate(w, c, x)
       \/ SetMailKey(w) \/ SetCodeKey(w)
       \/ AskCodeKey(w) \/ AskMailKey(w) \/ Find(w)
       \/ DropMailKey(w) \/ DropCodeKey(w) \/ Mark(w) \/ Verify(w) \/ Use(w)
       \/ StepFails(w)
  \/ Tick
  \/ Rest

Spec == Init /\ [][Next]_vars

-----------------------------------------------------------------------------
(* Properties                                                              *)

Sent(c, x, t) ==
  \E i \in Rows : /\ row[i].code = x /\ (c # NoEmail => row[i].email = c)
                  /\ row[i].sent <= t /\ t < row[i].sent + Life + Delay + Delay

\* A code is accepted only if it was sent, to the e-mail it was given with or
\* is taken for, within its life and the time sendOtp took; whichever of the
\* three places knew it, and whatever was sent or taken in between.
AcceptedWasSent == answer = <<>> \/ Sent(answer[1].email, answer[1].code, answer[1].at)
=============================================================================
