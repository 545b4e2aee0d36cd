------------------------------- MODULE Signup --------------------------------
(***************************************************************************)
(* Opening an account: a BVN or a passport is verified and its data kept   *)
(* under a token, and the token is turned into a User row with its         *)
(* UserKyc, by the customer or by an agent for him.  Beside it the plain   *)
(* signup, the KYC update and an agent's change of a customer's phone.     *)
(*                                                                         *)
(* The codes sent in between (Otp) are not recorded anywhere, so they are  *)
(* no step of this module.  The thirty minutes of a token pass by          *)
(* TokenExpires.                                                           *)
(***************************************************************************)
EXTENDS Naturals

CONSTANTS
  Bvns, Passports,  \* documents that can be verified
  Emails, Phones,   \* of the people who ask for accounts
  Holders,          \* <<e-mail, phone>> of each person a service may know
  Users,            \* User ids: a bound on the accounts
  Tokens,           \* a bound on the verification tokens
  Agents,           \* agents who open accounts for customers
  Workers,          \* requests in flight at the same time
  MaxCalls,         \* a bound on the requests
  Nil,              \* no document, no agent, no row
  MayFail           \* whether a statement may fail or the process die

VARIABLES
  user,       \* User and UserKyc rows
  token,      \* bvn:verification:<token> and passport:verification:<token>
  req,        \* the handlers in flight
  calls,      \* history: requests so far
  examined,   \* history: what a service looked at, with the e-mail it answered
  made        \* history: accounts made with each token

vars == <<user, token, req, calls, examined, made>>

Documents == Bvns \cup Passports
NoUser == [email |-> Nil, phone |-> Nil, docs |-> {}, kyc |-> "NONE", agent |-> Nil]
NoToken == [doc |-> Nil, email |-> Nil, phone |-> Nil]
Idle == [pc |-> "idle", data |-> NoToken, token |-> Nil, agent |-> Nil, user |-> Nil]

Init ==
  /\ user = [u \in Users |-> NoUser]
  /\ token = [k \in Tokens |-> NoToken]
  /\ req = [w \in Workers |-> Idle]
  /\ calls = 0
  /\ examined = {}
  /\ made = [k \in Tokens |-> 0]

At(w, pc) == req[w].pc = pc
Return(w) == req' = [req EXCEPT ![w] = Idle]
Goto(w, pc) == req' = [req EXCEPT ![w].pc = pc]
Call(w, h) ==
  /\ At(w, "idle")
  /\ calls < MaxCalls /\ calls' = calls + 1
  /\ req' = [req EXCEPT ![w] = h]

Rows == {u \in Users : user[u] # NoUser}
Known(d) == \E u \in Rows : user[u].email = d.email \/ user[u].phone = d.phone
\* UserKyc.bvn is unique; passportNumber is not.
BvnTaken(d) == d \in Bvns /\ \E u \in Rows : d \in user[u].docs

-----------------------------------------------------------------------------
(* verifyBvnForSignup, verifyPassportForSignup                             *)

\* What of a document is the service's own finding: a BVN is what it was asked
\* for, an image is only that of some passport.
Seen(doc) == IF doc \in Passports THEN Passports ELSE {doc}

\* Of a passport an image is examined, and the caller may type a number, which
\* is preferred to the one in the image and not compared with it.  A holder of
\* the number with an unfinished account gets a session with that account's
\* data, an unknown number one with what the service answers for the image.
VerifyDocument(w, doc, typed) ==
  LET number == IF typed = Nil THEN doc ELSE typed
      holders == {u \in Rows : number \in user[u].docs} IN
  /\ typed = Nil \/ {doc, typed} \subseteq Passports
  /\ \/ \E u \in holders :
          /\ user[u].kyc # "VERIFIED"
          /\ Call(w, [Idle EXCEPT !.pc = "session", !.data =
               [doc |-> number, email |-> user[u].email, phone |-> user[u].phone]])
          /\ UNCHANGED examined
     \/ \E e \in Emails, p \in Phones :
          /\ <<e, p>> \in Holders
          /\ holders = {}
          /\ Call(w, [Idle EXCEPT !.pc = "session", !.data =
               [doc |-> number, email |-> e, phone |-> p]])
          /\ examined' = examined \cup {<<Seen(doc), e>>}
  /\ UNCHANGED <<user, token, made>>

Fresh(k) == token[k] = NoToken /\ made[k] = 0 /\ \A w \in Workers : req[w].token # k

OpenSession(w, k) ==
  /\ At(w, "session")
  /\ Fresh(k)
  /\ token' = [token EXCEPT ![k] = req[w].data]
  /\ Return(w)
  /\ UNCHANGED <<user, calls, examined, made>>

TokenExpires(k) ==
  /\ token[k] # NoToken
  /\ token' = [token EXCEPT ![k] = NoToken]
  /\ UNCHANGED <<user, req, calls, examined, made>>

-----------------------------------------------------------------------------
(* createNigerianAccount, createTouristAccount, createExpatriateAccount    *)

\* The session is read; an agent may ask in place of the customer.
CreateAccount(w, k, a) ==
  /\ token[k] # NoToken
  /\ a # Nil => token[k].doc \in Bvns
  /\ Call(w, [Idle EXCEPT !.pc = "check", !.data = token[k], !.token = k, !.agent = a])
  /\ UNCHANGED <<user, token, examined, made>>

CheckUser(w) ==
  LET d == req[w].data IN
  /\ At(w, "check")
  /\ IF Known(d) THEN Return(w)
     ELSE Goto(w, IF d.doc \in Bvns THEN "check_bvn" ELSE "create")
  /\ UNCHANGED <<user, token, calls, examined, made>>

CheckBvn(w) ==
  /\ At(w, "check_bvn")
  /\ IF BvnTaken(req[w].data.doc) THEN Return(w) ELSE Goto(w, "create")
  /\ UNCHANGED <<user, token, calls, examined, made>>

\* Mutant: every account is made like that of a verified session.
VerifiedAccount(d) ==
  [email |-> d.email, phone |-> d.phone, docs |-> {d.doc} \ {Nil}, agent |-> Nil,
   kyc |-> "VERIFIED"]

Account(d) ==
  [email |-> d.email, phone |-> d.phone, docs |-> {d.doc} \ {Nil}, agent |-> Nil,
   kyc |-> IF d.doc = Nil THEN "NOT_STARTED" ELSE "VERIFIED"]

\* Mutant: e-mails and phones are looked for and not unique.
InsertAnyUser(w, u) ==
  LET h == req[w] IN
  /\ At(w, "create")
  /\ IF BvnTaken(h.data.doc)
     THEN Return(w) /\ UNCHANGED <<user, made>>
     ELSE /\ user[u] = NoUser
          /\ user' = [user EXCEPT ![u] = Account(h.data)]
          /\ req' = [req EXCEPT ![w] =
               IF h.token = Nil THEN Idle ELSE [h EXCEPT !.pc = "spend", !.user = u]]
          /\ made' = [k \in Tokens |-> IF k = h.token THEN made[k] + 1 ELSE made[k]]
  /\ UNCHANGED <<token, calls, examined>>
\* The rows are inserted together; a value taken meanwhile is refused.
InsertUser(w, u) ==
  LET h == req[w] IN
  /\ At(w, "create")
  /\ IF Known(h.data) \/ BvnTaken(h.data.doc)
     THEN Return(w) /\ UNCHANGED <<user, made>>
     ELSE /\ user[u] = NoUser
          /\ user' = [user EXCEPT ![u] = Account(h.data)]
          /\ req' = [req EXCEPT ![w] =
               IF h.token = Nil THEN Idle ELSE [h EXCEPT !.pc = "spend", !.user = u]]
          /\ made' = [k \in Tokens |-> IF k = h.token THEN made[k] + 1 ELSE made[k]]
  /\ UNCHANGED <<token, calls, examined>>

SpendToken(w) ==
  LET h == req[w] IN
  /\ At(w, "spend")
  /\ token' = [token EXCEPT ![h.token] = NoToken]
  /\ IF h.agent = Nil THEN Return(w) ELSE Goto(w, "assign")
  /\ UNCHANGED <<user, calls, examined, made>>

\* A customer type that does not exist is refused with the account made.
Assign(w) ==
  LET h == req[w] IN
  /\ At(w, "assign")
  /\ user' \in {user, [user EXCEPT ![h.user] = [user[h.user] EXCEPT !.agent = h.agent]]}
  /\ Return(w)
  /\ UNCHANGED <<token, calls, examined, made>>

-----------------------------------------------------------------------------
(* signup, verifyKyc, updateAgentCustomerDetails                           *)

SignUp(w, e, p) ==
  LET d == [doc |-> Nil, email |-> e, phone |-> p] IN
  /\ ~Known(d)
  /\ Call(w, [Idle EXCEPT !.pc = "create", !.data = d])
  /\ UNCHANGED <<user, token, examined, made>>

\* A document replaces the one of its kind.
With(docs, doc) ==
  {doc} \cup {d \in docs : ~({d, doc} \subseteq Bvns \/ {d, doc} \subseteq Passports)}

\* Any document may be claimed for a user; nothing is verified.  The route there
\* is hands over no caller and is answered 500 before (Dispatch.Tokenless): this
\* is what the service does once it is called.
VerifyKyc(u, doc) ==
  /\ u \in Rows
  /\ doc \in user[u].docs \/ ~BvnTaken(doc)
  /\ user' = [user EXCEPT ![u] =
       [user[u] EXCEPT !.docs = With(user[u].docs, doc), !.kyc = "PENDING_VERIFICATION"]]
  /\ UNCHANGED <<token, req, calls, examined, made>>

UpdatePhone(u, p) ==
  /\ u \in Rows /\ user[u].agent # Nil
  /\ \A v \in Rows : user[v].phone # p
  /\ user' = [user EXCEPT ![u] = [user[u] EXCEPT !.phone = p]]
  /\ UNCHANGED <<token, req, calls, examined, made>>

StepFails(w) ==
  /\ MayFail
  /\ ~At(w, "idle")
  /\ Return(w)
  /\ UNCHANGED <<user, token, calls, examined, made>>

\* With no request in flight, or no id left for it, the service waits.
Rest ==
  /\ \A w \in Workers :
       \/ At(w, "idle")
       \/ At(w, "session") /\ \A k \in Tokens : ~Fresh(k)
       \/ At(w, "create") /\ Rows = Users
  /\ UNCHANGED vars

Next ==
  \/ \E w \in Workers :
       \/ \E doc \in Documents, typed \in Passports \cup {Nil} : VerifyDocument(w, doc, typed)
       \/ \E k \in Tokens : OpenSession(w, k)
       \/ \E k \in Tokens, a \in Agents \cup {Nil} : CreateAccount(w, k, a)
       \/ \E u \in Users : InsertUser(w, u)
       \/ CheckUser(w) \/ CheckBvn(w) \/ SpendToken(w) \/ Assign(w)
       \/ \E e \in Emails, p \in Phones : SignUp(w, e, p)
       \/ StepFails(w)
  \/ \E k \in Tokens : TokenExpires(k)
  \/ \E u \in Users, doc \in Documents : VerifyKyc(u, doc)
  \/ \E u \in Users, p \in Phones : UpdatePhone(u, p)
  \/ Rest

Spec == Init /\ [][Next]_vars

-----------------------------------------------------------------------------
(* Properties                                                              *)

\* However the sessions of a document, the plain signup and changes of the
\* KYC or the phone interleave, an account counts as verified only with a
\* document, and with an e-mail its service answered: for that very BVN, or for
\* an image of some passport.  The number of a passport is not claimed to be the
\* one in the image (verifyPassportForSignup).
VerifiedWasExamined ==
  \A u \in Rows : user[u].kyc = "VERIFIED" =>
    user[u].docs # {} /\ \A d \in user[u].docs : <<Seen(d), user[u].email>> \in examined

\* A session makes one account, also when it is used twice at once, or its
\* token outlives the account because the deletion failed.
SessionMakesOne == \A k \in Tokens : made[k] <= 1
=============================================================================
