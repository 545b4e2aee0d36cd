---------------------------- MODULE IdentityProofs ---------------------------
(***************************************************************************)
(* What Identity keeps, for any users, agents, tokens, codes, documents    *)
(* and requests: each of its three parts has an inductive invariant, and a *)
(* behaviour of the whole is one of each.  The sessions' own property      *)
(* holds however requests overlap and wherever they fail; those of         *)
(* guesses, tokens and copies as long as they do neither.                  *)
(***************************************************************************)
EXTENDS Identity, TLAPS

-----------------------------------------------------------------------------
(* Sessions                                                                *)

UserRow == [role : {"NONE", "CUSTOMER", "AGENT"}, active : BOOLEAN,
            password : Nat, failed : Nat, lock : {"none", "locked", "past"}]

\* What no step takes back: that a user exists, that he is a customer, and
\* that an agent has a password.
Grows ==
  /\ \A u \in Users : Exists(u) => user'[u].role # "NONE"
  /\ \A u \in Users : user[u].role = "CUSTOMER" => user'[u].role = "CUSTOMER"
  /\ \A u \in Users : copy[u] # 0 => copy'[u] # 0

\* What a request that overlaps with no other keeps of the users and tokens.
Counted == \A u \in Users : CountOK(u)
Copied == \A u \in Users : user[u].role = "AGENT" /\ ~Changing(u) => copy[u] = user[u].password
Spent == \A k \in Tokens : uses[k] <= 1 /\ (token[k] # Nil => uses[k] = 0)

LEMMA Facts ==
  ASSUME SessionsInv
  PROVE  /\ TypeOK /\ RowsOK /\ LockAtLimit /\ SessionsCurrent
         /\ user \in [Users -> UserRow]
         /\ \A w \in Workers : req[w] \in Handler /\ HandlerOK(w)
BY DEF SessionsInv, TypeOK, UserRow

LEMMA Rows ==
  /\ Idle \in Handler /\ Idle.pc = "idle" /\ Idle.user = Nil
  /\ Customer \in UserRow /\ Customer.role = "CUSTOMER" /\ Customer.password = 1
  /\ Customer.failed = 0 /\ Customer.lock = "none"
  /\ NoUser \in UserRow /\ NoUser.role = "NONE" /\ NoUser.password = 0
  /\ NoUser.failed = 0 /\ NoUser.lock = "none"
BY DEF Idle, Handler, Steps, Customer, NoUser, UserRow

LEMMA TypeFromRows ==
  ASSUME user' \in [Users -> UserRow], copy' \in [Users -> Nat],
         session' \in [SessionIds -> [user : Users \cup {Nil}, active : BOOLEAN, password : Nat]],
         token' \in [Tokens -> Users \cup {Nil}], req' \in [Workers -> Handler],
         calls' \in Nat, writes' \in [Users -> Nat], excused' \subseteq SessionIds,
         tries' \in [Users -> Nat], uses' \in [Tokens -> Nat], calm' \in BOOLEAN
  PROVE  TypeOK'
BY DEF TypeOK, UserRow

-----------------------------------------------------------------------------
(* What a step of one handler keeps                                        *)

LEMMA OthersKept ==
  ASSUME SessionsInv, Grows, NEW w \in Workers,
         req' = [req EXCEPT ![w] = req'[w]], HandlerOK(w)'
  PROVE  \A v \in Workers : HandlerOK(v)'
<1> SUFFICES ASSUME NEW v \in Workers, v # w PROVE HandlerOK(v)'
  OBVIOUS
<1>1. req'[v] = req[v] BY Facts DEF TypeOK
<1>2. HandlerOK(v) BY Facts
<1> QED BY <1>1, <1>2 DEF HandlerOK, Grows, Exists

\* A password that a step writes is one whose sessions the handler goes on to
\* end, or they are excused.
LEMMA CurrentKept ==
  ASSUME SessionsInv, NEW w \in Workers, req' = [req EXCEPT ![w] = req'[w]],
         ~At(w, "end"), session' = session, excused \subseteq excused',
         \A s \in SessionIds : session[s].active /\ s \notin excused' =>
           \/ user'[session[s].user].password = user[session[s].user].password
           \/ req'[w].pc = "end" /\ req'[w].user = session[s].user
  PROVE  SessionsCurrent'
<1> SUFFICES ASSUME NEW s \in SessionIds,
                    session[s].active, s \notin excused',
                    session[s].password # user'[session[s].user].password
             PROVE  \E v \in Workers : req'[v].pc = "end" /\ req'[v].user = session[s].user
  BY DEF SessionsCurrent, At
<1>0. req'[w] = req'[w] /\ \A v \in Workers \ {w} : req'[v] = req[v] BY Facts DEF TypeOK
<1>1. CASE req'[w].pc = "end" /\ req'[w].user = session[s].user
  BY <1>1
<1>2. CASE user'[session[s].user].password = user[session[s].user].password
  <2>1. PICK v \in Workers : At(v, "end") /\ req[v].user = session[s].user
    BY <1>2, Facts DEF SessionsCurrent
  <2> QED BY <1>0, <2>1 DEF At
<1> QED BY <1>1, <1>2

LEMMA CalmKept ==
  ASSUME SessionsInv, NEW w \in Workers, req' = [req EXCEPT ![w] = req'[w]],
         ~At(w, "idle"), calm' = calm,
         calm => Knows(w)' /\ Counted' /\ Copied' /\ Spent'
  PROVE  CalmOK'
<1> SUFFICES ASSUME calm PROVE
      /\ \A v, u \in Workers : v = u \/ req'[v].pc = "idle" \/ req'[u].pc = "idle"
      /\ \A v \in Workers : Knows(v)'
  BY DEF CalmOK, Counted, Copied, Spent, At
<1>1. \A v \in Workers \ {w} : req'[v] = req[v] /\ req[v].pc = "idle"
  BY Facts DEF SessionsInv, CalmOK, At, TypeOK
<1>2. \A v \in Workers \ {w} : Knows(v)' BY <1>1 DEF Knows
<1> QED BY <1>1, <1>2

\* While requests do not overlap, only the one that writes is in flight.
LEMMA CalmFacts ==
  ASSUME SessionsInv, calm, NEW w \in Workers
  PROVE  /\ Knows(w) /\ Counted /\ Copied /\ Spent
         /\ ~At(w, "idle") => \A v \in Workers \ {w} : req[v].pc = "idle"
BY DEF SessionsInv, CalmOK, Counted, Copied, Spent, At

\* A step that writes neither users nor copies changes nothing of what is
\* counted and copied, unless it ends a change.
LEMMA CountedKept ==
  ASSUME Counted, user' = user, tries' = tries
  PROVE  Counted'
BY DEF Counted, CountOK

LEMMA CopiedKept ==
  ASSUME SessionsInv, Copied, NEW w \in Workers, req' = [req EXCEPT ![w] = req'[w]],
         user' = user, copy' = copy, ~At(w, "change")
  PROVE  Copied'
<1> SUFFICES ASSUME NEW u \in Users, user[u].role = "AGENT", ~Changing(u)'
             PROVE  copy[u] = user[u].password
  BY DEF Copied
<1>1. \A v \in Workers : v # w => req'[v] = req[v] BY Facts DEF TypeOK
<1>2. ~Changing(u) BY <1>1 DEF Changing, At
<1> QED BY <1>2 DEF Copied

LEMMA SpentKept ==
  ASSUME Spent, token' = token, uses' = uses
  PROVE  Spent'
BY DEF Spent

\* A step that only moves its handler on.
LEMMA HandlerStep ==
  ASSUME SessionsInv, NEW w \in Workers, req' = [req EXCEPT ![w] = req'[w]],
         req'[w] \in Handler, ~At(w, "idle"), ~At(w, "end"), ~At(w, "change"),
         UNCHANGED <<user, copy, session, token, calls, writes, excused, tries, uses, calm>>,
         HandlerOK(w)', calm => Knows(w)'
  PROVE  SessionsInv'
<1>1. TypeOK' BY Facts DEF TypeOK
<1>2. \A v \in Workers : HandlerOK(v)'
  <2>1. Grows BY DEF Grows, Exists
  <2> QED BY <2>1, OthersKept
<1>3. RowsOK' /\ LockAtLimit' BY Facts DEF RowsOK, LockAtLimit, Exists
<1>4. SessionsCurrent' BY CurrentKept
<1>5. CalmOK' BY CalmFacts, CalmKept, CountedKept, CopiedKept, SpentKept
<1> QED BY <1>1, <1>2, <1>3, <1>4, <1>5 DEF SessionsInv

\* A request arrives.
LEMMA CallStep ==
  ASSUME SessionsInv, NEW w \in Workers, NEW h \in Handler, Call(w, h),
         UNCHANGED <<user, copy, session, token, writes, excused, tries, uses>>,
         HandlerOK(w)', calm => Knows(w)'
  PROVE  SessionsInv'
<1>1. /\ At(w, "idle") /\ calls' = calls + 1 /\ req' = [req EXCEPT ![w] = h]
      /\ calm' = (calm /\ \A v \in Workers : At(v, "idle"))
  BY DEF Call, Count
<1>2. req' = [req EXCEPT ![w] = req'[w]] BY <1>1, Facts DEF TypeOK
<1>3. TypeOK'
  <2>1. calls' \in Nat BY <1>1, Facts, SessionsAssumption DEF TypeOK
  <2>2. calm' \in BOOLEAN BY <1>1
  <2>3. req' \in [Workers -> Handler] BY <1>1, Facts DEF TypeOK
  <2> QED BY <2>1, <2>2, <2>3, Facts DEF TypeOK
<1>4. \A v \in Workers : HandlerOK(v)'
  <2>1. Grows BY DEF Grows, Exists
  <2> QED BY <1>2, <2>1, OthersKept
<1>5. RowsOK' /\ LockAtLimit' BY Facts DEF RowsOK, LockAtLimit, Exists
<1>6. SessionsCurrent'
  <2>1. ~At(w, "end") BY <1>1 DEF At
  <2> QED BY <1>2, <2>1, CurrentKept
<1>7. CalmOK'
  <2> SUFFICES ASSUME calm'
               PROVE  /\ \A v, u \in Workers : v = u \/ req'[v].pc = "idle" \/ req'[u].pc = "idle"
                      /\ \A v \in Workers : Knows(v)'
                      /\ Counted' /\ Copied' /\ Spent'
    BY DEF CalmOK, Counted, Copied, Spent, At
  <2>1. calm /\ \A v \in Workers : req[v].pc = "idle" BY <1>1 DEF At
  <2>2. \A v \in Workers \ {w} : req'[v] = req[v] BY <1>1, Facts DEF TypeOK
  <2>3. \A v \in Workers \ {w} : Knows(v)' BY <2>1, <2>2 DEF Knows
  <2>4. Counted' /\ Spent' BY <2>1, CalmFacts, CountedKept, SpentKept
  <2>5. ~At(w, "change") BY <1>1 DEF At
  <2>6. Copied' BY <1>2, <2>1, <2>5, CalmFacts, CopiedKept
  <2> QED BY <2>1, <2>2, <2>3, <2>4, <2>6
<1> QED BY <1>3, <1>4, <1>5, <1>6, <1>7 DEF SessionsInv

LEMMA ReturnedHandler ==
  ASSUME SessionsInv, NEW w \in Workers, Return(w)
  PROVE  /\ req' = [req EXCEPT ![w] = req'[w]] /\ req'[w] = Idle
         /\ req' \in [Workers -> Handler]
         /\ HandlerOK(w)' /\ Knows(w)'
<1>1. req' = [req EXCEPT ![w] = Idle] /\ req'[w] = Idle BY Facts DEF Return, TypeOK
<1>2. HandlerOK(w)' BY <1>1, Rows DEF HandlerOK
<1>3. Knows(w)' BY <1>1, Rows DEF Knows
<1> QED BY <1>1, <1>2, <1>3, Facts, Rows DEF TypeOK

LEMMA MovedHandler ==
  ASSUME SessionsInv, NEW w \in Workers, NEW pc \in Steps, Goto(w, pc)
  PROVE  /\ req' = [req EXCEPT ![w] = req'[w]] /\ req'[w] = [req[w] EXCEPT !.pc = pc]
         /\ req'[w].pc = pc /\ req'[w].user = req[w].user /\ req'[w].failed = req[w].failed
         /\ req'[w].password = req[w].password /\ req'[w].token = req[w].token
         /\ req' \in [Workers -> Handler]
<1>1. req[w] \in Handler /\ req' = [req EXCEPT ![w] = [req[w] EXCEPT !.pc = pc]]
  BY Facts DEF Goto
<1>2. [req[w] EXCEPT !.pc = pc] \in Handler BY <1>1 DEF Handler
<1> QED BY <1>1, <1>2, Facts DEF TypeOK, Handler

-----------------------------------------------------------------------------
(* Requests that arrive                                                    *)

LEMMA ArrivedHandler ==
  ASSUME SessionsInv, NEW w \in Workers, NEW h, Call(w, h)
  PROVE  req'[w] = h
BY Facts DEF Call, TypeOK

LEMMA LoginStep ==
  ASSUME SessionsInv, NEW w \in Workers, NEW u \in Users, NEW right \in BOOLEAN,
         Login(w, u, right)
  PROVE  SessionsInv'
<1> DEFINE h == [Idle EXCEPT !.pc = IF right THEN "clear" ELSE "count", !.user = u,
                          !.failed = user[u].failed, !.password = user[u].password]
<1>1. Call(w, h) BY DEF Login
<1>2. user[u] \in UserRow BY Facts
<1>3. /\ h \in Handler /\ h.pc = (IF right THEN "clear" ELSE "count") /\ h.user = u
      /\ h.failed = user[u].failed /\ h.password = user[u].password
  BY <1>2 DEF Idle, Handler, Steps, UserRow
<1>4. req'[w] = h BY <1>1, ArrivedHandler
<1>5. HandlerOK(w)' /\ Knows(w)' BY <1>3, <1>4 DEF Login, HandlerOK, Knows, Exists
<1>6. UNCHANGED <<user, copy, session, token, writes, excused, tries, uses>> BY DEF Login
<1> HIDE DEF h
<1> QED BY <1>1, <1>3, <1>5, <1>6, CallStep

LEMMA VerifyResetOtpStep ==
  ASSUME SessionsInv, NEW w \in Workers, NEW u \in Users, VerifyResetOtp(w, u)
  PROVE  SessionsInv'
<1> DEFINE h == [Idle EXCEPT !.pc = "issue", !.user = u]
<1>1. Call(w, h) BY DEF VerifyResetOtp
<1>2. h \in Handler /\ h.pc = "issue" /\ h.user = u
  BY DEF Idle, Handler, Steps, UserRow
<1>3. req'[w] = h BY <1>1, ArrivedHandler
<1>4. HandlerOK(w)' /\ Knows(w)' BY <1>2, <1>3 DEF VerifyResetOtp, HandlerOK, Knows, Exists
<1>5. UNCHANGED <<user, copy, session, token, writes, excused, tries, uses>>
  BY DEF VerifyResetOtp
<1> HIDE DEF h
<1> QED BY <1>1, <1>2, <1>4, <1>5, CallStep

\* An agent without a password is no agent user yet.
LEMMA CreateAgentPasswordStep ==
  ASSUME SessionsInv, NEW w \in Workers, NEW u \in Users, CreateAgentPassword(w, u)
  PROVE  SessionsInv'
<1> DEFINE h == [Idle EXCEPT !.pc = "copy_first", !.user = u]
<1>1. Call(w, h) BY DEF CreateAgentPassword
<1>2. h \in Handler /\ h.pc = "copy_first" /\ h.user = u
  BY DEF Idle, Handler, Steps, UserRow
<1>3. req'[w] = h BY <1>1, ArrivedHandler
<1>4. user[u].role # "AGENT" BY Facts DEF CreateAgentPassword, RowsOK
<1>5. HandlerOK(w)' /\ Knows(w)' BY <1>2, <1>3, <1>4 DEF CreateAgentPassword, HandlerOK, Knows
<1>6. UNCHANGED <<user, copy, session, token, writes, excused, tries, uses>>
  BY DEF CreateAgentPassword
<1> HIDE DEF h
<1> QED BY <1>1, <1>2, <1>5, <1>6, CallStep

LEMMA ChangeAgentPasswordStep ==
  ASSUME SessionsInv, NEW w \in Workers, NEW u \in Users, ChangeAgentPassword(w, u)
  PROVE  SessionsInv'
<1> DEFINE h == [Idle EXCEPT !.pc = "copy", !.user = u]
<1>1. Call(w, h) BY DEF ChangeAgentPassword
<1>2. h \in Handler /\ h.pc = "copy" /\ h.user = u
  BY DEF Idle, Handler, Steps, UserRow
<1>3. req'[w] = h BY <1>1, ArrivedHandler
<1>4. HandlerOK(w)' /\ Knows(w)' BY <1>2, <1>3 DEF ChangeAgentPassword, HandlerOK, Knows, Exists
<1>5. UNCHANGED <<user, copy, session, token, writes, excused, tries, uses>>
  BY DEF ChangeAgentPassword
<1> HIDE DEF h
<1> QED BY <1>1, <1>2, <1>4, <1>5, CallStep

LEMMA VerifyAgentLoginStep ==
  ASSUME SessionsInv, NEW w \in Workers, NEW u \in Users, VerifyAgentLogin(w, u)
  PROVE  SessionsInv'
<1> DEFINE h == [Idle EXCEPT !.pc = "find_agent_user", !.user = u, !.password = copy[u]]
<1>1. Call(w, h) BY DEF VerifyAgentLogin
<1>2. copy[u] \in Nat BY Facts DEF TypeOK
<1>3. h \in Handler /\ h.pc = "find_agent_user" /\ h.user = u /\ h.password = copy[u]
  BY <1>2 DEF Idle, Handler, Steps, UserRow
<1>4. req'[w] = h BY <1>1, ArrivedHandler
<1>5. HandlerOK(w)' /\ Knows(w)' BY <1>3, <1>4 DEF VerifyAgentLogin, HandlerOK, Knows
<1>6. UNCHANGED <<user, copy, session, token, writes, excused, tries, uses>>
  BY DEF VerifyAgentLogin
<1> HIDE DEF h
<1> QED BY <1>1, <1>3, <1>5, <1>6, CallStep

LEMMA ResetPasswordStep ==
  ASSUME SessionsInv, NEW w \in Workers, NEW k \in Tokens, ResetPassword(w, k)
  PROVE  SessionsInv'
<1> DEFINE h == [Idle EXCEPT !.pc = "spend", !.user = token[k], !.token = k]
<1>1. Call(w, h) BY DEF ResetPassword
<1>2. token[k] \in Users /\ user[token[k]].role = "CUSTOMER"
  BY Facts DEF ResetPassword, TypeOK, RowsOK
<1>3. h \in Handler /\ h.pc = "spend" /\ h.user = token[k] /\ h.token = k
  BY <1>2 DEF Idle, Handler, Steps, UserRow
<1>4. req'[w] = h BY <1>1, ArrivedHandler
<1>5. HandlerOK(w)' BY <1>3, <1>2, <1>4 DEF ResetPassword, HandlerOK
<1>6. calm => Knows(w)'
  <2>1. calm => uses[k] = 0 BY CalmFacts DEF ResetPassword, Spent
  <2> QED BY <1>3, <1>4, <2>1 DEF ResetPassword, Knows
<1>7. UNCHANGED <<user, copy, session, token, writes, excused, tries, uses>>
  BY DEF ResetPassword
<1> HIDE DEF h
<1> QED BY <1>1, <1>3, <1>5, <1>6, <1>7, CallStep

-----------------------------------------------------------------------------
(* Handlers that write no row                                              *)

LEMMA FindUserStep ==
  ASSUME SessionsInv, NEW w \in Workers, FindUser(w)
  PROVE  SessionsInv'
<1>1. At(w, "find") /\ req[w] \in Handler /\ HandlerOK(w) BY Facts DEF FindUser
<1>2. UNCHANGED <<user, copy, session, token, calls, writes, excused, tries, uses, calm>>
  BY DEF FindUser
<1>3. CASE Return(w)
  <2>1. req'[w] \in Handler BY <1>3, ReturnedHandler, Rows
  <2> QED BY <1>1, <1>2, <1>3, <2>1, ReturnedHandler, HandlerStep DEF At
<1>4. CASE Exists(req[w].user) /\ Goto(w, "first")
  <2>1. "first" \in Steps BY DEF Steps
  <2>2. /\ req' = [req EXCEPT ![w] = req'[w]] /\ req'[w] \in Handler
        /\ req'[w].pc = "first" /\ req'[w].user = req[w].user
    BY <1>4, <2>1, MovedHandler
  <2>3. HandlerOK(w)' BY <1>1, <1>2, <1>4, <2>2 DEF HandlerOK, Exists, At
  <2>4. calm => Knows(w)'
    <3>1. calm => user[req[w].user].role # "AGENT" BY <1>1, CalmFacts DEF Knows, At
    <3> QED BY <1>2, <2>2, <3>1 DEF Knows
  <2> QED BY <1>1, <1>2, <2>2, <2>3, <2>4, HandlerStep DEF At
<1> QED BY <1>3, <1>4 DEF FindUser

LEMMA FindAgentUserStep ==
  ASSUME SessionsInv, NEW w \in Workers, FindAgentUser(w)
  PROVE  SessionsInv'
<1> DEFINE h == req[w]
<1>1. At(w, "find_agent_user") /\ h \in Handler /\ HandlerOK(w) /\ h.user \in Users
  BY Facts DEF FindAgentUser, HandlerOK, At
<1>2. UNCHANGED <<user, copy, session, token, calls, writes, excused, tries, uses, calm>>
  BY DEF FindAgentUser
<1>3. CASE Exists(h.user)
  <2>1. user[h.user].password \in Nat BY <1>1, Facts DEF UserRow
  <2>2. req' = [req EXCEPT ![w] = [h EXCEPT !.pc = "open", !.password = user[h.user].password]]
    BY <1>3 DEF FindAgentUser
  <2>3. req'[w] = [pc |-> "open", user |-> h.user, failed |-> h.failed,
                   password |-> user[h.user].password, token |-> h.token]
    BY <1>1, <2>2, Facts DEF TypeOK, Handler
  <2>4. req' = [req EXCEPT ![w] = req'[w]] BY <2>2, Facts DEF TypeOK
  <2>5. req'[w] \in Handler BY <1>1, <2>1, <2>3 DEF Handler, Steps
  <2>6. HandlerOK(w)' /\ Knows(w)' BY <1>1, <1>2, <1>3, <2>3 DEF HandlerOK, Knows, Exists
  <2> QED BY <1>1, <1>2, <2>4, <2>5, <2>6, HandlerStep DEF At
<1>4. CASE ~Exists(h.user)
  <2>1. Goto(w, "create") /\ "create" \in Steps BY <1>4 DEF FindAgentUser, Steps
  <2>2. /\ req' = [req EXCEPT ![w] = req'[w]] /\ req'[w] \in Handler
        /\ req'[w].pc = "create" /\ req'[w].user = h.user /\ req'[w].password = h.password
    BY <2>1, MovedHandler
  <2>3. HandlerOK(w)' BY <1>1, <1>2, <2>2 DEF HandlerOK, At
  <2>4. calm => Knows(w)'
    <3>1. calm => h.password = copy[h.user] BY <1>1, CalmFacts DEF Knows, At
    <3> QED BY <1>2, <2>2, <3>1 DEF Knows
  <2> QED BY <1>1, <1>2, <2>2, <2>3, <2>4, HandlerStep DEF At
<1> QED BY <1>3, <1>4

-----------------------------------------------------------------------------
(* Handlers that write the row of a user                                   *)

LEMMA RowSet ==
  ASSUME SessionsInv, NEW u \in Users, NEW r \in UserRow, user' = [user EXCEPT ![u] = r]
  PROVE  /\ user' \in [Users -> UserRow] /\ user'[u] = r
         /\ \A v \in Users \ {u} : user'[v] = user[v]
BY Facts

\* Nobody else's tries change; the sessions of u meet his password or an end; and
\* what a request that overlaps with no other keeps of u.
OthersTries(u) == \A v \in Users \ {u} : tries'[v] = tries[v]
SessionsMeet(w, u, r) ==
  \A s \in SessionIds :
    session[s].active /\ session[s].user = u /\ s \notin excused' =>
      \/ r.password = user[u].password
      \/ req'[w].pc = "end" /\ req'[w].user = u
CalmRow(w, u, r) ==
  calm => /\ Knows(w)' /\ CountOK(u)' /\ Spent'
          /\ r.role = "AGENT" /\ ~Changing(u)' => copy[u] = r.password

\* A handler writes row r of user u, who exists from then on.
LEMMA RowStep ==
  ASSUME SessionsInv, NEW w \in Workers, NEW u \in Users, NEW r \in UserRow,
         user' = [user EXCEPT ![u] = r],
         UNCHANGED <<copy, session, token, calls, calm>>,
         writes' \in [Users -> Nat], excused' \subseteq SessionIds, excused \subseteq excused',
         tries' \in [Users -> Nat], OthersTries(u),
         uses' \in [Tokens -> Nat],
         req' = [req EXCEPT ![w] = req'[w]], req' \in [Workers -> Handler], HandlerOK(w)',
         ~At(w, "idle"), ~At(w, "end"), At(w, "change") => req[w].user = u,
         r.role # "NONE", user[u].role = "CUSTOMER" => r.role = "CUSTOMER",
         r.role = "AGENT" => copy[u] # 0,
         r.failed >= MaxAttempts => r.lock # "none",
         SessionsMeet(w, u, r),
         CalmRow(w, u, r)
  PROVE  SessionsInv'
<1>1. /\ user' \in [Users -> UserRow] /\ user'[u] = r
      /\ \A v \in Users \ {u} : user'[v] = user[v]
  BY RowSet
<1>2. TypeOK' BY <1>1, Facts, TypeFromRows DEF TypeOK
<1>3. \A v \in Workers : HandlerOK(v)'
  <2>1. Grows BY <1>1 DEF Grows, Exists
  <2> QED BY <2>1, OthersKept
<1>4. RowsOK' BY <1>1, Facts DEF RowsOK, Exists, TypeOK, OthersTries
<1>5. LockAtLimit' BY <1>1, Facts DEF LockAtLimit
<1>6. SessionsCurrent'
  <2>1. ASSUME NEW s \in SessionIds, session[s].active, s \notin excused'
        PROVE  \/ user'[session[s].user].password = user[session[s].user].password
               \/ req'[w].pc = "end" /\ req'[w].user = session[s].user
    BY <1>1, <2>1, Facts DEF RowsOK, SessionsMeet
  <2> QED BY <2>1, CurrentKept
<1>7. CalmOK'
  <2>1. ASSUME calm PROVE Counted'
    <3>1. \A v \in Users \ {u} : CountOK(v)'
      BY <1>1, <2>1, CalmFacts DEF Counted, CountOK, OthersTries
    <3> QED BY <2>1, <3>1 DEF Counted, CalmRow
  <2>2. ASSUME calm PROVE Copied'
    <3> SUFFICES ASSUME NEW v \in Users, v # u, user[v].role = "AGENT", ~Changing(v)'
                 PROVE  copy[v] = user[v].password
      BY <1>1, <2>2 DEF Copied, CalmRow
    <3>1. ~Changing(v) BY Facts DEF Changing, At, TypeOK
    <3> QED BY <2>2, <3>1, CalmFacts DEF Copied
  <2> QED BY <2>1, <2>2, CalmKept DEF CalmRow
<1> QED BY <1>2, <1>3, <1>4, <1>5, <1>6, <1>7 DEF SessionsInv

\* The login that failed.
LEMMA CountFailureStep ==
  ASSUME SessionsInv, NEW w \in Workers, CountFailure(w)
  PROVE  SessionsInv'
<1>0. PICK u \in Users : u = req[w].user BY Facts DEF CountFailure, HandlerOK, At
<1> DEFINE h == req[w]
           l == IF h.failed + 1 >= MaxAttempts THEN "locked" ELSE user[u].lock
           r == [role |-> user[u].role, active |-> user[u].active,
                 password |-> user[u].password, failed |-> h.failed + 1, lock |-> l]
<1>1. At(w, "count") /\ Exists(u) /\ h.failed \in Nat /\ user[u] \in UserRow
  BY <1>0, Facts DEF CountFailure, HandlerOK, At, Handler
<1>2. /\ r \in UserRow /\ r.role = user[u].role /\ r.password = user[u].password
      /\ r.failed = h.failed + 1 /\ r.lock = l
  BY <1>1, SessionsAssumption DEF UserRow
<1>3. /\ user' = [user EXCEPT ![u] = r] /\ tries' = [tries EXCEPT ![u] = tries[u] + 1]
      /\ Return(w)
      /\ UNCHANGED <<copy, session, token, calls, writes, excused, uses, calm>>
  BY <1>0 DEF CountFailure, SetAttempts
<1> HIDE DEF r
<1>4. /\ tries' \in [Users -> Nat] /\ tries'[u] = tries[u] + 1
      /\ OthersTries(u)
  BY <1>3, Facts DEF TypeOK, OthersTries
<1>5. user'[u] = r BY <1>2, <1>3, RowSet
<1>6. r.role # "NONE" /\ (r.role = "AGENT" => copy[u] # 0)
  BY <1>1, <1>2, Facts DEF Exists, RowsOK
<1>7. r.failed >= MaxAttempts => r.lock # "none" BY <1>2
<1>8. ASSUME calm PROVE CountOK(u)'
  <2>1. h.failed = user[u].failed /\ user[u].lock # "locked" /\ CountOK(u)
    BY <1>0, <1>1, <1>8, CalmFacts DEF Knows, At, Counted
  <2>2. tries[u] \in Nat BY Facts DEF TypeOK
  <2>3. user'[u].failed = h.failed + 1 /\ user'[u].lock = l BY <1>2, <1>5
  <2>4. user[u].lock \in {"none", "past"} BY <1>1, <2>1 DEF UserRow
  <2> QED BY <1>1, <1>4, <2>1, <2>2, <2>3, <2>4, SessionsAssumption DEF CountOK
<1>9. ASSUME calm, r.role = "AGENT", ~Changing(u)' PROVE copy[u] = r.password
  <2>1. ~Changing(u) BY <1>1, <1>3, <1>9, Facts, ReturnedHandler DEF Changing, At, TypeOK
  <2> QED BY <1>2, <1>9, <2>1, CalmFacts DEF Copied
<1>10. calm => Spent' BY <1>3, CalmFacts, SpentKept
<1>11. /\ req' = [req EXCEPT ![w] = req'[w]] /\ req' \in [Workers -> Handler]
       /\ HandlerOK(w)' /\ Knows(w)'
  BY <1>3, ReturnedHandler
<1>12. ~At(w, "idle") /\ ~At(w, "end") /\ ~At(w, "change") BY <1>1 DEF At
<1>13. /\ writes' \in [Users -> Nat] /\ excused' \subseteq SessionIds
       /\ excused \subseteq excused' /\ uses' \in [Tokens -> Nat]
  BY <1>3, Facts DEF TypeOK
<1>14. UNCHANGED <<copy, session, token, calls, calm>> BY <1>3
<1>15. /\ user[u].role = "CUSTOMER" => r.role = "CUSTOMER"
       /\ At(w, "change") => req[w].user = u
       /\ SessionsMeet(w, u, r)
  BY <1>2, <1>12 DEF SessionsMeet
<1>16. CalmRow(w, u, r) BY <1>8, <1>9, <1>10, <1>11 DEF CalmRow
<1> QED BY <1>2, <1>3, <1>4, <1>6, <1>7, <1>11, <1>12, <1>13, <1>14, <1>15, <1>16, RowStep

\* The login that was right.
LEMMA ClearFailuresStep ==
  ASSUME SessionsInv, NEW w \in Workers, ClearFailures(w)
  PROVE  SessionsInv'
<1>0. PICK u \in Users : u = req[w].user BY Facts DEF ClearFailures, HandlerOK, At
<1> DEFINE h == req[w]
           r == [role |-> user[u].role, active |-> user[u].active,
                 password |-> user[u].password, failed |-> 0, lock |-> "none"]
<1>1. At(w, "clear") /\ Exists(u) /\ user[u] \in UserRow
  BY <1>0, Facts DEF ClearFailures, HandlerOK, At
<1>2. /\ r \in UserRow /\ r.role = user[u].role /\ r.password = user[u].password
      /\ r.failed = 0 /\ r.lock = "none"
  BY <1>1 DEF UserRow
<1>3. /\ user' = [user EXCEPT ![u] = r] /\ tries' = [tries EXCEPT ![u] = 0]
      /\ Goto(w, "open")
      /\ UNCHANGED <<copy, session, token, calls, writes, excused, uses, calm>>
  BY <1>0 DEF ClearFailures, SetAttempts
<1> HIDE DEF r
<1>4. /\ tries' \in [Users -> Nat] /\ tries'[u] = 0
      /\ OthersTries(u)
  BY <1>3, Facts DEF TypeOK, OthersTries
<1>5. user'[u] = r BY <1>2, <1>3, RowSet
<1>6. r.role # "NONE" /\ (r.role = "AGENT" => copy[u] # 0)
  BY <1>1, <1>2, Facts DEF Exists, RowsOK
<1>7. ~(r.failed >= MaxAttempts) BY <1>2, SessionsAssumption
<1>8. CountOK(u)' BY <1>2, <1>4, <1>5, SessionsAssumption DEF CountOK
<1>9. "open" \in Steps BY DEF Steps
<1>10. /\ req' = [req EXCEPT ![w] = req'[w]] /\ req' \in [Workers -> Handler]
       /\ req'[w].pc = "open" /\ req'[w].user = u
  BY <1>0, <1>3, <1>9, MovedHandler
<1>11. HandlerOK(w)' /\ Knows(w)' BY <1>5, <1>6, <1>10 DEF HandlerOK, Knows, Exists
<1>12. ~At(w, "idle") /\ ~At(w, "end") /\ ~At(w, "change") BY <1>1 DEF At
<1>13. /\ writes' \in [Users -> Nat] /\ excused' \subseteq SessionIds
       /\ excused \subseteq excused' /\ uses' \in [Tokens -> Nat]
  BY <1>3, Facts DEF TypeOK
<1>14. UNCHANGED <<copy, session, token, calls, calm>> BY <1>3
<1>15. /\ user[u].role = "CUSTOMER" => r.role = "CUSTOMER"
       /\ At(w, "change") => req[w].user = u
       /\ SessionsMeet(w, u, r)
  BY <1>2, <1>12 DEF SessionsMeet
<1>16. ASSUME calm, r.role = "AGENT", ~Changing(u)' PROVE copy[u] = r.password
  <2>1. ~Changing(u) BY <1>10, <1>12, <1>16, Facts DEF Changing, At, TypeOK
  <2> QED BY <1>2, <1>16, <2>1, CalmFacts DEF Copied
<1>17. calm => Spent' BY <1>3, CalmFacts, SpentKept
<1>18. CalmRow(w, u, r) BY <1>8, <1>11, <1>16, <1>17 DEF CalmRow
<1> QED BY <1>2, <1>3, <1>4, <1>6, <1>7, <1>10, <1>11, <1>12, <1>13, <1>14, <1>15,
        <1>18, RowStep

\* A handler sets a password of an existing user: the rest of his row stays.
LEMMA PasswordStep ==
  ASSUME SessionsInv, NEW w \in Workers, NEW u \in Users, Exists(u), NEW n \in Nat,
         SetPassword(u, n), req[w].user = u,
         UNCHANGED <<copy, session, token, calls, tries, calm>>,
         writes' \in [Users -> Nat], excused' \subseteq SessionIds, excused \subseteq excused',
         uses' \in [Tokens -> Nat],
         req' = [req EXCEPT ![w] = req'[w]], req' \in [Workers -> Handler],
         req'[w].pc \in {"idle", "end"}, req'[w].pc = "end" => req'[w].user = u,
         req'[w].pc = "idle" => req'[w] = Idle,
         ~At(w, "idle"), ~At(w, "end"),
         \A s \in SessionIds :
           session[s].active /\ session[s].user = u /\ s \notin excused' =>
             req'[w].pc = "end",
         calm => Spent' /\ (user[u].role = "AGENT" => copy[u] = n)
  PROVE  SessionsInv'
<1> DEFINE r == [user[u] EXCEPT !.password = n]
<1>1. user[u] \in UserRow BY Facts
<1>2. /\ r \in UserRow /\ r.role = user[u].role /\ r.password = n
      /\ r.failed = user[u].failed /\ r.lock = user[u].lock
  BY <1>1 DEF UserRow
<1>3. user' = [user EXCEPT ![u] = r] BY DEF SetPassword
<1> HIDE DEF r
<1>4. tries' \in [Users -> Nat] /\ OthersTries(u)
  BY Facts DEF TypeOK, OthersTries
<1>5. user'[u] = r BY <1>2, <1>3, RowSet
<1>6. r.role # "NONE" /\ (r.role = "AGENT" => copy[u] # 0)
  BY <1>2, Facts DEF Exists, RowsOK
<1>7. r.failed >= MaxAttempts => r.lock # "none" BY <1>2, Facts DEF LockAtLimit
<1>8. calm => CountOK(u)'
  <2>1. calm => CountOK(u) BY CalmFacts DEF Counted
  <2> QED BY <1>2, <1>5, <2>1 DEF CountOK
<1>9. HandlerOK(w)' BY <1>5, <1>6, Rows DEF HandlerOK, Exists
<1>10. Knows(w)' BY Rows DEF Knows
<1>11. At(w, "change") => req[w].user = u OBVIOUS
<1>12. user[u].role = "CUSTOMER" => r.role = "CUSTOMER" BY <1>2
<1>13. CalmRow(w, u, r) BY <1>2, <1>8, <1>10 DEF CalmRow
<1>14. SessionsMeet(w, u, r) BY DEF SessionsMeet
<1> QED BY <1>2, <1>3, <1>4, <1>6, <1>7, <1>9, <1>11, <1>12, <1>13, <1>14, RowStep

\* Only a customer has a token, and his password has no copy.
LEMMA WriteResetStep ==
  ASSUME SessionsInv, NEW w \in Workers, WriteReset(w)
  PROVE  SessionsInv'
<1>0. PICK u \in Users : u = req[w].user BY Facts DEF WriteReset, HandlerOK, At
<1>1. PICK k \in Tokens : k = req[w].token BY Facts DEF WriteReset, HandlerOK, At
<1>2. PICK n \in Nat : n = writes[u] + 1 BY Facts DEF TypeOK
<1>3. /\ At(w, "write") /\ user[u].role = "CUSTOMER" /\ Exists(u)
  BY <1>0, Facts DEF WriteReset, HandlerOK, At, Exists
<1>4. /\ SetPassword(u, n) /\ Goto(w, "end")
      /\ writes' = [writes EXCEPT ![u] = n] /\ uses' = [uses EXCEPT ![k] = uses[k] + 1]
      /\ UNCHANGED <<copy, session, token, calls, excused, tries, calm>>
  BY <1>0, <1>1, <1>2 DEF WriteReset
<1>5. "end" \in Steps BY DEF Steps
<1>6. /\ req' = [req EXCEPT ![w] = req'[w]] /\ req' \in [Workers -> Handler]
      /\ req'[w].pc = "end" /\ req'[w].user = u
  BY <1>0, <1>4, <1>5, MovedHandler
<1>7. /\ writes' \in [Users -> Nat] /\ uses' \in [Tokens -> Nat]
      /\ excused' \subseteq SessionIds /\ excused \subseteq excused'
  BY <1>4, Facts DEF TypeOK
<1>8. ASSUME calm PROVE Spent'
  <2>1. uses[k] = 0 /\ token[k] = Nil /\ Spent
    BY <1>1, <1>3, <1>8, CalmFacts DEF Knows, At
  <2>2. uses'[k] = 1 /\ \A j \in Tokens \ {k} : uses'[j] = uses[j]
    BY <1>4, <2>1, Facts DEF TypeOK
  <2> QED BY <1>4, <2>1, <2>2 DEF Spent
<1>9. ~At(w, "idle") /\ ~At(w, "end") BY <1>3 DEF At
<1>10. calm => Spent' /\ (user[u].role = "AGENT" => copy[u] = n) BY <1>3, <1>8
<1>11. UNCHANGED <<copy, session, token, calls, tries, calm>> BY <1>4
<1> QED BY <1>0, <1>3, <1>4, <1>6, <1>7, <1>9, <1>10, <1>11, PasswordStep

\* The user was no agent when his agent's first password was written.
LEMMA WriteFirstStep ==
  ASSUME SessionsInv, NEW w \in Workers, WriteFirst(w)
  PROVE  SessionsInv'
<1>0. PICK u \in Users : u = req[w].user BY Facts DEF WriteFirst, HandlerOK, At
<1>1. PICK n \in Nat : n = req[w].password BY Facts DEF Handler
<1>2. At(w, "first") /\ Exists(u) BY <1>0, Facts DEF WriteFirst, HandlerOK, At
<1>3. /\ SetPassword(u, n) /\ Return(w) /\ excused' = excused \cup ActiveSessions(u)
      /\ UNCHANGED <<copy, session, token, calls, writes, tries, uses, calm>>
  BY <1>0, <1>1 DEF WriteFirst
<1>4. /\ req' = [req EXCEPT ![w] = req'[w]] /\ req' \in [Workers -> Handler]
      /\ req'[w] = Idle
  BY <1>3, ReturnedHandler
<1>5. /\ writes' \in [Users -> Nat] /\ uses' \in [Tokens -> Nat]
      /\ excused' \subseteq SessionIds /\ excused \subseteq excused'
  BY <1>3, Facts DEF TypeOK, ActiveSessions
<1>6. ASSUME calm PROVE Spent' /\ (user[u].role = "AGENT" => copy[u] = n)
  <2>1. user[u].role # "AGENT" BY <1>0, <1>2, <1>6, CalmFacts DEF Knows, At
  <2> QED BY <1>3, <1>6, <2>1, CalmFacts, SpentKept
<1>7. ~At(w, "idle") /\ ~At(w, "end") BY <1>2 DEF At
<1>8. \A s \in SessionIds :
        session[s].active /\ session[s].user = u /\ s \notin excused' => req'[w].pc = "end"
  BY <1>3 DEF ActiveSessions
<1>9. UNCHANGED <<copy, session, token, calls, tries, calm>> BY <1>3
<1>10. req'[w].pc = "idle" BY <1>4, Rows
<1> QED BY <1>0, <1>2, <1>3, <1>4, <1>5, <1>6, <1>7, <1>8, <1>9, <1>10, PasswordStep

\* The second of an agent's passwords follows the first.
LEMMA WriteChangeStep ==
  ASSUME SessionsInv, NEW w \in Workers, WriteChange(w)
  PROVE  SessionsInv'
<1>0. PICK u \in Users : u = req[w].user BY Facts DEF WriteChange, HandlerOK, At
<1>1. PICK n \in Nat : n = req[w].password BY Facts DEF Handler
<1>2. At(w, "change") /\ Exists(u) BY <1>0, Facts DEF WriteChange, HandlerOK, At
<1>3. /\ SetPassword(u, n) /\ Goto(w, "end")
      /\ UNCHANGED <<copy, session, token, calls, writes, excused, tries, uses, calm>>
  BY <1>0, <1>1 DEF WriteChange
<1>4. "end" \in Steps BY DEF Steps
<1>5. /\ req' = [req EXCEPT ![w] = req'[w]] /\ req' \in [Workers -> Handler]
      /\ req'[w].pc = "end" /\ req'[w].user = u
  BY <1>0, <1>3, <1>4, MovedHandler
<1>6. /\ writes' \in [Users -> Nat] /\ uses' \in [Tokens -> Nat]
      /\ excused' \subseteq SessionIds /\ excused \subseteq excused'
  BY <1>3, Facts DEF TypeOK
<1>7. ASSUME calm PROVE Spent' /\ (user[u].role = "AGENT" => copy[u] = n)
  <2>1. copy[u] = n BY <1>0, <1>1, <1>2, <1>7, CalmFacts DEF Knows, At
  <2> QED BY <1>3, <1>7, <2>1, CalmFacts, SpentKept
<1>8. ~At(w, "idle") /\ ~At(w, "end") BY <1>2 DEF At
<1>9. UNCHANGED <<copy, session, token, calls, tries, calm>> BY <1>3
<1> QED BY <1>0, <1>2, <1>3, <1>5, <1>6, <1>7, <1>8, <1>9, PasswordStep

\* The user that an agent's first login makes, with the hash of his Agent row.
LEMMA CreateAgentUserStep ==
  ASSUME SessionsInv, NEW w \in Workers, CreateAgentUser(w)
  PROVE  SessionsInv'
<1>0. PICK u \in Users : u = req[w].user BY Facts DEF CreateAgentUser, HandlerOK, At
<1> DEFINE n == req[w].password
           r == [Customer EXCEPT !.role = "AGENT", !.password = n]
<1>1. At(w, "create") /\ HandlerOK(w) /\ req[w] \in Handler /\ n \in Nat
  BY Facts DEF CreateAgentUser, Handler
<1>2. CASE Exists(u) \/ n = 0
  <2>1. /\ Return(w)
        /\ UNCHANGED <<user, copy, session, token, calls, writes, excused, tries, uses, calm>>
    BY <1>0, <1>2 DEF CreateAgentUser
  <2>2. req'[w] \in Handler BY <2>1, ReturnedHandler, Rows
  <2> QED BY <1>1, <2>1, <2>2, ReturnedHandler, HandlerStep DEF At
<1>3. CASE ~Exists(u) /\ n # 0
  <2>1. /\ user' = [user EXCEPT ![u] = r] /\ Goto(w, "open")
        /\ UNCHANGED <<copy, session, token, calls, writes, excused, tries, uses, calm>>
    BY <1>0, <1>3 DEF CreateAgentUser
  <2>2. /\ r \in UserRow /\ r.role = "AGENT" /\ r.password = n
        /\ r.failed = 0 /\ r.lock = "none"
    BY <1>1 DEF Customer, UserRow
  <2> HIDE DEF r
  <2>3. user'[u] = r BY <2>1, <2>2, RowSet
  <2>4. tries[u] = 0 /\ user[u].role = "NONE" BY <1>3, Facts DEF RowsOK, Exists
  <2>5. copy[u] # 0 BY <1>0, <1>1, <1>3 DEF HandlerOK, At
  <2>6. "open" \in Steps BY DEF Steps
  <2>7. /\ req' = [req EXCEPT ![w] = req'[w]] /\ req' \in [Workers -> Handler]
        /\ req'[w].pc = "open" /\ req'[w].user = u
    BY <1>0, <2>1, <2>6, MovedHandler
  <2>8. HandlerOK(w)' /\ Knows(w)' BY <2>2, <2>3, <2>7 DEF HandlerOK, Knows, Exists
  <2>9. ~At(w, "idle") /\ ~At(w, "end") /\ ~At(w, "change") BY <1>1 DEF At
  <2>10. /\ writes' \in [Users -> Nat] /\ uses' \in [Tokens -> Nat]
         /\ tries' \in [Users -> Nat] /\ OthersTries(u)
         /\ excused' \subseteq SessionIds /\ excused \subseteq excused'
    BY <2>1, Facts DEF TypeOK, OthersTries
  <2>11. \A s \in SessionIds : ~(session[s].active /\ session[s].user = u)
    BY <1>3, Facts DEF RowsOK
  <2>12. CountOK(u)' BY <2>1, <2>2, <2>3, <2>4, SessionsAssumption DEF CountOK
  <2>13. ~(r.failed >= MaxAttempts) BY <2>2, SessionsAssumption
  <2>14. ASSUME calm PROVE Spent' /\ copy[u] = r.password
    <3>1. n = copy[u] BY <1>0, <1>1, <2>14, CalmFacts DEF Knows, At
    <3> QED BY <2>1, <2>2, <2>14, <3>1, CalmFacts, SpentKept
  <2>15. UNCHANGED <<copy, session, token, calls, calm>> BY <2>1
  <2>16. /\ r.role # "NONE" /\ (user[u].role = "CUSTOMER" => r.role = "CUSTOMER")
         /\ r.role = "AGENT" => copy[u] # 0
         /\ At(w, "change") => req[w].user = u
    BY <2>2, <2>4, <2>5, <2>9
  <2>17. SessionsMeet(w, u, r) BY <2>11 DEF SessionsMeet
  <2>18. CalmRow(w, u, r) BY <2>8, <2>12, <2>14 DEF CalmRow
  <2> QED BY <2>1, <2>2, <2>7, <2>8, <2>9, <2>10, <2>13, <2>15, <2>16, <2>17, <2>18, RowStep
<1> QED BY <1>2, <1>3

\* A lock passes or staff toggle a customer, whatever is in flight.
LEMMA OutsideRowStep ==
  ASSUME SessionsInv, NEW u \in Users, NEW r \in UserRow,
         user' = [user EXCEPT ![u] = r], Exists(u),
         UNCHANGED <<copy, session, token, req, writes, excused, uses, calm>>,
         calls' \in Nat, tries' \in [Users -> Nat],
         \A v \in Users \ {u} : tries'[v] = tries[v],
         r.role = user[u].role, r.password = user[u].password, r.failed = user[u].failed,
         r.lock # user[u].lock => r.lock = "past",
         calm => CountOK(u)'
  PROVE  SessionsInv'
<1>1. /\ user' \in [Users -> UserRow] /\ user'[u] = r
      /\ \A v \in Users \ {u} : user'[v] = user[v]
  BY RowSet
<1>2. \A v \in Users : /\ user'[v].role = user[v].role /\ user'[v].failed = user[v].failed
                       /\ user'[v].password = user[v].password
                       /\ user[v].lock # "locked" => user'[v].lock # "locked"
                       /\ user[v].lock # "none" => user'[v].lock # "none"
  BY <1>1
<1>3. TypeOK' BY <1>1, Facts, TypeFromRows DEF TypeOK
<1>4. \A v \in Workers : HandlerOK(v)' BY <1>2, Facts DEF HandlerOK, Exists
<1>5. RowsOK' BY <1>1, <1>2, Facts DEF RowsOK, Exists, TypeOK
<1>6. LockAtLimit' BY <1>2, Facts DEF LockAtLimit
<1>7. SessionsCurrent' BY <1>2, Facts DEF SessionsCurrent, RowsOK, At
<1>8. CalmOK'
  <2> SUFFICES ASSUME calm
               PROVE  /\ \A v, w \in Workers : v = w \/ req[v].pc = "idle" \/ req[w].pc = "idle"
                      /\ \A v \in Workers : Knows(v)'
                      /\ Counted' /\ Copied' /\ Spent'
    BY DEF CalmOK, Counted, Copied, Spent, At
  <2>1. \A v, w \in Workers : v = w \/ req[v].pc = "idle" \/ req[w].pc = "idle"
    BY DEF SessionsInv, CalmOK, At
  <2>2. \A v \in Workers : Knows(v)'
    <3>1. \A v \in Workers : Knows(v) /\ HandlerOK(v) BY CalmFacts, Facts
    <3> QED BY <1>2, <3>1 DEF Knows, HandlerOK
  <2>3. Counted'
    <3>1. \A v \in Users : CountOK(v) BY DEF SessionsInv, CalmOK
    <3> QED BY <1>1, <3>1 DEF Counted, CountOK
  <2>4. Copied' /\ Spent'
    BY <1>2 DEF SessionsInv, CalmOK, Copied, Changing, At, Spent
  <2> QED BY <2>1, <2>2, <2>3, <2>4
<1> QED BY <1>3, <1>4, <1>5, <1>6, <1>7, <1>8 DEF SessionsInv

LEMMA LockPassesStep ==
  ASSUME SessionsInv, NEW u \in Users, LockPasses(u)
  PROVE  SessionsInv'
<1> DEFINE r == [user[u] EXCEPT !.lock = "past"]
<1>1. user[u] \in UserRow /\ user[u].lock = "locked" BY Facts DEF LockPasses
<1>2. /\ r \in UserRow /\ r.role = user[u].role /\ r.password = user[u].password
      /\ r.failed = user[u].failed /\ r.lock = "past"
  BY <1>1 DEF UserRow
<1>3. user' = [user EXCEPT ![u] = r] BY DEF LockPasses
<1> HIDE DEF r
<1>4. Exists(u) BY <1>1, Facts, Rows DEF RowsOK
<1>5. /\ tries' \in [Users -> Nat] /\ tries'[u] = 0
      /\ \A v \in Users \ {u} : tries'[v] = tries[v]
      /\ calls' \in Nat
      /\ UNCHANGED <<copy, session, token, req, writes, excused, uses, calm>>
  BY Facts DEF LockPasses, TypeOK
<1>6. calm => CountOK(u)'
  <2>1. user'[u] = r BY <1>2, <1>3, RowSet
  <2>2. calm => CountOK(u) BY DEF SessionsInv, CalmOK
  <2> QED BY <1>1, <1>2, <1>5, <2>1, <2>2 DEF CountOK
<1>7. r.lock # user[u].lock => r.lock = "past" BY <1>2
<1> QED BY <1>2, <1>3, <1>4, <1>5, <1>6, <1>7, OutsideRowStep

LEMMA ToggleActiveStep ==
  ASSUME SessionsInv, NEW u \in Users, ToggleActive(u)
  PROVE  SessionsInv'
<1> DEFINE r == [user[u] EXCEPT !.active = ~user[u].active]
<1>1. user[u] \in UserRow /\ Exists(u) BY Facts DEF ToggleActive, Exists
<1>2. /\ r \in UserRow /\ r.role = user[u].role /\ r.password = user[u].password
      /\ r.failed = user[u].failed /\ r.lock = user[u].lock
  BY <1>1 DEF UserRow
<1>3. user' = [user EXCEPT ![u] = r] BY <1>1 DEF ToggleActive
<1> HIDE DEF r
<1>4. /\ tries' \in [Users -> Nat] /\ tries' = tries /\ calls' \in Nat
      /\ UNCHANGED <<copy, session, token, req, writes, excused, uses, calm>>
  BY Facts DEF ToggleActive, TypeOK, Count
<1>5. calm => CountOK(u)'
  <2>1. user'[u] = r BY <1>2, <1>3, RowSet
  <2>2. calm => CountOK(u) BY DEF SessionsInv, CalmOK
  <2> QED BY <1>2, <1>4, <2>1, <2>2 DEF CountOK
<1>6. r.lock # user[u].lock => r.lock = "past" BY <1>2
<1> QED BY <1>1, <1>2, <1>3, <1>4, <1>5, <1>6, OutsideRowStep

-----------------------------------------------------------------------------
(* The copies, the sessions and the tokens                                 *)

LEMMA WriteCopyStep ==
  ASSUME SessionsInv, NEW w \in Workers, WriteCopy(w)
  PROVE  SessionsInv'
<1>0. PICK u \in Users : u = req[w].user BY Facts DEF WriteCopy, HandlerOK
<1>1. PICK n \in Nat \ {0} : n = writes[u] + 1 BY Facts DEF TypeOK
<1> DEFINE pc == IF req[w].pc = "copy" THEN "change" ELSE "find"
           h == [req[w] EXCEPT !.pc = pc, !.password = n]
<1>2. /\ req[w].pc \in {"copy_first", "copy"} /\ req[w] \in Handler /\ HandlerOK(w)
      /\ copy' = [copy EXCEPT ![u] = n] /\ writes' = [writes EXCEPT ![u] = n]
      /\ req' = [req EXCEPT ![w] = h]
      /\ UNCHANGED <<user, session, token, calls, excused, tries, uses, calm>>
  BY <1>0, <1>1, Facts DEF WriteCopy
<1>3. h \in Handler /\ h.pc = pc /\ h.user = u /\ h.password = n
  BY <1>0, <1>2 DEF Handler, Steps
<1> HIDE DEF h
<1>4. /\ req' = [req EXCEPT ![w] = req'[w]] /\ req' \in [Workers -> Handler] /\ req'[w] = h
  BY <1>2, <1>3, Facts DEF TypeOK
<1>5. /\ copy' \in [Users -> Nat] /\ copy'[u] = n /\ writes' \in [Users -> Nat]
      /\ \A v \in Users \ {u} : copy'[v] = copy[v]
  BY <1>2, Facts DEF TypeOK
<1>6. TypeOK' BY <1>2, <1>4, <1>5, Facts, TypeFromRows DEF TypeOK
<1>7. \A v \in Workers : HandlerOK(v)'
  <2>1. HandlerOK(w)' BY <1>0, <1>2, <1>3, <1>4 DEF HandlerOK, Exists
  <2>2. Grows BY <1>2, <1>5 DEF Grows, Exists
  <2> QED BY <1>4, <2>1, <2>2, OthersKept
<1>8. RowsOK' /\ LockAtLimit' BY <1>2, <1>5, Facts DEF RowsOK, LockAtLimit, Exists
<1>9. ~At(w, "idle") /\ ~At(w, "end") /\ ~At(w, "change") BY <1>2 DEF At
<1>10. SessionsCurrent' BY <1>2, <1>4, <1>9, CurrentKept
<1>11. CalmOK'
  <2>1. ASSUME calm PROVE Knows(w)' /\ Counted' /\ Spent'
    <3>1. req[w].pc = "copy_first" => user[u].role # "AGENT"
      BY <1>0, <2>1, CalmFacts DEF Knows
    <3>2. Knows(w)' BY <1>2, <1>3, <1>4, <1>5, <3>1 DEF Knows
    <3> QED BY <1>2, <2>1, <3>2, CalmFacts, CountedKept, SpentKept
  <2>2. ASSUME calm PROVE Copied'
    <3> SUFFICES ASSUME NEW v \in Users, user[v].role = "AGENT", ~Changing(v)'
                 PROVE  copy'[v] = user[v].password
      BY <1>2 DEF Copied
    <3>1. req[w].pc = "copy_first" => user[u].role # "AGENT"
      BY <1>0, <2>2, CalmFacts DEF Knows
    <3>2. v # u BY <1>2, <1>3, <1>4, <3>1 DEF Changing, At
    <3>3. ~Changing(v) BY <1>4, <1>9, Facts DEF Changing, At, TypeOK
    <3> QED BY <1>5, <2>2, <3>2, <3>3, CalmFacts DEF Copied
  <2> QED BY <1>2, <1>4, <1>9, <2>1, <2>2, CalmKept
<1> QED BY <1>6, <1>7, <1>8, <1>10, <1>11 DEF SessionsInv

\* What a step that writes only tokens and sessions keeps besides.
LEMMA SideStep ==
  ASSUME SessionsInv, NEW w \in Workers, TypeOK', RowsOK', SessionsCurrent', Spent' \/ ~calm,
         req' = [req EXCEPT ![w] = req'[w]],
         HandlerOK(w)', calm => Knows(w)', ~At(w, "idle"), ~At(w, "change"),
         UNCHANGED <<user, copy, tries, calm>>
  PROVE  SessionsInv'
<1>1. \A v \in Workers : HandlerOK(v)'
  <2>1. Grows BY DEF Grows, Exists
  <2> QED BY <2>1, OthersKept
<1>2. LockAtLimit' BY Facts DEF LockAtLimit
<1>3. CalmOK' BY CalmFacts, CountedKept, CopiedKept, CalmKept
<1> QED BY <1>1, <1>2, <1>3 DEF SessionsInv

LEMMA OpenSessionStep ==
  ASSUME SessionsInv, NEW w \in Workers, NEW s \in SessionIds, OpenSession(w, s)
  PROVE  SessionsInv'
<1>0. PICK u \in Users : u = req[w].user BY Facts DEF OpenSession, HandlerOK, At
<1>1. PICK n \in Nat : n = req[w].password BY Facts DEF Handler
<1>2. /\ At(w, "open") /\ Exists(u) /\ Return(w)
      /\ session' = [session EXCEPT ![s] = [user |-> u, active |-> TRUE, password |-> n]]
      /\ excused' = IF user[u].password = n THEN excused ELSE excused \cup {s}
      /\ UNCHANGED <<user, copy, token, calls, writes, tries, uses, calm>>
  BY <1>0, <1>1, Facts DEF OpenSession, HandlerOK, At
<1>3. /\ req' = [req EXCEPT ![w] = req'[w]] /\ req' \in [Workers -> Handler]
      /\ HandlerOK(w)' /\ Knows(w)' /\ req'[w] = Idle
  BY <1>2, ReturnedHandler
<1>4. /\ session' \in [SessionIds -> [user : Users \cup {Nil}, active : BOOLEAN, password : Nat]]
      /\ session'[s] = [user |-> u, active |-> TRUE, password |-> n]
      /\ \A x \in SessionIds \ {s} : session'[x] = session[x]
      /\ excused' \subseteq SessionIds
  BY <1>2, Facts DEF TypeOK
<1>5. TypeOK' BY <1>2, <1>3, <1>4, Facts, TypeFromRows DEF TypeOK
<1>6. RowsOK' BY <1>2, <1>4, Facts DEF RowsOK, Exists
<1>7. SessionsCurrent'
  <2> SUFFICES ASSUME NEW x \in SessionIds, session'[x].active, x \notin excused',
                      session'[x].password # user[session'[x].user].password
               PROVE  \E v \in Workers :
                        req'[v].pc = "end" /\ req'[v].user = session'[x].user
    BY <1>2 DEF SessionsCurrent, At
  <2>1. x # s BY <1>2, <1>4
  <2>2. x \notin excused BY <1>2
  <2>3. PICK v \in Workers : At(v, "end") /\ req[v].user = session[x].user
    BY <1>4, <2>1, <2>2, Facts DEF SessionsCurrent
  <2>4. v # w /\ req'[v] = req[v] BY <1>2, <1>3, <2>3, Facts DEF At, TypeOK
  <2> QED BY <1>4, <2>1, <2>3, <2>4 DEF At
<1>8. Spent' \/ ~calm BY <1>2, CalmFacts, SpentKept
<1>9. ~At(w, "idle") /\ ~At(w, "change") BY <1>2 DEF At
<1> QED BY <1>2, <1>3, <1>5, <1>6, <1>7, <1>8, <1>9, SideStep

\* The sessions that the new password left are ended.
LEMMA EndSessionsStep ==
  ASSUME SessionsInv, NEW w \in Workers, EndSessions(w)
  PROVE  SessionsInv'
<1>0. PICK u \in Users : u = req[w].user BY Facts DEF EndSessions, HandlerOK, At
<1>1. /\ At(w, "end") /\ Return(w)
      /\ session' = [s \in SessionIds |-> IF s \in ActiveSessions(u)
                       THEN [session[s] EXCEPT !.active = FALSE] ELSE session[s]]
      /\ UNCHANGED <<user, copy, token, calls, writes, excused, tries, uses, calm>>
  BY <1>0 DEF EndSessions
<1>2. /\ req' = [req EXCEPT ![w] = req'[w]] /\ req' \in [Workers -> Handler]
      /\ HandlerOK(w)' /\ Knows(w)' /\ req'[w] = Idle
  BY <1>1, ReturnedHandler
<1>3. /\ session' \in [SessionIds -> [user : Users \cup {Nil}, active : BOOLEAN, password : Nat]]
      /\ \A s \in SessionIds :
           session'[s].active => session'[s] = session[s] /\ session[s].user # u
  BY <1>1, Facts DEF TypeOK, ActiveSessions
<1>4. TypeOK' BY <1>1, <1>2, <1>3, Facts, TypeFromRows DEF TypeOK
<1>5. RowsOK' BY <1>1, <1>3, Facts DEF RowsOK, Exists
<1>6. SessionsCurrent'
  <2> SUFFICES ASSUME NEW x \in SessionIds, session'[x].active, x \notin excused,
                      session'[x].password # user[session'[x].user].password
               PROVE  \E v \in Workers :
                        req'[v].pc = "end" /\ req'[v].user = session'[x].user
    BY <1>1 DEF SessionsCurrent, At
  <2>1. session'[x] = session[x] /\ session[x].user # u BY <1>3
  <2>2. PICK v \in Workers : At(v, "end") /\ req[v].user = session[x].user
    BY <2>1, Facts DEF SessionsCurrent
  <2>3. v # w /\ req'[v] = req[v] BY <1>0, <1>2, <2>1, <2>2, Facts DEF TypeOK
  <2> QED BY <2>1, <2>2, <2>3 DEF At
<1>7. Spent' \/ ~calm BY <1>1, CalmFacts, SpentKept
<1>8. ~At(w, "idle") /\ ~At(w, "change") BY <1>1 DEF At
<1> QED BY <1>1, <1>2, <1>4, <1>5, <1>6, <1>7, <1>8, SideStep

LEMMA IssueTokenStep ==
  ASSUME SessionsInv, NEW w \in Workers, NEW k \in Tokens, IssueToken(w, k)
  PROVE  SessionsInv'
<1>0. PICK u \in Users : u = req[w].user BY Facts DEF IssueToken, HandlerOK, At
<1>1. /\ At(w, "issue") /\ user[u].role = "CUSTOMER" /\ uses[k] = 0 /\ Return(w)
      /\ token' = [token EXCEPT ![k] = u]
      /\ UNCHANGED <<user, copy, session, calls, writes, excused, tries, uses, calm>>
  BY <1>0, Facts DEF IssueToken, Fresh, HandlerOK, At
<1>2. /\ req' = [req EXCEPT ![w] = req'[w]] /\ req' \in [Workers -> Handler]
      /\ HandlerOK(w)' /\ Knows(w)'
  BY <1>1, ReturnedHandler
<1>3. /\ token' \in [Tokens -> Users \cup {Nil}] /\ token'[k] = u
      /\ \A j \in Tokens \ {k} : token'[j] = token[j]
  BY <1>1, Facts DEF TypeOK
<1>4. TypeOK' BY <1>1, <1>2, <1>3, Facts, TypeFromRows DEF TypeOK
<1>5. RowsOK' BY <1>1, <1>3, Facts DEF RowsOK, Exists
<1>6. ~At(w, "idle") /\ ~At(w, "change") /\ ~At(w, "end") BY <1>1 DEF At
<1>7. SessionsCurrent' BY <1>1, <1>2, <1>6, CurrentKept
<1>8. Spent' \/ ~calm BY <1>1, <1>3, CalmFacts DEF Spent
<1> QED BY <1>1, <1>2, <1>4, <1>5, <1>6, <1>7, <1>8, SideStep

LEMMA SpendTokenStep ==
  ASSUME SessionsInv, NEW w \in Workers, SpendToken(w)
  PROVE  SessionsInv'
<1>0. PICK k \in Tokens : k = req[w].token BY Facts DEF SpendToken, HandlerOK, At
<1>1. /\ At(w, "spend") /\ HandlerOK(w) /\ Goto(w, "write")
      /\ token' = [token EXCEPT ![k] = Nil]
      /\ UNCHANGED <<user, copy, session, calls, writes, excused, tries, uses, calm>>
  BY <1>0, Facts DEF SpendToken
<1>2. "write" \in Steps BY DEF Steps
<1>3. /\ req' = [req EXCEPT ![w] = req'[w]] /\ req' \in [Workers -> Handler]
      /\ req'[w].pc = "write" /\ req'[w].user = req[w].user /\ req'[w].token = k
  BY <1>0, <1>1, <1>2, MovedHandler
<1>4. /\ token' \in [Tokens -> Users \cup {Nil}] /\ token'[k] = Nil
      /\ \A j \in Tokens \ {k} : token'[j] = token[j]
  BY <1>1, Facts DEF TypeOK
<1>5. TypeOK' BY <1>1, <1>3, <1>4, Facts, TypeFromRows DEF TypeOK
<1>6. RowsOK' BY <1>1, <1>4, Facts DEF RowsOK, Exists
<1>7. HandlerOK(w)' BY <1>1, <1>3 DEF HandlerOK, At
<1>8. ~At(w, "idle") /\ ~At(w, "change") /\ ~At(w, "end") BY <1>1 DEF At
<1>9. SessionsCurrent' BY <1>1, <1>3, <1>8, CurrentKept
<1>10. ASSUME calm PROVE Knows(w)' /\ Spent'
  <2>1. uses[k] = 0 /\ Spent BY <1>0, <1>1, <1>10, CalmFacts DEF Knows, At
  <2> QED BY <1>1, <1>3, <1>4, <2>1 DEF Knows, Spent
<1> QED BY <1>1, <1>3, <1>5, <1>6, <1>7, <1>8, <1>9, <1>10, SideStep

\* A session is ended, or a token expires, whatever is in flight.
LEMMA OutsideStep ==
  ASSUME SessionsInv, TypeOK', RowsOK',
         UNCHANGED <<user, copy, req, writes, excused, tries, uses, calm>>,
         \A s \in SessionIds : session'[s].active => session'[s] = session[s],
         \A k \in Tokens : token'[k] = Nil \/ token'[k] = token[k]
  PROVE  SessionsInv'
<1>1. \A v \in Workers : HandlerOK(v)' BY Facts DEF HandlerOK, Exists
<1>2. LockAtLimit' BY Facts DEF LockAtLimit
<1>3. SessionsCurrent' BY Facts DEF SessionsCurrent, At
<1>4. CalmOK'
  <2> SUFFICES ASSUME calm
               PROVE  /\ \A v, w \in Workers : v = w \/ req[v].pc = "idle" \/ req[w].pc = "idle"
                      /\ \A v \in Workers : Knows(v)'
                      /\ Counted' /\ Copied' /\ Spent'
    BY DEF CalmOK, Counted, Copied, Spent, At
  <2>1. /\ \A v, w \in Workers : v = w \/ req[v].pc = "idle" \/ req[w].pc = "idle"
        /\ \A u \in Users : CountOK(u)
        /\ Copied /\ Spent
    BY DEF SessionsInv, CalmOK, At, Copied, Spent
  <2>2. \A v \in Workers : Knows(v)'
    <3>1. \A v \in Workers : Knows(v) /\ HandlerOK(v) BY CalmFacts, Facts
    <3> QED BY <3>1 DEF Knows, HandlerOK
  <2>3. Counted' BY <2>1 DEF Counted, CountOK
  <2>4. Copied' BY <2>1 DEF Copied, Changing, At
  <2>5. Spent' BY <2>1 DEF Spent
  <2> QED BY <2>1, <2>2, <2>3, <2>4, <2>5
<1> QED BY <1>1, <1>2, <1>3, <1>4 DEF SessionsInv

LEMMA LogoutStep ==
  ASSUME SessionsInv, NEW s \in SessionIds, Logout(s)
  PROVE  SessionsInv'
<1>1. /\ session' = [session EXCEPT ![s].active = FALSE] /\ calls' = calls + 1
      /\ UNCHANGED <<user, copy, token, req, writes, excused, tries, uses, calm>>
  BY DEF Logout, Count
<1>2. /\ session' \in [SessionIds -> [user : Users \cup {Nil}, active : BOOLEAN, password : Nat]]
      /\ \A x \in SessionIds : session'[x].active => session'[x] = session[x]
  BY <1>1, Facts DEF TypeOK
<1>3. TypeOK' BY <1>1, <1>2, Facts, TypeFromRows DEF TypeOK
<1>4. RowsOK' BY <1>1, <1>2, Facts DEF RowsOK, Exists
<1>5. \A k \in Tokens : token'[k] = token[k] BY <1>1
<1> QED BY <1>1, <1>2, <1>3, <1>4, <1>5, OutsideStep

LEMMA TokenExpiresStep ==
  ASSUME SessionsInv, NEW k \in Tokens, TokenExpires(k)
  PROVE  SessionsInv'
<1>1. /\ token' = [token EXCEPT ![k] = Nil]
      /\ UNCHANGED <<user, copy, session, req, calls, writes, excused, tries, uses, calm>>
  BY DEF TokenExpires
<1>2. /\ token' \in [Tokens -> Users \cup {Nil}]
      /\ \A j \in Tokens : token'[j] = Nil \/ token'[j] = token[j]
  BY <1>1, Facts DEF TypeOK
<1>3. TypeOK' BY <1>1, <1>2, Facts, TypeFromRows DEF TypeOK
<1>4. RowsOK' BY <1>1, <1>2, Facts DEF RowsOK, Exists
<1>5. \A s \in SessionIds : session'[s] = session[s] BY <1>1
<1> QED BY <1>1, <1>2, <1>3, <1>4, <1>5, OutsideStep

\* A request that fails between a password and the end of its sessions leaves
\* them active.
LEMMA StepFailsStep ==
  ASSUME SessionsInv, NEW w \in Workers, StepFails(w)
  PROVE  SessionsInv'
<1>1. /\ Return(w) /\ calm' = FALSE
      /\ excused' = IF At(w, "end") THEN excused \cup ActiveSessions(req[w].user) ELSE excused
      /\ UNCHANGED <<user, copy, session, token, calls, writes, tries, uses>>
  BY DEF StepFails
<1>2. /\ req' = [req EXCEPT ![w] = req'[w]] /\ req' \in [Workers -> Handler] /\ HandlerOK(w)'
  BY <1>1, ReturnedHandler
<1>3. excused' \subseteq SessionIds /\ excused \subseteq excused'
  BY <1>1, Facts DEF TypeOK, ActiveSessions
<1>4. TypeOK' BY <1>1, <1>2, <1>3, Facts, TypeFromRows DEF TypeOK
<1>5. \A v \in Workers : HandlerOK(v)'
  <2>1. Grows BY <1>1 DEF Grows, Exists
  <2> QED BY <1>2, <2>1, OthersKept
<1>6. RowsOK' /\ LockAtLimit' BY <1>1, Facts DEF RowsOK, LockAtLimit, Exists
<1>7. SessionsCurrent'
  <2> SUFFICES ASSUME NEW x \in SessionIds, session[x].active, x \notin excused',
                      session[x].password # user[session[x].user].password
               PROVE  \E v \in Workers :
                        req'[v].pc = "end" /\ req'[v].user = session[x].user
    BY <1>1 DEF SessionsCurrent, At
  <2>1. PICK v \in Workers : At(v, "end") /\ req[v].user = session[x].user
    BY <1>3, Facts DEF SessionsCurrent
  <2>2. v # w BY <1>1, <2>1 DEF ActiveSessions
  <2>3. req'[v] = req[v] BY <1>2, <2>2, Facts DEF TypeOK
  <2> QED BY <2>1, <2>3 DEF At
<1>8. CalmOK' BY <1>1 DEF CalmOK
<1> QED BY <1>4, <1>5, <1>6, <1>7, <1>8 DEF SessionsInv

LEMMA UnchangedStep ==
  ASSUME SessionsInv, UNCHANGED vars
  PROVE  SessionsInv'
<1>1. TypeOK' /\ RowsOK' BY Facts DEF vars, TypeOK, RowsOK, Exists
<1>2. /\ UNCHANGED <<user, copy, req, writes, excused, tries, uses, calm>>
      /\ session' = session /\ token' = token
  BY DEF vars
<1> QED BY <1>1, <1>2, OutsideStep

-----------------------------------------------------------------------------
(* The theorems                                                            *)

LEMMA InitInv ==
  ASSUME Init
  PROVE  SessionsInv
<1>1. \A u \in Users : user[u] \in {Customer, NoUser} /\ user \in [Users -> UserRow]
  BY Rows DEF Init
<1>2. TypeOK
  BY <1>1, Rows, SessionsAssumption DEF Init, TypeOK, UserRow, NoSession
<1>3. \A w \in Workers : req[w] = Idle /\ HandlerOK(w)
  BY Rows DEF Init, HandlerOK
<1>4. RowsOK
  BY <1>1, Rows DEF Init, RowsOK, Exists, NoSession
<1>5. LockAtLimit BY <1>1, Rows, SessionsAssumption DEF LockAtLimit
<1>6. SessionsCurrent BY DEF Init, SessionsCurrent, NoSession
<1>7. CalmOK
  <2>1. \A w \in Workers : At(w, "idle") /\ Knows(w) BY <1>3, Rows DEF At, Knows
  <2>2. \A u \in Users : CountOK(u)
    <3> SUFFICES ASSUME NEW u \in Users PROVE CountOK(u)
      OBVIOUS
    <3>1. tries[u] = 0 BY DEF Init
    <3>2. user[u].failed = 0 /\ user[u].lock = "none" BY <1>1, Rows
    <3> QED BY <3>1, <3>2, SessionsAssumption DEF CountOK
  <2>3. \A u \in Users : user[u].role # "AGENT" BY <1>1, Rows
  <2>4. \A k \in Tokens : uses[k] = 0 BY DEF Init
  <2> QED BY <2>1, <2>2, <2>3, <2>4 DEF CalmOK
<1> QED BY <1>2, <1>3, <1>4, <1>5, <1>6, <1>7 DEF SessionsInv

\* Every step of Next preserves the invariant: one lemma for each action.
LEMMA NextInv ==
  ASSUME SessionsInv, [Next]_vars
  PROVE  SessionsInv'
<1>1. ASSUME NEW w \in Workers, NEW u \in Users,
             \/ \E right \in BOOLEAN : Login(w, u, right)
             \/ VerifyResetOtp(w, u)
             \/ CreateAgentPassword(w, u) \/ ChangeAgentPassword(w, u)
             \/ VerifyAgentLogin(w, u)
      PROVE  SessionsInv'
  BY <1>1, LoginStep, VerifyResetOtpStep, CreateAgentPasswordStep,
     ChangeAgentPasswordStep, VerifyAgentLoginStep
<1>2. ASSUME NEW w \in Workers,
             \/ CountFailure(w) \/ ClearFailures(w)
             \/ SpendToken(w) \/ WriteReset(w) \/ EndSessions(w)
             \/ WriteCopy(w) \/ FindUser(w) \/ WriteFirst(w) \/ WriteChange(w)
             \/ FindAgentUser(w) \/ CreateAgentUser(w) \/ StepFails(w)
      PROVE  SessionsInv'
  BY <1>2, CountFailureStep, ClearFailuresStep, SpendTokenStep, WriteResetStep,
     EndSessionsStep, WriteCopyStep, FindUserStep, WriteFirstStep, WriteChangeStep,
     FindAgentUserStep, CreateAgentUserStep, StepFailsStep
<1>3. ASSUME NEW w \in Workers, NEW s \in SessionIds, OpenSession(w, s) PROVE SessionsInv'
  BY <1>3, OpenSessionStep
<1>4. ASSUME NEW w \in Workers, NEW k \in Tokens, IssueToken(w, k) \/ ResetPassword(w, k)
      PROVE  SessionsInv'
  BY <1>4, IssueTokenStep, ResetPasswordStep
<1>5. CASE Rest BY <1>5, UnchangedStep DEF Rest
<1>6. CASE UNCHANGED vars BY <1>6, UnchangedStep
<1> QED BY <1>1, <1>2, <1>3, <1>4, <1>5, <1>6, LogoutStep, TokenExpiresStep,
        LockPassesStep, ToggleActiveStep DEF Next

\* Whatever the interleaving and wherever a request fails; the parts about the
\* guesses, the copies and the tokens, as long as no two requests overlap.
THEOREM SessionsInvariant == Spec => []SessionsInv
<1>1. Init => SessionsInv BY InitInv
<1>2. SessionsInv /\ [Next]_vars => SessionsInv' BY NextInv
<1> QED BY <1>1, <1>2, PTL DEF Spec

\* The sessions of an earlier password.
THEOREM SessionsCurrentAlways == Spec => []SessionsCurrent
<1>1. SessionsInv => SessionsCurrent BY DEF SessionsInv
<1> QED BY <1>1, SessionsInvariant, PTL

\* The wrong passwords an account takes.
THEOREM GuessesAreBounded == Spec => []GuessesBounded
<1>1. ASSUME SessionsInv PROVE GuessesBounded
  <2> SUFFICES ASSUME calm, NEW u \in Users
               PROVE  /\ tries[u] <= MaxAttempts
                      /\ user[u].lock = "past" => tries[u] = 0
                      /\ tries[u] = MaxAttempts => user[u].lock = "locked"
    BY DEF GuessesBounded
  <2>1. CountOK(u) /\ tries[u] \in Nat /\ user[u] \in UserRow
    BY <1>1, Facts DEF SessionsInv, CalmOK, TypeOK
  <2>2. user[u].lock \in {"none", "locked", "past"} /\ user[u].failed \in Nat
    BY <2>1 DEF UserRow
  <2> QED BY <2>1, <2>2, SessionsAssumption DEF CountOK
<1> QED BY <1>1, SessionsInvariant, PTL

\* The two passwords of an agent.
THEOREM CopiesAlwaysAgree == Spec => []CopiesAgree
<1>1. ASSUME SessionsInv PROVE CopiesAgree
  <2> SUFFICES ASSUME calm, NEW a \in Agents, user[a].role = "AGENT",
                      \A w \in Workers : At(w, "idle")
               PROVE  copy[a] = user[a].password
    BY DEF CopiesAgree
  <2>1. a \in Users BY SessionsAssumption
  <2>2. ~Changing(a) BY DEF Changing, At
  <2> QED BY <1>1, <2>1, <2>2 DEF SessionsInv, CalmOK
<1> QED BY <1>1, SessionsInvariant, PTL

\* The passwords that one token sets.
THEOREM TokensWorkOnce == Spec => []TokenOnce
<1>1. SessionsInv => TokenOnce BY DEF SessionsInv, CalmOK, TokenOnce
<1> QED BY <1>1, SessionsInvariant, PTL

-----------------------------------------------------------------------------
(* Signup: accounts, their documents and the sessions that make them       *)

Data == [doc : G!Documents \cup {Nil}, email : Emails \cup {Nil}, phone : Phones \cup {Nil}]
AccountRow ==
  [email : Emails \cup {Nil}, phone : Phones \cup {Nil}, docs : SUBSET G!Documents,
   kyc : {"NONE", "NOT_STARTED", "PENDING_VERIFICATION", "VERIFIED"}, agent : Agents \cup {Nil}]
SignupHandler ==
  [pc : {"idle", "session", "check", "check_bvn", "create", "spend", "assign"}, data : Data,
   token : Tokens \cup {Nil}, agent : Agents \cup {Nil}, user : Accounts \cup {Nil}]

IsRow(u) == u \in Accounts /\ account[u] # G!NoUser
HasRow(email) == \E u \in Accounts : IsRow(u) /\ account[u].email = email

\* The e-mail of a document's data is one a service answered for what it saw, or
\* that of an account there is.
DataOK(d) == <<G!Seen(d.doc), d.email>> \in examined \/ HasRow(d.email) \/ d.doc = Nil

AccountsOK ==
  /\ account \in [Accounts -> AccountRow]
  /\ VerifiedWasExamined
  /\ \A u \in Accounts : IsRow(u) => account[u].kyc # "NONE"

HandlersOK ==
  /\ signup \in [Tokens -> Data]
  /\ signupReq \in [Workers -> SignupHandler]
  /\ \A k \in Tokens : DataOK(signup[k])
  /\ \A w \in Workers : DataOK(signupReq[w].data)
  /\ \A w \in Workers : signupReq[w].pc \in {"spend", "assign"} => IsRow(signupReq[w].user)

\* Requests with one token have read the same data under it.
HandlersAgree ==
  /\ \A v, w \in Workers :
       signupReq[v].token = signupReq[w].token /\ signupReq[v].token # Nil =>
         signupReq[v].data = signupReq[w].data
  /\ \A w \in Workers, k \in Tokens :
       signupReq[w].token = k /\ signup[k] # G!NoToken => signupReq[w].data = signup[k]

\* Once an account is made with a token, whoever still has its data meets the account.
MadeOnce ==
  /\ made \in [Tokens -> Nat]
  /\ \A k \in Tokens :
       \/ made[k] = 0
       \/ /\ made[k] = 1
          /\ signup[k] = G!NoToken \/ HasRow(signup[k].email)
          /\ \A w \in Workers : signupReq[w].token = k => HasRow(signupReq[w].data.email)

SignupInv == AccountsOK /\ HandlersOK /\ HandlersAgree /\ MadeOnce

\* Accounts are never taken back, nor their e-mails, nor what a service answered.
AccountsKept ==
  /\ \A u \in Accounts : IsRow(u) => IsRow(u)' /\ account'[u].email = account[u].email
  /\ examined \subseteq examined'

LEMMA NoData == G!NoToken \in Data /\ DataOK(G!NoToken) /\ DataOK(G!NoToken)'
BY DEF G!NoToken, Data, DataOK

LEMMA SignupIdle ==
  /\ G!Idle \in SignupHandler /\ G!Idle.pc = "idle" /\ G!Idle.token = Nil
  /\ G!Idle.data = G!NoToken
BY NoData DEF G!Idle, SignupHandler

LEMMA SignupInit == G!Init => SignupInv
<1> SUFFICES ASSUME G!Init PROVE SignupInv
  OBVIOUS
<1>1. G!NoUser \in AccountRow BY DEF G!NoUser, AccountRow
<1>2. AccountsOK
  BY <1>1 DEF G!Init, AccountsOK, IsRow, VerifiedWasExamined, G!VerifiedWasExamined, G!Rows
<1>3. HandlersOK BY NoData, SignupIdle DEF G!Init, HandlersOK
<1>4. Nil \notin Tokens BY SessionsAssumption
<1>5. HandlersAgree /\ MadeOnce BY <1>4, SignupIdle DEF G!Init, HandlersAgree, MadeOnce
<1> QED BY <1>2, <1>3, <1>5 DEF SignupInv

LEMMA KeptHasRow ==
  ASSUME AccountsKept
  PROVE  /\ \A email : HasRow(email) => HasRow(email)'
         /\ \A d : DataOK(d) => DataOK(d)'
<1>1. ASSUME NEW email, HasRow(email) PROVE HasRow(email)'
  BY <1>1 DEF AccountsKept, HasRow
<1>2. ASSUME NEW d, DataOK(d) PROVE DataOK(d)'
  <2>1. HasRow(d.email) => HasRow(d.email)' BY <1>1
  <2> QED BY <1>2, <2>1 DEF DataOK, AccountsKept
<1> QED BY <1>1, <1>2

\* Tokens are spent or stay; handlers keep their token with its data, or have none.
Settles ==
  /\ signup' \in [Tokens -> Data]
  /\ signupReq' \in [Workers -> SignupHandler]
  /\ \A k \in Tokens : signup'[k] \in {signup[k], G!NoToken}
  /\ \A w \in Workers :
       /\ \/ signupReq'[w].data = signupReq[w].data /\ signupReq'[w].token = signupReq[w].token
          \/ signupReq'[w].token = Nil /\ DataOK(signupReq[w].data)'
       /\ signupReq'[w].pc \in {"spend", "assign"} => IsRow(signupReq[w].user)'

LEMMA SignupSettles ==
  ASSUME SignupInv, AccountsOK', AccountsKept, Settles
  PROVE  /\ HandlersOK' /\ HandlersAgree'
         /\ UNCHANGED made => MadeOnce'
<1>1. /\ \A email : HasRow(email) => HasRow(email)'
      /\ \A d : DataOK(d) => DataOK(d)'
  BY KeptHasRow
<1>2. ASSUME NEW k \in Tokens PROVE DataOK(signup[k])'
  <2>1. PICK d : d = signup'[k] OBVIOUS
  <2>2. d \in {signup[k], G!NoToken} BY <2>1 DEF Settles
  <2>3. DataOK(d) BY <2>2, NoData DEF SignupInv, HandlersOK
  <2>4. DataOK(d)' BY <1>1, <2>3
  <2> QED BY <2>1, <2>4 DEF DataOK
<1>3. ASSUME NEW w \in Workers PROVE DataOK(signupReq[w].data)'
  <2>1. PICK d : d = signupReq'[w].data OBVIOUS
  <2>2. CASE d = signupReq[w].data
    <3>1. DataOK(d) BY <2>2 DEF SignupInv, HandlersOK
    <3>2. DataOK(d)' BY <1>1, <3>1
    <3> QED BY <2>1, <3>2 DEF DataOK
  <2>3. CASE DataOK(signupReq[w].data)' BY <2>3
  <2> QED BY <2>1, <2>2, <2>3 DEF Settles
<1>4. HandlersOK' BY <1>2, <1>3 DEF HandlersOK, Settles
<1>5. HandlersAgree' BY SessionsAssumption DEF SignupInv, HandlersAgree, Settles
<1>6. ASSUME UNCHANGED made PROVE MadeOnce'
  <2> SUFFICES ASSUME NEW k \in Tokens, made[k] = 1
               PROVE  /\ signup'[k] = G!NoToken \/ HasRow(signup[k].email)'
                      /\ \A w \in Workers :
                           signupReq'[w].token = k => HasRow(signupReq[w].data.email)'
    BY <1>6 DEF SignupInv, MadeOnce
  <2>1. /\ signup[k] = G!NoToken \/ HasRow(signup[k].email)
        /\ \A w \in Workers : signupReq[w].token = k => HasRow(signupReq[w].data.email)
    BY DEF SignupInv, MadeOnce
  <2>2. signup'[k] = G!NoToken \/ HasRow(signup[k].email)'
    <3>1. PICK e : e = signup[k].email OBVIOUS
    <3>2. HasRow(e) => HasRow(e)' BY <1>1
    <3>3. CASE signup'[k] = signup[k] /\ HasRow(e)
      <4>1. HasRow(e)' /\ signup'[k].email = e BY <3>1, <3>2, <3>3
      <4> QED BY <4>1 DEF HasRow
    <3> QED BY <2>1, <3>1, <3>3 DEF Settles
  <2>3. ASSUME NEW w \in Workers, signupReq'[w].token = k
        PROVE  HasRow(signupReq[w].data.email)'
    <3>1. PICK e : e = signupReq[w].data.email OBVIOUS
    <3>2. k # Nil BY SessionsAssumption
    <3>3. signupReq'[w].data.email = e /\ signupReq[w].token = k
      BY <2>3, <3>1, <3>2 DEF Settles
    <3>4. HasRow(e)' BY <1>1, <2>1, <3>1, <3>3
    <3> QED BY <3>3, <3>4 DEF HasRow
  <2> QED BY <2>2, <2>3
<1> QED BY <1>4, <1>5, <1>6

-----------------------------------------------------------------------------
\* What a handler goes on to, or what one that begins is.
Goes(h) == h.pc \in {"spend", "assign"} => IsRow(h.user)

LEMMA SignupStep ==
  ASSUME SignupInv, NEW w \in Workers, NEW h \in SignupHandler,
         signupReq' = [signupReq EXCEPT ![w] = h],
         \/ h.data = signupReq[w].data /\ h.token = signupReq[w].token
         \/ h.token = Nil /\ DataOK(h.data)',
         Goes(h), UNCHANGED <<account, made>>, examined \subseteq examined',
         signup' \in [Tokens -> Data], \A k \in Tokens : signup'[k] \in {signup[k], G!NoToken}
  PROVE  SignupInv'
<1>1. /\ signupReq'[w] = h
      /\ \A v \in Workers : v # w => signupReq'[v] = signupReq[v]
  BY DEF SignupInv, HandlersOK
<1>2. AccountsOK'
  BY DEF SignupInv, AccountsOK, IsRow, VerifiedWasExamined, G!VerifiedWasExamined, G!Rows
<1>3. AccountsKept BY DEF AccountsKept, IsRow
<1>4. Settles
  <2>1. signupReq' \in [Workers -> SignupHandler] BY DEF SignupInv, HandlersOK
  <2>2. ASSUME NEW v \in Workers
        PROVE  /\ \/ /\ signupReq'[v].data = signupReq[v].data
                     /\ signupReq'[v].token = signupReq[v].token
                  \/ signupReq'[v].token = Nil /\ DataOK(signupReq[v].data)'
               /\ signupReq'[v].pc \in {"spend", "assign"} => IsRow(signupReq[v].user)'
    <3>1. CASE v # w
      BY <1>1, <3>1 DEF SignupInv, HandlersOK, IsRow
    <3>2. CASE v = w
      <4>1. DataOK(h.data)' => DataOK(signupReq[v].data)' BY <1>1, <3>2 DEF DataOK
      <4>2. h.pc \in {"spend", "assign"} => IsRow(signupReq[v].user)'
        BY <1>1, <3>2 DEF Goes, IsRow
      <4> QED BY <1>1, <3>2, <4>1, <4>2
    <3> QED BY <3>1, <3>2
  <2> QED BY <2>1, <2>2 DEF Settles
<1> QED BY <1>2, <1>3, <1>4, SignupSettles DEF SignupInv

LEMMA SignupReturns ==
  ASSUME SignupInv, NEW w \in Workers, G!Return(w), UNCHANGED <<account, made, examined>>,
         signup' \in [Tokens -> Data], \A k \in Tokens : signup'[k] \in {signup[k], G!NoToken}
  PROVE  SignupInv'
<1>1. signupReq' = [signupReq EXCEPT ![w] = G!Idle] BY DEF G!Return
<1>2. DataOK(G!Idle.data)' BY NoData, SignupIdle
<1>3. Goes(G!Idle) BY SignupIdle DEF Goes
<1> QED BY <1>1, <1>2, <1>3, SignupIdle, SignupStep

\* No handler moves; accounts change, or a token expires.
LEMMA SignupBeside ==
  ASSUME SignupInv, UNCHANGED <<signupReq, made, examined>>, AccountsOK', AccountsKept,
         signup' \in [Tokens -> Data], \A k \in Tokens : signup'[k] \in {signup[k], G!NoToken}
  PROVE  SignupInv'
<1>1. ASSUME NEW w \in Workers, signupReq'[w].pc \in {"spend", "assign"}
      PROVE  IsRow(signupReq[w].user)'
  <2>1. IsRow(signupReq[w].user) BY <1>1 DEF SignupInv, HandlersOK
  <2> QED BY <2>1 DEF AccountsKept, IsRow
<1>2. Settles BY <1>1 DEF Settles, SignupInv, HandlersOK
<1> QED BY <1>2, SignupSettles DEF SignupInv

-----------------------------------------------------------------------------
LEMMA SignupTyped ==
  ASSUME SignupInv, NEW w \in Workers
  PROVE  /\ signupReq[w] \in SignupHandler /\ signupReq \in [Workers -> SignupHandler]
         /\ signupReq[w].data \in Data /\ DataOK(signupReq[w].data)
         /\ signup \in [Tokens -> Data] /\ account \in [Accounts -> AccountRow]
         /\ made \in [Tokens -> Nat]
         /\ signupReq[w].pc \in {"spend", "assign"} => IsRow(signupReq[w].user)
BY DEF SignupInv, HandlersOK, AccountsOK, MadeOnce, SignupHandler

\* A request for a session, or one of no session, begins.
LEMMA SignupCalls ==
  ASSUME SignupInv, NEW w \in Workers,
         \/ \E doc \in G!Documents, typed \in Passports \cup {Nil} : G!VerifyDocument(w, doc, typed)
         \/ \E e \in Emails, p \in Phones : G!SignUp(w, e, p)
  PROVE  SignupInv'
<1>1. ASSUME NEW d \in Data, NEW pc \in {"session", "create"},
             G!Call(w, [G!Idle EXCEPT !.pc = pc, !.data = d]), DataOK(d)',
             UNCHANGED <<account, signup, made>>, examined \subseteq examined'
      PROVE  SignupInv'
  <2> DEFINE h == [G!Idle EXCEPT !.pc = pc, !.data = d]
  <2>1. signupReq' = [signupReq EXCEPT ![w] = h] BY <1>1 DEF G!Call
  <2>2. /\ h \in SignupHandler /\ h.pc = pc /\ h.data = d /\ h.token = Nil
    BY DEF G!Idle, SignupHandler
  <2> HIDE DEF h
  <2>3. Goes(h) BY <2>2 DEF Goes
  <2>4. DataOK(h.data)' BY <1>1, <2>1, <2>2 DEF DataOK
  <2>5. signup' \in [Tokens -> Data] /\ \A k \in Tokens : signup'[k] \in {signup[k], G!NoToken}
    BY <1>1, SignupTyped
  <2> QED BY <1>1, <2>1, <2>2, <2>3, <2>4, <2>5, SignupStep
<1>2. ASSUME NEW doc \in G!Documents, NEW typed \in Passports \cup {Nil},
             G!VerifyDocument(w, doc, typed)
      PROVE  SignupInv'
  <2> DEFINE number == IF typed = Nil THEN doc ELSE typed
  <2>0. number \in G!Documents /\ G!Seen(number) = G!Seen(doc)
    BY <1>2 DEF G!VerifyDocument, G!Documents, G!Seen
  <2>1. UNCHANGED <<account, signup, made>> BY <1>2 DEF G!VerifyDocument
  <2>2. ASSUME NEW u \in Accounts, account[u] # G!NoUser, UNCHANGED examined,
               G!Call(w, [G!Idle EXCEPT !.pc = "session", !.data =
                 [doc |-> number, email |-> account[u].email, phone |-> account[u].phone]])
        PROVE  SignupInv'
    <3>1. PICK d : d = [doc |-> number, email |-> account[u].email, phone |-> account[u].phone]
      OBVIOUS
    <3>2. d \in Data
      <4>1. account[u] \in AccountRow BY SignupTyped
      <4> QED BY <2>0, <3>1, <4>1 DEF AccountRow, Data
    <3>3. account'[u].email = d.email /\ account'[u] # G!NoUser BY <2>1, <2>2, <3>1
    <3>4. DataOK(d)' BY <3>3 DEF DataOK, HasRow, IsRow
    <3> QED BY <1>1, <2>1, <2>2, <3>1, <3>2, <3>4
  <2>3. ASSUME NEW e \in Emails, NEW p \in Phones,
               examined' = examined \cup {<<G!Seen(doc), e>>},
               G!Call(w, [G!Idle EXCEPT !.pc = "session", !.data =
                 [doc |-> number, email |-> e, phone |-> p]])
        PROVE  SignupInv'
    <3> DEFINE d == [doc |-> number, email |-> e, phone |-> p]
    <3>1. d \in Data /\ d.doc = number /\ d.email = e BY <2>0 DEF Data
    <3> HIDE DEF d
    <3>2. DataOK(d)' BY <2>0, <2>3, <3>1 DEF DataOK, G!Seen
    <3> QED BY <1>1, <2>1, <2>3, <3>1, <3>2 DEF d
  <2> QED BY <1>2, <2>2, <2>3 DEF G!VerifyDocument, G!Rows
<1>3. ASSUME NEW e \in Emails, NEW p \in Phones, G!SignUp(w, e, p) PROVE SignupInv'
  <2> DEFINE d == [doc |-> Nil, email |-> e, phone |-> p]
  <2>1. d \in Data /\ DataOK(d)' BY DEF Data, DataOK
  <2>2. UNCHANGED <<account, signup, made, examined>> BY <1>3 DEF G!SignUp
  <2>3. G!Call(w, [G!Idle EXCEPT !.pc = "create", !.data = d]) BY <1>3 DEF G!SignUp
  <2> HIDE DEF d
  <2> QED BY <1>1, <2>1, <2>2, <2>3
<1> QED BY <1>2, <1>3

LEMMA SignupChecks ==
  ASSUME SignupInv, NEW w \in Workers,
         G!CheckUser(w) \/ G!CheckBvn(w) \/ G!SpendToken(w) \/ G!StepFails(w)
  PROVE  SignupInv'
<1> DEFINE h == signupReq[w]
<1>1. /\ h \in SignupHandler /\ signup \in [Tokens -> Data] /\ made \in [Tokens -> Nat]
      /\ h.pc \in {"spend", "assign"} => IsRow(h.user)
  BY SignupTyped
<1>2. UNCHANGED <<account, made, examined>>
  BY DEF G!CheckUser, G!CheckBvn, G!SpendToken, G!StepFails
<1>3. signup' \in [Tokens -> Data] /\ \A k \in Tokens : signup'[k] \in {signup[k], G!NoToken}
  BY <1>1, NoData DEF G!CheckUser, G!CheckBvn, G!SpendToken, G!StepFails
<1>4. ASSUME NEW pc \in {"check_bvn", "create", "assign"}, G!Goto(w, pc),
             pc = "assign" => h.pc = "spend"
      PROVE  SignupInv'
  <2> DEFINE k == [h EXCEPT !.pc = pc]
  <2>1. /\ k \in SignupHandler /\ k.pc = pc /\ k.data = h.data /\ k.token = h.token
        /\ k.user = h.user
    BY <1>1 DEF SignupHandler
  <2>2. signupReq' = [signupReq EXCEPT ![w] = k] BY <1>4 DEF G!Goto
  <2> HIDE DEF k
  <2>3. Goes(k) BY <1>1, <1>4, <2>1 DEF Goes
  <2> QED BY <1>2, <1>3, <2>1, <2>2, <2>3, SignupStep
<1>5. CASE G!Return(w) BY <1>2, <1>3, <1>5, SignupReturns
<1> QED BY <1>4, <1>5
  DEF G!CheckUser, G!CheckBvn, G!SpendToken, G!StepFails, G!At

\* A step on accounts that are there.
LEMMA AccountChanges ==
  ASSUME SignupInv, UNCHANGED examined, NEW u \in Accounts, IsRow(u), NEW r \in AccountRow,
         account' = [account EXCEPT ![u] = r], r.email = account[u].email,
         r.kyc # "NONE", r.kyc = "VERIFIED" => account[u].kyc = "VERIFIED" /\ r.docs = account[u].docs
  PROVE  AccountsOK' /\ AccountsKept
<1>1. account \in [Accounts -> AccountRow] BY DEF SignupInv, AccountsOK
<1>2. r # G!NoUser BY DEF G!NoUser
<1>3. AccountsKept BY <1>1, <1>2 DEF AccountsKept, IsRow
<1>4. VerifiedWasExamined'
  BY <1>1 DEF SignupInv, AccountsOK, VerifiedWasExamined, G!VerifiedWasExamined, G!Rows, IsRow
<1>5. \A v \in Accounts : IsRow(v)' => account'[v].kyc # "NONE"
  BY <1>1 DEF SignupInv, AccountsOK, IsRow
<1> QED BY <1>1, <1>3, <1>4, <1>5 DEF AccountsOK

LEMMA SignupAccounts ==
  ASSUME SignupInv,
         \/ \E k \in Tokens : G!TokenExpires(k)
         \/ \E u \in Accounts, doc \in G!Documents : G!VerifyKyc(u, doc)
         \/ \E u \in Accounts, p \in Phones : G!UpdatePhone(u, p)
  PROVE  SignupInv'
<1>1. /\ signup \in [Tokens -> Data] /\ account \in [Accounts -> AccountRow]
      /\ \A u \in Accounts : IsRow(u) => account[u].kyc # "NONE"
  BY DEF SignupInv, HandlersOK, AccountsOK
<1>2. ASSUME NEW k \in Tokens, G!TokenExpires(k) PROVE SignupInv'
  <2>1. /\ signup' = [signup EXCEPT ![k] = G!NoToken]
        /\ UNCHANGED <<account, signupReq, examined, made>>
    BY <1>2 DEF G!TokenExpires
  <2>2. AccountsOK' /\ AccountsKept
    BY <2>1 DEF SignupInv, AccountsOK, AccountsKept, IsRow, VerifiedWasExamined,
                G!VerifiedWasExamined, G!Rows
  <2> QED BY <1>1, <2>1, <2>2, NoData, SignupBeside
<1>3. ASSUME NEW u \in Accounts, NEW doc \in G!Documents, G!VerifyKyc(u, doc) PROVE SignupInv'
  <2> DEFINE docs == G!With(account[u].docs, doc)
             r == [account[u] EXCEPT !.docs = docs, !.kyc = "PENDING_VERIFICATION"]
  <2>1. /\ IsRow(u) /\ account' = [account EXCEPT ![u] = r]
        /\ UNCHANGED <<signup, signupReq, examined, made>>
    BY <1>3 DEF G!VerifyKyc, G!Rows, IsRow
  <2>2. account[u] \in AccountRow BY <1>1
  <2>3. docs \subseteq G!Documents BY <2>2 DEF G!With, AccountRow
  <2> HIDE DEF docs
  <2>4. r \in AccountRow /\ r.email = account[u].email /\ r.kyc = "PENDING_VERIFICATION"
    BY <2>2, <2>3 DEF AccountRow
  <2> HIDE DEF r
  <2>5. AccountsOK' /\ AccountsKept BY <2>1, <2>4, AccountChanges
  <2> QED BY <1>1, <2>1, <2>5, SignupBeside
<1>4. ASSUME NEW u \in Accounts, NEW p \in Phones, G!UpdatePhone(u, p) PROVE SignupInv'
  <2> DEFINE r == [account[u] EXCEPT !.phone = p]
  <2>1. /\ IsRow(u) /\ account' = [account EXCEPT ![u] = r]
        /\ UNCHANGED <<signup, signupReq, examined, made>>
    BY <1>4 DEF G!UpdatePhone, G!Rows, IsRow
  <2>2. account[u] \in AccountRow BY <1>1
  <2>3. /\ r \in AccountRow /\ r.email = account[u].email /\ r.kyc = account[u].kyc
        /\ r.docs = account[u].docs
    BY <2>2 DEF AccountRow
  <2> HIDE DEF r
  <2>4. AccountsOK' /\ AccountsKept BY <1>1, <2>1, <2>3, AccountChanges
  <2> QED BY <1>1, <2>1, <2>4, SignupBeside
<1> QED BY <1>2, <1>3, <1>4

\* An agent takes the account he opened; or the request is refused after it is made.
LEMMA SignupAssigns ==
  ASSUME SignupInv, NEW w \in Workers, G!Assign(w)
  PROVE  SignupInv'
<1> DEFINE h == signupReq[w]
           u == h.user
           r == [account[u] EXCEPT !.agent = h.agent]
<1>1. /\ h \in SignupHandler /\ signup \in [Tokens -> Data]
      /\ account \in [Accounts -> AccountRow]
      /\ h.pc \in {"spend", "assign"} => IsRow(h.user)
      /\ signupReq \in [Workers -> SignupHandler]
  BY SignupTyped
<1>2. /\ h.pc = "assign" /\ UNCHANGED <<signup, examined, made>> /\ G!Return(w)
      /\ signupReq' = [signupReq EXCEPT ![w] = G!Idle]
      /\ account' = account \/ account' = [account EXCEPT ![u] = r]
  BY DEF G!Assign, G!At, G!Return
<1>3. IsRow(u) /\ u \in Accounts BY <1>1, <1>2 DEF IsRow
<1>4. CASE account' = account BY <1>1, <1>2, <1>4, SignupReturns
<1>5. CASE account' = [account EXCEPT ![u] = r]
  <2>1. account[u] \in AccountRow /\ h.agent \in Agents \cup {Nil} /\ account[u].kyc # "NONE"
    BY <1>1, <1>3 DEF SignupHandler, SignupInv, AccountsOK
  <2>2. /\ r \in AccountRow /\ r.email = account[u].email /\ r.kyc = account[u].kyc
        /\ r.docs = account[u].docs
    BY <2>1 DEF AccountRow
  <2>3. PICK v \in Accounts : v = u BY <1>3
  <2> HIDE DEF r, u
  <2>4. AccountsOK' /\ AccountsKept BY <1>2, <1>3, <1>5, <2>1, <2>2, <2>3, AccountChanges
  <2>5. ASSUME NEW x \in Workers
        PROVE  /\ \/ signupReq'[x].data = signupReq[x].data /\ signupReq'[x].token = signupReq[x].token
                  \/ signupReq'[x].token = Nil /\ DataOK(signupReq[x].data)'
               /\ signupReq'[x].pc \in {"spend", "assign"} => IsRow(signupReq[x].user)'
    <3>1. CASE x = w
      <4>1. signupReq'[x] = G!Idle BY <1>1, <1>2, <3>1
      <4>2. DataOK(signupReq[x].data)' BY <4>1, SignupIdle DEF DataOK, G!NoToken
      <4> QED BY <4>1, <4>2, SignupIdle
    <3>2. CASE x # w
      <4>1. signupReq'[x] = signupReq[x] BY <1>1, <1>2, <3>2
      <4>2. signupReq[x].pc \in {"spend", "assign"} => IsRow(signupReq[x].user) BY SignupTyped
      <4> QED BY <2>4, <4>1, <4>2 DEF AccountsKept, IsRow
    <3> QED BY <3>1, <3>2
  <2>6. signupReq' \in [Workers -> SignupHandler] BY <1>1, <1>2, SignupIdle
  <2>7. Settles BY <1>1, <1>2, <2>5, <2>6 DEF Settles
  <2> QED BY <1>2, <2>4, <2>7, SignupSettles DEF SignupInv
<1> QED BY <1>2, <1>4, <1>5

-----------------------------------------------------------------------------
\* A session is opened under a token that nobody has.
LEMMA SessionOpened ==
  ASSUME SignupInv, NEW w \in Workers, NEW k \in Tokens, G!OpenSession(w, k)
  PROVE  SignupInv'
<1> DEFINE d == signupReq[w].data
<1>1. /\ d \in Data /\ DataOK(d) /\ signup \in [Tokens -> Data]
      /\ signupReq \in [Workers -> SignupHandler]
  BY SignupTyped
<1>2. /\ UNCHANGED <<account, examined, made>> /\ G!Return(w)
      /\ signupReq' = [signupReq EXCEPT ![w] = G!Idle]
      /\ signup' = [signup EXCEPT ![k] = d]
      /\ made[k] = 0 /\ \A v \in Workers : signupReq[v].token # k
  BY DEF G!OpenSession, G!Fresh, G!Return
<1>3. AccountsOK'
  BY <1>2 DEF SignupInv, AccountsOK, IsRow, VerifiedWasExamined, G!VerifiedWasExamined, G!Rows
<1>4. /\ \A x : DataOK(x) => DataOK(x)'
      /\ \A e : HasRow(e) => HasRow(e)'
  BY <1>2 DEF DataOK, HasRow, IsRow
<1>5. /\ signupReq'[w] = G!Idle
      /\ \A v \in Workers : v # w => signupReq'[v] = signupReq[v]
  BY <1>1, <1>2
<1>6. PICK x : x = d OBVIOUS
<1> HIDE DEF d
<1>7. /\ signup'[k] = x /\ signup' \in [Tokens -> Data]
      /\ \A j \in Tokens : j # k => signup'[j] = signup[j]
  BY <1>1, <1>2, <1>6
<1>8. HandlersOK'
  <2>1. ASSUME NEW j \in Tokens PROVE DataOK(signup[j])'
    <3>1. PICK y : y = signup'[j] OBVIOUS
    <3>2. DataOK(y) BY <1>1, <1>6, <1>7, <3>1 DEF SignupInv, HandlersOK
    <3>3. DataOK(y)' BY <1>4, <3>2
    <3> QED BY <3>1, <3>3 DEF DataOK
  <2>2. ASSUME NEW v \in Workers PROVE DataOK(signupReq[v].data)'
    <3>1. PICK y : y = signupReq'[v].data OBVIOUS
    <3>2. DataOK(y)
      BY <1>5, <3>1, NoData, SignupIdle DEF SignupInv, HandlersOK
    <3>3. DataOK(y)' BY <1>4, <3>2
    <3> QED BY <3>1, <3>3 DEF DataOK
  <2>3. \A v \in Workers : signupReq'[v].pc \in {"spend", "assign"} => IsRow(signupReq[v].user)'
    BY <1>2, <1>5, SignupIdle DEF SignupInv, HandlersOK, IsRow
  <2>4. signupReq' \in [Workers -> SignupHandler] BY <1>1, <1>2, SignupIdle
  <2> QED BY <1>7, <2>1, <2>2, <2>3, <2>4 DEF HandlersOK
<1>9. HandlersAgree'
  BY <1>2, <1>5, <1>7, SignupIdle, SessionsAssumption DEF SignupInv, HandlersAgree
<1>10. MadeOnce'
  <2> SUFFICES ASSUME NEW j \in Tokens, made[j] # 0
               PROVE  /\ made[j] = 1
                      /\ signup'[j] = G!NoToken \/ HasRow(signup[j].email)'
                      /\ \A v \in Workers :
                           signupReq'[v].token = j => HasRow(signupReq[v].data.email)'
    BY <1>2 DEF SignupInv, MadeOnce
  <2>1. /\ j # k /\ made[j] = 1
        /\ signup[j] = G!NoToken \/ HasRow(signup[j].email)
        /\ \A v \in Workers : signupReq[v].token = j => HasRow(signupReq[v].data.email)
    BY <1>2 DEF SignupInv, MadeOnce
  <2>2. signup'[j] = signup[j] BY <1>7, <2>1
  <2>3. \A v \in Workers : signupReq'[v].token = j => signupReq'[v] = signupReq[v]
    BY <1>5, SignupIdle, SessionsAssumption
  <2> QED BY <1>2, <2>1, <2>2, <2>3 DEF HasRow, IsRow
<1> QED BY <1>3, <1>8, <1>9, <1>10 DEF SignupInv

-----------------------------------------------------------------------------
\* A request begins with what is kept under its token.
LEMMA AccountAsked ==
  ASSUME SignupInv, NEW w \in Workers, NEW k \in Tokens, NEW a \in Agents \cup {Nil},
         G!CreateAccount(w, k, a)
  PROVE  SignupInv'
<1>1. /\ signup \in [Tokens -> Data] /\ signupReq \in [Workers -> SignupHandler]
      /\ signup[k] \in Data /\ DataOK(signup[k])
  BY DEF SignupInv, HandlersOK
<1>2. PICK d : d = signup[k] OBVIOUS
<1>3. PICK h : h = [G!Idle EXCEPT !.pc = "check", !.data = d, !.token = k, !.agent = a]
  OBVIOUS
<1>4. /\ h \in SignupHandler /\ h.pc = "check" /\ h.data = d /\ h.token = k
  BY <1>1, <1>2, <1>3 DEF G!Idle, SignupHandler
<1>5. /\ UNCHANGED <<account, signup, examined, made>> /\ d # G!NoToken
      /\ signupReq' = [signupReq EXCEPT ![w] = h]
  BY <1>2, <1>3 DEF G!CreateAccount, G!Call
<1>6. /\ signupReq'[w] = h
      /\ \A v \in Workers : v # w => signupReq'[v] = signupReq[v]
  BY <1>1, <1>5
<1>7. AccountsOK'
  BY <1>5 DEF SignupInv, AccountsOK, IsRow, VerifiedWasExamined, G!VerifiedWasExamined, G!Rows
<1>8. HandlersOK'
  <2>1. ASSUME NEW v \in Workers
        PROVE  /\ DataOK(signupReq[v].data)'
               /\ signupReq'[v].pc \in {"spend", "assign"} => IsRow(signupReq[v].user)'
    <3>1. CASE v = w
      BY <1>1, <1>2, <1>4, <1>5, <1>6, <3>1 DEF DataOK, HasRow, IsRow
    <3>2. CASE v # w
      BY <1>5, <1>6, <3>2 DEF SignupInv, HandlersOK, DataOK, HasRow, IsRow
    <3> QED BY <3>1, <3>2
  <2>2. \A j \in Tokens : DataOK(signup[j])'
    BY <1>5 DEF SignupInv, HandlersOK, DataOK, HasRow, IsRow
  <2>3. signupReq' \in [Workers -> SignupHandler] BY <1>1, <1>4, <1>5
  <2> QED BY <1>1, <1>5, <2>1, <2>2, <2>3 DEF HandlersOK
<1>9. HandlersAgree'
  <2>1. \A v \in Workers : v # w /\ signupReq[v].token = k => signupReq[v].data = d
    BY <1>2, <1>5 DEF SignupInv, HandlersAgree
  <2>2. ASSUME NEW v \in Workers, NEW x \in Workers,
               signupReq'[v].token = signupReq'[x].token, signupReq'[v].token # Nil
        PROVE  signupReq'[v].data = signupReq'[x].data
    BY <1>4, <1>6, <2>1, <2>2 DEF SignupInv, HandlersAgree
  <2>3. ASSUME NEW v \in Workers, NEW j \in Tokens, signupReq'[v].token = j,
               signup'[j] # G!NoToken
        PROVE  signupReq'[v].data = signup'[j]
    BY <1>2, <1>4, <1>5, <1>6, <2>3 DEF SignupInv, HandlersAgree
  <2> QED BY <2>2, <2>3 DEF HandlersAgree
<1>10. MadeOnce'
  <2> SUFFICES ASSUME NEW j \in Tokens, made[j] # 0
               PROVE  /\ made[j] = 1
                      /\ signup'[j] = G!NoToken \/ HasRow(signup[j].email)'
                      /\ \A v \in Workers :
                           signupReq'[v].token = j => HasRow(signupReq[v].data.email)'
    BY <1>5 DEF SignupInv, MadeOnce
  <2>1. /\ made[j] = 1
        /\ signup[j] = G!NoToken \/ HasRow(signup[j].email)
        /\ \A v \in Workers : signupReq[v].token = j => HasRow(signupReq[v].data.email)
    BY DEF SignupInv, MadeOnce
  <2>2. ASSUME NEW v \in Workers, signupReq'[v].token = j
        PROVE  HasRow(signupReq[v].data.email)'
    <3>1. CASE v = w
      BY <1>2, <1>4, <1>5, <1>6, <2>1, <2>2, <3>1 DEF HasRow, IsRow
    <3>2. CASE v # w BY <1>5, <1>6, <2>1, <2>2, <3>2 DEF HasRow, IsRow
    <3> QED BY <3>1, <3>2
  <2> QED BY <1>5, <2>1, <2>2 DEF HasRow, IsRow
<1> QED BY <1>7, <1>8, <1>9, <1>10 DEF SignupInv

-----------------------------------------------------------------------------
\* The rows of an account are inserted with a unique e-mail.
LEMMA AccountMade ==
  ASSUME SignupInv, NEW w \in Workers, NEW u \in Accounts, G!InsertUser(w, u)
  PROVE  SignupInv'
<1>1. /\ signup \in [Tokens -> Data] /\ signupReq \in [Workers -> SignupHandler]
      /\ account \in [Accounts -> AccountRow] /\ made \in [Tokens -> Nat]
      /\ signupReq[w].data \in Data /\ DataOK(signupReq[w].data)
  BY SignupTyped
<1>2. CASE G!Return(w) /\ UNCHANGED <<account, made>>
  BY <1>1, <1>2, SignupReturns DEF G!InsertUser
<1>3. CASE ~(G!Known(signupReq[w].data) \/ G!BvnTaken(signupReq[w].data.doc))
  <2>1. PICK d : d = signupReq[w].data OBVIOUS
  <2>2. PICK t : t = signupReq[w].token OBVIOUS
  <2>3. PICK r : r = G!Account(d) OBVIOUS
  <2>4. PICK h : h = IF t = Nil THEN G!Idle ELSE [signupReq[w] EXCEPT !.pc = "spend", !.user = u]
    OBVIOUS
  <2>5. /\ account[u] = G!NoUser
        /\ account' = [account EXCEPT ![u] = r]
        /\ signupReq' = [signupReq EXCEPT ![w] = h]
        /\ made' = [k \in Tokens |-> IF k = t THEN made[k] + 1 ELSE made[k]]
        /\ UNCHANGED <<signup, examined>>
        /\ ~G!Known(d)
    BY <1>3, <2>1, <2>2, <2>3, <2>4 DEF G!InsertUser
  <2>6. /\ r \in AccountRow /\ r.email = d.email /\ r.kyc \in {"NOT_STARTED", "VERIFIED"}
        /\ r # G!NoUser
        /\ r.kyc = "VERIFIED" => r.docs = {d.doc} /\ d.doc # Nil
    BY <1>1, <2>1, <2>3 DEF G!Account, Data, AccountRow, G!Documents, G!NoUser
  <2>7. /\ h \in SignupHandler
        /\ t # Nil => h.token = t /\ h.data = d
        /\ t = Nil => h = G!Idle
        /\ h.pc \in {"spend", "assign"} => h.user = u
    BY <1>1, <2>1, <2>2, <2>4, SignupIdle DEF SignupHandler
  <2>8. ~HasRow(d.email) BY <2>5 DEF G!Known, G!Rows, HasRow, IsRow
  <2>9. r.kyc = "VERIFIED" => <<G!Seen(d.doc), d.email>> \in examined
    BY <1>1, <2>1, <2>6, <2>8 DEF DataOK
  <2>10. AccountsKept BY <1>1, <2>5, <2>6 DEF AccountsKept, IsRow
  <2>11. /\ \A e : HasRow(e) => HasRow(e)'
         /\ \A x : DataOK(x) => DataOK(x)'
    BY <2>10, KeptHasRow
  <2>12. HasRow(d.email)'
    BY <1>1, <2>5, <2>6 DEF HasRow, IsRow
  <2>13. AccountsOK'
    <3>1. account' \in [Accounts -> AccountRow] BY <1>1, <2>5, <2>6
    <3>2. VerifiedWasExamined'
      BY <1>1, <2>5, <2>6, <2>9
      DEF SignupInv, AccountsOK, VerifiedWasExamined, G!VerifiedWasExamined, G!Rows
    <3>3. \A v \in Accounts : IsRow(v)' => account'[v].kyc # "NONE"
      BY <1>1, <2>5, <2>6 DEF SignupInv, AccountsOK, IsRow
    <3> QED BY <3>1, <3>2, <3>3 DEF AccountsOK
  <2>14. Settles
    <3>1. ASSUME NEW v \in Workers
          PROVE  /\ \/ /\ signupReq'[v].data = signupReq[v].data
                       /\ signupReq'[v].token = signupReq[v].token
                    \/ signupReq'[v].token = Nil /\ DataOK(signupReq[v].data)'
                 /\ signupReq'[v].pc \in {"spend", "assign"} => IsRow(signupReq[v].user)'
      <4>1. CASE v # w
        <5>1. signupReq'[v] = signupReq[v] BY <1>1, <2>5, <4>1
        <5>2. signupReq[v].pc \in {"spend", "assign"} => IsRow(signupReq[v].user)
          BY SignupTyped
        <5> QED BY <2>10, <5>1, <5>2 DEF AccountsKept, IsRow
      <4>2. CASE v = w
        <5>1. signupReq'[v] = h BY <1>1, <2>5, <4>2
        <5>2. signupReq'[v].pc \in {"spend", "assign"} => IsRow(signupReq[v].user)'
          BY <1>1, <2>5, <2>6, <2>7, <5>1 DEF IsRow
        <5>3. CASE t = Nil
          BY <2>7, <5>1, <5>2, <5>3, SignupIdle, NoData DEF DataOK, G!NoToken
        <5>4. CASE t # Nil BY <2>1, <2>2, <2>7, <4>2, <5>1, <5>2, <5>4
        <5> QED BY <5>3, <5>4
      <4> QED BY <4>1, <4>2
    <3>2. signupReq' \in [Workers -> SignupHandler] BY <1>1, <2>5, <2>7
    <3> QED BY <1>1, <2>5, <3>1, <3>2 DEF Settles
  <2>15. HandlersOK' /\ HandlersAgree' BY <2>10, <2>13, <2>14, SignupSettles
  <2>16. MadeOnce'
    <3>1. \A v \in Workers : signupReq[v].token = t /\ t # Nil => signupReq[v].data = d
      BY <2>1, <2>2 DEF SignupInv, HandlersAgree
    <3>2. ASSUME NEW k \in Tokens
          PROVE  \/ made'[k] = 0
                 \/ /\ made'[k] = 1
                    /\ signup'[k] = G!NoToken \/ HasRow(signup[k].email)'
                    /\ \A v \in Workers :
                         signupReq'[v].token = k => HasRow(signupReq[v].data.email)'
      <4>1. CASE k = t
        <5>1. t # Nil BY <4>1, SessionsAssumption
        <5>2. made[k] = 0
          BY <2>1, <2>2, <2>8, <4>1 DEF SignupInv, MadeOnce
        <5>3. made'[k] = 1 BY <1>1, <2>5, <4>1, <5>2
        <5>4. signup[k] = G!NoToken \/ signup[k].email = d.email
          BY <2>1, <2>2, <4>1 DEF SignupInv, HandlersAgree
        <5>5. \A v \in Workers : signupReq'[v].token = k => signupReq'[v].data = d
          BY <1>1, <2>5, <2>7, <3>1, <4>1, <5>1
        <5> QED BY <2>5, <2>12, <5>3, <5>4, <5>5 DEF HasRow, IsRow
      <4>2. CASE k # t
        <5>1. made'[k] = made[k] BY <1>1, <2>5, <4>2
        <5>2. \/ made[k] = 0
              \/ /\ made[k] = 1
                 /\ signup[k] = G!NoToken \/ HasRow(signup[k].email)
                 /\ \A v \in Workers : signupReq[v].token = k => HasRow(signupReq[v].data.email)
          BY DEF SignupInv, MadeOnce
        <5>3. \A v \in Workers : signupReq'[v].token = k => signupReq'[v] = signupReq[v]
          BY <1>1, <2>5, <2>7, <4>2, SignupIdle, SessionsAssumption
        <5>4. HasRow(signup[k].email) => HasRow(signup[k].email)'
          <6>1. PICK e : e = signup[k].email OBVIOUS
          <6>2. HasRow(e) => HasRow(e)' BY <2>11
          <6> QED BY <2>5, <6>1, <6>2 DEF HasRow
        <5>5. ASSUME NEW v \in Workers, signupReq'[v].token = k,
                     HasRow(signupReq[v].data.email)
              PROVE  HasRow(signupReq[v].data.email)'
          <6>1. PICK e : e = signupReq[v].data.email OBVIOUS
          <6>2. HasRow(e)' BY <2>11, <5>5, <6>1
          <6> QED BY <5>3, <5>5, <6>1, <6>2 DEF HasRow
        <5> QED BY <2>5, <5>1, <5>2, <5>3, <5>4, <5>5
      <4> QED BY <4>1, <4>2
    <3>3. made' \in [Tokens -> Nat] BY <1>1, <2>5
    <3> QED BY <3>2, <3>3 DEF MadeOnce
  <2> QED BY <2>13, <2>15, <2>16 DEF SignupInv
<1> QED BY <1>2, <1>3 DEF G!InsertUser

-----------------------------------------------------------------------------
LEMMA SignupStutters ==
  ASSUME SignupInv, UNCHANGED G!vars
  PROVE  SignupInv'
BY DEF G!vars, SignupInv, AccountsOK, HandlersOK, HandlersAgree, MadeOnce, DataOK, HasRow, IsRow,
       VerifiedWasExamined, G!VerifiedWasExamined, G!Rows

LEMMA SignupNext == SignupInv /\ [G!Next]_(G!vars) => SignupInv'
<1> SUFFICES ASSUME SignupInv, [G!Next]_(G!vars) PROVE SignupInv'
  OBVIOUS
<1>1. CASE UNCHANGED G!vars BY <1>1, SignupStutters
<1>2. CASE G!Rest BY <1>2, SignupStutters DEF G!Rest
<1>3. ASSUME NEW w \in Workers,
             \/ \E doc \in G!Documents, typed \in Passports \cup {Nil} : G!VerifyDocument(w, doc, typed)
             \/ \E k \in Tokens : G!OpenSession(w, k)
             \/ \E k \in Tokens, a \in Agents \cup {Nil} : G!CreateAccount(w, k, a)
             \/ \E u \in Accounts : G!InsertUser(w, u)
             \/ G!CheckUser(w) \/ G!CheckBvn(w) \/ G!SpendToken(w) \/ G!Assign(w)
             \/ \E e \in Emails, p \in Phones : G!SignUp(w, e, p)
             \/ G!StepFails(w)
      PROVE  SignupInv'
  BY <1>3, SignupCalls, SignupChecks, SessionOpened, AccountAsked, AccountMade, SignupAssigns
<1>4. ASSUME \/ \E k \in Tokens : G!TokenExpires(k)
             \/ \E u \in Accounts, doc \in G!Documents : G!VerifyKyc(u, doc)
             \/ \E u \in Accounts, p \in Phones : G!UpdatePhone(u, p)
      PROVE  SignupInv'
  BY <1>4, SignupAccounts
<1> QED BY <1>1, <1>2, <1>3, <1>4 DEF G!Next

\* Signup's inductive invariant: whose e-mail the data of every session and
\* request is, and that whoever has the data of a token an account was made
\* with meets an account.
THEOREM SignupInvariant == G!Spec => []SignupInv
BY SignupInit, SignupNext, PTL DEF G!Spec

\* An account counts as verified only with a document and an e-mail that a
\* service answered for its BVN or for an image of a passport, whatever number
\* was typed for it (verifyPassportForSignup, createNigerianAccount, verifyKyc
\* and the plain signup of auth.service.ts), for any documents, sessions and
\* requests at once.
THEOREM VerifiedAreExamined == G!Spec => []VerifiedWasExamined
<1>1. SignupInv => VerifiedWasExamined BY DEF SignupInv, AccountsOK
<1> QED BY <1>1, SignupInvariant, PTL

\* A token makes one account, however often and by however many it is used
\* (createNigerianAccount, createTouristAccount, createExpatriateAccount).
THEOREM OneAccountEach == G!Spec => []SessionMakesOne
<1>1. SignupInv => SessionMakesOne
  BY DEF SignupInv, MadeOnce, SessionMakesOne, G!SessionMakesOne
<1> QED BY <1>1, SignupInvariant, PTL

-----------------------------------------------------------------------------
(* Otp: a code is accepted for what was sent                               *)

CodeRow == [email : O!Contacts, code : Codes \cup {Nil}, used : BOOLEAN, sent : Nat]
CodeHandler ==
  [pc : {"idle", "mail_key", "code_key", "ask_code_key", "ask_mail_key", "drop_mail_key",
         "drop_code_key", "mark", "verify", "find", "use"},
   email : O!Contacts, code : Codes \cup {Nil}, via : {"none", "code", "mail"},
   row : CodeIds \cup {Nil}, since : Nat]

\* A row of the code for the e-mail was written, and t is at most d minutes later.
Within(c, x, d, t) ==
  \E i \in CodeIds : row[i].code = x /\ row[i].email = c /\ t <= row[i].sent + d

RowsWritten ==
  /\ now \in Nat
  /\ row \in [CodeIds -> CodeRow]
  /\ \A i \in CodeIds : row[i].sent <= now

\* Each key sendOtp sets ends within a bounded time of its row.
MailKeysOK ==
  /\ mailKey \in [O!Contacts -> SUBSET [code : Codes, until : Nat]]
  /\ \A c \in O!Contacts : \A k \in mailKey[c] :
       now < k.until /\ Within(c, k.code, Life + Delay, k.until)
CodeKeysOK ==
  /\ codeKey \in [Codes -> SUBSET [email : O!Contacts, until : Nat]]
  /\ \A x \in Codes : \A k \in codeKey[x] :
       now < k.until /\ Within(k.email, x, Life + Delay + Delay, k.until)

\* No handler has waited longer than Delay since its last statement.
CodeHandlerOK(h) ==
  /\ h.pc # "idle" => h.code \in Codes /\ h.since <= now /\ now <= h.since + Delay
  /\ h.pc = "mail_key" => Within(h.email, h.code, 0, h.since)
  /\ h.pc = "code_key" => Within(h.email, h.code, Delay, h.since)
  /\ h.pc = "use" => h.row \in CodeIds

AnswerOK ==
  \/ answer = <<>>
  \/ \E c \in O!Contacts, x \in Codes, t \in Nat :
       answer = <<[email |-> c, code |-> x, at |-> t]>> /\ O!Sent(c, x, t)

OtpHandlersOK ==
  /\ otpReq \in [Workers -> CodeHandler]
  /\ \A w \in Workers : CodeHandlerOK(otpReq[w])

OtpInv == RowsWritten /\ MailKeysOK /\ CodeKeysOK /\ OtpHandlersOK /\ AnswerOK

\* A row once written keeps its code, its address and its time.
RowsKept ==
  \A i \in CodeIds : row[i].code # Nil =>
    /\ row'[i].code = row[i].code /\ row'[i].email = row[i].email
    /\ row'[i].sent = row[i].sent

LEMMA OtpIdle == O!Idle \in CodeHandler /\ O!Idle.pc = "idle" /\ O!Idle.email = NoEmail
BY DEF O!Idle, CodeHandler, O!Contacts

LEMMA OtpInit == O!Init => OtpInv
<1> SUFFICES ASSUME O!Init PROVE OtpInv
  OBVIOUS
<1>1. O!NoRow \in CodeRow /\ O!NoRow.sent = 0 BY DEF O!NoRow, CodeRow, O!Contacts
<1>2. RowsWritten BY <1>1 DEF O!Init, RowsWritten
<1>3. MailKeysOK /\ CodeKeysOK BY DEF O!Init, MailKeysOK, CodeKeysOK, O!NoKey
<1>4. OtpHandlersOK BY OtpIdle DEF O!Init, OtpHandlersOK, CodeHandlerOK
<1>5. AnswerOK BY DEF O!Init, AnswerOK
<1> QED BY <1>2, <1>3, <1>4, <1>5 DEF OtpInv

LEMMA OtpKept ==
  ASSUME OtpInv, RowsKept
  PROVE  /\ \A c, x, d, t : x \in Codes /\ Within(c, x, d, t) => Within(c, x, d, t)'
         /\ UNCHANGED answer => AnswerOK'
<1>1. Nil \notin Codes BY OtpAssumption
<1>2. ASSUME NEW c, NEW x \in Codes, NEW d, NEW t, Within(c, x, d, t)
      PROVE  Within(c, x, d, t)'
  BY <1>1, <1>2 DEF RowsKept, Within
<1>3. ASSUME NEW c, NEW x \in Codes, NEW t, O!Sent(c, x, t) PROVE O!Sent(c, x, t)'
  BY <1>1, <1>3 DEF RowsKept, O!Sent
<1>4. ASSUME UNCHANGED answer PROVE AnswerOK'
  <2>1. CASE answer = <<>> BY <1>4, <2>1 DEF AnswerOK
  <2>2. ASSUME NEW c \in O!Contacts, NEW x \in Codes, NEW t \in Nat,
               answer = <<[email |-> c, code |-> x, at |-> t]>>, O!Sent(c, x, t)
        PROVE  AnswerOK'
    BY <1>3, <1>4, <2>2 DEF AnswerOK
  <2> QED BY <2>1, <2>2 DEF OtpInv, AnswerOK
<1> QED BY <1>2, <1>4

\* Keys that are there stay good while the clock stands.
LEMMA KeysKept ==
  ASSUME OtpInv, RowsKept, UNCHANGED now
  PROVE  /\ UNCHANGED mailKey => MailKeysOK'
         /\ UNCHANGED codeKey => CodeKeysOK'
<1>1. ASSUME UNCHANGED mailKey PROVE MailKeysOK'
  <2> SUFFICES ASSUME NEW c \in O!Contacts, NEW k \in mailKey[c]
               PROVE  now < k.until /\ Within(c, k.code, Life + Delay, k.until)'
    BY <1>1 DEF OtpInv, MailKeysOK
  <2>1. k.code \in Codes /\ now < k.until /\ Within(c, k.code, Life + Delay, k.until)
    BY DEF OtpInv, MailKeysOK
  <2> QED BY <2>1, OtpKept
<1>2. ASSUME UNCHANGED codeKey PROVE CodeKeysOK'
  <2> SUFFICES ASSUME NEW x \in Codes, NEW k \in codeKey[x]
               PROVE  now < k.until /\ Within(k.email, x, Life + Delay + Delay, k.until)'
    BY <1>2 DEF OtpInv, CodeKeysOK
  <2>1. now < k.until /\ Within(k.email, x, Life + Delay + Delay, k.until)
    BY DEF OtpInv, CodeKeysOK
  <2> QED BY <2>1, OtpKept
<1> QED BY <1>1, <1>2

\* A step of one handler.
LEMMA OtpStep ==
  ASSUME OtpInv, NEW w \in Workers, NEW h \in CodeHandler,
         otpReq' = [otpReq EXCEPT ![w] = h], CodeHandlerOK(h)',
         UNCHANGED now, RowsKept, RowsWritten',
         MailKeysOK', CodeKeysOK', AnswerOK'
  PROVE  OtpInv'
<1>1. /\ otpReq' \in [Workers -> CodeHandler] /\ otpReq'[w] = h
      /\ \A v \in Workers : v # w => otpReq'[v] = otpReq[v]
  BY DEF OtpInv, OtpHandlersOK
<1>2. ASSUME NEW v \in Workers PROVE CodeHandlerOK(otpReq[v])'
  <2>1. PICK g : g = otpReq'[v] OBVIOUS
  <2>2. CASE v = w BY <1>1, <2>2 DEF CodeHandlerOK
  <2>3. CASE v # w
    <3>1. g \in CodeHandler /\ CodeHandlerOK(g)
      BY <1>1, <2>1, <2>3 DEF OtpInv, OtpHandlersOK
    <3>2. /\ g.pc = "mail_key" => Within(g.email, g.code, 0, g.since)'
          /\ g.pc = "code_key" => Within(g.email, g.code, Delay, g.since)'
      BY <3>1, OtpKept DEF CodeHandlerOK
    <3>3. CodeHandlerOK(g)' BY <3>1, <3>2 DEF CodeHandlerOK
    <3> QED BY <2>1, <3>3 DEF CodeHandlerOK
  <2> QED BY <2>2, <2>3
<1> QED BY <1>1, <1>2 DEF OtpInv, OtpHandlersOK

LEMMA OtpTyped ==
  ASSUME OtpInv, NEW w \in Workers
  PROVE  /\ now \in Nat /\ row \in [CodeIds -> CodeRow]
         /\ \A i \in CodeIds : row[i].sent <= now
         /\ mailKey \in [O!Contacts -> SUBSET [code : Codes, until : Nat]]
         /\ codeKey \in [Codes -> SUBSET [email : O!Contacts, until : Nat]]
         /\ otpReq \in [Workers -> CodeHandler] /\ otpReq[w] \in CodeHandler
         /\ CodeHandlerOK(otpReq[w])
         /\ Life \in Nat /\ Delay \in Nat /\ Life > 0
BY OtpAssumption DEF OtpInv, RowsWritten, MailKeysOK, CodeKeysOK, OtpHandlersOK

\* What a handler may go on as without having sent anything.
Asking(h) ==
  /\ h \in CodeHandler
  /\ h.pc \notin {"mail_key", "code_key"}
  /\ h.pc = "use" => h.row \in CodeIds
  /\ h.pc # "idle" => h.code \in Codes /\ h.since = now

LEMMA OtpAsks ==
  ASSUME OtpInv, NEW w \in Workers, NEW h, otpReq' = [otpReq EXCEPT ![w] = h],
         Asking(h), UNCHANGED now, RowsKept, RowsWritten',
         MailKeysOK', CodeKeysOK', AnswerOK'
  PROVE  OtpInv'
<1>1. CodeHandlerOK(h)' BY OtpTyped DEF Asking, CodeHandlerOK
<1> QED BY <1>1, OtpStep DEF Asking

-----------------------------------------------------------------------------
LEMMA RowsStay ==
  ASSUME OtpInv, UNCHANGED <<row, now>>
  PROVE  RowsKept /\ RowsWritten'
BY DEF RowsKept, OtpInv, RowsWritten

\* sendOtp: the row, then the two keys.
LEMMA CodeWritten ==
  ASSUME OtpInv, NEW w \in Workers, NEW i \in CodeIds, NEW c \in O!Contacts, NEW x \in Codes,
         O!CreateRow(w, i, c, x)
  PROVE  OtpInv'
<1>1. PICK h : h = [O!Idle EXCEPT !.pc = "mail_key", !.email = c, !.code = x, !.since = now]
  OBVIOUS
<1>2. PICK r : r = [email |-> c, code |-> x, used |-> FALSE, sent |-> now] OBVIOUS
<1>3. /\ h \in CodeHandler /\ h.pc = "mail_key" /\ h.email = c /\ h.code = x /\ h.since = now
  BY <1>1, OtpTyped DEF O!Idle, CodeHandler
<1>4. /\ row[i] = O!NoRow /\ row' = [row EXCEPT ![i] = r]
      /\ UNCHANGED <<now, mailKey, codeKey, answer>>
  BY <1>2 DEF O!CreateRow
<1>5. otpReq' = [otpReq EXCEPT ![w] = h]
  <2>1. h = [[O!Idle EXCEPT !.pc = "mail_key", !.email = c, !.code = x] EXCEPT !.since = now]
    BY <1>1 DEF O!Idle
  <2> QED BY <2>1 DEF O!CreateRow, O!Call
<1>6. RowsKept BY <1>4, OtpTyped DEF RowsKept, O!NoRow
<1>7. RowsWritten'
  <2>1. r \in CodeRow /\ r.sent = now BY <1>2, OtpTyped DEF CodeRow
  <2> QED BY <1>4, <2>1, OtpTyped DEF RowsWritten
<1>8. MailKeysOK' /\ CodeKeysOK' /\ AnswerOK' BY <1>4, <1>6, KeysKept, OtpKept
<1>9. Within(c, x, 0, now)'
  <2>1. row'[i] = r BY <1>4, OtpTyped
  <2> QED BY <1>2, <1>4, <2>1, OtpTyped DEF Within
<1>10. CodeHandlerOK(h)'
  BY <1>3, <1>4, <1>9, OtpTyped DEF CodeHandlerOK, Within
<1> QED BY <1>3, <1>4, <1>5, <1>6, <1>7, <1>8, <1>10, OtpStep

LEMMA MailKeySet ==
  ASSUME OtpInv, NEW w \in Workers, O!SetMailKey(w)
  PROVE  OtpInv'
<1>1. PICK h : h = otpReq[w] OBVIOUS
<1>2. PICK g : g = [h EXCEPT !.pc = "code_key", !.since = now] OBVIOUS
<1>3. PICK k : k = [code |-> h.code, until |-> now + Life] OBVIOUS
<1>4. /\ h \in CodeHandler /\ CodeHandlerOK(h) /\ h.pc = "mail_key"
  BY <1>1, OtpTyped DEF O!SetMailKey, O!At
<1>5. /\ g \in CodeHandler /\ g.pc = "code_key" /\ g.email = h.email /\ g.code = h.code
      /\ g.since = now
  BY <1>2, <1>4, OtpTyped DEF CodeHandler
<1>6. /\ mailKey' = [mailKey EXCEPT ![h.email] = {k}]
      /\ otpReq' = [otpReq EXCEPT ![w] = g]
      /\ UNCHANGED <<now, row, codeKey, answer>>
  BY <1>1, <1>2, <1>3 DEF O!SetMailKey, O!Goto
<1>7. RowsKept /\ RowsWritten' /\ CodeKeysOK' /\ AnswerOK'
  BY <1>6, RowsStay, KeysKept, OtpKept
<1>8. /\ h.code \in Codes /\ h.email \in O!Contacts /\ h.since \in Nat
      /\ h.since <= now /\ now <= h.since + Delay /\ Within(h.email, h.code, 0, h.since)
  BY <1>4 DEF CodeHandlerOK, CodeHandler
<1>9. Within(h.email, h.code, Delay, now) /\ Within(h.email, h.code, Life + Delay, k.until)
  BY <1>3, <1>8, OtpTyped DEF Within, CodeRow
<1>10. MailKeysOK'
  <2>1. /\ k \in [code : Codes, until : Nat] /\ k.code = h.code /\ now < k.until
    BY <1>3, <1>8, OtpTyped
  <2>2. mailKey' \in [O!Contacts -> SUBSET [code : Codes, until : Nat]]
    BY <1>6, <2>1, OtpTyped
  <2>3. ASSUME NEW c \in O!Contacts, NEW j \in mailKey'[c]
        PROVE  now < j.until /\ Within(c, j.code, Life + Delay, j.until)
    <3>1. CASE c = h.email
      <4>1. j = k BY <1>6, <1>8, <2>3, <3>1, OtpTyped
      <4> QED BY <1>9, <2>1, <3>1, <4>1
    <3>2. CASE c # h.email
      <4>1. j \in mailKey[c] BY <1>6, <2>3, <3>2, OtpTyped
      <4> QED BY <4>1 DEF OtpInv, MailKeysOK
    <3> QED BY <3>1, <3>2
  <2> QED BY <1>6, <2>2, <2>3 DEF MailKeysOK, Within
<1>11. CodeHandlerOK(g)' BY <1>5, <1>6, <1>8, <1>9, OtpTyped DEF CodeHandlerOK, Within
<1> QED BY <1>5, <1>6, <1>7, <1>10, <1>11, OtpStep

LEMMA CodeKeySet ==
  ASSUME OtpInv, NEW w \in Workers, O!SetCodeKey(w)
  PROVE  OtpInv'
<1>1. PICK h : h = otpReq[w] OBVIOUS
<1>2. PICK k : k = [email |-> h.email, until |-> now + Life] OBVIOUS
<1>3. /\ h \in CodeHandler /\ CodeHandlerOK(h) /\ h.pc = "code_key"
  BY <1>1, OtpTyped DEF O!SetCodeKey, O!At
<1>4. /\ codeKey' = [codeKey EXCEPT ![h.code] = {k}]
      /\ otpReq' = [otpReq EXCEPT ![w] = O!Idle]
      /\ UNCHANGED <<now, row, mailKey, answer>>
  BY <1>1, <1>2 DEF O!SetCodeKey, O!Return
<1>5. RowsKept /\ RowsWritten' /\ MailKeysOK' /\ AnswerOK'
  BY <1>4, RowsStay, KeysKept, OtpKept
<1>6. /\ h.code \in Codes /\ h.email \in O!Contacts /\ h.since \in Nat
      /\ h.since <= now /\ now <= h.since + Delay /\ Within(h.email, h.code, Delay, h.since)
  BY <1>3 DEF CodeHandlerOK, CodeHandler
<1>7. Within(h.email, h.code, Life + Delay + Delay, k.until)
  BY <1>2, <1>6, OtpTyped DEF Within, CodeRow
<1>8. CodeKeysOK'
  <2>1. k \in [email : O!Contacts, until : Nat] /\ k.email = h.email /\ now < k.until
    BY <1>2, <1>6, OtpTyped
  <2>2. codeKey' \in [Codes -> SUBSET [email : O!Contacts, until : Nat]]
    BY <1>4, <2>1, OtpTyped
  <2>3. ASSUME NEW x \in Codes, NEW j \in codeKey'[x]
        PROVE  now < j.until /\ Within(j.email, x, Life + Delay + Delay, j.until)
    <3>1. CASE x = h.code
      <4>1. j = k BY <1>4, <1>6, <2>3, <3>1, OtpTyped
      <4> QED BY <1>7, <2>1, <3>1, <4>1
    <3>2. CASE x # h.code
      <4>1. j \in codeKey[x] BY <1>4, <2>3, <3>2, OtpTyped
      <4> QED BY <4>1 DEF OtpInv, CodeKeysOK
    <3> QED BY <3>1, <3>2
  <2> QED BY <1>4, <2>2, <2>3 DEF CodeKeysOK, Within
<1>9. Asking(O!Idle) BY OtpIdle DEF Asking
<1> QED BY <1>4, <1>5, <1>8, <1>9, OtpAsks

-----------------------------------------------------------------------------
\* validateOtp: a question, and the answers of the three places.
LEMMA CodeAsked ==
  ASSUME OtpInv, NEW w \in Workers, NEW c \in O!Contacts, NEW x \in Codes,
         O!Validate(w, c, x)
  PROVE  OtpInv'
<1>1. PICK pc \in {"ask_code_key", "ask_mail_key"} :
        pc = IF c = NoEmail THEN "ask_code_key" ELSE "ask_mail_key"
  OBVIOUS
<1>2. PICK h : h = [O!Idle EXCEPT !.pc = pc, !.email = c, !.code = x, !.since = now]
  OBVIOUS
<1>3. Asking(h) BY <1>1, <1>2, OtpTyped DEF Asking, O!Idle, CodeHandler
<1>4. otpReq' = [otpReq EXCEPT ![w] = h]
  <2>1. h = [[O!Idle EXCEPT !.pc = pc, !.email = c, !.code = x] EXCEPT !.since = now]
    BY <1>2 DEF O!Idle
  <2> QED BY <1>1, <2>1 DEF O!Validate, O!Call
<1>5. UNCHANGED <<now, row, mailKey, codeKey, answer>> BY DEF O!Validate
<1> QED BY <1>3, <1>4, <1>5, RowsStay, KeysKept, OtpKept, OtpAsks

\* A handler goes on without an answer, and without a key set.
LEMMA CodeGoesOn ==
  ASSUME OtpInv, NEW w \in Workers, otpReq[w].pc # "idle",
         \/ O!Return(w)
         \/ \E pc \in {"find", "mark", "verify", "drop_code_key", "drop_mail_key"} : O!Goto(w, pc),
         UNCHANGED <<now, answer>>, RowsKept, RowsWritten', MailKeysOK', CodeKeysOK'
  PROVE  OtpInv'
<1>1. CASE O!Return(w)
  <2>1. Asking(O!Idle) BY OtpIdle DEF Asking
  <2> QED BY <1>1, <2>1, OtpKept, OtpAsks DEF O!Return
<1>2. ASSUME NEW pc \in {"find", "mark", "verify", "drop_code_key", "drop_mail_key"},
             O!Goto(w, pc)
      PROVE  OtpInv'
  <2>1. PICK h : h = [otpReq[w] EXCEPT !.pc = pc, !.since = now] OBVIOUS
  <2>2. otpReq[w] \in CodeHandler /\ otpReq[w].code \in Codes
    BY OtpTyped DEF CodeHandlerOK
  <2>3. Asking(h) BY <2>1, <2>2, OtpTyped DEF Asking, CodeHandler
  <2>4. otpReq' = [otpReq EXCEPT ![w] = h] BY <1>2, <2>1 DEF O!Goto
  <2> QED BY <2>3, <2>4, OtpKept, OtpAsks
<1> QED BY <1>1, <1>2

\* A handler goes on with an answer, which is right.
LEMMA CodeAccepted ==
  ASSUME OtpInv, NEW w \in Workers, NEW c \in O!Contacts, NEW x \in Codes,
         O!Accept(c, x), O!Sent(c, x, now), UNCHANGED <<now, row, mailKey, codeKey>>,
         NEW h, Asking(h), otpReq' = [otpReq EXCEPT ![w] = h]
  PROVE  OtpInv'
<1>1. answer' = <<[email |-> c, code |-> x, at |-> now]>> BY DEF O!Accept
<1>2. RowsKept /\ RowsWritten' /\ MailKeysOK' /\ CodeKeysOK' BY RowsStay, KeysKept
<1>3. now \in Nat BY OtpTyped
<1>4. PICK t : t = now OBVIOUS
<1>5. O!Sent(c, x, t)' BY <1>4 DEF O!Sent
<1>6. AnswerOK' BY <1>1, <1>3, <1>4, <1>5 DEF AnswerOK
<1> QED BY <1>2, <1>6, OtpAsks

LEMMA CodeKeyAsked ==
  ASSUME OtpInv, NEW w \in Workers, O!AskCodeKey(w)
  PROVE  OtpInv'
<1>1. PICK h : h = otpReq[w] OBVIOUS
<1>2. /\ h \in CodeHandler /\ h.pc = "ask_code_key" /\ h.code \in Codes
      /\ UNCHANGED <<now, row, mailKey, codeKey>>
  BY <1>1, OtpTyped DEF O!AskCodeKey, O!At, CodeHandlerOK
<1>3. CASE O!Goto(w, "find") /\ UNCHANGED answer
  BY <1>1, <1>2, <1>3, RowsStay, KeysKept, CodeGoesOn
<1>4. ASSUME NEW k \in codeKey[h.code], O!Accept(k.email, h.code),
             otpReq' = [otpReq EXCEPT ![w] = [h EXCEPT !.pc = "drop_code_key",
                          !.email = k.email, !.via = "code", !.since = now]]
      PROVE  OtpInv'
  <2>1. PICK g : g = [h EXCEPT !.pc = "drop_code_key", !.email = k.email, !.via = "code",
                               !.since = now]
    OBVIOUS
  <2>2. k.email \in O!Contacts /\ k.until \in Nat BY <1>2, <1>4, OtpTyped
  <2>3. now < k.until /\ Within(k.email, h.code, Life + Delay + Delay, k.until)
    BY <1>2, <1>4 DEF OtpInv, CodeKeysOK
  <2>4. O!Sent(k.email, h.code, now)
    BY <2>2, <2>3, OtpTyped DEF Within, O!Sent, CodeRow
  <2>5. Asking(g) BY <1>2, <2>1, <2>2, OtpTyped DEF Asking, CodeHandler
  <2> QED BY <1>2, <1>4, <2>1, <2>2, <2>4, <2>5, CodeAccepted
<1> QED BY <1>1, <1>3, <1>4 DEF O!AskCodeKey

LEMMA MailKeyAsked ==
  ASSUME OtpInv, NEW w \in Workers, O!AskMailKey(w)
  PROVE  OtpInv'
<1>1. PICK h : h = otpReq[w] OBVIOUS
<1>2. /\ h \in CodeHandler /\ h.pc = "ask_mail_key" /\ h.code \in Codes
      /\ UNCHANGED <<now, row, mailKey, codeKey>>
  BY <1>1, OtpTyped DEF O!AskMailKey, O!At, CodeHandlerOK
<1>3. CASE O!Goto(w, "find") /\ UNCHANGED answer
  BY <1>1, <1>2, <1>3, RowsStay, KeysKept, CodeGoesOn
<1>4. ASSUME NEW k \in mailKey[h.email], k.code = h.code, O!Accept(h.email, h.code),
             otpReq' = [otpReq EXCEPT ![w] =
               [h EXCEPT !.pc = "drop_mail_key", !.via = "mail", !.since = now]]
      PROVE  OtpInv'
  <2>1. PICK g : g = [h EXCEPT !.pc = "drop_mail_key", !.via = "mail", !.since = now]
    OBVIOUS
  <2>2. h.email \in O!Contacts BY <1>2 DEF CodeHandler
  <2>3. k.until \in Nat BY <1>4, <2>2, OtpTyped
  <2>4. now < k.until /\ Within(h.email, h.code, Life + Delay, k.until)
    BY <1>4, <2>2 DEF OtpInv, MailKeysOK
  <2>5. O!Sent(h.email, h.code, now)
    BY <2>3, <2>4, OtpTyped DEF Within, O!Sent, CodeRow
  <2>6. Asking(g) BY <1>2, <2>1, OtpTyped DEF Asking, CodeHandler
  <2> QED BY <1>2, <1>4, <2>1, <2>2, <2>5, <2>6, CodeAccepted
<1> QED BY <1>1, <1>3, <1>4 DEF O!AskMailKey

LEMMA RowFound ==
  ASSUME OtpInv, NEW w \in Workers, O!Find(w)
  PROVE  OtpInv'
<1>1. PICK h : h = otpReq[w] OBVIOUS
<1>2. /\ h \in CodeHandler /\ h.pc = "find" /\ h.code \in Codes
      /\ UNCHANGED <<now, row, mailKey, codeKey>>
  BY <1>1, OtpTyped DEF O!Find, O!At, CodeHandlerOK
<1>3. CASE O!Return(w) /\ UNCHANGED answer
  BY <1>1, <1>2, <1>3, RowsStay, KeysKept, CodeGoesOn
<1>4. ASSUME NEW i \in CodeIds, O!Matches(i, h.email, h.code), O!Accept(h.email, h.code),
             otpReq' = [otpReq EXCEPT ![w] =
               [h EXCEPT !.pc = "use", !.row = i, !.since = now]]
      PROVE  OtpInv'
  <2>1. PICK g : g = [h EXCEPT !.pc = "use", !.row = i, !.since = now] OBVIOUS
  <2>2. h.email \in O!Contacts BY <1>2 DEF CodeHandler
  <2>3. O!Sent(h.email, h.code, now)
    BY <1>4, OtpTyped DEF O!Matches, O!Sent, CodeRow
  <2>4. Asking(g) BY <1>2, <2>1, OtpTyped DEF Asking, CodeHandler
  <2> QED BY <1>2, <1>4, <2>1, <2>2, <2>3, <2>4, CodeAccepted
<1> QED BY <1>1, <1>3, <1>4 DEF O!Find

-----------------------------------------------------------------------------
\* The keys go, the rows are marked: nothing comes that was not there.
LEMMA KeysDropped ==
  ASSUME OtpInv, NEW w \in Workers, O!DropMailKey(w) \/ O!DropCodeKey(w)
  PROVE  OtpInv'
<1>1. otpReq[w].pc # "idle" /\ UNCHANGED <<now, row, answer>>
  BY DEF O!DropMailKey, O!DropCodeKey, O!At
<1>2. RowsKept /\ RowsWritten' BY <1>1, RowsStay
<1>3. CASE O!DropMailKey(w)
  <2>1. PICK e : e = otpReq[w].email OBVIOUS
  <2>2. mailKey' = [mailKey EXCEPT ![e] = {}] /\ UNCHANGED codeKey
    BY <1>3, <2>1 DEF O!DropMailKey, O!NoKey
  <2>3. ASSUME NEW c \in O!Contacts, NEW k \in mailKey'[c]
        PROVE  now < k.until /\ Within(c, k.code, Life + Delay, k.until)
    <3>1. k \in mailKey[c] BY <2>2, <2>3, OtpTyped
    <3> QED BY <3>1 DEF OtpInv, MailKeysOK
  <2>4. mailKey' \in [O!Contacts -> SUBSET [code : Codes, until : Nat]] BY <2>2, OtpTyped
  <2>5. MailKeysOK' BY <1>1, <2>3, <2>4 DEF MailKeysOK, Within
  <2>6. \E pc \in {"mark", "drop_code_key"} : O!Goto(w, pc) BY <1>3 DEF O!DropMailKey
  <2> QED BY <1>1, <1>2, <2>2, <2>5, <2>6, KeysKept, CodeGoesOn
<1>4. CASE O!DropCodeKey(w)
  <2>1. PICK x : x = otpReq[w].code OBVIOUS
  <2>2. codeKey' = [codeKey EXCEPT ![x] = {}] /\ UNCHANGED mailKey
    BY <1>4, <2>1 DEF O!DropCodeKey, O!NoKey
  <2>3. ASSUME NEW c \in Codes, NEW k \in codeKey'[c]
        PROVE  now < k.until /\ Within(k.email, c, Life + Delay + Delay, k.until)
    <3>1. k \in codeKey[c] BY <2>2, <2>3, OtpTyped
    <3> QED BY <3>1 DEF OtpInv, CodeKeysOK
  <2>4. codeKey' \in [Codes -> SUBSET [email : O!Contacts, until : Nat]] BY <2>2, OtpTyped
  <2>5. CodeKeysOK' BY <1>1, <2>3, <2>4 DEF CodeKeysOK, Within
  <2>6. \E pc \in {"mark", "drop_mail_key"} : O!Goto(w, pc) BY <1>4 DEF O!DropCodeKey
  <2> QED BY <1>1, <1>2, <2>2, <2>5, <2>6, KeysKept, CodeGoesOn
<1> QED BY <1>3, <1>4

LEMMA RowsMarked ==
  ASSUME OtpInv, NEW w \in Workers, O!Mark(w) \/ O!Use(w)
  PROVE  OtpInv'
<1>1. otpReq[w].pc # "idle" /\ UNCHANGED <<now, mailKey, codeKey, answer>>
  BY DEF O!Mark, O!Use, O!At
<1>2. /\ DOMAIN row' = CodeIds /\ row' = [i \in CodeIds |-> row'[i]]
      /\ \A i \in CodeIds : row'[i] \in {row[i], [row[i] EXCEPT !.used = TRUE]}
  <2>1. CASE O!Mark(w) BY <2>1 DEF O!Mark
  <2>2. CASE O!Use(w)
    <3>1. PICK j : j = otpReq[w].row OBVIOUS
    <3>2. row' = [row EXCEPT ![j] = [row[j] EXCEPT !.used = TRUE]] BY <2>2, <3>1 DEF O!Use
    <3> QED BY <3>2, OtpTyped
  <2> QED BY <2>1, <2>2
<1>3. ASSUME NEW i \in CodeIds
      PROVE  /\ row'[i] \in CodeRow /\ row'[i].code = row[i].code
             /\ row'[i].email = row[i].email /\ row'[i].sent = row[i].sent
  <2>1. row[i] \in CodeRow BY OtpTyped
  <2> QED BY <1>2, <2>1 DEF CodeRow
<1>4. RowsKept BY <1>3 DEF RowsKept
<1>5. RowsWritten' BY <1>1, <1>2, <1>3, OtpTyped DEF RowsWritten
<1>6. O!Return(w) \/ O!Goto(w, "verify") BY DEF O!Mark, O!Use
<1> QED BY <1>1, <1>4, <1>5, <1>6, KeysKept, CodeGoesOn

LEMMA CodeReturns ==
  ASSUME OtpInv, NEW w \in Workers, O!Verify(w) \/ O!StepFails(w)
  PROVE  OtpInv'
<1>1. /\ otpReq[w].pc # "idle" /\ O!Return(w)
      /\ UNCHANGED <<now, row, mailKey, codeKey, answer>>
  BY DEF O!Verify, O!StepFails, O!At
<1> QED BY <1>1, RowsStay, KeysKept, CodeGoesOn

\* A minute passes: keys whose time is over go, and no handler waits longer.
LEMMA OtpTicks ==
  ASSUME OtpInv, O!Tick
  PROVE  OtpInv'
<1>1. /\ now' = now + 1 /\ UNCHANGED <<row, otpReq, answer>>
      /\ \A w \in Workers : otpReq[w].pc # "idle" => now - otpReq[w].since < Delay
      /\ mailKey' = [c \in O!Contacts |-> {k \in mailKey[c] : now' < k.until}]
      /\ codeKey' = [x \in Codes |-> {k \in codeKey[x] : now' < k.until}]
  BY DEF O!Tick, O!At
<1>2. /\ now \in Nat /\ row \in [CodeIds -> CodeRow] /\ \A i \in CodeIds : row[i].sent <= now
      /\ Delay \in Nat /\ otpReq \in [Workers -> CodeHandler]
  BY OtpAssumption DEF OtpInv, RowsWritten, OtpHandlersOK
<1>3. RowsKept BY <1>1 DEF RowsKept
<1>4. RowsWritten' BY <1>1, <1>2 DEF RowsWritten, CodeRow
<1>5. MailKeysOK'
  <2>1. ASSUME NEW c \in O!Contacts
        PROVE  /\ mailKey'[c] \in SUBSET [code : Codes, until : Nat]
               /\ \A k \in mailKey'[c] :
                    now' < k.until /\ Within(c, k.code, Life + Delay, k.until)
    <3>1. mailKey'[c] = {k \in mailKey[c] : now' < k.until} BY <1>1
    <3>2. mailKey[c] \in SUBSET [code : Codes, until : Nat] BY DEF OtpInv, MailKeysOK
    <3>3. \A k \in mailKey[c] : Within(c, k.code, Life + Delay, k.until)
      BY DEF OtpInv, MailKeysOK
    <3> QED BY <3>1, <3>2, <3>3
  <2>2. mailKey' \in [O!Contacts -> SUBSET [code : Codes, until : Nat]]
    <3>1. mailKey' = [c \in O!Contacts |-> mailKey'[c]] BY <1>1
    <3> QED BY <2>1, <3>1
  <2> QED BY <1>1, <2>1, <2>2 DEF MailKeysOK, Within
<1>6. CodeKeysOK'
  <2>1. ASSUME NEW x \in Codes
        PROVE  /\ codeKey'[x] \in SUBSET [email : O!Contacts, until : Nat]
               /\ \A k \in codeKey'[x] :
                    now' < k.until /\ Within(k.email, x, Life + Delay + Delay, k.until)
    <3>1. codeKey'[x] = {k \in codeKey[x] : now' < k.until} BY <1>1
    <3>2. codeKey[x] \in SUBSET [email : O!Contacts, until : Nat] BY DEF OtpInv, CodeKeysOK
    <3>3. \A k \in codeKey[x] : Within(k.email, x, Life + Delay + Delay, k.until)
      BY DEF OtpInv, CodeKeysOK
    <3> QED BY <3>1, <3>2, <3>3
  <2>2. codeKey' \in [Codes -> SUBSET [email : O!Contacts, until : Nat]]
    <3>1. codeKey' = [x \in Codes |-> codeKey'[x]] BY <1>1
    <3> QED BY <2>1, <3>1
  <2> QED BY <1>1, <2>1, <2>2 DEF CodeKeysOK, Within
<1>7. ASSUME NEW w \in Workers PROVE CodeHandlerOK(otpReq[w])'
  <2>1. PICK h : h = otpReq[w] OBVIOUS
  <2>2. h \in CodeHandler /\ CodeHandlerOK(h) BY <2>1 DEF OtpInv, OtpHandlersOK
  <2>3. h.pc # "idle" => now - h.since < Delay BY <1>1, <2>1
  <2>4. h.pc # "idle" => h.since <= now' /\ now' <= h.since + Delay
    BY <1>1, <1>2, <2>2, <2>3 DEF CodeHandlerOK, CodeHandler
  <2> QED BY <1>1, <2>1, <2>2, <2>4 DEF CodeHandlerOK, Within
<1>8. AnswerOK' BY <1>1, <1>3, OtpKept
<1> QED BY <1>1, <1>2, <1>4, <1>5, <1>6, <1>7, <1>8 DEF OtpInv, OtpHandlersOK

-----------------------------------------------------------------------------
LEMMA OtpStutters ==
  ASSUME OtpInv, UNCHANGED O!vars
  PROVE  OtpInv'
<1>1. UNCHANGED <<now, row, mailKey, codeKey, otpReq, answer>> BY DEF O!vars
<1>2. RowsKept /\ RowsWritten' /\ MailKeysOK' /\ CodeKeysOK' /\ AnswerOK'
  BY <1>1, RowsStay, KeysKept, OtpKept
<1>3. OtpHandlersOK' BY <1>1 DEF OtpInv, OtpHandlersOK, CodeHandlerOK, Within
<1> QED BY <1>2, <1>3 DEF OtpInv

LEMMA OtpNext == OtpInv /\ [O!Next]_(O!vars) => OtpInv'
<1> SUFFICES ASSUME OtpInv, [O!Next]_(O!vars) PROVE OtpInv'
  OBVIOUS
<1>1. CASE UNCHANGED O!vars BY <1>1, OtpStutters
<1>2. CASE O!Rest BY <1>2, OtpStutters DEF O!Rest
<1>3. CASE O!Tick BY <1>3, OtpTicks
<1>4. ASSUME NEW w \in Workers, NEW c \in O!Contacts, NEW x \in Codes,
             (\E i \in CodeIds : O!CreateRow(w, i, c, x)) \/ O!Validate(w, c, x)
      PROVE  OtpInv'
  BY <1>4, CodeWritten, CodeAsked
<1>5. ASSUME NEW w \in Workers,
             \/ O!SetMailKey(w) \/ O!SetCodeKey(w)
             \/ O!AskCodeKey(w) \/ O!AskMailKey(w) \/ O!Find(w)
             \/ O!DropMailKey(w) \/ O!DropCodeKey(w) \/ O!Mark(w) \/ O!Verify(w) \/ O!Use(w)
             \/ O!StepFails(w)
      PROVE  OtpInv'
  BY <1>5, MailKeySet, CodeKeySet, CodeKeyAsked, MailKeyAsked, RowFound, KeysDropped,
     RowsMarked, CodeReturns
<1> QED BY <1>1, <1>2, <1>3, <1>4, <1>5 DEF O!Next

\* Otp's inductive invariant: how far from its row each key ends, and that no
\* handler has kept what it read for longer than Delay.
THEOREM OtpInvariant == O!Spec => []OtpInv
BY OtpInit, OtpNext, PTL DEF O!Spec

\* validateOtp (auth.service.ts) accepts a code only if sendOtp wrote a row of it
\* for the e-mail, no longer ago than its life and the time sendOtp took for its
\* two keys, whichever of the three places answered and whatever was sent since.
THEOREM AcceptedCodesWereSent == O!Spec => []AcceptedWasSent
<1>1. OtpInv => AcceptedWasSent
  <2> SUFFICES ASSUME OtpInv PROVE AcceptedWasSent
    OBVIOUS
  <2>1. CASE answer = <<>> BY <2>1 DEF AcceptedWasSent, O!AcceptedWasSent
  <2>2. ASSUME NEW c \in O!Contacts, NEW x \in Codes, NEW t \in Nat,
               answer = <<[email |-> c, code |-> x, at |-> t]>>, O!Sent(c, x, t)
        PROVE  AcceptedWasSent
    <3>1. /\ answer[1].email = c /\ answer[1].code = x /\ answer[1].at = t
      BY <2>2
    <3> QED BY <2>2, <3>1 DEF AcceptedWasSent, O!AcceptedWasSent
  <2> QED BY <2>1, <2>2 DEF OtpInv, AnswerOK
<1> QED BY <1>1, OtpInvariant, PTL

-----------------------------------------------------------------------------
(* The whole                                                               *)

\* A step of Identity is one of the part that focus names, and the others
\* stutter: it implements each of the three.
THEOREM IdentityImplements == IdentitySpec => Spec /\ O!Spec /\ G!Spec
<1>1. IdentityInit => Init /\ O!Init /\ G!Init
  BY DEF IdentityInit
<1>2. ASSUME [IdentityNext]_<<focus, vars, otpVars, signupVars>>
      PROVE  [Next]_vars /\ [O!Next]_(O!vars) /\ [G!Next]_(G!vars)
  <2>1. UNCHANGED otpVars => UNCHANGED O!vars BY DEF otpVars, O!vars
  <2>2. UNCHANGED signupVars => UNCHANGED G!vars BY DEF signupVars, G!vars
  <2> QED BY <1>2, <2>1, <2>2 DEF IdentityNext
<1> QED BY <1>1, <1>2, PTL DEF IdentitySpec, Spec, O!Spec, G!Spec

\* What the run of Identity checks, of the whole and for any sets: the sessions,
\* guesses, copies and reset tokens, the codes, and the accounts of a signup.
THEOREM IdentityKeeps ==
  IdentitySpec =>
    [](SessionsCurrent /\ GuessesBounded /\ CopiesAgree /\ TokenOnce /\ AcceptedWasSent /\
       VerifiedWasExamined /\ SessionMakesOne)
BY IdentityImplements, SessionsCurrentAlways, GuessesAreBounded, CopiesAlwaysAgree,
   TokensWorkOnce, AcceptedCodesWereSent, VerifiedAreExamined, OneAccountEach, PTL
=============================================================================
