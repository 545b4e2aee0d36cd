------------------------------- MODULE Sessions -------------------------------
(***************************************************************************)
(* Passwords, lockout and sessions: login, logout, the reset of a          *)
(* forgotten password, and the agents, whose password is also kept in      *)
(* their Agent row.                                                        *)
(*                                                                         *)
(* A password is the number of the write that set it, and whether the one  *)
(* given matches the hash that a request read is the client's choice.  A   *)
(* one-time code that was accepted (Otp) is an input here.  The minutes of *)
(* a lock and of a reset token pass by LockPasses and TokenExpires; an     *)
(* expired session is as good as ended and left out.                       *)
(***************************************************************************)
EXTENDS Naturals

CONSTANTS
  Users,        \* people with a User row, or agents who may get one
  Agents,       \* those of them with an Agent row of the same e-mail
  SessionIds,   \* a bound on the sessions
  Tokens,       \* a bound on the reset tokens
  Workers,      \* requests in flight at the same time
  MaxAttempts,  \* MAX_LOGIN_ATTEMPTS
  MaxCalls,     \* a bound on the requests of a behaviour
  Nil,          \* no user, no token
  MayFail       \* whether a statement may fail or the process die

ASSUME SessionsAssumption ==
  /\ Agents \subseteq Users
  /\ MaxAttempts \in Nat \ {0}
  /\ MaxCalls \in Nat
  /\ Nil \notin Users \cup Tokens
  /\ MayFail \in BOOLEAN

VARIABLES
  user,     \* User and UserCredential rows
  copy,     \* Agent.password; 0 is none
  session,  \* Session rows, with the password in force when they were asked for
  token,    \* password:reset:<token>, the user it may reset
  req,      \* the handlers in flight
  calls,    \* history: requests so far
  writes,   \* history: the last password set, for each user
  excused,  \* history: sessions that a write of the password did not end
  tries,    \* history: wrong passwords since the last right one or lock
  uses,     \* history: passwords set with each token
  calm      \* history: no request has met another one, or failed

vars == <<user, copy, session, token, req, calls, writes, excused, tries, uses, calm>>

Customer == [role |-> "CUSTOMER", active |-> TRUE, password |-> 1,
             failed |-> 0, lock |-> "none"]
NoUser == [Customer EXCEPT !.role = "NONE", !.password = 0]
NoSession == [user |-> Nil, active |-> FALSE, password |-> 0]
Idle == [pc |-> "idle", user |-> Nil, failed |-> 0, password |-> 0, token |-> Nil]

\* An agent may have been a customer before, or have no user yet.
Init ==
  /\ user \in {f \in [Users -> {Customer, NoUser}] :
                 \A u \in Users \ Agents : f[u] = Customer}
  /\ copy = [u \in Users |-> 0]
  /\ session = [s \in SessionIds |-> NoSession]
  /\ token = [k \in Tokens |-> Nil]
  /\ req = [w \in Workers |-> Idle]
  /\ calls = 0
  /\ writes = [u \in Users |-> 1]
  /\ excused = {}
  /\ tries = [u \in Users |-> 0]
  /\ uses = [k \in Tokens |-> 0]
  /\ calm = TRUE

At(w, pc) == req[w].pc = pc
Exists(u) == user[u].role # "NONE"
ActiveSessions(u) == {s \in SessionIds : session[s].user = u /\ session[s].active}

Return(w) == req' = [req EXCEPT ![w] = Idle]
Goto(w, pc) == req' = [req EXCEPT ![w].pc = pc]
Count == calls < MaxCalls /\ calls' = calls + 1
Call(w, h) ==
  /\ At(w, "idle")
  /\ Count
  /\ req' = [req EXCEPT ![w] = h]
  /\ calm' = (calm /\ \A v \in Workers : At(v, "idle"))

-----------------------------------------------------------------------------
(* login, logout                                                           *)

\* One read of the user with his credential decides what follows.
Login(w, u, right) ==
  /\ Exists(u) /\ user[u].lock # "locked" /\ user[u].active
  /\ Call(w, [Idle EXCEPT !.pc = IF right THEN "clear" ELSE "count", !.user = u,
                          !.failed = user[u].failed, !.password = user[u].password])
  /\ UNCHANGED <<user, copy, session, token, writes, excused, tries, uses>>

SetAttempts(u, failed, lock) ==
  user' = [user EXCEPT ![u] =
    [role |-> user[u].role, active |-> user[u].active, password |-> user[u].password,
     failed |-> failed, lock |-> lock]]

\* Mutant: the account is locked only when the limit is reached exactly.
CountToTheLimit(w) ==
  LET h == req[w] IN
  /\ At(w, "count")
  /\ SetAttempts(h.user, h.failed + 1,
       IF h.failed + 1 = MaxAttempts THEN "locked" ELSE user[h.user].lock)
  /\ tries' = [tries EXCEPT ![h.user] = tries[h.user] + 1]
  /\ Return(w)
  /\ UNCHANGED <<copy, session, token, calls, writes, excused, uses, calm>>
CountFailure(w) ==
  LET h == req[w] IN
  /\ At(w, "count")
  /\ SetAttempts(h.user, h.failed + 1,
       IF h.failed + 1 >= MaxAttempts THEN "locked" ELSE user[h.user].lock)
  /\ tries' = [tries EXCEPT ![h.user] = tries[h.user] + 1]
  /\ Return(w)
  /\ UNCHANGED <<copy, session, token, calls, writes, excused, uses, calm>>

ClearFailures(w) ==
  LET u == req[w].user IN
  /\ At(w, "clear")
  /\ SetAttempts(u, 0, "none")
  /\ tries' = [tries EXCEPT ![u] = 0]
  /\ Goto(w, "open")
  /\ UNCHANGED <<copy, session, token, calls, writes, excused, uses, calm>>

\* A password written since the request read it ends the sessions there are.
OpenSession(w, s) ==
  LET h == req[w] IN
  /\ At(w, "open")
  /\ session[s] = NoSession
  /\ session' = [session EXCEPT ![s] =
       [user |-> h.user, active |-> TRUE, password |-> h.password]]
  /\ excused' = IF user[h.user].password = h.password THEN excused ELSE excused \cup {s}
  /\ Return(w)
  /\ UNCHANGED <<user, copy, token, calls, writes, tries, uses, calm>>

Logout(s) ==
  /\ session[s] # NoSession
  /\ Count
  /\ session' = [session EXCEPT ![s].active = FALSE]
  /\ UNCHANGED <<user, copy, token, req, writes, excused, tries, uses, calm>>

LockPasses(u) ==
  /\ user[u].lock = "locked"
  /\ user' = [user EXCEPT ![u].lock = "past"]
  /\ tries' = [tries EXCEPT ![u] = 0]
  /\ UNCHANGED <<copy, session, token, req, calls, writes, excused, uses, calm>>

\* Staff deactivate a customer, or activate him again; his sessions stay.
ToggleActive(u) ==
  /\ user[u].role = "CUSTOMER"
  /\ Count
  /\ user' = [user EXCEPT ![u].active = ~user[u].active]
  /\ UNCHANGED <<copy, session, token, req, writes, excused, tries, uses, calm>>

-----------------------------------------------------------------------------
(* verifyResetOtp, resetPassword                                           *)

\* The code is validated between the read of the user and the token.
VerifyResetOtp(w, u) ==
  /\ user[u].role = "CUSTOMER" /\ user[u].active
  /\ Call(w, [Idle EXCEPT !.pc = "issue", !.user = u])
  /\ UNCHANGED <<user, copy, session, token, writes, excused, tries, uses>>

\* A token is a new UUID: one that was never given out.
Fresh(k) == token[k] = Nil /\ uses[k] = 0 /\ \A v \in Workers : req[v].token # k

IssueToken(w, k) ==
  /\ At(w, "issue")
  /\ Fresh(k)
  /\ token' = [token EXCEPT ![k] = req[w].user]
  /\ Return(w)
  /\ UNCHANGED <<user, copy, session, calls, writes, excused, tries, uses, calm>>

TokenExpires(k) ==
  /\ token[k] # Nil
  /\ token' = [token EXCEPT ![k] = Nil]
  /\ UNCHANGED <<user, copy, session, req, calls, writes, excused, tries, uses, calm>>

ResetPassword(w, k) ==
  /\ token[k] # Nil
  /\ Call(w, [Idle EXCEPT !.pc = "spend", !.user = token[k], !.token = k])
  /\ UNCHANGED <<user, copy, session, token, writes, excused, tries, uses>>

\* Mutant: the token is left to expire.
KeepToken(w) ==
  /\ At(w, "spend")
  /\ Goto(w, "write")
  /\ UNCHANGED <<user, copy, session, token, calls, writes, excused, tries, uses, calm>>
SpendToken(w) ==
  /\ At(w, "spend")
  /\ token' = [token EXCEPT ![req[w].token] = Nil]
  /\ Goto(w, "write")
  /\ UNCHANGED <<user, copy, session, calls, writes, excused, tries, uses, calm>>

SetPassword(u, version) ==
  user' = [user EXCEPT ![u] = [user[u] EXCEPT !.password = version]]

WriteReset(w) ==
  LET h == req[w] IN
  /\ At(w, "write")
  /\ SetPassword(h.user, writes[h.user] + 1)
  /\ writes' = [writes EXCEPT ![h.user] = writes[h.user] + 1]
  /\ uses' = [uses EXCEPT ![h.token] = uses[h.token] + 1]
  /\ Goto(w, "end")
  /\ UNCHANGED <<copy, session, token, calls, excused, tries, calm>>

\* Mutant: the sessions are left as they are.
EndNone(w) ==
  /\ At(w, "end")
  /\ Return(w)
  /\ UNCHANGED <<user, copy, session, token, calls, writes, excused, tries, uses, calm>>
EndSessions(w) ==
  /\ At(w, "end")
  /\ session' = [s \in SessionIds |->
       IF s \in ActiveSessions(req[w].user)
       THEN [session[s] EXCEPT !.active = FALSE] ELSE session[s]]
  /\ Return(w)
  /\ UNCHANGED <<user, copy, token, calls, writes, excused, tries, uses, calm>>

-----------------------------------------------------------------------------
(* Agents                                                                  *)

CreateAgentPassword(w, a) ==
  /\ a \in Agents /\ copy[a] = 0
  /\ Call(w, [Idle EXCEPT !.pc = "copy_first", !.user = a])
  /\ UNCHANGED <<user, copy, session, token, writes, excused, tries, uses>>

\* The current password given is right for the Agent row.
ChangeAgentPassword(w, a) ==
  /\ a \in Agents /\ user[a].role = "AGENT" /\ copy[a] # 0
  /\ Call(w, [Idle EXCEPT !.pc = "copy", !.user = a])
  /\ UNCHANGED <<user, copy, session, token, writes, excused, tries, uses>>

WriteCopy(w) ==
  LET h == req[w]
      version == writes[h.user] + 1
  IN
  /\ h.pc \in {"copy_first", "copy"}
  /\ copy' = [copy EXCEPT ![h.user] = version]
  /\ writes' = [writes EXCEPT ![h.user] = version]
  /\ req' = [req EXCEPT ![w] =
       [h EXCEPT !.pc = IF h.pc = "copy" THEN "change" ELSE "find", !.password = version]]
  /\ UNCHANGED <<user, session, token, calls, excused, tries, uses, calm>>

FindUser(w) ==
  /\ At(w, "find")
  /\ IF Exists(req[w].user) THEN Goto(w, "first") ELSE Return(w)
  /\ UNCHANGED <<user, copy, session, token, calls, writes, excused, tries, uses, calm>>

\* The first password of an agent ends no session of the customer he was.
WriteFirst(w) ==
  LET h == req[w] IN
  /\ At(w, "first")
  /\ SetPassword(h.user, h.password)
  /\ excused' = excused \cup ActiveSessions(h.user)
  /\ Return(w)
  /\ UNCHANGED <<copy, session, token, calls, writes, tries, uses, calm>>

\* Mutant: only the Agent row is changed.
ChangeOnlyCopy(w) ==
  /\ At(w, "change")
  /\ Goto(w, "end")
  /\ UNCHANGED <<user, copy, session, token, calls, writes, excused, tries, uses, calm>>
WriteChange(w) ==
  LET h == req[w] IN
  /\ At(w, "change")
  /\ SetPassword(h.user, h.password)
  /\ Goto(w, "end")
  /\ UNCHANGED <<copy, session, token, calls, writes, excused, tries, uses, calm>>

\* The code of the login was accepted; the Agent row is read.
VerifyAgentLogin(w, a) ==
  /\ a \in Agents
  /\ Call(w, [Idle EXCEPT !.pc = "find_agent_user", !.user = a, !.password = copy[a]])
  /\ UNCHANGED <<user, copy, session, token, writes, excused, tries, uses>>

FindAgentUser(w) ==
  LET h == req[w] IN
  /\ At(w, "find_agent_user")
  /\ IF Exists(h.user)
     THEN req' = [req EXCEPT ![w] = [h EXCEPT !.pc = "open", !.password = user[h.user].password]]
     ELSE Goto(w, "create")
  /\ UNCHANGED <<user, copy, session, token, calls, writes, excused, tries, uses, calm>>

\* The hash is not null and the e-mail unique: otherwise the create is refused.
CreateAgentUser(w) ==
  LET h == req[w] IN
  /\ At(w, "create")
  /\ IF Exists(h.user) \/ h.password = 0
     THEN Return(w) /\ UNCHANGED user
     ELSE /\ user' = [user EXCEPT ![h.user] =
               [Customer EXCEPT !.role = "AGENT", !.password = h.password]]
          /\ Goto(w, "open")
  /\ UNCHANGED <<copy, session, token, calls, writes, excused, tries, uses, calm>>

\* An error is passed to the client, or the process dies; rows stay.
StepFails(w) ==
  /\ MayFail
  /\ ~At(w, "idle")
  /\ excused' = IF At(w, "end") THEN excused \cup ActiveSessions(req[w].user) ELSE excused
  /\ calm' = FALSE
  /\ Return(w)
  /\ UNCHANGED <<user, copy, session, token, calls, writes, tries, uses>>

\* With no request in flight, or no session id left, the service waits.
Rest ==
  /\ \A w \in Workers :
       \/ At(w, "idle")
       \/ At(w, "open") /\ \A s \in SessionIds : session[s] # NoSession
       \/ At(w, "issue") /\ \A k \in Tokens : ~Fresh(k)
  /\ UNCHANGED vars

Next ==
  \/ \E w \in Workers, u \in Users :
       \/ \E right \in BOOLEAN : Login(w, u, right)
       \/ VerifyResetOtp(w, u)
       \/ CreateAgentPassword(w, u) \/ ChangeAgentPassword(w, u)
       \/ VerifyAgentLogin(w, u)
  \/ \E w \in Workers :
       \/ CountFailure(w) \/ ClearFailures(w)
       \/ SpendToken(w) \/ WriteReset(w) \/ EndSessions(w)
       \/ WriteCopy(w) \/ FindUser(w) \/ WriteFirst(w) \/ WriteChange(w)
       \/ FindAgentUser(w) \/ CreateAgentUser(w)
       \/ StepFails(w)
  \/ \E w \in Workers, s \in SessionIds : OpenSession(w, s)
  \/ \E w \in Workers, k \in Tokens : IssueToken(w, k) \/ ResetPassword(w, k)
  \/ \E s \in SessionIds : Logout(s)
  \/ \E k \in Tokens : TokenExpires(k)
  \/ \E u \in Users : LockPasses(u) \/ ToggleActive(u)
  \/ Rest

Spec == Init /\ [][Next]_vars

-----------------------------------------------------------------------------
(* Properties                                                              *)

Steps == {"idle", "count", "clear", "open", "issue", "spend", "write", "end",
          "copy_first", "copy", "find", "first", "change", "find_agent_user", "create"}

Handler == [pc : Steps, user : Users \cup {Nil}, failed : Nat, password : Nat,
            token : Tokens \cup {Nil}]

\* Type invariant.
TypeOK ==
  /\ user \in [Users -> [role : {"NONE", "CUSTOMER", "AGENT"}, active : BOOLEAN,
                         password : Nat, failed : Nat, lock : {"none", "locked", "past"}]]
  /\ copy \in [Users -> Nat]
  /\ session \in [SessionIds -> [user : Users \cup {Nil}, active : BOOLEAN, password : Nat]]
  /\ token \in [Tokens -> Users \cup {Nil}]
  /\ req \in [Workers -> Handler]
  /\ calls \in Nat
  /\ writes \in [Users -> Nat]
  /\ excused \subseteq SessionIds
  /\ tries \in [Users -> Nat]
  /\ uses \in [Tokens -> Nat]
  /\ calm \in BOOLEAN

\* However logins interleave, an account whose count of failures stands at
\* the limit has been locked, and the lock was not lifted without the count.
LockAtLimit ==
  \A u \in Users : user[u].failed >= MaxAttempts => user[u].lock # "none"

\* Once a password was set and the sessions ended, no session is active that
\* was opened for an earlier password; only the first password of an agent,
\* a failure before the sessions are ended, and a login that read the earlier
\* password and opens its session afterwards leave one.
SessionsCurrent ==
  \A s \in SessionIds :
    /\ session[s].active
    /\ s \notin excused
    /\ session[s].password # user[session[s].user].password
    => \E w \in Workers : At(w, "end") /\ req[w].user = session[s].user

\* When requests do not overlap, an account takes at most MaxAttempts wrong
\* passwords before it is locked, and a single one after a lock has passed.
GuessesBounded ==
  calm => \A u \in Users :
    /\ tries[u] <= MaxAttempts
    /\ user[u].lock = "past" => tries[u] = 0
    /\ tries[u] = MaxAttempts => user[u].lock = "locked"

\* When requests do not overlap or fail, the two passwords of an agent, of
\* whom the Agent row is asked at login and the User row afterwards, agree
\* again after each request.
CopiesAgree ==
  calm => \A a \in Agents :
    user[a].role = "AGENT" /\ (\A w \in Workers : At(w, "idle"))
      => copy[a] = user[a].password

\* When requests do not overlap, a reset token sets one password.
TokenOnce == calm => \A k \in Tokens : uses[k] <= 1

\* What a handler in flight knows of its user, his roles and his token.
HandlerOK(w) ==
  LET h == req[w] IN
  /\ h.pc = "idle" => h = Idle
  /\ h.pc # "idle" => h.user \in Users
  /\ h.pc \in {"spend", "write"} => h.token \in Tokens
  /\ h.pc \in {"count", "clear", "open", "copy", "first", "change", "end"} => Exists(h.user)
  /\ h.pc \in {"issue", "spend", "write"} => user[h.user].role = "CUSTOMER"
  /\ h.pc \in {"find_agent_user", "create"} /\ h.password # 0 => copy[h.user] # 0

RowsOK ==
  /\ \A u \in Users : ~Exists(u) => user[u] = NoUser /\ tries[u] = 0
  /\ \A u \in Users : user[u].role = "AGENT" => copy[u] # 0
  /\ \A s \in SessionIds :
       session[s].active => session[s].user \in Users /\ Exists(session[s].user)
  /\ \A k \in Tokens : token[k] # Nil => user[token[k]].role = "CUSTOMER"

\* What a handler knows besides when it is alone.
Knows(w) ==
  LET h == req[w] IN
  /\ h.pc = "count" => h.failed = user[h.user].failed /\ user[h.user].lock # "locked"
  /\ h.pc \in {"copy_first", "find", "first"} => user[h.user].role # "AGENT"
  /\ h.pc \in {"find_agent_user", "create", "change"} => h.password = copy[h.user]
  /\ h.pc \in {"spend", "write"} => uses[h.token] = 0
  /\ h.pc = "write" => token[h.token] = Nil

\* The count of failures is that of the guesses, with its lock.
CountOK(u) ==
  /\ user[u].lock = "none" => tries[u] = user[u].failed /\ user[u].failed < MaxAttempts
  /\ user[u].lock = "locked" => tries[u] <= MaxAttempts /\ user[u].failed >= MaxAttempts
  /\ user[u].lock = "past" => tries[u] = 0 /\ user[u].failed >= MaxAttempts

Changing(u) == \E w \in Workers : At(w, "change") /\ req[w].user = u

CalmOK ==
  calm =>
    /\ \A v, w \in Workers : v = w \/ At(v, "idle") \/ At(w, "idle")
    /\ \A w \in Workers : Knows(w)
    /\ \A u \in Users : CountOK(u)
    /\ \A u \in Users : user[u].role = "AGENT" /\ ~Changing(u) => copy[u] = user[u].password
    /\ \A k \in Tokens : uses[k] <= 1 /\ (token[k] # Nil => uses[k] = 0)

\* The inductive invariant.
SessionsInv ==
  /\ TypeOK
  /\ \A w \in Workers : HandlerOK(w)
  /\ RowsOK
  /\ LockAtLimit
  /\ SessionsCurrent
  /\ CalmOK
=============================================================================
