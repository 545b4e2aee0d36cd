----------------------------- MODULE StaffTokens ------------------------------
(***************************************************************************)
(* Staff accounts and the rows of the Token table that prove who asks: the *)
(* codes of an invitation, a login and a forgotten password, and the       *)
(* tokens that set a new password.                                         *)
(*                                                                         *)
(* A transaction is one step; the statements of a handler outside of one   *)
(* are steps of their own.                                                 *)
(***************************************************************************)
EXTENDS Naturals

CONSTANTS
  Staff,     \* AdminUser ids
  Tokens,    \* Token ids: a bound on the rows
  Workers,   \* requests in flight at the same time
  MaxAttempts,  \* wrong codes after which one is locked: 5 in the code
  MaxCalls,  \* a bound on the requests
  Nil,       \* no user, no token
  MayFail    \* whether a statement may fail or the process die

VARIABLES
  staff,  \* AdminUser rows: whether there, the password's version, isActive
  row,    \* Token rows
  req,    \* the handlers in flight
  calls,  \* history: requests so far
  uses,   \* history: what each token was good for so far
  calm    \* history: no request has met another one, or failed

vars == <<staff, row, req, calls, uses, calm>>

Codes == {"LOGIN", "RESET_OTP", "WELCOME"}     \* type OTP, by purpose
Grants == {"RESET", "CHANGE"}                  \* type PASSWORD_RESET, by purpose

NoStaff == [made |-> FALSE, password |-> 0, active |-> FALSE]
NoRow == [user |-> Nil, kind |-> "NONE", used |-> FALSE, attempts |-> 0, age |-> "new"]
Idle == [pc |-> "idle", user |-> Nil, token |-> Nil, kind |-> "NONE", first |-> FALSE,
         left |-> {}, attempts |-> 0]

\* One member of staff has a password already.
Init ==
  /\ \E u \in Staff : staff =
       [s \in Staff |-> IF s = u THEN [made |-> TRUE, password |-> 1, active |-> TRUE] ELSE NoStaff]
  /\ row = [t \in Tokens |-> NoRow]
  /\ req = [w \in Workers |-> Idle]
  /\ calls = 0
  /\ uses = [t \in Tokens |-> 0]
  /\ calm = TRUE

At(w, pc) == req[w].pc = pc
Return(w) == req' = [req EXCEPT ![w] = Idle]
Goto(w, pc) == req' = [req EXCEPT ![w].pc = pc]
Call(w, h) ==
  /\ At(w, "idle")
  /\ calls < MaxCalls /\ calls' = calls + 1
  /\ req' = [req EXCEPT ![w] = h]
  /\ calm' = (calm /\ \A v \in Workers : At(v, "idle"))

Unused(u, kinds) == {t \in Tokens : row[t].user = u /\ row[t].kind \in kinds /\ ~row[t].used}
Live(t) == ~row[t].used /\ row[t].age # "expired"
Use(rows, ts) == [t \in Tokens |-> IF t \in ts THEN [rows[t] EXCEPT !.used = TRUE] ELSE rows[t]]
Add(rows, t, u, kind) == [rows EXCEPT ![t] = [NoRow EXCEPT !.user = u, !.kind = kind]]
Used(t) == uses' = [uses EXCEPT ![t] = uses[t] + 1]

\* updateMany of the kinds there are, then a new one of its own kind.
Replace(u, old, t, kind) ==
  /\ row[t] = NoRow
  /\ row' = Add(Use(row, Unused(u, old)), t, u, kind)

-----------------------------------------------------------------------------
(* addUser, toggleUserActive, updateUser                                   *)

\* The invitation is sent only if the mail service is ready.
AddUser(w, u) ==
  /\ ~staff[u].made
  /\ staff' = [staff EXCEPT ![u] = [NoStaff EXCEPT !.made = TRUE]]
  /\ Call(w, [Idle EXCEPT !.pc = "invite", !.user = u])
  /\ UNCHANGED <<row, uses>>

Invite(w, t) ==
  /\ At(w, "invite")
  /\ Replace(req[w].user, Codes, t, "RESET_OTP") \/ UNCHANGED row
  /\ Return(w)
  /\ UNCHANGED <<staff, calls, uses, calm>>

\* Nothing asks whether the user has a password.
SetActive(u, b) ==
  /\ staff[u].made
  /\ staff' = [staff EXCEPT ![u] = [staff[u] EXCEPT !.active = b]]
  /\ UNCHANGED <<row, req, calls, uses, calm>>

-----------------------------------------------------------------------------
(* initiateLogin, resendLoginOtp, verifyLogin                              *)

\* The password is right, or the code is asked for again after a minute.
InitiateLogin(w, u) ==
  /\ staff[u].password # 0
  /\ Call(w, [Idle EXCEPT !.pc = "clear_login", !.user = u])
  /\ UNCHANGED <<staff, row, uses>>

ResendLoginOtp(w, u) ==
  /\ staff[u].password # 0
  /\ \A t \in Unused(u, {"LOGIN"}) : row[t].age # "new"
  /\ Call(w, [Idle EXCEPT !.pc = "clear_login", !.user = u])
  /\ UNCHANGED <<staff, row, uses>>

ClearLogin(w) ==
  /\ At(w, "clear_login")
  /\ row' = Use(row, Unused(req[w].user, {"LOGIN"}))
  /\ Goto(w, "create_login")
  /\ UNCHANGED <<staff, calls, uses, calm>>

CreateLogin(w, t) ==
  /\ At(w, "create_login")
  /\ row[t] = NoRow
  /\ row' = Add(row, t, req[w].user, "LOGIN")
  /\ Return(w)
  /\ UNCHANGED <<staff, calls, uses, calm>>

VerifyLogin(w, t) ==
  /\ row[t].kind = "LOGIN" /\ Live(t)
  /\ Call(w, [Idle EXCEPT !.pc = "use_login", !.token = t])
  /\ UNCHANGED <<staff, row, uses>>

\* Mutant: the code is left unused.
UseNothing(w) ==
  /\ At(w, "use_login")
  /\ Used(req[w].token)
  /\ Return(w)
  /\ UNCHANGED <<staff, row, calls, calm>>
UseLogin(w) ==
  LET t == req[w].token IN
  /\ At(w, "use_login")
  /\ row' = Use(row, {t})
  /\ Used(t)
  /\ Return(w)
  /\ UNCHANGED <<staff, calls, calm>>

-----------------------------------------------------------------------------
(* forgotPassword, validateResetOtp, submitNewPassword                     *)

\* Any code of the last minute, used or not, puts the request off; without a
\* password the new code is one that validateResetOtp refuses.
ForgotPassword(w, u) ==
  /\ staff[u].made
  /\ \A t \in Tokens : row[t].user = u /\ row[t].kind \in Codes => row[t].age # "new"
  /\ Call(w, [Idle EXCEPT !.pc = "forgot", !.user = u,
                          !.kind = IF staff[u].password = 0 THEN "WELCOME" ELSE "RESET_OTP"])
  /\ UNCHANGED <<staff, row, uses>>

Forgot(w, t) ==
  /\ At(w, "forgot")
  /\ Replace(req[w].user, Codes, t, req[w].kind)
  /\ Return(w)
  /\ UNCHANGED <<staff, calls, uses, calm>>

\* The live codes of all staff are read and the given one compared with each;
\* a login's code is not hashed and equals none.
ValidateResetOtp(w, given) ==
  LET live == {t \in Tokens : row[t].kind \in Codes /\ Live(t)} IN
  /\ given \in live => row[given].kind # "LOGIN"
  /\ Call(w, [Idle EXCEPT !.pc = "compare", !.token = given, !.left = live,
                          !.attempts = IF given \in live THEN row[given].attempts ELSE 0])
  /\ UNCHANGED <<staff, row, uses>>

Attempt(t) == row' = [row EXCEPT ![t] = [row[t] EXCEPT !.attempts = row[t].attempts + 1]]

Compare(w, t) ==
  LET h == req[w] IN
  /\ At(w, "compare")
  /\ t \in h.left
  /\ IF t # h.token
     THEN /\ Attempt(t)
          /\ req' = [req EXCEPT ![w] = [h EXCEPT !.left = h.left \ {t}]]
     ELSE IF h.attempts >= MaxAttempts
     THEN row' = Use(row, {t}) /\ Return(w)
     ELSE /\ IF row[t].kind = "RESET_OTP" THEN Goto(w, "issue") ELSE Return(w)
          /\ UNCHANGED row
  /\ UNCHANGED <<staff, calls, uses, calm>>

NoMatch(w) ==
  /\ At(w, "compare")
  /\ req[w].left = {}
  /\ Return(w)
  /\ UNCHANGED <<staff, row, calls, uses, calm>>

\* Mutant: the reset tokens there are stay.
IssueAnother(w, k) ==
  LET t == req[w].token IN
  /\ At(w, "issue")
  /\ row[k] = NoRow
  /\ row' = Add(Use(row, {t}), k, row[t].user, "RESET")
  /\ Used(t)
  /\ Return(w)
  /\ UNCHANGED <<staff, calls, calm>>
Issue(w, k) ==
  LET t == req[w].token IN
  /\ At(w, "issue")
  /\ row[k] = NoRow
  /\ row' = Add(Use(row, {t} \cup Unused(row[t].user, Grants)), k, row[t].user, "RESET")
  /\ Used(t)
  /\ Return(w)
  /\ UNCHANGED <<staff, calls, calm>>

SubmitNewPassword(w, k) ==
  /\ row[k].kind \in Grants /\ Live(k)
  /\ Call(w, [Idle EXCEPT !.pc = "first", !.user = row[k].user, !.token = k])
  /\ UNCHANGED <<staff, row, uses>>

\* The row is read once more: a first password activates its user.
ReadUser(w) ==
  LET h == req[w] IN
  /\ At(w, "first")
  /\ req' = [req EXCEPT ![w] = [h EXCEPT !.pc = "set", !.first = (staff[h.user].password = 0)]]
  /\ UNCHANGED <<staff, row, calls, uses, calm>>

SetPassword(w) ==
  LET h == req[w]
      ended == IF h.kind = "CHANGE" THEN {"CHANGE"} ELSE Grants
  IN
  /\ At(w, "set")
  /\ staff' = [staff EXCEPT ![h.user] =
       [staff[h.user] EXCEPT !.password = staff[h.user].password + 1,
                             !.active = staff[h.user].active \/ h.first]]
  /\ row' = Use(row, {h.token} \cup Unused(h.user, ended))
  /\ Used(h.token)
  /\ Return(w)
  /\ UNCHANGED <<calls, calm>>

-----------------------------------------------------------------------------
(* verifyOldPassword, submitPasswordChange                                 *)

VerifyOldPassword(w, u) ==
  /\ staff[u].password # 0
  /\ Call(w, [Idle EXCEPT !.pc = "change", !.user = u])
  /\ UNCHANGED <<staff, row, uses>>

IssueChange(w, k) ==
  /\ At(w, "change")
  /\ Replace(req[w].user, {"CHANGE"}, k, "CHANGE")
  /\ Return(w)
  /\ UNCHANGED <<staff, calls, uses, calm>>

SubmitPasswordChange(w, k) ==
  /\ row[k].kind = "CHANGE" /\ Live(k)
  /\ staff[row[k].user].password # 0
  /\ Call(w, [Idle EXCEPT !.pc = "set", !.user = row[k].user, !.token = k, !.kind = "CHANGE"])
  /\ UNCHANGED <<staff, row, uses>>

-----------------------------------------------------------------------------

\* A minute passes, then the five or ten that a token lives.
Age(t) ==
  /\ row[t] # NoRow /\ row[t].age # "expired"
  /\ row' = [row EXCEPT ![t] =
       [row[t] EXCEPT !.age = IF row[t].age = "new" THEN "live" ELSE "expired"]]
  /\ UNCHANGED <<staff, req, calls, uses, calm>>

StepFails(w) ==
  /\ MayFail
  /\ ~At(w, "idle")
  /\ calm' = FALSE
  /\ Return(w)
  /\ UNCHANGED <<staff, row, calls, uses>>

\* With no request in flight, or no id left for it, the service waits.
Rest ==
  /\ \A w \in Workers :
       \/ At(w, "idle")
       \/ /\ req[w].pc \in {"create_login", "forgot", "issue", "change"}
          /\ \A t \in Tokens : row[t] # NoRow
  /\ UNCHANGED vars

Next ==
  \/ \E w \in Workers, u \in Staff :
       \/ AddUser(w, u) \/ InitiateLogin(w, u) \/ ResendLoginOtp(w, u)
       \/ ForgotPassword(w, u) \/ VerifyOldPassword(w, u)
  \/ \E w \in Workers, t \in Tokens :
       \/ Invite(w, t) \/ CreateLogin(w, t) \/ VerifyLogin(w, t)
       \/ Forgot(w, t) \/ Compare(w, t) \/ Issue(w, t) \/ SubmitNewPassword(w, t)
       \/ IssueChange(w, t) \/ SubmitPasswordChange(w, t)
  \/ \E w \in Workers, given \in Tokens \cup {Nil} : ValidateResetOtp(w, given)
  \/ \E w \in Workers :
       \/ ClearLogin(w) \/ UseLogin(w) \/ NoMatch(w) \/ ReadUser(w) \/ SetPassword(w)
       \/ StepFails(w)
  \/ \E u \in Staff, b \in BOOLEAN : SetActive(u, b)
  \/ \E t \in Tokens : Age(t)
  \/ Rest

Spec == Init /\ [][Next]_vars

-----------------------------------------------------------------------------
(* Properties                                                              *)

OneOf(S) == \A s, t \in S : s = t   \* at most

\* Of the tokens of one member of staff, at most one that sets a forgotten
\* password is unused, one that changes a known one, and one mailed code for
\* either; when requests do not overlap or fail, also one code to log in.
OneOfAKind ==
  \A u \in Staff :
    /\ \A kinds \in {{"RESET"}, {"CHANGE"}, {"RESET_OTP", "WELCOME"}} : OneOf(Unused(u, kinds))
    /\ calm => OneOf(Unused(u, {"LOGIN"}))

\* When requests do not overlap, a token or a code is good for one session,
\* one reset token or one password, and so is each of those it was traded for.
UsedOnce == calm => \A t \in Tokens : uses[t] <= 1
=============================================================================
