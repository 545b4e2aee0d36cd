----------------------------- MODULE BackOffice ------------------------------
(***************************************************************************)
(* What staff do, and the requests it is done through: Dispatch, and with  *)
(* it the accounts and tokens of staff, their roles and the tickets they   *)
(* work on.  The four share no state, so their interleavings show nothing: *)
(* each behaviour is one of focus.                                         *)
(***************************************************************************)
EXTENDS Dispatch

CONSTANTS
  Staff, Tokens, MaxAttempts,     \* of StaffTokens
  RoleIds, DepartmentIds, Features,   \* of StaffRoles
  Tickets,                        \* of Tickets
  Workers, MaxCalls, MayFail      \* of the three

VARIABLES
  focus,
  staff, proof, staffReq, staffCalls, uses, staffCalm,
  roleRow, grant, roleReq, roleCalls, roleCalm,
  ticket, active, ticketReq, ticketCalls, ticketCalm

A == INSTANCE StaffTokens WITH
  row <- proof, req <- staffReq, calls <- staffCalls, calm <- staffCalm

R == INSTANCE StaffRoles WITH
  Roles <- RoleIds, Departments <- DepartmentIds,
  row <- roleRow, req <- roleReq, calls <- roleCalls, calm <- roleCalm

K == INSTANCE Tickets WITH
  req <- ticketReq, calls <- ticketCalls, calm <- ticketCalm

staffVars == <<staff, proof, staffReq, staffCalls, uses, staffCalm>>
roleVars == <<roleRow, grant, roleReq, roleCalls, roleCalm>>
ticketVars == <<ticket, active, ticketReq, ticketCalls, ticketCalm>>

BackOfficeInit ==
  /\ focus \in {"requests", "tokens", "roles", "tickets"}
  /\ Init /\ A!Init /\ R!Init /\ K!Init
  /\ \/ focus = "requests"
     \/ request = Request("GET", <<"api", "audit", "x", "x", "x", "x">>, Nil, Nil)

BackOfficeNext ==
  /\ UNCHANGED focus
  /\ \/ focus = "requests" /\ Next /\ UNCHANGED <<staffVars, roleVars, ticketVars>>
     \/ focus = "tokens" /\ A!Next /\ UNCHANGED <<vars, roleVars, ticketVars>>
     \/ focus = "roles" /\ R!Next /\ UNCHANGED <<vars, staffVars, ticketVars>>
     \/ focus = "tickets" /\ K!Next /\ UNCHANGED <<vars, staffVars, roleVars>>

BackOfficeSpec ==
  BackOfficeInit /\ [][BackOfficeNext]_<<focus, vars, staffVars, roleVars, ticketVars>>

\* The properties of the instances, stated in their modules.
OneOfAKind == A!OneOfAKind
UsedOnce == A!UsedOnce
GrantsAgree == R!GrantsAgree
ThreadTellsStatus == K!ThreadTellsStatus
=============================================================================
