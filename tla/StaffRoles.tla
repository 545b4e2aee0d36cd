------------------------------ MODULE StaffRoles ------------------------------
(***************************************************************************)
(* The roles of staff, with the permissions each has in its own column and *)
(* in the rows that login reads, and the departments; one of each kind is  *)
(* the default.                                                            *)
(*                                                                         *)
(* Actions are given in many spellings and kept in one.  Names are ids:    *)
(* both tables refuse a second row of a name.                              *)
(***************************************************************************)
EXTENDS Naturals, FiniteSets

CONSTANTS
  Roles, Departments,  \* ids, which are also the names
  Features,            \* a feature of a module
  Workers,             \* requests in flight at the same time
  MaxCalls,            \* a bound on the requests
  Nil,                 \* no row
  MayFail              \* whether a statement may fail or the process die

VARIABLES
  row,    \* Role and Department rows
  grant,  \* RolePermission rows
  req,    \* the handlers in flight
  calls,  \* history: requests so far
  calm    \* history: no request has met another one, or failed

vars == <<row, grant, req, calls, calm>>

\* What the sanitizer makes of what a client may write; the rest is dropped.
Action(s) ==
  CASE s \in {"view", "can.view"} -> "view"
    [] s \in {"edit", "update", "can edit"} -> "edit"
    [] OTHER -> "none"
normalizePermissions(perms) ==
  {<<p[1], Action(p[2])>> : p \in {q \in perms : Action(q[2]) # "none"}}

Permissions == Features \X {"view", "edit"}
Kind(x) == IF x \in Roles THEN Roles ELSE Departments
NoRow == [made |-> FALSE, permissions |-> {}, default |-> FALSE, active |-> FALSE]
Idle == [pc |-> "idle", id |-> Nil, perms |-> {}, default |-> "same"]

Init ==
  /\ row = [x \in Roles \cup Departments |-> NoRow]
  /\ grant = {}
  /\ req = [w \in Workers |-> Idle]
  /\ calls = 0
  /\ calm = TRUE

At(w, pc) == req[w].pc = pc
Return(w) == req' = [req EXCEPT ![w] = Idle]
Goto(w, pc) == req' = [req EXCEPT ![w].pc = pc]
Call(w, h) ==
  /\ At(w, "idle")
  /\ calls < MaxCalls /\ calls' = calls + 1
  /\ req' = [req EXCEPT ![w] = h]
  /\ calm' = (calm /\ \A v \in Workers : At(v, "idle"))

-----------------------------------------------------------------------------
(* createRole, createDepartment, updateRole, updateDepartment              *)

\* perms is {} for a department, or where an update does not give them.
Create(w, x, perms, default) ==
  /\ ~row[x].made
  /\ Call(w, [pc |-> IF default THEN "clear_all" ELSE "check", id |-> x, perms |-> perms,
              default |-> IF default THEN "yes" ELSE "no"])
  /\ UNCHANGED <<row, grant>>

Update(w, x, perms, default) ==
  /\ row[x].made
  /\ Call(w, [pc |-> IF default = "yes" THEN "clear" ELSE "update", id |-> x, perms |-> perms,
              default |-> default])
  /\ UNCHANGED <<row, grant>>

\* The default there is gives way before the request has been checked.
ClearDefault(w) ==
  LET x == req[w].id
      others == IF At(w, "clear") THEN Kind(x) \ {x} ELSE Kind(x)
  IN
  /\ \/ At(w, "clear") /\ Goto(w, "update")
     \/ At(w, "clear_all") /\ Goto(w, "check")
  /\ row' = [y \in DOMAIN row |->
       IF y \in others THEN [row[y] EXCEPT !.default = FALSE] ELSE row[y]]
  /\ UNCHANGED <<grant, calls, calm>>

\* The department or branch named is not found, or there is no permission left.
Check(w) ==
  LET h == req[w] IN
  /\ At(w, "check")
  /\ \/ Return(w)
     \/ /\ h.id \in Roles => normalizePermissions(h.perms) # {}
        /\ Goto(w, "insert")
  /\ UNCHANGED <<row, grant, calls, calm>>

Insert(w) ==
  LET h == req[w]
      kept == normalizePermissions(h.perms)
  IN
  /\ At(w, "insert")
  /\ IF row[h.id].made
     THEN UNCHANGED <<row, grant>>
     ELSE /\ row' = [row EXCEPT ![h.id] =
               [made |-> TRUE, permissions |-> kept, default |-> h.default = "yes", active |-> TRUE]]
          /\ grant' = grant \cup ({h.id} \X kept)
  /\ Return(w)
  /\ UNCHANGED <<calls, calm>>

Default(x, given) == IF given = "same" THEN row[x].default ELSE given = "yes"

\* Mutant: the rows of the permissions taken away are left.
AddGrants(w) ==
  LET h == req[w]
      kept == normalizePermissions(h.perms)
      given == h.perms # {}
  IN
  /\ At(w, "update")
  /\ IF ~row[h.id].made \/ (given /\ kept = {})
     THEN UNCHANGED <<row, grant>>
     ELSE /\ row' = [row EXCEPT ![h.id] =
               [row[h.id] EXCEPT !.default = Default(h.id, h.default),
                  !.permissions = IF given THEN kept ELSE row[h.id].permissions]]
          /\ grant' = grant \cup ({h.id} \X kept)
  /\ Return(w)
  /\ UNCHANGED <<calls, calm>>
\* One transaction: the column, then the rows deleted and made again.  A
\* department's e-mail may be refused before.
Change(w) ==
  LET h == req[w]
      kept == normalizePermissions(h.perms)
      given == h.perms # {}
  IN
  /\ At(w, "update")
  /\ \/ /\ \/ ~row[h.id].made
           \/ given /\ kept = {}
           \/ h.id \in Departments
        /\ UNCHANGED <<row, grant>>
     \/ /\ row[h.id].made
        /\ given => kept # {}
        /\ row' = [row EXCEPT ![h.id] =
             [row[h.id] EXCEPT !.default = Default(h.id, h.default),
                !.permissions = IF given THEN kept ELSE row[h.id].permissions]]
        /\ grant' = IF given THEN {g \in grant : g[1] # h.id} \cup ({h.id} \X kept) ELSE grant
  /\ Return(w)
  /\ UNCHANGED <<calls, calm>>

-----------------------------------------------------------------------------
(* deleteRole, deleteDepartment, the toggles                               *)

\* A default role is kept; a default department is not.
Delete(w, x) ==
  /\ row[x].made
  /\ x \in Roles => ~row[x].default
  /\ Call(w, [Idle EXCEPT !.pc = "delete", !.id = x])
  /\ UNCHANGED <<row, grant>>

\* Its permission rows go with the role.
Remove(w) ==
  LET x == req[w].id IN
  /\ At(w, "delete")
  /\ row' = [row EXCEPT ![x] = NoRow]
  /\ grant' = {g \in grant : g[1] # x}
  /\ Return(w)
  /\ UNCHANGED <<calls, calm>>

Toggle(x) ==
  /\ row[x].made
  /\ calls < MaxCalls /\ calls' = calls + 1
  /\ row' = [row EXCEPT ![x] = [row[x] EXCEPT !.active = ~row[x].active]]
  /\ UNCHANGED <<grant, req, calm>>

StepFails(w) ==
  /\ MayFail
  /\ ~At(w, "idle")
  /\ calm' = FALSE
  /\ Return(w)
  /\ UNCHANGED <<row, grant, calls>>

\* With no request in flight the service waits.
Rest == (\A w \in Workers : At(w, "idle")) /\ UNCHANGED vars

\* What a client may give for a role: a feature in one spelling or in two.
Given(x) ==
  IF x \in Roles
  THEN UNION {{{<<f, "can.view">>}, {<<f, "update">>, <<f, "view">>}, {<<f, "approve">>}} :
                f \in Features}
  ELSE {{}}

Next ==
  \/ \E w \in Workers, x \in DOMAIN row :
       \/ \E perms \in Given(x), default \in BOOLEAN : Create(w, x, perms, default)
       \/ \E perms \in Given(x) \cup {{}}, default \in {"same", "yes", "no"} :
            Update(w, x, perms, default)
       \/ Delete(w, x)
  \/ \E w \in Workers :
       \/ ClearDefault(w) \/ Check(w) \/ Insert(w) \/ Change(w) \/ Remove(w) \/ StepFails(w)
  \/ \E x \in DOMAIN row : Toggle(x)
  \/ Rest

Spec == Init /\ [][Next]_vars

-----------------------------------------------------------------------------
(* Properties                                                              *)

\* What staff see of a role and what its members may do after their login are
\* the same permissions, through any updates of roles and deletions.
GrantsAgree == \A r \in Roles : {g[2] : g \in {h \in grant : h[1] = r}} = row[r].permissions

=============================================================================
