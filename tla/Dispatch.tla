------------------------------- MODULE Dispatch -------------------------------
(***************************************************************************)
(* One request on its way through the application: the routers in the      *)
(* order in which they are mounted, the middleware of each and of the      *)
(* route it declares, the handler, and the error handler after them all.   *)
(* req.url loses the path of a router while the request is inside it, and  *)
(* gets it back when the router passes it on.                              *)
(***************************************************************************)
EXTENDS Naturals, SequencesExt

CONSTANTS
  Mounts,       \* the routers in the order in which they are mounted
  Controllers,  \* their handlers, under the names that routes give them
  Callers,      \* the roles a token may carry
  Nil           \* no token, no answer, no event, no route

VARIABLES
  request,  \* verb, path, the caller of its token, the route it is meant for
  mount,    \* the router it is in, or has passed
  row,      \* the route of that router it has matched; 0 before
  step,     \* the guards of the router, or of the route, it has passed
  url,      \* req.url
  user,     \* req.user
  phase,    \* routing, chain, failed, done, open
  thrown,   \* what was thrown or handed to next
  code,     \* res.statusCode of the answer
  event     \* the AuditEvent of the answer

vars == <<request, mount, row, step, url, user, phase, thrown, code, event>>

-----------------------------------------------------------------------------
(* Requests                                                                *)

\* A parameter of a path is given a value that no route declares.
Concrete(path) == [i \in 1..Len(path) |-> IF path[i] = ":" THEN "x" ELSE path[i]]

\* Where a route is declared: its router, and its place there.
Places == UNION {{m} \X (1..Len(Mounts[m].routes)) : m \in 1..Len(Mounts)}
Declared(to) == Mounts[to[1]].routes[to[2]]
Name(to) == <<Declared(to).verb, Mounts[to[1]].at \o Declared(to).path>>

Request(verb, path, caller, to) == [verb |-> verb, path |-> path, caller |-> caller, to |-> to]

PathOf(to) == Mounts[to[1]].at \o Concrete(Declared(to).path)

\* A request for a declared route, or for a path that no router declares.
Requests ==
  {Request(Declared(to).verb, PathOf(to), c, to) : to \in Places, c \in Callers \cup {Nil}}
  \cup {Request("GET", Mounts[m].at \o <<"x", "x", "x", "x">>, c, Nil) :
     m \in 1..Len(Mounts), c \in Callers \cup {Nil}}

Init ==
  /\ request \in Requests
  /\ mount = 0 /\ row = 0 /\ step = 0
  /\ url = request.path
  /\ user = Nil
  /\ phase = "routing"
  /\ thrown = Nil /\ code = Nil /\ event = Nil

-----------------------------------------------------------------------------
(* Answers: every answer ends with what the audit middleware has hung on   *)
(* res 'finish'                                                            *)

SensitiveGets ==
  {<<"api", "admin">>, <<"api", "auth", "profile">>, <<"api", "customer">>,
   <<"api", "documents">>}

\* shouldAudit, on the path as the request came in.
ShouldAudit ==
  request.verb # "GET" \/ \E p \in SensitiveGets : IsPrefix(p, request.path)

\* resolveResourceInfo and logHttpRequest, on the url of the moment: what comes
\* after "/api/", or what comes before the first "/".
ResourceType == IF Len(url) > 1 /\ url[1] = "api" THEN url[2] ELSE "UNKNOWN"
Severity(s) == IF s >= 500 THEN "ERROR" ELSE IF s >= 400 THEN "WARNING" ELSE "INFO"
Event(s) ==
  [resourceType |-> ResourceType, severity |-> Severity(s),
   userId |-> user, statusCode |-> s]

Answer(s) ==
  /\ phase' = "done"
  /\ code' = s
  /\ event' \in IF ShouldAudit THEN {Event(s), Nil} ELSE {Nil}

\* next(error): the error handler is the application's, so the url is whole.
Fail(e) ==
  /\ phase' = "failed"
  /\ thrown' = e
  /\ url' = request.path
  /\ UNCHANGED <<mount, row, step, user, code, event>>

-----------------------------------------------------------------------------
(* Routers                                                                 *)

\* What is left of a path inside a router.
Inside(m, path) == SubSeq(path, Len(Mounts[m].at) + 1, Len(path))

After(m) == {n \in (m + 1)..Len(Mounts) : IsPrefix(Mounts[n].at, request.path)}

Enter ==
  /\ phase = "routing"
  /\ After(mount) # {}
  /\ mount' = Min(After(mount))
  /\ row' = 0 /\ step' = 0
  /\ url' = Inside(mount', url)
  /\ phase' = "chain"
  /\ UNCHANGED <<request, user, thrown, code, event>>

\* The 404 handler, after all routers.
NoMount ==
  /\ phase = "routing"
  /\ After(mount) = {}
  /\ Answer(404)
  /\ UNCHANGED <<request, mount, row, step, url, user, thrown>>

Here == <<mount, row>>
Chain == IF row = 0 THEN Mounts[mount].guards ELSE Declared(Here).guards

Matches(route, verb, path) ==
  /\ route.verb = verb
  /\ Len(route.path) = Len(path)
  /\ \A i \in 1..Len(path) : route.path[i] \in {":", path[i]}
Taking(m, verb, path) ==
  {r \in 1..Len(Mounts[m].routes) : Matches(Mounts[m].routes[r], verb, path)}
Matching == Taking(mount, request.verb, url)

BehindGuards == phase = "chain" /\ row = 0 /\ step = Len(Chain)

\* The first route in the order of declaration.
Match ==
  /\ BehindGuards
  /\ Matching # {}
  /\ row' = Min(Matching)
  /\ step' = 0
  /\ UNCHANGED <<request, mount, url, user, phase, thrown, code, event>>

Leave ==
  /\ BehindGuards
  /\ Matching = {}
  /\ phase' = "routing"
  /\ url' = request.path
  /\ UNCHANGED <<request, mount, row, step, user, thrown, code, event>>

-----------------------------------------------------------------------------
(* Middleware: the guard that is next in the chain                         *)

AtGuard(kind) == phase = "chain" /\ step < Len(Chain) /\ Chain[step + 1].kind = kind
PassOn == step' = step + 1 /\ UNCHANGED <<mount, row, url, phase, thrown, code, event>>

CheckToken ==
  /\ AtGuard("authenticate")
  /\ IF request.caller = Nil
     THEN Fail("UNAUTHORIZED")
     ELSE user' = request.caller /\ PassOn
  /\ UNCHANGED request

Admits(guard, caller) == caller # Nil /\ caller \in guard.roles

\* Mutant: next(error) without a return, so the chain goes on.
CheckRoleAndGoOn ==
  /\ AtGuard("authorize") \/ AtGuard("permission")
  /\ IF user = Nil THEN Fail("UNAUTHORIZED") ELSE PassOn /\ UNCHANGED user
  /\ UNCHANGED request

\* authorize and requirePermission.
CheckRole ==
  /\ AtGuard("authorize") \/ AtGuard("permission")
  /\ IF user = Nil THEN Fail("UNAUTHORIZED")
     ELSE IF Admits(Chain[step + 1], user) THEN PassOn /\ UNCHANGED user
     ELSE Fail("FORBIDDEN")
  /\ UNCHANGED request

\* multer: a file of another type is a ValidationError; a file that is too large
\* is a MulterError, which the checked uploads make a ValidationError too.
ReceiveFile ==
  /\ AtGuard("upload")
  /\ \/ PassOn /\ UNCHANGED user
     \/ \E e \in {"VALIDATION_ERROR"} \cup (IF Chain[step + 1].checked THEN {} ELSE {"Error"}) :
          Fail(e)
  /\ UNCHANGED request

\* validate answers itself.
CheckBody ==
  /\ AtGuard("validate")
  /\ \/ PassOn
     \/ Answer(400) /\ UNCHANGED <<mount, row, step, url, thrown>>
  /\ UNCHANGED <<request, user>>

-----------------------------------------------------------------------------
(* Handlers                                                                *)

AtHandler == phase = "chain" /\ row # 0 /\ step = Len(Chain)
HandlerOf(to) == Controllers[Declared(to).controller][Declared(to).handler]
AsksForCaller(to) == HandlerOf(to).caller \notin {"ignored", "used"}
handler == HandlerOf(Here)
NeedsCaller == AsksForCaller(Here)
Stays == UNCHANGED <<request, mount, row, step, url, user, thrown>>

Serve ==
  /\ AtHandler
  /\ NeedsCaller => user # Nil
  /\ \E s \in handler.ok : Answer(s)
  /\ Stays

RefuseItself ==
  /\ AtHandler
  /\ \E s \in handler.own : Answer(s)
  /\ Stays

\* A handler that wants to know its caller, and does not.
Stranger ==
  /\ AtHandler
  /\ NeedsCaller /\ user = Nil
  /\ Fail(handler.caller)
  /\ UNCHANGED request

AppErrors ==
  [BAD_REQUEST |-> 400, UNAUTHORIZED |-> 401, FORBIDDEN |-> 403, NOT_FOUND |-> 404,
   VALIDATION_ERROR |-> 400, INTERNAL_ERROR |-> 500, SERVICE_UNAVAILABLE |-> 503,
   RATE_LIMIT_EXCEEDED |-> 429, DUPLICATE_ENTRY |-> 409]
\* Prisma's known errors; those of zod and multer, and plain ones.
Errors == DOMAIN AppErrors \cup {"Prisma", "Error"}

FailToHandler ==
  /\ AtHandler
  /\ "next" \in handler.fails
  /\ \E e \in Errors : Fail(e)
  /\ UNCHANGED request

\* The failure is logged, and answered like a success.
FailAlone ==
  /\ AtHandler
  /\ "self" \in handler.fails
  /\ \E s \in handler.ok : Answer(s)
  /\ Stays

\* The failure of a download that has begun: nobody ends the answer.
FailOpen ==
  /\ AtHandler
  /\ "nobody" \in handler.fails
  /\ phase' = "open"
  /\ UNCHANGED <<code, event>>
  /\ Stays

StatusOf(e) ==
  IF e \in DOMAIN AppErrors THEN AppErrors[e] ELSE IF e = "Prisma" THEN 400 ELSE 500

HandleError ==
  /\ phase = "failed"
  /\ Answer(StatusOf(thrown))
  /\ Stays

Rest == phase \in {"done", "open"} /\ UNCHANGED vars

Next ==
  \/ Enter \/ NoMount \/ Match \/ Leave
  \/ CheckToken \/ CheckRole \/ ReceiveFile \/ CheckBody
  \/ Serve \/ RefuseItself \/ Stranger \/ FailToHandler \/ FailAlone \/ FailOpen
  \/ HandleError \/ Rest

Spec == Init /\ [][Next]_vars

-----------------------------------------------------------------------------
(* Properties                                                              *)

RoutesTyped ==
  /\ phase \in {"routing", "chain", "failed", "done", "open"}
  /\ step \in Nat
  /\ user \in {Nil, request.caller}

\* What the first n guards of a chain have seen of the caller.
Passed(chain, n) ==
  \A i \in 1..n :
    /\ chain[i].kind = "authenticate" => user # Nil
    /\ chain[i].kind \in {"authorize", "permission"} => Admits(chain[i], user)

\* A request that is at a handler has a caller whom every guard admits, those of
\* the router that declares the route and those of the route, however many
\* routers passed it on before.
GuardsHold ==
  AtHandler =>
    /\ Passed(Mounts[mount].guards, Len(Mounts[mount].guards))
    /\ Passed(Chain, Len(Chain))

\* The request is inside no router: its url is the one it came with.
UrlIsRestored == phase \in {"routing", "failed"} => url = request.path

Refuses(guards, caller) ==
  \E i \in 1..Len(guards) :
    \/ guards[i].kind = "authenticate" /\ caller = Nil
    \/ guards[i].kind \in {"authorize", "permission"} /\ ~Admits(guards[i], caller)
GuardsOf(to) == Mounts[to[1]].guards \o Declared(to).guards

\* GET /:id is declared before it, in the same router.
Shadowed == {<<"GET", <<"api", "admin", "settlement-management", "batches">>>>}

\* A request for a declared route is not taken by another route and not lost,
\* and the routers it only passes turn it away for nothing that the guards on
\* its own way would not.
ReachesItsHandler ==
  request.to # Nil /\ Name(request.to) \notin Shadowed =>
    /\ row # 0 => Here = request.to
    /\ phase = "routing" => After(mount) # {}
    /\ phase = "failed" /\ row = 0 =>
         Refuses(GuardsOf(request.to), request.caller)

\* A table in which a route can be reached: its own router takes the request for
\* it with no route before it, no router before takes it at all, and none that the
\* request meets refuses a caller whom the guards on its own way would not.
Meets(to, m) == IsPrefix(Mounts[m].at, PathOf(to))
Takes(to, m) == Taking(m, Declared(to).verb, Inside(m, PathOf(to)))

Reachable(to) ==
  /\ Meets(to, to[1])
  /\ to[2] \in Takes(to, to[1])
  /\ \A r \in Takes(to, to[1]) : to[2] <= r
  /\ \A m \in 1..(to[1] - 1) : Meets(to, m) => Takes(to, m) = {}
  /\ \A m \in 1..to[1], c \in Callers \cup {Nil} :
       Meets(to, m) /\ Refuses(Mounts[m].guards, c) => Refuses(GuardsOf(to), c)

\* A router only asks who the caller is, and reads the token before it asks.
AsksInOrder(guards) ==
  \A i \in 1..Len(guards) :
    \/ guards[i].kind = "authenticate"
    \/ /\ guards[i].kind \in {"authorize", "permission"}
       /\ \E j \in 1..(i - 1) : guards[j].kind = "authenticate"

RoutesAreApart ==
  /\ \A m \in 1..Len(Mounts) : AsksInOrder(Mounts[m].guards)
  /\ \A to \in Places : Name(to) \notin Shadowed => Reachable(to)

\* Its handler asks for a caller, but no guard of its route reads a token.
Tokenless == {<<"POST", <<"api", "auth", "kyc", "verify">>>>}

ReadsToken(guards) ==
  \E i \in 1..Len(guards) : guards[i].kind \in {"authenticate", "authorize", "permission"}

TokensAreRead ==
  \A to \in Places : AsksForCaller(to) /\ Name(to) \notin Tokenless =>
    ReadsToken(Mounts[to[1]].guards) \/ ReadsToken(Declared(to).guards)

CallersAreKnown ==
  AtHandler /\ NeedsCaller /\ Name(Here) \notin Tokenless => user # Nil

\* Documented with 201, answered with 200.
Misstated ==
  {<<"POST", <<"api", "admin", "outlet", o>>>> :
     o \in {"franchises", "pickup-stations", "branches"}}

Documents(to, s) ==
  Declared(to).page # {} /\ Name(to) \notin Misstated => s \in Declared(to).page

PagesAgree ==
  \A to \in Places : \A s \in HandlerOf(to).ok \cup HandlerOf(to).own :
    s < 400 => Documents(to, s)

SuccessAsDocumented == phase = "done" /\ code < 400 => Documents(Here, code)

\* What the files say each for itself: where routers are mounted, which route is
\* declared first, what guards it, whom its controller asks for and what it answers.
Tables == RoutesAreApart /\ TokensAreRead /\ PagesAgree

\* These files agree with each other, and so does what comes of them: no route
\* hides another, but for Shadowed; a handler that throws at a caller it does not
\* know is reached by no request without a token; and a success has a status that
\* the page of its route gives.
TablesAgree == Tables /\ CallersAreKnown /\ SuccessAsDocumented

\* An event is filed under the part of the API that the request was for.
AuditedUnderItsResource == event # Nil => event.resourceType = request.path[2]
=============================================================================
