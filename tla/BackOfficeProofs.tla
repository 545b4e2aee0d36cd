--------------------------- MODULE BackOfficeProofs ---------------------------
(***************************************************************************)
(* What BackOffice keeps, for any staff, tokens, roles, tickets, routers   *)
(* and requests: each of its four parts has an inductive invariant, and a  *)
(* behaviour of the whole is one of each of them.                          *)
(***************************************************************************)
EXTENDS BackOffice, TLAPS, WellFoundedInduction

-----------------------------------------------------------------------------
(* Requests: no step opens Mounts                                          *)

\* What the guards of the chain have let through so far, and those of the router
\* when the request is in the chain of a route.
ChainPassed ==
  phase = "chain" =>
    /\ Passed(Chain, step)
    /\ row # 0 => Passed(Mounts[mount].guards, Len(Mounts[mount].guards))

RequestInv == RoutesTyped /\ ChainPassed /\ UrlIsRestored

\* What a chain has passed stays passed when the caller becomes known.
LEMMA StillPassed ==
  ASSUME NEW chain, NEW n, Passed(chain, n),
         user \in {Nil, request.caller},
         user' = user \/ (user' = request.caller /\ user' # Nil)
  PROVE  \A i \in 1..n :
           /\ chain[i].kind = "authenticate" => user' # Nil
           /\ chain[i].kind \in {"authorize", "permission"} => Admits(chain[i], user')
BY DEF Passed, Admits

\* A guard passes the request on: the chain is passed one guard further, and the
\* router's as it was.
LEMMA PassingOn ==
  ASSUME RequestInv, phase = "chain", PassOn, request' = request,
         user' = user \/ (user' = request.caller /\ user' # Nil),
         Chain[step + 1].kind = "authenticate" => user' # Nil,
         Chain[step + 1].kind \in {"authorize", "permission"} => Admits(Chain[step + 1], user')
  PROVE  RequestInv'
<1>1. /\ UNCHANGED <<mount, row, phase, url, request>>
      /\ step' = step + 1
      /\ step \in Nat
  BY DEF PassOn, RequestInv, RoutesTyped
<1>2. RoutesTyped'
  BY <1>1 DEF RequestInv, RoutesTyped
<1>3. UrlIsRestored'
  BY <1>1 DEF UrlIsRestored
<1>4. user \in {Nil, request.caller} /\ Passed(Chain, step)
  BY DEF RequestInv, RoutesTyped, ChainPassed
<1>5. \A i \in 1..step :
        /\ Chain[i].kind = "authenticate" => user' # Nil
        /\ Chain[i].kind \in {"authorize", "permission"} => Admits(Chain[i], user')
  BY <1>4, StillPassed
<1>6. \A i \in 1..(step + 1) : i \in 1..step \/ i = step + 1
  BY <1>1
<1>7. \A i \in 1..(step + 1) :
        /\ Chain[i].kind = "authenticate" => user' # Nil
        /\ Chain[i].kind \in {"authorize", "permission"} => Admits(Chain[i], user')
  BY <1>5, <1>6
<1>8. Chain' = Chain
  BY <1>1 DEF Chain, Here, Declared
<1>9. Passed(Chain, step)'
  BY <1>1, <1>7, <1>8 DEF Passed, Admits
<1>10. ASSUME row # 0
       PROVE  Passed(Mounts[mount].guards, Len(Mounts[mount].guards))'
  <2>1. Passed(Mounts[mount].guards, Len(Mounts[mount].guards))
    BY <1>10 DEF RequestInv, ChainPassed
  <2>2. \A i \in 1..Len(Mounts[mount].guards) :
          LET guard == Mounts[mount].guards[i] IN
          /\ guard.kind = "authenticate" => user' # Nil
          /\ guard.kind \in {"authorize", "permission"} => Admits(guard, user')
    BY <1>4, <2>1, StillPassed
  <2> QED BY <1>1, <2>2 DEF Passed, Admits
<1> QED BY <1>1, <1>2, <1>3, <1>9, <1>10 DEF RequestInv, ChainPassed

\* Outside every chain nothing has to be passed.
LEMMA Failing == ASSUME RequestInv, NEW e, Fail(e), request' = request PROVE RequestInv'
BY DEF Fail, RequestInv, RoutesTyped, ChainPassed, UrlIsRestored

LEMMA Answering ==
  ASSUME RequestInv, NEW s, Answer(s), UNCHANGED <<request, mount, row, step, url, user, thrown>>
  PROVE  RequestInv'
BY DEF Answer, RequestInv, RoutesTyped, ChainPassed, UrlIsRestored

-----------------------------------------------------------------------------

THEOREM RequestInit == Init => RequestInv
BY DEF Init, RequestInv, RoutesTyped, ChainPassed, UrlIsRestored

THEOREM RequestStep == RequestInv /\ [Next]_vars => RequestInv'
<1> SUFFICES ASSUME RequestInv, [Next]_vars PROVE RequestInv'
  OBVIOUS
<1>1. CASE Enter
  <2>1. row' = 0 /\ step' = 0 /\ phase' = "chain" /\ UNCHANGED <<request, user>>
    BY <1>1 DEF Enter
  <2>2. Passed(Chain, step)'
    BY <2>1 DEF Passed
  <2> QED BY <2>1, <2>2 DEF RequestInv, RoutesTyped, ChainPassed, UrlIsRestored
<1>2. CASE NoMount
  BY <1>2, Answering DEF NoMount
<1>3. CASE Match
  <2>1. step' = 0 /\ phase = "chain" /\ UNCHANGED <<request, mount, url, user, phase>>
    BY <1>3 DEF Match, BehindGuards
  <2>2. Passed(Mounts[mount].guards, Len(Mounts[mount].guards))
    BY <1>3, <2>1 DEF Match, BehindGuards, RequestInv, ChainPassed, Chain
  <2>3. Passed(Mounts[mount].guards, Len(Mounts[mount].guards))'
    BY <2>1, <2>2 DEF Passed, Admits
  <2>4. Passed(Chain, step)'
    BY <2>1 DEF Passed
  <2> QED BY <2>1, <2>3, <2>4 DEF RequestInv, RoutesTyped, ChainPassed, UrlIsRestored
<1>4. CASE Leave
  BY <1>4 DEF Leave, RequestInv, RoutesTyped, ChainPassed, UrlIsRestored
<1>5. CASE CheckToken
  <2>1. phase = "chain" /\ Chain[step + 1].kind = "authenticate" /\ request' = request
    BY <1>5 DEF CheckToken, AtGuard
  <2>2. CASE request.caller = Nil
    BY <1>5, <2>1, <2>2, Failing DEF CheckToken
  <2>3. CASE request.caller # Nil
    BY <1>5, <2>1, <2>3, PassingOn DEF CheckToken
  <2> QED BY <2>2, <2>3
<1>6. CASE CheckRole
  <2>1. /\ phase = "chain" /\ request' = request
        /\ Chain[step + 1].kind \in {"authorize", "permission"}
    BY <1>6 DEF CheckRole, AtGuard
  <2>2. CASE user = Nil
    BY <1>6, <2>1, <2>2, Failing DEF CheckRole
  <2>3. CASE user # Nil /\ ~Admits(Chain[step + 1], user)
    BY <1>6, <2>1, <2>3, Failing DEF CheckRole
  <2>4. CASE user # Nil /\ Admits(Chain[step + 1], user)
    <3>1. PassOn /\ user' = user
      BY <1>6, <2>4 DEF CheckRole
    <3> QED BY <2>1, <2>4, <3>1, PassingOn
  <2> QED BY <2>2, <2>3, <2>4
<1>7. CASE ReceiveFile
  <2>1. phase = "chain" /\ request' = request /\ Chain[step + 1].kind = "upload"
    BY <1>7 DEF ReceiveFile, AtGuard
  <2>2. CASE PassOn /\ user' = user
    BY <2>1, <2>2, PassingOn
  <2>3. CASE \E e \in {"VALIDATION_ERROR"} \cup
                      (IF Chain[step + 1].checked THEN {} ELSE {"Error"}) : Fail(e)
    BY <2>1, <2>3, Failing
  <2> QED BY <1>7, <2>2, <2>3 DEF ReceiveFile
<1>8. CASE CheckBody
  <2>1. /\ phase = "chain" /\ UNCHANGED <<request, user>>
        /\ Chain[step + 1].kind = "validate"
    BY <1>8 DEF CheckBody, AtGuard
  <2>2. CASE PassOn
    BY <2>1, <2>2, PassingOn
  <2>3. CASE Answer(400) /\ UNCHANGED <<mount, row, step, url, thrown>>
    BY <2>1, <2>3, Answering
  <2> QED BY <1>8, <2>2, <2>3 DEF CheckBody
<1>9. CASE Serve \/ RefuseItself \/ FailAlone
  BY <1>9, Answering DEF Serve, RefuseItself, FailAlone, Stays
<1>10. CASE Stranger \/ FailToHandler
  BY <1>10, Failing DEF Stranger, FailToHandler
<1>11. CASE FailOpen
  BY <1>11 DEF FailOpen, Stays, RequestInv, RoutesTyped, ChainPassed, UrlIsRestored
<1>12. CASE HandleError
  BY <1>12, Answering DEF HandleError, Stays
<1>13. CASE Rest \/ UNCHANGED vars
  <2>1. UNCHANGED vars
    BY <1>13 DEF Rest
  <2> QED BY <2>1 DEF vars, RequestInv, RoutesTyped, ChainPassed, UrlIsRestored, Chain, Here,
        Declared, Passed, Admits
<1> QED
  BY <1>1, <1>2, <1>3, <1>4, <1>5, <1>6, <1>7, <1>8, <1>9, <1>10, <1>11, <1>12, <1>13
  DEF Next

THEOREM RequestInvariant == Spec => []RequestInv
BY RequestInit, RequestStep, PTL DEF Spec

\* At a handler every guard on the way, the router's and the route's, has seen a
\* caller whom it admits, whatever the routers and their routes are.
THEOREM HandlersAreGuarded == Spec => []GuardsHold
<1>1. RequestInv => GuardsHold
  BY DEF RequestInv, ChainPassed, GuardsHold, AtHandler
<1> QED BY <1>1, RequestInvariant, PTL

\* Between two routers, and before the error handler, the url is the one the
\* request came with.
THEOREM UrlComesBack == Spec => []UrlIsRestored
<1>1. RequestInv => UrlIsRestored
  BY DEF RequestInv
<1> QED BY <1>1, RequestInvariant, PTL

-----------------------------------------------------------------------------
(* Requests: each reaches its handler                                      *)

\* The request is for a route that no other is known to hide.
Sought == request.to # Nil /\ Name(request.to) \notin Shadowed

\* How far the request is: not past its own router, in whose chain of a route it
\* is only if the route is its own.
OnItsWay ==
  /\ request.to \in Places
  /\ request.verb = Declared(request.to).verb
  /\ request.path = PathOf(request.to)
  /\ request.caller \in Callers \cup {Nil}
  /\ mount \in 0..request.to[1]
  /\ row # 0 => Here = request.to
  /\ phase = "routing" => mount < request.to[1]
  /\ phase = "chain" =>
       mount # 0 /\ url = Inside(mount, request.path) /\ Meets(request.to, mount)
  /\ phase = "failed" /\ row = 0 => Refuses(GuardsOf(request.to), request.caller)

ReachInv == RequestInv /\ (Sought => OnItsWay)

LEMMA SmallestIsThere ==
  ASSUME NEW S \in SUBSET Nat, S # {}
  PROVE  Min(S) \in S /\ \A x \in S : Min(S) <= x
<1> DEFINE Less == {p \in Nat \X Nat : p[1] < p[2]}
<1>1. IsWellFoundedOn(Less, Nat)
  BY NatLessThanWellFounded DEF OpToRel
<1>2. PICK x \in S : \A y \in S : <<y, x>> \notin Less
  BY <1>1, WFMin, Zenon
<1>3. ASSUME NEW y \in S PROVE x <= y
  <2>1. x \in Nat /\ y \in Nat /\ <<y, x>> \notin Less
    BY <1>2
  <2>2. ~(y < x)
    BY <2>1
  <2> QED BY <2>1, <2>2
<1> QED BY <1>3 DEF Min

\* What RoutesAreApart says of the route that is sought.
LEMMA SoughtIsReachable ==
  ASSUME RoutesAreApart, Sought, OnItsWay
  PROVE  /\ Reachable(request.to)
         /\ request.to[1] \in 1..Len(Mounts) /\ request.to = <<request.to[1], request.to[2]>>
         /\ request.to[2] \in Nat \ {0}
         /\ mount \in Nat /\ mount <= request.to[1] /\ request.to[1] \in Nat
<1> DEFINE to == request.to
<1>1. PICK m \in 1..Len(Mounts) : to \in {m} \X (1..Len(Mounts[m].routes))
  BY DEF OnItsWay, Places
<1>2. PICK r \in 1..Len(Mounts[m].routes) : to = <<m, r>>
  BY <1>1
<1>3. Reachable(to)
  BY DEF RoutesAreApart, Sought, OnItsWay
<1> QED BY <1>1, <1>2, <1>3 DEF OnItsWay

LEMMA ReachBegins == Init => (Sought => OnItsWay)
<1> SUFFICES ASSUME Init, Sought PROVE OnItsWay
  OBVIOUS
<1>1. PICK to \in Places, c \in Callers \cup {Nil} :
        request = Request(Declared(to).verb, PathOf(to), c, to)
  BY DEF Init, Requests, Request, Sought
<1>2. request.to \in Places /\ request.verb = Declared(request.to).verb
      /\ request.path = PathOf(request.to) /\ request.caller \in Callers \cup {Nil}
  BY <1>1 DEF Request
<1>3. request.to[1] \in Nat \ {0}
  BY <1>2 DEF Places
<1> QED BY <1>2, <1>3 DEF Init, OnItsWay

LEMMA ReachEnter ==
  ASSUME RoutesAreApart, ReachInv, Sought, Enter
  PROVE  OnItsWay'
<1> DEFINE to == request.to
<1>1. OnItsWay /\ url = request.path
  BY DEF ReachInv, Enter, RequestInv, UrlIsRestored
<1>2. /\ Reachable(to) /\ to[1] \in 1..Len(Mounts) /\ to[1] \in Nat
      /\ mount \in Nat /\ mount < to[1]
  BY <1>1, SoughtIsReachable DEF Enter, OnItsWay
<1>3. to[1] \in After(mount)
  <2>1. IsPrefix(Mounts[to[1]].at, request.path)
    BY <1>1, <1>2 DEF Reachable, Meets, OnItsWay
  <2> QED BY <1>2, <2>1 DEF After
<1>4. After(mount) \in SUBSET Nat
  BY <1>2 DEF After
<1>5. Min(After(mount)) \in After(mount) /\ Min(After(mount)) <= to[1]
  BY <1>3, <1>4, SmallestIsThere
<1>6. mount' \in After(mount) /\ mount' <= to[1] /\ mount' \in Nat \ {0}
  BY <1>2, <1>4, <1>5 DEF Enter, After
<1>7. Meets(to, mount')
  BY <1>1, <1>6 DEF After, Meets, OnItsWay
<1>8. /\ UNCHANGED request /\ row' = 0 /\ phase' = "chain"
      /\ url' = Inside(mount', request.path)
  BY <1>1 DEF Enter
<1>9. /\ mount' \in 0..request'.to[1] /\ mount' # 0
      /\ row' = 0 /\ phase' = "chain"
  BY <1>2, <1>6, <1>8
<1>10. (url = Inside(mount, request.path) /\ Meets(request.to, mount))'
  BY <1>7, <1>8 DEF Inside, Meets, PathOf, Declared
<1>11. /\ request'.to \in Places /\ request'.verb = Declared(request'.to).verb
       /\ request'.path = PathOf(request'.to) /\ request'.caller \in Callers \cup {Nil}
  BY <1>1, <1>8 DEF OnItsWay
<1> QED BY <1>9, <1>10, <1>11 DEF OnItsWay, PathOf, Declared

LEMMA ReachMatch ==
  ASSUME RoutesAreApart, ReachInv, Sought, Match
  PROVE  OnItsWay'
<1> DEFINE to == request.to
<1>1. OnItsWay /\ phase = "chain"
  BY DEF ReachInv, Match, BehindGuards
<1>2. /\ Reachable(to) /\ to = <<to[1], to[2]>> /\ to[2] \in Nat
      /\ mount \in Nat /\ mount <= to[1] /\ to[1] \in Nat
  BY <1>1, SoughtIsReachable
<1>3. Matching = Takes(to, mount) /\ Meets(to, mount) /\ mount # 0
  BY <1>1 DEF Matching, Takes, OnItsWay
<1>4. mount = to[1]
  <2> SUFFICES ASSUME mount # to[1] PROVE FALSE
    OBVIOUS
  <2>1. mount \in 1..(to[1] - 1)
    BY <1>2, <1>3
  <2> QED BY <1>2, <1>3, <2>1 DEF Reachable, Match
<1>5. Matching \in SUBSET Nat
  BY DEF Matching, Taking
<1>6. row' = Min(Matching) /\ UNCHANGED <<request, mount, url, phase>>
  BY DEF Match
<1>7. Min(Matching) \in Matching /\ Min(Matching) <= to[2] /\ to[2] <= Min(Matching)
  BY <1>2, <1>3, <1>4, <1>5, SmallestIsThere DEF Reachable
<1>8. row' = to[2]
  <2>1. Min(Matching) \in Nat
    BY <1>5, <1>7
  <2> QED BY <1>2, <1>6, <1>7, <2>1
<1>9. Here' = to
  BY <1>2, <1>4, <1>6, <1>8 DEF Here
<1> QED BY <1>1, <1>6, <1>9 DEF OnItsWay, PathOf, Declared, Meets, Inside

LEMMA ReachLeave ==
  ASSUME RoutesAreApart, ReachInv, Sought, Leave
  PROVE  OnItsWay'
<1> DEFINE to == request.to
<1>1. OnItsWay /\ phase = "chain" /\ row = 0
  BY DEF ReachInv, Leave, BehindGuards
<1>2. /\ Reachable(to) /\ mount \in Nat /\ mount <= to[1] /\ to[1] \in Nat
  BY <1>1, SoughtIsReachable
<1>3. Matching = Takes(to, mount)
  BY <1>1 DEF Matching, Takes, OnItsWay
<1>4. mount # to[1]
  BY <1>2, <1>3 DEF Reachable, Leave
<1>5. mount < to[1]
  BY <1>2, <1>4
<1> QED BY <1>1, <1>5 DEF Leave, OnItsWay, PathOf, Declared

\* The guard of a router fails the request only if one on the request's way would.
LEMMA ReachFailing ==
  ASSUME RoutesAreApart, ReachInv, Sought, phase = "chain", UNCHANGED request,
         NEW e, Fail(e), row = 0 => Refuses(Mounts[mount].guards, request.caller)
  PROVE  OnItsWay'
<1> DEFINE to == request.to
<1>1. OnItsWay
  BY DEF ReachInv
<1>2. Reachable(to) /\ mount \in Nat /\ mount <= to[1] /\ to[1] \in Nat
  BY <1>1, SoughtIsReachable
<1>3. row = 0 => Refuses(GuardsOf(to), request.caller)
  <2>1. mount \in 1..to[1] /\ Meets(to, mount) /\ request.caller \in Callers \cup {Nil}
    BY <1>1, <1>2 DEF OnItsWay
  <2> QED BY <1>2, <2>1 DEF Reachable
<1>4. UNCHANGED <<mount, row, request>> /\ phase' = "failed"
  BY DEF Fail
<1> QED BY <1>1, <1>3, <1>4 DEF OnItsWay, Here, PathOf, Declared, GuardsOf, Refuses, Admits

\* The guard that is next in the chain of a router only asks who the caller is.
LEMMA GuardOfRouter ==
  ASSUME RoutesAreApart, ReachInv, Sought, phase = "chain", step < Len(Chain), row = 0
  PROVE  /\ step \in Nat /\ mount \in 1..Len(Mounts) /\ Chain = Mounts[mount].guards
         /\ step + 1 \in 1..Len(Chain)
         /\ \/ Chain[step + 1].kind = "authenticate"
            \/ Chain[step + 1].kind \in {"authorize", "permission"} /\ user # Nil
<1>1. OnItsWay /\ RoutesTyped /\ Passed(Chain, step)
  BY DEF ReachInv, RequestInv, ChainPassed
<1>2. mount \in 1..Len(Mounts)
  BY <1>1, SoughtIsReachable DEF OnItsWay
<1>3. Chain = Mounts[mount].guards /\ step \in Nat
  BY <1>1 DEF Chain, RoutesTyped
<1>4. AsksInOrder(Chain) /\ step + 1 \in 1..Len(Chain)
  BY <1>2, <1>3 DEF RoutesAreApart
<1>5. ASSUME NEW j \in 1..((step + 1) - 1), Chain[j].kind = "authenticate" PROVE user # Nil
  BY <1>1, <1>3, <1>5 DEF Passed
<1> QED BY <1>2, <1>3, <1>4, <1>5 DEF AsksInOrder

LEMMA ReachGuards ==
  ASSUME RoutesAreApart, ReachInv, Sought, CheckToken \/ CheckRole \/ ReceiveFile \/ CheckBody
  PROVE  OnItsWay'
<1>1. OnItsWay /\ phase = "chain" /\ step < Len(Chain) /\ RoutesTyped
  BY DEF ReachInv, RequestInv, CheckToken, CheckRole, ReceiveFile, CheckBody, AtGuard
<1>2. ASSUME PassOn, UNCHANGED request PROVE OnItsWay'
  BY <1>1, <1>2 DEF OnItsWay, PassOn, Here, PathOf, Declared, Meets, Inside
<1>3. CASE CheckToken
  <2>1. CASE request.caller = Nil
    <3>1. row = 0 => Refuses(Mounts[mount].guards, request.caller)
      BY <1>1, <1>3, <2>1, GuardOfRouter DEF CheckToken, AtGuard, Refuses
    <3> QED BY <1>1, <1>3, <2>1, <3>1, ReachFailing DEF CheckToken
  <2> QED BY <1>2, <1>3, <2>1 DEF CheckToken
<1>4. CASE CheckRole
  <2>1. UNCHANGED request BY <1>4 DEF CheckRole
  <2>2. PassOn \/ \E e : Fail(e) /\ (user = Nil \/ ~Admits(Chain[step + 1], user))
    BY <1>4 DEF CheckRole
  <2>3. ASSUME NEW e, Fail(e), user = Nil \/ ~Admits(Chain[step + 1], user)
        PROVE  OnItsWay'
    <3>1. ASSUME row = 0 PROVE Refuses(Mounts[mount].guards, request.caller)
      <4>1. /\ step + 1 \in 1..Len(Chain) /\ Chain = Mounts[mount].guards
            /\ \/ Chain[step + 1].kind = "authenticate"
               \/ Chain[step + 1].kind \in {"authorize", "permission"} /\ user # Nil
        BY <1>1, <3>1, GuardOfRouter
      <4>2. Chain[step + 1].kind # "authenticate"
        BY <1>4 DEF CheckRole, AtGuard
      <4>3. user = request.caller
        BY <1>1, <4>1, <4>2 DEF RoutesTyped
      <4> QED BY <2>3, <4>1, <4>2, <4>3 DEF Refuses
    <3> QED BY <1>1, <2>1, <2>3, <3>1, ReachFailing
  <2> QED BY <1>2, <2>1, <2>2, <2>3
<1>5. CASE ReceiveFile
  <2>1. row # 0
    BY <1>1, <1>5, GuardOfRouter DEF ReceiveFile, AtGuard
  <2>2. UNCHANGED request /\ (PassOn \/ \E e : Fail(e))
    BY <1>5 DEF ReceiveFile
  <2>3. ASSUME NEW e, Fail(e) PROVE OnItsWay'
    BY <1>1, <2>1, <2>2, <2>3, ReachFailing
  <2> QED BY <1>2, <2>2, <2>3
<1>6. CASE CheckBody
  <2>1. UNCHANGED request BY <1>6 DEF CheckBody
  <2>2. CASE PassOn
    BY <1>2, <2>1, <2>2
  <2>3. CASE ~PassOn
    <3>1. UNCHANGED <<request, mount, row>> /\ phase' = "done"
      BY <1>6, <2>3 DEF CheckBody, Answer
    <3> QED BY <1>1, <3>1 DEF OnItsWay, Here, PathOf, Declared
  <2> QED BY <2>2, <2>3
<1> QED BY <1>3, <1>4, <1>5, <1>6

LEMMA ReachHandlers ==
  ASSUME RoutesAreApart, ReachInv, Sought,
         Serve \/ RefuseItself \/ Stranger \/ FailToHandler \/ FailAlone \/ FailOpen
  PROVE  OnItsWay'
<1>1. OnItsWay /\ phase = "chain" /\ row # 0
  BY DEF ReachInv, Serve, RefuseItself, Stranger, FailToHandler, FailAlone, FailOpen, AtHandler
<1>2. ASSUME UNCHANGED <<request, mount, row>>, phase' \in {"done", "open"} PROVE OnItsWay'
  BY <1>1, <1>2 DEF OnItsWay, Here, PathOf, Declared
<1>3. ASSUME NEW e, Fail(e), UNCHANGED request PROVE OnItsWay'
  BY <1>1, <1>3, ReachFailing
<1>4. CASE Serve \/ RefuseItself \/ FailAlone \/ FailOpen
  BY <1>2, <1>4 DEF Serve, RefuseItself, FailAlone, FailOpen, Stays, Answer
<1>5. CASE Stranger \/ FailToHandler
  BY <1>3, <1>5 DEF Stranger, FailToHandler
<1> QED BY <1>4, <1>5

LEMMA ReachNext ==
  ASSUME RoutesAreApart, ReachInv, Sought, [Next]_vars
  PROVE  OnItsWay'
<1>1. OnItsWay
  BY DEF ReachInv
<1>2. ASSUME UNCHANGED <<request, mount, row>>, phase' \in {"done", "open"} PROVE OnItsWay'
  BY <1>1, <1>2 DEF OnItsWay, Here, PathOf, Declared
<1>3. CASE NoMount \/ HandleError
  BY <1>2, <1>3 DEF NoMount, HandleError, Stays, Answer
<1>4. CASE Rest \/ UNCHANGED vars
  BY <1>1, <1>4
  DEF Rest, vars, OnItsWay, Here, PathOf, Declared, Meets, Inside, GuardsOf, Refuses, Admits
<1> QED
  BY <1>3, <1>4, ReachEnter, ReachMatch, ReachLeave, ReachGuards, ReachHandlers DEF Next

LEMMA ReachStep == RoutesAreApart /\ ReachInv /\ [Next]_vars => ReachInv'
<1> SUFFICES ASSUME RoutesAreApart, ReachInv, [Next]_vars PROVE ReachInv'
  OBVIOUS
<1>1. RequestInv'
  BY RequestStep DEF ReachInv
<1>2. UNCHANGED request
  BY DEF Next, vars, Enter, NoMount, Match, Leave, CheckToken, CheckRole, ReceiveFile,
         CheckBody, Serve, RefuseItself, Stranger, FailToHandler, FailAlone, FailOpen,
         HandleError, Rest, Stays
<1>3. Sought' => Sought
  BY <1>2 DEF Sought, Name, Declared
<1> QED BY <1>1, <1>3, ReachNext DEF ReachInv

\* In a table that keeps its routes apart no request for one of them is taken by
\* another, lost, or turned away by a router that it only passes: the order of
\* app.ts, admin.routes.ts and the route files, and Express that goes through it.
THEOREM RoutesAreReached == RoutesAreApart => (Spec => []ReachesItsHandler)
<1> SUFFICES ASSUME RoutesAreApart PROVE Spec => []ReachesItsHandler
  OBVIOUS
<1>1. Init => ReachInv
  BY RequestInit, ReachBegins DEF ReachInv
<1>2. ReachInv /\ [Next]_vars => ReachInv'
  BY ReachStep
<1>3. ReachInv => ReachesItsHandler
  <2> SUFFICES ASSUME ReachInv, Sought
               PROVE  /\ row # 0 => Here = request.to
                      /\ phase = "routing" => After(mount) # {}
                      /\ phase = "failed" /\ row = 0 =>
                           Refuses(GuardsOf(request.to), request.caller)
    BY DEF ReachesItsHandler, Sought
  <2>1. OnItsWay
    BY DEF ReachInv
  <2>2. /\ Reachable(request.to) /\ request.to[1] \in 1..Len(Mounts)
        /\ mount \in Nat /\ request.to[1] \in Nat
    BY <2>1, SoughtIsReachable
  <2>3. ASSUME phase = "routing" PROVE request.to[1] \in After(mount)
    BY <2>1, <2>2, <2>3 DEF OnItsWay, After, Reachable, Meets
  <2> QED BY <2>1, <2>3 DEF OnItsWay
<1> QED BY <1>1, <1>2, <1>3, PTL DEF Spec

-----------------------------------------------------------------------------
(* Requests: what the files say apart agrees when they meet                 *)

\* The request is in a chain that some file declares, and the answer is a refusal
\* or one that the handler of its route gives itself.
Refusal(s) == s \in Nat /\ s >= 400
Gives(to, s) == s \in HandlerOf(to).ok \cup HandlerOf(to).own

AnswerInv ==
  /\ mount \in Nat
  /\ phase = "chain" => mount \in 1..Len(Mounts)
  /\ row # 0 => Here \in Places
  /\ phase = "done" => Refusal(code) \/ (row # 0 /\ Gives(Here, code))

LEMMA ErrorsAreRefusals ==
  ASSUME NEW e
  PROVE  Refusal(StatusOf(e))
<1>1. CASE e \in DOMAIN AppErrors
  <2>1. e \in {"BAD_REQUEST", "UNAUTHORIZED", "FORBIDDEN", "NOT_FOUND", "VALIDATION_ERROR",
               "INTERNAL_ERROR", "SERVICE_UNAVAILABLE", "RATE_LIMIT_EXCEEDED", "DUPLICATE_ENTRY"}
    BY <1>1 DEF AppErrors
  <2>2. AppErrors[e] \in {400, 401, 403, 404, 500, 503, 429, 409}
    BY <2>1 DEF AppErrors
  <2>3. StatusOf(e) = AppErrors[e]
    BY <1>1 DEF StatusOf
  <2> QED BY <2>2, <2>3 DEF Refusal
<1>2. CASE e \notin DOMAIN AppErrors
  <2>1. StatusOf(e) = 400 \/ StatusOf(e) = 500
    BY <1>2 DEF StatusOf
  <2> QED BY <2>1 DEF Refusal
<1> QED BY <1>1, <1>2

\* A step that stays where it is and answers, if it does, as it may.
LEMMA AnswerStays ==
  ASSUME AnswerInv, UNCHANGED <<mount, row>>, phase' = "chain" => phase = "chain",
         phase' = "done" => Refusal(code') \/ (row # 0 /\ Gives(Here, code'))
  PROVE  AnswerInv'
BY DEF AnswerInv, Here, Gives, HandlerOf, Declared

LEMMA AnswerEnter == ASSUME AnswerInv, Enter PROVE AnswerInv'
<1>1. After(mount) # {} /\ After(mount) \in SUBSET Nat /\ After(mount) \subseteq 1..Len(Mounts)
  BY DEF AnswerInv, Enter, After
<1>2. mount' \in After(mount)
  BY <1>1, SmallestIsThere DEF Enter
<1> QED BY <1>1, <1>2 DEF Enter, AnswerInv

LEMMA AnswerMatch == ASSUME AnswerInv, Match PROVE AnswerInv'
<1>1. /\ Matching # {} /\ Matching \in SUBSET Nat
      /\ Matching \subseteq 1..Len(Mounts[mount].routes)
  BY DEF Match, Matching, Taking
<1>2. row' \in Matching
  BY <1>1, SmallestIsThere DEF Match
<1>3. mount \in 1..Len(Mounts) /\ UNCHANGED <<mount, phase>> /\ phase = "chain"
  BY DEF AnswerInv, Match, BehindGuards
<1>4. <<mount, row'>> \in Places
  BY <1>1, <1>2, <1>3 DEF Places
<1>5. Here' = <<mount, row'>>
  BY <1>3 DEF Here
<1> QED BY <1>3, <1>4, <1>5 DEF AnswerInv, Places

LEMMA AnswerGuards ==
  ASSUME AnswerInv, CheckToken \/ CheckRole \/ ReceiveFile \/ CheckBody
  PROVE  AnswerInv'
<1>1. phase = "chain"
  BY DEF CheckToken, CheckRole, ReceiveFile, CheckBody, AtGuard
<1>2. \/ PassOn
      \/ \E e : Fail(e)
      \/ Answer(400) /\ UNCHANGED <<mount, row>>
  BY DEF CheckToken, CheckRole, ReceiveFile, CheckBody
<1>3. CASE PassOn
  BY <1>1, <1>3, AnswerStays DEF PassOn
<1>4. CASE \E e : Fail(e)
  BY <1>4, AnswerStays DEF Fail
<1>5. CASE Answer(400) /\ UNCHANGED <<mount, row>>
  BY <1>5, AnswerStays DEF Answer, Refusal
<1> QED BY <1>2, <1>3, <1>4, <1>5

LEMMA AnswerHandlers ==
  ASSUME AnswerInv,
         Serve \/ RefuseItself \/ Stranger \/ FailToHandler \/ FailAlone \/ FailOpen
  PROVE  AnswerInv'
<1>1. row # 0
  BY DEF Serve, RefuseItself, Stranger, FailToHandler, FailAlone, FailOpen, AtHandler
<1>2. CASE Serve \/ RefuseItself \/ FailAlone
  <2>1. UNCHANGED <<mount, row>> /\ \E s : Gives(Here, s) /\ Answer(s)
    BY <1>2 DEF Serve, RefuseItself, FailAlone, Stays, Gives, handler
  <2> QED BY <1>1, <2>1, AnswerStays DEF Answer
<1>3. CASE Stranger \/ FailToHandler
  BY <1>3, AnswerStays DEF Stranger, FailToHandler, Fail
<1>4. CASE FailOpen
  BY <1>4, AnswerStays DEF FailOpen, Stays
<1> QED BY <1>2, <1>3, <1>4

LEMMA AnswerStep == AnswerInv /\ [Next]_vars => AnswerInv'
<1> SUFFICES ASSUME AnswerInv, [Next]_vars PROVE AnswerInv'
  OBVIOUS
<1>1. CASE NoMount
  BY <1>1, AnswerStays DEF NoMount, Answer, Refusal
<1>2. CASE Leave
  BY <1>2, AnswerStays DEF Leave
<1>3. CASE HandleError
  BY <1>3, ErrorsAreRefusals, AnswerStays DEF HandleError, Answer, Stays
<1>4. CASE Rest \/ UNCHANGED vars
  BY <1>4, AnswerStays DEF Rest, vars, AnswerInv
<1> QED
  BY <1>1, <1>2, <1>3, <1>4, AnswerEnter, AnswerMatch, AnswerGuards, AnswerHandlers DEF Next

\* In tables whose files agree with each other, a handler that throws at a caller
\* it does not know has one, however the request came to it, and a success has a
\* status of the page of its route: the guards of the route files, the controllers
\* and the OpenAPI comments above the routes.
THEOREM FilesAgree == Tables => (Spec => []TablesAgree)
<1> SUFFICES ASSUME Tables PROVE Spec => []TablesAgree
  OBVIOUS
<1>1. Init => RequestInv /\ AnswerInv
  BY RequestInit DEF Init, AnswerInv
<1>2. RequestInv /\ AnswerInv /\ [Next]_vars => RequestInv' /\ AnswerInv'
  BY RequestStep, AnswerStep
<1>3. RequestInv /\ AnswerInv => TablesAgree
  <2> SUFFICES ASSUME RequestInv, AnswerInv PROVE CallersAreKnown /\ SuccessAsDocumented
    BY DEF TablesAgree
  <2>1. ASSUME AtHandler, NeedsCaller, Name(Here) \notin Tokenless PROVE user # Nil
    <3>1. Here \in Places /\ Here[1] = mount /\ row # 0 /\ phase = "chain"
      BY <2>1 DEF AtHandler, AnswerInv, Here
    <3>2. /\ Passed(Mounts[mount].guards, Len(Mounts[mount].guards))
          /\ Passed(Declared(Here).guards, Len(Declared(Here).guards))
      BY <2>1, <3>1 DEF RequestInv, ChainPassed, AtHandler, Chain
    <3>3. ReadsToken(Mounts[mount].guards) \/ ReadsToken(Declared(Here).guards)
      BY <2>1, <3>1 DEF Tables, TokensAreRead, NeedsCaller
    <3>4. ASSUME NEW guards, Passed(guards, Len(guards)), ReadsToken(guards) PROVE user # Nil
      BY <3>4 DEF Passed, ReadsToken, Admits
    <3> QED BY <3>2, <3>3, <3>4
  <2>2. ASSUME phase = "done", code < 400 PROVE Documents(Here, code)
    <3>1. ~Refusal(code)
      BY <2>2 DEF Refusal
    <3> QED BY <2>2, <3>1 DEF Tables, PagesAgree, AnswerInv, Gives
  <2> QED BY <2>1, <2>2 DEF CallersAreKnown, SuccessAsDocumented
<1> QED BY <1>1, <1>2, <1>3, PTL DEF Spec

-----------------------------------------------------------------------------
(* Roles and departments                                                   *)

Ids == RoleIds \cup DepartmentIds
RoleRow ==
  [made : BOOLEAN, permissions : SUBSET R!Permissions, default : BOOLEAN, active : BOOLEAN]
Spellings == {"can.view", "view", "update", "approve"}
Asked == SUBSET (Features \X Spellings)
RoleHandler ==
  [pc : {"idle", "clear_all", "clear", "check", "insert", "update", "delete"},
   id : Ids \cup {Nil}, perms : Asked, default : {"same", "yes", "no"}]

RolesTypeOK ==
  /\ roleRow \in [Ids -> RoleRow]
  /\ grant \in SUBSET (Ids \X R!Permissions)
  /\ roleReq \in [Workers -> RoleHandler]
  /\ \A w \in Workers : roleReq[w].pc # "idle" => roleReq[w].id \in Ids

\* The rows that login reads are those of the column, for roles there are and
\* roles there are not.
Columns ==
  /\ \A x \in Ids : ~roleRow[x].made => roleRow[x].permissions = {}
  /\ \A x \in Ids, p \in R!Permissions : <<x, p>> \in grant <=> p \in roleRow[x].permissions

RolesInv == RolesTypeOK /\ Columns

\* Whatever is asked, what is kept of it is permissions.
LEMMA NormalizedTyped ==
  ASSUME NEW perms \in Asked
  PROVE  R!normalizePermissions(perms) \in SUBSET R!Permissions
<1>1. \A s : R!Action(s) \in {"view", "edit", "none"}
  BY DEF R!Action
<1>2. \A p \in perms : p[1] \in Features
  BY DEF Asked
<1>3. \A p \in R!normalizePermissions(perms) :
        \E q \in perms : R!Action(q[2]) # "none" /\ p = <<q[1], R!Action(q[2])>>
  BY DEF R!normalizePermissions
<1> QED BY <1>1, <1>2, <1>3 DEF R!Permissions

LEMMA GivenTyped ==
  ASSUME NEW x, NEW perms \in R!Given(x) \cup {{}}
  PROVE  perms \in Asked
<1>1. CASE x \in RoleIds /\ perms # {}
  <2>1. PICK f \in Features :
          \/ perms = {<<f, "can.view">>}
          \/ perms = {<<f, "update">>, <<f, "view">>}
          \/ perms = {<<f, "approve">>}
   BY <1>1 DEF R!Given
  <2>2. ASSUME NEW p \in perms PROVE p \in Features \X Spellings
    <3>1. \/ p = <<f, "can.view">> \/ p = <<f, "update">>
          \/ p = <<f, "view">> \/ p = <<f, "approve">>
      BY <2>1
    <3> QED BY <2>1, <3>1 DEF Spellings
  <2> QED BY <2>2 DEF Asked
<1>2. CASE x \notin RoleIds \/ perms = {}
  BY <1>2 DEF R!Given, Asked
<1> QED BY <1>1, <1>2

LEMMA RoleIdle ==
  R!Idle \in RoleHandler /\ R!Idle.pc = "idle"
<1>1. {} \in Asked BY DEF Asked
<1> QED BY <1>1 DEF R!Idle, RoleHandler

LEMMA RolesInit == R!Init => RolesInv
<1> SUFFICES ASSUME R!Init PROVE RolesInv
  OBVIOUS
<1>1. R!NoRow \in RoleRow /\ R!NoRow.permissions = {} /\ ~R!NoRow.made
  BY DEF R!NoRow, RoleRow
<1>2. roleRow = [x \in Ids |-> R!NoRow] /\ grant = {} /\ roleReq = [w \in Workers |-> R!Idle]
  BY DEF R!Init, Ids
<1>3. RolesTypeOK BY <1>1, <1>2, RoleIdle DEF RolesTypeOK
<1>4. Columns BY <1>1, <1>2 DEF Columns
<1> QED BY <1>3, <1>4 DEF RolesInv

\* A handler that waits, goes on or returns.
LEMMA RoleHandlers ==
  ASSUME RolesInv, NEW w \in Workers, NEW h \in RoleHandler,
         roleReq' = [roleReq EXCEPT ![w] = h], h.pc # "idle" => h.id \in Ids
  PROVE  /\ roleReq' \in [Workers -> RoleHandler]
         /\ \A v \in Workers : roleReq'[v].pc # "idle" => roleReq'[v].id \in Ids
BY DEF RolesInv, RolesTypeOK

LEMMA RoleRequests ==
  ASSUME RolesInv, NEW w \in Workers, NEW x \in Ids,
         \/ \E perms \in R!Given(x), default \in BOOLEAN : R!Create(w, x, perms, default)
         \/ \E perms \in R!Given(x) \cup {{}}, default \in {"same", "yes", "no"} :
              R!Update(w, x, perms, default)
         \/ R!Delete(w, x)
  PROVE  RolesInv'
<1>1. PICK h \in RoleHandler :
        roleReq' = [roleReq EXCEPT ![w] = h] /\ h.id = x
  <2>1. ASSUME NEW perms \in R!Given(x), NEW default \in BOOLEAN, R!Create(w, x, perms, default)
        PROVE  \E h \in RoleHandler : roleReq' = [roleReq EXCEPT ![w] = h] /\ h.id = x
    <3> DEFINE h == [pc |-> IF default THEN "clear_all" ELSE "check", id |-> x, perms |-> perms,
                     default |-> IF default THEN "yes" ELSE "no"]
    <3>1. perms \in Asked BY GivenTyped
    <3>2. h \in RoleHandler BY <3>1 DEF RoleHandler
    <3> QED BY <2>1, <3>2 DEF R!Create, R!Call
  <2>2. ASSUME NEW perms \in R!Given(x) \cup {{}}, NEW default \in {"same", "yes", "no"},
               R!Update(w, x, perms, default)
        PROVE  \E h \in RoleHandler : roleReq' = [roleReq EXCEPT ![w] = h] /\ h.id = x
    <3> DEFINE h == [pc |-> IF default = "yes" THEN "clear" ELSE "update", id |-> x,
                     perms |-> perms, default |-> default]
    <3>1. perms \in Asked BY GivenTyped
    <3>2. h \in RoleHandler BY <3>1 DEF RoleHandler
    <3> QED BY <2>2, <3>2 DEF R!Update, R!Call
  <2>3. ASSUME R!Delete(w, x)
        PROVE  \E h \in RoleHandler : roleReq' = [roleReq EXCEPT ![w] = h] /\ h.id = x
    <3> DEFINE h == [R!Idle EXCEPT !.pc = "delete", !.id = x]
    <3>1. h \in RoleHandler /\ h.id = x BY RoleIdle DEF RoleHandler
    <3> QED BY <2>3, <3>1 DEF R!Delete, R!Call
  <2> QED BY <2>1, <2>2, <2>3
<1>2. UNCHANGED <<roleRow, grant>> BY DEF R!Create, R!Update, R!Delete
<1> QED BY <1>1, <1>2, RoleHandlers DEF RolesInv, RolesTypeOK, Columns

LEMMA RoleClears ==
  ASSUME RolesInv, NEW w \in Workers, R!ClearDefault(w)
  PROVE  RolesInv'
<1>1. PICK pc \in {"update", "check"} : roleReq' = [roleReq EXCEPT ![w].pc = pc]
  BY DEF R!ClearDefault, R!Goto
<1> DEFINE h == [roleReq[w] EXCEPT !.pc = pc]
<1>2. roleReq[w] \in RoleHandler /\ roleReq[w].id \in Ids
  BY DEF RolesInv, RolesTypeOK, R!ClearDefault, R!At
<1>3. h \in RoleHandler /\ h.id \in Ids BY <1>2 DEF RoleHandler
<1>4. roleReq' = [roleReq EXCEPT ![w] = h] BY <1>1 DEF RolesInv, RolesTypeOK
<1> HIDE DEF h
<1>5. UNCHANGED grant BY DEF R!ClearDefault
<1>6. /\ roleRow' = [y \in Ids |-> roleRow'[y]]
      /\ \A y \in Ids : roleRow'[y] = roleRow[y]
                       \/ roleRow'[y] = [roleRow[y] EXCEPT !.default = FALSE]
  BY DEF R!ClearDefault, RolesInv, RolesTypeOK
<1>7. ASSUME NEW y \in Ids
      PROVE  /\ roleRow'[y] \in RoleRow
             /\ roleRow'[y].made = roleRow[y].made
             /\ roleRow'[y].permissions = roleRow[y].permissions
  <2>1. roleRow[y] \in RoleRow BY DEF RolesInv, RolesTypeOK
  <2> QED BY <1>6, <2>1 DEF RoleRow
<1>8. RolesTypeOK'
  BY <1>3, <1>4, <1>5, <1>6, <1>7, RoleHandlers DEF RolesInv, RolesTypeOK
<1>9. Columns' BY <1>5, <1>7 DEF RolesInv, Columns
<1> QED BY <1>8, <1>9 DEF RolesInv

LEMMA RoleChecks ==
  ASSUME RolesInv, NEW w \in Workers, R!Check(w)
  PROVE  RolesInv'
<1> DEFINE h == [roleReq[w] EXCEPT !.pc = "insert"]
<1>1. roleReq[w] \in RoleHandler /\ roleReq[w].id \in Ids
  BY DEF RolesInv, RolesTypeOK, R!Check, R!At
<1>2. h \in RoleHandler /\ h.id \in Ids BY <1>1 DEF RoleHandler
<1>3. roleReq' = [roleReq EXCEPT ![w] = R!Idle] \/ roleReq' = [roleReq EXCEPT ![w] = h]
  BY DEF R!Check, R!Return, R!Goto
<1> HIDE DEF h
<1> QED BY <1>2, <1>3, RoleHandlers, RoleIdle DEF R!Check, RolesInv, RolesTypeOK, Columns

\* The row and its grants are written together, and the handler returns.
LEMMA RoleWritten ==
  ASSUME RolesInv, NEW w \in Workers, NEW x \in Ids, NEW c \in RoleRow,
         NEW kept \in SUBSET R!Permissions,
         roleReq' = [roleReq EXCEPT ![w] = R!Idle], roleRow' = [roleRow EXCEPT ![x] = c],
         c.permissions = kept, ~c.made => kept = {},
         \/ grant' = {g \in grant : g[1] # x} \cup ({x} \X kept)
         \/ grant' = grant /\ kept = roleRow[x].permissions
  PROVE  RolesInv'
<1>1. roleReq' \in [Workers -> RoleHandler]
      /\ \A v \in Workers : roleReq'[v].pc # "idle" => roleReq'[v].id \in Ids
  BY RoleHandlers, RoleIdle
<1>2. /\ roleRow'[x] = c
      /\ \A y \in Ids : y # x => roleRow'[y] = roleRow[y]
  BY DEF RolesInv, RolesTypeOK
<1>3. grant' \in SUBSET (Ids \X R!Permissions)
  BY DEF RolesInv, RolesTypeOK
<1>4. \A y \in Ids, p \in R!Permissions :
        <<y, p>> \in grant' <=> IF y = x THEN p \in kept ELSE <<y, p>> \in grant
  <2> SUFFICES ASSUME NEW y \in Ids, NEW p \in R!Permissions
               PROVE  <<y, p>> \in grant' <=> IF y = x THEN p \in kept ELSE <<y, p>> \in grant
    OBVIOUS
  <2>1. <<y, p>>[1] = y OBVIOUS
  <2>2. <<y, p>> \in {x} \X kept <=> y = x /\ p \in kept OBVIOUS
  <2>3. CASE grant' = {g \in grant : g[1] # x} \cup ({x} \X kept)
    BY <2>1, <2>2, <2>3
  <2>4. CASE grant' = grant /\ kept = roleRow[x].permissions
    BY <2>4 DEF RolesInv, Columns
  <2> QED BY <2>3, <2>4
<1>5. RolesTypeOK' BY <1>1, <1>3 DEF RolesInv, RolesTypeOK
<1>6. Columns' BY <1>2, <1>4 DEF RolesInv, Columns
<1> QED BY <1>5, <1>6 DEF RolesInv

LEMMA RoleInserts ==
  ASSUME RolesInv, NEW w \in Workers, R!Insert(w)
  PROVE  RolesInv'
<1> DEFINE x == roleReq[w].id
           kept == R!normalizePermissions(roleReq[w].perms)
           c == [made |-> TRUE, permissions |-> kept,
                 default |-> roleReq[w].default = "yes", active |-> TRUE]
<1>1. roleReq[w] \in RoleHandler /\ x \in Ids
  BY DEF RolesInv, RolesTypeOK, R!Insert, R!At
<1>2. kept \in SUBSET R!Permissions BY <1>1, NormalizedTyped DEF RoleHandler
<1>3. roleReq' = [roleReq EXCEPT ![w] = R!Idle] BY DEF R!Insert, R!Return
<1>4. CASE roleRow[x].made
  <2>1. UNCHANGED <<roleRow, grant>> BY <1>4 DEF R!Insert
  <2> QED BY <1>3, <2>1, RoleHandlers, RoleIdle DEF RolesInv, RolesTypeOK, Columns
<1>5. CASE ~roleRow[x].made
  <2>1. c \in RoleRow /\ c.permissions = kept /\ c.made BY <1>2 DEF RoleRow
  <2>2. roleRow' = [roleRow EXCEPT ![x] = c] /\ grant' = grant \cup ({x} \X kept)
    BY <1>5 DEF R!Insert
  <2>3. \A p \in R!Permissions : <<x, p>> \notin grant
    BY <1>1, <1>5 DEF RolesInv, Columns
  <2>4. grant = {g \in grant : g[1] # x}
    BY <2>3 DEF RolesInv, RolesTypeOK
  <2> HIDE DEF c, kept, x
  <2> QED BY <1>1, <1>2, <1>3, <2>1, <2>2, <2>4, RoleWritten
<1> QED BY <1>4, <1>5

LEMMA RoleChanges ==
  ASSUME RolesInv, NEW w \in Workers, R!Change(w)
  PROVE  RolesInv'
<1> DEFINE x == roleReq[w].id
           kept == R!normalizePermissions(roleReq[w].perms)
           perms == IF roleReq[w].perms # {} THEN kept ELSE roleRow[x].permissions
           c == [roleRow[x] EXCEPT !.default = R!Default(x, roleReq[w].default),
                                   !.permissions = perms]
<1>1. roleReq[w] \in RoleHandler /\ x \in Ids /\ roleRow[x] \in RoleRow
  BY DEF RolesInv, RolesTypeOK, R!Change, R!At
<1>2. kept \in SUBSET R!Permissions BY <1>1, NormalizedTyped DEF RoleHandler
<1>3. roleReq' = [roleReq EXCEPT ![w] = R!Idle] BY DEF R!Change, R!Return
<1>4. CASE UNCHANGED <<roleRow, grant>>
  BY <1>3, <1>4, RoleHandlers, RoleIdle DEF RolesInv, RolesTypeOK, Columns
<1>5. CASE ~UNCHANGED <<roleRow, grant>>
  <2>1. /\ roleRow[x].made
        /\ roleRow' = [roleRow EXCEPT ![x] = c]
        /\ grant' = IF roleReq[w].perms # {}
                    THEN {g \in grant : g[1] # x} \cup ({x} \X kept) ELSE grant
    BY <1>5 DEF R!Change
  <2>2. R!Default(x, roleReq[w].default) \in BOOLEAN BY <1>1 DEF R!Default, RoleRow
  <2>3. perms \in SUBSET R!Permissions BY <1>1, <1>2 DEF RoleRow
  <2>4. c \in RoleRow /\ c.permissions = perms /\ c.made
    BY <1>1, <2>1, <2>2, <2>3 DEF RoleRow
  <2>5. \/ grant' = {g \in grant : g[1] # x} \cup ({x} \X perms)
        \/ grant' = grant /\ perms = roleRow[x].permissions
    BY <2>1
  <2> HIDE DEF c, kept, x, perms
  <2> QED BY <1>1, <1>3, <2>1, <2>3, <2>4, <2>5, RoleWritten
<1> QED BY <1>4, <1>5

LEMMA RoleRemoved ==
  ASSUME RolesInv, NEW w \in Workers, R!Remove(w)
  PROVE  RolesInv'
<1> DEFINE x == roleReq[w].id
<1>1. x \in Ids BY DEF RolesInv, RolesTypeOK, R!Remove, R!At
<1>2. R!NoRow \in RoleRow /\ R!NoRow.permissions = {} BY DEF R!NoRow, RoleRow
<1>3. /\ roleReq' = [roleReq EXCEPT ![w] = R!Idle]
      /\ roleRow' = [roleRow EXCEPT ![x] = R!NoRow]
      /\ grant' = {g \in grant : g[1] # x}
  BY DEF R!Remove, R!Return
<1>4. {g \in grant : g[1] # x} = {g \in grant : g[1] # x} \cup ({x} \X {})
  OBVIOUS
<1> HIDE DEF x
<1> QED BY <1>1, <1>2, <1>3, <1>4, RoleWritten

LEMMA RoleToggled ==
  ASSUME RolesInv, NEW x \in Ids, R!Toggle(x)
  PROVE  RolesInv'
<1>1. roleRow[x] \in RoleRow BY DEF RolesInv, RolesTypeOK
<1> DEFINE c == [roleRow[x] EXCEPT !.active = ~roleRow[x].active]
<1>2. c \in RoleRow /\ c.made = roleRow[x].made /\ c.permissions = roleRow[x].permissions
  BY <1>1 DEF RoleRow
<1>3. roleRow' = [roleRow EXCEPT ![x] = c] /\ UNCHANGED <<grant, roleReq>> BY DEF R!Toggle
<1> HIDE DEF c
<1> QED BY <1>2, <1>3 DEF RolesInv, RolesTypeOK, Columns

LEMMA RolesNext == RolesInv /\ [R!Next]_(R!vars) => RolesInv'
<1> SUFFICES ASSUME RolesInv, [R!Next]_(R!vars) PROVE RolesInv'
  OBVIOUS
<1>1. CASE UNCHANGED R!vars \/ R!Rest
  BY <1>1 DEF R!Rest, R!vars, RolesInv, RolesTypeOK, Columns
<1>2. ASSUME NEW w \in Workers, R!StepFails(w) PROVE RolesInv'
  BY <1>2, RoleHandlers, RoleIdle DEF R!StepFails, R!Return, RolesInv, RolesTypeOK, Columns
<1>3. DOMAIN roleRow = Ids BY DEF RolesInv, RolesTypeOK
<1> QED
  BY <1>1, <1>2, <1>3, RoleRequests, RoleClears, RoleChecks, RoleInserts, RoleChanges,
     RoleRemoved, RoleToggled DEF R!Next

\* The permissions of a role that staff see are those its members get at their
\* login: createRole, updateRole and deleteRole of role.service.ts, one over the
\* other and failing anywhere.
THEOREM GrantsFollowRoles == R!Spec => []GrantsAgree
<1>1. RolesInv => GrantsAgree
  <2> SUFFICES ASSUME RolesInv, NEW r \in RoleIds
               PROVE  {g[2] : g \in {h \in grant : h[1] = r}} = roleRow[r].permissions
    BY DEF GrantsAgree, R!GrantsAgree
  <2>1. r \in Ids /\ roleRow[r] \in RoleRow BY DEF Ids, RolesInv, RolesTypeOK
  <2>2. roleRow[r].permissions \in SUBSET R!Permissions BY <2>1 DEF RoleRow
  <2>3. \A g \in grant : g = <<g[1], g[2]>> /\ g[2] \in R!Permissions
    BY DEF RolesInv, RolesTypeOK
  <2>4. ASSUME NEW g \in grant, g[1] = r PROVE g[2] \in roleRow[r].permissions
    <3>1. <<r, g[2]>> \in grant /\ g[2] \in R!Permissions BY <2>3, <2>4
    <3> QED BY <2>1, <3>1 DEF RolesInv, Columns
  <2>5. ASSUME NEW p \in roleRow[r].permissions
        PROVE  \E g \in grant : g[1] = r /\ g[2] = p
    <3>1. <<r, p>> \in grant BY <2>1, <2>2 DEF RolesInv, Columns
    <3> QED BY <3>1
  <2> QED BY <2>4, <2>5
<1> QED BY RolesInit, RolesNext, <1>1, PTL DEF R!Spec

-----------------------------------------------------------------------------
(* Tickets                                                                 *)

TicketRow ==
  [status : K!Statuses \cup {"NONE"}, note : K!Statuses \cup {"NONE", "AGAIN"},
   assignee : Staff \cup {Nil}, file : BOOLEAN]
TicketHandler ==
  [pc : {"idle", "upload", "attach", "status", "assign"}, ticket : Tickets \cup {Nil},
   status : K!Statuses \cup {"NONE"}, read : K!Statuses \cup {"NONE"}, admin : Staff \cup {Nil}]

TicketsTypeOK ==
  /\ ticket \in [Tickets -> TicketRow]
  /\ ticketReq \in [Workers -> TicketHandler]

\* The last note is that of the status, but for an open ticket.
ThreadOK(t) ==
  ticket[t].status \notin {"OPEN", "NONE"} => ticket[t].note = ticket[t].status

\* A handler is at work on a ticket there is, to move it to a status there is.
TicketHandlerOK(w) ==
  ticketReq[w].pc # "idle" =>
    /\ ticketReq[w].ticket \in Tickets
    /\ ticket[ticketReq[w].ticket].status # "NONE"
    /\ ticketReq[w].pc = "status" => ticketReq[w].status \in K!Statuses

\* Of requests that meet no other: one is in flight, and the status it read is
\* that of its ticket still.
TicketsCalm ==
  /\ \A v, w \in Workers : v = w \/ ticketReq[v].pc = "idle" \/ ticketReq[w].pc = "idle"
  /\ \A w \in Workers : ticketReq[w].pc = "status" =>
       ticketReq[w].read = ticket[ticketReq[w].ticket].status
  /\ \A t \in Tickets : ticket[t].status = "OPEN" => ticket[t].note \notin {"RESOLVED", "CLOSED"}

TicketsInv ==
  /\ TicketsTypeOK
  /\ \A t \in Tickets : ThreadOK(t)
  /\ \A w \in Workers : TicketHandlerOK(w)
  /\ ticketCalm => TicketsCalm

LEMMA TicketIdle == K!Idle \in TicketHandler /\ K!Idle.pc = "idle"
BY DEF K!Idle, TicketHandler

LEMMA TicketsInit == K!Init => TicketsInv
<1> SUFFICES ASSUME K!Init PROVE TicketsInv
  OBVIOUS
<1>1. K!NoTicket \in TicketRow /\ K!NoTicket.status = "NONE"
  BY DEF K!NoTicket, TicketRow
<1> QED BY <1>1, TicketIdle DEF K!Init, TicketsInv, TicketsTypeOK, ThreadOK,
       TicketHandlerOK, TicketsCalm

\* The handlers go on and the tickets stay what they are, or get a file or an
\* assignee.
LEMMA TicketsAlike ==
  ASSUME TicketsInv, ticket' \in [Tickets -> TicketRow],
         \A t \in Tickets :
           ticket'[t].status = ticket[t].status /\ ticket'[t].note = ticket[t].note,
         NEW w \in Workers, NEW h \in TicketHandler, ticketReq' = [ticketReq EXCEPT ![w] = h],
         h.pc # "idle" => h.ticket \in Tickets /\ ticket[h.ticket].status # "NONE",
         h.pc = "status" => h.status \in K!Statuses /\ h.read = ticket[h.ticket].status,
         ticketCalm' =>
           /\ ticketCalm
           /\ ticketReq[w].pc # "idle" \/ \A v \in Workers : ticketReq[v].pc = "idle"
  PROVE  TicketsInv'
<1>1. /\ ticketReq'[w] = h
      /\ \A v \in Workers : v # w => ticketReq'[v] = ticketReq[v]
  BY DEF TicketsInv, TicketsTypeOK
<1>2. TicketsTypeOK' BY DEF TicketsInv, TicketsTypeOK
<1>3. \A t \in Tickets : ThreadOK(t)' BY DEF TicketsInv, ThreadOK
<1>4. \A v \in Workers : TicketHandlerOK(v)' BY <1>1 DEF TicketsInv, TicketHandlerOK
<1>5. ASSUME ticketCalm' PROVE TicketsCalm'
  <2>1. TicketsCalm BY <1>5 DEF TicketsInv
  <2>2. \A v \in Workers : v # w => ticketReq[v].pc = "idle"
    BY <1>5, <2>1 DEF TicketsCalm
  <2> QED BY <1>1, <2>1, <2>2 DEF TicketsCalm
<1> QED BY <1>2, <1>3, <1>4, <1>5 DEF TicketsInv

\* A new ticket is open and has no note.
LEMMA TicketOpened ==
  ASSUME TicketsInv, NEW t \in Tickets, NEW file \in BOOLEAN, ~K!Exists(t),
         ticket' = [ticket EXCEPT ![t] = K!Opened(file)],
         \/ ticketReq' = ticketReq /\ ticketCalm' = ticketCalm
         \/ \E w \in Workers, h \in TicketHandler :
              /\ ticketReq' = [ticketReq EXCEPT ![w] = h]
              /\ h.pc \in {"idle", "upload"} /\ (h.pc = "upload" => h.ticket = t)
              /\ ticketCalm' => ticketCalm /\ \A v \in Workers : ticketReq[v].pc = "idle"
  PROVE  TicketsInv'
<1> DEFINE c == K!Opened(file)
<1>1. c \in TicketRow /\ c.status = "OPEN" /\ c.note = "NONE"
  BY DEF K!Opened, K!NoTicket, TicketRow, K!Statuses
<1> HIDE DEF c
<1>2. /\ ticket'[t] = c
      /\ \A u \in Tickets : u # t => ticket'[u] = ticket[u]
      /\ ticket' \in [Tickets -> TicketRow]
  BY <1>1 DEF TicketsInv, TicketsTypeOK, c
<1>3. \A u \in Tickets : ThreadOK(u)' BY <1>1, <1>2 DEF TicketsInv, ThreadOK
<1>4. \A w \in Workers : ticketReq[w].pc # "idle" => ticketReq[w].ticket # t
  BY DEF TicketsInv, TicketHandlerOK, K!Exists
<1>5. CASE ticketReq' = ticketReq /\ ticketCalm' = ticketCalm
  <2>1. TicketsTypeOK' BY <1>2, <1>5 DEF TicketsInv, TicketsTypeOK
  <2>2. \A w \in Workers : TicketHandlerOK(w)'
    BY <1>2, <1>4, <1>5 DEF TicketsInv, TicketHandlerOK
  <2>3. ticketCalm' => TicketsCalm'
    BY <1>1, <1>2, <1>4, <1>5 DEF TicketsInv, TicketsCalm, TicketHandlerOK
  <2> QED BY <1>3, <2>1, <2>2, <2>3 DEF TicketsInv
<1>6. ASSUME NEW w \in Workers, NEW h \in TicketHandler,
             ticketReq' = [ticketReq EXCEPT ![w] = h],
             h.pc \in {"idle", "upload"}, h.pc = "upload" => h.ticket = t,
             ticketCalm' => ticketCalm /\ \A v \in Workers : ticketReq[v].pc = "idle"
      PROVE  TicketsInv'
  <2>0. /\ ticketReq'[w] = h
        /\ \A v \in Workers : v # w => ticketReq'[v] = ticketReq[v]
    BY <1>6 DEF TicketsInv, TicketsTypeOK
  <2>1. TicketsTypeOK' BY <1>2, <1>6 DEF TicketsInv, TicketsTypeOK
  <2>2. \A v \in Workers : TicketHandlerOK(v)'
    BY <1>1, <1>2, <1>4, <1>6, <2>0 DEF TicketsInv, TicketHandlerOK
  <2>3. ticketCalm' => TicketsCalm'
    BY <1>1, <1>2, <1>6, <2>0 DEF TicketsInv, TicketsCalm
  <2> QED BY <1>3, <2>1, <2>2, <2>3 DEF TicketsInv
<1> QED BY <1>5, <1>6

\* The move itself: the status and its note.
LEMMA TicketMoved ==
  ASSUME TicketsInv, NEW w \in Workers, K!WriteStatus(w)
  PROVE  TicketsInv'
<1> DEFINE h == ticketReq[w]
           t == h.ticket
           note == K!Note(h.status, h.read)
           last == IF note = "NONE" THEN ticket[t].note ELSE note
           c == [ticket[t] EXCEPT !.status = h.status, !.note = last]
<1>1. h.pc = "status" /\ h \in TicketHandler /\ t \in Tickets /\ h.status \in K!Statuses
  BY DEF K!WriteStatus, K!At, TicketsInv, TicketsTypeOK, TicketHandlerOK
<1>2. ticket' = [ticket EXCEPT ![t] = c] /\ ticketReq' = [ticketReq EXCEPT ![w] = K!Idle]
      /\ ticketCalm' = ticketCalm
  BY DEF K!WriteStatus, K!Return
<1>3. note \in K!Statuses \cup {"NONE", "AGAIN"} /\ (h.status # "OPEN" => note = h.status)
  BY <1>1 DEF K!Note
<1>4. ticket[t] \in TicketRow BY <1>1 DEF TicketsInv, TicketsTypeOK
<1>5. last \in K!Statuses \cup {"NONE", "AGAIN"} BY <1>3, <1>4 DEF TicketRow
<1>6. c \in TicketRow /\ c.status = h.status /\ c.note = last
  BY <1>1, <1>4, <1>5 DEF TicketRow
<1>7. h.status # "OPEN" => last = h.status
  BY <1>1, <1>3 DEF K!Statuses
<1>8. ticketCalm /\ h.status = "OPEN" => last \notin {"RESOLVED", "CLOSED"}
  <2> SUFFICES ASSUME ticketCalm, h.status = "OPEN" PROVE last \notin {"RESOLVED", "CLOSED"}
    OBVIOUS
  <2>1. h.read = ticket[t].status /\ ticket[t].status # "NONE"
    BY <1>1 DEF TicketsInv, TicketsCalm, TicketHandlerOK
  <2>2. CASE h.read \in {"RESOLVED", "CLOSED"} BY <2>2 DEF K!Note
  <2>3. CASE h.read = "OPEN"
    BY <1>1, <2>1, <2>3 DEF K!Note, TicketsInv, TicketsCalm
  <2>4. CASE h.read = "IN_PROGRESS"
    BY <1>1, <2>1, <2>4 DEF K!Note, TicketsInv, ThreadOK
  <2> QED BY <1>1, <2>1, <2>2, <2>3, <2>4 DEF TicketHandler, K!Statuses
<1>9. h.status \notin {"OPEN", "NONE"} => c.note = h.status BY <1>6, <1>7
<1> HIDE DEF h, t, note, last, c
<1>10. /\ ticket'[t] = c
       /\ \A u \in Tickets : u # t => ticket'[u] = ticket[u]
       /\ ticket' \in [Tickets -> TicketRow]
  BY <1>1, <1>2, <1>6 DEF TicketsInv, TicketsTypeOK
<1>11. /\ ticketReq'[w] = K!Idle
       /\ \A v \in Workers : v # w => ticketReq'[v] = ticketReq[v]
  BY <1>2 DEF TicketsInv, TicketsTypeOK
<1>12. TicketsTypeOK' BY <1>2, <1>10, TicketIdle DEF TicketsInv, TicketsTypeOK
<1>13. \A u \in Tickets : ThreadOK(u)' BY <1>6, <1>9, <1>10 DEF TicketsInv, ThreadOK
<1>14. c.status # "NONE" BY <1>1, <1>6 DEF K!Statuses
<1>15. \A v \in Workers : TicketHandlerOK(v)'
  BY <1>10, <1>11, <1>14, TicketIdle DEF TicketsInv, TicketHandlerOK
<1>16. ASSUME ticketCalm' PROVE TicketsCalm'
  <2>1. ticketCalm /\ TicketsCalm BY <1>2, <1>16 DEF TicketsInv
  <2>2. \A v \in Workers : ticketReq'[v].pc = "idle"
    BY <1>1, <1>11, <2>1, TicketIdle DEF TicketsCalm, h
  <2> QED BY <1>6, <1>8, <1>10, <2>1, <2>2 DEF TicketsCalm
<1> QED BY <1>12, <1>13, <1>15, <1>16 DEF TicketsInv

LEMMA TicketSteps ==
  ASSUME TicketsInv, NEW w \in Workers,
         \/ \E t \in Tickets :
              \/ \E status \in K!Statuses : K!ReadStatus(w, t, status)
              \/ \E m \in Staff : K!ReadAssignee(w, t, m)
         \/ K!Upload(w) \/ K!Attach(w) \/ K!FileFails(w) \/ K!Assign(w) \/ K!Die(w)
  PROVE  TicketsInv'
<1>1. TicketsTypeOK /\ ticketReq[w] \in TicketHandler /\ TicketHandlerOK(w)
  BY DEF TicketsInv, TicketsTypeOK
<1>2. ASSUME NEW t \in Tickets, NEW status \in K!Statuses, K!ReadStatus(w, t, status)
      PROVE  TicketsInv'
  <2> DEFINE h == [K!Idle EXCEPT !.pc = "status", !.ticket = t, !.status = status,
                                 !.read = ticket[t].status]
  <2>1. ticket[t] \in TicketRow BY <1>1 DEF TicketsTypeOK
  <2>2. /\ h \in TicketHandler /\ h.pc = "status" /\ h.ticket = t
        /\ h.status = status /\ h.read = ticket[t].status
    BY <2>1 DEF K!Idle, TicketHandler, TicketRow
  <2>3. ticketReq' = [ticketReq EXCEPT ![w] = h] BY <1>2 DEF K!ReadStatus, K!Call
  <2>4. UNCHANGED ticket /\ ticket[t].status # "NONE" BY <1>2 DEF K!ReadStatus, K!Exists
  <2>5. ticketCalm' => ticketCalm /\ \A v \in Workers : ticketReq[v].pc = "idle"
    BY <1>2 DEF K!ReadStatus, K!Call, K!Quiet, K!At
  <2> HIDE DEF h
  <2> QED BY <1>1, <2>2, <2>3, <2>4, <2>5, TicketsAlike DEF TicketsTypeOK
<1>3. ASSUME NEW t \in Tickets, NEW m \in Staff, K!ReadAssignee(w, t, m)
      PROVE  TicketsInv'
  <2> DEFINE h == [K!Idle EXCEPT !.pc = "assign", !.ticket = t, !.admin = m]
  <2>2. h \in TicketHandler /\ h.pc = "assign" /\ h.ticket = t
    BY DEF K!Idle, TicketHandler
  <2>3. ticketReq' = [ticketReq EXCEPT ![w] = h] BY <1>3 DEF K!ReadAssignee, K!Call
  <2>4. UNCHANGED ticket /\ ticket[t].status # "NONE" BY <1>3 DEF K!ReadAssignee, K!Exists
  <2>5. ticketCalm' => ticketCalm /\ \A v \in Workers : ticketReq[v].pc = "idle"
    BY <1>3 DEF K!ReadAssignee, K!Call, K!Quiet, K!At
  <2> HIDE DEF h
  <2> QED BY <1>1, <2>2, <2>3, <2>4, <2>5, TicketsAlike DEF TicketsTypeOK
<1>4. ASSUME K!Upload(w) PROVE TicketsInv'
  <2> DEFINE h == [ticketReq[w] EXCEPT !.pc = "attach"]
  <2>1. ticketReq[w].pc = "upload" /\ UNCHANGED <<ticket, ticketCalm>>
    BY <1>4 DEF K!Upload, K!At
  <2>2. h \in TicketHandler /\ h.pc = "attach" /\ h.ticket = ticketReq[w].ticket
    BY <1>1 DEF TicketHandler
  <2>3. ticketReq' = [ticketReq EXCEPT ![w] = h] BY <1>4 DEF K!Upload
  <2> HIDE DEF h
  <2> QED BY <1>1, <2>1, <2>2, <2>3, TicketsAlike DEF TicketsTypeOK, TicketHandlerOK
<1>5. ASSUME NEW t \in Tickets, NEW c \in TicketRow, ticketReq[w].pc # "idle",
             ticket' = [ticket EXCEPT ![t] = c], ticketCalm' = ticketCalm,
             c.status = ticket[t].status, c.note = ticket[t].note,
             ticketReq' = [ticketReq EXCEPT ![w] = K!Idle]
      PROVE  TicketsInv'
  <2>1. ticket' \in [Tickets -> TicketRow] BY <1>1, <1>5 DEF TicketsTypeOK
  <2>2. \A u \in Tickets :
          ticket'[u].status = ticket[u].status /\ ticket'[u].note = ticket[u].note
    BY <1>1, <1>5 DEF TicketsTypeOK
  <2> QED BY <1>5, <2>1, <2>2, TicketIdle, TicketsAlike
<1>6. ASSUME K!Attach(w) PROVE TicketsInv'
  <2> DEFINE t == ticketReq[w].ticket
             c == [ticket[t] EXCEPT !.file = TRUE]
  <2>1. ticketReq[w].pc # "idle" /\ t \in Tickets
    BY <1>1, <1>6 DEF K!Attach, K!At, TicketHandlerOK
  <2>2. ticket[t] \in TicketRow BY <1>1, <2>1 DEF TicketsTypeOK
  <2>3. c \in TicketRow /\ c.status = ticket[t].status /\ c.note = ticket[t].note
    BY <2>2 DEF TicketRow
  <2>4. /\ ticket' = [ticket EXCEPT ![t] = c] /\ ticketCalm' = ticketCalm
        /\ ticketReq' = [ticketReq EXCEPT ![w] = K!Idle]
    BY <1>6 DEF K!Attach, K!Return
  <2> HIDE DEF t, c
  <2> QED BY <1>5, <2>1, <2>3, <2>4
<1>7. ASSUME K!Assign(w) PROVE TicketsInv'
  <2> DEFINE t == ticketReq[w].ticket
             c == [ticket[t] EXCEPT !.assignee = ticketReq[w].admin]
  <2>1. ticketReq[w].pc # "idle" /\ t \in Tickets /\ ticketReq[w].admin \in Staff \cup {Nil}
    BY <1>1, <1>7 DEF K!Assign, K!At, TicketHandlerOK, TicketHandler
  <2>2. ticket[t] \in TicketRow BY <1>1, <2>1 DEF TicketsTypeOK
  <2>3. c \in TicketRow /\ c.status = ticket[t].status /\ c.note = ticket[t].note
    BY <2>1, <2>2 DEF TicketRow
  <2>4. /\ ticket' = [ticket EXCEPT ![t] = c] /\ ticketCalm' = ticketCalm
        /\ ticketReq' = [ticketReq EXCEPT ![w] = K!Idle]
    BY <1>7 DEF K!Assign, K!Return
  <2> HIDE DEF t, c
  <2> QED BY <1>5, <2>1, <2>3, <2>4
<1>8. ASSUME K!FileFails(w) \/ K!Die(w) PROVE TicketsInv'
  <2>1. /\ ticketReq[w].pc # "idle" /\ UNCHANGED <<ticket, ticketCalm>>
        /\ ticketReq' = [ticketReq EXCEPT ![w] = K!Idle]
    BY <1>8 DEF K!FileFails, K!Die, K!At, K!Return
  <2> QED BY <1>1, <2>1, TicketIdle, TicketsAlike DEF TicketsTypeOK
<1> QED BY <1>2, <1>3, <1>4, <1>6, <1>7, <1>8

\* The steps of no handler.
LEMMA TicketsAtOnce ==
  ASSUME TicketsInv,
         (\E t \in Tickets : K!Update(t)) \/ (\E m \in Staff : K!SetActive(m)) \/ K!Rest
           \/ UNCHANGED K!vars
  PROVE  TicketsInv'
<1>1. ticketReq' = ticketReq /\ (ticketCalm' => ticketCalm)
  <2>1. ASSUME NEW m \in Staff, K!SetActive(m)
        PROVE  ticketReq' = ticketReq /\ (ticketCalm' => ticketCalm)
    BY <2>1 DEF K!SetActive
  <2>2. CASE (\E t \in Tickets : K!Update(t)) \/ K!Rest \/ UNCHANGED K!vars
    BY <2>2 DEF K!Update, K!Rest, K!vars
  <2> QED BY <2>1, <2>2
<1>2. /\ ticket' \in [Tickets -> TicketRow]
      /\ \A u \in Tickets :
           ticket'[u].status = ticket[u].status /\ ticket'[u].note = ticket[u].note
  <2>1. ASSUME NEW t \in Tickets, K!Update(t)
        PROVE  /\ ticket' \in [Tickets -> TicketRow]
               /\ \A u \in Tickets :
                    ticket'[u].status = ticket[u].status /\ ticket'[u].note = ticket[u].note
    <3>1. ticket' = [ticket EXCEPT ![t] = [ticket[t] EXCEPT !.file = TRUE]]
      BY <2>1 DEF K!Update
    <3> QED BY <3>1 DEF TicketsInv, TicketsTypeOK, TicketRow
  <2> QED BY <2>1 DEF K!SetActive, K!Rest, K!vars, TicketsInv, TicketsTypeOK
<1> QED BY <1>1, <1>2 DEF TicketsInv, TicketsTypeOK, ThreadOK, TicketHandlerOK, TicketsCalm

LEMMA TicketCreates ==
  ASSUME TicketsInv, NEW t \in Tickets, NEW file \in BOOLEAN,
         K!Create(t, file) \/ \E w \in Workers : K!CreateSupportTicket(w, t, file)
  PROVE  TicketsInv'
<1>1. CASE K!Create(t, file)
  BY <1>1, TicketOpened DEF K!Create
<1>2. ASSUME NEW w \in Workers, K!CreateSupportTicket(w, t, file) PROVE TicketsInv'
  <2> DEFINE h == IF file THEN [K!Idle EXCEPT !.pc = "upload", !.ticket = t] ELSE K!Idle
  <2>1. h \in TicketHandler /\ h.pc \in {"idle", "upload"} /\ (h.pc = "upload" => h.ticket = t)
    BY DEF K!Idle, TicketHandler
  <2>2. ticketReq' = [ticketReq EXCEPT ![w] = h]
        /\ (ticketCalm' => ticketCalm /\ \A v \in Workers : ticketReq[v].pc = "idle")
    BY <1>2 DEF K!CreateSupportTicket, K!Call, K!Quiet, K!At
  <2>3. ~K!Exists(t) /\ ticket' = [ticket EXCEPT ![t] = K!Opened(FALSE)]
    BY <1>2 DEF K!CreateSupportTicket
  <2> HIDE DEF h
  <2> QED BY <2>1, <2>2, <2>3, TicketOpened
<1> QED BY <1>1, <1>2

LEMMA TicketsNext == TicketsInv /\ [K!Next]_(K!vars) => TicketsInv'
BY TicketCreates, TicketSteps, TicketMoved, TicketsAtOnce DEF K!Next

\* The thread tells where a ticket stands: updateStatus of the tickets service,
\* one over the other or dying between its statements.
THEOREM ThreadsTell == K!Spec => []ThreadTellsStatus
<1>1. TicketsInv => ThreadTellsStatus
  BY DEF TicketsInv, TicketsCalm, ThreadOK, ThreadTellsStatus, K!ThreadTellsStatus, K!Exists
<1> QED BY TicketsInit, TicketsNext, <1>1, PTL DEF K!Spec

-----------------------------------------------------------------------------
(* The tokens of staff                                                     *)

Kinds == A!Codes \cup A!Grants
TokenRow ==
  [user : Staff \cup {Nil}, kind : Kinds \cup {"NONE"}, used : BOOLEAN, attempts : Nat,
   age : {"new", "live", "expired"}]
StaffHandler ==
  [pc : {"idle", "invite", "clear_login", "create_login", "use_login", "forgot", "compare",
         "issue", "first", "set", "change"},
   user : Staff \cup {Nil}, token : Tokens \cup {Nil}, kind : Kinds \cup {"NONE"},
   first : BOOLEAN, left : SUBSET Tokens, attempts : Nat]

TokensTypeOK ==
  /\ proof \in [Tokens -> TokenRow]
  /\ uses \in [Tokens -> Nat]
  /\ staffReq \in [Workers -> StaffHandler]
  /\ \A w \in Workers :
       /\ staffReq[w].pc \in {"use_login", "issue", "first", "set"} => staffReq[w].token \in Tokens
       /\ staffReq[w].pc = "forgot" => staffReq[w].kind \in {"RESET_OTP", "WELCOME"}

\* Tokens of which a member of staff has one at a time, whatever overlaps.
Alike(j, k) ==
  \/ j = "RESET" /\ k = "RESET"
  \/ j = "CHANGE" /\ k = "CHANGE"
  \/ j \in {"RESET_OTP", "WELCOME"} /\ k \in {"RESET_OTP", "WELCOME"}
Unique ==
  \A s, t \in Tokens :
    /\ ~proof[s].used /\ ~proof[t].used
    /\ proof[s].user = proof[t].user
    /\ Alike(proof[s].kind, proof[t].kind)
    => s = t

\* Of requests that meet no other and do not fail: what the one in flight knows.
StaffKnows(w) ==
  LET h == staffReq[w] IN
  /\ h.pc = "create_login" =>
       \A t \in Tokens : proof[t].user = h.user /\ proof[t].kind = "LOGIN" => proof[t].used
  /\ h.pc \in {"use_login", "issue", "first", "set"} => ~proof[h.token].used
  /\ h.pc = "issue" => proof[h.token].kind # "NONE"
  /\ h.pc = "compare" => \A t \in h.left : ~proof[t].used
OneLogin ==
  \A s, t \in Tokens :
    /\ ~proof[s].used /\ ~proof[t].used
    /\ proof[s].user = proof[t].user
    /\ proof[s].kind = "LOGIN" /\ proof[t].kind = "LOGIN"
    => s = t
SpentOnce == \A t \in Tokens : uses[t] = 0 \/ (uses[t] = 1 /\ proof[t].used)
TokensCalm ==
  /\ \A v, w \in Workers : v = w \/ staffReq[v].pc = "idle" \/ staffReq[w].pc = "idle"
  /\ \A w \in Workers : StaffKnows(w)
  /\ OneLogin
  /\ SpentOnce

TokensInv ==
  /\ TokensTypeOK
  /\ Unique
  /\ staffCalm => TokensCalm

LEMMA StaffIdle == A!Idle \in StaffHandler /\ A!Idle.pc = "idle"
BY DEF A!Idle, StaffHandler

LEMMA TokensInit == A!Init => TokensInv
<1> SUFFICES ASSUME A!Init PROVE TokensInv
  OBVIOUS
<1>1. A!NoRow \in TokenRow /\ A!NoRow.kind = "NONE"
  BY DEF A!NoRow, TokenRow
<1>2. /\ proof = [t \in Tokens |-> A!NoRow]
      /\ staffReq = [w \in Workers |-> A!Idle]
      /\ uses = [t \in Tokens |-> 0]
  BY DEF A!Init
<1>3. TokensTypeOK BY <1>1, <1>2, StaffIdle DEF TokensTypeOK
<1>4. Unique BY <1>1, <1>2 DEF Unique, Alike
<1>5. TokensCalm
  BY <1>1, <1>2, StaffIdle DEF TokensCalm, StaffKnows, OneLogin, SpentOnce
<1> QED BY <1>3, <1>4, <1>5 DEF TokensInv

-----------------------------------------------------------------------------
\* How the rows may change, with no new one: a token is still whose it was and
\* what for, and if it was used it is used.
Worn ==
  /\ proof' \in [Tokens -> TokenRow]
  /\ \A t \in Tokens :
       /\ proof'[t].user = proof[t].user /\ proof'[t].kind = proof[t].kind
       /\ proof[t].used => proof'[t].used

\* One new token k, and those used before and those in S are used.
Added(k, u, kind, S) ==
  /\ proof' \in [Tokens -> TokenRow]
  /\ proof'[k].user = u /\ proof'[k].kind = kind /\ proof'[k].used = FALSE
  /\ \A t \in Tokens \ {k} :
       /\ proof'[t].user = proof[t].user /\ proof'[t].kind = proof[t].kind
       /\ proof'[t].used <=> proof[t].used \/ t \in S

\* updateMany marks the rows it selects and no other.
LEMMA UseFacts ==
  ASSUME TokensTypeOK, NEW S \in SUBSET Tokens
  PROVE  /\ A!Use(proof, S) \in [Tokens -> TokenRow]
         /\ \A t \in Tokens :
              /\ A!Use(proof, S)[t].user = proof[t].user
              /\ A!Use(proof, S)[t].kind = proof[t].kind
              /\ A!Use(proof, S)[t].used <=> proof[t].used \/ t \in S
<1> DEFINE f == A!Use(proof, S)
<1>1. f = [t \in Tokens |-> IF t \in S THEN [proof[t] EXCEPT !.used = TRUE] ELSE proof[t]]
  BY DEF A!Use
<1>2. ASSUME NEW t \in Tokens
      PROVE  /\ f[t] \in TokenRow /\ f[t].user = proof[t].user /\ f[t].kind = proof[t].kind
             /\ f[t].used <=> proof[t].used \/ t \in S
  <2>1. proof[t] \in TokenRow BY DEF TokensTypeOK
  <2>2. f[t] = IF t \in S THEN [proof[t] EXCEPT !.used = TRUE] ELSE proof[t] BY <1>1
  <2> HIDE DEF f
  <2>3. CASE t \in S
    <3>1. f[t] = [proof[t] EXCEPT !.used = TRUE] BY <2>2, <2>3
    <3> QED BY <2>1, <2>3, <3>1 DEF TokenRow
  <2>4. CASE t \notin S
    <3>1. f[t] = proof[t] BY <2>2, <2>4
    <3> QED BY <2>1, <2>4, <3>1
  <2> QED BY <2>3, <2>4
<1>3. f = [t \in Tokens |-> f[t]] BY <1>1
<1> HIDE DEF f
<1>4. f \in [Tokens -> TokenRow] BY <1>2, <1>3
<1> QED BY <1>2, <1>4 DEF f

LEMMA AddFacts ==
  ASSUME TokensTypeOK, NEW k \in Tokens, NEW u \in Staff \cup {Nil}, NEW kind \in Kinds,
         NEW S \in SUBSET Tokens, proof' = A!Add(A!Use(proof, S), k, u, kind)
  PROVE  Added(k, u, kind, S)
<1> DEFINE f == A!Use(proof, S)
           c == [A!NoRow EXCEPT !.user = u, !.kind = kind]
<1>1. /\ f \in [Tokens -> TokenRow]
      /\ \A t \in Tokens :
           /\ f[t].user = proof[t].user /\ f[t].kind = proof[t].kind
           /\ f[t].used <=> proof[t].used \/ t \in S
  BY UseFacts
<1>2. c \in TokenRow /\ c.user = u /\ c.kind = kind /\ c.used = FALSE
  BY DEF A!NoRow, TokenRow
<1>3. proof' = [f EXCEPT ![k] = c] BY DEF A!Add
<1> HIDE DEF f, c
<1> QED BY <1>1, <1>2, <1>3 DEF Added

\* The rows of an updateMany: those of a member of staff of some kinds.
LEMMA UnusedFacts ==
  ASSUME NEW u, NEW kinds
  PROVE  /\ A!Unused(u, kinds) \in SUBSET Tokens
         /\ \A t \in Tokens : t \in A!Unused(u, kinds) <=>
              proof[t].user = u /\ proof[t].kind \in kinds /\ ~proof[t].used
BY DEF A!Unused

LEMMA WornUnique ==
  ASSUME Unique, Worn
  PROVE  Unique'
BY DEF Unique, Worn

\* A new token is the only one of its kind if the others like it are used.
LEMMA AddedUnique ==
  ASSUME Unique, NEW k \in Tokens, NEW u, NEW kind, NEW S, Added(k, u, kind, S),
         \A t \in Tokens \ {k} :
           proof[t].user = u /\ Alike(proof[t].kind, kind) => proof[t].used \/ t \in S
  PROVE  Unique'
<1>1. \A i, j : Alike(i, j) <=> Alike(j, i) BY DEF Alike
<1> SUFFICES ASSUME NEW s \in Tokens, NEW t \in Tokens,
                    ~proof'[s].used, ~proof'[t].used, proof'[s].user = proof'[t].user,
                    Alike(proof'[s].kind, proof'[t].kind)
             PROVE  s = t
  BY DEF Unique, Alike
<1>2. CASE s # k /\ t # k BY <1>2 DEF Unique, Added
<1>3. CASE s = k /\ t # k BY <1>1, <1>3 DEF Added
<1>4. CASE s # k /\ t = k BY <1>1, <1>4 DEF Added
<1> QED BY <1>2, <1>3, <1>4

-----------------------------------------------------------------------------
\* A step of one handler: what has to be shown of it.
LEMMA StaffStep ==
  ASSUME TokensInv, NEW w \in Workers, NEW h \in StaffHandler,
         staffReq' = [staffReq EXCEPT ![w] = h],
         h.pc \in {"use_login", "issue", "first", "set"} => h.token \in Tokens,
         h.pc = "forgot" => h.kind \in {"RESET_OTP", "WELCOME"},
         proof' \in [Tokens -> TokenRow], uses' \in [Tokens -> Nat], Unique',
         staffCalm' =>
           /\ staffCalm
           /\ staffReq[w].pc # "idle" \/ \A v \in Workers : staffReq[v].pc = "idle"
           /\ StaffKnows(w)' /\ OneLogin' /\ SpentOnce'
  PROVE  TokensInv'
<1>1. /\ staffReq'[w] = h
      /\ \A v \in Workers : v # w => staffReq'[v] = staffReq[v]
  BY DEF TokensInv, TokensTypeOK
<1>2. TokensTypeOK' BY <1>1 DEF TokensInv, TokensTypeOK
<1>3. ASSUME staffCalm' PROVE TokensCalm'
  <2>1. TokensCalm BY <1>3 DEF TokensInv
  <2>2. \A v \in Workers : v # w => staffReq'[v].pc = "idle"
    BY <1>1, <1>3, <2>1 DEF TokensCalm
  <2>3. \A v \in Workers : v # w => StaffKnows(v)' BY <2>2 DEF StaffKnows
  <2> QED BY <1>3, <2>2, <2>3 DEF TokensCalm
<1> QED BY <1>2, <1>3 DEF TokensInv

\* A request begins: nothing is written.
LEMMA StaffCalls ==
  ASSUME TokensInv, NEW w \in Workers, NEW h \in StaffHandler, A!Call(w, h),
         UNCHANGED <<proof, uses>>,
         h.pc \in {"use_login", "issue", "first", "set"} =>
           h.token \in Tokens /\ ~proof[h.token].used,
         h.pc = "forgot" => h.kind \in {"RESET_OTP", "WELCOME"},
         h.pc \notin {"create_login", "issue"},
         h.pc = "compare" => \A t \in h.left : ~proof[t].used
  PROVE  TokensInv'
<1>1. staffReq' = [staffReq EXCEPT ![w] = h] BY DEF A!Call
<1>2. staffCalm' => staffCalm /\ \A v \in Workers : staffReq[v].pc = "idle"
  BY DEF A!Call, A!At
<1>3. TokensTypeOK /\ Unique' BY DEF TokensInv, Unique
<1>4. staffCalm' => OneLogin' /\ SpentOnce'
  BY <1>2 DEF TokensInv, TokensCalm, OneLogin, SpentOnce
<1>5. StaffKnows(w)'
  <2>1. staffReq'[w] = h BY <1>1, <1>3 DEF TokensTypeOK
  <2> QED BY <2>1 DEF StaffKnows
<1> QED BY <1>1, <1>2, <1>3, <1>4, <1>5, StaffStep DEF TokensTypeOK

\* A handler goes on; some tokens get used, none of them for what it is good for.
LEMMA StaffGoesOn ==
  ASSUME TokensInv, NEW w \in Workers, NEW h \in StaffHandler,
         staffReq' = [staffReq EXCEPT ![w] = h],
         h.pc \in {"use_login", "issue", "first", "set"} => h.token \in Tokens,
         h.pc = "forgot" => h.kind \in {"RESET_OTP", "WELCOME"},
         staffReq[w].pc # "idle", staffCalm' => staffCalm,
         Worn, UNCHANGED uses, staffCalm' => StaffKnows(w)'
  PROVE  TokensInv'
<1>1. Unique' BY WornUnique DEF TokensInv
<1>2. staffCalm' => OneLogin' /\ SpentOnce'
  <2> SUFFICES ASSUME staffCalm' PROVE OneLogin' /\ SpentOnce'
    OBVIOUS
  <2>1. OneLogin /\ SpentOnce BY DEF TokensInv, TokensCalm
  <2> QED BY <2>1 DEF Worn, OneLogin, SpentOnce
<1>3. uses' \in [Tokens -> Nat] BY DEF TokensInv, TokensTypeOK
<1>4. proof' \in [Tokens -> TokenRow] BY DEF Worn
<1> QED BY <1>1, <1>2, <1>3, <1>4, StaffStep

\* A handler makes a token and returns.
LEMMA StaffMakes ==
  ASSUME TokensInv, NEW w \in Workers, staffReq' = [staffReq EXCEPT ![w] = A!Idle],
         staffReq[w].pc # "idle", staffCalm' => staffCalm, UNCHANGED uses,
         NEW k \in Tokens, proof[k] = A!NoRow, NEW u, NEW kind \in Kinds, NEW S,
         Added(k, u, kind, S),
         \A t \in Tokens \ {k} :
           proof[t].user = u /\ Alike(proof[t].kind, kind) => proof[t].used \/ t \in S,
         staffCalm /\ kind = "LOGIN" =>
           \A t \in Tokens : proof[t].user = u /\ proof[t].kind = "LOGIN" => proof[t].used
  PROVE  TokensInv'
<1>1. Unique' BY AddedUnique DEF TokensInv
<1>2. ~proof[k].used BY DEF A!NoRow
<1>3. ASSUME staffCalm' PROVE OneLogin' /\ SpentOnce'
  <2>1. OneLogin /\ SpentOnce BY <1>3 DEF TokensInv, TokensCalm
  <2>2. SpentOnce' BY <1>2, <2>1 DEF SpentOnce, Added
  <2>3. ASSUME NEW s \in Tokens, NEW t \in Tokens,
               ~proof'[s].used, ~proof'[t].used, proof'[s].user = proof'[t].user,
               proof'[s].kind = "LOGIN", proof'[t].kind = "LOGIN"
        PROVE  s = t
    <3>1. CASE s # k /\ t # k BY <2>1, <2>3, <3>1 DEF OneLogin, Added
    <3>2. CASE s = k /\ t # k BY <1>3, <2>3, <3>2 DEF Added
    <3>3. CASE s # k /\ t = k BY <1>3, <2>3, <3>3 DEF Added
    <3> QED BY <3>1, <3>2, <3>3
  <2> QED BY <2>2, <2>3 DEF OneLogin
<1>4. StaffKnows(w)'
  <2>1. staffReq'[w].pc = "idle" BY StaffIdle DEF TokensInv, TokensTypeOK
  <2> QED BY <2>1 DEF StaffKnows
<1>5. uses' \in [Tokens -> Nat] BY DEF TokensInv, TokensTypeOK
<1>6. proof' \in [Tokens -> TokenRow] BY DEF Added
<1> QED BY <1>1, <1>3, <1>4, <1>5, <1>6, StaffIdle, StaffStep

\* updateMany and create in one transaction.
LEMMA StaffReplaces ==
  ASSUME TokensInv, NEW w \in Workers, staffReq' = [staffReq EXCEPT ![w] = A!Idle],
         staffReq[w].pc # "idle", staffCalm' => staffCalm, UNCHANGED uses,
         NEW k \in Tokens, NEW kind, NEW old,
         A!Replace(staffReq[w].user, old, k, kind),
         \/ kind = "CHANGE" /\ old = {"CHANGE"}
         \/ kind \in {"RESET_OTP", "WELCOME"} /\ old = A!Codes
  PROVE  TokensInv'
<1> DEFINE u == staffReq[w].user
           S == A!Unused(u, old)
<1>1. proof[k] = A!NoRow /\ proof' = A!Add(A!Use(proof, S), k, u, kind)
  BY DEF A!Replace
<1>2. u \in Staff \cup {Nil} BY DEF TokensInv, TokensTypeOK, StaffHandler
<1>3. kind \in Kinds BY DEF Kinds, A!Codes, A!Grants
<1>4. S \in SUBSET Tokens BY UnusedFacts
<1>5. Added(k, u, kind, S) BY <1>1, <1>2, <1>3, <1>4, AddFacts DEF TokensInv
<1>6. ASSUME NEW t \in Tokens, proof[t].user = u, Alike(proof[t].kind, kind), ~proof[t].used
      PROVE  t \in S
  <2>1. proof[t].kind \in old BY <1>6 DEF Alike, A!Codes
  <2> QED BY <1>6, <2>1, UnusedFacts
<1>7. kind # "LOGIN" OBVIOUS
<1> HIDE DEF u, S
<1> QED BY <1>1, <1>3, <1>5, <1>6, <1>7, StaffMakes

\* The row of a token that is used, now for the first time under calm.
LEMMA SpentNow ==
  ASSUME TokensTypeOK, SpentOnce, NEW t \in Tokens, ~proof[t].used, A!Used(t),
         \A s \in Tokens : proof[s].used => proof'[s].used, proof'[t].used
  PROVE  SpentOnce'
BY DEF TokensTypeOK, SpentOnce, A!Used

-----------------------------------------------------------------------------
LEMMA StaffRequests ==
  ASSUME TokensInv, NEW w \in Workers,
         \/ \E u \in Staff :
              \/ A!AddUser(w, u) \/ A!InitiateLogin(w, u) \/ A!ResendLoginOtp(w, u)
              \/ A!ForgotPassword(w, u) \/ A!VerifyOldPassword(w, u)
         \/ \E t \in Tokens :
              A!VerifyLogin(w, t) \/ A!SubmitNewPassword(w, t) \/ A!SubmitPasswordChange(w, t)
         \/ \E given \in Tokens \cup {Nil} : A!ValidateResetOtp(w, given)
  PROVE  TokensInv'
<1>1. proof \in [Tokens -> TokenRow] BY DEF TokensInv, TokensTypeOK
<1>2. ASSUME NEW u \in Staff, NEW pc \in {"invite", "clear_login", "change"},
             A!Call(w, [A!Idle EXCEPT !.pc = pc, !.user = u]), UNCHANGED <<proof, uses>>
      PROVE  TokensInv'
  <2> DEFINE h == [A!Idle EXCEPT !.pc = pc, !.user = u]
  <2>1. h \in StaffHandler /\ h.pc = pc BY DEF A!Idle, StaffHandler
  <2>2. A!Call(w, h) BY <1>2
  <2> HIDE DEF h
  <2> QED BY <1>2, <2>1, <2>2, StaffCalls
<1>3. ASSUME NEW u \in Staff, A!ForgotPassword(w, u) PROVE TokensInv'
  <2> DEFINE h == [A!Idle EXCEPT !.pc = "forgot", !.user = u,
                     !.kind = IF staff[u].password = 0 THEN "WELCOME" ELSE "RESET_OTP"]
  <2>1. h \in StaffHandler /\ h.pc = "forgot" /\ h.kind \in {"RESET_OTP", "WELCOME"}
    BY DEF A!Idle, StaffHandler, Kinds, A!Codes
  <2>2. A!Call(w, h) /\ UNCHANGED <<proof, uses>> BY <1>3 DEF A!ForgotPassword
  <2> HIDE DEF h
  <2> QED BY <2>1, <2>2, StaffCalls
<1>4. ASSUME NEW t \in Tokens, A!VerifyLogin(w, t) PROVE TokensInv'
  <2> DEFINE h == [A!Idle EXCEPT !.pc = "use_login", !.token = t]
  <2>1. h \in StaffHandler /\ h.pc = "use_login" /\ h.token = t
    BY DEF A!Idle, StaffHandler
  <2>2. A!Call(w, h) /\ UNCHANGED <<proof, uses>> /\ ~proof[t].used
    BY <1>4 DEF A!VerifyLogin, A!Live
  <2> HIDE DEF h
  <2> QED BY <2>1, <2>2, StaffCalls
<1>5. ASSUME NEW t \in Tokens, A!SubmitNewPassword(w, t) PROVE TokensInv'
  <2> DEFINE h == [A!Idle EXCEPT !.pc = "first", !.user = proof[t].user, !.token = t]
  <2>1. proof[t].user \in Staff \cup {Nil} BY <1>1 DEF TokenRow
  <2>2. h \in StaffHandler /\ h.pc = "first" /\ h.token = t
    BY <2>1 DEF A!Idle, StaffHandler
  <2>3. A!Call(w, h) /\ UNCHANGED <<proof, uses>> /\ ~proof[t].used
    BY <1>5 DEF A!SubmitNewPassword, A!Live
  <2> HIDE DEF h
  <2> QED BY <2>2, <2>3, StaffCalls
<1>6. ASSUME NEW t \in Tokens, A!SubmitPasswordChange(w, t) PROVE TokensInv'
  <2> DEFINE h == [A!Idle EXCEPT !.pc = "set", !.user = proof[t].user, !.token = t,
                                 !.kind = "CHANGE"]
  <2>1. proof[t].user \in Staff \cup {Nil} BY <1>1 DEF TokenRow
  <2>2. h \in StaffHandler /\ h.pc = "set" /\ h.token = t
    BY <2>1 DEF A!Idle, StaffHandler, Kinds, A!Grants
  <2>3. A!Call(w, h) /\ UNCHANGED <<proof, uses>> /\ ~proof[t].used
    BY <1>6 DEF A!SubmitPasswordChange, A!Live
  <2> HIDE DEF h
  <2> QED BY <2>2, <2>3, StaffCalls
<1>7. ASSUME NEW given \in Tokens \cup {Nil}, A!ValidateResetOtp(w, given) PROVE TokensInv'
  <2> DEFINE live == {t \in Tokens : proof[t].kind \in A!Codes /\ A!Live(t)}
             a == IF given \in live THEN proof[given].attempts ELSE 0
             h == [A!Idle EXCEPT !.pc = "compare", !.token = given, !.left = live,
                                 !.attempts = a]
  <2>1. a \in Nat BY <1>1 DEF TokenRow
  <2>2. live \in SUBSET Tokens /\ \A t \in live : ~proof[t].used BY DEF A!Live
  <2>3. A!Call(w, h) /\ UNCHANGED <<proof, uses>> BY <1>7 DEF A!ValidateResetOtp
  <2> HIDE DEF live, a
  <2>4. h \in StaffHandler /\ h.pc = "compare" /\ h.left = live
    BY <2>1, <2>2 DEF A!Idle, StaffHandler
  <2> HIDE DEF h
  <2> QED BY <2>2, <2>3, <2>4, StaffCalls
<1> QED BY <1>2, <1>3, <1>4, <1>5, <1>6, <1>7
  DEF A!AddUser, A!InitiateLogin, A!ResendLoginOtp, A!VerifyOldPassword

LEMMA StaffRows ==
  ASSUME TokensInv
  PROVE  /\ UNCHANGED proof => Worn
         /\ \A S \in SUBSET Tokens : proof' = A!Use(proof, S) => Worn
         /\ \A t \in Tokens : A!Attempt(t) =>
              Worn /\ \A s \in Tokens : proof'[s].used = proof[s].used
<1>1. proof \in [Tokens -> TokenRow] /\ TokensTypeOK BY DEF TokensInv, TokensTypeOK
<1>2. UNCHANGED proof => Worn BY <1>1 DEF Worn
<1>3. ASSUME NEW S \in SUBSET Tokens, proof' = A!Use(proof, S) PROVE Worn
  BY <1>1, <1>3, UseFacts DEF Worn
<1>4. ASSUME NEW t \in Tokens, A!Attempt(t)
      PROVE  Worn /\ \A s \in Tokens : proof'[s].used = proof[s].used
  <2> DEFINE c == [proof[t] EXCEPT !.attempts = proof[t].attempts + 1]
  <2>1. proof[t] \in TokenRow BY <1>1
  <2>2. /\ c \in TokenRow /\ c.user = proof[t].user /\ c.kind = proof[t].kind
        /\ c.used = proof[t].used
    BY <2>1 DEF TokenRow
  <2>3. proof' = [proof EXCEPT ![t] = c] BY <1>4 DEF A!Attempt
  <2> HIDE DEF c
  <2> QED BY <1>1, <2>2, <2>3 DEF Worn
<1> QED BY <1>2, <1>3, <1>4

LEMMA StaffReturns ==
  ASSUME TokensInv, NEW w \in Workers, staffReq[w].pc # "idle", A!Return(w), Worn,
         UNCHANGED uses, staffCalm' => staffCalm
  PROVE  TokensInv'
<1>1. staffReq' = [staffReq EXCEPT ![w] = A!Idle] BY DEF A!Return
<1>2. staffReq'[w].pc = "idle" BY <1>1, StaffIdle DEF TokensInv, TokensTypeOK
<1>3. StaffKnows(w)' BY <1>2 DEF StaffKnows
<1> QED BY <1>1, <1>3, StaffIdle, StaffGoesOn

LEMMA StaffLogin ==
  ASSUME TokensInv, NEW w \in Workers,
         A!ClearLogin(w) \/ \E t \in Tokens : A!CreateLogin(w, t)
  PROVE  TokensInv'
<1>1. TokensTypeOK /\ staffReq[w] \in StaffHandler /\ staffReq[w].user \in Staff \cup {Nil}
  BY DEF TokensInv, TokensTypeOK, StaffHandler
<1> DEFINE u == staffReq[w].user
<1>2. CASE A!ClearLogin(w)
  <2> DEFINE h == [staffReq[w] EXCEPT !.pc = "create_login"]
             S == A!Unused(u, {"LOGIN"})
  <2>1. h \in StaffHandler /\ h.pc = "create_login" /\ h.user = u
    BY <1>1 DEF StaffHandler
  <2>2. staffReq' = [staffReq EXCEPT ![w] = h] /\ staffReq[w].pc # "idle"
    BY <1>2 DEF A!ClearLogin, A!Goto, A!At
  <2>3. proof' = A!Use(proof, S) /\ S \in SUBSET Tokens /\ UNCHANGED <<uses, staffCalm>>
    BY <1>2, UnusedFacts DEF A!ClearLogin
  <2>4. Worn BY <2>3, StaffRows
  <2>5. \A t \in Tokens : proof'[t].user = u /\ proof'[t].kind = "LOGIN" => proof'[t].used
    BY <1>1, <2>3, UseFacts, UnusedFacts
  <2> HIDE DEF h, u
  <2>6. StaffKnows(w)'
    <3>1. staffReq'[w] = h BY <1>1, <2>2 DEF TokensTypeOK
    <3> QED BY <2>1, <2>5, <3>1 DEF StaffKnows
  <2> QED BY <2>1, <2>2, <2>3, <2>4, <2>6, StaffGoesOn
<1>3. ASSUME NEW t \in Tokens, A!CreateLogin(w, t) PROVE TokensInv'
  <2>1. /\ staffReq' = [staffReq EXCEPT ![w] = A!Idle] /\ staffReq[w].pc = "create_login"
        /\ UNCHANGED <<uses, staffCalm>> /\ proof[t] = A!NoRow
        /\ proof' = A!Add(proof, t, u, "LOGIN")
    BY <1>3 DEF A!CreateLogin, A!Return, A!At
  <2>2. A!Use(proof, {}) = proof
    BY <1>1 DEF A!Use, TokensTypeOK
  <2>3. "LOGIN" \in Kinds BY DEF Kinds, A!Codes
  <2>4. Added(t, u, "LOGIN", {}) BY <1>1, <2>1, <2>2, <2>3, AddFacts
  <2>5. \A j : ~Alike(j, "LOGIN") BY DEF Alike
  <2>6. staffCalm =>
          \A s \in Tokens : proof[s].user = u /\ proof[s].kind = "LOGIN" => proof[s].used
    BY <2>1 DEF TokensInv, TokensCalm, StaffKnows
  <2> HIDE DEF u
  <2> QED BY <2>1, <2>3, <2>4, <2>5, <2>6, StaffMakes
<1> QED BY <1>2, <1>3

LEMMA StaffCompares ==
  ASSUME TokensInv, NEW w \in Workers, NEW t \in Tokens, A!Compare(w, t)
  PROVE  TokensInv'
<1> DEFINE h == staffReq[w]
<1>1. TokensTypeOK /\ h \in StaffHandler BY DEF TokensInv, TokensTypeOK
<1>2. h.pc = "compare" /\ t \in h.left /\ UNCHANGED <<uses, staffCalm>>
  BY DEF A!Compare, A!At
<1>3. staffCalm => \A s \in h.left : ~proof[s].used
  BY <1>2 DEF TokensInv, TokensCalm, StaffKnows
<1>4. CASE t # h.token
  <2> DEFINE k == [h EXCEPT !.left = h.left \ {t}]
  <2>1. k \in StaffHandler /\ k.pc = "compare" /\ k.left = h.left \ {t}
    BY <1>1, <1>2 DEF StaffHandler
  <2>2. staffReq' = [staffReq EXCEPT ![w] = k] /\ A!Attempt(t) BY <1>4 DEF A!Compare
  <2>3. Worn /\ \A s \in Tokens : proof'[s].used = proof[s].used BY <2>2, StaffRows
  <2>4. h.left \in SUBSET Tokens BY <1>1 DEF StaffHandler
  <2> HIDE DEF h, k
  <2>5. staffCalm => StaffKnows(w)'
    <3>1. staffReq'[w] = k BY <1>1, <2>2 DEF TokensTypeOK
    <3> QED BY <1>3, <2>1, <2>3, <2>4, <3>1 DEF StaffKnows
  <2> QED BY <1>2, <2>1, <2>2, <2>3, <2>5, StaffGoesOn DEF h
<1>5. CASE t = h.token /\ h.attempts >= MaxAttempts
  <2>1. proof' = A!Use(proof, {t}) /\ A!Return(w) BY <1>5 DEF A!Compare
  <2>2. Worn BY <2>1, StaffRows
  <2> QED BY <1>2, <2>1, <2>2, StaffReturns
<1>6. CASE t = h.token /\ ~(h.attempts >= MaxAttempts)
  <2>1. UNCHANGED proof BY <1>6 DEF A!Compare
  <2>2. Worn BY <2>1, StaffRows
  <2>3. CASE A!Return(w) BY <1>2, <2>2, <2>3, StaffReturns
  <2>4. CASE proof[t].kind = "RESET_OTP" /\ A!Goto(w, "issue")
    <3> DEFINE k == [h EXCEPT !.pc = "issue"]
    <3>1. k \in StaffHandler /\ k.pc = "issue" /\ k.token = t
      BY <1>1, <1>6 DEF StaffHandler
    <3>2. staffReq' = [staffReq EXCEPT ![w] = k] BY <2>4 DEF A!Goto
    <3> HIDE DEF h, k
    <3>3. staffCalm => StaffKnows(w)'
      <4>1. staffReq'[w] = k BY <1>1, <3>2 DEF TokensTypeOK
      <4> QED BY <1>2, <1>3, <2>1, <2>4, <3>1, <4>1 DEF StaffKnows
    <3> QED BY <1>2, <2>2, <3>1, <3>2, <3>3, StaffGoesOn DEF h
  <2> QED BY <1>6, <2>3, <2>4 DEF A!Compare
<1> QED BY <1>4, <1>5, <1>6

\* What a token is good for: a session, a reset token, a password.
LEMMA StaffSpends ==
  ASSUME TokensInv, NEW w \in Workers,
         A!UseLogin(w) \/ A!SetPassword(w) \/ \E k \in Tokens : A!Issue(w, k)
  PROVE  TokensInv'
<1> DEFINE t == staffReq[w].token
<1>1. TokensTypeOK /\ staffReq[w] \in StaffHandler BY DEF TokensInv, TokensTypeOK
<1>2. /\ staffReq[w].pc \in {"use_login", "issue", "set"} /\ A!Used(t)
      /\ staffReq' = [staffReq EXCEPT ![w] = A!Idle] /\ UNCHANGED staffCalm
  BY DEF A!UseLogin, A!SetPassword, A!Issue, A!At, A!Return
<1>3. t \in Tokens BY <1>2 DEF TokensInv, TokensTypeOK
<1>4. staffCalm => ~proof[t].used BY <1>2 DEF TokensInv, TokensCalm, StaffKnows
<1>5. uses' \in [Tokens -> Nat] BY <1>1, <1>2, <1>3 DEF A!Used, TokensTypeOK
<1>6. StaffKnows(w)'
  <2>1. staffReq'[w].pc = "idle" BY <1>1, <1>2, StaffIdle DEF TokensTypeOK
  <2> QED BY <2>1 DEF StaffKnows
<1> HIDE DEF t
<1>7. ASSUME NEW S \in SUBSET Tokens, t \in S, proof' = A!Use(proof, S) PROVE TokensInv'
  <2>1. Worn BY <1>7, StaffRows
  <2>2. proof'[t].used BY <1>1, <1>3, <1>7, UseFacts
  <2>3. Unique' BY <2>1, WornUnique DEF TokensInv
  <2>4. staffCalm' => OneLogin'
    BY <1>2, <2>1 DEF TokensInv, TokensCalm, Worn, OneLogin
  <2>5. staffCalm' => SpentOnce'
    BY <1>1, <1>2, <1>3, <1>4, <2>1, <2>2, SpentNow DEF TokensInv, TokensCalm, Worn
  <2> QED BY <1>2, <1>5, <1>6, <2>1, <2>3, <2>4, <2>5, StaffIdle, StaffStep DEF Worn
<1>8. CASE A!UseLogin(w)
  BY <1>3, <1>7, <1>8 DEF A!UseLogin, t
<1>9. CASE A!SetPassword(w)
  <2>1. PICK S : S = {t} \cup A!Unused(staffReq[w].user,
            IF staffReq[w].kind = "CHANGE" THEN {"CHANGE"} ELSE A!Grants)
    OBVIOUS
  <2>2. S \in SUBSET Tokens /\ t \in S BY <1>3, <2>1, UnusedFacts
  <2>3. proof' = A!Use(proof, S) BY <1>9, <2>1 DEF A!SetPassword, t
  <2> QED BY <1>7, <2>2, <2>3
<1>10. ASSUME NEW k \in Tokens, A!Issue(w, k) PROVE TokensInv'
  <2> DEFINE u == proof[t].user
             S == {t} \cup A!Unused(u, A!Grants)
  <2>1. proof[k] = A!NoRow /\ proof' = A!Add(A!Use(proof, S), k, u, "RESET")
    BY <1>10 DEF A!Issue, t
  <2>2. S \in SUBSET Tokens /\ u \in Staff \cup {Nil}
    BY <1>1, <1>3, UnusedFacts DEF TokensTypeOK, TokenRow
  <2>3. "RESET" \in Kinds BY DEF Kinds, A!Grants
  <2>4. Added(k, u, "RESET", S) BY <1>1, <2>1, <2>2, <2>3, AddFacts
  <2>5. ASSUME NEW s \in Tokens, proof[s].user = u, Alike(proof[s].kind, "RESET")
        PROVE  proof[s].used \/ s \in S
    <3>1. proof[s].kind \in A!Grants BY <2>5 DEF Alike, A!Grants
    <3> QED BY <2>5, <3>1, UnusedFacts
  <2>6. t \in S OBVIOUS
  <2> HIDE DEF u, S
  <2>7. Unique' BY <2>4, <2>5, AddedUnique DEF TokensInv
  <2>8. ASSUME staffCalm' PROVE OneLogin' /\ SpentOnce'
    <3>1. OneLogin /\ SpentOnce /\ ~proof[t].used
      BY <1>2, <1>4, <2>8 DEF TokensInv, TokensCalm
    <3>2. ~proof[k].used BY <2>1 DEF A!NoRow
    <3>3. \A s \in Tokens : proof'[s].kind = "LOGIN" => s # k BY <2>4 DEF Added
    <3>4. OneLogin' BY <2>4, <3>1, <3>3 DEF OneLogin, Added
    <3>5. ASSUME k # t PROVE SpentOnce'
      BY <1>1, <1>2, <1>3, <2>4, <2>6, <3>1, <3>2, <3>5, SpentNow DEF Added
    <3>6. k # t
      <4>1. staffReq[w].pc = "issue" BY <1>10 DEF A!Issue, A!At
      <4>2. staffCalm BY <1>2, <2>8
      <4>3. proof[t].kind # "NONE"
        BY <4>1, <4>2 DEF TokensInv, TokensCalm, StaffKnows, t
      <4> QED BY <2>1, <4>3 DEF A!NoRow
    <3> QED BY <3>4, <3>5, <3>6
  <2>9. proof' \in [Tokens -> TokenRow] BY <2>4 DEF Added
  <2> QED BY <1>2, <1>5, <1>6, <2>7, <2>8, <2>9, StaffIdle, StaffStep
<1> QED BY <1>8, <1>9, <1>10

\* ReadUser keeps the token; NoMatch and a failure only return.
LEMMA StaffReads ==
  ASSUME TokensInv, NEW w \in Workers, A!ReadUser(w) \/ A!NoMatch(w) \/ A!StepFails(w)
  PROVE  TokensInv'
<1>1. TokensTypeOK /\ staffReq[w] \in StaffHandler BY DEF TokensInv, TokensTypeOK
<1>2. Worn /\ UNCHANGED uses
  BY StaffRows DEF A!ReadUser, A!NoMatch, A!StepFails
<1>3. CASE A!NoMatch(w) \/ A!StepFails(w)
  <2>1. staffReq[w].pc # "idle" /\ A!Return(w) /\ (staffCalm' => staffCalm)
    BY <1>3 DEF A!NoMatch, A!StepFails, A!At
  <2> QED BY <1>2, <2>1, StaffReturns
<1>4. CASE A!ReadUser(w)
  <2> DEFINE b == staff[staffReq[w].user].password = 0
             k == [staffReq[w] EXCEPT !.pc = "set", !.first = (b)]
  <2>1. /\ staffReq[w].pc = "first" /\ UNCHANGED <<proof, staffCalm>>
        /\ staffReq' = [staffReq EXCEPT ![w] = k]
    BY <1>4 DEF A!ReadUser, A!At
  <2> HIDE DEF b
  <2>2. /\ k.pc = "set" /\ k.token = staffReq[w].token /\ k.user = staffReq[w].user
        /\ k.kind = staffReq[w].kind /\ k.left = staffReq[w].left
        /\ k.attempts = staffReq[w].attempts
    BY <1>1 DEF StaffHandler
  <2>3. k \in StaffHandler
    <3>1. b \in BOOLEAN BY DEF b
    <3> QED BY <1>1, <3>1 DEF StaffHandler
  <2>4. k.token \in Tokens BY <1>1, <2>1, <2>2 DEF TokensTypeOK
  <2> HIDE DEF k
  <2>5. staffCalm => StaffKnows(w)'
    <3>1. staffReq'[w] = k BY <1>1, <2>1 DEF TokensTypeOK
    <3> QED BY <2>1, <2>2, <3>1 DEF TokensInv, TokensCalm, StaffKnows
  <2> QED BY <1>2, <2>1, <2>2, <2>3, <2>4, <2>5, StaffGoesOn
<1> QED BY <1>3, <1>4

LEMMA StaffAnswers ==
  ASSUME TokensInv, NEW w \in Workers, NEW k \in Tokens,
         A!Invite(w, k) \/ A!Forgot(w, k) \/ A!IssueChange(w, k)
  PROVE  TokensInv'
<1> DEFINE u == staffReq[w].user
<1>1. /\ staffReq[w].pc # "idle" /\ UNCHANGED <<uses, staffCalm>> /\ A!Return(w)
      /\ staffReq' = [staffReq EXCEPT ![w] = A!Idle]
  BY DEF A!Invite, A!Forgot, A!IssueChange, A!At, A!Return
<1>2. CASE A!Replace(u, A!Codes, k, "RESET_OTP") BY <1>1, <1>2, StaffReplaces
<1>3. CASE A!Replace(u, {"CHANGE"}, k, "CHANGE") BY <1>1, <1>3, StaffReplaces
<1>4. CASE UNCHANGED proof BY <1>1, <1>4, StaffRows, StaffReturns
<1>5. CASE A!Forgot(w, k)
  <2>1. A!Replace(u, A!Codes, k, staffReq[w].kind) /\ staffReq[w].pc = "forgot"
    BY <1>5 DEF A!Forgot, A!At
  <2>2. staffReq[w].kind \in {"RESET_OTP", "WELCOME"} BY <2>1 DEF TokensInv, TokensTypeOK
  <2> QED BY <1>1, <2>1, <2>2, StaffReplaces
<1> QED BY <1>2, <1>3, <1>4, <1>5 DEF A!Invite, A!IssueChange

\* A step of no handler.
LEMMA StaffRests ==
  ASSUME TokensInv, UNCHANGED <<staffReq, uses, staffCalm>>, Worn,
         \A t \in Tokens : proof'[t].used = proof[t].used
  PROVE  TokensInv'
<1>1. TokensTypeOK' /\ Unique' BY WornUnique DEF TokensInv, TokensTypeOK, Worn
<1>2. ASSUME staffCalm' PROVE TokensCalm'
  <2>1. TokensCalm BY <1>2 DEF TokensInv
  <2>2. OneLogin' /\ SpentOnce' BY <2>1 DEF TokensCalm, OneLogin, SpentOnce, Worn
  <2>3. ASSUME NEW w \in Workers PROVE StaffKnows(w)'
    <3>1. StaffKnows(w) BY <2>1 DEF TokensCalm
    <3>2. staffReq[w].left \subseteq Tokens BY DEF TokensInv, TokensTypeOK, StaffHandler
    <3>3. staffReq[w].pc \in {"use_login", "issue", "first", "set"} => staffReq[w].token \in Tokens
      BY DEF TokensInv, TokensTypeOK
    <3> QED BY <3>1, <3>2, <3>3 DEF StaffKnows, Worn
  <2> QED BY <2>1, <2>2, <2>3 DEF TokensCalm
<1> QED BY <1>1, <1>2 DEF TokensInv

LEMMA TokensNext ==
  TokensInv /\ [A!Next]_(A!vars) => TokensInv'
<1> SUFFICES ASSUME TokensInv, [A!Next]_(A!vars) PROVE TokensInv'
  OBVIOUS
<1>1. ASSUME UNCHANGED A!vars PROVE TokensInv'
  BY <1>1, StaffRests, StaffRows DEF A!vars
<1>2. ASSUME NEW t \in Tokens, A!Age(t) PROVE TokensInv'
  <2> DEFINE a == IF proof[t].age = "new" THEN "live" ELSE "expired"
             c == [proof[t] EXCEPT !.age = a]
  <2>1. proof \in [Tokens -> TokenRow] /\ proof[t] \in TokenRow
    BY DEF TokensInv, TokensTypeOK
  <2>2. proof' = [proof EXCEPT ![t] = c] /\ UNCHANGED <<staffReq, uses, staffCalm>>
    BY <1>2 DEF A!Age
  <2>3. a \in {"new", "live", "expired"} OBVIOUS
  <2> HIDE DEF a
  <2>4. /\ c \in TokenRow /\ c.user = proof[t].user /\ c.kind = proof[t].kind
        /\ c.used = proof[t].used
    BY <2>1, <2>3 DEF TokenRow
  <2> HIDE DEF c
  <2>5. Worn /\ \A s \in Tokens : proof'[s].used = proof[s].used
    BY <2>1, <2>2, <2>4 DEF Worn
  <2> QED BY <2>2, <2>5, StaffRests
<1>3. CASE (\E u \in Staff, b \in BOOLEAN : A!SetActive(u, b)) \/ A!Rest
  <2>1. UNCHANGED <<proof, staffReq, uses, staffCalm>>
    BY <1>3 DEF A!SetActive, A!Rest, A!vars
  <2> QED BY <2>1, StaffRests, StaffRows
<1>4. ASSUME NEW w \in Workers, NEW u \in Staff,
             \/ A!AddUser(w, u) \/ A!InitiateLogin(w, u) \/ A!ResendLoginOtp(w, u)
             \/ A!ForgotPassword(w, u) \/ A!VerifyOldPassword(w, u)
      PROVE  TokensInv'
  BY <1>4, StaffRequests
<1>5. ASSUME NEW w \in Workers, NEW t \in Tokens,
             \/ A!Invite(w, t) \/ A!CreateLogin(w, t) \/ A!VerifyLogin(w, t)
             \/ A!Forgot(w, t) \/ A!Compare(w, t) \/ A!Issue(w, t) \/ A!SubmitNewPassword(w, t)
             \/ A!IssueChange(w, t) \/ A!SubmitPasswordChange(w, t)
      PROVE  TokensInv'
  BY <1>5, StaffRequests, StaffAnswers, StaffLogin, StaffCompares, StaffSpends
<1>6. ASSUME NEW w \in Workers, NEW given \in Tokens \cup {Nil}, A!ValidateResetOtp(w, given)
      PROVE  TokensInv'
  BY <1>6, StaffRequests
<1>7. ASSUME NEW w \in Workers,
             \/ A!ClearLogin(w) \/ A!UseLogin(w) \/ A!NoMatch(w) \/ A!ReadUser(w)
             \/ A!SetPassword(w) \/ A!StepFails(w)
      PROVE  TokensInv'
  BY <1>7, StaffLogin, StaffSpends, StaffReads
<1> QED BY <1>1, <1>2, <1>3, <1>4, <1>5, <1>6, <1>7 DEF A!Next

\* What every behaviour of the tokens of staff keeps.
THEOREM StaffTokensInvariant == A!Spec => []TokensInv
BY TokensInit, TokensNext, PTL DEF A!Spec

\* OneOfAKind for any staff, tokens and requests: whatever requests overlap or
\* fail, of the tokens of each kind one member of staff has at most one unused.
THEOREM OneTokenEach == A!Spec => []OneOfAKind
<1>1. TokensInv => OneOfAKind
  <2> SUFFICES ASSUME TokensInv, NEW u \in Staff
               PROVE  /\ \A kinds \in {{"RESET"}, {"CHANGE"}, {"RESET_OTP", "WELCOME"}} :
                           A!OneOf(A!Unused(u, kinds))
                      /\ staffCalm => A!OneOf(A!Unused(u, {"LOGIN"}))
    BY DEF OneOfAKind, A!OneOfAKind
  <2>1. ASSUME NEW kinds \in {{"RESET"}, {"CHANGE"}, {"RESET_OTP", "WELCOME"}}
        PROVE  A!OneOf(A!Unused(u, kinds))
    BY <2>1 DEF A!OneOf, A!Unused, TokensInv, Unique, Alike
  <2>2. ASSUME staffCalm PROVE A!OneOf(A!Unused(u, {"LOGIN"}))
    BY <2>2 DEF A!OneOf, A!Unused, TokensInv, TokensCalm, OneLogin
  <2> QED BY <2>1, <2>2
<1> QED BY <1>1, StaffTokensInvariant, PTL

\* UsedOnce for any staff, tokens and requests: a token that is good for one
\* thing is used with it, and stays so.
THEOREM EachIsSpentOnce == A!Spec => []UsedOnce
<1>1. TokensInv => UsedOnce
  BY DEF UsedOnce, A!UsedOnce, TokensInv, TokensCalm, SpentOnce
<1> QED BY <1>1, StaffTokensInvariant, PTL

-----------------------------------------------------------------------------
(* The whole                                                               *)

\* A step of BackOffice is one of the part that focus names, and the others
\* stutter: it implements each of the four.
THEOREM BackOfficeImplements == BackOfficeSpec => Spec /\ A!Spec /\ R!Spec /\ K!Spec
<1>1. BackOfficeInit => Init /\ A!Init /\ R!Init /\ K!Init
  BY DEF BackOfficeInit
<1>2. ASSUME [BackOfficeNext]_<<focus, vars, staffVars, roleVars, ticketVars>>
      PROVE  [Next]_vars /\ [A!Next]_(A!vars) /\ [R!Next]_(R!vars) /\ [K!Next]_(K!vars)
  <2>1. UNCHANGED staffVars => UNCHANGED A!vars BY DEF staffVars, A!vars
  <2>2. UNCHANGED roleVars => UNCHANGED R!vars BY DEF roleVars, R!vars
  <2>3. UNCHANGED ticketVars => UNCHANGED K!vars BY DEF ticketVars, K!vars
  <2> QED BY <1>2, <2>1, <2>2, <2>3 DEF BackOfficeNext
<1> QED BY <1>1, <1>2, PTL DEF BackOfficeSpec, Spec, A!Spec, R!Spec, K!Spec

\* What the run of BackOffice checks, of the whole and for any tables that agree:
\* the requests, the tokens of staff, their roles and their tickets.
THEOREM BackOfficeKeeps ==
  Tables => (BackOfficeSpec =>
    [](GuardsHold /\ ReachesItsHandler /\ TablesAgree /\ OneOfAKind /\ UsedOnce /\
       GrantsAgree /\ ThreadTellsStatus))
<1> SUFFICES ASSUME Tables
             PROVE  BackOfficeSpec =>
                      [](GuardsHold /\ ReachesItsHandler /\ TablesAgree /\ OneOfAKind /\
                         UsedOnce /\ GrantsAgree /\ ThreadTellsStatus)
  OBVIOUS
<1>1. Spec => []ReachesItsHandler
  BY RoutesAreReached DEF Tables
<1>2. Spec => []TablesAgree
  BY FilesAgree
<1> QED
  BY <1>1, <1>2, BackOfficeImplements, HandlersAreGuarded, OneTokenEach, EachIsSpentOnce,
     GrantsFollowRoles, ThreadsTell, PTL
=============================================================================
