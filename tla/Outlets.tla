------------------------------- MODULE Outlets --------------------------------
(***************************************************************************)
(* Branches, pickup stations and the agents of branches, as staff create   *)
(* and change them.  Names and e-mails are taken up to case, as the checks *)
(* compare them; status, address and approval decide nothing here.         *)
(***************************************************************************)
EXTENDS Naturals

CONSTANTS
  Places,    \* Branch and PickupStation ids: a bound on the rows
  Agents,    \* Agent ids: a bound on the rows
  Names,     \* of branches and stations, up to case
  Emails,    \* of branches and stations, up to case
  Mailboxes, \* the e-mails of agents
  Phones,    \* of agents
  Workers,   \* requests in flight at the same time
  MaxCalls,  \* a bound on the requests
  Nil,       \* no row, name, e-mail or phone
  MayFail    \* whether a statement may fail or the process die

VARIABLES
  place,  \* Branch and PickupStation rows
  agent,  \* Agent rows
  req,    \* the handlers in flight
  calls,  \* history: requests so far
  asked,  \* history: the branch and agent of the last request, a createBranch, or nothing
  calm    \* history: no request has met another one, or failed

vars == <<place, agent, req, calls, asked, calm>>

NoPlace == [kind |-> "NONE", name |-> Nil, email |-> Nil]
NoAgent == [email |-> Nil, phone |-> Nil, branch |-> Nil]
Idle == [pc |-> "idle", kind |-> "NONE", id |-> Nil, name |-> Nil, email |-> Nil,
         clear |-> FALSE, agent |-> NoAgent, found |-> Nil]

Init ==
  /\ place = [p \in Places |-> NoPlace]
  /\ agent = [g \in Agents |-> NoAgent]
  /\ req = [w \in Workers |-> Idle]
  /\ calls = 0
  /\ asked = NoAgent
  /\ calm = TRUE

Kind(k) == {p \in Places : place[p].kind = k}
Hired == {g \in Agents : agent[g] # NoAgent}
At(w, pc) == req[w].pc = pc
Goto(w, pc) == req' = [req EXCEPT ![w].pc = pc]
Return(w) == req' = [req EXCEPT ![w] = Idle]
Quiet == \A w \in Workers : At(w, "idle")
Call(w, h) ==
  /\ At(w, "idle")
  /\ calls < MaxCalls /\ calls' = calls + 1
  /\ req' = [req EXCEPT ![w] = h]
  /\ asked' = NoAgent
  /\ calm' = (calm /\ Quiet)

-----------------------------------------------------------------------------
(* createBranch, createPickupStation, updateBranch, updatePickupStation    *)

\* A request gives an agent of a new branch by e-mail, phone or both.
CreatePlace(w, kind, name, email, a) ==
  /\ kind = "station" => email # Nil /\ a = NoAgent
  /\ Call(w, [Idle EXCEPT !.pc = "name", !.kind = kind, !.name = name, !.email = email, !.agent = a])
  /\ UNCHANGED <<place, agent>>

\* A name that the row has already is not looked up and not written; null clears
\* the e-mail of a branch.
UpdatePlace(w, p, name, email, clear) ==
  /\ place[p] # NoPlace /\ (name # Nil \/ email # Nil \/ clear)
  /\ clear => email = Nil /\ place[p].kind = "branch"
  /\ Call(w, [Idle EXCEPT !.pc = IF name \in {Nil, place[p].name} THEN "email" ELSE "name",
                          !.kind = place[p].kind, !.id = p, !.email = email, !.clear = clear,
                          !.name = IF name = place[p].name THEN Nil ELSE name])
  /\ UNCHANGED <<place, agent>>

ReadName(w) ==
  LET h == req[w] IN
  /\ At(w, "name")
  /\ IF \E p \in Kind(h.kind) \ {h.id} : place[p].name = h.name THEN Return(w) ELSE Goto(w, "email")
  /\ UNCHANGED <<place, agent, calls, asked, calm>>

ReadEmail(w) ==
  LET h == req[w] IN
  /\ At(w, "email")
  /\ IF h.email # Nil /\ \E p \in Kind(h.kind) \ {h.id} : place[p].email = h.email THEN Return(w)
     ELSE Goto(w, IF h.id = Nil THEN "insert" ELSE "write")
  /\ UNCHANGED <<place, agent, calls, asked, calm>>

\* No index stops a second name: two branches of no franchise are distinct to it.
Insert(w, p) ==
  LET h == req[w] IN
  /\ At(w, "insert")
  /\ place[p] = NoPlace
  /\ place' = [place EXCEPT ![p] = [kind |-> h.kind, name |-> h.name, email |-> h.email]]
  /\ IF h.agent = NoAgent THEN Return(w) /\ UNCHANGED asked
     ELSE /\ req' = [req EXCEPT ![w] = [h EXCEPT !.pc = "find", !.id = p]]
          /\ asked' = [h.agent EXCEPT !.branch = p]
  /\ UNCHANGED <<agent, calls, calm>>

Write(w) ==
  LET h == req[w] IN
  /\ At(w, "write")
  /\ Return(w)
  /\ IF place[h.id] = NoPlace THEN calm' = FALSE /\ UNCHANGED place
     ELSE /\ place' = [place EXCEPT ![h.id] =
               [place[h.id] EXCEPT !.name = IF h.name = Nil THEN @ ELSE h.name,
                                   !.email = IF h.email # Nil \/ h.clear THEN h.email ELSE @]]
          /\ UNCHANGED calm
  /\ UNCHANGED <<agent, calls, asked>>

DeleteStation(w, p) ==
  /\ p \in Kind("station")
  /\ Call(w, Idle)
  /\ place' = [place EXCEPT ![p] = NoPlace]
  /\ UNCHANGED agent

-----------------------------------------------------------------------------
(* The agent of a new branch                                               *)

\* Mutant: an agent is known by e-mail only.
FindByEmail(w) ==
  LET h == req[w]
      found == {g \in Hired : h.agent.email # Nil /\ agent[g].email = h.agent.email}
  IN
  /\ At(w, "find")
  /\ IF found = {} THEN Goto(w, "hire")
     ELSE \E g \in found :
            req' = [req EXCEPT ![w] = [h EXCEPT !.pc = "move", !.found = g]]
  /\ UNCHANGED <<place, agent, calls, asked, calm>>
\* findFirst names no order: any row that has the e-mail or the phone.
FindAgent(w) ==
  LET h == req[w]
      found == {g \in Hired : \/ h.agent.email # Nil /\ agent[g].email = h.agent.email
                              \/ h.agent.phone # Nil /\ agent[g].phone = h.agent.phone}
  IN
  /\ At(w, "find")
  /\ IF found = {} THEN Goto(w, "hire")
     ELSE \E g \in found :
            req' = [req EXCEPT ![w] = [h EXCEPT !.pc = "move", !.found = g]]
  /\ UNCHANGED <<place, agent, calls, asked, calm>>

\* Whatever branch the agent had.
MoveAgent(w) ==
  LET h == req[w] IN
  /\ At(w, "move")
  /\ agent' = [agent EXCEPT ![h.found].branch = h.id]
  /\ Return(w)
  /\ UNCHANGED <<place, calls, asked, calm>>

\* A row needs an e-mail and a phone, each its own.
MayBe(g, email, phone) ==
  /\ email # Nil /\ phone # Nil
  /\ \A o \in Hired \ {g} : agent[o].email # email /\ agent[o].phone # phone

\* When the row cannot be, the branch stays without it and the request succeeds.
HireAgent(w, g) ==
  LET h == req[w] IN
  /\ At(w, "hire")
  /\ g \notin Hired
  /\ Return(w)
  /\ agent' = IF MayBe(g, h.agent.email, h.agent.phone)
              THEN [agent EXCEPT ![g] = [h.agent EXCEPT !.branch = h.id]] ELSE agent
  /\ UNCHANGED <<place, calls, asked, calm>>

-----------------------------------------------------------------------------
(* Agents of their own: create, update, addAgentsToBranch                  *)

\* The checks before it refuse what the indexes would: the row is the only write.
CreateAgent(w, g, email, phone, b) ==
  /\ g \notin Hired /\ b \in Kind("branch")
  /\ MayBe(g, email, phone)
  /\ Call(w, Idle)
  /\ agent' = [agent EXCEPT ![g] = [email |-> email, phone |-> phone, branch |-> b]]
  /\ UNCHANGED place

UpdateAgent(w, g, email, phone, b) ==
  /\ g \in Hired /\ b \in Kind("branch") \cup {agent[g].branch}
  /\ MayBe(g, email, phone)
  /\ Call(w, Idle)
  /\ agent' = [agent EXCEPT ![g] = [email |-> email, phone |-> phone, branch |-> b]]
  /\ UNCHANGED place

AddAgentsToBranch(w, gs, b) ==
  /\ gs \subseteq Hired /\ b \in Kind("branch")
  /\ Call(w, Idle)
  /\ agent' = [g \in Agents |-> IF g \in gs THEN [agent[g] EXCEPT !.branch = b] ELSE agent[g]]
  /\ UNCHANGED place

StepFails(w) ==
  /\ MayFail
  /\ ~At(w, "idle")
  /\ calm' = FALSE
  /\ Return(w)
  /\ UNCHANGED <<place, agent, calls, asked>>

\* With no request in flight, or no id left for its row, the service waits.
Rest ==
  /\ \A w \in Workers :
       \/ At(w, "idle")
       \/ At(w, "insert") /\ \A p \in Places : place[p] # NoPlace
       \/ At(w, "hire") /\ Hired = Agents
  /\ UNCHANGED vars

OrNil(S) == S \cup {Nil}

Next ==
  \/ \E w \in Workers :
       \/ \E email \in OrNil(Emails), name \in OrNil(Names) :
            \/ \E a \in {NoAgent} \cup [email : OrNil(Mailboxes), phone : OrNil(Phones), branch : {Nil}],
                  kind \in {"branch", "station"} :
                 name # Nil /\ CreatePlace(w, kind, name, email, a)
            \/ \E p \in Places, clear \in BOOLEAN : UpdatePlace(w, p, name, email, clear)
       \/ \E p \in Places : Insert(w, p) \/ DeleteStation(w, p)
       \/ \E g \in Agents :
            \/ HireAgent(w, g)
            \/ \E email \in Mailboxes, phone \in Phones, b \in Places :
                 UpdateAgent(w, g, email, phone, b) \/ CreateAgent(w, g, email, phone, b)
       \/ \E gs \in SUBSET Agents \ {{}}, b \in Places : AddAgentsToBranch(w, gs, b)
       \/ ReadName(w) \/ ReadEmail(w) \/ Write(w)
       \/ FindAgent(w) \/ MoveAgent(w) \/ StepFails(w)
  \/ Rest

Spec == Init /\ [][Next]_vars

-----------------------------------------------------------------------------
(* Properties                                                              *)

\* The failure of hiring is swallowed; with an e-mail and a phone given and no
\* other request about, there is none: the branch has an agent with either.
NamedAgentWorksThere ==
  calm /\ Quiet /\ asked.email # Nil /\ asked.phone # Nil =>
    \E g \in Hired :
      /\ agent[g].branch = asked.branch
      /\ agent[g].email = asked.email \/ agent[g].phone = asked.phone
=============================================================================
