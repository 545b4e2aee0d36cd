------------------------------- MODULE Tickets --------------------------------
(***************************************************************************)
(* Support tickets: staff, customers and agents open them, staff move them *)
(* between statuses and leave in the thread what the move means, and give  *)
(* them to a colleague.                                                    *)
(***************************************************************************)
EXTENDS Naturals

CONSTANTS
  Tickets,   \* Ticket ids: a bound on the rows
  Staff,     \* AdminUser ids
  Workers,   \* requests in flight at the same time
  MaxCalls,  \* a bound on the requests
  Nil,       \* no ticket, no assignee
  MayFail    \* whether a process may die between two statements

VARIABLES
  ticket,    \* Ticket rows, the last note a status left and whether a file is attached
  active,    \* AdminUser.isActive
  req,       \* the handlers in flight
  calls,     \* history: requests so far
  calm       \* history: no request has met another one

vars == <<ticket, active, req, calls, calm>>

Statuses == {"OPEN", "IN_PROGRESS", "RESOLVED", "CLOSED"}
NoTicket == [status |-> "NONE", note |-> "NONE", assignee |-> Nil, file |-> FALSE]
Opened(file) == [NoTicket EXCEPT !.status = "OPEN", !.file = file]
Idle == [pc |-> "idle", ticket |-> Nil, status |-> "NONE", read |-> "NONE", admin |-> Nil]

Init ==
  /\ ticket = [t \in Tickets |-> NoTicket]
  /\ active = [m \in Staff |-> TRUE]
  /\ req = [w \in Workers |-> Idle]
  /\ calls = 0
  /\ calm = TRUE

Exists(t) == ticket[t].status # "NONE"
At(w, pc) == req[w].pc = pc
Return(w) == req' = [req EXCEPT ![w] = Idle]
Quiet == \A w \in Workers : At(w, "idle")
Count == calls < MaxCalls /\ calls' = calls + 1
Call(w, h) ==
  /\ At(w, "idle")
  /\ Count
  /\ req' = [req EXCEPT ![w] = h]
  /\ calm' = (calm /\ Quiet)

-----------------------------------------------------------------------------
(* Opening a ticket                                                        *)

\* Staff's create: the row and its attachment in one transaction.
Create(t, file) ==
  /\ ~Exists(t)
  /\ Count
  /\ ticket' = [ticket EXCEPT ![t] = Opened(file)]
  /\ UNCHANGED <<active, req, calm>>

\* createSupportTicket of customers and agents: the row, then the upload.
CreateSupportTicket(w, t, file) ==
  /\ ~Exists(t)
  /\ Call(w, IF file THEN [Idle EXCEPT !.pc = "upload", !.ticket = t] ELSE Idle)
  /\ ticket' = [ticket EXCEPT ![t] = Opened(FALSE)]
  /\ UNCHANGED active

Upload(w) ==
  /\ At(w, "upload")
  /\ req' = [req EXCEPT ![w].pc = "attach"]
  /\ UNCHANGED <<ticket, active, calls, calm>>

Attach(w) ==
  /\ At(w, "attach")
  /\ ticket' = [ticket EXCEPT ![req[w].ticket].file = TRUE]
  /\ Return(w)
  /\ UNCHANGED <<active, calls, calm>>

\* The error of the upload or of the record is swallowed, the ticket stays.
FileFails(w) ==
  /\ At(w, "upload") \/ At(w, "attach")
  /\ Return(w)
  /\ UNCHANGED <<ticket, active, calls, calm>>

\* update: of what it may change only the attachment is kept here.
Update(t) ==
  /\ Exists(t)
  /\ Count
  /\ ticket' = [ticket EXCEPT ![t].file = TRUE]
  /\ UNCHANGED <<active, req, calm>>

-----------------------------------------------------------------------------
(* updateStatus, assignAgent                                               *)

ReadStatus(w, t, status) ==
  /\ Exists(t)
  /\ Call(w, [Idle EXCEPT !.pc = "status", !.ticket = t, !.status = status,
                          !.read = ticket[t].status])
  /\ UNCHANGED <<ticket, active>>

\* The note, chosen by the status that was read; "NONE" leaves no note.
Note(status, read) ==
  IF status # "OPEN" THEN status
  ELSE IF read \in {"RESOLVED", "CLOSED"} THEN "AGAIN" ELSE "NONE"

\* Mutant: a ticket opened again from CLOSED is not noted.
WriteStatusOnly(w) ==
  LET h == req[w]
      note == IF h.status = "OPEN" /\ h.read = "CLOSED" THEN "NONE" ELSE Note(h.status, h.read)
  IN
  /\ At(w, "status")
  /\ ticket' = [ticket EXCEPT ![h.ticket] =
       [ticket[h.ticket] EXCEPT !.status = h.status,
                                !.note = IF note = "NONE" THEN ticket[h.ticket].note ELSE note]]
  /\ Return(w)
  /\ UNCHANGED <<active, calls, calm>>
\* One transaction writes the status and the note.
WriteStatus(w) ==
  LET h == req[w]
      note == Note(h.status, h.read)
  IN
  /\ At(w, "status")
  /\ ticket' = [ticket EXCEPT ![h.ticket] =
       [ticket[h.ticket] EXCEPT !.status = h.status,
                                !.note = IF note = "NONE" THEN ticket[h.ticket].note ELSE note]]
  /\ Return(w)
  /\ UNCHANGED <<active, calls, calm>>

ReadAssignee(w, t, m) ==
  /\ Exists(t)
  /\ active[m]
  /\ Call(w, [Idle EXCEPT !.pc = "assign", !.ticket = t, !.admin = m])
  /\ UNCHANGED <<ticket, active>>

Assign(w) ==
  /\ At(w, "assign")
  /\ ticket' = [ticket EXCEPT ![req[w].ticket].assignee = req[w].admin]
  /\ Return(w)
  /\ UNCHANGED <<active, calls, calm>>

\* User management switches a member of staff on or off.
SetActive(m) ==
  /\ Count
  /\ active' = [active EXCEPT ![m] = ~active[m]]
  /\ calm' = (calm /\ Quiet)
  /\ UNCHANGED <<ticket, req>>

Die(w) ==
  /\ MayFail
  /\ ~At(w, "idle")
  /\ Return(w)
  /\ UNCHANGED <<ticket, active, calls, calm>>

\* With no request in flight the service waits for one.
Rest == Quiet /\ UNCHANGED vars

Next ==
  \/ \E t \in Tickets :
       \/ Update(t)
       \/ \E file \in BOOLEAN : Create(t, file)
  \/ \E w \in Workers :
       \/ \E t \in Tickets :
            \/ \E file \in BOOLEAN : CreateSupportTicket(w, t, file)
            \/ \E status \in Statuses : ReadStatus(w, t, status)
            \/ \E m \in Staff : ReadAssignee(w, t, m)
       \/ Upload(w) \/ Attach(w) \/ FileFails(w)
       \/ WriteStatus(w) \/ Assign(w) \/ Die(w)
  \/ \E m \in Staff : SetActive(m)
  \/ Rest

Spec == Init /\ [][Next]_vars

-----------------------------------------------------------------------------
(* Properties                                                              *)

\* Whoever reads the thread of a ticket sees where it stands, however the moves
\* of staff interleave or die: the last note of a move is the one of the status.
\* An open ticket has no note of its own: when moves do not overlap, its last
\* note is not that it is resolved or closed.
ThreadTellsStatus ==
  \A t \in Tickets : Exists(t) =>
    IF ticket[t].status = "OPEN" THEN calm => ticket[t].note \notin {"RESOLVED", "CLOSED"}
    ELSE ticket[t].note = ticket[t].status
=============================================================================
