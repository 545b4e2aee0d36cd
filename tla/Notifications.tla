---------------------------- MODULE Notifications -----------------------------
(***************************************************************************)
(* What the service tells a user: the preferences that are read first, the *)
(* notification's row, and its channels at work at the same time on         *)
(* that row.  Pushes go to the devices whose tokens the user registered.   *)
(***************************************************************************)
EXTENDS Naturals

CONSTANTS
  Users,     \* customers, agents and staff
  Devices,   \* DeviceToken.token
  Notes,     \* Notification ids: a bound on the rows
  Workers,   \* requests and event handlers in flight at the same time
  MaxCalls,  \* a bound on them
  Nil,       \* no user, no notification, a token without a row
  MayFail    \* whether the process may die between two statements

VARIABLES
  pref,     \* NotificationPreference rows: the channels enabled, or {"NONE"} without a row
  device,   \* DeviceToken rows
  note,     \* Notification.status
  req,      \* the handlers in flight
  calls,    \* history: requests so far
  live,     \* history: the user who registered a token last, until it is no more good
  strays,   \* history: users and tokens of pushes to somebody else's device
  calm      \* history: no handler has met another one, or died

vars == <<pref, device, note, req, calls, live, strays, calm>>

Channels == {"PUSH", "EMAIL", "SMS", "IN_APP"}
All == Channels \ {"SMS"}  \* what a notification on ALL channels goes through
NoRow == {"NONE"}
NoParts == [c \in Channels |-> "off"]
Idle == [pc |-> "idle", user |-> Nil, channels |-> {}, skip |-> FALSE, note |-> Nil,
         parts |-> NoParts, tokens |-> {}, invalid |-> {}]

Init ==
  /\ pref = [u \in Users |-> NoRow]
  /\ device = [d \in Devices |-> [owner |-> Nil, active |-> FALSE]]
  /\ note = [n \in Notes |-> "NONE"]
  /\ req = [w \in Workers |-> Idle]
  /\ calls = 0
  /\ live = [d \in Devices |-> Nil]
  /\ strays = {}
  /\ calm = TRUE

At(w, pc) == req[w].pc = pc
Goto(w, pc) == req' = [req EXCEPT ![w].pc = pc]
Return(w) == req' = [req EXCEPT ![w] = Idle]
Quiet == \A w \in Workers : At(w, "idle")
Count == calls < MaxCalls /\ calls' = calls + 1
Call(w, h) ==
  /\ At(w, "idle")
  /\ Count
  /\ req' = [req EXCEPT ![w] = h]
  /\ calm' = (calm /\ Quiet)

-----------------------------------------------------------------------------
(* Preferences and devices                                                 *)

\* One upsert; what the user does not name keeps its default, enabled.
UpdatePreferences(u, enabled) ==
  /\ Count
  /\ pref' = [pref EXCEPT ![u] = enabled]
  /\ calm' = (calm /\ Quiet)
  /\ UNCHANGED <<device, note, req, live, strays>>

ReadToken(w, u, d) ==
  /\ Call(w, [Idle EXCEPT !.user = u, !.tokens = {d},
                          !.pc = IF device[d].owner = Nil THEN "create" ELSE "update"])
  /\ UNCHANGED <<pref, device, note, live, strays>>

\* Mutant: a token that is known is only activated again.
ActivateToken(w) ==
  LET h == req[w] IN
  /\ At(w, "create") \/ At(w, "update")
  /\ Return(w)
  /\ IF \E d \in h.tokens : device[d].owner # Nil /\ At(w, "create")
     THEN UNCHANGED <<device, live>>
     ELSE /\ device' = [d \in Devices |-> IF d \notin h.tokens THEN device[d]
               ELSE [owner |-> IF At(w, "create") THEN h.user ELSE device[d].owner, active |-> TRUE]]
          /\ live' = [d \in Devices |-> IF d \in h.tokens THEN h.user ELSE live[d]]
  /\ UNCHANGED <<pref, note, calls, strays, calm>>
\* The token is unique: a second create fails.
WriteToken(w) ==
  LET h == req[w] IN
  /\ At(w, "create") \/ At(w, "update")
  /\ Return(w)
  /\ IF \E d \in h.tokens : device[d].owner # Nil /\ At(w, "create")
     THEN UNCHANGED <<device, live>>
     ELSE /\ device' = [d \in Devices |->
               IF d \in h.tokens THEN [owner |-> h.user, active |-> TRUE] ELSE device[d]]
          /\ live' = [d \in Devices |-> IF d \in h.tokens THEN h.user ELSE live[d]]
  /\ UNCHANGED <<pref, note, calls, strays, calm>>

\* Whoever has the token.
UnregisterToken(d) ==
  /\ device[d].owner # Nil
  /\ Count
  /\ device' = [device EXCEPT ![d].active = FALSE]
  /\ live' = [live EXCEPT ![d] = Nil]
  /\ calm' = (calm /\ Quiet)
  /\ UNCHANGED <<pref, note, req, strays>>

-----------------------------------------------------------------------------
(* sendNotification                                                        *)

\* One channel, or all of them; security notices skip the preferences.
Send(w, u, channels, skip) ==
  /\ Call(w, [Idle EXCEPT !.pc = IF skip THEN "note" ELSE "prefs",
                          !.user = u, !.channels = channels, !.skip = skip])
  /\ UNCHANGED <<pref, device, note, live, strays>>

\* One enabled channel, be it SMS, lets all of them through.
CheckPreferences(w) ==
  LET h == req[w] IN
  /\ At(w, "prefs")
  /\ IF pref[h.user] = NoRow THEN Goto(w, "default")
     ELSE IF \/ h.channels \cap pref[h.user] # {}
             \/ h.channels = All /\ pref[h.user] # {} THEN Goto(w, "note")
     ELSE Return(w)
  /\ UNCHANGED <<pref, device, note, calls, live, strays, calm>>

\* The default row enables every channel.  When another request has made the row,
\* this fails, and a failed check allows.
DefaultPreferences(w) ==
  LET u == req[w].user IN
  /\ At(w, "default")
  /\ pref' = [pref EXCEPT ![u] = IF pref[u] = NoRow THEN Channels ELSE pref[u]]
  /\ Goto(w, "note")
  /\ UNCHANGED <<device, note, calls, live, strays, calm>>

CreateNotification(w, n) ==
  LET h == req[w] IN
  /\ At(w, "note")
  /\ note[n] = "NONE"
  /\ note' = [note EXCEPT ![n] = "PENDING"]
  /\ req' = [req EXCEPT ![w] = [h EXCEPT !.pc = "sending", !.note = n,
       !.parts = [c \in Channels |-> IF c \in h.channels THEN "start" ELSE "off"]]]
  /\ UNCHANGED <<pref, device, calls, live, strays, calm>>

\* With no device the push counts as sent.
ReadDevices(w) ==
  LET h == req[w]
      tokens == {d \in Devices : device[d].owner = h.user /\ device[d].active}
  IN
  /\ h.parts["PUSH"] = "start"
  /\ req' = [req EXCEPT ![w] = [h EXCEPT !.tokens = tokens,
       !.parts = [h.parts EXCEPT !["PUSH"] = IF tokens = {} THEN "SENT" ELSE "send"]]]
  /\ UNCHANGED <<pref, device, note, calls, live, strays, calm>>

\* The provider answers for each token; or it throws, and nothing is cleaned up.
SendToTokens(w, ok, invalid) ==
  LET h == req[w]
      outcome == IF ok # {} THEN "SENT" ELSE "FAILED"
  IN
  /\ h.parts["PUSH"] = "send"
  /\ ok \subseteq h.tokens /\ invalid \subseteq h.tokens \ ok
  /\ req' = [req EXCEPT ![w] = [h EXCEPT !.invalid = invalid,
       !.parts = [h.parts EXCEPT !["PUSH"] =
         IF invalid # {} THEN (IF ok # {} THEN "clean, SENT" ELSE "clean, FAILED") ELSE outcome]]]
  /\ live' = [d \in Devices |-> IF d \in invalid THEN Nil ELSE live[d]]
  /\ strays' = strays \cup {<<h.user, d>> : d \in {o \in ok : live[o] # h.user}}
  /\ UNCHANGED <<pref, device, note, calls, calm>>

Cleaning(w) == req[w].parts["PUSH"] \in {"clean, SENT", "clean, FAILED"}
Outcome(w) == IF req[w].parts["PUSH"] = "clean, SENT" THEN "SENT" ELSE "FAILED"

\* Mutant: every token that was tried is deactivated with the invalid ones.
DeactivateAll(w) ==
  /\ Cleaning(w)
  /\ device' = [d \in Devices |->
       IF d \in req[w].tokens THEN [device[d] EXCEPT !.active = FALSE] ELSE device[d]]
  /\ req' = [req EXCEPT ![w].parts["PUSH"] = Outcome(w)]
  /\ UNCHANGED <<pref, note, calls, live, strays, calm>>
DeactivateTokens(w) ==
  /\ Cleaning(w)
  /\ device' = [d \in Devices |->
       IF d \in req[w].invalid THEN [device[d] EXCEPT !.active = FALSE] ELSE device[d]]
  /\ req' = [req EXCEPT ![w].parts["PUSH"] = Outcome(w)]
  /\ UNCHANGED <<pref, note, calls, live, strays, calm>>

\* The user of an e-mail may be unknown, the row of a notice may fail; no SMS is
\* sent yet, and its notification stays PENDING.
Deliver(w, c, outcome) ==
  /\ c # "PUSH"
  /\ outcome \in {"FAILED", IF c = "SMS" THEN "PENDING" ELSE "SENT"}
  /\ req[w].parts[c] = "start"
  /\ req' = [req EXCEPT ![w].parts[c] = outcome]
  /\ UNCHANGED <<pref, device, note, calls, live, strays, calm>>

\* Each channel writes its end over what the others wrote.
Mark(w, c) ==
  LET h == req[w]
      left == [h.parts EXCEPT ![c] = "off"]
  IN
  /\ h.parts[c] \in {"SENT", "FAILED", "PENDING"}
  /\ note' = [note EXCEPT ![h.note] = h.parts[c]]
  /\ req' = [req EXCEPT ![w] = IF left = NoParts THEN Idle ELSE [h EXCEPT !.parts = left]]
  /\ UNCHANGED <<pref, device, calls, live, strays, calm>>

Die(w) ==
  /\ MayFail
  /\ ~At(w, "idle")
  /\ calm' = FALSE
  /\ Return(w)
  /\ UNCHANGED <<pref, device, note, calls, live, strays>>

\* With nothing in flight, or no id left for a notification, the service waits.
Rest ==
  /\ \A w \in Workers : At(w, "idle") \/ (At(w, "note") /\ \A n \in Notes : note[n] # "NONE")
  /\ UNCHANGED vars

Next ==
  \/ \E u \in Users, enabled \in SUBSET Channels : UpdatePreferences(u, enabled)
  \/ \E d \in Devices : UnregisterToken(d)
  \/ \E w \in Workers :
       \/ \E u \in Users :
            \/ \E d \in Devices : ReadToken(w, u, d)
            \/ \E channels \in {{c} : c \in Channels} \cup {All}, skip \in BOOLEAN :
                 Send(w, u, channels, skip)
       \/ \E n \in Notes : CreateNotification(w, n)
       \/ \E ok, invalid \in SUBSET Devices : SendToTokens(w, ok, invalid)
       \/ \E c \in Channels :
            \/ Mark(w, c)
            \/ \E outcome \in {"SENT", "FAILED", "PENDING"} : Deliver(w, c, outcome)
       \/ WriteToken(w) \/ CheckPreferences(w) \/ DefaultPreferences(w)
       \/ ReadDevices(w) \/ DeactivateTokens(w) \/ Die(w)
  \/ Rest

Spec == Init /\ [][Next]_vars

-----------------------------------------------------------------------------
(* Properties                                                              *)

\* A token moves with its device from one user to the next: as long as nothing
\* overlaps, a push never reaches a device that another user registered last, or
\* that was unregistered.
PushesReachTheirUser == calm => strays = {}

\* Answers of the provider for many tokens clean up the table: as long as nothing
\* overlaps, the tokens in use are exactly those that the provider has not called
\* invalid since their users registered them.
LiveTokensActive ==
  calm /\ Quiet => \A d \in Devices :
    IF device[d].active THEN live[d] = device[d].owner ELSE live[d] = Nil
=============================================================================
