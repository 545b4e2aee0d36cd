------------------------------- MODULE Customers -------------------------------
(***************************************************************************)
(* What is kept for customers beside their transactions: virtual accounts, *)
(* notifications, and the outlets that serve them.  The three share no     *)
(* state, so their interleavings show nothing: each behaviour is one of    *)
(* focus.                                                                  *)
(***************************************************************************)
EXTENDS VirtualAccounts

CONSTANTS
  Users, Devices, Notes,                            \* of Notifications
  Places, Agents, Names, Emails, Mailboxes, Phones, \* of Outlets
  MaxCalls                                          \* of both

VARIABLES
  focus,
  pref, device, note, noteReq, noteCalls, live, strays, noteCalm,
  place, agent, placeReq, placeCalls, asked, placeCalm

N == INSTANCE Notifications WITH
  req <- noteReq, calls <- noteCalls, calm <- noteCalm

P == INSTANCE Outlets WITH
  req <- placeReq, calls <- placeCalls, calm <- placeCalm

noteVars == <<pref, device, note, noteReq, noteCalls, live, strays, noteCalm>>
placeVars == <<place, agent, placeReq, placeCalls, asked, placeCalm>>

CustomersInit ==
  /\ focus \in {"accounts", "notifications", "outlets"}
  /\ Init /\ N!Init /\ P!Init

CustomersNext ==
  /\ UNCHANGED focus
  /\ \/ focus = "accounts" /\ Next /\ UNCHANGED <<noteVars, placeVars>>
     \/ focus = "notifications" /\ N!Next /\ UNCHANGED <<vars, placeVars>>
     \/ focus = "outlets" /\ P!Next /\ UNCHANGED <<vars, noteVars>>

CustomersSpec ==
  CustomersInit /\ [][CustomersNext]_<<focus, vars, noteVars, placeVars>>

\* The properties of the instances, stated in their modules.
PushesReachTheirUser == N!PushesReachTheirUser
LiveTokensActive == N!LiveTokensActive
NamedAgentWorksThere == P!NamedAgentWorksThere
=============================================================================
