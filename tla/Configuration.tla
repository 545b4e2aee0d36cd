---------------------------- MODULE Configuration ----------------------------
(***************************************************************************)
(* What staff set up: the exchange rates with the cache in front of them,  *)
(* and the templates of workflows.  They share no state, so their          *)
(* interleavings show nothing: each behaviour is one of focus.             *)
(***************************************************************************)
EXTENDS RateCache, Sequences

CONSTANTS
  Nil, Templates, Stages, Plans, MaxCalls, MayFail,  \* of WorkflowTemplates
  Admins                                             \* who may be assigned

\* A request gives a list of assignees for each stage, and no id is null.
ASSUME TemplatesAssumption ==
  /\ Plans \subseteq Seq(Seq(Admins))
  /\ Nil \notin Templates \cup Stages

VARIABLES
  focus,
  template, stage, flowReq, flowCalls, given, flowCalm

W == INSTANCE WorkflowTemplates WITH
  req <- flowReq, calls <- flowCalls, calm <- flowCalm

flowVars == <<template, stage, flowReq, flowCalls, given, flowCalm>>

ConfigurationInit ==
  /\ focus \in {"rates", "templates"}
  /\ Init /\ W!Init

ConfigurationNext ==
  /\ UNCHANGED focus
  /\ \/ focus = "rates" /\ Next /\ UNCHANGED flowVars
     \/ focus = "templates" /\ W!Next /\ UNCHANGED vars

ConfigurationSpec ==
  ConfigurationInit /\ [][ConfigurationNext]_<<focus, vars, flowVars>>

\* The properties of WorkflowTemplates, stated there.
StagesAreThePlan == W!StagesAreThePlan
AssigneesWereGiven == W!AssigneesWereGiven
=============================================================================
