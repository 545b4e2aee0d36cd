-------------------------- MODULE WorkflowTemplates --------------------------
(***************************************************************************)
(* Workflow templates: a row, its stages in order and the assignees of     *)
(* each, written one statement after the other.                            *)
(***************************************************************************)
EXTENDS Naturals, Sequences

CONSTANTS
  Templates,  \* WorkflowTemplate ids: a bound on the rows
  Stages,     \* WorkflowStage ids: a bound on the rows
  Plans,      \* what a request may give: for each stage its assignees in order
  Workers,    \* requests in flight at the same time
  MaxCalls,   \* a bound on the requests
  Nil,        \* no template, no stage
  MayFail     \* whether a statement may fail or the process die

VARIABLES
  template,  \* WorkflowTemplate.status
  stage,     \* WorkflowStage rows with their WorkflowAssignee rows
  req,       \* the handlers in flight
  calls,     \* history: requests so far
  given,     \* history: the plans given for each template, the last one first
  calm       \* history: no request has met another one, or failed

vars == <<template, stage, req, calls, given, calm>>

NoStage == [template |-> Nil, order |-> 0, assignees |-> {}]
Idle == [pc |-> "idle", template |-> Nil, plan |-> <<>>, order |-> 0, stage |-> Nil, done |-> 0]

Init ==
  /\ template = [t \in Templates |-> "NONE"]
  /\ stage = [s \in Stages |-> NoStage]
  /\ req = [w \in Workers |-> Idle]
  /\ calls = 0
  /\ given = [t \in Templates |-> <<>>]
  /\ calm = TRUE

At(w, pc) == req[w].pc = pc
Return(w) == req' = [req EXCEPT ![w] = Idle]
Count == calls < MaxCalls /\ calls' = calls + 1
Call(w, h) ==
  /\ At(w, "idle")
  /\ Count
  /\ req' = [req EXCEPT ![w] = h]
  /\ calm' = (calm /\ \A v \in Workers : At(v, "idle"))

StagesOf(t) == {s \in Stages : stage[s].template = t}

\* Where the loop over the stages of the plan goes from one that is done.
NextStage(w) ==
  LET h == req[w] IN
  req' = [req EXCEPT ![w] =
    IF h.order = Len(h.plan) THEN Idle
    ELSE [h EXCEPT !.pc = "stage", !.order = h.order + 1, !.stage = Nil, !.done = 0]]

-----------------------------------------------------------------------------
(* createTemplate, saveDraft, updateTemplate                               *)

CreateTemplate(w, t, plan, status) ==
  /\ template[t] = "NONE"
  /\ Call(w, IF plan = <<>> THEN Idle
             ELSE [Idle EXCEPT !.pc = "stage", !.template = t, !.plan = plan, !.order = 1])
  /\ template' = [template EXCEPT ![t] = status]
  /\ given' = [given EXCEPT ![t] = <<plan>>]
  /\ UNCHANGED stage

\* The row is written first; the status is not among what is written.
UpdateTemplate(w, t, plan) ==
  /\ template[t] # "NONE"
  /\ Call(w, [Idle EXCEPT !.pc = "delete", !.template = t, !.plan = plan])
  /\ given' = [given EXCEPT ![t] = <<plan>> \o given[t]]
  /\ UNCHANGED <<template, stage>>

\* Mutant: only the stages that the plan has no more are deleted.
DeleteRest(w) ==
  LET h == req[w] IN
  /\ At(w, "delete")
  /\ stage' = [s \in Stages |->
       IF s \in StagesOf(h.template) /\ stage[s].order > Len(h.plan) THEN NoStage ELSE stage[s]]
  /\ NextStage(w)
  /\ UNCHANGED <<template, calls, given, calm>>
\* Their assignees go with them.
DeleteStages(w) ==
  /\ At(w, "delete")
  /\ stage' = [s \in Stages |-> IF s \in StagesOf(req[w].template) THEN NoStage ELSE stage[s]]
  /\ NextStage(w)
  /\ UNCHANGED <<template, calls, given, calm>>

CreateStage(w, s) ==
  LET h == req[w] IN
  /\ At(w, "stage")
  /\ stage[s] = NoStage /\ \A v \in Workers : req[v].stage # s
  /\ stage' = [stage EXCEPT ![s] = [NoStage EXCEPT !.template = h.template, !.order = h.order]]
  /\ IF h.plan[h.order] = <<>> THEN NextStage(w)
     ELSE req' = [req EXCEPT ![w] = [h EXCEPT !.pc = "assign", !.stage = s]]
  /\ UNCHANGED <<template, calls, given, calm>>

\* Mutant: the stage is found by its template and order.
AssignByOrder(w) ==
  LET h == req[w]
      admin == h.plan[h.order][h.done + 1]
      found == {s \in StagesOf(h.template) : stage[s].order = h.order}
  IN
  /\ At(w, "assign")
  /\ IF found = {} \/ \E s \in found : admin \in stage[s].assignees
     THEN Return(w) /\ calm' = FALSE /\ UNCHANGED stage
     ELSE /\ stage' = [s \in Stages |->
               IF s \in found THEN [stage[s] EXCEPT !.assignees = stage[s].assignees \cup {admin}]
               ELSE stage[s]]
          /\ IF h.done + 1 = Len(h.plan[h.order]) THEN NextStage(w)
             ELSE req' = [req EXCEPT ![w] = [h EXCEPT !.done = h.done + 1]]
          /\ UNCHANGED calm
  /\ UNCHANGED <<template, calls, given>>
\* The row refers to a stage that must exist, and an assignee to one stage once;
\* otherwise the request fails here.
Assign(w) ==
  LET h == req[w]
      admin == h.plan[h.order][h.done + 1]
  IN
  /\ At(w, "assign")
  /\ IF stage[h.stage] = NoStage \/ admin \in stage[h.stage].assignees
     THEN Return(w) /\ calm' = FALSE /\ UNCHANGED stage
     ELSE /\ stage' = [stage EXCEPT ![h.stage] =
               [stage[h.stage] EXCEPT !.assignees = stage[h.stage].assignees \cup {admin}]]
          /\ IF h.done + 1 = Len(h.plan[h.order]) THEN NextStage(w)
             ELSE req' = [req EXCEPT ![w] = [h EXCEPT !.done = h.done + 1]]
          /\ UNCHANGED calm
  /\ UNCHANGED <<template, calls, given>>

-----------------------------------------------------------------------------
(* publishTemplate, setTemplateStatus                                      *)

\* Whatever status it has, and whether its stages are there or not.
SetStatus(t, status) ==
  /\ template[t] # "NONE"
  /\ template' = [template EXCEPT ![t] = status]
  /\ UNCHANGED <<stage, req, calls, given, calm>>

StepFails(w) ==
  /\ MayFail
  /\ ~At(w, "idle")
  /\ calm' = FALSE
  /\ Return(w)
  /\ UNCHANGED <<template, stage, calls, given>>

\* With no request in flight, or no stage id left for it, the service waits.
Rest ==
  /\ \A w \in Workers :
       At(w, "idle") \/ (At(w, "stage") /\ \A s \in Stages :
                           stage[s] # NoStage \/ \E v \in Workers : req[v].stage = s)
  /\ UNCHANGED vars

Next ==
  \/ \E w \in Workers :
       \/ \E t \in Templates, plan \in Plans :
            \/ \E status \in {"ACTIVE", "DRAFT"} : CreateTemplate(w, t, plan, status)
            \/ UpdateTemplate(w, t, plan)
       \/ \E s \in Stages : CreateStage(w, s)
       \/ DeleteStages(w) \/ Assign(w) \/ StepFails(w)
  \/ \E t \in Templates, status \in {"ACTIVE", "ARCHIVED"} : SetStatus(t, status)
  \/ Rest

Spec == Init /\ [][Next]_vars

-----------------------------------------------------------------------------
(* Properties                                                              *)

Elements(s) == {s[i] : i \in DOMAIN s}

\* The rows are the first n stages of a plan: each once, at its place and with
\* its assignees.
Placed(rows, plan, n) ==
  /\ \A s \in rows : stage[s].order \in 1..n
  /\ \A i \in 1..n : \E s \in rows :
       /\ {r \in rows : stage[r].order = i} = {s}
       /\ stage[s].assignees = Elements(plan[i])

\* When requests do not overlap or fail, an assignee named twice included, the
\* stages of a template are those of the last plan given for it, each once,
\* at its place and with its assignees, as soon as no request is at work.
StagesAreThePlan ==
  calm /\ (\A w \in Workers : At(w, "idle")) =>
    \A t \in Templates : template[t] # "NONE" =>
      LET plan == Head(given[t]) IN Placed(StagesOf(t), plan, Len(plan))

\* However updates of a template interleave or fail, nobody is assigned to a
\* stage of it who was not given for that place in one of its plans.
AssigneesWereGiven ==
  \A s \in Stages : stage[s] # NoStage =>
    \E plan \in Elements(given[stage[s].template]) :
      /\ stage[s].order \in DOMAIN plan
      /\ stage[s].assignees \subseteq Elements(plan[stage[s].order])
=============================================================================
