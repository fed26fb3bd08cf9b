-------------------------- MODULE CoverageProducts --------------------------
(***************************************************************************)
(* The planning half of the coverage task server of agt_coverage_planning  *)
(* (scripts/coverage_task_server.py), with the two nodes that make its     *)
(* products: the request adapter (scripts/coverage_request_adapter.py),    *)
(* which has a planner compute a path, and the path validator              *)
(* (scripts/coverage_path_validator.py), which judges the last path it     *)
(* received on a timer, again whenever one of its inputs changed.          *)
(*                                                                         *)
(* Products travel on latched topics of depth one, without any mark of the *)
(* task they were made for; the server only knows which of them arrived    *)
(* since it noted its baselines.  A product is named here by the task      *)
(* whose map was planned; tasks plan different maps.                       *)
(*                                                                         *)
(* Repair is left out: a task whose path is judged invalid fails.          *)
(***************************************************************************)
EXTENDS Naturals

CONSTANTS
  Tasks,      \* the coverage tasks, which the reservation runs one at a time
  NoTask,     \* no product
  Prompt      \* TRUE: what is published before a task's map is loaded has arrived

ASSUME ProductsAssumption == NoTask \notin Tasks /\ Prompt \in BOOLEAN

Product == Tasks \cup {NoTask}
Status == {"none", "planning", "succeeded", "failed"}

\* A validation report: the path it is about (none when the inputs do not belong
\* together) and its verdict.
Report == [path : Product, valid : BOOLEAN]
NoReport == [path |-> NoTask, valid |-> FALSE]

\* The topics the server awaits, and those of the validator's inputs.
Awaited == {"status", "semantics", "reconstructed", "report", "validated"}
Topic == Awaited \cup {"raw", "rawSemantics"}
Content == Product \cup Status \cup Report

VARIABLES
  pc,         \* where _prepare_path is for each task
  task,       \* the task of the reservation
  semantics,  \* the semantics document the task has copied
  path,       \* the path each task executes
  new,        \* topics whose generation is above the task's baseline
  held,       \* the last message the subscriber of each topic received
  slot,       \* topics with a message on its way ...
  sent,       \* ... and the last message published on each
  calls,      \* plan requests not yet handled by the adapter
  reply,      \* the adapter's answer to each task's plan request
  map,        \* parameter semantic_map of the adapter
  planning,   \* the map being planned (the flag planning)
  phase,      \* what the planner of the adapter was last asked
  dirty       \* the validator's flag dirty

serverVars == <<pc, task, semantics, path>>
topicVars == <<new, held, slot, sent>>
adapterVars == <<calls, reply, map, planning, phase>>
vars == <<serverVars, topicVars, adapterVars, dirty>>

Stage == {"idle", "loaded", "call", "status", "products", "report", "path", "ready",
          "executed", "failed", "givenUp"}
Phase == {"none", "parameters", "goal", "result"}
Waiting == {"call", "status", "products", "report", "path"}

TypeOK ==
  /\ pc \in [Tasks -> Stage]
  /\ task \in Product /\ semantics \in Product
  /\ path \in [Tasks -> Product]
  /\ new \subseteq Awaited /\ slot \subseteq Topic
  /\ \A h \in {held, sent} :
       /\ DOMAIN h = Topic
       /\ h["status"] \in Status /\ h["report"] \in Report
       /\ \A p \in Topic \ {"status", "report"} : h[p] \in Product
  /\ calls \subseteq Tasks
  /\ reply \in [Tasks -> {"none", "accepted", "refused"}]
  /\ map \in Product /\ planning \in Product /\ phase \in Phase
  /\ dirty \in BOOLEAN

Nothing == [p \in Topic |->
  IF p = "status" THEN "none" ELSE IF p = "report" THEN NoReport ELSE NoTask]

ServerInit ==
  /\ pc = [t \in Tasks |-> "idle"]
  /\ task = NoTask /\ semantics = NoTask
  /\ path = [t \in Tasks |-> NoTask]

AdapterInit ==
  /\ calls = {} /\ reply = [t \in Tasks |-> "none"]
  /\ map = NoTask /\ planning = NoTask /\ phase = "none"

ValidatorInit == dirty = FALSE

\* No product has been published.
Init ==
  /\ ServerInit /\ AdapterInit /\ ValidatorInit
  /\ new = {} /\ held = Nothing
  /\ slot = {} /\ sent = Nothing

-----------------------------------------------------------------------------
(* Topics: a message replaces one that was not received yet. *)

Publish(messages) ==
  /\ sent' = [p \in Topic |-> IF p \in DOMAIN messages THEN messages[p] ELSE sent[p]]
  /\ slot' = slot \cup DOMAIN messages

\* A subscriber's callback: keep the message and count a generation, or mark the
\* validator dirty.
Receive(p) ==
  /\ p \in slot
  /\ slot' = slot \ {p}
  /\ held' = [held EXCEPT ![p] = sent[p]]
  /\ new' = new \cup ({p} \cap Awaited)
  /\ dirty' = (dirty \/ p \notin Awaited)
  /\ UNCHANGED <<serverVars, sent, adapterVars>>

-----------------------------------------------------------------------------
(* The task server. *)

Goto(t, stage) == pc' = [pc EXCEPT ![t] = stage]

Leave(t, stage) ==
  /\ Goto(t, stage)
  /\ task' = NoTask
  /\ UNCHANGED <<semantics, path>>

Fail(t) == Leave(t, "failed")

\* The map is loaded and set as the adapter's parameter.
Load(t) ==
  /\ pc[t] = "idle" /\ task = NoTask
  /\ task' = t
  /\ Goto(t, "loaded")
  /\ map' = t
  /\ UNCHANGED <<semantics, path, topicVars, calls, reply, planning, phase, dirty>>

\* The baselines are noted, and the plan service is called.
Baselines_Forgotten == new
Baselines == {}

CallPlan(t) ==
  /\ pc[t] = "loaded"
  /\ Prompt => slot \cap Awaited = {}
  /\ new' = Baselines
  /\ calls' = calls \cup {t}
  /\ Goto(t, "call")
  /\ UNCHANGED <<task, semantics, path, held, slot, sent, reply, map, planning, phase, dirty>>

PlanAnswered(t) ==
  /\ pc[t] = "call" /\ reply[t] # "none"
  /\ IF reply[t] = "accepted"
     THEN Goto(t, "status") /\ UNCHANGED <<task, semantics, path>>
     ELSE Fail(t)
  /\ UNCHANGED <<topicVars, adapterVars, dirty>>

PlanEnded(t) ==
  /\ pc[t] = "status" /\ "status" \in new
  /\ held["status"] \in {"succeeded", "failed"}
  /\ IF held["status"] = "succeeded"
     THEN Goto(t, "products") /\ UNCHANGED <<task, semantics, path>>
     ELSE Fail(t)
  /\ UNCHANGED <<topicVars, adapterVars, dirty>>

ProductsArrived(t) ==
  /\ pc[t] = "products" /\ {"semantics", "reconstructed"} \subseteq new
  /\ semantics' = held["semantics"]
  /\ Goto(t, "report")
  /\ UNCHANGED <<task, path, topicVars, adapterVars, dirty>>

\* The report that is awaited is one about the path of these semantics.
ReportMatches == "report" \in new /\ held["report"].path = semantics

ReportArrived(t) ==
  /\ pc[t] = "report" /\ ReportMatches
  /\ IF held["report"].valid
     THEN Goto(t, "path") /\ UNCHANGED <<task, semantics, path>>
     ELSE Fail(t)
  /\ UNCHANGED <<topicVars, adapterVars, dirty>>

\* The validated path is the last one that arrived since the baseline, whichever
\* report it came with; an empty one fails the task.
PathArrived(t) ==
  /\ pc[t] = "path" /\ "validated" \in new
  /\ IF held["validated"] # NoTask
     THEN /\ Goto(t, "ready")
          /\ path' = [path EXCEPT ![t] = held["validated"]]
          /\ UNCHANGED <<task, semantics>>
     ELSE Fail(t)
  /\ UNCHANGED <<topicVars, adapterVars, dirty>>

\* build_progress_model: the path is the one of the semantics, or the swaths of
\* the reconstructed path, cut where the semantics say, are found in it.
SwathsFound(t) == path[t] = semantics \/ path[t] = held["reconstructed"]

Ready(t) ==
  /\ pc[t] = "ready"
  /\ IF SwathsFound(t)
     THEN Leave(t, "executed")
     ELSE Fail(t)
  /\ UNCHANGED <<topicVars, adapterVars, dirty>>

\* A cancel, or the stage timeout, ends any wait; nothing is told to the adapter.
GiveUp(t) ==
  /\ pc[t] \in Waiting
  /\ Leave(t, "givenUp")
  /\ UNCHANGED <<topicVars, adapterVars, dirty>>

-----------------------------------------------------------------------------
(* The request adapter. *)

\* _prepare_request and the tests of the planner's interfaces: a request that
\* cannot be prepared, or a planner that is not there, only makes a status.
PlanRefused ==
  /\ UNCHANGED <<planning, phase>>
  /\ \E s \in {"failed", "planning"} : Publish([status |-> s])

\* _start_plan: the plan is of the map that is set now; the parameters of the
\* planner are set first.
PlanStarts ==
  /\ planning' = map
  /\ phase' = "parameters"
  /\ Publish([status |-> "planning"])

\* _plan_callback: one plan at a time.
Plan(t) ==
  /\ t \in calls
  /\ calls' = calls \ {t}
  /\ \/ planning = NoTask /\ PlanStarts /\ reply' = [reply EXCEPT ![t] = "accepted"]
     \/ planning = NoTask /\ PlanRefused /\ reply' = [reply EXCEPT ![t] = "refused"]
     \/ /\ planning # NoTask
        /\ UNCHANGED <<planning, phase, slot, sent>>
        /\ reply' = [reply EXCEPT ![t] = "refused"]
  /\ UNCHANGED <<serverVars, new, held, map, dirty>>

\* _parameters_done, then _goal_response: the goal is sent, and its result awaited.
ParametersDone ==
  /\ phase = "parameters" /\ phase' = "goal"
  /\ UNCHANGED <<serverVars, topicVars, calls, reply, map, planning, dirty>>

GoalAccepted ==
  /\ phase = "goal" /\ phase' = "result"
  /\ UNCHANGED <<serverVars, topicVars, calls, reply, map, planning, dirty>>

PlanEnds ==
  /\ planning' = NoTask /\ phase' = "none"
  /\ UNCHANGED <<serverVars, new, held, calls, reply, map, dirty>>

\* _result_done: the products, then the status.
PlanSucceeds ==
  /\ phase = "result"
  /\ Publish([reconstructed |-> planning, semantics |-> planning,
              rawSemantics |-> planning, raw |-> planning, status |-> "succeeded"])
  /\ PlanEnds

\* _fail, from any of these answers.
PlanFails ==
  /\ phase # "none"
  /\ Publish([status |-> "failed"])
  /\ PlanEnds

-----------------------------------------------------------------------------
(* The path validator. *)

\* The costmap or the footprint changes.
WorldChanges ==
  /\ ~dirty
  /\ dirty' = TRUE
  /\ UNCHANGED <<serverVars, topicVars, adapterVars>>

\* _validate_if_ready: the path is published, empty if it is not valid, and then
\* the report; inputs of different plans give a report about no path.
Validate ==
  /\ dirty
  /\ held["raw"] # NoTask /\ held["rawSemantics"] # NoTask
  /\ dirty' = FALSE
  /\ \E valid \in BOOLEAN :
       LET p == IF held["raw"] = held["rawSemantics"] THEN held["raw"] ELSE NoTask IN
       Publish([validated |-> IF valid THEN p ELSE NoTask,
                report |-> [path |-> p, valid |-> valid /\ p # NoTask]])
  /\ UNCHANGED <<serverVars, new, held, adapterVars>>

-----------------------------------------------------------------------------
Prepare(t) ==
  \/ Load(t) \/ CallPlan(t) \/ PlanAnswered(t) \/ PlanEnded(t) \/ ProductsArrived(t)
  \/ ReportArrived(t) \/ PathArrived(t) \/ Ready(t) \/ GiveUp(t)

Next ==
  \/ \E t \in Tasks : Prepare(t) \/ Plan(t)
  \/ \E p \in Topic : Receive(p)
  \/ ParametersDone \/ GoalAccepted \/ PlanSucceeds \/ PlanFails
  \/ WorldChanges \/ Validate

Spec == Init /\ [][Next]_vars

-----------------------------------------------------------------------------
(* Properties. *)

\* A task executes the path that was planned for its own map, with the semantics
\* of that path, although nothing in the products says so, the latched topics
\* hold those of earlier tasks, and the validator may publish an earlier path
\* again at any time; unless a task was given up.  It takes Prompt: without it, a
\* task that reads the late failure of an earlier one ends while it is being
\* planned, and the next one executes its path.
OwnPathExecuted ==
  (\A t \in Tasks : pc[t] # "givenUp") =>
    \A t \in Tasks :
      /\ pc[t] = "ready" => semantics = t
      /\ pc[t] = "executed" => path[t] = t
=============================================================================
