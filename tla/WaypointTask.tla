---------------------------- MODULE WaypointTask ----------------------------
(***************************************************************************)
(* The waypoint task server of agt_navigation                              *)
(* (scripts/waypoint_task_server.py): a ROS 2 action server that accepts   *)
(* one ExecuteWaypointTask goal at a time, sends it to Nav2 as one         *)
(* FollowWaypoints goal per loop, and cancels that child goal when the     *)
(* client cancels or a readiness gate is lost.                             *)
(*                                                                         *)
(* The node runs two executor threads over one reentrant callback group,   *)
(* so callbacks interleave at every lock release and every await: each     *)
(* action below is what runs between two of those points.                  *)
(*                                                                         *)
(* External parts, modelled from how the node uses them: the rclpy action  *)
(* server (a cancel request runs cancel_callback first, and only when that *)
(* has returned does the goal become CANCELING), and the Nav2 server of    *)
(* FollowWaypoints (accepts or rejects, ends a goal in any way, refuses a  *)
(* cancel only for a goal that is already canceling or over).              *)
(***************************************************************************)
EXTENDS Naturals, FiniteSets

CONSTANTS
  Tasks,        \* the ExecuteWaypointTask goals the clients submit
  MaxLoops,     \* maximum_loops: the largest loop_count the server accepts
  Required,     \* the gates whose require_* parameter is set
  SerialGoals,  \* TRUE: no two goal requests are handled at the same time
  NoChild       \* _child_goal_handle is None

Gate == {"safety", "localization", "readiness"}
Loop == 1 .. MaxLoops
Chain == Tasks \X Loop        \* a FollowWaypoints goal: its task and its loop

ASSUME WaypointAssumption ==
  /\ MaxLoops \in Nat \ {0}
  /\ Required \subseteq Gate
  /\ SerialGoals \in BOOLEAN
  /\ NoChild \notin Chain

VARIABLES
  pc,        \* where the handling of each task is
  goal,      \* the rclpy state of each task's goal handle
  loops,     \* the number of times the task drives its chain
  loop,      \* loop_index, counted from 1
  active,    \* _active
  child,     \* _child_goal_handle
  seen,      \* last value received from each gate
  fresh,     \* whether that value is younger than its timeout
  acking,    \* tasks whose cancel_callback has returned ACCEPT, not yet CANCELING
  nav,       \* state of each FollowWaypoints goal in Nav2
  cancels    \* cancel requests sent to Nav2 and not yet handled there

serverVars == <<pc, goal, loops, loop, active, child>>
gateVars == <<seen, fresh>>
navVars == <<nav, cancels>>
vars == <<serverVars, gateVars, acking, navVars>>

Stage == {"idle", "checking", "accepted", "loop", "sending", "handed",
          "awaitCancel", "awaitResult", "check", "finally", "done"}
GoalState == {"none", "rejected", "executing", "canceling",
              "succeeded", "canceled", "aborted"}
NavState == {"unsent", "requested", "running", "canceling",
             "succeeded", "missed", "aborted", "canceled", "rejected"}
NavOver == {"succeeded", "missed", "aborted", "canceled", "rejected"}

TypeOK ==
  /\ pc \in [Tasks -> Stage]
  /\ goal \in [Tasks -> GoalState]
  /\ loops \in [Tasks -> Loop]
  /\ loop \in [Tasks -> 1 .. MaxLoops + 1]
  /\ active \in BOOLEAN
  /\ child \in Chain \cup {NoChild}
  /\ seen \in [Gate -> BOOLEAN]
  /\ fresh \in [Gate -> BOOLEAN]
  /\ acking \subseteq Tasks
  /\ nav \in [Chain -> NavState]
  /\ cancels \subseteq Chain

Init ==
  /\ pc = [t \in Tasks |-> "idle"]
  /\ goal = [t \in Tasks |-> "none"]
  /\ loops = [t \in Tasks |-> 1]
  /\ loop = [t \in Tasks |-> 1]
  /\ active = FALSE
  /\ child = NoChild
  /\ seen = [g \in Gate |-> FALSE]
  /\ fresh = [g \in Gate |-> FALSE]
  /\ acking = {}
  /\ nav = [c \in Chain |-> "unsent"]
  /\ cancels = {}

-----------------------------------------------------------------------------
(* The readiness gates. *)

Ready(g) == seen[g] /\ fresh[g]
GatesReady == \A g \in Required : Ready(g)

\* The child a callback cancels: the registered one, if a task is active.
CancelChild ==
  cancels' = IF active /\ child # NoChild THEN cancels \cup {child} ELSE cancels

\* A status message arrives; one that withdraws readiness cancels the child, even
\* that of a gate nothing requires (whose value, never read, is not kept here).
Report(g, ready) ==
  /\ IF g \in Required
     THEN seen' = [seen EXCEPT ![g] = ready] /\ fresh' = [fresh EXCEPT ![g] = TRUE]
     ELSE UNCHANGED gateVars
  /\ IF ready THEN UNCHANGED cancels ELSE CancelChild
  /\ UNCHANGED <<serverVars, acking, nav>>

\* No message came for longer than the gate's timeout.
Expire(g) ==
  /\ fresh[g]
  /\ fresh' = [fresh EXCEPT ![g] = FALSE]
  /\ UNCHANGED <<serverVars, seen, acking, navVars>>

\* What the 0.2 s timer counts as unsafe: a stale gate, and a gate that is not
\* ready - except safety, whose refusals are left to _safety_callback.
WatchdogUnsafe_IgnoresStale == \E g \in Required \ {"safety"} : ~seen[g]
WatchdogUnsafe ==
  \E g \in Required : ~fresh[g] \/ (g # "safety" /\ ~seen[g])

Watchdog ==
  /\ Required # {}
  /\ seen' = [g \in Gate |->
       seen[g] /\ (g \in Required \cap {"safety", "localization"} => fresh[g])]
  /\ IF WatchdogUnsafe THEN CancelChild ELSE UNCHANGED cancels
  /\ UNCHANGED <<serverVars, fresh, acking, nav>>

-----------------------------------------------------------------------------
(* Accepting a goal: two lock regions, with the other checks between them. *)

\* Every way in which _execute and _goal_callback leave: the state of the goal
\* handle, then the finally block.
End(t, outcome) ==
  /\ pc' = [pc EXCEPT ![t] = "finally"]
  /\ goal' = [goal EXCEPT ![t] = outcome]

Reject(t) ==
  /\ pc' = [pc EXCEPT ![t] = "done"]
  /\ goal' = [goal EXCEPT ![t] = "rejected"]

GoalRequestMutex(t) == SerialGoals => \A u \in Tasks : pc[u] # "checking"

\* First lock region of _goal_callback: is a task active?
GoalRequest(t) ==
  /\ pc[t] = "idle"
  /\ GoalRequestMutex(t)
  /\ IF active
     THEN Reject(t)
     ELSE pc' = [pc EXCEPT ![t] = "checking"] /\ UNCHANGED goal
  /\ UNCHANGED <<loops, loop, active, child, gateVars, acking, navVars>>

\* The request is malformed, or a gate is not ready.
GoalRefuse(t) ==
  /\ pc[t] = "checking"
  /\ Reject(t)
  /\ UNCHANGED <<loops, loop, active, child, gateVars, acking, navVars>>

\* Every check passed: the second lock region sets _active.
GoalAccept(t) ==
  /\ pc[t] = "checking"
  /\ GatesReady
  /\ \E n \in Loop : loops' = [loops EXCEPT ![t] = n]
  /\ pc' = [pc EXCEPT ![t] = "accepted"]
  /\ goal' = [goal EXCEPT ![t] = "executing"]
  /\ active' = TRUE
  /\ UNCHANGED <<loop, child, gateVars, acking, navVars>>

-----------------------------------------------------------------------------
(* Cancelling a goal. *)

\* cancel_callback: forwards to the registered child, whoever it belongs to.
CancelCallback(t) ==
  /\ goal[t] = "executing"
  /\ t \notin acking
  /\ acking' = acking \cup {t}
  /\ cancels' = IF child # NoChild THEN cancels \cup {child} ELSE cancels
  /\ UNCHANGED <<serverVars, gateVars, nav>>

\* rclpy makes the goal CANCELING when the callback has returned.
CancelAck(t) ==
  /\ t \in acking
  /\ acking' = acking \ {t}
  /\ goal' = IF goal[t] = "executing"
             THEN [goal EXCEPT ![t] = "canceling"] ELSE goal
  /\ UNCHANGED <<pc, loops, loop, active, child, gateVars, navVars>>

CancelRequested(t) == goal[t] = "canceling"

-----------------------------------------------------------------------------
(* Executing a goal. *)

\* Loading the task, the map and binding checks, waiting for Nav2: any of them
\* may fail, and a gate may have been lost.
PrepareFails(t) ==
  /\ pc[t] = "accepted"
  /\ End(t, "aborted")
  /\ UNCHANGED <<loops, loop, active, child, gateVars, acking, navVars>>

Prepare(t) ==
  /\ pc[t] = "accepted"
  /\ GatesReady
  /\ pc' = [pc EXCEPT ![t] = "loop"]
  /\ UNCHANGED <<goal, loops, loop, active, child, gateVars, acking, navVars>>

\* The head of the loop: leave when canceled, else send the next chain.
LoopsLeft(t) == loop[t] <= loops[t]

CanceledBeforeLoop(t) ==
  /\ pc[t] = "loop" /\ LoopsLeft(t) /\ CancelRequested(t)
  /\ End(t, "canceled")
  /\ UNCHANGED <<loops, loop, active, child, gateVars, acking, navVars>>

SendChain(t) ==
  /\ pc[t] = "loop" /\ LoopsLeft(t) /\ ~CancelRequested(t)
  /\ nav' = [nav EXCEPT ![<<t, loop[t]>>] = "requested"]
  /\ pc' = [pc EXCEPT ![t] = "sending"]
  /\ UNCHANGED <<goal, loops, loop, active, child, gateVars, acking, cancels>>

Succeed(t) ==
  /\ pc[t] = "loop" /\ ~LoopsLeft(t)
  /\ End(t, "succeeded")
  /\ UNCHANGED <<loops, loop, active, child, gateVars, acking, navVars>>

\* Nav2's answer to send_goal_async.
ChainRejected(t) ==
  /\ pc[t] = "sending" /\ nav[<<t, loop[t]>>] = "rejected"
  /\ End(t, "aborted")
  /\ UNCHANGED <<loops, loop, active, child, gateVars, acking, navVars>>

Register(t) == child' = <<t, loop[t]>>

RegisterChild(t) ==
  /\ pc[t] = "sending" /\ nav[<<t, loop[t]>>] \notin {"requested", "rejected"}
  /\ Register(t)
  /\ pc' = [pc EXCEPT ![t] = "handed"]
  /\ UNCHANGED <<goal, loops, loop, active, gateVars, acking, navVars>>

\* The cancel request is read again once the child is registered: one that came
\* while Nav2 was being asked found no child to cancel.
AfterHandover_LeavesChild(t) == IF CancelRequested(t) THEN "finally" ELSE "awaitResult"
AfterHandover(t) == IF CancelRequested(t) THEN "awaitCancel" ELSE "awaitResult"

Handover(t) ==
  /\ pc[t] = "handed"
  /\ pc' = [pc EXCEPT ![t] = AfterHandover(t)]
  /\ UNCHANGED <<goal, loops, loop, active, child, gateVars, acking, navVars>>

\* Nav2 answers the cancel the task awaits. It lists no goal in goals_canceling
\* when the chain is over or already canceling; the task does not wait for the
\* chain to stop.
CancelAnswered(t) ==
  LET c == <<t, loop[t]>> IN
  /\ pc[t] = "awaitCancel"
  /\ IF nav[c] = "running"
     THEN nav' = [nav EXCEPT ![c] = "canceling"] /\ End(t, "canceled")
     ELSE UNCHANGED nav /\ End(t, "aborted")
  /\ UNCHANGED <<loops, loop, active, child, gateVars, acking, cancels>>

ChainResult(t) ==
  /\ pc[t] = "awaitResult" /\ nav[<<t, loop[t]>>] \in NavOver
  /\ child' = NoChild
  /\ pc' = [pc EXCEPT ![t] = "check"]
  /\ UNCHANGED <<goal, loops, loop, active, gateVars, acking, navVars>>

\* The checks on a result, in the code's order.
ResultAccepted_AnyStatus(t) == TRUE
ResultAccepted(t) == nav[<<t, loop[t]>>] = "succeeded"

CheckCanceled(t) ==
  /\ pc[t] = "check" /\ CancelRequested(t)
  /\ End(t, "canceled")
  /\ UNCHANGED <<loops, loop, active, child, gateVars, acking, navVars>>

CheckFails(t) ==
  /\ pc[t] = "check" /\ ~CancelRequested(t)
  /\ ~GatesReady \/ ~ResultAccepted(t)
  /\ End(t, "aborted")
  /\ UNCHANGED <<loops, loop, active, child, gateVars, acking, navVars>>

CheckPasses(t) ==
  /\ pc[t] = "check" /\ ~CancelRequested(t)
  /\ GatesReady /\ ResultAccepted(t)
  /\ loop' = [loop EXCEPT ![t] = @ + 1]
  /\ pc' = [pc EXCEPT ![t] = "loop"]
  /\ UNCHANGED <<goal, loops, active, child, gateVars, acking, navVars>>

\* The finally block: it clears the shared fields whatever task they serve.
Release_KeepsActive == UNCHANGED active
Release == active' = FALSE

Finally(t) ==
  /\ pc[t] = "finally"
  /\ pc' = [pc EXCEPT ![t] = "done"]
  /\ child' = NoChild
  /\ Release
  /\ UNCHANGED <<goal, loops, loop, gateVars, acking, navVars>>

-----------------------------------------------------------------------------
(* Nav2's FollowWaypoints server (external). *)

NavAnswers(c) ==
  /\ nav[c] = "requested"
  /\ \E s \in {"running", "rejected"} : nav' = [nav EXCEPT ![c] = s]
  /\ UNCHANGED <<serverVars, gateVars, acking, cancels>>

NavEnds(c) ==
  /\ nav[c] = "running"
  /\ \E s \in {"succeeded", "missed", "aborted"} : nav' = [nav EXCEPT ![c] = s]
  /\ UNCHANGED <<serverVars, gateVars, acking, cancels>>

NavCancels(c) ==
  /\ c \in cancels
  /\ cancels' = cancels \ {c}
  /\ nav' = IF nav[c] = "running" THEN [nav EXCEPT ![c] = "canceling"] ELSE nav
  /\ UNCHANGED <<serverVars, gateVars, acking>>

NavStops(c) ==
  /\ nav[c] = "canceling"
  /\ \E s \in {"canceled", "succeeded", "aborted"} : nav' = [nav EXCEPT ![c] = s]
  /\ UNCHANGED <<serverVars, gateVars, acking, cancels>>

-----------------------------------------------------------------------------
Execute(t) ==
  \/ PrepareFails(t) \/ Prepare(t) \/ CanceledBeforeLoop(t) \/ SendChain(t)
  \/ Succeed(t) \/ ChainRejected(t) \/ RegisterChild(t) \/ Handover(t)
  \/ CancelAnswered(t) \/ ChainResult(t) \/ CheckCanceled(t) \/ CheckFails(t)
  \/ CheckPasses(t) \/ Finally(t)

Next ==
  \/ \E t \in Tasks :
       \/ GoalRequest(t) \/ GoalRefuse(t) \/ GoalAccept(t)
       \/ CancelCallback(t) \/ CancelAck(t) \/ Execute(t)
  \/ \E g \in Required : Expire(g)
  \/ \E g \in Gate, ready \in BOOLEAN : Report(g, ready)
  \/ Watchdog
  \/ \E c \in Chain : NavAnswers(c) \/ NavEnds(c) \/ NavCancels(c) \/ NavStops(c)

\* The executor keeps running its callbacks, the timer keeps firing, a gate's
\* publisher keeps publishing or falls silent, and Nav2 handles its requests.
\* Nothing makes a running chain end by itself.
Fairness ==
  /\ \A t \in Tasks :
       /\ WF_vars(Execute(t)) /\ WF_vars(CancelAck(t))
       /\ WF_vars(GoalRefuse(t) \/ GoalAccept(t))
  /\ \A g \in Required : WF_vars(Expire(g) \/ \E ready \in BOOLEAN : Report(g, ready))
  /\ WF_vars(Watchdog)
  /\ \A c \in Chain :
       WF_vars(NavAnswers(c)) /\ WF_vars(NavCancels(c)) /\ WF_vars(NavStops(c))

Spec == Init /\ [][Next]_vars
FairSpec == Spec /\ Fairness

-----------------------------------------------------------------------------
(* Properties. *)

\* A task is live from its acceptance to its finally block.
Live(t) == pc[t] \notin {"idle", "checking", "done"}

\* No two accepted tasks are executed at the same time, although the test of
\* _active and its assignment are in different lock regions of _goal_callback.
OneLiveTask == \A t, u \in Tasks : Live(t) /\ Live(u) => t = u

\* Nav2 drives a chain nobody asked it to stop only for a task that is live and
\* on that loop: no path through _execute ends a task (canceled, aborted,
\* failed or succeeded) and leaves its FollowWaypoints goal running.
NoOrphanChain ==
  \A t \in Tasks : \A n \in Loop :
    nav[<<t, n>>] \in {"requested", "running"} => Live(t) /\ loop[t] = n

\* While a task awaits the result of its chain, that chain is the child the
\* callbacks and the timer cancel, and _active lets them.
AwaitedChainIsSupervised ==
  \A t \in Tasks :
    pc[t] \in {"handed", "awaitCancel", "awaitResult"} =>
      active /\ child = <<t, loop[t]>>

\* A task reported as succeeded has driven its chain loop_count times, each to
\* the end and without missed waypoints.
SuccessIsComplete ==
  \A t \in Tasks : goal[t] = "succeeded" =>
    \A n \in 1 .. loops[t] : nav[<<t, n>>] = "succeeded"

\* A readiness gate that is lost while the chain runs stops the chain, unless
\* every gate is ready again first: no window between the callbacks, the timer
\* and the registration of the child loses the request for good.
LossStopsChain ==
  \A c \in Chain :
    (nav[c] = "running" /\ ~GatesReady) ~> (nav[c] # "running" \/ GatesReady)

\* Every accepted task ends and releases the server for the next one, in a world
\* where the robot always reaches or gives up its chain.
EveryTaskEnds ==
  (\A c \in Chain : WF_vars(NavEnds(c)))
    => \A t \in Tasks : Live(t) ~> (pc[t] = "done" /\ ~active)
=============================================================================
