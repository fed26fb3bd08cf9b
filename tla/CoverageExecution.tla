------------------------- MODULE CoverageExecution --------------------------
(***************************************************************************)
(* The execution half of the coverage task server of agt_coverage_planning *)
(* (scripts/coverage_task_server.py): a reserved task prepares its path,   *)
(* sends it to Nav2 as one FollowPath goal and polls its result, the       *)
(* client's cancellation, the safety status and the execution deadline.    *)
(*                                                                         *)
(* The server runs each task in one executor thread that polls; the goal   *)
(* and cancel callbacks and the status subscriptions run in other threads. *)
(* How the path is prepared is the subject of CoverageProducts.            *)
(*                                                                         *)
(* External: the rclpy action server, and Nav2's FollowPath server, whose  *)
(* answers and results take time to arrive.                                *)
(***************************************************************************)
EXTENDS Naturals, FiniteSets

CONSTANTS
  Tasks,       \* the ExecuteCoverageTask goals the clients submit
  Deadline     \* execution_timeout > 0

ASSUME ExecutionAssumption == Deadline \in BOOLEAN

VARIABLES
  pc,        \* where the handling of each task is
  goal,      \* the rclpy state of each task's goal handle
  reserved,  \* _goal_reserved
  safe,      \* _safety_ready()
  nav,       \* state of each task's FollowPath goal in Nav2
  answered,  \* tasks whose goal response has arrived: the server can have a handle
  child,     \* tasks whose executing thread has the handle of its FollowPath goal
  stopWhy,   \* why the task is cancelling its child: the outcome it will report
  cancels,   \* cancel requests sent to Nav2 and not yet handled there
  reply      \* Nav2's answer to the cancel request

serverVars == <<pc, goal, reserved, child, stopWhy>>
navVars == <<nav, answered, cancels, reply>>
vars == <<serverVars, safe, navVars>>

Stage == {"idle", "prepare", "ready", "checked", "send", "run", "stop", "finally", "done"}
GoalState == {"none", "rejected", "executing", "canceling",
              "succeeded", "canceled", "aborted"}
NavState == {"unsent", "requested", "rejected", "running", "canceling",
             "succeeded", "canceled", "aborted"}
NavOver == {"rejected", "succeeded", "canceled", "aborted"}

TypeOK ==
  /\ pc \in [Tasks -> Stage]
  /\ goal \in [Tasks -> GoalState]
  /\ reserved \in BOOLEAN /\ safe \in BOOLEAN
  /\ nav \in [Tasks -> NavState]
  /\ answered \subseteq Tasks /\ child \subseteq Tasks /\ cancels \subseteq Tasks
  /\ stopWhy \in [Tasks -> {"canceled", "aborted"}]
  /\ reply \in [Tasks -> {"none", "accepted", "refused"}]

Init ==
  /\ pc = [t \in Tasks |-> "idle"]
  /\ goal = [t \in Tasks |-> "none"]
  /\ reserved = FALSE /\ safe = FALSE
  /\ nav = [t \in Tasks |-> "unsent"]
  /\ answered = {} /\ child = {} /\ cancels = {}
  /\ stopWhy = [t \in Tasks |-> "aborted"]
  /\ reply = [t \in Tasks |-> "none"]

-----------------------------------------------------------------------------
(* Callbacks. *)

\* _goal_callback: the reservation is tested and set in one lock region.
GoalRequest(t) ==
  /\ pc[t] = "idle"
  /\ IF reserved
     THEN /\ pc' = [pc EXCEPT ![t] = "done"]
          /\ goal' = [goal EXCEPT ![t] = "rejected"]
          /\ UNCHANGED reserved
     ELSE /\ pc' = [pc EXCEPT ![t] = "prepare"]
          /\ goal' = [goal EXCEPT ![t] = "executing"]
          /\ reserved' = TRUE
  /\ UNCHANGED <<safe, child, stopWhy, navVars>>

\* _cancel_callback accepts every cancel; the executing thread polls for it.
CancelRequest(t) ==
  /\ goal[t] = "executing"
  /\ goal' = [goal EXCEPT ![t] = "canceling"]
  /\ UNCHANGED <<pc, reserved, child, stopWhy, safe, navVars>>

CancelRequested(t) == goal[t] = "canceling"

\* A safety status arrives, or the last one becomes too old.
SafetyChanges ==
  /\ safe' = ~safe
  /\ UNCHANGED <<serverVars, navVars>>

-----------------------------------------------------------------------------
(* _execute, up to the FollowPath goal. *)

\* The state of the goal handle, then the finally block.
End(t, outcome) ==
  /\ pc' = [pc EXCEPT ![t] = "finally"]
  /\ goal' = [goal EXCEPT ![t] = outcome]
  /\ UNCHANGED <<reserved, child>>

\* A wait polls the cancel request first: it ends by the cancel, or by a failure
\* or the stage timeout, which may be noticed just before a cancel is.
GiveUp(t) ==
  \E outcome \in {"canceled", "aborted"} :
    /\ outcome = "canceled" => CancelRequested(t)
    /\ End(t, outcome)

\* _prepare_path: any of its waits may be given up.
PrepareEnds(t) ==
  /\ pc[t] = "prepare"
  /\ GiveUp(t)
  /\ UNCHANGED <<stopWhy, safe, navVars>>

Prepared(t) ==
  /\ pc[t] = "prepare"
  /\ pc' = [pc EXCEPT ![t] = "ready"]
  /\ UNCHANGED <<goal, reserved, child, stopWhy, safe, navVars>>

\* _require_execution_ready and build_progress_model refuse: disabled, not safe,
\* map no longer loaded, Nav2 not ready, or path without its swaths.
NotReady(t) ==
  /\ pc[t] \in {"ready", "checked"}
  /\ End(t, "aborted")
  /\ UNCHANGED <<stopWhy, safe, navVars>>

Checked(t) ==
  /\ pc[t] = "ready" /\ safe
  /\ pc' = [pc EXCEPT ![t] = "checked"]
  /\ UNCHANGED <<goal, reserved, child, stopWhy, safe, navVars>>

SendPath(t) ==
  /\ pc[t] = "checked"
  /\ nav' = [nav EXCEPT ![t] = "requested"]
  /\ pc' = [pc EXCEPT ![t] = "send"]
  /\ UNCHANGED <<goal, reserved, child, stopWhy, safe, answered, cancels, reply>>

\* _wait_future while Nav2 is asked: a cancel, or the stage timeout, ends the task
\* before it has the handle of its child.
SendGivenUp(t) ==
  /\ pc[t] = "send" /\ t \notin answered
  /\ GiveUp(t)
  /\ UNCHANGED <<stopWhy, safe, navVars>>

SendRefused(t) ==
  /\ pc[t] = "send" /\ t \in answered /\ nav[t] = "rejected"
  /\ End(t, "aborted")
  /\ UNCHANGED <<stopWhy, safe, navVars>>

SendAccepted(t) ==
  /\ pc[t] = "send" /\ t \in answered /\ nav[t] # "rejected"
  /\ child' = child \cup {t}
  /\ pc' = [pc EXCEPT ![t] = "run"]
  /\ UNCHANGED <<goal, reserved, stopWhy, safe, navVars>>

-----------------------------------------------------------------------------
(* _execute_path: one turn of the polling loop. *)

\* _cancel_child sends the request; why is what the task reports afterwards.
StopChild(t, why) ==
  /\ pc' = [pc EXCEPT ![t] = "stop"]
  /\ stopWhy' = [stopWhy EXCEPT ![t] = why]
  /\ cancels' = cancels \cup {t}
  /\ UNCHANGED <<goal, reserved, child, safe, nav, answered, reply>>

RunCanceled(t) ==
  /\ pc[t] = "run" /\ CancelRequested(t)
  /\ StopChild(t, "canceled")

RunUnsafe_LeavesChild(t) ==
  /\ pc[t] = "run" /\ ~CancelRequested(t) /\ ~safe
  /\ End(t, "aborted")
  /\ UNCHANGED <<stopWhy, safe, navVars>>
RunUnsafe_Never(t) == FALSE
RunUnsafe(t) ==
  /\ pc[t] = "run" /\ ~CancelRequested(t) /\ ~safe
  /\ StopChild(t, "aborted")

RunTimesOut(t) ==
  /\ Deadline
  /\ pc[t] = "run" /\ ~CancelRequested(t) /\ safe
  /\ StopChild(t, "aborted")

RunSucceeds(t) == nav[t] = "succeeded"

\* The result has arrived before the loop looked at anything else.
RunEnds(t) ==
  /\ pc[t] = "run" /\ nav[t] \in NavOver
  /\ End(t, IF RunSucceeds(t) THEN "succeeded" ELSE "aborted")
  /\ UNCHANGED <<stopWhy, safe, navVars>>

\* _cancel_child returns: Nav2 accepted, refused, or service_timeout passed.
StopAccepted_Unconfirmed(t) ==
  /\ pc[t] = "stop"
  /\ End(t, stopWhy[t])
  /\ UNCHANGED <<stopWhy, safe, navVars>>
StopAccepted(t) ==
  /\ pc[t] = "stop" /\ reply[t] = "accepted"
  /\ End(t, stopWhy[t])
  /\ UNCHANGED <<stopWhy, safe, navVars>>

StopFails(t) ==
  /\ pc[t] = "stop" /\ reply[t] # "accepted"
  /\ End(t, "aborted")
  /\ UNCHANGED <<stopWhy, safe, navVars>>

Finally_KeepsReservation(t) ==
  /\ pc[t] = "finally"
  /\ pc' = [pc EXCEPT ![t] = "done"]
  /\ UNCHANGED <<goal, reserved, child, stopWhy, safe, navVars>>
Finally(t) ==
  /\ pc[t] = "finally"
  /\ pc' = [pc EXCEPT ![t] = "done"]
  /\ reserved' = FALSE
  /\ UNCHANGED <<goal, child, stopWhy, safe, navVars>>

-----------------------------------------------------------------------------
(* Nav2's FollowPath server (external). *)

NavAnswers(t) ==
  /\ nav[t] = "requested"
  /\ \E s \in {"running", "rejected"} : nav' = [nav EXCEPT ![t] = s]
  /\ UNCHANGED <<serverVars, safe, answered, cancels, reply>>

\* The goal response reaches the node, whether or not a thread still waits.
AnswerArrives(t) ==
  /\ nav[t] \notin {"unsent", "requested"} /\ t \notin answered
  /\ answered' = answered \cup {t}
  /\ UNCHANGED <<serverVars, safe, nav, cancels, reply>>

NavEnds(t) ==
  /\ nav[t] = "running"
  /\ \E s \in {"succeeded", "aborted"} : nav' = [nav EXCEPT ![t] = s]
  /\ UNCHANGED <<serverVars, safe, answered, cancels, reply>>

NavCancels(t) ==
  /\ t \in cancels
  /\ cancels' = cancels \ {t}
  /\ IF nav[t] = "running"
     THEN /\ nav' = [nav EXCEPT ![t] = "canceling"]
          /\ reply' = [reply EXCEPT ![t] = "accepted"]
     ELSE /\ UNCHANGED nav
          /\ reply' = [reply EXCEPT ![t] = "refused"]
  /\ UNCHANGED <<serverVars, safe, answered>>

NavStops(t) ==
  /\ nav[t] = "canceling"
  /\ \E s \in {"canceled", "succeeded", "aborted"} : nav' = [nav EXCEPT ![t] = s]
  /\ UNCHANGED <<serverVars, safe, answered, cancels, reply>>

-----------------------------------------------------------------------------
Execute(t) ==
  \/ PrepareEnds(t) \/ Prepared(t) \/ NotReady(t) \/ Checked(t) \/ SendPath(t)
  \/ SendGivenUp(t) \/ SendRefused(t) \/ SendAccepted(t)
  \/ RunCanceled(t) \/ RunUnsafe(t) \/ RunTimesOut(t) \/ RunEnds(t)
  \/ StopAccepted(t) \/ StopFails(t) \/ Finally(t)

Next ==
  \/ \E t \in Tasks :
       \/ GoalRequest(t) \/ CancelRequest(t) \/ Execute(t)
       \/ NavAnswers(t) \/ AnswerArrives(t) \/ NavEnds(t) \/ NavCancels(t) \/ NavStops(t)
  \/ SafetyChanges

\* The executing thread keeps polling, and Nav2 handles its requests; the robot
\* need not reach the end of a path, nor a client submit or cancel.
Fairness ==
  \A t \in Tasks :
    /\ WF_vars(Execute(t)) /\ WF_vars(NavAnswers(t)) /\ WF_vars(AnswerArrives(t))
    /\ WF_vars(NavCancels(t)) /\ WF_vars(NavStops(t))

Spec == Init /\ [][Next]_vars
FairSpec == Spec /\ Fairness

-----------------------------------------------------------------------------
(* Properties. *)

Left(t) == pc[t] \in {"finally", "done"}

\* A task that had the handle of its FollowPath goal never leaves that path
\* running without a cancel request on its way: not on a cancel, on the loss of
\* safety, on the deadline, nor when the cancel itself is refused or unanswered.
KnownPathIsStopped ==
  \A t \in Tasks : Left(t) /\ t \in child /\ nav[t] = "running" => t \in cancels

\* A task is reported canceled in the execution stage only after Nav2 took the
\* cancel of its path, and succeeded only after the path was driven to its end.
ReportIsConfirmed ==
  \A t \in child :
    /\ goal[t] = "canceled" => nav[t] # "running"
    /\ goal[t] = "succeeded" => nav[t] = "succeeded"

\* While a path is executed, the loss of safety stops it or is over before.
UnsafeStopsPath ==
  \A t \in Tasks :
    (pc[t] = "run" /\ ~safe) ~> (nav[t] # "running" \/ safe)

\* Every accepted task ends, and the server can take the next one, in a world
\* where the robot ends or gives up each path.
EveryTaskEnds ==
  (\A t \in Tasks : WF_vars(NavEnds(t)))
    => \A t \in Tasks : (goal[t] \in {"executing", "canceling"})
                           ~> (pc[t] = "done" /\ ~reserved)
=============================================================================
