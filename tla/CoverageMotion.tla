--------------------------- MODULE CoverageMotion ---------------------------
(* CoverageExecution implements SupervisedMotion: the FollowPath goal of a   *)
(* task is its only run, known once the executing thread has its handle.     *)
EXTENDS CoverageExecution

Reported(t) ==
  CASE goal[t] \in {"none", "executing", "canceling"} -> "open"
    [] goal[t] = "succeeded" -> "succeeded"
    [] OTHER -> "ended"

Motion(t) ==
  CASE nav[t] = "unsent" -> "none"
    [] nav[t] \in {"requested", "running"} /\ t \notin child -> "asked"
    [] nav[t] = "running" /\ t \in child \ cancels -> "driven"
    [] nav[t] = "canceling" \/ (nav[t] = "running" /\ t \in child \cap cancels) -> "stopping"
    [] nav[t] = "succeeded" -> "reached"
    [] OTHER -> "over"

Supervised == INSTANCE SupervisedMotion WITH
  Runs <- Tasks,
  Owner <- [t \in Tasks |-> t],
  MayLose <- TRUE,
  report <- [t \in Tasks |-> Reported(t)],
  motion <- [t \in Tasks |-> Motion(t)]

\* A coverage task is reported only when its path is not driven any more or was
\* told to stop, and as succeeded only when it was driven to its end; the one path
\* it may leave behind is that of a FollowPath goal Nav2 had not yet answered when
\* a cancel or the stage timeout ended the task.
SupervisesMotion == Supervised!Spec
=============================================================================
