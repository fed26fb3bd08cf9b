--------------------------- MODULE WaypointMotion ---------------------------
(* WaypointTask implements SupervisedMotion: a FollowWaypoints goal is a run. *)
EXTENDS WaypointTask

Reported(t) ==
  CASE goal[t] \in {"none", "executing", "canceling"} -> "open"
    [] goal[t] = "succeeded" -> "succeeded"
    [] OTHER -> "ended"

Motion(c) ==
  CASE nav[c] = "unsent" -> "none"
    [] nav[c] \in {"requested", "running"} -> "driven"
    [] nav[c] = "canceling" -> "stopping"
    [] nav[c] = "succeeded" -> "reached"
    [] OTHER -> "over"

Supervised == INSTANCE SupervisedMotion WITH
  Runs <- Chain,
  Owner <- [c \in Chain |-> c[1]],
  MayLose <- FALSE,
  report <- [t \in Tasks |-> Reported(t)],
  motion <- [c \in Chain |-> Motion(c)]

\* No interleaving of callbacks, timer, cancellations and Nav2 lets a waypoint
\* task be reported while its chain is driven, or reported as succeeded although
\* a loop it started was not driven to its end, or drive two chains of one task
\* at once.
SupervisesMotion == Supervised!Spec
=============================================================================
