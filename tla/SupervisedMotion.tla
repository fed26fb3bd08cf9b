-------------------------- MODULE SupervisedMotion --------------------------
(***************************************************************************)
(* What the task servers of this repository promise about the motion they  *)
(* start: a task drives the robot through one Nav2 goal (a run) at a time, *)
(* and is reported only when none of its runs is driven any more, each     *)
(* having ended or having been told to stop; it is reported as succeeded   *)
(* only when every run it started was driven to its end.                   *)
(*                                                                         *)
(* A run that Nav2 was asked for is not known to the server before Nav2    *)
(* answers.  A server that does not wait for the answer may report a task  *)
(* and lose such a run, which Nav2 then drives to its end; no server loses *)
(* a run it knows.                                                         *)
(*                                                                         *)
(* WaypointTask and CoverageExecution implement it, each through the       *)
(* mapping at its end.                                                     *)
(***************************************************************************)

CONSTANTS
  Tasks,       \* what clients submit
  Runs,        \* the Nav2 goals the tasks may start
  Owner,       \* the task of each run: a function from Runs to Tasks
  MayLose      \* whether a task may be reported before Nav2 answers

VARIABLES
  report,      \* open, or how the task was reported
  motion       \* the state of each run

TypeOK ==
  /\ report \in [Tasks -> {"open", "succeeded", "ended"}]
  /\ motion \in [Runs -> {"none", "asked", "driven", "stopping", "reached", "over"}]

Init ==
  /\ report = [t \in Tasks |-> "open"]
  /\ motion = [r \in Runs |-> "none"]

RunsOf(t) == {r \in Runs : Owner[r] = t}

\* A task that is not reported starts a run, when it has no other: one it can
\* stop at once, or one it has to wait for.
Start(r) ==
  /\ motion[r] = "none" /\ report[Owner[r]] = "open"
  /\ \A q \in RunsOf(Owner[r]) : motion[q] \notin {"asked", "driven"}
  /\ \E s \in {"asked", "driven"} : motion' = [motion EXCEPT ![r] = s]
  /\ UNCHANGED report

Learn(r) ==
  /\ motion[r] = "asked" /\ report[Owner[r]] = "open"
  /\ motion' = [motion EXCEPT ![r] = "driven"]
  /\ UNCHANGED report

Stop(r) ==
  /\ motion[r] = "driven"
  /\ motion' = [motion EXCEPT ![r] = "stopping"]
  /\ UNCHANGED report

End(r) ==
  /\ motion[r] \in {"asked", "driven", "stopping"}
  /\ \E s \in {"reached", "over"} : motion' = [motion EXCEPT ![r] = s]
  /\ UNCHANGED report

\* A task is reported; a run that is still driven is stopped by the same step.
ReportEnded(t) ==
  /\ report[t] = "open"
  /\ MayLose \/ \A r \in RunsOf(t) : motion[r] # "asked"
  /\ report' = [report EXCEPT ![t] = "ended"]
  /\ motion' = [r \in Runs |-> IF Owner[r] = t /\ motion[r] = "driven"
                               THEN "stopping" ELSE motion[r]]

ReportSucceeded(t) ==
  /\ report[t] = "open"
  /\ \E r \in RunsOf(t) : motion[r] = "reached"
  /\ \A r \in RunsOf(t) : motion[r] \in {"none", "reached"}
  /\ report' = [report EXCEPT ![t] = "succeeded"]
  /\ UNCHANGED motion

Next ==
  \/ \E r \in Runs : Start(r) \/ Learn(r) \/ Stop(r) \/ End(r)
  \/ \E t \in Tasks : ReportEnded(t) \/ ReportSucceeded(t)

Spec == Init /\ [][Next]_<<report, motion>>
=============================================================================
