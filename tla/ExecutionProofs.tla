-------------------------- MODULE ExecutionProofs ---------------------------
(***************************************************************************)
(* Proofs about what drives a planned path: the execution of a coverage    *)
(* task, the repair of its path, and the executor of a taught path.        *)
(***************************************************************************)
EXTENDS CoverageMotion, CoverageRepair, TeachExecution, TLAPS

-----------------------------------------------------------------------------
(***************************************************************************)
(* CoverageExecution, for any number of tasks.  The invariant ties, task by *)
(* task, where the executing thread is to what Nav2 was told about its     *)
(* path: the reservation plays no part in it.                              *)
(***************************************************************************)

Before(t) == pc[t] \in {"idle", "prepare", "ready", "checked"}

\* Where the task is, against the state of its path in Nav2.
PathInv(t) ==
  /\ Before(t) => nav[t] = "unsent" /\ t \notin child
  /\ pc[t] = "send" => nav[t] # "unsent" /\ t \notin child
  /\ pc[t] \in {"run", "stop"} => t \in child
  /\ t \in answered => nav[t] \notin {"unsent", "requested"}
  /\ t \in child => nav[t] \notin {"unsent", "requested", "rejected"}

\* Where the task is, against the cancel of its path.
CancelInv(t) ==
  /\ pc[t] \in {"idle", "prepare", "ready", "checked", "send", "run"} =>
       t \notin cancels /\ reply[t] = "none"
  /\ pc[t] = "stop" => t \in cancels \/ reply[t] # "none"
  /\ t \in cancels \/ reply[t] # "none" => t \in child
  /\ reply[t] # "none" => nav[t] # "running" /\ t \notin cancels

\* What the task reported, against both.
ReportInv(t) ==
  /\ pc[t] = "idle" <=> goal[t] = "none"
  /\ goal[t] \in {"succeeded", "canceled", "aborted", "rejected"} <=> Left(t)
  /\ Left(t) /\ t \in child /\ nav[t] = "running" => t \in cancels
  /\ goal[t] = "canceled" /\ t \in child => reply[t] = "accepted"
  /\ goal[t] = "succeeded" => nav[t] = "succeeded"
  /\ stopWhy[t] # "succeeded"

IInv == TypeOK /\ \A t \in Tasks : PathInv(t) /\ CancelInv(t) /\ ReportInv(t)

LEMMA InvInit == Init => IInv
BY ZenonT(60) DEF Init, IInv, TypeOK, PathInv, CancelInv, ReportInv, Before, Left, Stage,
       GoalState, NavState

-----------------------------------------------------------------------------
(* Types. *)

LEMMA TypeStep == ASSUME TypeOK, [Next]_vars PROVE TypeOK'
<1> USE DEF TypeOK, Stage, GoalState, NavState, NavOver, serverVars, navVars
<1>1. CASE UNCHANGED vars
  BY <1>1 DEF vars
<1>2. CASE SafetyChanges
  BY <1>2 DEF SafetyChanges
<1>3. ASSUME NEW t \in Tasks, GoalRequest(t) \/ CancelRequest(t) PROVE TypeOK'
  BY <1>3 DEF GoalRequest, CancelRequest
<1>4. ASSUME NEW t \in Tasks,
             PrepareEnds(t) \/ Prepared(t) \/ NotReady(t) \/ Checked(t) \/ SendPath(t)
      PROVE  TypeOK'
  BY <1>4 DEF PrepareEnds, GiveUp, Prepared, NotReady, Checked, SendPath, End
<1>5. ASSUME NEW t \in Tasks, SendGivenUp(t) \/ SendRefused(t) \/ SendAccepted(t)
      PROVE  TypeOK'
  BY <1>5 DEF SendGivenUp, GiveUp, SendRefused, SendAccepted, End
<1>6. ASSUME NEW t \in Tasks, RunCanceled(t) \/ RunUnsafe(t) \/ RunTimesOut(t)
      PROVE  TypeOK'
  BY <1>6 DEF RunCanceled, RunUnsafe, RunTimesOut, StopChild
<1>7. ASSUME NEW t \in Tasks, RunEnds(t) \/ StopAccepted(t) \/ StopFails(t) \/ Finally(t)
      PROVE  TypeOK'
  <2>1. CASE RunEnds(t)
    BY <2>1 DEF RunEnds, End
  <2>2. CASE StopAccepted(t)
    <3>1. stopWhy[t] \in {"canceled", "aborted"}
      OBVIOUS
    <3>2. QED
      BY <2>2, <3>1 DEF StopAccepted, End
  <2>3. CASE StopFails(t) \/ Finally(t)
    BY <2>3 DEF StopFails, Finally, End
  <2>4. QED
    BY <1>7, <2>1, <2>2, <2>3
<1>8. ASSUME NEW t \in Tasks,
             NavAnswers(t) \/ AnswerArrives(t) \/ NavEnds(t) \/ NavCancels(t) \/ NavStops(t)
      PROVE  TypeOK'
  BY <1>8 DEF NavAnswers, AnswerArrives, NavEnds, NavCancels, NavStops
<1>9. QED
  BY <1>1, <1>2, <1>3, <1>4, <1>5, <1>6, <1>7, <1>8 DEF Next, Execute

-----------------------------------------------------------------------------
(* The invariant. *)

TaskInv(t) == PathInv(t) /\ CancelInv(t) /\ ReportInv(t)

\* A step that changes nothing of a task keeps what is known of it.
LEMMA Untouched ==
  ASSUME NEW u \in Tasks, TaskInv(u),
         /\ pc'[u] = pc[u] /\ goal'[u] = goal[u] /\ nav'[u] = nav[u]
         /\ reply'[u] = reply[u] /\ stopWhy'[u] = stopWhy[u]
         /\ u \in answered' <=> u \in answered
         /\ u \in child' <=> u \in child
         /\ u \in cancels' <=> u \in cancels
  PROVE  TaskInv(u)'
BY DEF TaskInv, PathInv, CancelInv, ReportInv, Before, Left

\* Each action of a task touches that task alone.
LEMMA OneTask ==
  ASSUME TypeOK, NEW t \in Tasks, NEW u \in Tasks, t # u,
         \/ GoalRequest(t) \/ CancelRequest(t) \/ Execute(t)
         \/ NavAnswers(t) \/ AnswerArrives(t) \/ NavEnds(t) \/ NavCancels(t)
         \/ NavStops(t)
  PROVE  /\ pc'[u] = pc[u] /\ goal'[u] = goal[u] /\ nav'[u] = nav[u]
         /\ reply'[u] = reply[u] /\ stopWhy'[u] = stopWhy[u]
         /\ u \in answered' <=> u \in answered
         /\ u \in child' <=> u \in child
         /\ u \in cancels' <=> u \in cancels
<1> USE DEF TypeOK, serverVars, navVars
<1>1. CASE GoalRequest(t) \/ CancelRequest(t)
  BY <1>1 DEF GoalRequest, CancelRequest
<1>2. CASE \/ PrepareEnds(t) \/ Prepared(t) \/ NotReady(t) \/ Checked(t) \/ SendPath(t)
           \/ SendGivenUp(t) \/ SendRefused(t) \/ SendAccepted(t)
  BY <1>2 DEF PrepareEnds, GiveUp, Prepared, NotReady, Checked, SendPath, SendGivenUp,
              SendRefused, SendAccepted, End
<1>3. CASE \/ RunCanceled(t) \/ RunUnsafe(t) \/ RunTimesOut(t) \/ RunEnds(t)
           \/ StopAccepted(t) \/ StopFails(t) \/ Finally(t)
  BY <1>3 DEF RunCanceled, RunUnsafe, RunTimesOut, StopChild, RunEnds, StopAccepted,
              StopFails, Finally, End
<1>4. CASE \/ NavAnswers(t) \/ AnswerArrives(t) \/ NavEnds(t) \/ NavCancels(t)
           \/ NavStops(t)
  BY <1>4 DEF NavAnswers, AnswerArrives, NavEnds, NavCancels, NavStops
<1>5. QED
  BY <1>1, <1>2, <1>3, <1>4 DEF Execute

\* The executing thread of a task keeps what is known of it.
LEMMA ThreadStep ==
  ASSUME TypeOK, NEW t \in Tasks, TaskInv(t), Execute(t)
  PROVE  TaskInv(t)'
<1> USE DEF TypeOK, TaskInv, PathInv, CancelInv, ReportInv, Before, Left, serverVars,
            navVars
<1>1. CASE PrepareEnds(t)
  BY <1>1 DEF PrepareEnds, GiveUp, End, CancelRequested
<1>2. CASE Prepared(t)
  BY <1>2 DEF Prepared
<1>3. CASE NotReady(t)
  BY <1>3 DEF NotReady, End
<1>4. CASE Checked(t)
  BY <1>4 DEF Checked
<1>5. CASE SendPath(t)
  BY <1>5 DEF SendPath
<1>6. CASE SendGivenUp(t)
  BY <1>6 DEF SendGivenUp, GiveUp, End
<1>7. CASE SendRefused(t)
  BY <1>7 DEF SendRefused, End
<1>8. CASE SendAccepted(t)
  BY <1>8 DEF SendAccepted
<1>9. CASE RunCanceled(t) \/ RunUnsafe(t) \/ RunTimesOut(t)
  BY <1>9 DEF RunCanceled, RunUnsafe, RunTimesOut, StopChild
<1>10. CASE RunEnds(t)
  BY <1>10 DEF RunEnds, RunSucceeds, NavOver, End
<1>11. CASE StopAccepted(t)
  <2>1. stopWhy[t] \in {"canceled", "aborted"}
    OBVIOUS
  <2>2. QED
    BY <1>11, <2>1 DEF StopAccepted, End
<1>12. CASE StopFails(t)
  BY <1>12 DEF StopFails, End
<1>13. CASE Finally(t)
  BY <1>13 DEF Finally
<1>14. QED
  BY <1>1, <1>2, <1>3, <1>4, <1>5, <1>6, <1>7, <1>8, <1>9, <1>10, <1>11, <1>12, <1>13
  DEF Execute

\* So do the client and Nav2.
LEMMA OutsideStep ==
  ASSUME TypeOK, NEW t \in Tasks, TaskInv(t),
         \/ GoalRequest(t) \/ CancelRequest(t)
         \/ NavAnswers(t) \/ AnswerArrives(t) \/ NavEnds(t) \/ NavCancels(t)
         \/ NavStops(t)
  PROVE  TaskInv(t)'
<1> USE DEF TypeOK, TaskInv, PathInv, CancelInv, ReportInv, Before, Left, serverVars,
            navVars
<1>1. CASE GoalRequest(t)
  BY <1>1 DEF GoalRequest
<1>2. CASE CancelRequest(t)
  BY <1>2 DEF CancelRequest
<1>3. CASE NavAnswers(t)
  BY <1>3 DEF NavAnswers
<1>4. CASE AnswerArrives(t)
  BY <1>4 DEF AnswerArrives
<1>5. CASE NavEnds(t)
  BY <1>5 DEF NavEnds
<1>6. CASE NavCancels(t)
  <2>1. t \in cancels /\ reply[t] = "none" /\ t \in child
    BY <1>6 DEF NavCancels
  <2>2. nav[t] # "running" => reply'[t] = "refused" /\ nav' = nav
    BY <1>6 DEF NavCancels
  <2>3. nav[t] = "running" => reply'[t] = "accepted" /\ nav'[t] = "canceling"
    BY <1>6 DEF NavCancels
  <2>4. /\ t \notin cancels' /\ pc' = pc /\ goal' = goal /\ child' = child
        /\ stopWhy' = stopWhy /\ answered' = answered
    BY <1>6 DEF NavCancels
  <2>5. CASE nav[t] = "running"
    BY <2>1, <2>3, <2>4, <2>5
  <2>6. CASE nav[t] # "running"
    BY <2>1, <2>2, <2>4, <2>6
  <2>7. QED
    BY <2>5, <2>6
<1>7. CASE NavStops(t)
  BY <1>7 DEF NavStops
<1>8. QED
  BY <1>1, <1>2, <1>3, <1>4, <1>5, <1>6, <1>7

LEMMA InvStep == ASSUME IInv, [Next]_vars PROVE IInv'
<1>1. TypeOK /\ TypeOK' /\ \A u \in Tasks : TaskInv(u)
  BY TypeStep DEF IInv, TaskInv
<1> SUFFICES ASSUME NEW u \in Tasks PROVE TaskInv(u)'
  BY <1>1 DEF IInv, TaskInv
<1>2. CASE UNCHANGED vars \/ SafetyChanges
  BY <1>1, <1>2, Untouched DEF vars, SafetyChanges, serverVars, navVars
<1>3. ASSUME NEW t \in Tasks,
             \/ GoalRequest(t) \/ CancelRequest(t) \/ Execute(t)
             \/ NavAnswers(t) \/ AnswerArrives(t) \/ NavEnds(t) \/ NavCancels(t)
             \/ NavStops(t)
      PROVE  TaskInv(u)'
  <2>1. CASE t = u
    BY <1>1, <1>3, <2>1, ThreadStep, OutsideStep
  <2>2. CASE t # u
    BY <1>1, <1>3, <2>2, OneTask, Untouched
  <2>3. QED
    BY <2>1, <2>2
<1>4. QED
  BY <1>2, <1>3 DEF Next

-----------------------------------------------------------------------------
(* The theorems. *)

THEOREM TypeCorrect == Spec => []TypeOK
<1>1. IInv => TypeOK
  BY DEF IInv
<1>2. QED
  BY <1>1, InvInit, InvStep, PTL DEF Spec

\* However a task with a FollowPath handle ends, its path is over, stopping or
\* has a cancel request on its way.
THEOREM KnownPathStopped == Spec => []KnownPathIsStopped
<1>1. IInv => KnownPathIsStopped
  BY DEF IInv, ReportInv, KnownPathIsStopped
<1>2. QED
  BY <1>1, InvInit, InvStep, PTL DEF Spec

\* A report of the execution stage says what Nav2 confirmed.
THEOREM ReportConfirmed == Spec => []ReportIsConfirmed
<1>1. IInv => ReportIsConfirmed
  <2> SUFFICES ASSUME IInv, NEW t \in child
               PROVE  /\ goal[t] = "canceled" => nav[t] # "running"
                      /\ goal[t] = "succeeded" => nav[t] = "succeeded"
    BY DEF ReportIsConfirmed
  <2>1. t \in Tasks
    BY DEF IInv, TypeOK
  <2>2. QED
    BY <2>1 DEF IInv, ReportInv, CancelInv
<1>2. QED
  BY <1>1, InvInit, InvStep, PTL DEF Spec

-----------------------------------------------------------------------------
(* The refinement of SupervisedMotion.                                       *)

reported == [t \in Tasks |-> Reported(t)]
motion == [t \in Tasks |-> Motion(t)]

\* What a step may do to the report and the motion of the task it is about.
AbstractChange(t) ==
  \/ Reported(t)' = Reported(t) /\ Motion(t)' = Motion(t)
  \/ /\ Reported(t)' = Reported(t) /\ Reported(t) = "open"
     /\ Motion(t) = "none" /\ Motion(t)' = "asked"
  \/ /\ Reported(t)' = Reported(t) /\ Reported(t) = "open"
     /\ Motion(t) = "asked" /\ Motion(t)' = "driven"
  \/ /\ Reported(t)' = Reported(t)
     /\ Motion(t) = "driven" /\ Motion(t)' = "stopping"
  \/ /\ Reported(t)' = Reported(t)
     /\ Motion(t) \in {"asked", "driven", "stopping"} /\ Motion(t)' \in {"reached", "over"}
  \/ /\ Reported(t) = "open" /\ Reported(t)' = "ended"
     /\ Motion(t)' = Motion(t) /\ Motion(t) # "driven"
  \/ /\ Reported(t) = "open" /\ Reported(t)' = "succeeded"
     /\ Motion(t)' = Motion(t) /\ Motion(t) = "reached"

\* Such a change of one task alone is a step of the abstract specification.
LEMMA ChangeIsStep ==
  ASSUME NEW t \in Tasks, AbstractChange(t),
         \A u \in Tasks \ {t} : Reported(u)' = Reported(u) /\ Motion(u)' = Motion(u)
  PROVE  [Supervised!Next]_<<reported, motion>>
<1>1. reported' = [reported EXCEPT ![t] = Reported(t)']
  BY DEF reported
<1>2. motion' = [motion EXCEPT ![t] = Motion(t)']
  BY DEF motion
<1>3. reported[t] = Reported(t) /\ motion[t] = Motion(t)
  BY DEF reported, motion
<1>4. Reported(t)' = Reported(t) => UNCHANGED reported
  BY <1>1, <1>3 DEF reported
<1>5. Motion(t)' = Motion(t) => UNCHANGED motion
  BY <1>2, <1>3 DEF motion
<1>6. CASE Reported(t)' = Reported(t) /\ Motion(t)' = Motion(t)
  BY <1>4, <1>5, <1>6
<1>7. CASE /\ Reported(t)' = Reported(t) /\ Reported(t) = "open"
           /\ Motion(t) = "none" /\ Motion(t)' = "asked"
  <2>1. Supervised!Start(t)
    BY <1>2, <1>3, <1>4, <1>7 DEF Supervised!Start, Supervised!RunsOf, reported, motion
  <2>2. QED
    BY <2>1 DEF Supervised!Next
<1>13. CASE /\ Reported(t)' = Reported(t) /\ Reported(t) = "open"
            /\ Motion(t) = "asked" /\ Motion(t)' = "driven"
  <2>1. Supervised!Learn(t)
    BY <1>2, <1>3, <1>4, <1>13 DEF Supervised!Learn, reported, motion
  <2>2. QED
    BY <2>1 DEF Supervised!Next
<1>8. CASE /\ Reported(t)' = Reported(t)
           /\ Motion(t) = "driven" /\ Motion(t)' = "stopping"
  <2>1. Supervised!Stop(t)
    BY <1>2, <1>3, <1>4, <1>8 DEF Supervised!Stop, reported, motion
  <2>2. QED
    BY <2>1 DEF Supervised!Next
<1>9. CASE /\ Reported(t)' = Reported(t)
           /\ Motion(t) \in {"asked", "driven", "stopping"} /\ Motion(t)' \in {"reached", "over"}
  <2>1. Supervised!End(t)
    BY <1>2, <1>3, <1>4, <1>9 DEF Supervised!End, reported, motion
  <2>2. QED
    BY <2>1 DEF Supervised!Next
<1>10. CASE /\ Reported(t) = "open" /\ Reported(t)' = "ended"
            /\ Motion(t)' = Motion(t) /\ Motion(t) # "driven"
  <2>1. motion = [r \in Tasks |-> IF r = t /\ motion[r] = "driven"
                                  THEN "stopping" ELSE motion[r]]
    BY <1>3, <1>10 DEF motion
  <2>2. Supervised!ReportEnded(t)
    BY <1>1, <1>3, <1>5, <1>10, <2>1 DEF Supervised!ReportEnded, reported, motion
  <2>3. QED
    BY <2>2 DEF Supervised!Next
<1>11. CASE /\ Reported(t) = "open" /\ Reported(t)' = "succeeded"
            /\ Motion(t)' = Motion(t) /\ Motion(t) = "reached"
  <2>1. Supervised!RunsOf(t) = {t}
    BY DEF Supervised!RunsOf
  <2>2. Supervised!ReportSucceeded(t)
    BY <1>1, <1>3, <1>5, <1>11, <2>1 DEF Supervised!ReportSucceeded, reported, motion
  <2>3. QED
    BY <2>2 DEF Supervised!Next
<1>12. QED
  BY <1>6, <1>7, <1>8, <1>9, <1>10, <1>11, <1>13 DEF AbstractChange

\* Every action of the server, the client and Nav2 makes such a change.
LEMMA ActionChanges ==
  ASSUME TypeOK, NEW t \in Tasks, TaskInv(t), TaskInv(t)',
         \/ GoalRequest(t) \/ CancelRequest(t) \/ Execute(t)
         \/ NavAnswers(t) \/ AnswerArrives(t) \/ NavEnds(t) \/ NavCancels(t)
         \/ NavStops(t)
  PROVE  AbstractChange(t)
<1> USE DEF TypeOK, AbstractChange, Reported, Motion, serverVars, navVars
<1>1. Left(t)' => Motion(t)' # "driven"
  <2>1. CASE ~Left(t)'
    BY <2>1
  <2>2. CASE Left(t)' /\ nav'[t] = "running" /\ t \in child'
    <3>1. t \in cancels'
      BY <2>2 DEF TaskInv, ReportInv, Left
    <3>2. Motion(t)' = "stopping"
      BY <2>2, <3>1
    <3>3. QED
      BY <3>2
  <2>3. CASE nav'[t] # "running" \/ t \notin child'
    BY <2>3
  <2>4. QED
    BY <2>1, <2>2, <2>3
<1>2. CASE \/ Prepared(t) \/ Checked(t) \/ Finally(t)
           \/ AnswerArrives(t) \/ CancelRequest(t)
  BY <1>2 DEF Prepared, Checked, Finally, AnswerArrives, CancelRequest
<1>3. ASSUME NEW outcome \in {"succeeded", "canceled", "aborted"}, End(t, outcome),
             UNCHANGED navVars, goal[t] \in {"executing", "canceling"},
             outcome = "succeeded" => nav[t] = "succeeded"
      PROVE  AbstractChange(t)
  <2>1. goal'[t] = outcome /\ Left(t)'
    BY <1>3 DEF End, Left
  <2>2. Motion(t)' = Motion(t)
    BY <1>3
  <2>3. Reported(t) = "open"
    BY <1>3
  <2>4. Motion(t) # "driven"
    BY <1>1, <2>1, <2>2
  <2>5. CASE outcome = "succeeded"
    <3>1. Motion(t) = "reached" /\ Reported(t)' = "succeeded"
      BY <1>3, <2>1, <2>5
    <3>2. QED
      BY <2>2, <2>3, <3>1
  <2>6. CASE outcome # "succeeded"
    <3>1. Reported(t)' = "ended"
      BY <2>1, <2>6
    <3>2. QED
      BY <2>2, <2>3, <2>4, <3>1
  <2>7. QED
    BY <2>5, <2>6
<1>4. pc[t] \notin {"idle", "finally", "done"} => goal[t] \in {"executing", "canceling"}
  BY DEF TaskInv, ReportInv, Left, GoalState, Stage
<1>5. CASE PrepareEnds(t) \/ NotReady(t) \/ SendGivenUp(t) \/ SendRefused(t)
  BY <1>3, <1>4, <1>5 DEF PrepareEnds, GiveUp, NotReady, SendGivenUp, SendRefused
<1>6. CASE RunEnds(t) \/ StopFails(t)
  BY <1>3, <1>4, <1>6 DEF RunEnds, RunSucceeds, StopFails
<1>7. CASE StopAccepted(t)
  <2>1. stopWhy[t] \in {"canceled", "aborted"}
    OBVIOUS
  <2>2. QED
    BY <1>3, <1>4, <1>7, <2>1 DEF StopAccepted
<1>8. CASE GoalRequest(t)
  <2>1. nav[t] = "unsent" /\ goal[t] = "none"
    BY <1>8 DEF GoalRequest, TaskInv, PathInv, ReportInv, Before
  <2>2. QED
    BY <1>8, <2>1 DEF GoalRequest
<1>9. CASE SendPath(t)
  <2>1. nav[t] = "unsent" /\ nav'[t] = "requested" /\ goal' = goal
    BY <1>9 DEF SendPath, TaskInv, PathInv, Before
  <2>2. Reported(t) = "open"
    BY <1>4, <1>9 DEF SendPath
  <2>3. t \notin child'
    BY <1>9 DEF SendPath, TaskInv, PathInv, Before
  <2>4. QED
    BY <2>1, <2>2, <2>3
<1>15. CASE SendAccepted(t)
  <2>1. /\ nav' = nav /\ goal' = goal /\ cancels' = cancels /\ nav[t] # "requested"
        /\ t \notin child /\ t \in child' /\ t \notin cancels
    BY <1>15 DEF SendAccepted, TaskInv, PathInv, CancelInv
  <2>2. Reported(t) = "open" /\ Reported(t)' = Reported(t)
    BY <1>4, <1>15, <2>1 DEF SendAccepted
  <2>3. CASE nav[t] = "running"
    BY <2>1, <2>2, <2>3
  <2>4. CASE nav[t] # "running"
    BY <2>1, <2>2, <2>4
  <2>5. QED
    BY <2>3, <2>4
<1>10. CASE RunCanceled(t) \/ RunUnsafe(t) \/ RunTimesOut(t)
  BY <1>10 DEF RunCanceled, RunUnsafe, RunTimesOut, StopChild, TaskInv, PathInv
<1>11. CASE NavAnswers(t)
  <2>1. /\ nav[t] = "requested" /\ nav'[t] \in {"running", "rejected"}
        /\ goal' = goal /\ child' = child /\ t \notin child
    BY <1>11 DEF NavAnswers, TaskInv, PathInv
  <2>2. Motion(t) = "asked" /\ Motion(t)' \in {"asked", "over"}
    BY <2>1
  <2>3. QED
    BY <2>1, <2>2
<1>12. CASE NavEnds(t) \/ NavStops(t)
  <2>1. /\ nav[t] \in {"running", "canceling"} /\ nav'[t] \in {"succeeded", "aborted", "canceled"}
        /\ goal' = goal
    BY <1>12 DEF NavEnds, NavStops
  <2>2. Motion(t) \in {"asked", "driven", "stopping"} /\ Motion(t)' \in {"reached", "over"}
    BY <2>1
  <2>3. QED
    BY <2>1, <2>2
<1>13. CASE NavCancels(t)
  <2>1. t \in child /\ t \in cancels /\ child' = child /\ goal' = goal
    BY <1>13 DEF NavCancels, TaskInv, CancelInv
  <2>2. CASE nav[t] = "running"
    <3>1. nav'[t] = "canceling"
      BY <1>13, <2>2 DEF NavCancels
    <3>2. QED
      BY <2>1, <2>2, <3>1
  <2>3. CASE nav[t] # "running"
    <3>1. nav' = nav
      BY <1>13, <2>3 DEF NavCancels
    <3>2. nav[t] # "requested"
      BY <2>1 DEF TaskInv, PathInv
    <3>3. QED
      BY <2>1, <2>3, <3>1, <3>2
  <2>4. QED
    BY <2>2, <2>3
<1>14. QED
  BY <1>2, <1>5, <1>6, <1>7, <1>8, <1>9, <1>10, <1>11, <1>12, <1>13, <1>15 DEF Execute

LEMMA AbstractStep ==
  ASSUME IInv, IInv', [Next]_vars
  PROVE  [Supervised!Next]_<<reported, motion>>
<1>1. TypeOK /\ \A t \in Tasks : TaskInv(t) /\ TaskInv(t)'
  BY DEF IInv, TaskInv
<1>2. CASE UNCHANGED vars \/ SafetyChanges
  BY <1>2 DEF vars, SafetyChanges, serverVars, navVars, reported, motion, Reported, Motion
<1>3. ASSUME NEW t \in Tasks,
             \/ GoalRequest(t) \/ CancelRequest(t) \/ Execute(t)
             \/ NavAnswers(t) \/ AnswerArrives(t) \/ NavEnds(t) \/ NavCancels(t)
             \/ NavStops(t)
      PROVE  [Supervised!Next]_<<reported, motion>>
  <2>1. AbstractChange(t)
    BY <1>1, <1>3, ActionChanges
  <2>2. ASSUME NEW u \in Tasks \ {t}
        PROVE  Reported(u)' = Reported(u) /\ Motion(u)' = Motion(u)
    <3>1. /\ goal'[u] = goal[u] /\ nav'[u] = nav[u]
          /\ u \in cancels' <=> u \in cancels
          /\ u \in child' <=> u \in child
      BY <1>1, <1>3, OneTask
    <3>2. QED
      BY <3>1 DEF Reported, Motion
  <2>3. QED
    BY <2>1, <2>2, ChangeIsStep
<1>4. QED
  BY <1>2, <1>3 DEF Next

\* The coverage server implements SupervisedMotion for any number of tasks, with
\* cancels and stage timeouts at any time: what it may lose is a run that Nav2 had
\* not answered.
THEOREM Supervises == Spec => SupervisesMotion
<1>1. Init => Supervised!Init
  BY DEF Init, Supervised!Init, Reported, Motion
<1>2. IInv /\ IInv' /\ [Next]_vars =>
        [Supervised!Next]_<<[t \in Tasks |-> Reported(t)], [t \in Tasks |-> Motion(t)]>>
  BY AbstractStep DEF reported, motion
<1>3. QED
  BY <1>1, <1>2, InvInit, InvStep, PTL DEF Spec, SupervisesMotion, Supervised!Spec

-----------------------------------------------------------------------------
(***************************************************************************)
(* CoverageRepair, for any paths, costmaps and number of connections.  A   *)
(* repair under way always has a connection that is not done, which is the *)
(* one that Nav2 was asked for.                                            *)
(***************************************************************************)

RepairInv ==
  /\ RepairTypeOK
  /\ repair # NoRepair => /\ repair \in [path : Paths, targets : SUBSET Connections,
                                         done : SUBSET Connections, aligned : BOOLEAN]
                          /\ repair.done \subseteq repair.targets
                          /\ repair.done # repair.targets
  /\ request # "none" => repair # NoRepair

LEMMA FirstOf ==
  ASSUME NEW S, S \subseteq Connections, S # {}
  PROVE  Min(S) \in S
  BY ConnectionsAssumption DEF Min

LEMMA RepairInvInit == RepairInit => RepairInv
<1> SUFFICES ASSUME RepairInit
             PROVE  RepairInv
  OBVIOUS
<1>1. repaired.path \in Paths \cup {NoPath} /\ repaired.anew \subseteq Connections
  BY DEF RepairInit, Empty
<1>2. QED
  BY <1>1 DEF RepairInit, RepairInv, RepairTypeOK

\* What a start, by the service or the timer, leaves.
LEMMA StartKeeps ==
  ASSUME RepairInv, repair = NoRepair, StartRepair, UNCHANGED inputs, key' \in {key, report}
  PROVE  RepairInv'
<1>0. /\ path' = path /\ semantics' = semantics /\ report' = report
      /\ obstacles' = obstacles /\ sound' = sound /\ serving' = serving
  BY DEF inputs
<1>1. request = "none"
  BY DEF RepairInv
<1>2. CASE StartRefused
  BY <1>0, <1>1, <1>2 DEF StartRefused, PublishFailure, RepairInv, RepairTypeOK, Empty
<1>3. CASE Unchanged
  <2>1. path \in Paths
    BY <1>3 DEF Unchanged, ReadyToRepair, Complete, RepairInv, RepairTypeOK
  <2>2. repaired'.path \in Paths /\ repaired'.anew \subseteq Connections
    BY <1>3, <2>1 DEF Unchanged
  <2>3. QED
    BY <1>0, <1>1, <1>3, <2>2 DEF Unchanged, RepairInv, RepairTypeOK
<1>4. CASE Begin
  <2>1. path \in Paths
    BY <1>4 DEF Begin, ReadyToRepair, Complete, RepairInv, RepairTypeOK
  <2>2. report.bad # {} /\ report.bad \subseteq Connections
    BY <1>4 DEF Begin, ReadyToRepair
  <2>3. repair' = [path |-> path, targets |-> report.bad, done |-> {}, aligned |-> TRUE]
    BY <1>4 DEF Begin
  <2>4. /\ repair'.path = path /\ repair'.targets = report.bad
        /\ repair'.done = {} /\ repair'.aligned = TRUE
    BY <2>3
  <2>5. request' = "sent" /\ repaired' = repaired
    BY <1>4 DEF Begin
  <2>6. repair' # NoRepair
    BY <2>2, <2>4 DEF NoRepair
  <2>7. RepairTypeOK'
    BY <1>0, <2>1, <2>2, <2>4, <2>5 DEF RepairInv, RepairTypeOK
  <2>8. repair' \in [path : Paths, targets : SUBSET Connections,
                     done : SUBSET Connections, aligned : BOOLEAN]
    BY <2>1, <2>2, <2>3
  <2>9. QED
    BY <2>2, <2>4, <2>6, <2>7, <2>8 DEF RepairInv
<1>5. QED
  BY <1>2, <1>3, <1>4 DEF StartRepair

\* The end of a repair without a path.
LEMMA AbortKeeps ==
  ASSUME RepairInv, Abort, UNCHANGED <<inputs, key>>
  PROVE  RepairInv'
  BY DEF inputs, Abort, PublishFailure, RepairInv, RepairTypeOK, Empty, NoRepair

LEMMA PlannedKeeps ==
  ASSUME RepairInv, repair # NoRepair, UNCHANGED <<inputs, key>>,
         NEW aligned \in BOOLEAN, Planned(aligned)
  PROVE  RepairInv'
<1> DEFINE target == Min(repair.targets \ repair.done)
           done == repair.done \cup {target}
<1>1. target \in repair.targets
  <2>1. repair.targets \ repair.done # {} /\ repair.targets \subseteq Connections
    BY DEF RepairInv
  <2>2. QED
    BY <2>1, FirstOf
<1>2. CASE Abort
  BY <1>2, AbortKeeps
<1>3. CASE /\ done # repair.targets
           /\ repair' = [repair EXCEPT !.done = done, !.aligned = @ /\ aligned]
           /\ request' = "sent" /\ repaired' = repaired
  <2>0. repair \in [path : Paths, targets : SUBSET Connections,
                    done : SUBSET Connections, aligned : BOOLEAN]
    BY DEF RepairInv
  <2>1. PICK pth \in Paths, tgs \in SUBSET Connections, dn \in SUBSET Connections, al \in BOOLEAN :
          repair = [path |-> pth, targets |-> tgs, done |-> dn, aligned |-> al]
    BY <2>0
  <2>2. repair' = [path |-> pth, targets |-> tgs, done |-> done, aligned |-> (al /\ aligned)]
    BY <1>3, <2>1
  <2>3. /\ repair'.path = pth /\ repair'.targets = tgs
        /\ repair'.done = done /\ repair'.aligned = (al /\ aligned)
    BY <2>2
  <2>4. done \subseteq tgs /\ done # tgs
    <3>1. repair.targets = tgs /\ repair.done = dn
      BY <2>1
    <3>2. repair.done \subseteq repair.targets
      BY DEF RepairInv
    <3>3. QED
      BY <1>1, <1>3, <3>1, <3>2
  <2>5. repair' # NoRepair
    BY <2>3, <2>4 DEF NoRepair
  <2>6. RepairTypeOK'
    BY <1>3, <2>3, <2>4 DEF RepairInv, RepairTypeOK, inputs
  <2>7. repair' \in [path : Paths, targets : SUBSET Connections,
                     done : SUBSET Connections, aligned : BOOLEAN]
    BY <2>2, <2>4
  <2>8. QED
    BY <2>3, <2>4, <2>5, <2>6, <2>7 DEF RepairInv
<1>4. CASE /\ repaired' = [path |-> repair.path, anew |-> repair.targets]
           /\ repair' = NoRepair /\ request' = "none"
  <2>1. repaired'.path \in Paths /\ repaired'.anew \subseteq Connections
    BY <1>4 DEF RepairInv
  <2>2. QED
    BY <1>4, <2>1 DEF RepairInv, RepairTypeOK, inputs
<1>5. QED
  BY <1>2, <1>3, <1>4 DEF Planned, FinishRepair

LEMMA RepairInvStep == RepairInv /\ [RepairNext]_repairVars => RepairInv'
<1> SUFFICES ASSUME RepairInv, [RepairNext]_repairVars
             PROVE  RepairInv'
  OBVIOUS
<1>1. CASE Receive
  BY <1>1 DEF Receive, RepairInv, RepairTypeOK
<1>2. CASE Surroundings
  BY <1>2 DEF Surroundings, RepairInv, RepairTypeOK
<1>3. CASE RepairService
  BY <1>3, StartKeeps DEF RepairService
<1>4. CASE AutoRepairTick
  BY <1>4, StartKeeps DEF AutoRepairTick
<1>5. CASE Answer
  <2>1. CASE GoalAccepted
    BY <1>5, <2>1 DEF Answer, GoalAccepted, RepairInv, RepairTypeOK, inputs
  <2>2. CASE GoalRefused \/ PlanningFails
    BY <1>5, <2>2, AbortKeeps DEF Answer, GoalRefused, PlanningFails
  <2>3. CASE \E aligned \in BOOLEAN : Planned(aligned)
    BY <1>5, <2>3, PlannedKeeps DEF Answer
  <2>4. QED
    BY <1>5, <2>1, <2>2, <2>3 DEF Answer
<1>6. CASE UNCHANGED repairVars
  BY <1>6 DEF repairVars, inputs, RepairInv, RepairTypeOK
<1>7. QED
  BY <1>1, <1>2, <1>3, <1>4, <1>5, <1>6 DEF RepairNext

(* The variables of the repair keep their types: no more is done than was  *)
(* found invalid, and no connection but those is ever laid out anew.       *)
THEOREM RepairTypes == RepairSpec => []RepairTypeOK
<1>1. RepairInv => RepairTypeOK
  BY DEF RepairInv
<1>2. QED
  BY RepairInvInit, RepairInvStep, <1>1, PTL DEF RepairSpec

(* What a repair publishes when it ends is the path and the semantics that *)
(* are current, with no part that collides in the costmap of this moment,  *)
(* for every order in which paths, reports, costmaps and answers come.     *)
THEOREM RepairedAlwaysWhole == RepairSpec => RepairedIsWhole
<1>1. ASSUME RepairInv, [RepairNext]_repairVars,
             repair # NoRepair, repair' = NoRepair, repaired' # Empty
      PROVE  /\ repaired'.path = path /\ repaired'.path = semantics
             /\ Clear(repaired'.anew)
  <2>1. Answer
    BY <1>1 DEF RepairNext, repairVars, Receive, Surroundings, RepairService, AutoRepairTick
  <2>2. ~Abort
    BY <1>1 DEF Abort, PublishFailure
  <2>3. PICK aligned \in BOOLEAN : Planned(aligned)
    BY <1>1, <2>1, <2>2 DEF Answer, GoalRefused, GoalAccepted, PlanningFails
  <2> DEFINE done == repair.done \cup {Min(repair.targets \ repair.done)}
  <2>4. \/ repair' = [repair EXCEPT !.done = done, !.aligned = @ /\ aligned]
        \/ /\ path = repair.path /\ semantics = repair.path /\ Clear(repair.targets)
           /\ repaired' = [path |-> repair.path, anew |-> repair.targets]
    BY <2>2, <2>3 DEF Planned, FinishRepair, SourceUnchanged
  <2>5. ASSUME repair' = [repair EXCEPT !.done = done, !.aligned = @ /\ aligned]
        PROVE  FALSE
    <3>1. repair'.done = done
      BY <1>1, <2>5 DEF RepairInv
    <3>2. done # {} /\ NoRepair.done = {}
      BY DEF NoRepair
    <3>3. QED
      BY <1>1, <3>1, <3>2
  <2>6. repaired'.path = repair.path /\ repaired'.anew = repair.targets
    BY <2>4, <2>5
  <2>7. QED
    BY <2>4, <2>5, <2>6
<1>2. QED
  BY <1>1, RepairInvInit, RepairInvStep, PTL DEF RepairSpec, RepairedIsWhole

-----------------------------------------------------------------------------
(***************************************************************************)
(* That the executor of a taught path watches what it drives, for any      *)
(* number of runs of its timer and of goals.  The invariant is about the   *)
(* goals whose callbacks are still to come: as long as no two runs sent    *)
(* side by side there is at most one, only while the task is active, and   *)
(* no run is then about to send another.                                   *)
(***************************************************************************)

Open(g) == goalOf[g].answer # "none"

\* One run of the timer at a time is about to send, and none during a task.
OneSender ==
  \A w \in Timers : place[w] = "send" =>
    ~active /\ \A v \in Timers : place[v] = "send" => v = w

\* The one open goal is that of the task.
OneOpen ==
  \A g \in Goals :
    /\ Open(g) => active /\ \A h \in Goals : Open(h) => h = g
    /\ Driven(g) => Open(g)
    /\ goalOf[g].answer \in {"registered", "followed"} => followed = g

TeachInv == TeachTypeOK /\ (~overlapped => OneSender /\ OneOpen)

\* What the task has noted has reached the goal that is followed.
StopTold ==
  \A g \in Goals :
    goalOf[g].answer = "followed" /\ (failing \/ canceling) => goalOf[g].stop

SupervisionInv == TeachInv /\ (~overlapped => StopTold)

GoalTypes == [answer : {"none", "asked", "accepted", "refused", "registered", "followed"},
              motion : {"none", "driven", "over"}, stop : BOOLEAN]

LEMMA TeachInvInit == TeachInit => TeachInv
<1> SUFFICES ASSUME TeachInit PROVE TeachInv
  OBVIOUS
<1>1. Fresh \in GoalTypes
  BY DEF Fresh, GoalTypes
<1>2. TeachTypeOK
  BY <1>1 DEF TeachInit, TeachTypeOK, GoalTypes
<1>3. \A g \in Goals : goalOf[g].answer = "none" /\ goalOf[g].motion = "none"
  BY DEF TeachInit, Fresh
<1>4. \A w \in Timers : place[w] = "idle"
  BY DEF TeachInit
<1>5. QED
  BY <1>2, <1>3, <1>4 DEF TeachInv, OneSender, OneOpen, Open, Driven

-----------------------------------------------------------------------------
(* Types. *)

\* Telling Nav2 to stop a path leaves a goal what it is.
LEMMA StopTypes ==
  ASSUME TeachTypeOK,
         goalOf' = [g \in Goals |-> IF g = followed THEN [goalOf[g] EXCEPT !.stop = TRUE]
                                                   ELSE goalOf[g]]
  PROVE  goalOf' \in [Goals -> GoalTypes]
<1>1. ASSUME NEW g \in Goals PROVE [goalOf[g] EXCEPT !.stop = TRUE] \in GoalTypes
  <2>1. goalOf[g] \in GoalTypes
    BY DEF TeachTypeOK, GoalTypes
  <2>2. QED
    BY <2>1 DEF GoalTypes
<1>2. \A g \in Goals : goalOf[g] \in GoalTypes
  BY DEF TeachTypeOK, GoalTypes
<1>3. QED
  BY <1>1, <1>2

LEMMA FailureTypes ==
  ASSUME TeachTypeOK, CancelForFailure
  PROVE  failing' \in BOOLEAN /\ goalOf' \in [Goals -> GoalTypes]
<1>1. CASE UNCHANGED <<failing, goalOf>>
  BY <1>1 DEF TeachTypeOK, GoalTypes
<1>2. CASE ~UNCHANGED <<failing, goalOf>>
  BY <1>2, StopTypes DEF CancelForFailure
<1>3. QED
  BY <1>1, <1>2

LEMMA TeachTypeStep == ASSUME TeachTypeOK, [TeachStep]_teachVars PROVE TeachTypeOK'
<1> USE DEF TeachTypeOK, gates, starting, task, Fresh
<1>1. CASE UNCHANGED teachVars
  BY <1>1 DEF teachVars
<1>2. ASSUME NEW good \in BOOLEAN, NEW deviates \in BOOLEAN, Message(good, deviates)
      PROVE  TeachTypeOK'
  BY <1>2 DEF Message
<1>3. CASE Silence \/ StartService
  BY <1>3 DEF Silence, StartService
<1>4. CASE Alarm \/ \E w \in Timers : Watch(w)
  BY <1>4, FailureTypes DEF Alarm, Watch, GoalTypes
<1>5. CASE CancelService
  BY <1>5, StopTypes DEF CancelService, GoalTypes
<1>6. ASSUME NEW w \in Timers, Wake(w) \/ Gated(w) \/ TakeRequest(w) \/ SendGate(w)
      PROVE  TeachTypeOK'
  BY <1>6 DEF Wake, Gated, TakeRequest, SendGate, Go
<1>7. ASSUME NEW w \in Timers, NEW g \in Goals, Send(w, g) PROVE TeachTypeOK'
  BY <1>7 DEF Send, Go
<1>8. ASSUME NEW g \in Goals, Callback(g) PROVE TeachTypeOK'
  <2>1. Fresh \in GoalTypes /\ goalOf[g] \in GoalTypes
    BY DEF GoalTypes
  <2>2. CASE PathRefused(g) \/ Result(g)
    BY <2>1, <2>2 DEF PathRefused, Result, Finish, GoalTypes
  <2>3. CASE RegisterChild(g)
    BY <2>1, <2>3 DEF RegisterChild
  <2>4. CASE FollowChild(g)
    BY <2>1, <2>4, ZenonT(60) DEF FollowChild
  <2>5. QED
    BY <1>8, <2>2, <2>3, <2>4 DEF Callback
<1>9. ASSUME NEW g \in Goals, NavAccepts(g) PROVE TeachTypeOK'
  BY <1>9 DEF NavAccepts, Driven
<1>10. ASSUME NEW g \in Goals, NavRefuses(g) \/ PathEnds(g) PROVE TeachTypeOK'
  BY <1>10 DEF NavRefuses, PathEnds
<1>11. QED
  BY <1>1, <1>2, <1>3, <1>4, <1>5, <1>6, <1>7, <1>8, <1>9, <1>10 DEF TeachStep, Timer

-----------------------------------------------------------------------------
(* The invariant. *)

\* Telling Nav2 to stop a path changes nothing else of a goal.
LEMMA StopKeepsGoals ==
  ASSUME TeachTypeOK, NEW told \in SUBSET Goals,
         goalOf' = [g \in Goals |->
                      IF g \in told THEN [goalOf[g] EXCEPT !.stop = TRUE] ELSE goalOf[g]]
  PROVE  \A g \in Goals : /\ goalOf'[g].answer = goalOf[g].answer
                          /\ goalOf'[g].motion = goalOf[g].motion
BY DEF TeachTypeOK

LEMMA TeachInvStep == ASSUME TeachInv, [TeachStep]_teachVars PROVE TeachInv'
<1>1. TeachTypeOK /\ TeachTypeOK'
  BY TeachTypeStep DEF TeachInv
<1> SUFFICES ASSUME ~overlapped' PROVE (OneSender /\ OneOpen)'
  BY <1>1 DEF TeachInv
<1>2. ~overlapped
  BY <1>1 DEF TeachTypeOK, TeachStep, Timer, Callback, teachVars, gates, starting, task,
     Message, Silence, Alarm, StartService, CancelService, Watch, Wake, Gated, TakeRequest,
     SendGate, Send, PathRefused, RegisterChild, FollowChild, Result, NavAccepts,
     NavRefuses, PathEnds
<1>3. OneSender /\ OneOpen
  BY <1>2 DEF TeachInv
<1> USE <1>1, <1>3 DEF OneSender, OneOpen, Open, Driven, TeachTypeOK
<1>4. CASE UNCHANGED teachVars
  BY <1>4 DEF teachVars, gates, starting, task
<1>5. CASE \/ \E good, deviates \in BOOLEAN : Message(good, deviates)
           \/ Silence \/ StartService
  BY <1>5 DEF Message, Silence, StartService, starting, task, gates
<1>6. CASE Alarm \/ CancelService \/ \E w \in Timers : Watch(w)
  <2>1. UNCHANGED <<place, active, followed>>
    BY <1>6 DEF Alarm, CancelService, Watch
  <2>2. \/ UNCHANGED goalOf
        \/ goalOf' = [g \in Goals |-> IF g \in {h \in Goals : h = followed}
                                      THEN [goalOf[g] EXCEPT !.stop = TRUE] ELSE goalOf[g]]
    BY <1>6 DEF Alarm, CancelService, Watch, CancelForFailure
  <2>3. \A g \in Goals : /\ goalOf'[g].answer = goalOf[g].answer
                         /\ goalOf'[g].motion = goalOf[g].motion
    BY <2>2, StopKeepsGoals
  <2>4. QED
    BY <2>1, <2>3
<1>7. ASSUME NEW w \in Timers, Wake(w) \/ Gated(w) \/ TakeRequest(w)
      PROVE  (OneSender /\ OneOpen)'
  BY <1>7 DEF Wake, Gated, TakeRequest, Go, task, gates, starting
<1>8. ASSUME NEW w \in Timers, SendGate(w) PROVE (OneSender /\ OneOpen)'
  BY <1>8 DEF SendGate, GateOpen, Go, task, gates, starting
<1>9. ASSUME NEW w \in Timers, NEW g \in Goals, Send(w, g) PROVE (OneSender /\ OneOpen)'
  <2>1. /\ active' = TRUE /\ UNCHANGED followed
        /\ goalOf' = [goalOf EXCEPT ![g].answer = "asked"]
        /\ place' = [place EXCEPT ![w] = "idle"]
    BY <1>9 DEF Send, Go
  <2>2. \A v \in Timers : place'[v] # "send"
    BY <1>9, <2>1 DEF Send
  <2>3. \A h \in Goals : ~Open(h)
    BY <1>9 DEF Send
  <2>4. QED
    BY <2>1, <2>2, <2>3
<1>10. ASSUME NEW g \in Goals, PathRefused(g) \/ Result(g)
       PROVE  (OneSender /\ OneOpen)'
  <2>1. /\ active' = FALSE /\ followed' = NoGoal /\ UNCHANGED place
        /\ goalOf' = [goalOf EXCEPT ![g] = Fresh]
    BY <1>10 DEF PathRefused, Result, Finish
  <2>2. Open(g)
    BY <1>10 DEF PathRefused, Result
  <2>3. \A h \in Goals : goalOf'[h].answer = "none" /\ goalOf'[h].motion # "driven"
    BY <2>1, <2>2 DEF Fresh
  <2>4. \A w \in Timers : place'[w] # "send"
    BY <2>1, <2>2
  <2>5. QED
    BY <2>3, <2>4
<1>11. ASSUME NEW g \in Goals, RegisterChild(g) \/ FollowChild(g)
       PROVE  (OneSender /\ OneOpen)'
  BY <1>11 DEF RegisterChild, FollowChild, task
<1>12. ASSUME NEW g \in Goals, NavAccepts(g) PROVE (OneSender /\ OneOpen)'
  <2>1. UNCHANGED <<place, active, followed>>
    BY <1>12 DEF NavAccepts, task
  <2>2. goalOf'[g].answer = "accepted" /\ Open(g)
    <3>1. goalOf[g].answer = "asked"
      BY <1>12 DEF NavAccepts
    <3>2. goalOf'[g] = [goalOf[g] EXCEPT !.answer = "accepted", !.motion = "driven"]
      BY <1>12 DEF NavAccepts
    <3>3. goalOf[g] \in GoalTypes
      BY DEF GoalTypes
    <3>4. QED
      BY <3>1, <3>2, <3>3 DEF GoalTypes
  <2>3. \A h \in Goals \ {g} : goalOf'[h].answer = goalOf[h].answer /\ ~Driven(h)'
    BY <1>12, ZenonT(60) DEF NavAccepts
  <2>4. QED
    BY <2>1, <2>2, <2>3
<1>13. ASSUME NEW g \in Goals, NavRefuses(g) \/ PathEnds(g)
       PROVE  (OneSender /\ OneOpen)'
  BY <1>13 DEF NavRefuses, PathEnds, task
<1>14. QED
  BY <1>4, <1>5, <1>6, <1>7, <1>8, <1>9, <1>10, <1>11, <1>12, <1>13
     DEF TeachStep, Timer, Callback

LEMMA StopToldStep ==
  ASSUME SupervisionInv, [TeachStep]_teachVars, ~overlapped, ~overlapped'
  PROVE  StopTold'
<1>1. TeachTypeOK /\ OneSender /\ OneOpen /\ StopTold
  BY DEF SupervisionInv, TeachInv
<1>2. goalOf \in [Goals -> GoalTypes]
  BY <1>1 DEF TeachTypeOK, GoalTypes
<1> USE <1>1, <1>2 DEF StopTold
<1>3. CASE UNCHANGED teachVars
  BY <1>3 DEF teachVars, task
<1>4. CASE \/ \E good, deviates \in BOOLEAN : Message(good, deviates)
           \/ Silence \/ StartService
  BY <1>4 DEF Message, Silence, StartService, task
<1>5. CASE Alarm \/ CancelService \/ \E w \in Timers : Watch(w)
  <2>1. \/ UNCHANGED <<failing, canceling, goalOf>>
        \/ goalOf' = [g \in Goals |->
                      IF g = followed THEN [goalOf[g] EXCEPT !.stop = TRUE] ELSE goalOf[g]]
    BY <1>5 DEF Alarm, CancelService, Watch, CancelForFailure
  <2>2. CASE UNCHANGED <<failing, canceling, goalOf>>
    BY <2>2
  <2>3. CASE goalOf' = [g \in Goals |->
                IF g = followed THEN [goalOf[g] EXCEPT !.stop = TRUE] ELSE goalOf[g]]
    <3> SUFFICES ASSUME NEW g \in Goals, goalOf'[g].answer = "followed" PROVE goalOf'[g].stop
      OBVIOUS
    <3>1. goalOf[g] \in GoalTypes
      OBVIOUS
    <3>2. goalOf[g].answer = "followed"
      BY <2>3, <3>1 DEF GoalTypes
    <3>3. g = followed
      BY <3>2 DEF OneOpen
    <3>4. goalOf'[g] = [goalOf[g] EXCEPT !.stop = TRUE]
      BY <2>3, <3>3
    <3> QED BY <3>1, <3>4 DEF GoalTypes
  <2> QED BY <2>1, <2>2, <2>3
<1>6. ASSUME NEW w \in Timers, Wake(w) \/ Gated(w) \/ TakeRequest(w) \/ SendGate(w)
      PROVE  StopTold'
  BY <1>6 DEF Wake, Gated, TakeRequest, SendGate, task
<1>7. ASSUME NEW w \in Timers, NEW g \in Goals, Send(w, g) PROVE StopTold'
  BY <1>7 DEF Send
<1>8. ASSUME NEW g \in Goals, PathRefused(g) \/ Result(g) PROVE StopTold'
  <2>1. UNCHANGED <<failing, canceling>> /\ goalOf' = [goalOf EXCEPT ![g] = Fresh]
    BY <1>8 DEF PathRefused, Result
  <2> QED BY <2>1 DEF Fresh
<1>9. ASSUME NEW g \in Goals, RegisterChild(g) PROVE StopTold'
  BY <1>9 DEF RegisterChild, GoalTypes
<1>10. ASSUME NEW g \in Goals, FollowChild(g) PROVE StopTold'
  <2>1. /\ UNCHANGED <<failing, canceling>>
        /\ goalOf' = [goalOf EXCEPT ![g].answer = "followed", ![g].stop = @ \/ failing \/ canceling]
    BY <1>10 DEF FollowChild, task
  <2> QED BY <2>1 DEF GoalTypes
<1>11. ASSUME NEW g \in Goals, NavAccepts(g) PROVE StopTold'
  <2>1. UNCHANGED <<failing, canceling>>
    BY <1>11 DEF NavAccepts, task
  <2>2. ASSUME NEW h \in Goals, goalOf'[h].answer = "followed"
        PROVE  goalOf[h].answer = "followed" /\ goalOf'[h].stop = goalOf[h].stop
    <3>1. goalOf[h] \in GoalTypes
      OBVIOUS
    <3>2. goalOf'[h] \in {[goalOf[h] EXCEPT !.answer = "accepted", !.motion = "driven"],
                          [goalOf[h] EXCEPT !.motion = "over"], goalOf[h]}
      BY <1>11, Zenon DEF NavAccepts
    <3> QED BY <2>2, <3>1, <3>2 DEF GoalTypes
  <2> QED BY <2>1, <2>2
<1>12. ASSUME NEW g \in Goals, NavRefuses(g) \/ PathEnds(g) PROVE StopTold'
  BY <1>12 DEF NavRefuses, PathEnds, task, GoalTypes
<1> QED BY <1>3, <1>4, <1>5, <1>6, <1>7, <1>8, <1>9, <1>10, <1>11, <1>12
        DEF TeachStep, Timer, Callback

-----------------------------------------------------------------------------
(* The variables of the executor keep their types. *)
THEOREM TeachTypes == TeachSpec => []TeachTypeOK
<1>1. TeachInv => TeachTypeOK
  BY DEF TeachInv
<1>2. QED
  BY TeachInvInit, TeachInvStep, <1>1, PTL DEF TeachSpec

(* What Nav2 drives is watched by the active task, and told to stop by     *)
(* what that has noted, for any number of runs of the timer, as long as no *)
(* two of them send side by side.                                          *)
THEOREM DrivenAlwaysSupervised == TeachSpec => []DrivenIsSupervised
<1>1. TeachInit => SupervisionInv
  BY TeachInvInit DEF SupervisionInv, StopTold, TeachInit
<1>2. SupervisionInv /\ [TeachStep]_teachVars => SupervisionInv'
  <2> SUFFICES ASSUME SupervisionInv, [TeachStep]_teachVars PROVE SupervisionInv'
    OBVIOUS
  <2>1. TeachInv'
    BY TeachInvStep DEF SupervisionInv
  <2>2. ~overlapped' => ~overlapped
    BY TeachTypeStep DEF SupervisionInv, TeachInv, TeachTypeOK, TeachStep, Timer, Callback,
       teachVars, gates, starting, task, Message, Silence, Alarm, StartService, CancelService,
       Watch, Wake, Gated, TakeRequest, SendGate, Send, PathRefused, RegisterChild, FollowChild,
       Result, NavAccepts, NavRefuses, PathEnds
  <2> QED BY <2>1, <2>2, StopToldStep DEF SupervisionInv
<1>3. SupervisionInv => DrivenIsSupervised
  BY DEF SupervisionInv, StopTold, TeachInv, OneOpen, DrivenIsSupervised
<1> QED BY <1>1, <1>2, <1>3, PTL DEF TeachSpec

=============================================================================
