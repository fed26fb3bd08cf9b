--------------------------- MODULE TeachExecution ---------------------------
(***************************************************************************)
(* The executor of a taught path (agt_teach_repeat,                        *)
(* teach_path_executor.py): it sends the validated path to Nav2 when every *)
(* gate is open, and cancels it when one closes.  Its callbacks and its    *)
(* timer are in one reentrant group: they run side by side, the timer with *)
(* itself too, since evaluating the gates hashes the map files and may     *)
(* take longer than the period.                                            *)
(*                                                                         *)
(* The gates (localization, safety, readiness, emergency stop, validation, *)
(* assets) are one: ready is what the callbacks stored of them, silent     *)
(* that a status has become too old.  Nav2's path server is external: it   *)
(* follows one path at a time, and a new goal aborts the one before.       *)
(***************************************************************************)
EXTENDS Naturals, FiniteSets

CONSTANTS Timers,     \* runs of the timer that may be under way together
          Goals,      \* the goals that Nav2 may hold at the same time
          NoGoal,
          AutoStart   \* the parameters execution_enabled and auto_start

VARIABLES ready, silent,  \* the gates
          alarm,          \* a callback saw a loss and has not yet acted on it
          place,          \* place[w]: where run w of the timer is
          requested,      \* _start_requested
          consumed,       \* _auto_start_consumed
          active,         \* _active
          followed,       \* _child_goal
          failing,        \* _pending_failure
          canceling,      \* _pending_cancel
          goalOf,         \* goalOf[g]: the callbacks of g, and g in Nav2
          overlapped      \* history: two runs of the timer were sending

gates == <<ready, silent>>
starting == <<requested, consumed>>
task == <<active, followed, failing, canceling>>
teachVars == <<gates, alarm, place, starting, task, goalOf, overlapped>>

Fresh == [answer |-> "none", motion |-> "none", stop |-> FALSE]
Driven(g) == goalOf[g].motion = "driven"

TeachTypeOK ==
  /\ {ready, silent, alarm, requested, consumed, active, failing, canceling,
      overlapped} \subseteq BOOLEAN
  /\ place \in [Timers -> {"idle", "auto", "request", "gate", "send"}]
  /\ followed \in Goals \cup {NoGoal}
  /\ goalOf \in [Goals -> [answer : {"none", "asked", "accepted", "refused",
                                   "registered", "followed"},
                         motion : {"none", "driven", "over"}, stop : BOOLEAN]]

TeachInit ==
  /\ ready = FALSE /\ silent = TRUE /\ alarm = FALSE
  /\ place = [w \in Timers |-> "idle"]
  /\ requested = FALSE /\ consumed = FALSE
  /\ active = FALSE /\ followed = NoGoal /\ failing = FALSE /\ canceling = FALSE
  /\ goalOf = [g \in Goals |-> Fresh]
  /\ overlapped = FALSE

Go(w, p) == place' = [place EXCEPT ![w] = p]

GateOpen_IgnoresActive == ready /\ ~silent

(* Every gate is open: what _gate_failure finds at the moment it looks.    *)
GateOpen == ready /\ ~silent /\ ~active

----------------------------------------------------------------------------
(* A status of a gate arrives, good or bad; or the pose is too far off the *)
(* path.  A loss is stored first, and acted on in a further step.          *)
Message(good, deviates) ==
  /\ ready' = good
  /\ silent' = FALSE
  /\ alarm' = (alarm \/ ~good \/ (deviates /\ active))
  /\ UNCHANGED <<place, starting, task, goalOf, overlapped>>

Silence ==
  /\ ~silent
  /\ silent' = TRUE
  /\ UNCHANGED <<ready, alarm, place, starting, task, goalOf, overlapped>>

(* One failure cancels the child once; a child that is not known yet is    *)
(* cancelled when it is (FollowChild).                                     *)
CancelForFailure ==
  IF ~active \/ failing THEN UNCHANGED <<failing, goalOf>>
  ELSE /\ failing' = TRUE
       /\ goalOf' = [g \in Goals |->
                     IF g = followed THEN [goalOf[g] EXCEPT !.stop = TRUE] ELSE goalOf[g]]

Alarm ==
  /\ alarm
  /\ alarm' = FALSE
  /\ CancelForFailure
  /\ UNCHANGED <<gates, place, starting, active, followed, canceling, overlapped>>

(* The services. *)
StartService ==
  /\ GateOpen
  /\ requested' = TRUE
  /\ UNCHANGED <<gates, alarm, place, consumed, task, goalOf, overlapped>>

CancelService ==
  /\ active
  /\ canceling' = TRUE
  /\ goalOf' = [g \in Goals |->
                IF g = followed THEN [goalOf[g] EXCEPT !.stop = TRUE] ELSE goalOf[g]]
  /\ UNCHANGED <<gates, alarm, place, starting, active, followed, failing, overlapped>>

----------------------------------------------------------------------------
(* The timer.  While a task is active it watches: a status too old (that is *)
(* silent), the feedback too old or a changed asset cancel the task.        *)
Watch(w) ==
  /\ place[w] = "idle" /\ active /\ ~failing
  /\ CancelForFailure
  /\ UNCHANGED <<gates, alarm, place, starting, active, followed, canceling, overlapped>>

Wake(w) ==
  /\ place[w] = "idle" /\ ~active
  /\ (AutoStart /\ ~consumed) \/ requested
  /\ Go(w, IF AutoStart /\ ~consumed THEN "auto" ELSE "request")
  /\ UNCHANGED <<gates, alarm, starting, task, goalOf, overlapped>>

Gated(w) ==
  /\ place[w] = "auto"
  /\ IF GateOpen THEN consumed' = TRUE /\ requested' = TRUE
                 ELSE UNCHANGED starting
  /\ Go(w, "request")
  /\ UNCHANGED <<gates, alarm, task, goalOf, overlapped>>

TakeRequest(w) ==
  /\ place[w] = "request"
  /\ requested' = FALSE
  /\ Go(w, IF requested THEN "gate" ELSE "idle")
  /\ UNCHANGED <<gates, alarm, consumed, task, goalOf, overlapped>>

(* _send_goal looks at the gates again, and then sends. *)
SendGate(w) ==
  /\ place[w] = "gate"
  /\ Go(w, IF GateOpen THEN "send" ELSE "idle")
  /\ overlapped' = (overlapped \/ (GateOpen /\ \E v \in Timers : place[v] = "send"))
  /\ UNCHANGED <<gates, alarm, starting, task, goalOf>>

Send(w, g) ==
  /\ place[w] = "send" /\ goalOf[g] = Fresh
  /\ failing' = FALSE /\ canceling' = FALSE /\ active' = TRUE
  /\ goalOf' = [goalOf EXCEPT ![g].answer = "asked"]
  /\ Go(w, "idle")
  /\ UNCHANGED <<gates, alarm, starting, followed, overlapped>>

----------------------------------------------------------------------------
(* The callbacks of a goal. *)

Finish == active' = FALSE /\ followed' = NoGoal

PathRefused(g) ==
  /\ goalOf[g].answer = "refused"
  /\ Finish
  /\ goalOf' = [goalOf EXCEPT ![g] = Fresh]
  /\ UNCHANGED <<gates, alarm, place, starting, failing, canceling, overlapped>>

RegisterChild(g) ==
  /\ goalOf[g].answer = "accepted"
  /\ followed' = g
  /\ goalOf' = [goalOf EXCEPT ![g].answer = "registered"]
  /\ UNCHANGED <<gates, alarm, place, starting, active, failing, canceling, overlapped>>

FollowChild_Unchecked(g) ==
  /\ goalOf[g].answer = "registered"
  /\ goalOf' = [goalOf EXCEPT ![g].answer = "followed"]
  /\ UNCHANGED <<gates, alarm, place, starting, task, overlapped>>

FollowChild(g) ==
  /\ goalOf[g].answer = "registered"
  /\ goalOf' = [goalOf EXCEPT ![g].answer = "followed",
                          ![g].stop = @ \/ failing \/ canceling]
  /\ UNCHANGED <<gates, alarm, place, starting, task, overlapped>>

(* The result, whatever it is, ends the task.                              *)
Result(g) ==
  /\ goalOf[g].answer = "followed" /\ goalOf[g].motion = "over"
  /\ Finish
  /\ goalOf' = [goalOf EXCEPT ![g] = Fresh]
  /\ UNCHANGED <<gates, alarm, place, starting, failing, canceling, overlapped>>

----------------------------------------------------------------------------
(* Nav2. *)
NavAccepts(g) ==
  /\ goalOf[g].answer = "asked"
  /\ goalOf' = [h \in Goals |->
                IF h = g THEN [goalOf[h] EXCEPT !.answer = "accepted", !.motion = "driven"]
                ELSE IF Driven(h) THEN [goalOf[h] EXCEPT !.motion = "over"]
                ELSE goalOf[h]]
  /\ UNCHANGED <<gates, alarm, place, starting, task, overlapped>>

NavRefuses(g) ==
  /\ goalOf[g].answer = "asked"
  /\ goalOf' = [goalOf EXCEPT ![g].answer = "refused"]
  /\ UNCHANGED <<gates, alarm, place, starting, task, overlapped>>

(* It reaches the end of the path, gives up, or stops as it is told. *)
PathEnds(g) ==
  /\ Driven(g)
  /\ goalOf' = [goalOf EXCEPT ![g].motion = "over"]
  /\ UNCHANGED <<gates, alarm, place, starting, task, overlapped>>

----------------------------------------------------------------------------
Timer(w) ==
  \/ Wake(w) \/ Gated(w) \/ TakeRequest(w) \/ SendGate(w)
  \/ \E g \in Goals : Send(w, g)

Callback(g) == PathRefused(g) \/ RegisterChild(g) \/ FollowChild(g) \/ Result(g)

TeachStep ==
  \/ \E good, deviates \in BOOLEAN : Message(good, deviates)
  \/ Silence \/ Alarm \/ StartService \/ CancelService
  \/ \E w \in Timers : Timer(w) \/ Watch(w)
  \/ \E g \in Goals : Callback(g) \/ NavAccepts(g) \/ NavRefuses(g) \/ PathEnds(g)

(* Callbacks and the timer run; Nav2 answers and obeys a cancel, but need  *)
(* not come to the end of a path.  A gate that is lost is reported again   *)
(* and again, or falls silent.                                             *)
TeachFairness ==
  /\ WF_teachVars(Alarm)
  /\ \A w \in Timers : WF_teachVars(Timer(w)) /\ WF_teachVars(silent /\ Watch(w))
  /\ WF_teachVars(~ready /\ Message(FALSE, FALSE))
  /\ \A g \in Goals :
       /\ WF_teachVars(Callback(g))
       /\ WF_teachVars(NavAccepts(g) \/ NavRefuses(g))
       /\ WF_teachVars(goalOf[g].stop /\ PathEnds(g))

TeachSpec == TeachInit /\ [][TeachStep]_teachVars /\ TeachFairness

----------------------------------------------------------------------------
(* As long as two runs of the timer do not send side by side, Nav2 follows *)
(* no path that the executor takes for over: a path it knows is that of    *)
(* the active task, and one it does not know yet will be.  And a loss or a *)
(* cancel that the task has noted is not forgotten: a path it knows has    *)
(* been told to stop, whatever came between the handle and the look at it. *)
DrivenIsSupervised ==
  ~overlapped =>
    \A g \in Goals : Driven(g) =>
      /\ active
      /\ goalOf[g].answer \in {"registered", "followed"} => followed = g
      /\ goalOf[g].answer = "followed" /\ (failing \/ canceling) => goalOf[g].stop

(* "While a path is executed, every gate that is stale or lost asks Nav2   *)
(* to cancel it": when the gates are lost for good, no path is driven for  *)
(* good.                                                                   *)
LossStopsPath == <>[](~ready \/ silent) => <>[](\A g \in Goals : ~Driven(g))

(* The same as long as two runs of the timer do not send side by side:     *)
(* also a loss between the look at the gates and the start is acted on.    *)
SerialLossStopsPath == LossStopsPath \/ <>overlapped

=============================================================================
