--------------------------- MODULE Relocalization ---------------------------
(***************************************************************************)
(* Relocalization (agt_localization, relocalization_node.cpp and           *)
(* localization_supervisor.cpp) and the clients that ask for it: the       *)
(* coordinator of the localization modes (agt_system_manager,              *)
(* relocalization_mode_controller.py over localization_mode.py), the       *)
(* one-shot client of the start (agt_bringup,                              *)
(* automatic_relocalization.py) and the operator.                          *)
(*                                                                         *)
(* The callbacks of the node run on one thread; one worker thread at a     *)
(* time runs a search for a goal, a search from an initial pose, or the    *)
(* periodic validation of the tracking.  Candidates are counted, poses are *)
(* not modelled; a scan, a transform and a registration are good or not.   *)
(***************************************************************************)
EXTENDS Naturals

CONSTANTS MaxCandidates,    \* candidates of a search
          FailuresToRecover, FailuresToLost,
          MaxAttempts       \* of the coordinator

ASSUME LocalizationAssumption ==
  /\ MaxCandidates \in Nat \ {0}
  /\ MaxAttempts \in Nat \ {0}
  /\ FailuresToRecover \in Nat \ {0}
  /\ FailuresToLost \in Nat /\ FailuresToRecover <= FailuresToLost

VARIABLES state,      \* the supervisor's state
          failures,   \* its consecutive failures, up to FailuresToLost
          located,    \* a map -> odom transform was adopted (has_latest_tf_)
          run,        \* what the worker does
          cancel,     \* cancel_requested_
          status,     \* the last status published: its state, and pose_valid
          client,     \* client[c]: the goal of client c
          mode,       \* the coordinator's mode
          attempts, exhausted, startup,  \* its policy
          cooling,    \* the last attempt is younger than the cooldown
          deadline,   \* "none", "set" or "passed"
          sent        \* history: searches sent since set_mode or a success

supervisorVars == <<state, failures, located>>
workerVars == <<run, cancel, status>>
policyVars == <<mode, attempts, exhausted, startup, cooling, deadline, sent>>
localizationVars == <<supervisorVars, workerVars, client, policyVars>>

Clients == {"coordinator", "startup", "operator"}
ModeNames == {"MANUAL_ONLY", "AUTO_ON_START", "AUTO_RECOVERY"}
States == {"UNINITIALIZED", "SEARCHING", "VERIFYING", "TRACKING", "DEGRADED",
           "RECOVERING", "LOST"}

NoRun == [kind |-> "none"]
Run(kind, owner, place) ==
  [kind |-> kind, owner |-> owner, place |-> place, left |-> 0, good |-> 0,
   success |-> FALSE]
Running == run.kind # "none"        \* execution_running_
At(place) == Running /\ run.place = place
Search == run.kind \in {"goal", "pose"}

LocalizationTypeOK ==
  /\ state \in States
  /\ failures \in 0..FailuresToLost
  /\ {located, cancel, exhausted, startup, cooling} \subseteq BOOLEAN
  /\ status \in [state : States \cup {"ERROR", "NONE"}, valid : BOOLEAN]
  /\ client \in [Clients -> {"idle", "sent", "running", "success", "failure", "done"}]
  /\ mode \in ModeNames
  /\ attempts \in 0..MaxAttempts
  /\ deadline \in {"none", "set", "passed"}

(* The node that searches once at start, and the other clients. *)
ClientsInit == client = [c \in Clients |-> "idle"]

(* The coordinator starts in the mode it is given. *)
PolicyInit ==
  /\ mode \in ModeNames
  /\ attempts = 0 /\ exhausted = FALSE /\ startup = (mode = "AUTO_ON_START")
  /\ cooling = FALSE /\ deadline = "none" /\ sent = 0

(* Nothing is published before the first run. *)
LocalizationInit ==
  /\ state = "UNINITIALIZED" /\ failures = 0 /\ located = FALSE
  /\ run = NoRun /\ cancel = FALSE
  /\ status = [state |-> "NONE", valid |-> FALSE]
  /\ ClientsInit /\ PolicyInit

(* Only the coordinator uses what is answered. *)
Answered(c, success) ==
  [client EXCEPT ![c] = CASE c = "operator" -> "idle"
                          [] c = "startup"  -> "done"
                          [] OTHER          -> IF success THEN "success" ELSE "failure"]

Fails == failures' = IF failures < FailuresToLost THEN failures + 1 ELSE failures
Publish(s, valid) == status' = [state |-> s, valid |-> valid]

(* The supervisor, at the steps of a search. *)
BeginSearch == state' = "SEARCHING" /\ failures' = 0
AcceptSearchResult == state' = "TRACKING" /\ failures' = 0
RejectSearchResult == state' = "LOST" /\ Fails
CancelSearch == state' = "RECOVERING" /\ UNCHANGED failures

----------------------------------------------------------------------------
(* The node's callbacks. *)

(* A goal: one that is refused, for its fields or because a run is under   *)
(* way, fails at once.                                                     *)
HandleGoal(c) ==
  /\ client[c] = "sent"
  /\ \/ /\ client' = Answered(c, FALSE)
        /\ UNCHANGED <<run, cancel>>
     \/ /\ ~Running
        /\ client' = [client EXCEPT ![c] = "running"]
        /\ run' = Run("goal", c, "build")
        /\ cancel' = FALSE
  /\ UNCHANGED <<supervisorVars, status, policyVars>>

(* Only the operator's tools cancel. *)
HandleCancel ==
  /\ client["operator"] = "running"
  /\ cancel' = TRUE
  /\ UNCHANGED <<supervisorVars, run, status, client, policyVars>>

(* A pose drawn in RViz starts a search of its own, unless a run is under  *)
(* way; one in a wrong frame is published as an error, whatever runs.      *)
InitialPose(usable) ==
  /\ IF usable
       THEN /\ ~Running
            /\ run' = [Run("pose", "operator", "checks") EXCEPT !.left = 1]
            /\ cancel' = FALSE
            /\ UNCHANGED status
       ELSE Publish("ERROR", FALSE) /\ UNCHANGED <<run, cancel>>
  /\ UNCHANGED <<supervisorVars, client, policyVars>>

(* The timer of the tracking validation. *)
StartValidation ==
  /\ state \in {"TRACKING", "DEGRADED", "RECOVERING"}
  /\ ~Running /\ located
  /\ run' = [Run("validation", "operator", "checks") EXCEPT !.left = 1]
  /\ cancel' = FALSE
  /\ UNCHANGED <<supervisorVars, status, client, policyVars>>

----------------------------------------------------------------------------
(* The worker. *)

Ends(success) ==
  run' = [run EXCEPT !.place = IF Search THEN "answer" ELSE "validate",
                     !.left = 0, !.success = success]

(* The candidates of the goal: those of the last pose, the configuration   *)
(* and an external pose that are usable, best first, without duplicates.   *)
BuildCandidates ==
  /\ At("build")
  /\ \E n \in 1..MaxCandidates : run' = [run EXCEPT !.place = "checks", !.left = n]
  /\ UNCHANGED <<supervisorVars, cancel, status, client, policyVars>>

NoCandidates_Unanswered ==
  /\ At("build")
  /\ run' = NoRun
  /\ Publish("LOST", FALSE)
  /\ UNCHANGED <<supervisorVars, cancel, client, policyVars>>

NoCandidates ==
  /\ At("build")
  /\ Ends(FALSE)
  /\ Publish("LOST", FALSE)
  /\ UNCHANGED <<supervisorVars, cancel, client, policyVars>>

(* A run that cannot begin says so, the validation not before its end; the *)
(* supervisor does not learn of a search that never began.                 *)
Refuse(s) ==
  /\ At("checks")
  /\ Ends(FALSE)
  /\ IF Search THEN Publish(s, FALSE) ELSE UNCHANGED status
  /\ UNCHANGED <<supervisorVars, cancel, client, policyVars>>

RefuseMap == Refuse("LOST")
RefuseScan == Refuse("LOST")
RefuseTransform == Refuse("ERROR")

(* A validation of a scan that was validated before, or of an older one,   *)
(* ends without a word.                                                    *)
SkipValidation ==
  /\ At("checks") /\ run.kind = "validation"
  /\ run' = NoRun
  /\ UNCHANGED <<supervisorVars, cancel, status, client, policyVars>>

Begin_Silent ==
  /\ At("checks")
  /\ run' = [run EXCEPT !.place = "candidates"]
  /\ IF Search THEN BeginSearch
               ELSE located /\ UNCHANGED <<state, failures>>
  /\ UNCHANGED <<located, cancel, status, client, policyVars>>

Begin ==
  /\ At("checks")
  /\ run' = [run EXCEPT !.place = "candidates"]
  /\ IF Search
       THEN BeginSearch /\ Publish("SEARCHING", FALSE)
       ELSE located /\ UNCHANGED <<state, failures, status>>
  /\ UNCHANGED <<located, cancel, client, policyVars>>

(* The next candidate is registered with the map. *)
TryCandidate(good) ==
  /\ At("candidates") /\ run.left > 0 /\ ~cancel
  /\ run' = [run EXCEPT !.left = @ - 1, !.good = @ + (IF good THEN 1 ELSE 0)]
  /\ IF Search
       THEN /\ state' = "VERIFYING"
            /\ Publish(IF good THEN "VERIFYING" ELSE "DEGRADED", FALSE)
       ELSE UNCHANGED <<state, status>>
  /\ UNCHANGED <<failures, located, cancel, client, policyVars>>

(* Before each candidate the worker looks for a cancel and for the time. *)
StopCanceled ==
  /\ At("candidates") /\ run.left > 0 /\ cancel
  /\ Ends(FALSE)
  /\ IF Search THEN CancelSearch /\ Publish("RECOVERING", FALSE)
               ELSE UNCHANGED <<state, failures, status>>
  /\ UNCHANGED <<located, cancel, client, policyVars>>

StopTimedOut ==
  /\ At("candidates") /\ run.left > 0 /\ ~cancel
  /\ Ends(FALSE)
  /\ IF Search THEN RejectSearchResult /\ Publish("LOST", FALSE)
               ELSE UNCHANGED <<state, failures, status>>
  /\ UNCHANGED <<located, cancel, client, policyVars>>

(* No candidate was good, or two were and cannot be told apart. *)
RejectResult ==
  /\ At("candidates") /\ run.left = 0 /\ run.good # 1
  /\ Ends(FALSE)
  /\ IF Search THEN RejectSearchResult /\ Publish("LOST", FALSE)
               ELSE UNCHANGED <<state, failures, status>>
  /\ UNCHANGED <<located, cancel, client, policyVars>>

(* The best candidate: a search adopts its transform and remembers it, a   *)
(* validation does not.                                                    *)
AcceptResult ==
  /\ At("candidates") /\ run.left = 0 /\ run.good > 0
  /\ Ends(TRUE)
  /\ IF Search
       THEN AcceptSearchResult /\ located' = TRUE /\ Publish("TRACKING", TRUE)
       ELSE UNCHANGED <<supervisorVars, status>>
  /\ UNCHANGED <<cancel, client, policyVars>>

(* The supervisor's view of a validation. *)
AfterValidation ==
  CASE run.success /\ state \in {"DEGRADED", "RECOVERING"} -> "TRACKING"
    [] ~run.success /\ state = "TRACKING" -> "DEGRADED"
    [] ~run.success /\ state = "DEGRADED"
         /\ failures + 1 >= FailuresToRecover -> "RECOVERING"
    [] ~run.success /\ state = "RECOVERING"
         /\ failures + 1 >= FailuresToLost -> "LOST"
    [] OTHER -> state

EndValidation ==
  /\ At("validate")
  /\ state' = AfterValidation
  /\ IF run.success
       THEN failures' = IF state = "TRACKING" THEN failures ELSE 0
       ELSE Fails
  /\ Publish(state', run.success)
  /\ run' = NoRun
  /\ UNCHANGED <<located, cancel, client, policyVars>>

(* The answer to the goal; a cancel that came too late to stop the search  *)
(* is still answered as a cancel.                                          *)
Answer ==
  /\ At("answer")
  /\ client' = IF run.kind = "goal"
                 THEN Answered(run.owner, run.success /\ ~cancel)
                 ELSE client
  /\ run' = NoRun
  /\ UNCHANGED <<supervisorVars, cancel, status, policyVars>>

Works ==
  \/ BuildCandidates \/ NoCandidates
  \/ RefuseMap \/ RefuseScan \/ RefuseTransform
  \/ Begin \/ \E good \in BOOLEAN : TryCandidate(good)
  \/ StopCanceled \/ StopTimedOut \/ RejectResult \/ AcceptResult
  \/ EndValidation \/ Answer

Worker == Works \/ SkipValidation

----------------------------------------------------------------------------
(* The operator and the one-shot client. *)
AskByHand ==
  /\ client["operator"] = "idle"
  /\ client' = [client EXCEPT !["operator"] = "sent"]
  /\ UNCHANGED <<supervisorVars, workerVars, policyVars>>

(* Sent once, when a scan was seen; or given up when none comes in time. *)
AskAtStart(ready) ==
  /\ client["startup"] = "idle"
  /\ client' = [client EXCEPT !["startup"] = IF ready THEN "sent" ELSE "done"]
  /\ UNCHANGED <<supervisorVars, workerVars, policyVars>>

----------------------------------------------------------------------------
(* The coordinator. *)

SetMode(m) ==
  /\ mode' = m
  /\ attempts' = 0 /\ exhausted' = FALSE /\ startup' = (m = "AUTO_ON_START")
  /\ cooling' = FALSE /\ deadline' = "none" /\ sent' = 0
  /\ UNCHANGED <<supervisorVars, workerVars, client>>

(* Its action is under way (_action_active).  The map is ready when a      *)
(* status names it, and every status does.                                 *)
Active == client["coordinator"] # "idle"
MayTrigger == mode # "MANUAL_ONLY" /\ ~exhausted /\ status.state # "NONE"
MayRecover ==
  mode = "AUTO_RECOVERY" /\ status.state \in {"DEGRADED", "RECOVERING"}
Spent == attempts = MaxAttempts \/ (~cooling /\ deadline = "passed")

SendSearch_NotCounted ==
  /\ ~Active /\ MayTrigger
  /\ \/ mode = "AUTO_ON_START" /\ startup
     \/ MayRecover /\ ~Spent /\ ~cooling
  /\ client' = [client EXCEPT !["coordinator"] = "sent"]
  /\ cooling' = TRUE
  /\ startup' = FALSE
  /\ sent' = sent + 1
  /\ UNCHANGED <<supervisorVars, workerVars, mode, attempts, exhausted, deadline>>

SendSearch ==
  /\ ~Active /\ MayTrigger
  /\ \/ mode = "AUTO_ON_START" /\ startup
     \/ MayRecover /\ ~Spent /\ ~cooling
  /\ client' = [client EXCEPT !["coordinator"] = "sent"]
  /\ attempts' = attempts + 1
  /\ cooling' = TRUE
  /\ deadline' = IF deadline = "none" THEN "set" ELSE deadline
  /\ startup' = FALSE
  /\ sent' = sent + 1
  /\ UNCHANGED <<supervisorVars, workerVars, mode, exhausted>>

Exhaust ==
  /\ ~Active /\ MayTrigger /\ MayRecover /\ Spent
  /\ exhausted' = TRUE
  /\ UNCHANGED <<supervisorVars, workerVars, client, mode, attempts, startup,
                 cooling, deadline, sent>>

(* A rejected goal counts as a failed attempt. *)
FinishAttempt ==
  /\ client["coordinator"] \in {"success", "failure"}
  /\ client' = [client EXCEPT !["coordinator"] = "idle"]
  /\ IF client["coordinator"] = "success"
       THEN attempts' = 0 /\ exhausted' = FALSE /\ deadline' = "none" /\ sent' = 0
       ELSE /\ exhausted' = (exhausted \/ mode = "AUTO_ON_START"
                                       \/ attempts >= MaxAttempts)
            /\ UNCHANGED <<attempts, deadline, sent>>
  /\ UNCHANGED <<supervisorVars, workerVars, mode, startup, cooling>>

Time ==
  /\ \/ cooling /\ cooling' = FALSE /\ UNCHANGED deadline
     \/ deadline = "set" /\ deadline' = "passed" /\ UNCHANGED cooling
  /\ UNCHANGED <<supervisorVars, workerVars, client, mode, attempts, exhausted,
                 startup, sent>>

Coordinator == SendSearch \/ Exhaust \/ FinishAttempt

----------------------------------------------------------------------------
LocalizationStep ==
  \/ \E c \in Clients : HandleGoal(c)
  \/ StartValidation \/ Worker \/ Coordinator \/ Time
  \/ HandleCancel \/ AskByHand \/ \E ready \in BOOLEAN : AskAtStart(ready)
  \/ \E usable \in BOOLEAN : InitialPose(usable)
  \/ \E m \in ModeNames : SetMode(m)

(* The worker and the callbacks run; a validation is not skipped for ever: *)
(* the scans are new.                                                      *)
LocalizationFairness ==
  /\ WF_localizationVars(Worker)
  /\ \A c \in Clients : WF_localizationVars(HandleGoal(c))
  /\ SF_localizationVars(StartValidation)
  /\ SF_localizationVars(run.kind = "validation" /\ Works)
  /\ WF_localizationVars(Coordinator)
  /\ WF_localizationVars(Time)

LocalizationSpec ==
  LocalizationInit /\ [][LocalizationStep]_localizationVars /\ LocalizationFairness

----------------------------------------------------------------------------
(* A status that the gate and the safety controller may drive on is        *)
(* published only when the supervisor tracks and a transform was adopted,  *)
(* and it does not outlive the tracking: whatever starts, is canceled, is  *)
(* refused or times out in between.                                        *)
AcceptedIsTracking == status.valid => state = "TRACKING" /\ located

(* The coordinator sends no more searches than it may since the mode was   *)
(* set or a search succeeded, however answers of earlier modes arrive:     *)
(* MaxAttempts, and one for AUTO_ON_START.                                 *)
AttemptsBounded ==
  sent <= IF mode = "AUTO_ON_START" THEN 1 ELSE MaxAttempts

(* A goal that the node took is answered. *)
SearchEnds ==
  \A c \in Clients : client[c] = "running" ~> client[c] # "running"

=============================================================================
