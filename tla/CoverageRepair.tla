--------------------------- MODULE CoverageRepair ---------------------------
(***************************************************************************)
(* The repair of a coverage path (agt_coverage_planning,                   *)
(* scripts/coverage_path_repair.py and path_repair.py): the connections    *)
(* that the validator found invalid are planned anew by Nav2, one goal     *)
(* after the other, and the repaired path is published only as a whole.    *)
(* The node handles one callback at a time; its inputs are latched topics, *)
(* received in any order, that may change while Nav2 plans.                *)
(*                                                                         *)
(* A path is a sequence of parts: the connections 1, 2, ... in the order   *)
(* in which they are driven, and the swaths, which are one part, 0.  A     *)
(* part is laid out as it was planned first ("source") or anew ("new");    *)
(* the costmap and the keepout mask are the layouts that collide in them.  *)
(* Nav2's planner is external.                                             *)
(***************************************************************************)
EXTENDS Integers, FiniteSetsExt

CONSTANTS
  Paths, NoPath,  \* the paths that are planned, each with its semantics
  Connections,    \* 1..N
  Verdicts,       \* validation reports: [path, valid, bad], bad the invalid parts
  Costmaps        \* sets of layouts that collide

(* Any of the connections, the first of them comes first: 1..N. *)
ASSUME ConnectionsAssumption ==
  /\ Connections \subseteq Nat \ {0}
  /\ \A S \in SUBSET Connections : S # {} => \E c \in S : \A d \in S : c =< d

Swaths == 0
Parts == Connections \cup {Swaths}
NoReport == [path |-> NoPath, valid |-> FALSE, bad |-> {}]
NoRepair == [path |-> NoPath, targets |-> {}, done |-> {}, aligned |-> TRUE]
Layout(part, anew) == <<part, IF anew THEN "new" ELSE "source">>

VARIABLES path, semantics, report,  \* the last messages of the products
          obstacles,                \* ... of the costmap and the mask
          sound,                    \* ... the status is LOADED, the footprint fits
          serving,                  \* the planner's action server is there
          repair,                   \* pending: the repair under way, or NoRepair
          request,                  \* its goal in Nav2: "sent" or "planning"
          key,                      \* _auto_attempt_key
          repaired                  \* the last message on path_repaired

inputs == <<path, semantics, report, obstacles, sound, serving>>
repairVars == <<inputs, repair, request, key, repaired>>

Empty == [path |-> NoPath, anew |-> {}]

RepairTypeOK ==
  /\ {path, semantics} \subseteq Paths \cup {NoPath}
  /\ report \in Verdicts \cup {NoReport} /\ key \in Verdicts \cup {NoReport}
  /\ obstacles \in Costmaps
  /\ {sound, serving} \subseteq BOOLEAN
  /\ repair = NoRepair \/
       /\ repair.path \in Paths
       /\ repair.targets \subseteq Connections /\ repair.done \subseteq repair.targets
       /\ repair.aligned \in BOOLEAN
  /\ request \in {"none", "sent", "planning"}
  /\ repaired.path \in Paths \cup {NoPath} /\ repaired.anew \subseteq Connections

RepairInit ==
  /\ path = NoPath /\ semantics = NoPath /\ report = NoReport
  /\ obstacles \in Costmaps
  /\ sound = FALSE /\ serving = FALSE
  /\ repair = NoRepair /\ request = "none"
  /\ key = NoReport
  /\ repaired = Empty

(* _validate_poses: no part, laid out anew when it is in that set, collides. *)
Clear(anew) == \A part \in Parts : Layout(part, part \in anew) \notin obstacles

----------------------------------------------------------------------------
(* The inputs change, one message at a time. *)
Receive ==
  /\ \/ \E p \in Paths : path' = p /\ UNCHANGED <<semantics, report>>
     \/ \E p \in Paths : semantics' = p /\ UNCHANGED <<path, report>>
     \/ \E v \in Verdicts : report' = v /\ UNCHANGED <<path, semantics>>
  /\ UNCHANGED <<obstacles, sound, serving, repair, request, key, repaired>>

Surroundings ==
  /\ \/ obstacles' \in Costmaps /\ UNCHANGED <<sound, serving>>
     \/ sound' = ~sound /\ UNCHANGED <<obstacles, serving>>
     \/ serving' = ~serving /\ UNCHANGED <<obstacles, sound>>
  /\ UNCHANGED <<path, semantics, report, repair, request, key, repaired>>

----------------------------------------------------------------------------
(* Starting: what _require_inputs, prepare_connection_repairs and the      *)
(* first validations accept.                                               *)
Complete == path # NoPath /\ semantics # NoPath /\ report # NoReport

ReadyToRepair ==
  /\ Complete /\ sound
  /\ semantics = path /\ report.path = path
  /\ report.valid \/ (report.bad # {} /\ report.bad \subseteq Connections)

(* The report and the costmap agree on whether there is something to do.   *)
Agreed == Clear({}) = report.valid

PublishFailure == repaired' = Empty

StartRefused ==
  /\ ~ReadyToRepair \/ ~Agreed \/ (~report.valid /\ ~serving)
  /\ PublishFailure
  /\ UNCHANGED <<repair, request>>

Unchanged ==
  /\ ReadyToRepair /\ Agreed /\ report.valid
  /\ repaired' = [path |-> path, anew |-> {}]
  /\ UNCHANGED <<repair, request>>

Begin ==
  /\ ReadyToRepair /\ Agreed /\ ~report.valid /\ serving
  /\ repair' = [path |-> path, targets |-> report.bad, done |-> {}, aligned |-> TRUE]
  /\ request' = "sent"
  /\ UNCHANGED repaired

StartRepair == StartRefused \/ Unchanged \/ Begin

(* The service; while a repair is under way it is refused. *)
RepairService ==
  /\ repair = NoRepair
  /\ StartRepair
  /\ UNCHANGED <<inputs, key>>

(* The timer of the preview: one attempt for each report. *)
AutoRepairTick ==
  /\ repair = NoRepair
  /\ Complete /\ serving
  /\ key # report
  /\ key' = report
  /\ StartRepair
  /\ UNCHANGED inputs

----------------------------------------------------------------------------
(* The planner's answers.                                                   *)

Abort ==
  /\ repair' = NoRepair
  /\ request' = "none"
  /\ PublishFailure

SourceUnchanged_PathOnly == path = repair.path
SourceUnchanged == path = repair.path /\ semantics = repair.path

(* Everything is looked at again, with the inputs of this moment; the new   *)
(* connections must begin and end where the old ones did.                   *)
FinishRepair(aligned) ==
  IF /\ sound /\ SourceUnchanged
     /\ aligned
     /\ Clear(repair.targets)
  THEN /\ repaired' = [path |-> repair.path, anew |-> repair.targets]
       /\ repair' = NoRepair
       /\ request' = "none"
  ELSE Abort

GoalRefused == request = "sent" /\ Abort
GoalAccepted == request = "sent" /\ request' = "planning" /\ UNCHANGED <<repair, repaired>>
PlanningFails == request = "planning" /\ Abort

(* A connection is planned: the next goal is sent, or all is checked.      *)
Planned(aligned) ==
  LET target == Min(repair.targets \ repair.done)
      done == repair.done \cup {target}
  IN /\ request = "planning"
     /\ IF Layout(target, TRUE) \in obstacles THEN Abort
        ELSE IF done # repair.targets
        THEN /\ repair' = [repair EXCEPT !.done = done, !.aligned = @ /\ aligned]
             /\ request' = "sent"
             /\ UNCHANGED repaired
        ELSE FinishRepair(repair.aligned /\ aligned)

Answer ==
  /\ repair # NoRepair
  /\ \/ GoalRefused \/ GoalAccepted \/ PlanningFails
     \/ \E aligned \in BOOLEAN : Planned(aligned)
  /\ UNCHANGED <<inputs, key>>

RepairNext == Receive \/ Surroundings \/ RepairService \/ AutoRepairTick \/ Answer

(* The node's timer runs, and the planner answers every goal.              *)
RepairSpec ==
  /\ RepairInit /\ [][RepairNext]_repairVars
  /\ WF_repairVars(Answer) /\ WF_repairVars(AutoRepairTick)

----------------------------------------------------------------------------
(* A repair that ends leaves either nothing on path_repaired, or the path   *)
(* and the semantics that are current, with every part of it free of       *)
(* obstacles as they are now: whatever changed while the planner was at    *)
(* work.                                                                   *)
RepairedIsWhole ==
  [][repair # NoRepair /\ repair' = NoRepair /\ repaired' # Empty
       => /\ repaired'.path = path /\ repaired'.path = semantics
          /\ Clear(repaired'.anew)]_repairVars

=============================================================================
