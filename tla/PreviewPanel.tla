---------------------------- MODULE PreviewPanel ----------------------------
(***************************************************************************)
(* The route preview of the semantic map editor: the panel of the editor   *)
(* (agt_ui_bridge, semantic_editor_qt5.py) launches the nodes of an        *)
(* offline preview (agt_coverage_planning, coverage_preview.launch.py) and *)
(* shows what they publish: the planned path, the path after repair, the   *)
(* audit of the planned path, the collisions it found, which the panel     *)
(* marks on the path, and the way from the entry to the path.  Every topic *)
(* is delivered on its own.                                                *)
(*                                                                         *)
(* Nodes are stopped with the launch that started them, but may outlive    *)
(* it; all previews of one editor share one ROS domain.  A path is its     *)
(* stamp, 0 for an empty path.  Numbers, texts and marks of the panel are  *)
(* left out, except what it says of the safety of the path.                *)
(***************************************************************************)
EXTENDS Naturals, FiniteSets

CONSTANTS Runs,     \* the previews one editor starts, 1..n
          MaxClock  \* bound: stamps that are given

ASSUME PreviewPanelAssumption == Runs \subseteq Nat \ {0} /\ MaxClock \in Nat

VARIABLES nodes,     \* of each preview: its nodes
          lastStamp, \* the last stamp
          air,       \* messages under way, one for each topic and publisher
          panel,
          foreign    \* history: a message of another preview came in this one

panelVars == <<nodes, lastStamp, air, panel, foreign>>

NoRoute == 0
NoNodes == [alive |-> FALSE, raw |-> NoRoute, audited |-> NoRoute, repaired |-> NoRoute,
            source |-> NoRoute, success |-> FALSE, attempt |-> NoRoute, pending |-> FALSE]

PanelInit ==
  /\ nodes = [r \in Runs |-> NoNodes]
  /\ lastStamp = 0
  /\ air = {} /\ foreign = FALSE
  /\ panel = [run |-> 0, active |-> FALSE, after |-> 0, hasPath |-> FALSE,
              shown |-> NoRoute, repaired |-> FALSE,
              says |-> "nothing", of |-> NoRoute, pendingAudit |-> NoRoute,
              markers |-> NoRoute, pendingMarkers |-> NoRoute, pendingSome |-> FALSE,
              approach |-> NoRoute]

(* A topic keeps the last message of each publisher. *)
Sent(r, topic, stamp, of, good) ==
  [run |-> r, topic |-> topic, stamp |-> stamp, of |-> of, good |-> good]
Published(r, ms) ==
  {m \in air : ~(m.run = r /\ m.topic \in {n.topic : n \in ms})} \cup ms

Tick(n) == lastStamp + n <= MaxClock /\ lastStamp' = lastStamp + n

----------------------------------------------------------------------------
(* The nodes of preview r. *)

(* The adapter clears path_preview before each request, and publishes the  *)
(* path of the planner.                                                    *)
PublishPlan(r) ==
  /\ nodes[r].alive
  /\ Tick(1)
  /\ \E of \in {lastStamp', NoRoute} :
       /\ nodes' = [nodes EXCEPT ![r].raw = of]
       /\ air' = Published(r, {Sent(r, "path", lastStamp', of, TRUE)})
  /\ UNCHANGED <<panel, foreign>>

(* CoveragePreviewAuditor._audit: the report and the collisions, of which  *)
(* there may be none, carry the stamp of the path; of an empty path both   *)
(* are empty.                                                              *)
Audit(r) ==
  /\ nodes[r].alive /\ nodes[r].audited # nodes[r].raw
  /\ nodes' = [nodes EXCEPT ![r].audited = nodes[r].raw]
  /\ \E some \in {FALSE, nodes[r].raw # NoRoute} :
       LET of == nodes[r].raw
           stamp == IF of = NoRoute THEN lastStamp ELSE of
       IN  air' = Published(r, {Sent(r, "audit", stamp, of, TRUE),
                                Sent(r, "collisions", stamp, of, some)})
  /\ UNCHANGED <<lastStamp, panel, foreign>>

(* The repair answers with the repaired path and its report, or with an    *)
(* empty path and a failure.                                               *)
Repair(r) ==
  /\ nodes[r].alive /\ nodes[r].source # nodes[r].raw /\ nodes[r].raw # NoRoute
  /\ Tick(1)
  /\ \E good \in BOOLEAN :
       /\ nodes' = [nodes EXCEPT ![r].source = nodes[r].raw, ![r].success = good,
                                 ![r].repaired = IF good THEN lastStamp' ELSE NoRoute]
       /\ air' = Published(r, {Sent(r, "repaired", lastStamp', nodes'[r].repaired, good),
                               Sent(r, "verdict", lastStamp', nodes'[r].repaired, good)})
  /\ UNCHANGED <<panel, foreign>>

(* CoverageApproachPreview._tick: one attempt for each repaired path, one  *)
(* at a time.  At the first pose already, or with another footprint, it    *)
(* answers at once with an empty path.                                     *)
ApproachTick(r) ==
  /\ nodes[r].alive /\ ~nodes[r].pending
  /\ nodes[r].success /\ nodes[r].repaired \notin {NoRoute, nodes[r].attempt}
  /\ nodes' = [nodes EXCEPT ![r].attempt = nodes[r].repaired, ![r].pending = TRUE]
  /\ UNCHANGED <<lastStamp, air, panel, foreign>>

(* _goal_response and _goal_result: also the answer to a path that was     *)
(* replaced meanwhile is published.                                        *)
ApproachAnswer(r) ==
  /\ nodes[r].alive /\ nodes[r].pending
  /\ nodes' = [nodes EXCEPT ![r].pending = FALSE]
  /\ air' = Published(r, {Sent(r, "approach", lastStamp, nodes[r].attempt, TRUE)})
  /\ UNCHANGED <<lastStamp, panel, foreign>>

NodesDie(r) ==
  /\ nodes[r].alive /\ (panel.run # r \/ ~panel.active)
  /\ nodes' = [nodes EXCEPT ![r] = NoNodes]
  /\ UNCHANGED <<lastStamp, air, panel, foreign>>

----------------------------------------------------------------------------
(* start_coverage_preview, which stops the preview before and clears the   *)
(* panel; the launch may fail.                                             *)
Started(r, started, markers) ==
  [run |-> r, active |-> started, after |-> lastStamp + 1, hasPath |-> FALSE,
   shown |-> NoRoute, repaired |-> FALSE,
   says |-> "nothing", of |-> NoRoute, pendingAudit |-> NoRoute,
   markers |-> markers, pendingMarkers |-> NoRoute, pendingSome |-> FALSE,
   approach |-> NoRoute]

StartPreview_KeepsMarkers(r) ==
  /\ r = panel.run + 1
  /\ Tick(1)
  /\ \E started \in BOOLEAN :
       /\ nodes' = [nodes EXCEPT ![r].alive = started]
       /\ panel' = Started(r, started, panel.markers)
  /\ foreign' = FALSE
  /\ UNCHANGED air

StartPreview(r) ==
  /\ r = panel.run + 1
  /\ Tick(1)
  /\ \E started \in BOOLEAN :
       /\ nodes' = [nodes EXCEPT ![r].alive = started]
       /\ panel' = Started(r, started, NoRoute)
  /\ foreign' = FALSE
  /\ UNCHANGED air

(* stop_coverage_preview, and _preview_process_finished: what is shown     *)
(* stays.                                                                  *)
StopPreview ==
  /\ panel.active
  /\ \E had \in {FALSE, panel.hasPath} :
       panel' = [panel EXCEPT !.active = FALSE, !.hasPath = had]
  /\ UNCHANGED <<nodes, lastStamp, air, foreign>>

(* _preview_message_is_current *)
MessageIsCurrent(m) == panel.active /\ m.stamp >= panel.after

(* _apply_pending_preview_audit *)
WithAudit_AnyPath(p) ==
  IF p.hasPath /\ p.pendingAudit # NoRoute
  THEN [p EXCEPT !.says = "audited", !.of = p.pendingAudit] ELSE p

WithAudit(p) ==
  IF p.hasPath /\ p.pendingAudit # NoRoute /\ p.pendingAudit = p.shown
  THEN [p EXCEPT !.says = "audited", !.of = p.pendingAudit] ELSE p

(* _apply_pending_preview_collisions: no markers are of no path *)
WithMarkers(p) ==
  IF p.hasPath /\ p.pendingMarkers # NoRoute /\ p.pendingMarkers = p.shown
  THEN [p EXCEPT !.markers = IF p.pendingSome THEN p.pendingMarkers ELSE NoRoute]
  ELSE p

(* _preview_path_callback: an empty path takes the markers with it, another *)
(* path does not.                                                          *)
EmptyShown(m) ==
  [panel EXCEPT !.shown = NoRoute, !.hasPath = FALSE,
                !.says = "nothing", !.of = NoRoute, !.pendingAudit = NoRoute,
                !.markers = NoRoute, !.pendingMarkers = NoRoute, !.pendingSome = FALSE]

PathShown(m) ==
  WithMarkers(WithAudit([panel EXCEPT !.shown = m.of, !.hasPath = TRUE,
                                      !.repaired = (m.topic = "repaired"),
                                      !.says = "checking", !.of = m.of]))

OnPath(m) ==
  /\ m.topic = "path" /\ MessageIsCurrent(m)
  /\ panel' = IF m.of = NoRoute THEN EmptyShown(m) ELSE PathShown(m)

(* _preview_repaired_path_callback *)
OnRepaired(m) ==
  /\ m.topic = "repaired" /\ MessageIsCurrent(m) /\ m.of # NoRoute
  /\ panel' = PathShown(m)

(* _preview_repair_report_callback: the report has no stamp. *)
OnVerdict(m) ==
  /\ m.topic = "verdict" /\ panel.active /\ m.good
  /\ panel' = [panel EXCEPT !.says = "repaired", !.of = m.of]

(* _preview_audit_callback: kept until its path arrives. *)
OnAudit_NotKept(m) ==
  /\ m.topic = "audit" /\ panel.active /\ m.of # NoRoute
  /\ panel' = [WithAudit([panel EXCEPT !.pendingAudit = m.of]) EXCEPT !.pendingAudit = NoRoute]

OnAudit(m) ==
  /\ m.topic = "audit" /\ panel.active
  /\ panel' = IF m.of = NoRoute
              THEN [panel EXCEPT !.says = "nothing", !.of = NoRoute, !.pendingAudit = NoRoute]
              ELSE WithAudit([panel EXCEPT !.pendingAudit = m.of])

(* _preview_collision_callback: kept until its path arrives. *)
OnCollisions(m) ==
  /\ m.topic = "collisions" /\ MessageIsCurrent(m)
  /\ panel' = WithMarkers([panel EXCEPT !.pendingMarkers = m.of, !.pendingSome = m.good])

(* _preview_approach_path_callback *)
OnApproach(m) ==
  /\ m.topic = "approach" /\ MessageIsCurrent(m)
  /\ panel' = [panel EXCEPT !.approach = m.of]

Heeded(m) ==
  \/ m.topic \in {"path", "collisions", "approach"} /\ MessageIsCurrent(m)
  \/ m.topic = "repaired" /\ MessageIsCurrent(m) /\ m.of # NoRoute
  \/ m.topic = "verdict" /\ panel.active /\ m.good
  \/ m.topic = "audit" /\ panel.active

Deliver(m) ==
  /\ air' = air \ {m}
  /\ \/ OnPath(m) \/ OnRepaired(m) \/ OnVerdict(m)
     \/ OnAudit(m) \/ OnCollisions(m) \/ OnApproach(m)
     \/ ~Heeded(m) /\ UNCHANGED panel
  /\ foreign' = (foreign \/ m.run # panel.run)
  /\ UNCHANGED <<nodes, lastStamp>>

----------------------------------------------------------------------------
PanelNext ==
  \/ \E r \in Runs : \/ PublishPlan(r) \/ Audit(r) \/ Repair(r)
                     \/ ApproachTick(r) \/ ApproachAnswer(r) \/ NodesDie(r)
                     \/ StartPreview(r)
  \/ StopPreview
  \/ \E m \in air : Deliver(m)

(* The executors of the nodes and of the panel run, the planner answers,   *)
(* and messages arrive.  These steps are finitely many between two plans,  *)
(* so that fairness to each of them is fairness to all.                    *)
Serve ==
  \/ \E r \in Runs : Audit(r) \/ Repair(r) \/ ApproachTick(r) \/ ApproachAnswer(r)
  \/ \E m \in air : Deliver(m)

PanelFairness == WF_panelVars(Serve)

PanelSpec == PanelInit /\ [][PanelNext]_panelVars /\ PanelFairness

----------------------------------------------------------------------------
(* The auditor's verdict is never shown for a path it was not given for,   *)
(* whatever arrives early, late or from a preview that was stopped.        *)
AuditIsOfShown == panel.says = "audited" => panel.of = panel.shown

(* The collisions that are marked were found in this preview, and are      *)
(* marked only beside a path: no preview before, stopped or failed, and no *)
(* empty path leaves any behind.                                           *)
MarkersAreOfPreview ==
  panel.markers # NoRoute => panel.markers >= panel.after /\ panel.shown # NoRoute

(* Both kinds of findings, the verdict and the collisions.                 *)
FindingsAreOwn == AuditIsOfShown /\ MarkersAreOfPreview

(* Nothing of an earlier preview reached this one, or still can. *)
Alone ==
  /\ ~foreign
  /\ \A r \in Runs \ {panel.run} : ~nodes[r].alive
  /\ \A m \in air : m.run = panel.run

(* A planned path that is shown does not stay "checking": its audit        *)
(* arrives, also when it arrived before the path; or another path is       *)
(* shown, or the preview ends.                                             *)
CheckingEnds ==
  []<>~(panel.active /\ Alone /\ panel.says = "checking" /\ ~panel.repaired)
=============================================================================
