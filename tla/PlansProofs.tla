----------------------------- MODULE PlansProofs -----------------------------
(***************************************************************************)
(* Theorems about what is planned before anything moves: the products of a  *)
(* coverage task, the preview of a path through several points, the panel   *)
(* of the editor that shows a coverage route, and the comparison of         *)
(* several plans.                                                           *)
(***************************************************************************)
EXTENDS CoverageProducts, PathPreview, PreviewPanel, VariantComparison, SequenceTheorems,
        TLAPS

-----------------------------------------------------------------------------
(* The panel. *)

PanelRecord ==
  [run : Nat, active : BOOLEAN, after : Nat, hasPath : BOOLEAN, shown : Nat, repaired : BOOLEAN,
   says : {"nothing", "checking", "audited", "repaired"}, of : Nat, pendingAudit : Nat,
   markers : Nat, pendingMarkers : Nat, pendingSome : BOOLEAN, approach : Nat]

Message == [run : Nat, topic : {"path", "audit", "collisions", "repaired", "verdict", "approach"},
            stamp : Nat, of : Nat, good : BOOLEAN]

Node == [alive : BOOLEAN, raw : Nat, audited : Nat, repaired : Nat, source : Nat,
         success : BOOLEAN, attempt : Nat, pending : BOOLEAN]

\* A path that is not empty carries its stamp.
PathsAreStamped(ms) ==
  \A m \in ms : m.topic \in {"path", "repaired"} /\ m.of # NoRoute => m.of = m.stamp

PanelTypeOK ==
  /\ PathsAreStamped(air)
  /\ nodes \in [Runs -> Node] /\ lastStamp \in Nat /\ air \subseteq Message /\ panel \in PanelRecord

\* What is said and marked of a path that is shown, and a path that is shown is of this preview.
Findings(p) ==
  /\ p.says = "audited" => p.of = p.shown
  /\ p.markers # NoRoute => p.markers >= p.after /\ p.shown # NoRoute
  /\ p.shown # NoRoute => p.shown >= p.after

PanelInv == PanelTypeOK /\ Findings(panel)

LEMMA WithAuditKeeps ==
  ASSUME NEW p \in PanelRecord, Findings(p)
  PROVE  /\ WithAudit(p) \in PanelRecord /\ Findings(WithAudit(p))
         /\ WithAudit(p).shown = p.shown
BY DEF WithAudit, PanelRecord, Findings

LEMMA WithMarkersKeeps ==
  ASSUME NEW p \in PanelRecord, Findings(p)
  PROVE  WithMarkers(p) \in PanelRecord /\ Findings(WithMarkers(p))
<1>1. CASE p.hasPath /\ p.pendingMarkers # NoRoute /\ p.pendingMarkers = p.shown
  <2>1. PICK n \in Nat : n = IF p.pendingSome THEN p.pendingMarkers ELSE NoRoute
    BY DEF PanelRecord, NoRoute
  <2>2. n # NoRoute => n >= p.after /\ p.shown # NoRoute
    BY <1>1, <2>1 DEF Findings
  <2>3. WithMarkers(p) = [p EXCEPT !.markers = n]
    BY <1>1, <2>1 DEF WithMarkers
  <2>4. QED
    BY <2>2, <2>3 DEF PanelRecord, Findings
<1>2. CASE ~(p.hasPath /\ p.pendingMarkers # NoRoute /\ p.pendingMarkers = p.shown)
  BY <1>2 DEF WithMarkers
<1>3. QED
  BY <1>1, <1>2

\* A path that is shown is a path, and its stamp is of this preview.
LEMMA PathShownKeeps ==
  ASSUME panel \in PanelRecord, Findings(panel), NEW m \in Message,
         m.of # NoRoute, m.of >= panel.after
  PROVE  PathShown(m) \in PanelRecord /\ Findings(PathShown(m))
<1>1. PICK p : p = [panel EXCEPT !.shown = m.of, !.hasPath = TRUE, !.repaired = (m.topic = "repaired"),
                                 !.says = "checking", !.of = m.of]
  OBVIOUS
<1>2. p \in PanelRecord /\ Findings(p)
  BY <1>1 DEF PanelRecord, Message, Findings
<1>3. QED
  BY <1>1, <1>2, WithAuditKeeps, WithMarkersKeeps DEF PathShown

LEMMA DeliverKeeps == ASSUME PanelInv, NEW m \in air, Deliver(m) PROVE PanelInv'
<1>1. /\ PanelTypeOK /\ air' = air \ {m} /\ UNCHANGED <<nodes, lastStamp>>
      /\ m \in Message /\ panel \in PanelRecord /\ Findings(panel)
      /\ m.topic \in {"path", "repaired"} /\ m.of # NoRoute => m.of = m.stamp
  BY DEF PanelInv, PanelTypeOK, PathsAreStamped, Deliver
<1>2. panel' \in PanelRecord /\ Findings(panel')
  <2>1. CASE OnPath(m)
    <3>1. EmptyShown(m) \in PanelRecord /\ Findings(EmptyShown(m))
      BY <1>1 DEF EmptyShown, PanelRecord, NoRoute, Findings
    <3>2. m.of # NoRoute => m.of >= panel.after
      BY <1>1, <2>1 DEF OnPath, MessageIsCurrent
    <3>3. QED
      BY <1>1, <2>1, <3>1, <3>2, PathShownKeeps DEF OnPath
  <2>2. CASE OnRepaired(m)
    <3>1. m.of # NoRoute /\ m.of >= panel.after
      BY <1>1, <2>2 DEF OnRepaired, MessageIsCurrent
    <3>2. QED
      BY <1>1, <2>2, <3>1, PathShownKeeps DEF OnRepaired
  <2>3. CASE OnVerdict(m)
    BY <1>1, <2>3 DEF OnVerdict, PanelRecord, Message, Findings
  <2>4. CASE OnAudit(m)
    <3>1. PICK e : e = [panel EXCEPT !.says = "nothing", !.of = NoRoute, !.pendingAudit = NoRoute]
      OBVIOUS
    <3>2. e \in PanelRecord /\ Findings(e)
      BY <1>1, <3>1 DEF PanelRecord, NoRoute, Findings
    <3>3. PICK p : p = [panel EXCEPT !.pendingAudit = m.of]
      OBVIOUS
    <3>4. p \in PanelRecord /\ Findings(p)
      BY <1>1, <3>3 DEF PanelRecord, Message, Findings
    <3>5. CASE m.of = NoRoute
      BY <2>4, <3>1, <3>2, <3>5 DEF OnAudit
    <3>6. CASE m.of # NoRoute
      BY <2>4, <3>3, <3>4, <3>6, WithAuditKeeps DEF OnAudit
    <3>7. QED
      BY <3>5, <3>6
  <2>5. CASE OnCollisions(m)
    <3>1. PICK p : p = [panel EXCEPT !.pendingMarkers = m.of, !.pendingSome = m.good]
      OBVIOUS
    <3>2. p \in PanelRecord /\ Findings(p)
      BY <1>1, <3>1 DEF PanelRecord, Message, Findings
    <3>3. QED
      BY <2>5, <3>1, <3>2, WithMarkersKeeps DEF OnCollisions
  <2>6. CASE OnApproach(m)
    BY <1>1, <2>6 DEF OnApproach, PanelRecord, Message, Findings
  <2>7. CASE UNCHANGED panel
    BY <1>1, <2>7
  <2>8. QED
    BY <2>1, <2>2, <2>3, <2>4, <2>5, <2>6, <2>7 DEF Deliver
<1>3. PanelTypeOK'
  BY <1>1, <1>2 DEF PanelTypeOK, PathsAreStamped
<1>4. QED
  BY <1>2, <1>3 DEF PanelInv

LEMMA PublishedAre ==
  ASSUME air \subseteq Message, PathsAreStamped(air), NEW r, NEW ms \in SUBSET Message,
         PathsAreStamped(ms)
  PROVE  Published(r, ms) \subseteq Message /\ PathsAreStamped(Published(r, ms))
BY DEF Published, PathsAreStamped

LEMMA NodesKeep ==
  ASSUME PanelInv, NEW r \in Runs,
         PublishPlan(r) \/ Audit(r) \/ Repair(r) \/ ApproachTick(r) \/ ApproachAnswer(r) \/ NodesDie(r)
  PROVE  PanelInv'
<1>1. PanelTypeOK /\ nodes[r] \in Node /\ r \in Nat /\ panel' = panel
  BY PreviewPanelAssumption DEF PanelInv, PanelTypeOK, PublishPlan, Audit, Repair, ApproachTick,
     ApproachAnswer, NodesDie
<1>2. /\ lastStamp' \in Nat
      /\ nodes' \in [Runs -> Node] /\ air' \subseteq Message /\ PathsAreStamped(air')
  <2>1. CASE PublishPlan(r)
    <3>1. lastStamp' = lastStamp + 1
      BY <2>1 DEF PublishPlan, Tick
    <3>2. PICK of \in {lastStamp', NoRoute} :
            /\ nodes' = [nodes EXCEPT ![r].raw = of]
            /\ air' = Published(r, {Sent(r, "path", lastStamp', of, TRUE)})
      BY <2>1 DEF PublishPlan
    <3>3. lastStamp' \in Nat /\ of \in Nat
      BY <1>1, <3>1 DEF PanelTypeOK, NoRoute
    <3>4. /\ Sent(r, "path", lastStamp', of, TRUE) \in Message
          /\ PathsAreStamped({Sent(r, "path", lastStamp', of, TRUE)})
      BY <1>1, <3>2, <3>3 DEF Sent, Message, PathsAreStamped
    <3>5. [nodes[r] EXCEPT !.raw = of] \in Node
      BY <1>1, <3>3 DEF Node
    <3>6. QED
      BY <1>1, <3>2, <3>3, <3>4, <3>5, PublishedAre DEF PanelTypeOK
  <2>2. CASE Audit(r)
    <3>1. [nodes[r] EXCEPT !.audited = nodes[r].raw] \in Node /\ nodes[r].raw \in Nat
      BY <1>1 DEF Node
    <3>2. PICK some \in BOOLEAN, stamp \in Nat :
            /\ stamp = IF nodes[r].raw = NoRoute THEN lastStamp ELSE nodes[r].raw
            /\ air' = Published(r, {Sent(r, "audit", stamp, nodes[r].raw, TRUE),
                                    Sent(r, "collisions", stamp, nodes[r].raw, some)})
      BY <1>1, <2>2, <3>1 DEF Audit, PanelTypeOK
    <3>3. PICK ms : ms = {Sent(r, "audit", stamp, nodes[r].raw, TRUE),
                          Sent(r, "collisions", stamp, nodes[r].raw, some)}
      OBVIOUS
    <3>4. ms \in SUBSET Message /\ PathsAreStamped(ms)
      BY <1>1, <3>1, <3>2, <3>3 DEF Sent, Message, PathsAreStamped
    <3>5. air' \subseteq Message /\ PathsAreStamped(air')
      BY <1>1, <3>2, <3>3, <3>4, PublishedAre DEF PanelTypeOK
    <3>6. QED
      BY <1>1, <2>2, <3>1, <3>5 DEF PanelTypeOK, Audit
  <2>3. CASE Repair(r)
    <3>0. Tick(1)
      BY <2>3, Zenon DEF Repair
    <3>1. lastStamp' = lastStamp + 1 /\ lastStamp' \in Nat
      BY <1>1, <3>0 DEF Tick, PanelTypeOK
    <3>2. PICK good \in BOOLEAN :
            /\ nodes' = [nodes EXCEPT ![r].source = nodes[r].raw, ![r].success = good,
                                      ![r].repaired = IF good THEN lastStamp' ELSE NoRoute]
            /\ air' = Published(r, {Sent(r, "repaired", lastStamp', nodes'[r].repaired, good),
                                    Sent(r, "verdict", lastStamp', nodes'[r].repaired, good)})
      BY <2>3 DEF Repair
    <3>3. PICK x \in Nat : x = IF good THEN lastStamp' ELSE NoRoute
      BY <3>1 DEF NoRoute
    <3>4. PICK n : n = [nodes[r] EXCEPT !.source = nodes[r].raw, !.success = good, !.repaired = x]
      OBVIOUS
    <3>5. n \in Node /\ n.repaired = x
      BY <1>1, <3>4 DEF Node
    <3>6. nodes' = [nodes EXCEPT ![r] = n]
      BY <1>1, <3>2, <3>3, <3>4 DEF PanelTypeOK
    <3>7. nodes' \in [Runs -> Node] /\ nodes'[r].repaired = x
      BY <1>1, <3>5, <3>6 DEF PanelTypeOK
    <3>8. /\ Sent(r, "repaired", lastStamp', x, good) \in Message
          /\ Sent(r, "verdict", lastStamp', x, good) \in Message
          /\ PathsAreStamped({Sent(r, "repaired", lastStamp', x, good),
                              Sent(r, "verdict", lastStamp', x, good)})
      BY <1>1, <3>1, <3>3 DEF Sent, Message, PathsAreStamped
    <3>9. QED
      BY <1>1, <3>1, <3>2, <3>7, <3>8, PublishedAre DEF PanelTypeOK
  <2>4. CASE ApproachTick(r)
    <3>1. nodes' = [nodes EXCEPT ![r] = [nodes[r] EXCEPT !.attempt = nodes[r].repaired, !.pending = TRUE]]
      BY <1>1, <2>4 DEF ApproachTick, PanelTypeOK
    <3>2. [nodes[r] EXCEPT !.attempt = nodes[r].repaired, !.pending = TRUE] \in Node
      BY <1>1 DEF Node
    <3>3. QED
      BY <1>1, <2>4, <3>1, <3>2 DEF PanelTypeOK, ApproachTick
  <2>5. CASE ApproachAnswer(r)
    <3>1. [nodes[r] EXCEPT !.pending = FALSE] \in Node /\ nodes[r].attempt \in Nat
      BY <1>1 DEF Node
    <3>2. /\ Sent(r, "approach", lastStamp, nodes[r].attempt, TRUE) \in Message
          /\ PathsAreStamped({Sent(r, "approach", lastStamp, nodes[r].attempt, TRUE)})
      BY <1>1, <3>1 DEF Sent, Message, PanelTypeOK, PathsAreStamped
    <3>3. QED
      BY <1>1, <2>5, <3>1, <3>2, PublishedAre DEF PanelTypeOK, ApproachAnswer
  <2>6. CASE NodesDie(r)
    <3>1. NoNodes \in Node
      BY DEF NoNodes, Node, NoRoute
    <3>2. QED
      BY <1>1, <2>6, <3>1 DEF PanelTypeOK, NodesDie
  <2>7. QED
    BY <2>1, <2>2, <2>3, <2>4, <2>5, <2>6
<1>3. QED
  BY <1>1, <1>2 DEF PanelInv, PanelTypeOK

LEMMA PanelInvStep == PanelInv /\ [PanelNext]_panelVars => PanelInv'
<1> SUFFICES ASSUME PanelInv, [PanelNext]_panelVars PROVE PanelInv'
  OBVIOUS
<1>1. ASSUME NEW r \in Runs, StartPreview(r) PROVE PanelInv'
  <2>1. PanelTypeOK /\ r \in Nat /\ lastStamp' = lastStamp + 1 /\ lastStamp' \in Nat
    BY <1>1, PreviewPanelAssumption DEF PanelInv, PanelTypeOK, StartPreview, Tick
  <2>2. PICK started \in BOOLEAN :
          /\ nodes' = [nodes EXCEPT ![r].alive = started]
          /\ panel' = Started(r, started, NoRoute)
    BY <1>1 DEF StartPreview
  <2>3. [nodes[r] EXCEPT !.alive = started] \in Node
    BY <2>1 DEF PanelTypeOK, Node
  <2>4. panel' \in PanelRecord /\ Findings(panel')
    BY <2>1, <2>2 DEF Started, PanelRecord, NoRoute, Findings
  <2>5. QED
    BY <1>1, <2>1, <2>2, <2>3, <2>4 DEF PanelInv, PanelTypeOK, StartPreview
<1>2. CASE StopPreview
  <2>1. PICK had \in {FALSE, panel.hasPath} : panel' = [panel EXCEPT !.active = FALSE, !.hasPath = had]
    BY <1>2 DEF StopPreview
  <2>2. panel' \in PanelRecord /\ Findings(panel')
    BY <2>1 DEF PanelInv, PanelTypeOK, PanelRecord, Findings
  <2>3. QED
    BY <1>2, <2>2 DEF StopPreview, PanelInv, PanelTypeOK
<1>3. CASE UNCHANGED panelVars
  BY <1>3 DEF panelVars, PanelInv, PanelTypeOK
<1>4. QED
  BY <1>1, <1>2, <1>3, NodesKeep, DeliverKeeps DEF PanelNext

LEMMA PanelInitInv == PanelInit => PanelInv
BY PreviewPanelAssumption DEF PanelInit, PanelInv, PanelTypeOK, PathsAreStamped, Findings,
   PanelRecord, NoNodes, Node, NoRoute

\* The panel calls a path audited only for the audit of the path it shows, whatever arrives early,
\* late or from a preview that was stopped (semantic_editor_qt5.py _apply_pending_preview_audit);
\* and the collisions that are marked were found in the preview that runs or ran last, and are marked
\* beside a path, however many previews run into each other (_apply_pending_preview_collisions).
THEOREM FindingsAlwaysOwn == PanelSpec => []FindingsAreOwn
<1>1. PanelInv => AuditIsOfShown
  BY DEF PanelInv, Findings, AuditIsOfShown
<1>2. PanelInv => MarkersAreOfPreview
  BY DEF PanelInv, Findings, MarkersAreOfPreview
<1>3. PanelInv => FindingsAreOwn
  BY <1>1, <1>2 DEF FindingsAreOwn
<1>4. QED
  BY PanelInitInv, PanelInvStep, <1>3, PTL DEF PanelSpec

-----------------------------------------------------------------------------
(* The preview of a path through several points. *)

Segments(n) == [i \in 1..n |-> [request |-> serving.request, segment |-> i]]
Answers == [generation : Nat, segment : Nat, request : Requests, to : {"goal", "result"}]

PreviewTypeOK ==
  /\ generation \in Nat /\ segment \in Nat /\ busy \in BOOLEAN
  /\ serving \in [request : Requests \cup {"none"}, points : Nat]
  /\ answers \subseteq Answers /\ timer \in [generation : Nat, segment : Nat]

\* What is awaited is the next segment of the request that is served.
Serving ==
  /\ segment # 0 /\ segment < serving.points /\ joined = Segments(segment - 1) /\ shown = <<>>
  /\ serving.request \in Requests

PreviewInv ==
  /\ PreviewTypeOK /\ PreviewIsOwn
  /\ busy => Serving
  /\ \A a \in answers : /\ a.generation <= generation
                        /\ busy /\ a.generation = generation => a.request = serving.request

\* A request that has failed awaits nothing, and shows nothing.
LEMMA FailKeeps ==
  ASSUME PreviewInv, NEW n \in Nat, n > generation, FailAt(n), answers' \subseteq Answers,
         \A a \in answers' : a.generation <= generation,
         serving' \in [request : Requests \cup {"none"}, points : Nat], segment' \in Nat
  PROVE  PreviewInv'
<1>1. generation' = n /\ timer' = Off /\ busy' = FALSE /\ shown' = <<>> /\ generation \in Nat
  BY DEF FailAt, PreviewInv, PreviewTypeOK
<1>2. Off \in [generation : Nat, segment : Nat]
  BY DEF Off, Armed
<1>3. ASSUME NEW a \in answers' PROVE a.generation <= n
  <2>1. a.generation \in Nat /\ a.generation <= generation
    BY DEF Answers
  <2>2. QED
    BY <1>1, <2>1
<1>4. PreviewTypeOK'
  BY <1>1, <1>2 DEF PreviewTypeOK
<1>5. PreviewIsOwn'
  BY <1>1 DEF PreviewIsOwn
<1>6. QED
  BY <1>1, <1>3, <1>4, <1>5 DEF PreviewInv

\* A segment is asked for under a generation of its own: no answer that is still to come has it.
LEMMA SendSegmentKeeps ==
  ASSUME PreviewInv, NEW s \in Nat \ {0}, NEW others \in SUBSET answers, SendSegment(s, others, <<>>),
         serving' \in [request : Requests, points : Nat], s < serving'.points,
         joined' = [i \in 1..(s - 1) |-> [request |-> serving'.request, segment |-> i]]
  PROVE  PreviewInv'
<1>1. /\ generation \in Nat /\ segment' = s /\ others \subseteq Answers
      /\ \A a \in others : a.generation \in Nat /\ a.generation <= generation
  BY DEF PreviewInv, PreviewTypeOK, SendSegment, Answers
<1>2. CASE FailAt(generation + 2) /\ answers' = others
  BY <1>1, <1>2, FailKeeps
<1>3. CASE /\ generation' = generation + 1
           /\ timer' = Armed(generation', s)
           /\ answers' = others \cup {[generation |-> generation', segment |-> s,
                                       request |-> serving'.request, to |-> "goal"]}
           /\ busy' = TRUE
           /\ shown' = <<>>
  <2>1. generation' \in Nat /\ generation' > generation
    BY <1>1, <1>3
  <2>2. PICK a : a = [generation |-> generation', segment |-> s,
                      request |-> serving'.request, to |-> "goal"]
    OBVIOUS
  <2>3. a \in Answers /\ a.generation = generation' /\ a.request = serving'.request
    BY <2>1, <2>2 DEF Answers
  <2>4. answers' = others \cup {a}
    BY <1>3, <2>2
  <2>5. PreviewTypeOK'
    BY <1>1, <1>3, <2>1, <2>3, <2>4 DEF PreviewTypeOK, Armed
  <2>6. \A b \in answers' : b.generation <= generation' /\ (b.generation = generation' => b.request = serving'.request)
    <3>1. ASSUME NEW b \in others PROVE b.generation <= generation' /\ b.generation # generation'
      BY <1>1, <2>1
    <3>2. QED
      BY <2>1, <2>3, <2>4, <3>1
  <2>7. Serving' /\ PreviewIsOwn'
    BY <1>1, <1>3 DEF Serving, Segments, PreviewIsOwn
  <2>8. QED
    BY <2>5, <2>6, <2>7 DEF PreviewInv
<1>4. QED
  BY <1>2, <1>3 DEF SendSegment

LEMMA OnRequestKeeps == ASSUME PreviewInv, NEW r \in Requests, OnRequest(r) PROVE PreviewInv'
<1>1. CASE RejectRequest(r)
  BY <1>1 DEF RejectRequest, PreviewInv, PreviewTypeOK, PreviewIsOwn, Serving, Segments
<1>2. CASE RefuseRequest(r)
  <2>1. FailAt(generation + 1) /\ UNCHANGED <<serving, segment, joined, answers>>
    BY <1>2 DEF RefuseRequest, PreviewFails
  <2>2. QED
    BY <2>1, FailKeeps DEF PreviewInv, PreviewTypeOK
<1>3. CASE AcceptRequest(r)
  <2>1. PICK n \in Sizes : serving' = [request |-> r, points |-> n]
    BY <1>3 DEF AcceptRequest
  <2>2. /\ serving' \in [request : Requests, points : Nat] /\ 1 < serving'.points
        /\ serving'.request = r
    BY <2>1, SizesAssumption
  <2>3. joined' = [i \in 1..(1 - 1) |-> [request |-> serving'.request, segment |-> i]]
    BY <1>3 DEF AcceptRequest
  <2>4. SendSegment(1, answers, <<>>)
    BY <1>3 DEF AcceptRequest
  <2>5. QED
    BY <2>2, <2>3, <2>4, SendSegmentKeeps
<1>4. QED
  BY <1>1, <1>2, <1>3 DEF OnRequest

LEMMA GoalResponseKeeps == ASSUME PreviewInv, NEW a \in answers, GoalResponse(a) PROVE PreviewInv'
<1>1. UNCHANGED <<serving, segment, joined>> /\ PreviewTypeOK /\ a \in Answers
  BY DEF GoalResponse, PreviewInv, PreviewTypeOK
<1>2. CASE answers' = answers \ {a} /\ UNCHANGED <<busy, generation, timer, shown>>
  BY <1>1, <1>2 DEF PreviewInv, PreviewTypeOK, PreviewIsOwn, Serving, Segments
<1>3. CASE /\ answers' = (answers \ {a}) \cup {[a EXCEPT !.to = "result"]}
           /\ UNCHANGED <<busy, generation, timer, shown>>
  <2>1. PICK b : b = [a EXCEPT !.to = "result"]
    OBVIOUS
  <2>2. b \in Answers /\ b.generation = a.generation /\ b.request = a.request
    BY <1>1, <2>1 DEF Answers
  <2>3. answers' = (answers \ {a}) \cup {b}
    BY <1>3, <2>1
  <2>4. PreviewTypeOK'
    BY <1>1, <1>3, <2>2, <2>3 DEF PreviewTypeOK
  <2>5. \A c \in answers' : /\ c.generation <= generation
                            /\ busy /\ c.generation = generation => c.request = serving.request
    BY <2>2, <2>3 DEF PreviewInv
  <2>6. QED
    BY <1>1, <1>3, <2>4, <2>5 DEF PreviewInv, PreviewIsOwn, Serving, Segments
<1>4. CASE answers' = answers \ {a} /\ PreviewFails
  <2>1. FailAt(generation + 1)
    BY <1>4 DEF PreviewFails
  <2>2. QED
    BY <1>1, <1>4, <2>1, FailKeeps DEF PreviewInv, PreviewTypeOK
<1>5. QED
  BY <1>2, <1>3, <1>4 DEF GoalResponse

LEMMA SegmentPlannedKeeps ==
  ASSUME PreviewInv, NEW a \in answers, SegmentPlanned(a), a.to = "result" PROVE PreviewInv'
<1>1. /\ busy /\ a.segment = segment /\ a.request = serving.request /\ Serving
      /\ serving' = serving /\ PreviewTypeOK
      /\ joined' = Append(joined, [request |-> a.request, segment |-> a.segment])
  BY DEF SegmentPlanned, IsCurrent, PreviewInv
<1>2. segment \in Nat \ {0} /\ serving.points \in Nat
  BY <1>1 DEF Serving, PreviewTypeOK
<1>3. joined' = Segments(segment)
  <2>1. PICK n \in Nat : n = segment - 1
    BY <1>2
  <2>2. PICK x : x = [request |-> serving.request, segment |-> segment]
    OBVIOUS
  <2>3. joined = [i \in 1..n |-> [request |-> serving.request, segment |-> i]]
    BY <1>1, <2>1 DEF Serving, Segments
  <2>4. joined \in Seq([request : Requests, segment : Nat]) /\ Len(joined) = n
    <3>1. serving.request \in Requests
      BY <1>1 DEF Serving
    <3>2. \A i \in 1..n : [request |-> serving.request, segment |-> i] \in [request : Requests, segment : Nat]
      BY <3>1
    <3>3. joined \in [1..n -> [request : Requests, segment : Nat]]
      BY <2>3, <3>2
    <3>4. joined \in Seq([request : Requests, segment : Nat])
      BY <3>3, SeqDef
    <3>5. QED
      BY <3>3, <3>4, LenProperties
  <2>5. x \in [request : Requests, segment : Nat] /\ joined' = Append(joined, x)
    BY <1>1, <1>2, <2>2 DEF Serving
  <2>6. joined' = [i \in 1..segment |-> IF i = segment THEN x ELSE joined[i]]
    <3>1. /\ joined' \in Seq([request : Requests, segment : Nat]) /\ Len(joined') = segment
          /\ \A i \in 1..n : joined'[i] = joined[i]
          /\ joined'[segment] = x
      <4>1. n + 1 = segment
        BY <1>2, <2>1
      <4>2. QED
        BY <2>4, <2>5, <4>1, AppendProperties
    <3>2. joined' \in [1..segment -> [request : Requests, segment : Nat]]
      BY <3>1, LenProperties
    <3>3. \A i \in 1..segment : joined'[i] = IF i = segment THEN x ELSE joined[i]
      BY <1>2, <2>1, <3>1
    <3>4. QED
      BY <3>2, <3>3
  <2>7. QED
    BY <1>1, <1>2, <2>1, <2>2, <2>3, <2>6 DEF Segments
<1>4. CASE segment + 1 < serving.points
  <2>1. SendSegment(segment + 1, answers \ {a}, <<>>)
    BY <1>1, <1>4 DEF SegmentPlanned, Serving
  <2>2. serving' \in [request : Requests, points : Nat]
    BY <1>1 DEF Serving, PreviewTypeOK
  <2>3. /\ segment + 1 \in Nat \ {0} /\ segment + 1 < serving'.points
        /\ joined' = [i \in 1..((segment + 1) - 1) |-> [request |-> serving'.request, segment |-> i]]
    BY <1>1, <1>2, <1>3, <1>4 DEF Segments
  <2>4. QED
    BY <2>1, <2>2, <2>3, SendSegmentKeeps
<1>5. CASE ~(segment + 1 < serving.points)
  <2>1. /\ segment' = segment + 1 /\ timer' = Off /\ shown' = joined' /\ busy' = FALSE
        /\ answers' = answers \ {a} /\ generation' = generation
    BY <1>5 DEF SegmentPlanned
  <2>2. segment = serving.points - 1
    BY <1>1, <1>2, <1>5 DEF Serving
  <2>3. PreviewIsOwn'
    BY <1>1, <1>3, <2>1, <2>2 DEF PreviewIsOwn, Segments
  <2>4. segment' \in Nat /\ timer' \in [generation : Nat, segment : Nat]
    BY <1>2, <2>1 DEF Off, Armed
  <2>5. PreviewTypeOK'
    BY <1>1, <2>1, <2>4 DEF PreviewTypeOK
  <2>6. QED
    BY <2>1, <2>3, <2>5 DEF PreviewInv
<1>6. QED
  BY <1>4, <1>5

LEMMA PreviewInvStep == PreviewInv /\ [PreviewNext]_previewVars => PreviewInv'
<1> SUFFICES ASSUME PreviewInv, [PreviewNext]_previewVars PROVE PreviewInv'
  OBVIOUS
<1>1. ASSUME NEW a \in answers, SegmentResult(a) PROVE PreviewInv'
  <2>1. CASE DropResult(a)
    BY <2>1 DEF DropResult, PreviewInv, PreviewTypeOK, PreviewIsOwn, Serving, Segments
  <2>2. CASE SegmentFails(a)
    <3>1. FailAt(generation + 1) /\ UNCHANGED <<serving, segment, joined>> /\ answers' = answers \ {a}
      BY <2>2 DEF SegmentFails, PreviewFails
    <3>2. QED
      BY <3>1, FailKeeps DEF PreviewInv, PreviewTypeOK
  <2>3. QED
    BY <1>1, <2>1, <2>2, SegmentPlannedKeeps DEF SegmentResult
<1>2. CASE SegmentTimesOut
  <2>1. FailAt(generation + 1) /\ UNCHANGED <<serving, segment, joined, answers>>
    BY <1>2 DEF SegmentTimesOut, PreviewFails
  <2>2. QED
    BY <2>1, FailKeeps DEF PreviewInv, PreviewTypeOK
<1>3. CASE UNCHANGED previewVars
  BY <1>3 DEF previewVars, PreviewInv, PreviewTypeOK, PreviewIsOwn, Serving, Segments
<1>4. QED
  BY <1>1, <1>2, <1>3, OnRequestKeeps, GoalResponseKeeps DEF PreviewNext

LEMMA PreviewInitInv == PreviewInit => PreviewInv
<1> SUFFICES ASSUME PreviewInit PROVE PreviewInv
  OBVIOUS
<1>1. /\ Nobody \in [request : Requests \cup {"none"}, points : Nat]
      /\ Off \in [generation : Nat, segment : Nat]
  BY DEF Nobody, Off, Armed
<1>2. PreviewTypeOK
  BY <1>1 DEF PreviewInit, PreviewTypeOK
<1>3. PreviewIsOwn
  BY DEF PreviewInit, PreviewIsOwn
<1>4. QED
  BY <1>2, <1>3 DEF PreviewInit, PreviewInv

\* A path that is shown is that of the request served last, whole and in order: no late answer of
\* the planner is joined into it (waypoint_preview_planner.py _segment_result, _send_segment).
THEOREM PreviewAlwaysOwn == PreviewSpec => []PreviewIsOwn
<1>1. PreviewInit => PreviewInv
  BY PreviewInitInv
<1>2. PreviewInv /\ [PreviewNext]_previewVars => PreviewInv'
  BY PreviewInvStep
<1>3. PreviewInv => PreviewIsOwn
  BY DEF PreviewInv
<1>4. QED
  BY <1>1, <1>2, <1>3, PTL DEF PreviewSpec

-----------------------------------------------------------------------------
(* The products of a coverage task, while what was published before a task's *)
(* map is loaded has arrived, and no task was given up.                      *)

Underway == {"loaded", "call", "status", "products", "report", "path", "ready"}

ProductsTypeOK ==
  /\ pc \in [Tasks -> Stage] /\ DOMAIN path = Tasks /\ DOMAIN reply = Tasks
  /\ DOMAIN held = Topic /\ DOMAIN sent = Topic /\ new \subseteq Awaited
  /\ calls \subseteq Tasks /\ planning \in Product

\* The reservation: the task under way is that of the server, and its map is set.
Reserved ==
  /\ \A t \in Tasks : pc[t] \in Underway <=> task = t
  /\ task \in Tasks => map = task

\* The plan request of a task, from the call to the adapter's answer.
Requested ==
  /\ \A t \in calls : t = task /\ pc[t] = "call" /\ reply[t] = "none" /\ "status" \notin new \cup slot
  /\ \A t \in Tasks : pc[t] \in {"idle", "loaded"} => reply[t] = "none"
  /\ \A t \in Tasks : pc[t] = "status" => reply[t] = "accepted"

\* What is planned is the map of the task, which waits for the end of the plan.
Planned ==
  planning # NoTask =>
    /\ planning = task /\ pc[task] \in {"call", "status"} /\ reply[task] = "accepted"
    /\ calls = {}
    /\ sent["status"] = "planning" /\ ("status" \in new => held["status"] = "planning")

\* The products that are new are those of the task.
NewProducts ==
  task \in Tasks /\ pc[task] # "loaded" =>
    \A p \in {"semantics", "reconstructed"} : (p \in new => held[p] = task) /\ (p \in slot => sent[p] = task)

Copied ==
  \A t \in Tasks :
    /\ pc[t] \in {"report", "path", "ready"} => semantics = t /\ {"semantics", "reconstructed"} \subseteq new
    /\ pc[t] = "executed" => path[t] = t

NotGivenUp == \A t \in Tasks : pc[t] # "givenUp"

OneTask ==
  /\ ProductsTypeOK /\ Reserved /\ Requested /\ Planned /\ NewProducts /\ Copied
  /\ phase = "none" <=> planning = NoTask

ProductsInv == pc \in [Tasks -> Stage] /\ (NotGivenUp => OneTask)

LEMMA NoTaskIs == NoTask \notin Tasks /\ \A t \in Tasks : t # NoTask
BY ProductsAssumption

LEMMA PublishOf ==
  ASSUME NEW messages, Publish(messages)
  PROVE  /\ DOMAIN sent' = Topic /\ slot' = slot \cup DOMAIN messages
         /\ \A p \in Topic : sent'[p] = IF p \in DOMAIN messages THEN messages[p] ELSE sent[p]
BY DEF Publish

LEMMA TopicsAre ==
  /\ "status" \in Topic /\ "semantics" \in Topic /\ "reconstructed" \in Topic
  /\ "status" \in Awaited /\ "semantics" \in Awaited /\ "reconstructed" \in Awaited
  /\ Awaited \subseteq Topic
BY DEF Topic, Awaited

\* The server's steps: the task goes on, or leaves.
LEMMA StageKeeps ==
  ASSUME OneTask, NEW t \in Tasks, NEW stage \in Underway \ {"loaded", "call"}, Goto(t, stage),
         UNCHANGED <<task, path, topicVars, adapterVars>>, pc[t] \in Underway \ {"loaded"},
         stage = "status" => reply[t] = "accepted",
         stage # "status" => planning = NoTask,
         calls = {},
         stage \in {"report", "path", "ready"} =>
           semantics' = t /\ {"semantics", "reconstructed"} \subseteq new
  PROVE  OneTask'
<1>1. /\ UNCHANGED <<new, held, slot, sent, calls, reply, map, planning, phase>>
      /\ task = t /\ pc'[t] = stage /\ \A u \in Tasks : u # t => pc'[u] = pc[u]
      /\ pc' \in [Tasks -> Stage]
  BY DEF OneTask, ProductsTypeOK, Reserved, Goto, topicVars, adapterVars, Stage, Underway
<1>2. \A u \in Tasks : u # t => pc[u] \notin Underway
  BY <1>1 DEF OneTask, Reserved
<1>3. ProductsTypeOK' /\ Reserved'
  BY <1>1, <1>2 DEF OneTask, ProductsTypeOK, Reserved
<1>4. Requested' /\ Planned'
  BY <1>1, <1>2 DEF OneTask, Requested, Planned, Underway
<1>5. NewProducts'
  BY <1>1 DEF OneTask, NewProducts, Underway
<1>6. Copied'
  BY <1>1, <1>2 DEF OneTask, Copied, Underway
<1>7. QED
  BY <1>1, <1>3, <1>4, <1>5, <1>6 DEF OneTask

LEMMA LeaveKeeps ==
  ASSUME OneTask, NEW t \in Tasks, NEW stage \in {"failed", "executed"}, Leave(t, stage),
         UNCHANGED <<topicVars, adapterVars>>, pc[t] \in Underway, planning = NoTask, calls = {},
         stage = "executed" => path[t] = t
  PROVE  OneTask'
<1>1. /\ UNCHANGED <<new, held, slot, sent, calls, reply, map, planning, phase, semantics, path>>
      /\ task = t /\ task' = NoTask /\ pc'[t] = stage /\ \A u \in Tasks : u # t => pc'[u] = pc[u]
      /\ pc' \in [Tasks -> Stage]
  BY DEF OneTask, ProductsTypeOK, Reserved, Goto, Leave, topicVars, adapterVars, Stage, Underway
<1>2. \A u \in Tasks : u # t => pc[u] \notin Underway
  BY <1>1 DEF OneTask, Reserved
<1>3. ProductsTypeOK' /\ Reserved'
  BY <1>1, <1>2, NoTaskIs DEF OneTask, ProductsTypeOK, Reserved, Underway
<1>4. Requested' /\ Planned' /\ NewProducts'
  BY <1>1, <1>2, NoTaskIs DEF OneTask, Requested, Planned, NewProducts
<1>5. Copied'
  BY <1>1, <1>2 DEF OneTask, Copied, Underway
<1>6. QED
  BY <1>1, <1>3, <1>4, <1>5 DEF OneTask

\* A plan has ended when its task reads of its end.
LEMMA PlanHasEnded ==
  ASSUME OneTask, NEW t \in Tasks,
         \/ pc[t] \in Underway \ {"loaded", "call", "status"}
         \/ pc[t] = "status" /\ "status" \in new /\ held["status"] \in {"succeeded", "failed"}
         \/ pc[t] = "call" /\ reply[t] = "refused"
  PROVE  planning = NoTask /\ calls = {}
BY DEF OneTask, Planned, Reserved, Requested, Underway

LEMMA ServerKeeps ==
  ASSUME OneTask, NEW t \in Tasks,
         PlanAnswered(t) \/ PlanEnded(t) \/ ProductsArrived(t) \/ ReportArrived(t) \/ PathArrived(t)
         \/ Ready(t)
  PROVE  OneTask'
<1>1. CASE PlanAnswered(t)
  <2>1. pc[t] = "call" /\ reply[t] # "none" /\ UNCHANGED <<topicVars, adapterVars>> /\ calls = {}
    BY <1>1 DEF PlanAnswered, OneTask, Requested, Reserved, Underway
  <2>2. CASE reply[t] = "accepted"
    <3>1. Goto(t, "status") /\ UNCHANGED <<task, path>>
      BY <1>1, <2>2 DEF PlanAnswered
    <3>2. QED
      BY <2>1, <2>2, <3>1, StageKeeps DEF Underway
  <2>3. CASE reply[t] # "accepted"
    <3>1. Leave(t, "failed")
      BY <1>1, <2>3 DEF PlanAnswered, Fail
    <3>2. planning = NoTask
      BY <2>1, <2>3 DEF OneTask, Planned, Reserved, Underway
    <3>3. QED
      BY <2>1, <3>1, <3>2, LeaveKeeps DEF Underway
  <2>4. QED
    BY <2>2, <2>3
<1>2. CASE PlanEnded(t)
  <2>1. /\ pc[t] = "status" /\ "status" \in new /\ held["status"] \in {"succeeded", "failed"}
        /\ UNCHANGED <<topicVars, adapterVars>>
        /\ (Goto(t, "products") /\ UNCHANGED <<task, path>>) \/ Leave(t, "failed")
    BY <1>2 DEF PlanEnded, Fail
  <2>2. planning = NoTask /\ calls = {}
    BY <2>1, PlanHasEnded
  <2>3. QED
    BY <2>1, <2>2, StageKeeps, LeaveKeeps DEF Underway
<1>3. CASE ProductsArrived(t)
  <2>1. /\ pc[t] = "products" /\ {"semantics", "reconstructed"} \subseteq new
        /\ semantics' = held["semantics"] /\ Goto(t, "report")
        /\ UNCHANGED <<task, path, topicVars, adapterVars>>
    BY <1>3 DEF ProductsArrived
  <2>2. planning = NoTask /\ calls = {}
    BY <2>1, PlanHasEnded DEF Underway
  <2>3. semantics' = t
    BY <2>1 DEF OneTask, NewProducts, Reserved, Underway
  <2>4. QED
    BY <2>1, <2>2, <2>3, StageKeeps DEF Underway
<1>4. CASE ReportArrived(t)
  <2>1. /\ pc[t] = "report" /\ UNCHANGED <<topicVars, adapterVars>>
        /\ (Goto(t, "path") /\ UNCHANGED <<task, semantics, path>>) \/ Leave(t, "failed")
    BY <1>4 DEF ReportArrived, Fail
  <2>2. planning = NoTask /\ calls = {}
    BY <2>1, PlanHasEnded DEF Underway
  <2>3. semantics = t /\ {"semantics", "reconstructed"} \subseteq new
    BY <2>1 DEF OneTask, Copied
  <2>4. QED
    BY <2>1, <2>2, <2>3, StageKeeps, LeaveKeeps DEF Underway
<1>5. CASE PathArrived(t)
  <2>1. /\ pc[t] = "path" /\ UNCHANGED <<topicVars, adapterVars>>
        /\ \/ /\ Goto(t, "ready") /\ path' = [path EXCEPT ![t] = held["validated"]]
              /\ UNCHANGED <<task, semantics>>
           \/ Leave(t, "failed")
    BY <1>5 DEF PathArrived, Fail
  <2>2. planning = NoTask /\ calls = {}
    BY <2>1, PlanHasEnded DEF Underway
  <2>3. semantics = t /\ {"semantics", "reconstructed"} \subseteq new
    BY <2>1 DEF OneTask, Copied
  <2>4. CASE Leave(t, "failed")
    BY <2>1, <2>2, <2>4, LeaveKeeps DEF Underway
  <2>5. CASE /\ Goto(t, "ready") /\ path' = [path EXCEPT ![t] = held["validated"]]
             /\ UNCHANGED <<task, semantics>>
    <3>1. /\ UNCHANGED <<new, held, slot, sent, calls, reply, map, planning, phase>>
          /\ task = t /\ pc'[t] = "ready" /\ \A u \in Tasks : u # t => pc'[u] = pc[u] /\ path'[u] = path[u]
          /\ pc' \in [Tasks -> Stage] /\ DOMAIN path' = Tasks
      BY <2>1, <2>5 DEF OneTask, ProductsTypeOK, Reserved, Goto, topicVars, adapterVars, Stage, Underway
    <3>2. \A u \in Tasks : u # t => pc[u] \notin Underway
      BY <3>1 DEF OneTask, Reserved
    <3>3. ProductsTypeOK' /\ Reserved'
      BY <2>5, <3>1, <3>2 DEF OneTask, ProductsTypeOK, Reserved, Underway
    <3>4. Requested' /\ Planned'
      BY <2>2, <2>5, <3>1, <3>2, NoTaskIs DEF OneTask, Requested, Planned, Underway
    <3>5. NewProducts'
      BY <2>1, <2>5, <3>1 DEF OneTask, NewProducts
    <3>6. Copied'
      BY <2>3, <2>5, <3>1, <3>2 DEF OneTask, Copied, Underway
    <3>7. QED
      BY <3>1, <3>3, <3>4, <3>5, <3>6 DEF OneTask
  <2>6. QED
    BY <2>1, <2>4, <2>5
<1>6. CASE Ready(t)
  <2>1. /\ pc[t] = "ready" /\ UNCHANGED <<topicVars, adapterVars>>
        /\ (SwathsFound(t) /\ Leave(t, "executed")) \/ Leave(t, "failed")
    BY <1>6 DEF Ready, Fail
  <2>2. planning = NoTask /\ calls = {}
    BY <2>1, PlanHasEnded DEF Underway
  <2>3. semantics = t /\ {"semantics", "reconstructed"} \subseteq new
    BY <2>1 DEF OneTask, Copied
  <2>4. held["reconstructed"] = t
    BY <2>1, <2>3 DEF OneTask, NewProducts, Reserved, Underway
  <2>5. SwathsFound(t) => path[t] = t
    BY <2>3, <2>4 DEF SwathsFound
  <2>6. QED
    BY <2>1, <2>2, <2>5, LeaveKeeps DEF Underway
<1>7. QED
  BY <1>1, <1>2, <1>3, <1>4, <1>5, <1>6

LEMMA LoadKeeps == ASSUME OneTask, NEW t \in Tasks, Load(t) PROVE OneTask'
<1>1. /\ pc[t] = "idle" /\ task = NoTask /\ task' = t /\ map' = t /\ pc' = [pc EXCEPT ![t] = "loaded"]
      /\ UNCHANGED <<semantics, path, new, held, slot, sent, calls, reply, planning, phase>>
  BY DEF Load, Goto, topicVars
<1>2. \A u \in Tasks : pc[u] \notin Underway
  BY <1>1, NoTaskIs DEF OneTask, Reserved
<1>3. /\ pc'[t] = "loaded" /\ \A u \in Tasks : u # t => pc'[u] = pc[u]
      /\ pc' \in [Tasks -> Stage]
  BY <1>1 DEF OneTask, ProductsTypeOK, Stage
<1>4. ProductsTypeOK' /\ Reserved'
  BY <1>1, <1>2, <1>3 DEF OneTask, ProductsTypeOK, Reserved, Underway
<1>5. calls = {} /\ planning = NoTask
  <2>1. calls \subseteq Tasks /\ planning \in Product
    BY DEF OneTask, ProductsTypeOK
  <2>2. calls = {}
    BY <1>1, <2>1, NoTaskIs DEF OneTask, Requested
  <2>3. QED
    BY <1>1, <2>1, <2>2 DEF OneTask, Planned
<1>6. Requested' /\ Planned' /\ NewProducts'
  BY <1>1, <1>3, <1>5 DEF OneTask, Requested, Planned, NewProducts
<1>7. Copied'
  BY <1>1, <1>3 DEF OneTask, Copied
<1>8. QED
  BY <1>1, <1>4, <1>5, <1>6, <1>7 DEF OneTask

\* With the baselines noted, nothing that is new was made for an earlier task.
LEMMA CallPlanKeeps == ASSUME Prompt, OneTask, NEW t \in Tasks, CallPlan(t) PROVE OneTask'
<1>1. /\ pc[t] = "loaded" /\ slot \cap Awaited = {} /\ new' = {} /\ calls' = calls \cup {t}
      /\ pc' = [pc EXCEPT ![t] = "call"]
      /\ UNCHANGED <<task, semantics, path, held, slot, sent, reply, map, planning, phase>>
  BY DEF CallPlan, Goto, Baselines
<1>2. task = t /\ reply[t] = "none" /\ \A u \in Tasks : u # t => pc[u] \notin Underway
  BY <1>1 DEF OneTask, Reserved, Requested, Underway
<1>3. /\ pc'[t] = "call" /\ \A u \in Tasks : u # t => pc'[u] = pc[u]
      /\ pc' \in [Tasks -> Stage]
  BY <1>1 DEF OneTask, ProductsTypeOK, Stage
<1>4. ProductsTypeOK' /\ Reserved'
  BY <1>1, <1>2, <1>3 DEF OneTask, ProductsTypeOK, Reserved, Underway
<1>5. calls = {} /\ planning = NoTask
  BY <1>1, <1>2 DEF OneTask, Requested, Planned
<1>6. "status" \notin slot /\ "semantics" \notin slot /\ "reconstructed" \notin slot
  BY <1>1, TopicsAre
<1>7. Requested' /\ Planned' /\ NewProducts'
  BY <1>1, <1>2, <1>3, <1>5, <1>6 DEF OneTask, Requested, Planned, NewProducts
<1>8. Copied'
  BY <1>1, <1>2, <1>3 DEF OneTask, Copied, Underway
<1>9. QED
  BY <1>1, <1>4, <1>5, <1>7, <1>8 DEF OneTask

LEMMA ReceiveKeeps == ASSUME OneTask, NEW p \in Topic, Receive(p) PROVE OneTask'
<1>1. /\ p \in slot /\ slot' = slot \ {p} /\ held' = [held EXCEPT ![p] = sent[p]]
      /\ new' = new \cup ({p} \cap Awaited)
      /\ UNCHANGED <<pc, task, semantics, path, sent, calls, reply, map, planning, phase>>
  BY DEF Receive, serverVars, adapterVars
<1>2. held'[p] = sent[p] /\ (\A q \in Topic : q # p => held'[q] = held[q]) /\ DOMAIN held' = Topic
  BY <1>1 DEF OneTask, ProductsTypeOK
<1>3. ProductsTypeOK' /\ Reserved'
  BY <1>1, <1>2 DEF OneTask, ProductsTypeOK, Reserved
<1>4. Requested'
  BY <1>1 DEF OneTask, Requested
<1>5. Planned'
  BY <1>1, <1>2, TopicsAre DEF OneTask, Planned
<1>6. NewProducts'
  <2> SUFFICES ASSUME task \in Tasks, pc[task] # "loaded", NEW q \in {"semantics", "reconstructed"}
               PROVE  (q \in new' => held'[q] = task) /\ (q \in slot' => sent[q] = task)
    BY <1>1 DEF NewProducts
  <2>1. (q \in new => held[q] = task) /\ (q \in slot => sent[q] = task)
    BY DEF OneTask, NewProducts
  <2>2. QED
    BY <1>1, <1>2, <2>1, TopicsAre
<1>7. Copied'
  BY <1>1 DEF OneTask, Copied
<1>8. QED
  BY <1>1, <1>3, <1>4, <1>5, <1>6, <1>7 DEF OneTask

LEMMA PlanKeeps == ASSUME OneTask, NEW t \in Tasks, Plan(t) PROVE OneTask'
<1>1. /\ t \in calls /\ calls' = calls \ {t} /\ task = t /\ pc[t] = "call" /\ reply[t] = "none"
      /\ "status" \notin new /\ calls' = {}
      /\ UNCHANGED <<pc, task, semantics, path, new, held, map>>
  BY DEF Plan, serverVars, OneTask, Requested
<1>2. planning = NoTask /\ map = t
  BY <1>1 DEF OneTask, Planned, Reserved
<1>3. \E s \in Status : Publish([status |-> s])
  BY <1>1, <1>2 DEF Plan, PlanStarts, PlanRefused, Status
<1>4. /\ DOMAIN sent' = Topic /\ slot' = slot \cup {"status"}
      /\ \A p \in Topic \ {"status"} : sent'[p] = sent[p]
  BY <1>3, PublishOf
<1>5. \/ /\ planning' = t /\ phase' = "parameters" /\ sent'["status"] = "planning"
         /\ reply' = [reply EXCEPT ![t] = "accepted"]
      \/ planning' = planning /\ phase' = phase /\ reply' = [reply EXCEPT ![t] = "refused"]
  <2>1. CASE planning = NoTask /\ PlanStarts /\ reply' = [reply EXCEPT ![t] = "accepted"]
    BY <1>2, <2>1, TopicsAre, PublishOf DEF PlanStarts
  <2>2. CASE planning = NoTask /\ PlanRefused /\ reply' = [reply EXCEPT ![t] = "refused"]
    BY <2>2 DEF PlanRefused
  <2>3. QED
    BY <1>2, <2>1, <2>2 DEF Plan
<1>6. ProductsTypeOK' /\ Reserved'
  BY <1>1, <1>4, <1>5 DEF OneTask, ProductsTypeOK, Reserved, Product
<1>7. Requested'
  BY <1>1, <1>5 DEF OneTask, Requested, ProductsTypeOK
<1>8. Planned'
  BY <1>1, <1>2, <1>5 DEF OneTask, Planned, ProductsTypeOK
<1>9. NewProducts'
  BY <1>1, <1>4, TopicsAre DEF OneTask, NewProducts
<1>10. Copied'
  BY <1>1 DEF OneTask, Copied
<1>11. phase' = "none" <=> planning' = NoTask
  BY <1>1, <1>2, <1>5, NoTaskIs DEF OneTask
<1>12. QED
  BY <1>6, <1>7, <1>8, <1>9, <1>10, <1>11 DEF OneTask

\* The end of a plan, with what it publishes.
LEMMA PlanEndKeeps == ASSUME OneTask, PlanSucceeds \/ PlanFails PROVE OneTask'
<1>1. /\ planning' = NoTask /\ phase' = "none" /\ planning # NoTask
      /\ UNCHANGED <<pc, task, semantics, path, new, held, calls, reply, map>>
  BY DEF PlanSucceeds, PlanFails, PlanEnds, serverVars, OneTask
<1>2. planning = task /\ calls = {}
  BY <1>1 DEF OneTask, Planned
<1>3. /\ DOMAIN sent' = Topic
      /\ \A p \in {"semantics", "reconstructed"} :
           (p \in slot' => sent'[p] = planning) \/ (sent'[p] = sent[p] /\ (p \in slot' => p \in slot))
  <2>1. CASE PlanFails
    <3>1. Publish([status |-> "failed"])
      BY <2>1 DEF PlanFails
    <3>2. QED
      BY <3>1, TopicsAre, PublishOf
  <2>2. CASE PlanSucceeds
    <3>1. PICK ms : /\ Publish(ms)
                    /\ ms = [reconstructed |-> planning, semantics |-> planning,
                             rawSemantics |-> planning, raw |-> planning, status |-> "succeeded"]
      BY <2>2 DEF PlanSucceeds
    <3>2. "semantics" \in DOMAIN ms /\ "reconstructed" \in DOMAIN ms
          /\ ms["semantics"] = planning /\ ms["reconstructed"] = planning
      BY <3>1
    <3>3. QED
      BY <3>1, <3>2, TopicsAre, PublishOf
  <2>3. QED
    BY <2>1, <2>2
<1>4. ProductsTypeOK' /\ Reserved' /\ Copied'
  BY <1>1, <1>3 DEF OneTask, ProductsTypeOK, Reserved, Copied, Product
<1>5. Requested' /\ Planned'
  BY <1>1, <1>2 DEF OneTask, Requested, Planned
<1>6. NewProducts'
  BY <1>1, <1>2, <1>3 DEF OneTask, NewProducts
<1>7. QED
  BY <1>1, <1>4, <1>5, <1>6 DEF OneTask

LEMMA ValidateKeeps == ASSUME OneTask, Validate PROVE OneTask'
<1>1. UNCHANGED <<pc, task, semantics, path, new, held, calls, reply, map, planning, phase>>
  BY DEF Validate, serverVars, adapterVars
<1>2. PICK x, y : Publish([validated |-> x, report |-> y])
  BY DEF Validate
<1>3. /\ DOMAIN sent' = Topic /\ slot' = slot \cup {"validated", "report"}
      /\ \A p \in {"status", "semantics", "reconstructed"} : sent'[p] = sent[p]
  BY <1>2, TopicsAre, PublishOf
<1>4. ProductsTypeOK' /\ Reserved' /\ Copied'
  BY <1>1, <1>3 DEF OneTask, ProductsTypeOK, Reserved, Copied
<1>5. Requested' /\ Planned' /\ NewProducts'
  BY <1>1, <1>3 DEF OneTask, Requested, Planned, NewProducts
<1>6. QED
  BY <1>1, <1>4, <1>5 DEF OneTask

LEMMA AsideKeeps ==
  ASSUME OneTask, ParametersDone \/ GoalAccepted \/ WorldChanges \/ UNCHANGED vars PROVE OneTask'
<1>1. /\ UNCHANGED <<pc, task, semantics, path, new, held, slot, sent, calls, reply, map, planning>>
      /\ phase' = "none" <=> phase = "none"
  BY DEF ParametersDone, GoalAccepted, WorldChanges, vars, serverVars, topicVars, adapterVars
<1>2. QED
  BY <1>1 DEF OneTask, ProductsTypeOK, Reserved, Requested, Planned, NewProducts, Copied

\* A task that was given up stays so.
LEMMA GivenUpRemains ==
  ASSUME pc \in [Tasks -> Stage], [Next]_vars
  PROVE  pc' \in [Tasks -> Stage] /\ (NotGivenUp' => NotGivenUp)
<1>1. \/ pc' = pc
      \/ \E t \in Tasks, stage \in Stage : pc[t] # "givenUp" /\ pc' = [pc EXCEPT ![t] = stage]
  <2>1. ASSUME NEW t \in Tasks, Prepare(t)
        PROVE  \E stage \in Stage : pc[t] # "givenUp" /\ pc' = [pc EXCEPT ![t] = stage]
    <3>1. CASE Load(t) \/ CallPlan(t) \/ PlanAnswered(t) \/ PlanEnded(t)
      BY <3>1 DEF Load, CallPlan, PlanAnswered, PlanEnded, Fail, Leave, Goto, Stage
    <3>2. CASE ProductsArrived(t) \/ ReportArrived(t) \/ PathArrived(t) \/ Ready(t)
      BY <3>2 DEF ProductsArrived, ReportArrived, PathArrived, Ready, Fail, Leave, Goto, Stage
    <3>3. CASE GiveUp(t)
      BY <3>3 DEF GiveUp, Leave, Goto, Stage, Waiting
    <3>4. QED
      BY <2>1, <3>1, <3>2, <3>3 DEF Prepare
  <2>2. ASSUME NEW t \in Tasks, Plan(t) PROVE pc' = pc
    BY <2>2 DEF Plan, serverVars
  <2>3. ASSUME NEW p \in Topic, Receive(p) PROVE pc' = pc
    BY <2>3 DEF Receive, serverVars
  <2>4. CASE ParametersDone \/ GoalAccepted \/ PlanSucceeds \/ PlanFails \/ WorldChanges
             \/ Validate \/ UNCHANGED vars
    BY <2>4 DEF ParametersDone, GoalAccepted, PlanSucceeds, PlanFails, PlanEnds, WorldChanges,
       Validate, vars, serverVars
  <2>5. QED
    BY <2>1, <2>2, <2>3, <2>4 DEF Next
<1>2. QED
  BY <1>1 DEF NotGivenUp

LEMMA ProductsInvStep == ASSUME Prompt, ProductsInv, [Next]_vars PROVE ProductsInv'
<1>1. pc' \in [Tasks -> Stage] /\ (NotGivenUp' => NotGivenUp)
  BY GivenUpRemains DEF ProductsInv
<1>2. ASSUME NotGivenUp' PROVE OneTask'
  <2>1. OneTask
    BY <1>1, <1>2 DEF ProductsInv
  <2>2. ASSUME NEW t \in Tasks, Prepare(t) PROVE OneTask'
    <3>1. CASE GiveUp(t)
      <4>1. pc' = [pc EXCEPT ![t] = "givenUp"]
        BY <3>1 DEF GiveUp, Leave, Goto
      <4>2. QED
        BY <1>2, <4>1 DEF NotGivenUp, ProductsInv
    <3>2. QED
      BY <2>1, <2>2, <3>1, LoadKeeps, CallPlanKeeps, ServerKeeps DEF Prepare
  <2>3. QED
    BY <2>1, <2>2, ReceiveKeeps, PlanKeeps, PlanEndKeeps, ValidateKeeps, AsideKeeps DEF Next
<1>3. QED
  BY <1>1, <1>2 DEF ProductsInv

LEMMA ProductsInitInv == Init => ProductsInv
<1> SUFFICES ASSUME Init PROVE ProductsInv
  OBVIOUS
<1>1. /\ pc = [t \in Tasks |-> "idle"] /\ task = NoTask /\ path = [t \in Tasks |-> NoTask]
      /\ calls = {} /\ reply = [t \in Tasks |-> "none"] /\ planning = NoTask /\ phase = "none"
      /\ new = {} /\ held = Nothing /\ sent = Nothing
  BY DEF Init, ServerInit, AdapterInit
<1>2. pc \in [Tasks -> Stage] /\ DOMAIN Nothing = Topic
  BY <1>1 DEF Stage, Nothing
<1>3. ProductsTypeOK
  BY <1>1, <1>2 DEF ProductsTypeOK, Product
<1>4. Reserved /\ Requested /\ Planned /\ NewProducts /\ Copied
  BY <1>1, NoTaskIs DEF Reserved, Requested, Planned, NewProducts, Copied, Underway
<1>5. QED
  BY <1>1, <1>2, <1>3, <1>4 DEF ProductsInv, OneTask

LEMMA ProductsInvImplies == ProductsInv => OwnPathExecuted
<1> SUFFICES ASSUME ProductsInv, NotGivenUp, NEW t \in Tasks
             PROVE  /\ pc[t] = "ready" => semantics = t
                    /\ pc[t] = "executed" => path[t] = t
  BY DEF OwnPathExecuted, NotGivenUp
<1>1. QED
  BY DEF ProductsInv, OneTask, Copied

\* If what is published before the map of a task is loaded has arrived, and no task is given up,
\* each executes the path of its own map, although no product says whose it is and the validator
\* publishes old paths again (coverage_task_server.py _prepare_path).
THEOREM OwnPathAlwaysExecuted == ASSUME Prompt PROVE Spec => []OwnPathExecuted
<1>1. Init => ProductsInv
  BY ProductsInitInv
<1>2. ProductsInv /\ [Next]_vars => ProductsInv'
  BY ProductsInvStep
<1>3. ProductsInv => OwnPathExecuted
  BY ProductsInvImplies
<1>4. QED
  BY <1>1, <1>2, <1>3, PTL DEF Spec

-----------------------------------------------------------------------------
(* The comparison of variants. *)

Call == [kind : {"parameters", "goal", "result"}, variant : Nat, spec : Inputs]

EntryRecord == [variant : Nat, planned : Nat, outcome : {"FAILED", "COMPLETE", "REJECTED"},
                made : SUBSET (Inputs \cup {NoInputs})]

VariantTypeOK ==
  /\ underWay \in BOOLEAN /\ completed \in BOOLEAN /\ autoTimer \in BOOLEAN /\ up \in BOOLEAN
  /\ loaded \in [Field -> Inputs \cup {NoInputs}]
  /\ index \in Nat /\ candidates \in Seq(EntryRecord)
  /\ paths \in Seq([variant : Nat, planned : Nat])
  /\ pending \subseteq Call
  /\ report \in [map : Inputs \cup {NoInputs}, candidates : Seq(EntryRecord)]

\* The comparison under way has one call out, for the variant after those that were
\* tried; all its inputs are of one edition.
OneCallOut(i, c) ==
  /\ loaded = [f \in Field |-> i] /\ Usable(VariantsOf[i])
  /\ pending = {c} /\ c.spec = i
  /\ Len(candidates) < Len(VariantsOf[i]) /\ index = Len(candidates) + 1
  /\ c.kind = "parameters" => candidates = <<>>
  /\ c.kind # "parameters" => c.variant = VariantsOf[i][index]

CompareInv ==
  /\ VariantTypeOK /\ ComparedAsLoaded
  /\ ~underWay => pending = {}
  /\ underWay /\ up => \E i \in Inputs, c \in Call : OneCallOut(i, c)

\* What a call's answer does to the lists when the variant after those tried is
\* the next one.
LEMMA EntryExtends ==
  ASSUME NEW i \in Inputs, NEW c \in Call, NEW o \in {"FAILED", "COMPLETE", "REJECTED"},
         OneCallOut(i, c), c.kind # "parameters", VariantTypeOK, EntriesOf(i, candidates)
  PROVE  /\ Append(candidates, Entry(c, o)) \in Seq(EntryRecord)
         /\ EntriesOf(i, Append(candidates, Entry(c, o)))
         /\ Len(Append(candidates, Entry(c, o))) = Len(candidates) + 1
         /\ List[index] = c.variant
<1> DEFINE e == Entry(c, o)  grown == Append(candidates, e)
<1>1. /\ candidates \in Seq(EntryRecord) /\ Len(candidates) \in Nat
      /\ index = Len(candidates) + 1 /\ index \in 1..Len(VariantsOf[i])
      /\ VariantsOf[i] \in Seq(Nat) /\ DOMAIN VariantsOf[i] = 1..Len(VariantsOf[i])
  BY VariantsAssumption DEF VariantTypeOK, OneCallOut
<1>2. List = VariantsOf[i] /\ loaded["task"] = i /\ loaded["limits"] = i /\ c.spec = i
  BY DEF OneCallOut, List, Field
<1>3. /\ List[index] = c.variant /\ c.variant = VariantsOf[i][index]
      /\ VariantsOf[i][index] \in Nat
  BY <1>1, <1>2 DEF OneCallOut
<1>4. /\ e.variant = VariantsOf[i][index] /\ e.planned = VariantsOf[i][index] /\ e.made = {i}
      /\ e \in EntryRecord
  BY <1>2, <1>3 DEF Entry, EntryRecord
<1> HIDE DEF e
<1>5. /\ grown \in Seq(EntryRecord) /\ Len(grown) = Len(candidates) + 1
      /\ \A k \in 1..Len(candidates) : grown[k] = candidates[k]
      /\ grown[Len(candidates) + 1] = e
  BY <1>1, <1>4
<1>6. ASSUME NEW k \in DOMAIN grown
      PROVE  /\ k \in DOMAIN VariantsOf[i] /\ grown[k].variant = VariantsOf[i][k]
             /\ grown[k].planned = VariantsOf[i][k] /\ grown[k].made = {i}
  <2>1. CASE k \in 1..Len(candidates)
    BY <1>1, <1>5, <2>1 DEF EntriesOf
  <2>2. CASE k = Len(candidates) + 1
    BY <1>1, <1>4, <1>5, <2>2
  <2>3. QED
    BY <1>1, <1>5, <2>1, <2>2
<1>7. QED
  BY <1>3, <1>5, <1>6 DEF EntriesOf, e

\* The next variant is planned, or the report is published.
LEMMA SendNextKeeps ==
  ASSUME NEW i \in Inputs, NEW c \in Call, NEW k \in Nat, NEW tried \in Seq(EntryRecord),
         CompareInv, underWay, up, loaded = [f \in Field |-> i], Usable(VariantsOf[i]),
         pending = {c}, c.spec = i, EntriesOf(i, tried),
         k = Len(tried) + 1, Len(tried) <= Len(VariantsOf[i]),
         SendNext(c, k, tried), UNCHANGED <<autoTimer, loaded>>,
         paths' \in Seq([variant : Nat, planned : Nat]),
         \A j \in DOMAIN paths' : paths'[j].variant = paths'[j].planned
  PROVE  CompareInv'
<1>1. /\ VariantsOf[i] \in Seq(Nat) /\ Len(VariantsOf[i]) \in Nat /\ Len(tried) \in Nat
      /\ List = VariantsOf[i] /\ loaded["task"] = i /\ loaded["spec"] = i
  BY VariantsAssumption DEF List, Field
<1>2. VariantTypeOK /\ ComparedAsLoaded
  BY DEF CompareInv
<1>3. CASE k > Len(List)
  <2>1. /\ index' = k /\ candidates' = tried /\ pending' = {}
        /\ report' = [map |-> i, candidates |-> tried]
        /\ up' \in BOOLEAN /\ underWay' = ~up' /\ completed' \in BOOLEAN
        /\ UNCHANGED <<autoTimer, loaded>>
    BY <1>1, <1>3 DEF SendNext, Finish
  <2>2. Len(tried) = Len(VariantsOf[i])
    BY <1>1, <1>3
  <2>3. VariantTypeOK'
    BY <1>2, <2>1 DEF VariantTypeOK
  <2>4. ComparedAsLoaded'
    <3>1. EntriesOf(i, candidates') /\ loaded'["task"] = i
      BY <1>1, <2>1
    <3>2. report'.map = i /\ report'.candidates = tried
      BY <2>1
    <3>3. QED
      BY <2>1, <2>2, <3>1, <3>2 DEF ComparedAsLoaded, EntriesOf
  <2>5. QED
    BY <2>1, <2>3, <2>4 DEF CompareInv
<1>4. CASE ~(k > Len(List))
  <2> DEFINE d == [kind |-> "goal", variant |-> VariantsOf[i][k], spec |-> i]
  <2>1. /\ index' = k /\ candidates' = tried /\ pending' = {d}
        /\ UNCHANGED <<autoTimer, loaded, underWay, completed, report, up>>
    BY <1>1, <1>4 DEF SendNext, Goal
  <2>2. k \in 1..Len(VariantsOf[i]) /\ Len(tried) < Len(VariantsOf[i])
    BY <1>1, <1>4
  <2>3. d \in Call /\ d.spec = i /\ d.kind = "goal" /\ d.variant = VariantsOf[i][k]
    BY <1>1, <2>2 DEF Call
  <2> HIDE DEF d
  <2>4. VariantTypeOK'
    <3>1. /\ underWay' \in BOOLEAN /\ completed' \in BOOLEAN /\ autoTimer' \in BOOLEAN
          /\ up' \in BOOLEAN
      BY <1>2, <2>1 DEF VariantTypeOK
    <3>2. loaded' \in [Field -> Inputs \cup {NoInputs}] /\ index' \in Nat
      BY <1>2, <2>1 DEF VariantTypeOK
    <3>3. /\ candidates' \in Seq(EntryRecord) /\ paths' \in Seq([variant : Nat, planned : Nat])
          /\ pending' \subseteq Call
      BY <2>1, <2>3
    <3>4. report' \in [map : Inputs \cup {NoInputs}, candidates : Seq(EntryRecord)]
      BY <1>2, <2>1 DEF VariantTypeOK
    <3>5. QED
      BY <3>1, <3>2, <3>3, <3>4 DEF VariantTypeOK
  <2>5. ComparedAsLoaded'
    <3>1. EntriesOf(i, tried)' /\ loaded'["task"] = i
      BY <1>1, <2>1 DEF EntriesOf
    <3>2. report' # NoComparison =>
            /\ EntriesOf(report.map, report.candidates)'
            /\ Len(report'.candidates) = Len(VariantsOf[report'.map])
      BY <1>2, <2>1 DEF ComparedAsLoaded, EntriesOf
    <3>3. EntriesOf(loaded["task"], candidates)'
      BY <2>1, <3>1 DEF EntriesOf
    <3>4. QED
      BY <3>2, <3>3 DEF ComparedAsLoaded
  <2>6. OneCallOut(i, d)'
    <3>1. loaded' = [f \in Field |-> i] /\ Usable(VariantsOf[i])
      BY <2>1
    <3>2. /\ Len(candidates') < Len(VariantsOf[i]) /\ index' = Len(candidates') + 1
          /\ d.variant = VariantsOf[i][index']
      BY <2>1, <2>2, <2>3
    <3>3. QED
      BY <2>1, <2>3, <3>1, <3>2 DEF OneCallOut
  <2>7. QED
    <3>1. underWay' = TRUE
      BY <2>1
    <3>2. QED
      BY <2>3, <2>4, <2>5, <2>6, <3>1 DEF CompareInv
<1>5. QED
  BY <1>3, <1>4

LEMMA StartKeeps ==
  ASSUME CompareInv, UNCHANGED <<report, up>>, autoTimer' \in BOOLEAN, up,
         ServerMissing \/ InputsInvalid \/ Begin
  PROVE  CompareInv'
<1>1. VariantTypeOK /\ ComparedAsLoaded /\ pending = {} /\ underWay = FALSE
  BY DEF CompareInv, ServerMissing, InputsInvalid, Begin, Free, VariantTypeOK
<1>2. CASE ServerMissing
  BY <1>1, <1>2 DEF ServerMissing, CompareInv, VariantTypeOK, ComparedAsLoaded, EntriesOf
<1>3. CASE InputsInvalid
  <2>1. /\ UNCHANGED <<underWay, completed, index, candidates, paths, pending>>
        /\ loaded' \in [Field -> Inputs \cup {NoInputs}]
    BY <1>1, <1>3 DEF InputsInvalid, LoadInputs, VariantTypeOK
  <2>2. QED
    BY <1>1, <2>1 DEF CompareInv, VariantTypeOK, ComparedAsLoaded, EntriesOf
<1>4. CASE Begin
  <2>1. PICK i \in Inputs :
          LoadInputs(i, 4) /\ pending' = pending \cup {[kind |-> "parameters", variant |-> 0, spec |-> i]}
    BY <1>4 DEF Begin
  <2> DEFINE c == [kind |-> "parameters", variant |-> 0, spec |-> i]
  <2>2. c \in Call /\ c.spec = i /\ c.kind = "parameters"
    BY DEF Call
  <2>3. loaded' = [f \in Field |-> i] /\ Usable(VariantsOf[i])
    <3>1. {ReadOrder[k] : k \in 1..4} = Field
      <4>1. 1..4 = {1, 2, 3, 4}
        OBVIOUS
      <4>2. QED
        BY <4>1 DEF ReadOrder, Field
    <3>2. QED
      BY <2>1, <3>1 DEF LoadInputs
  <2>4. /\ underWay' = TRUE /\ completed' = FALSE /\ candidates' = <<>> /\ paths' = <<>>
        /\ index' = 1 /\ pending' = {c}
    BY <1>1, <1>4, <2>1 DEF Begin
  <2> HIDE DEF c
  <2>5. Len(VariantsOf[i]) \in Nat /\ Len(VariantsOf[i]) >= 2
    BY <2>3, VariantsAssumption DEF Usable
  <2>6. VariantTypeOK'
    <3>1. /\ underWay' \in BOOLEAN /\ completed' \in BOOLEAN /\ autoTimer' \in BOOLEAN
          /\ up' \in BOOLEAN
      BY <1>1, <2>4 DEF VariantTypeOK
    <3>2. loaded' \in [Field -> Inputs \cup {NoInputs}] /\ index' \in Nat
      BY <2>3, <2>4
    <3>3. candidates' \in Seq(EntryRecord) /\ paths' \in Seq([variant : Nat, planned : Nat])
      BY <2>4
    <3>4. pending' \subseteq Call /\ report' \in [map : Inputs \cup {NoInputs}, candidates : Seq(EntryRecord)]
      BY <1>1, <2>2, <2>4 DEF VariantTypeOK
    <3>5. QED
      BY <3>1, <3>2, <3>3, <3>4 DEF VariantTypeOK
  <2>7. ComparedAsLoaded'
    BY <1>1, <2>4 DEF ComparedAsLoaded, EntriesOf
  <2>8. OneCallOut(i, c)'
    BY <2>2, <2>3, <2>4, <2>5 DEF OneCallOut
  <2>9. QED
    BY <2>2, <2>4, <2>6, <2>7, <2>8 DEF CompareInv
<1>5. QED
  BY <1>2, <1>3, <1>4

LEMMA AnswerKeeps ==
  ASSUME CompareInv, NEW d \in pending, ServerAnswered(d) \/ GoalAnswered(d) \/ ResultAnswered(d)
  PROVE  CompareInv'
<1>1. underWay /\ up /\ VariantTypeOK /\ ComparedAsLoaded
  BY DEF CompareInv, ServerAnswered, GoalAnswered, ResultAnswered, Answered
<1>2. PICK i \in Inputs, c \in Call : OneCallOut(i, c)
  BY <1>1 DEF CompareInv
<1>3. /\ loaded = [f \in Field |-> i] /\ Usable(VariantsOf[i])
      /\ pending = {c} /\ c.spec = i /\ d = c
      /\ Len(candidates) < Len(VariantsOf[i]) /\ index = Len(candidates) + 1
      /\ Len(candidates) \in Nat /\ Len(VariantsOf[i]) \in Nat
      /\ EntriesOf(i, candidates) /\ candidates \in Seq(EntryRecord)
      /\ paths \in Seq([variant : Nat, planned : Nat])
      /\ \A k \in DOMAIN paths : paths[k].variant = paths[k].planned
  <2>1. loaded["task"] = i
    BY <1>2 DEF OneCallOut, Field
  <2>2. QED
    BY <1>1, <1>2, <2>1, VariantsAssumption DEF OneCallOut, VariantTypeOK, ComparedAsLoaded
<1>4. CASE ServerAnswered(d) /\ Abort(d)
  <2>1. /\ pending' = {} /\ underWay' = FALSE /\ completed' = TRUE
        /\ UNCHANGED <<autoTimer, loaded, paths, index, candidates, report, up>>
    BY <1>3, <1>4 DEF ServerAnswered, Abort
  <2>2. QED
    BY <1>1, <2>1 DEF CompareInv, VariantTypeOK, ComparedAsLoaded, EntriesOf
<1>5. CASE ServerAnswered(d) /\ SendNext(d, index, candidates)
  <2>1. UNCHANGED <<autoTimer, loaded, paths>>
    BY <1>5 DEF ServerAnswered
  <2>2. index \in Nat /\ Len(candidates) <= Len(VariantsOf[i])
    BY <1>3
  <2>3. QED
    BY <1>1, <1>3, <1>5, <2>1, <2>2, SendNextKeeps
<1>6. ASSUME RecordFailure(d), d.kind # "parameters", UNCHANGED <<autoTimer, loaded, paths>>
      PROVE  CompareInv'
  <2> DEFINE tried == Append(candidates, Entry(d, "FAILED"))
  <2>1. tried \in Seq(EntryRecord) /\ EntriesOf(i, tried) /\ Len(tried) = Len(candidates) + 1
    BY <1>1, <1>2, <1>3, <1>6, EntryExtends
  <2>2. SendNext(c, index + 1, tried)
    BY <1>3, <1>6 DEF RecordFailure
  <2> HIDE DEF tried
  <2>3. index + 1 \in Nat /\ index + 1 = Len(tried) + 1 /\ Len(tried) <= Len(VariantsOf[i])
    BY <1>3, <2>1
  <2>4. QED
    BY <1>1, <1>3, <1>6, <2>1, <2>2, <2>3, SendNextKeeps
<1>7. CASE GoalAnswered(d)
  <2>1. CASE RecordFailure(d)
    BY <1>6, <1>7, <2>1 DEF GoalAnswered, Answered
  <2>2. CASE pending' = (pending \ {d}) \cup {[d EXCEPT !.kind = "result"]}
             /\ UNCHANGED <<underWay, completed, index, candidates, report, status, up>>
    <3> DEFINE e == [d EXCEPT !.kind = "result"]
    <3>1. /\ e \in Call /\ e.kind = "result" /\ e.spec = i /\ e.variant = c.variant
          /\ c.kind = "goal"
      BY <1>3, <1>7 DEF Call, GoalAnswered, Answered
    <3>2. /\ pending' = {e}
          /\ UNCHANGED <<autoTimer, loaded, paths, underWay, completed, index, candidates, report, up>>
      BY <1>3, <1>7, <2>2 DEF GoalAnswered
    <3> HIDE DEF e
    <3>3. OneCallOut(i, e)'
      BY <1>2, <3>1, <3>2 DEF OneCallOut
    <3>4. VariantTypeOK' /\ ComparedAsLoaded'
      BY <1>1, <3>1, <3>2 DEF VariantTypeOK, ComparedAsLoaded, EntriesOf
    <3>5. QED
      BY <1>1, <3>1, <3>2, <3>3, <3>4 DEF CompareInv
  <2>3. QED
    BY <1>7, <2>1, <2>2 DEF GoalAnswered
<1>8. CASE ResultAnswered(d)
  <2>1. CASE RecordFailure(d) /\ UNCHANGED paths
    BY <1>6, <1>8, <2>1 DEF ResultAnswered, Answered, Marker
  <2>2. ASSUME NEW o \in {"COMPLETE", "REJECTED"},
               SendNext(d, index + 1, Append(candidates, Entry(d, o))),
               paths' = Append(paths, [variant |-> List[index], planned |-> d.variant])
        PROVE  CompareInv'
    <3> DEFINE tried == Append(candidates, Entry(d, o))
               p == [variant |-> List[index], planned |-> d.variant]
    <3>1. /\ tried \in Seq(EntryRecord) /\ EntriesOf(i, tried) /\ Len(tried) = Len(candidates) + 1
          /\ List[index] = d.variant
      BY <1>1, <1>2, <1>3, <1>8, EntryExtends DEF ResultAnswered, Answered, Marker
    <3>2. p \in [variant : Nat, planned : Nat] /\ p.variant = p.planned
      BY <1>3, <3>1 DEF Call
    <3>3. SendNext(c, index + 1, tried)
      BY <1>3, <2>2
    <3>p. paths' = Append(paths, p)
      BY <2>2
    <3> HIDE DEF tried, p
    <3>4. paths' \in Seq([variant : Nat, planned : Nat])
      BY <1>3, <3>2, <3>p
    <3>5. \A j \in DOMAIN paths' : paths'[j].variant = paths'[j].planned
      <4>1. /\ Len(paths) \in Nat /\ DOMAIN paths' = 1..Len(paths) + 1
            /\ \A j \in 1..Len(paths) : paths'[j] = paths[j] /\ j \in DOMAIN paths
            /\ paths'[Len(paths) + 1] = p
        BY <1>3, <3>2, <3>p
      <4>2. \A j \in 1..Len(paths) + 1 : j \in 1..Len(paths) \/ j = Len(paths) + 1
        BY <4>1
      <4>3. QED
        BY <1>3, <3>2, <4>1, <4>2
    <3>6. index + 1 \in Nat /\ index + 1 = Len(tried) + 1 /\ Len(tried) <= Len(VariantsOf[i])
      BY <1>3, <3>1
    <3>7. UNCHANGED <<autoTimer, loaded>>
      BY <1>8 DEF ResultAnswered
    <3>8. QED
      BY <1>1, <1>3, <3>1, <3>3, <3>4, <3>5, <3>6, <3>7, SendNextKeeps
  <2>3. QED
    BY <1>8, <2>1, <2>2 DEF ResultAnswered, Marker
<1>9. QED
  BY <1>4, <1>5, <1>7, <1>8 DEF ServerAnswered

\* For every list of variants and every edition of the inputs, whenever the timer
\* and the service ask for a comparison: a report lists all variants of one
\* edition, each with what was planned for it from that edition.
THEOREM ComparedAlwaysAsLoaded == VariantsSpec => []ComparedAsLoaded
<1>1. VariantsInit => CompareInv
  <2> SUFFICES ASSUME VariantsInit PROVE CompareInv
    OBVIOUS
  <2>1. VariantTypeOK
    <3>1. /\ underWay \in BOOLEAN /\ completed \in BOOLEAN /\ autoTimer \in BOOLEAN
          /\ up \in BOOLEAN
      BY VariantsAssumption DEF VariantsInit
    <3>2. loaded \in [Field -> Inputs \cup {NoInputs}] /\ index \in Nat /\ pending \subseteq Call
      BY DEF VariantsInit
    <3>3. candidates \in Seq(EntryRecord) /\ paths \in Seq([variant : Nat, planned : Nat])
      BY DEF VariantsInit
    <3>4. report \in [map : Inputs \cup {NoInputs}, candidates : Seq(EntryRecord)]
      BY DEF VariantsInit, NoComparison
    <3>5. QED
      BY <3>1, <3>2, <3>3, <3>4 DEF VariantTypeOK
  <2>2. QED
    BY <2>1 DEF VariantsInit, CompareInv, ComparedAsLoaded
<1>2. CompareInv /\ [VariantsNext]_variantVars => CompareInv'
  <2> SUFFICES ASSUME CompareInv, [VariantsNext]_variantVars PROVE CompareInv'
    OBVIOUS
  <2>1. CASE AutoStart \/ CompareService
    <3>1. up /\ autoTimer' \in BOOLEAN /\ UNCHANGED <<report, up>>
          /\ (ServerMissing \/ InputsInvalid \/ Begin)
      BY <2>1 DEF AutoStart, CompareService, CompareInv, VariantTypeOK
    <3>2. QED
      BY <3>1, StartKeeps
  <2>2. ASSUME NEW c \in pending, ServerAnswered(c) \/ GoalAnswered(c) \/ ResultAnswered(c)
        PROVE  CompareInv'
    BY <2>2, AnswerKeeps
  <2>3. CASE UNCHANGED variantVars
    BY <2>3 DEF variantVars, CompareInv, VariantTypeOK, ComparedAsLoaded, EntriesOf, OneCallOut
  <2>4. QED
    BY <2>1, <2>2, <2>3 DEF VariantsNext
<1>3. CompareInv => ComparedAsLoaded
  BY DEF CompareInv
<1>4. QED
  BY <1>1, <1>2, <1>3, PTL DEF VariantsSpec
=============================================================================
