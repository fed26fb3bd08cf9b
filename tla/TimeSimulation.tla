--------------------------- MODULE TimeSimulation ---------------------------
(***************************************************************************)
(* The travel-time estimate of a coverage path in agt_coverage_planning    *)
(* (time_simulation.py), and the node that publishes one for the last path *)
(* it received (scripts/coverage_time_simulator.py).                       *)
(*                                                                         *)
(* Speeds are squared throughout, which makes every limit of the profile a *)
(* sum of integers: after a distance d from speed v the fastest square is  *)
(* v^2 + 2 a d.  The times themselves, which need the roots, are left out. *)
(* The geometry of a segment is what the profile sees of it: its distance, *)
(* its direction, the angle it turns and the square of the speed at which  *)
(* that angle can be turned on the way.                                    *)
(***************************************************************************)
EXTENDS Naturals, Sequences, FiniteSets

CONSTANTS
  Segments,        \* the segments a path is made of
  MaxLength,       \* bound on the segments of a path
  ForwardSpeed, ReverseSpeed,           \* squares of the largest speeds
  Acceleration, Deceleration, \* twice the largest linear ones
  NoPath           \* nothing received

ASSUME SimulationAssumption ==
  /\ {ForwardSpeed, ReverseSpeed, Acceleration, Deceleration} \subseteq Nat \ {0}
  /\ \A s \in Segments :
       /\ s \in [distance : Nat, reverse : BOOLEAN, turn : Nat, curve : Nat \ {0}]
       /\ s.distance = 0 => ~s.reverse
  /\ MaxLength \in Nat
  /\ NoPath \notin UNION {[1..n -> Segments] : n \in 0..MaxLength}

Least(a, b) == IF a <= b THEN a ELSE b

-----------------------------------------------------------------------------
(* The speed profile. *)

\* _segment: what a segment allows by its direction and by its curvature.
SpeedLimit(s) == Least(IF s.reverse THEN ReverseSpeed ELSE ForwardSpeed, s.curve)

Vertices(p) == 1..Len(p) + 1

\* The segments before and after a vertex.
At(p, k) == {k - 1, k} \cap DOMAIN p

\* The robot stands at both ends, beside a segment without a distance, and where
\* its direction changes.
Stands(p, k) ==
  \/ Cardinality(At(p, k)) = 1
  \/ \E j \in At(p, k) : p[j].distance = 0
  \/ \E j, l \in At(p, k) : p[j].reverse # p[l].reverse

Cap(p, k) ==
  IF Stands(p, k) THEN 0 ELSE Least(SpeedLimit(p[k - 1]), SpeedLimit(p[k]))

\* One pass over the vertices: what can be reached from the vertex before.
ForwardPass(p) ==
  LET speed[k \in Vertices(p)] ==
        IF k = 1 THEN 0
        ELSE Least(Cap(p, k), speed[k - 1] + Acceleration * p[k - 1].distance)
  IN  speed

\* And one back: what can be braked to the speed at the vertex after.
VertexSpeeds_ForwardOnly(p) == ForwardPass(p)

VertexSpeeds(p) ==
  LET reached == ForwardPass(p)
      speed[n \in 0..Len(p)] ==  \* at the vertex n before the last
        IF n = 0 THEN 0
        ELSE LET k == Len(p) + 1 - n
             IN  Least(reached[k], speed[n - 1] + Deceleration * p[k].distance)
  IN  [k \in Vertices(p) |-> speed[Len(p) + 1 - k]]

-----------------------------------------------------------------------------
(* The time of a segment, which speeds up, cruises and brakes. *)

\* The square of the highest speed between the squares start and end, times
\* Acceleration + Deceleration: where speeding up meets braking, if that is
\* within the limit.
Peak(s, start, end) ==
  Least(Acceleration * Deceleration * s.distance + Deceleration * start + Acceleration * end,
        (Acceleration + Deceleration) * SpeedLimit(s))

\* _bounded_motion_time takes no distance to be negative (its max(0.0, ...)).
\* The two ramps fit: none is negative, and they leave the rest to cruising.
RampsFit(s, start, end) ==
  LET sum == Acceleration + Deceleration
      peak == Peak(s, start, end)
  IN  /\ peak >= sum * start /\ peak >= sum * end
      /\ Deceleration * (peak - sum * start) + Acceleration * (peak - sum * end)
           <= Acceleration * Deceleration * sum * s.distance

-----------------------------------------------------------------------------
(* What else a report counts. *)

Moves(s) == s.distance > 0

DirectionChanges(p) ==
  Cardinality({k \in 1..Len(p) - 1 :
    Moves(p[k]) /\ Moves(p[k + 1]) /\ p[k].reverse # p[k + 1].reverse})

\* Without labels a turn begins where a turning segment follows one that is not:
\* it rotates in place, or by at least half a radian a metre.
Turning(s) == s.turn > 0 /\ (Moves(s) => 2 * s.turn >= s.distance)

TurnCount(p) ==
  Cardinality({k \in DOMAIN p : Turning(p[k]) /\ (k = 1 \/ ~Turning(p[k - 1]))})

\* A path is estimated when something on it moves.  A path that cannot be read
\* fails as an empty one does.
NoMotion(p) == \A k \in DOMAIN p : ~Moves(p[k]) /\ p[k].turn = 0

-----------------------------------------------------------------------------
(* The node. *)

VARIABLES
  lastPath,   \* last_path
  document,   \* the path the last semantics document was made for
  simulation  \* last_report

simulationVars == <<lastPath, document, simulation>>

Paths == UNION {[1..n -> Segments] : n \in 0..MaxLength}

\* A report: the path it is about and its speeds, and whether its segments were
\* classified by the document; an estimate that fails says nothing of these.
Failed == [status |-> "FAILED", path |-> NoPath, speeds |-> <<>>, classified |-> FALSE,
           turns |-> 0, reversals |-> 0]

NothingPublished == [Failed EXCEPT !.status = "none"]

SimulationInit ==
  lastPath = NoPath /\ document = NoPath /\ simulation = NothingPublished

\* simulate_path_time: a path that does not move is not estimated.  How many turns
\* the labels of a document count is left out.
Estimate(p, classified) ==
  IF NoMotion(p) THEN Failed
  ELSE [status |-> "ESTIMATED", path |-> p, speeds |-> VertexSpeeds(p),
        classified |-> classified, turns |-> IF classified THEN 0 ELSE TurnCount(p),
        reversals |-> DirectionChanges(p)]

\* parse_path_semantics refuses a document that was made for another path; the
\* estimate is published without the classification then.
Simulate(p, d) == simulation' = Estimate(p, d = p)

PathCallback(p) ==
  /\ lastPath' = p
  /\ Simulate(p, document)
  /\ UNCHANGED document

\* A message that is not JSON leaves no document.
SemanticsCallback(d) ==
  /\ document' = d
  /\ IF lastPath = NoPath THEN UNCHANGED simulation ELSE Simulate(lastPath, d)
  /\ UNCHANGED lastPath

SimulationNext ==
  \/ \E p \in Paths : PathCallback(p)
  \/ \E d \in Paths \cup {NoPath} : SemanticsCallback(d)

SimulationSpec == SimulationInit /\ [][SimulationNext]_simulationVars

-----------------------------------------------------------------------------
(* Properties. *)

\* A profile the robot can drive: within every cap, and within the acceleration
\* and the deceleration over every segment.
Drivable(p, speeds) ==
  /\ \A k \in Vertices(p) : speeds[k] <= Cap(p, k)
  /\ \A k \in DOMAIN p :
       /\ speeds[k + 1] <= speeds[k] + Acceleration * p[k].distance
       /\ speeds[k] <= speeds[k + 1] + Deceleration * p[k].distance

\* The published estimate is of the last path, whichever of the two messages came
\* last, and classified only by a document made for it.  Its speeds are the
\* fastest the robot can drive: they respect every limit, no speeds raised
\* together would, and over each segment the ramps between them fit
\* (_vertex_speeds, _bounded_motion_time, _simulate).
EstimateIsFastest ==
  simulation.status = "ESTIMATED" =>
    LET p == simulation.path
        v == simulation.speeds
    IN  /\ p = lastPath
        /\ simulation.classified <=> document = p
        /\ Drivable(p, v)
        /\ \A raised \in (SUBSET Vertices(p)) \ {{}} :
             ~Drivable(p, [k \in Vertices(p) |-> IF k \in raised THEN v[k] + 1 ELSE v[k]])
        /\ \A k \in DOMAIN p : Moves(p[k]) => RampsFit(p[k], v[k], v[k + 1])
        /\ simulation.reversals < Len(p)
=============================================================================
