--------------------------- MODULE PathValidation ---------------------------
(***************************************************************************)
(* The geometric validation of a coverage path in agt_coverage_planning    *)
(* (path_validator.py): the path is sampled, the robot's footprint is laid *)
(* on the costmap at every sample, and every segment with a colliding      *)
(* sample, or one that turns too tightly, is reported.                     *)
(*                                                                         *)
(* Lengths are integers; a sample between two poses is a fraction of the   *)
(* way.  The footprint is a disc, so that a heading only matters for how   *)
(* many samples there are and how tightly the path turns; the costmap is   *)
(* not rotated.  Clearances, maximum costs and the messages are left out.  *)
(***************************************************************************)
EXTENDS Integers, Sequences, FiniteSets

CONSTANTS
  Width, Height, Resolution,  \* the costmap, and the side of a cell
  Radius,                     \* of the footprint
  Places, Headings,           \* positions and headings of poses
  AngularStep,                \* the largest angle between samples
  TurningRadius,              \* required_min_turning_radius
  MaxPoses,                   \* bound on the poses of a path
  MaxSamples,                 \* maximum_sample_count
  Grids                       \* the costmaps

ASSUME GridAssumption ==
  /\ {Width, Height, Resolution, Radius, AngularStep, MaxSamples} \subseteq Nat \ {0}
  /\ Radius % 4 = 0 /\ Resolution % 20 = 0
  /\ TurningRadius \in Nat /\ MaxPoses \in Nat
  /\ Places \subseteq Int \X Int /\ Headings \subseteq Int

ASSUME CostmapAssumption ==
  \A g \in Grids :
    /\ DOMAIN g = (0..Width - 1) \X (0..Height - 1)
    /\ \A c \in DOMAIN g : g[c] \in {"free", "occupied", "unknown"}

Pose == {[x |-> p[1], y |-> p[2], yaw |-> h] : p \in Places, h \in Headings}

Cells == (0..Width - 1) \X (0..Height - 1)

GreaterOf(a, b) == IF a >= b THEN a ELSE b
LesserOf(a, b) == IF a <= b THEN a ELSE b
Size(a) == IF a >= 0 THEN a ELSE -a
Sq(a) == a * a

-----------------------------------------------------------------------------
(* Sampling. *)

\* Half a cell, or a quarter of the footprint if that is less, but never less than
\* a twentieth of a cell.
LinearStep == GreaterOf(LesserOf(Resolution \div 2, Radius \div 4), Resolution \div 20)

DistanceSq(a, b) == Sq(b.x - a.x) + Sq(b.y - a.y)
Turned(a, b) == Size(b.yaw - a.yaw)

\* The least number of steps that is at least 1 and keeps both steps.
StepCount(a, b) ==
  LET enough(n) == Sq(n * LinearStep) >= DistanceSq(a, b) /\ n * AngularStep >= Turned(a, b)
  IN  CHOOSE n \in 1..MaxSamples + 1 :
        /\ enough(n) \/ n = MaxSamples + 1
        /\ \A m \in 1..n - 1 : ~enough(m)

\* The point i n-ths of the way from a to b, as n times its coordinates.
Point(a, b, i, n) == [x |-> n * a.x + i * (b.x - a.x), y |-> n * a.y + i * (b.y - a.y), of |-> n]

Samples_EndsOnly(path, k) == {Point(path[k], path[k + 1], 1, 1)}

\* The samples of segment k: its end, and what lies before it; the first segment
\* has its start too.
Samples(path, k) ==
  LET n == StepCount(path[k], path[k + 1])
  IN  {Point(path[k], path[k + 1], i, n) : i \in (IF k = 1 THEN 0 ELSE 1)..n}

TooManySamples(path) ==
  LET count[k \in 0..Len(path) - 1] ==
        IF k = 0 THEN 1 ELSE count[k - 1] + StepCount(path[k], path[k + 1])
  IN  count[Len(path) - 1] > MaxSamples

-----------------------------------------------------------------------------
(* One sample. *)

\* The disc at a point lies inside the costmap.
Covered(s, radius) ==
  /\ s.x >= s.of * radius /\ s.x <= s.of * (Width * Resolution - radius)
  /\ s.y >= s.of * radius /\ s.y <= s.of * (Height * Resolution - radius)

\* How far outside the interval from a to b a value lies.
Beyond(v, a, b) == IF v < a THEN a - v ELSE IF v > b THEN v - b ELSE 0

\* Square of the distance from the point to a cell, times the square of s.of.
GapSq(s, cell) ==
  LET side == s.of * Resolution
  IN  Sq(Beyond(s.x, cell[1] * side, (cell[1] + 1) * side))
        + Sq(Beyond(s.y, cell[2] * side, (cell[2] + 1) * side))

\* The cells check looks at: those from the cell of the disc's lowest corner to
\* the one of its highest, on the costmap, that the disc touches.
CellsOf(s) ==
  LET side == s.of * Resolution
      low(v) == (v - s.of * Radius) \div side
      high(v) == (v + s.of * Radius) \div side
  IN  {c \in Cells :
         /\ c[1] \in low(s.x)..high(s.x) /\ c[2] \in low(s.y)..high(s.y)
         /\ GapSq(s, c) <= Sq(s.of * Radius)}

\* An unknown cell collides by the policy.
Blocks(cost, unknownCollides) ==
  cost = "occupied" \/ (cost = "unknown" /\ unknownCollides)

Collides(s, input) ==
  \/ ~Covered(s, Radius) /\ input.outsideCollides
  \/ \E c \in CellsOf(s) : Blocks(input.grid[c], input.unknownCollides)

\* Between the samples of a segment the path turns as between its poses; a turn on
\* the spot is too tight for any radius.
TooTight(a, b) ==
  /\ TurningRadius > 0 /\ Turned(a, b) > 0
  /\ Sq(Turned(a, b) * TurningRadius) > DistanceSq(a, b)

-----------------------------------------------------------------------------
(* Validation. *)

VARIABLES
  request,  \* the path and the costmap, and the policies of ValidatorConfig
  result    \* the report

validationVars == <<request, result>>

InvalidSegments(input) ==
  {k \in 1..Len(input.path) - 1 :
     \/ \E s \in Samples(input.path, k) : Collides(s, input)
     \/ TooTight(input.path[k], input.path[k + 1])}

Validations == [path : UNION {[1..n -> Pose] : n \in 2..MaxPoses}, grid : Grids,
             unknownCollides : BOOLEAN, outsideCollides : BOOLEAN]

NoResult == [status |-> "none", invalid |-> {}]

ValidationInit == request \in Validations /\ result = NoResult

ValidatePath ==
  /\ result = NoResult
  /\ result' =
       IF TooManySamples(request.path) THEN [status |-> "refused", invalid |-> {}]
       ELSE LET invalid == InvalidSegments(request)
            IN  [status |-> IF invalid = {} THEN "valid" ELSE "invalid", invalid |-> invalid]
  /\ UNCHANGED request

ValidationSpec == ValidationInit /\ [][ValidatePath]_validationVars

-----------------------------------------------------------------------------
(* Properties. *)

SegmentsOf(path) == 1..Len(path) - 1

\* Points of a segment, closer to each other than the samples are.
PointsOf(path, k) == {Point(path[k], path[k + 1], i, 24) : i \in 0..24}

\* The disc of half the given diameter, if it is one, overlaps the cell.
Overlaps(s, diameter, cell) == diameter > 0 /\ 4 * GapSq(s, cell) < Sq(s.of * diameter)

Blocked(input) ==
  {c \in Cells : Blocks(input.grid[c], input.unknownCollides)}

\* Everything a footprint could touch between two poses lies in their common box.
BoxIsFree(a, b, input) ==
  /\ \A p \in {a, b} : Covered([x |-> p.x, y |-> p.y, of |-> 1], Radius)
  /\ \A c \in Blocked(input) :
       \/ (c[1] + 1) * Resolution < LesserOf(a.x, b.x) - Radius
       \/ c[1] * Resolution > GreaterOf(a.x, b.x) + Radius
       \/ (c[2] + 1) * Resolution < LesserOf(a.y, b.y) - Radius
       \/ c[2] * Resolution > GreaterOf(a.y, b.y) + Radius

\* Only samples are looked at, and the start of a segment counts for the segment
\* before.  Still, anywhere on the path where a blocked cell reaches more than half
\* a step into the footprint, that segment or the one before is reported: the
\* report of a valid path vouches for what lies between the samples.  And a segment
\* with nothing blocked near it is reported only for turning too tightly
\* (interpolate_path, _CollisionIndex.check, validate_path).
SamplesAreEnough ==
  result.status \in {"valid", "invalid"} =>
    \A k \in SegmentsOf(request.path) :
      /\ {k - 1, k} \cap result.invalid = {} =>
           \A s \in PointsOf(request.path, k), c \in Blocked(request) :
             ~Overlaps(s, 2 * Radius - LinearStep, c)
      /\ k \in result.invalid /\ BoxIsFree(request.path[k], request.path[k + 1], request) =>
           TooTight(request.path[k], request.path[k + 1])
=============================================================================
