---------------------------- MODULE PathSemantics ----------------------------
(***************************************************************************)
(* What each stretch of a planned coverage path is, a swath or a           *)
(* connection (agt_coverage_planning, path_semantics.py).  The planner     *)
(* gives the path flat, and its components apart: the swaths, and the      *)
(* turns between them, in their order, without saying which comes first.   *)
(* Validation, repair and the time estimate go by these labels.            *)
(*                                                                         *)
(* Points lie on a line: the algorithm uses nothing of them but their      *)
(* distances and, of the ends of a swath, their order.  The points between *)
(* the ends of a swath all get the label of the swath and are left out, as *)
(* is the tolerance on the length of the path, less than a unit here.      *)
(***************************************************************************)
EXTENDS Integers, FiniteSets, Sequences, SequencesExt

CONSTANTS Points,   \* a set of integers
          MaxSwaths \* bound: swaths of a path, and its turns

ASSUME SemanticsAssumption == Points \subseteq Int /\ MaxSwaths \in Nat

VARIABLES planned, \* what the planner gives, and what its path was made of
          labelled \* the labels of the path, and the document they are sent in

semanticsVars == <<planned, labelled>>

Distance(p, q) == IF p < q THEN q - p ELSE p - q
Steps(points) == [i \in 1 .. Len(points) - 1 |-> Distance(points[i], points[i + 1])]

\* What the first k numbers of f add up to.
Sums(f) == LET sum[k \in 0 .. Len(f)] == IF k = 0 THEN 0 ELSE sum[k - 1] + f[k] IN sum
Total(f) == Sums(f)[Len(f)]

----------------------------------------------------------------------------
(* _stable_swath_ids: swaths are numbered by where they are, whichever way *)
(* and in whichever order they are driven.                                 *)
Key(swath) == IF swath.start < swath.end
              THEN <<swath.start, swath.end>> ELSE <<swath.end, swath.start>>
Below(k, l) == k[1] < l[1] \/ (k[1] = l[1] /\ k[2] < l[2])

SwathId(swaths, i) ==
  Cardinality({j \in DOMAIN swaths :
                 \/ Below(Key(swaths[j]), Key(swaths[i]))
                 \/ Key(swaths[j]) = Key(swaths[i]) /\ j <= i})

(* _alternating_schedule *)
Alternating(first, n) ==
  [k \in 1 .. n |->
     [kind |-> IF (k % 2 = 1) = (first = "SWATH") THEN "SWATH" ELSE "CONNECTION",
      of |-> (k + 1) \div 2]]

Ends(entry, swaths, turns) ==
  IF entry.kind = "SWATH" THEN <<swaths[entry.of].start, swaths[entry.of].end>>
  ELSE <<turns[entry.of][1], Last(turns[entry.of])>>

(* _schedule_cost: the gaps between the components, and to the path. *)
Cost(schedule, path, swaths, turns) ==
  LET ends == [k \in DOMAIN schedule |-> Ends(schedule[k], swaths, turns)]
  IN  Distance(path[1], ends[1][1]) + Distance(Last(path), Last(ends)[2])
        + Total([k \in 1 .. Len(schedule) - 1 |-> Distance(ends[k][2], ends[k + 1][1])])

(* _select_component_schedule *)
Schedule(path, swaths, turns) ==
  LET n == Len(swaths) + Len(turns)
      One == Alternating("SWATH", n)
      Other == Alternating("CONNECTION", n)
  IN  CASE Len(swaths) > Len(turns) -> One
        [] Len(swaths) < Len(turns) -> Other
        [] OTHER -> IF Cost(One, path, swaths, turns) <= Cost(Other, path, swaths, turns)
                    THEN One ELSE Other

Component(entry, swaths, turns) ==
  IF entry.kind = "SWATH"
  THEN [kind |-> "SWATH", id |-> SwathId(swaths, entry.of),
        points |-> Ends(entry, swaths, turns)]
  ELSE [kind |-> "CONNECTION", id |-> entry.of, points |-> turns[entry.of]]

Label(c) == [kind |-> c.kind, id |-> c.id]

(* _flatten_components: one label for each interval.  A component begins at *)
(* the last point of the one before, once, or a connection bridges the gap. *)
Joined(flat, c, once) ==
  LET inside == [i \in 1 .. Len(c.points) - 1 |-> Label(c)]
      bridge == IF c.kind = "CONNECTION" THEN Label(c) ELSE flat.last
  IN  CASE flat.points = <<>> ->
             [points |-> c.points, labels |-> inside, last |-> Label(c)]
        [] once /\ flat.points # <<>> /\ Last(flat.points) = c.points[1] ->
             [points |-> flat.points \o Tail(c.points), labels |-> flat.labels \o inside,
              last |-> Label(c)]
        [] OTHER ->
             [points |-> flat.points \o c.points,
              labels |-> flat.labels \o <<bridge>> \o inside, last |-> Label(c)]

NoFlat == [points |-> <<>>, labels |-> <<>>, last |-> <<>>]
Flattened(components, once) ==
  LET joined[k \in 0 .. Len(components)] ==
        IF k = 0 THEN NoFlat ELSE Joined(joined[k - 1], components[k], once)
  IN  joined[Len(components)]

(* _map_raw_intervals: an interval of the path has the label of the        *)
(* interval of the flat components in which, at the same share of the      *)
(* length, its middle lies.                                                *)
RawLabels_ByStart(path, flat) ==
  LET raw == Sums(Steps(path))
      cumulative == Sums(Steps(flat.points))
      At(i) == Cardinality({k \in DOMAIN flat.labels :
                              cumulative[k] * Total(Steps(path))
                                < raw[i - 1] * Total(Steps(flat.points))})
  IN  [i \in 1 .. Len(path) - 1 |->
         flat.labels[IF At(i) < Len(flat.labels) THEN At(i) + 1 ELSE At(i)]]

RawLabels(path, flat) ==
  LET raw == Sums(Steps(path))
      cumulative == Sums(Steps(flat.points))
      At(i) == Cardinality({k \in DOMAIN flat.labels :
                              2 * cumulative[k] * Total(Steps(path))
                                < (raw[i - 1] + raw[i]) * Total(Steps(flat.points))})
  IN  [i \in 1 .. Len(path) - 1 |->
         flat.labels[IF At(i) < Len(flat.labels) THEN At(i) + 1 ELSE At(i)]]

(* _coalesce_labels: the stretches of the document. *)
Extended(stretches, i, labels) ==
  IF stretches # <<>> /\ Last(stretches).label = labels[i]
  THEN [stretches EXCEPT ![Len(stretches)].end = i]
  ELSE Append(stretches, [start |-> i, end |-> i, label |-> labels[i]])

Stretches(labels) ==
  LET done[i \in 0 .. Len(labels)] ==
        IF i = 0 THEN <<>> ELSE Extended(done[i - 1], i, labels)
  IN  done[Len(labels)]

(* parse_path_semantics: the labels of a document, if its stretches cover  *)
(* the intervals of the path exactly once.                                 *)
Parsed(stretches, n) ==
  LET Over(i) == {s \in ToSet(stretches) : s.start <= i /\ i <= s.end}
  IN  IF /\ \A s \in ToSet(stretches) : 1 <= s.start /\ s.start <= s.end /\ s.end <= n
         /\ \A i \in 1 .. n : Cardinality(Over(i)) = 1
      THEN [i \in 1 .. n |-> (CHOOSE s \in Over(i) : TRUE).label]
      ELSE <<>>

----------------------------------------------------------------------------
(* The plans: a swath or a turn first, each component from anywhere to     *)
(* anywhere; where one does not begin at the end of the one before, the    *)
(* path goes there straight.  The path may have the points at the joints   *)
(* twice.                                                                  *)
Swaths == {s \in [start : Points, end : Points] : s.start # s.end}
Turns == {<<p>> : p \in Points} \cup {<<p, q>> : p \in Points, q \in Points}

Counts == {c \in (1 .. MaxSwaths) \X (0 .. MaxSwaths) :
             c[1] - c[2] \in {-1, 0, 1}}

Drawn(first, swaths, turns) ==
  LET order == Alternating(first, Len(swaths) + Len(turns))
  IN  [k \in DOMAIN order |-> Component(order[k], swaths, turns)]

First(c) == (IF c[1] >= c[2] THEN {"SWATH"} ELSE {}) \cup
            (IF c[1] <= c[2] THEN {"CONNECTION"} ELSE {})

Made(p) == Flattened(Drawn(p.first, p.swaths, p.turns), ~p.twice)

SemanticsInit ==
  /\ \E c \in Counts, d \in BOOLEAN :
       \E s \in [1 .. c[1] -> Swaths], t \in [1 .. c[2] -> Turns], f \in First(c) :
          planned = [swaths |-> s, turns |-> t, first |-> f, twice |-> d]
  /\ labelled = [labels |-> <<>>, document |-> <<>>]

(* build_path_semantics, and to_dict; a path whose length is not that of   *)
(* the components is refused.                                              *)
BuildPathSemantics ==
  /\ labelled.labels = <<>>
  /\ LET path == Made(planned).points
         schedule == Schedule(path, planned.swaths, planned.turns)
         components == [k \in DOMAIN schedule |->
                          Component(schedule[k], planned.swaths, planned.turns)]
         flat == Flattened(components, TRUE)
         labels == RawLabels(path, flat)
     IN  /\ Total(Steps(path)) = Total(Steps(flat.points))
         /\ labelled' = [labels |-> labels, document |-> Stretches(labels)]
  /\ UNCHANGED planned

SemanticsSpec == SemanticsInit /\ [][BuildPathSemantics]_semanticsVars

----------------------------------------------------------------------------
(* The components follow each other without gaps. *)
Continuous(p) ==
  LET components == Drawn(p.first, p.swaths, p.turns)
  IN  \A k \in 1 .. Len(components) - 1 :
         Last(components[k].points) = components[k + 1].points[1]

(* Of a path that was made of the components it comes with, every interval *)
(* that has a length gets the label of the component it was made of, or    *)
(* that bridges a gap; if there are no gaps also when nothing says whether *)
(* a swath or a turn comes first.  And who reads the document has the same *)
(* labels.                                                                 *)
LabelsAreOrigins ==
  (labelled.labels # <<>> /\ (Len(planned.swaths) # Len(planned.turns) \/ Continuous(planned))) =>
    LET made == Made(planned)
    IN  /\ \A i \in DOMAIN labelled.labels :
             made.points[i] # made.points[i + 1] => labelled.labels[i] = made.labels[i]
        /\ Parsed(labelled.document, Len(labelled.labels)) = labelled.labels
=============================================================================
