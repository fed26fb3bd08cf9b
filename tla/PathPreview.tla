---------------------------- MODULE PathPreview -----------------------------
(***************************************************************************)
(* The preview of a path through several points (agt_navigation,           *)
(* waypoint_preview_planner.py).  A request is planned segment by segment  *)
(* by Nav2; the answers are callbacks of one thread, and each carries the  *)
(* generation and the index of the segment it was asked for.  A segment    *)
(* that takes too long fails the request: its planning goal is not         *)
(* canceled, so that its answers may come during the requests that follow. *)
(***************************************************************************)
EXTENDS Naturals, Sequences, FiniteSets

CONSTANTS Requests,  \* requests of the operator
          Sizes      \* how many points a request may have

(* One point is no path: such a request is refused (RefuseRequest). *)
ASSUME SizesAssumption == Sizes \subseteq Nat \ {0, 1}

VARIABLES busy,        \* _busy
          serving,     \* the request that _poses is from, and its points
          segment,     \* _segment_index
          joined,      \* _joined: the request and the index of each segment
          generation,  \* _segment_generation
          timer,       \* _segment_timer: the segment it is for, or Off
          answers,     \* answers of Nav2 that are still to come
          shown,       \* the path that was published last
          asked        \* the requests that were made

previewVars == <<busy, serving, segment, joined, generation, timer, answers, shown, asked>>

Armed(n, s) == [generation |-> n, segment |-> s]
Off == Armed(0, 0)
Nobody == [request |-> "none", points |-> 0]

PreviewInit ==
  /\ busy = FALSE /\ serving = Nobody
  /\ segment = 0 /\ joined = <<>>
  /\ generation = 0 /\ timer = Off
  /\ answers = {} /\ shown = <<>>
  /\ asked = {}

IsCurrent_OfSegment(s) == busy /\ s.segment = segment
IsCurrent(s) == busy /\ s.generation = generation /\ s.segment = segment

(* _fail, after which the generation is n. *)
FailAt(n) ==
  /\ generation' = n
  /\ timer' = Off
  /\ busy' = FALSE
  /\ shown' = <<>>
PreviewFails == FailAt(generation + 1)

(* _send_segment: the timer is armed before the goal is sent, and sending  *)
(* it may fail.  Others are the answers that are to come already.          *)
SendSegment(s, others, path) ==
  /\ segment' = s
  /\ \/ /\ generation' = generation + 1
        /\ timer' = Armed(generation', s)
        /\ answers' = others \cup {[generation |-> generation', segment |-> s,
                                    request |-> serving'.request, to |-> "goal"]}
        /\ busy' = TRUE
        /\ shown' = path
     \/ /\ FailAt(generation + 2)
        /\ answers' = others

----------------------------------------------------------------------------
(* _on_request *)
RejectRequest(r) ==
  /\ busy
  /\ asked' = asked \cup {r}
  /\ UNCHANGED <<busy, serving, segment, joined, generation, timer, answers, shown>>

(* Not in the frame of the map, too few points, or no planner. *)
RefuseRequest(r) ==
  /\ ~busy
  /\ asked' = asked \cup {r}
  /\ PreviewFails
  /\ UNCHANGED <<serving, segment, joined, answers>>

AcceptRequest(r) ==
  /\ ~busy
  /\ asked' = asked \cup {r}
  /\ \E n \in Sizes : serving' = [request |-> r, points |-> n]
  /\ joined' = <<>>
  /\ SendSegment(1, answers, <<>>)

OnRequest(r) ==
  /\ r \notin asked
  /\ RejectRequest(r) \/ RefuseRequest(r) \/ AcceptRequest(r)

----------------------------------------------------------------------------
(* _goal_response *)
GoalResponse(a) ==
  /\ a \in answers /\ a.to = "goal"
  /\ \/ /\ ~IsCurrent(a)
        /\ answers' = answers \ {a}
        /\ UNCHANGED <<busy, generation, timer, shown>>
     \/ /\ IsCurrent(a)
        /\ answers' = (answers \ {a}) \cup {[a EXCEPT !.to = "result"]}
        /\ UNCHANGED <<busy, generation, timer, shown>>
     \/ /\ IsCurrent(a)
        /\ answers' = answers \ {a}
        /\ PreviewFails
  /\ UNCHANGED <<serving, segment, joined, asked>>

(* _segment_result *)
DropResult(a) ==
  /\ ~IsCurrent(a)
  /\ answers' = answers \ {a}
  /\ UNCHANGED <<busy, serving, segment, joined, generation, timer, shown>>

SegmentFails(a) ==
  /\ IsCurrent(a)
  /\ answers' = answers \ {a}
  /\ PreviewFails
  /\ UNCHANGED <<serving, segment, joined>>

SegmentPlanned(a) ==
  /\ IsCurrent(a)
  /\ joined' = Append(joined, [request |-> a.request, segment |-> a.segment])
  /\ UNCHANGED serving
  /\ IF segment + 1 < serving.points
       THEN SendSegment(segment + 1, answers \ {a}, shown)
       ELSE /\ segment' = segment + 1
            /\ timer' = Off
            /\ shown' = joined'
            /\ busy' = FALSE
            /\ answers' = answers \ {a}
            /\ UNCHANGED generation

SegmentResult(a) ==
  /\ a \in answers /\ a.to = "result"
  /\ DropResult(a) \/ SegmentFails(a) \/ SegmentPlanned(a)
  /\ UNCHANGED asked

(* _segment_timed_out *)
SegmentTimesOut ==
  /\ timer # Off /\ IsCurrent(timer)
  /\ PreviewFails
  /\ UNCHANGED <<serving, segment, joined, answers, asked>>

PreviewNext ==
  \/ \E r \in Requests : OnRequest(r)
  \/ \E a \in answers : GoalResponse(a) \/ SegmentResult(a)
  \/ SegmentTimesOut

(* The timer runs whatever Nav2 does. *)
PreviewFairness == WF_previewVars(SegmentTimesOut)

PreviewSpec == PreviewInit /\ [][PreviewNext]_previewVars /\ PreviewFairness

----------------------------------------------------------------------------
(* A path that is shown is the one request served last, whole and in       *)
(* order: no late answer to an earlier request, or to a segment that was   *)
(* given up, is ever joined into it.                                       *)
PreviewIsOwn ==
  shown # <<>> =>
    shown = [i \in 1..(serving.points - 1) |->
               [request |-> serving.request, segment |-> i]]

=============================================================================
