------------------------- MODULE VariantComparison -------------------------
(***************************************************************************)
(* The coverage variant comparator of agt_coverage_planning                *)
(* (scripts/coverage_variant_comparator.py with variant_comparison.py): it *)
(* has the coverage server plan one field once for every variant of a      *)
(* list, one after the other, and publishes a report that ranks them.      *)
(*                                                                         *)
(* The node runs its callbacks one at a time.  What it is working on is    *)
(* nowhere in the answers it gets: an answer is taken to be about the      *)
(* variant at the current index of the current list.                       *)
(*                                                                         *)
(* An edition of the inputs stands for the semantic map, the platform      *)
(* profile and the list of variants that a start finds on disk.  The       *)
(* figures of a candidate, and the order they put the candidates in, are   *)
(* left out; so is what other nodes set on the same coverage server.       *)
(***************************************************************************)
EXTENDS Naturals, Sequences

CONSTANTS
  Inputs,      \* the editions of the input files
  NoInputs,    \* nothing loaded
  VariantsOf,  \* the list of variants each edition holds
  AutoCompare  \* parameter auto_compare

\* load_variants refuses a list of fewer than two variants or with one twice.
Usable(list) ==
  Len(list) >= 2 /\ \A j, k \in DOMAIN list : list[j] = list[k] => j = k

ASSUME VariantsAssumption ==
  /\ NoInputs \notin Inputs /\ AutoCompare \in BOOLEAN
  /\ DOMAIN VariantsOf = Inputs
  /\ \A i \in Inputs : VariantsOf[i] \in Seq(Nat)

VARIABLES
  underWay, completed, \* the flags of the node
  autoTimer,           \* the timer of the automatic start is running
  loaded,          \* the edition each input was last loaded from
  index,           \* place in the list of the variant being planned
  candidates,      \* one entry for every variant tried
  paths,           \* the planned paths, and the variant each is shown as
  pending,           \* the calls not yet answered
  report,          \* the last report published
  status,          \* the last status published
  up               \* the node is running

variantVars == <<underWay, completed, autoTimer, loaded, index, candidates, paths, pending, report,
                 status, up>>

Field == {"task", "spec", "variants", "limits"}

NoComparison == [map |-> NoInputs, candidates |-> <<>>]

\* self.variants
List == VariantsOf[loaded["variants"]]

VariantsInit ==
  /\ underWay = FALSE /\ completed = FALSE /\ up = TRUE
  /\ autoTimer = AutoCompare
  /\ loaded = [f \in Field |-> NoInputs]
  /\ index = 1 /\ candidates = <<>> /\ paths = <<>>
  /\ pending = {} /\ report = NoComparison /\ status = "IDLE"

-----------------------------------------------------------------------------
(* Starting. *)

\* The inputs are read in this order, and an error stops the reading.
ReadOrder == <<"task", "spec", "variants", "limits">>

LoadInputs(i, read) ==
  /\ loaded' = [f \in Field |->
       IF f \in {ReadOrder[k] : k \in 1..read} THEN i ELSE loaded[f]]
  /\ read > 2 => Usable(VariantsOf[i])

\* One comparison at a time.
Free_Ignored == TRUE
Free == ~underWay

ServerMissing ==
  /\ Free
  /\ status' = "WAITING_FOR_SERVER"
  /\ UNCHANGED <<underWay, completed, loaded, index, candidates, paths, pending>>

InputsInvalid ==
  /\ Free
  /\ \E i \in Inputs, read \in 0..3 : LoadInputs(i, read)
  /\ status' = "FAILED"
  /\ UNCHANGED <<underWay, completed, index, candidates, paths, pending>>

\* The server's parameters are set first, to the robot of the loaded profile.
Begin ==
  /\ Free
  /\ \E i \in Inputs :
       /\ LoadInputs(i, 4)
       /\ pending' = pending \cup {[kind |-> "parameters", variant |-> 0, spec |-> i]}
  /\ underWay' = TRUE /\ completed' = FALSE
  /\ candidates' = <<>> /\ paths' = <<>> /\ index' = 1
  /\ status' = "COMPARING"

\* The timer tries until a comparison was started by it.
AutoStart ==
  /\ up /\ autoTimer /\ ~completed /\ ~underWay
  /\ \/ (ServerMissing \/ InputsInvalid) /\ UNCHANGED autoTimer
     \/ Begin /\ autoTimer' = FALSE
  /\ UNCHANGED <<report, up>>

CompareService ==
  /\ up
  /\ ServerMissing \/ InputsInvalid \/ Begin
  /\ UNCHANGED <<autoTimer, report, up>>

-----------------------------------------------------------------------------
(* Answers. *)

Answered(c, kind) == up /\ c \in pending /\ c.kind = kind

\* The report is published before it is written; an error of the file system
\* ends the node.
Finish(tried) ==
  /\ report' = [map |-> loaded["task"], candidates |-> tried]
  /\ \E written \in BOOLEAN :
       /\ up' = written /\ underWay' = ~written
       /\ completed' = written
       /\ status' = IF written THEN "COMPLETED" ELSE status

\* _build_goal: the path of a variant is planned from the last request prepared.
Goal(variant) == [kind |-> "goal", variant |-> variant, spec |-> loaded["spec"]]

\* _send_next: the variant at place k is planned, or all were.
SendNext(c, k, tried) ==
  /\ index' = k /\ candidates' = tried
  /\ IF k > Len(List)
     THEN Finish(tried) /\ pending' = pending \ {c}
     ELSE /\ pending' = (pending \ {c}) \cup {Goal(List[k])}
          /\ status' = "COMPARING"
          /\ UNCHANGED <<underWay, completed, report, up>>

\* What was tried, as it is entered in the report: the variant it is listed as,
\* what was planned, and the editions that went into it.
Entry(c, outcome) ==
  [variant |-> List[index], planned |-> c.variant, outcome |-> outcome,
   made |-> {c.spec, loaded["task"], loaded["limits"]}]

\* What is drawn, and the label that is drawn with it.
Marker(c) == [variant |-> List[index], planned |-> c.variant]

Abort(c) ==
  /\ pending' = pending \ {c}
  /\ underWay' = FALSE /\ completed' = TRUE /\ status' = "FAILED"
  /\ UNCHANGED <<index, candidates, report, up>>

ServerAnswered(c) ==
  /\ Answered(c, "parameters")
  /\ Abort(c) \/ SendNext(c, index, candidates)
  /\ UNCHANGED <<autoTimer, loaded, paths>>

RecordFailure(c) == SendNext(c, index + 1, Append(candidates, Entry(c, "FAILED")))

GoalAnswered(c) ==
  /\ Answered(c, "goal")
  /\ \/ RecordFailure(c)
     \/ /\ pending' = (pending \ {c}) \cup {[c EXCEPT !.kind = "result"]}
        /\ UNCHANGED <<underWay, completed, index, candidates, report, status, up>>
  /\ UNCHANGED <<autoTimer, loaded, paths>>

\* A path without usable semantics is a candidate all the same; one whose areas
\* cannot be computed is not.
ResultAnswered(c) ==
  /\ Answered(c, "result")
  /\ \/ RecordFailure(c) /\ UNCHANGED paths
     \/ /\ \E outcome \in {"COMPLETE", "REJECTED"} :
             SendNext(c, index + 1, Append(candidates, Entry(c, outcome)))
        /\ paths' = Append(paths, Marker(c))
  /\ UNCHANGED <<autoTimer, loaded>>

VariantsNext ==
  \/ AutoStart \/ CompareService
  \/ \E c \in pending : ServerAnswered(c) \/ GoalAnswered(c) \/ ResultAnswered(c)

VariantsSpec == VariantsInit /\ [][VariantsNext]_variantVars

-----------------------------------------------------------------------------
(* Properties. *)

\* The entries are those of the first variants of the edition's list, each of what
\* was planned for it and made from that edition alone.
EntriesOf(i, entries) ==
  \A k \in DOMAIN entries :
    /\ k \in DOMAIN VariantsOf[i]
    /\ entries[k].variant = VariantsOf[i][k]
    /\ entries[k].planned = VariantsOf[i][k]
    /\ entries[k].made = {i}

\* A comparison can be asked for at any time, by the timer and by the service, and
\* its answers do not say which variant they are about.  What a report lists is
\* every variant of one edition, once and in order, with the path planned for that
\* variant of that edition; what is shown is shown under its own name
\* (_start_comparison, _goal_response, _result_done).
ComparedAsLoaded ==
  /\ underWay => EntriesOf(loaded["task"], candidates)
  /\ report # NoComparison =>
       /\ EntriesOf(report.map, report.candidates)
       /\ Len(report.candidates) = Len(VariantsOf[report.map])
  /\ \A k \in DOMAIN paths : paths[k].variant = paths[k].planned
=============================================================================
