------------------------- MODULE MCCoverageProducts -------------------------
(***************************************************************************)
(* What is planned before anything moves, for TLC: the products of a       *)
(* coverage task, the labels of a planned path, the previews of a path     *)
(* through several points, the comparison of several plans, the estimate   *)
(* of a path's time and the validation of its geometry.  They share        *)
(* nothing; the first state chooses which of them moves.                   *)
(***************************************************************************)
EXTENDS CoverageProducts, PathPreview, PathSemantics, VariantComparison, TimeSimulation,
        PathValidation

CONSTANT Moving

VARIABLE part

plansVars == <<part, vars, previewVars, semanticsVars, variantVars, simulationVars,
               validationVars>>

\* Two editions of the variants that differ, and one that is refused.
MCVariantsOf == [i \in Inputs |->
  CASE i = "i1" -> <<1, 2>> [] i = "i2" -> <<2, 1, 3>> [] OTHER -> <<1, 1>>]

\* A long segment, a short and bent one, one backwards, and a turn on the spot.
Segment(d, r, t, c) == [distance |-> d, reverse |-> r, turn |-> t, curve |-> c]
MCSegments ==
  {Segment(3, FALSE, 0, 9), Segment(1, FALSE, 1, 2), Segment(3, TRUE, 0, 9),
   Segment(0, FALSE, 1, 9)}

\* Poses within and across cells, and costmaps with at most one cell that is not
\* free.
MCPlaces == {<<12, 10>>, <<48, 10>>, <<30, 30>>, <<11, 25>>}
OneCell(kind) == {[c \in Cells |-> IF c = d THEN kind ELSE "free"] : d \in Cells}
MCGrids == {[c \in Cells |-> "free"]} \cup OneCell("occupied") \cup OneCell("unknown")

NoRequest == [path |-> <<>>]

PlansInit ==
  /\ part \in Moving
  /\ Init /\ PreviewInit /\ VariantsInit /\ SimulationInit
  /\ IF part = "semantics" THEN SemanticsInit
     ELSE planned = <<>> /\ labelled = [labels |-> <<>>, document |-> <<>>]
  /\ IF part = "validation" THEN ValidationInit
     ELSE request = NoRequest /\ result = NoResult

Coverage(A) ==
  /\ part = "coverage" /\ A
  /\ UNCHANGED <<part, previewVars, semanticsVars, variantVars, simulationVars,
                 validationVars>>
Preview(A) ==
  /\ part = "preview" /\ A
  /\ UNCHANGED <<part, vars, semanticsVars, variantVars, simulationVars, validationVars>>
Semantics(A) ==
  /\ part = "semantics" /\ A
  /\ UNCHANGED <<part, vars, previewVars, variantVars, simulationVars, validationVars>>
Variants(A) ==
  /\ part = "variants" /\ A
  /\ UNCHANGED <<part, vars, previewVars, semanticsVars, simulationVars, validationVars>>
Simulation(A) ==
  /\ part = "simulation" /\ A
  /\ UNCHANGED <<part, vars, previewVars, semanticsVars, variantVars, validationVars>>
Validation(A) ==
  /\ part = "validation" /\ A
  /\ UNCHANGED <<part, vars, previewVars, semanticsVars, variantVars, simulationVars>>

PlansSpec ==
  PlansInit /\ [][\/ Coverage(Next) \/ Preview(PreviewNext)
                  \/ Semantics(BuildPathSemantics) \/ Variants(VariantsNext)
                  \/ Simulation(SimulationNext) \/ Validation(ValidatePath)]_plansVars
=============================================================================
