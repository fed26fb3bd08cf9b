--------------------------- MODULE MCLocalization ----------------------------
(***************************************************************************)
(* What makes the localization status and what waits for it, for TLC: the  *)
(* relocalization with its supervisor and its coordinator, and the gate of *)
(* the navigation stack.  The gate sees of the localization only whether a *)
(* status is good, and may see any sequence of them; so one run checks     *)
(* both: the first state chooses which of them moves.                      *)
(***************************************************************************)
EXTENDS Relocalization, NavigationGate

CONSTANT Moving

VARIABLE part

nodesVars == <<part, localizationVars, navigationVars>>

Locates(A) == part = "localization" /\ A /\ UNCHANGED <<part, navigationVars>>
Gates(A) == part = "gate" /\ A /\ UNCHANGED <<part, localizationVars>>

NodesInit ==
  /\ part \in Moving
  /\ LocalizationInit /\ GateInit
  /\ part # "localization" => mode = "MANUAL_ONLY"

(* The fairness of both specifications. *)
NodesSpec ==
  /\ NodesInit
  /\ [][Locates(LocalizationStep) \/ Gates(GateNext)]_nodesVars
  /\ WF_nodesVars(Locates(Worker)) /\ WF_nodesVars(Locates(Coordinator))
  /\ WF_nodesVars(Locates(Time))
  /\ \A c \in Clients : WF_nodesVars(Locates(HandleGoal(c)))
  /\ SF_nodesVars(Locates(StartValidation))
  /\ SF_nodesVars(Locates(run.kind = "validation" /\ Works))
  /\ WF_nodesVars(Gates(GraceElapses)) /\ WF_nodesVars(Gates(Tick(TRUE)))
  /\ WF_nodesVars(Gates(NavDoes \/ NavFails))
  /\ WF_nodesVars(Gates(CommandDone))
=============================================================================
