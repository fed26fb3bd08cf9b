------------------------- MODULE MCCoverageExecution -------------------------
(***************************************************************************)
(* What becomes of a planned path, for TLC: the execution of a coverage    *)
(* path, the repair of it before it is executed, the route preview of the  *)
(* editor that shows it, and the execution of a taught path, with two runs *)
(* of the timer side by side and two goals in Nav2.  None of them sees     *)
(* another, so that one run checks them all: the first state chooses which *)
(* of them moves.                                                          *)
(***************************************************************************)
EXTENDS CoverageExecution, CoverageRepair, PreviewPanel, TeachExecution

CONSTANT Moving

VARIABLE part

coverageVars == <<part, vars, repairVars, panelVars, teachVars>>

(* Paths of two connections (0 is the swaths); costmaps that block both    *)
(* connections, the first and the way planned around it, or a swath.       *)
MCVerdicts == {[path |-> p, valid |-> bad = {}, bad |-> bad] :
                 p \in Paths, bad \in {{}, {1, 2}, {0}}}
MCCostmaps == {{}, {<<1, "source">>, <<2, "source">>},
               {<<1, "source">>, <<1, "new">>}, {<<0, "source">>}}

CoverageInit ==
  /\ part \in Moving
  /\ Init /\ RepairInit /\ PanelInit /\ TeachInit
  /\ part # "repair" => obstacles = {}

Executes(A) ==
  part = "execution" /\ A /\ UNCHANGED <<part, repairVars, panelVars, teachVars>>
Repairs(A) ==
  part = "repair" /\ A /\ UNCHANGED <<part, vars, panelVars, teachVars>>
Panel(A) ==
  part = "panel" /\ A /\ UNCHANGED <<part, vars, repairVars, teachVars>>
Teaches(A) ==
  part = "teach" /\ A /\ UNCHANGED <<part, vars, repairVars, panelVars>>

(* Of the taught path nothing is claimed once two runs of the timer have    *)
(* sent side by side.                                                      *)
Claimed == ~overlapped

(* The fairness of the executions and of the preview. *)
CoverageSpec ==
  /\ CoverageInit
  /\ [][\/ Executes(Next) \/ Repairs(RepairNext)
        \/ Panel(PanelNext) \/ Teaches(TeachStep)]_coverageVars
  /\ \A t \in Tasks :
       /\ WF_coverageVars(Executes(Execute(t)))
       /\ WF_coverageVars(Executes(NavAnswers(t)))
       /\ WF_coverageVars(Executes(AnswerArrives(t)))
       /\ WF_coverageVars(Executes(NavCancels(t)))
       /\ WF_coverageVars(Executes(NavStops(t)))
  /\ WF_coverageVars(Panel(Serve))
  /\ WF_coverageVars(Teaches(Alarm))
  /\ \A w \in Timers :
       /\ WF_coverageVars(Teaches(Timer(w)))
       /\ WF_coverageVars(Teaches(silent /\ Watch(w)))
  /\ WF_coverageVars(Teaches(~ready /\ Message(FALSE, FALSE)))
  /\ \A g \in Goals :
       /\ WF_coverageVars(Teaches(Callback(g)))
       /\ WF_coverageVars(Teaches(NavAccepts(g) \/ NavRefuses(g)))
       /\ WF_coverageVars(Teaches(goalOf[g].stop /\ PathEnds(g)))
=============================================================================
