---------------------------- MODULE MCOperations ----------------------------
(***************************************************************************)
(* What runs, and what is let through to the chassis, for TLC: the system  *)
(* mode manager, the operations console, the health node that calls the    *)
(* system ready for a task, and the safety controller, alone (`speeds')    *)
(* and with the guard behind it (`chain').  The console sees of the        *)
(* manager only the mode (the variable chain), the health node sees the    *)
(* mode, the map and the nodes change at any time, and the safety          *)
(* controller sees none of them, so that one run checks them all: the      *)
(* first state chooses which of them moves.                                *)
(***************************************************************************)
EXTENDS SystemModes, OperationsConsole, SystemHealth, MotionChain, TLC

CONSTANT Moving

VARIABLE part

operationsVars == <<part, modeVars, consoleVars, healthVars, allVars>>

Want(mode, profile, sensor, health) ==
  [mode |-> mode, profile |-> profile, sensor |-> sensor, health |-> health,
   args |-> "any"]

(* The requests of the web console and of the workflow tools; start_sensor  *)
(* is false where the sensor runs elsewhere.                                *)
MCRequests ==
  {Want("IDLE", "IDLE", FALSE, FALSE),
   Want("SENSOR_ONLY", "SENSOR_ONLY", FALSE, TRUE),
   Want("MAPPING", "MAPPING", FALSE, FALSE),
   Want("NAVIGATION", "NAVIGATION", TRUE, FALSE),
   Want("NAVIGATION", "NAVIGATION", FALSE, TRUE),
   Want("MAPPING", "MAPPING_FRONTEND", FALSE, FALSE)}

MCPageRequests == {q \in Asks : q.mode \in {"IDLE", "NAVIGATION"}}

\* The status of the localization is kept longer than that of the others.
MCTimeout == [t \in Topics |-> IF t = "localization" THEN 2 ELSE 1]

(* One unit of time is 50 ms.  Stops, commands over each limit and over    *)
(* the track limit, in both senses; and the one the chain is driven with.  *)
Command(l, t) == [linear |-> l, turn |-> t]
Slow == Command(1, 0)
MCCommands ==
  {Command(0, 0), Command(10, 4), Command(12, -5), Command(-9, 3), Command(2, -4), Slow}

OperationsInit ==
  /\ part \in Moving
  /\ ModesInit /\ ConsoleInit /\ HealthInit /\ ChainInit
  /\ part # "console" => chain = "IDLE"
  /\ part # "health" => watched = CHOOSE f \in Facts : TRUE

Manager(A) ==
  part = "modes" /\ A /\ UNCHANGED <<part, consoleVars, healthVars, allVars>>
Console(A) ==
  part = "console" /\ A /\ UNCHANGED <<part, modeVars, healthVars, allVars>>
Health(A) ==
  part = "health" /\ A /\ UNCHANGED <<part, modeVars, consoleVars, allVars>>
Speeds(A) ==
  part = "speeds" /\ A /\ UNCHANGED <<part, modeVars, consoleVars, healthVars, chainVars>>
Motion(A) ==
  /\ part = "chain" /\ A /\ {nav', manual'} \subseteq {Zero, Slow}
  /\ UNCHANGED <<part, modeVars, consoleVars, healthVars>>

OperationsSpec ==
  OperationsInit /\ [][\/ Manager(ModesNext) \/ Console(ConsoleNext)
                      \/ Health(HealthNext)
                      \/ Speeds(Next) \/ Motion(ChainNext)]_operationsVars

(* The children of the console are told apart by nothing, nor are its      *)
(* threads: sound for the passing run, which checks no liveness.           *)
Interchangeable == Permutations(Threads) \cup Permutations(Children)

(* Nothing is claimed of the children once the console left one behind or  *)
(* two requests crossed, nor of the modes once two goals were under way.   *)
Claimed == ~abandoned /\ ~crossed /\ ~overlapped

(* With the fairness of the health node. *)
WatchedSpec ==
  /\ OperationsSpec
  /\ WF_operationsVars(Health(HealthTick)) /\ WF_operationsVars(Health(HealthPass))
  /\ \A n \in Nodes : /\ WF_operationsVars(Health(NodeAnswers(n)))
                      /\ WF_operationsVars(Health(LifecycleDone(n)))
=============================================================================
