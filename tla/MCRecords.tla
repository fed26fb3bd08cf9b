----------------------------- MODULE MCRecords ------------------------------
(***************************************************************************)
(* What is kept of maps, routes and tasks, for TLC: the registry of map    *)
(* versions, the mapping sessions that make them (beside a console that    *)
(* starts mapping), the sessions of teach mapping, the files of task       *)
(* groups, and the undo history of the editor of maps and tasks.           *)
(* None of them sees more of another than whether a version may be used,   *)
(* so that one run checks them all: the first state chooses which of them  *)
(* moves.                                                                  *)
(***************************************************************************)
EXTENDS MapRegistry, MappingSession, TeachMapping, TaskGroups, EditHistory, TLC

CONSTANTS v1, v2, Moving

VARIABLE part

recordsVars == <<part, vars, allVars, teachMapVars, groupVars, historyVars>>

\* The second version was made from the first.
MCParent == [v \in Versions |-> IF v = v2 THEN v1 ELSE NoVersion]

\* The console starts a capture of its own.  What it would stop may also die.
MCConsoleRequests == {MappingFor(NoSession)}

(* Sessions, and the goals and processes that serve them, the terminals    *)
(* and maps of teach mapping and the ids of task groups are told apart by  *)
(* nothing.  The parts name theirs alike: so there are few permutations.   *)
Interchangeable ==
  Permutations(Goals) \cup Permutations(Processes) \cup Permutations(Sessions)

ASSUME SharedValuesAssumption ==
  {Terminals, MapNames, Ids} \subseteq {Goals, Processes, Sessions}

RecordsInit ==
  /\ part \in Moving
  /\ Init /\ SessionInit /\ TeachMapInit /\ GroupsInit /\ HistoryInit
  /\ part # "teach" => bootstrap = CHOOSE c \in Contents : TRUE
  /\ part # "history" => document = CHOOSE d \in Pictures \X Tasks : TRUE

RecordsNext ==
  /\ UNCHANGED part
  /\ \/ /\ part = "registry" /\ Next
        /\ UNCHANGED <<allVars, teachMapVars, groupVars, historyVars>>
     \/ /\ part = "sessions" /\ SessionNext
        /\ UNCHANGED <<vars, teachMapVars, groupVars, historyVars>>
     \/ /\ part = "teach" /\ TeachMapNext
        /\ UNCHANGED <<vars, allVars, groupVars, historyVars>>
     \/ /\ part = "groups" /\ GroupsNext
        /\ UNCHANGED <<vars, allVars, teachMapVars, historyVars>>
     \/ /\ part = "history" /\ HistoryNext
        /\ UNCHANGED <<vars, allVars, teachMapVars, groupVars>>

(* Nothing is claimed of the candidates of teach mapping once a build was  *)
(* killed or a program outlived its signals, nor of undo once it went      *)
(* astray or a stroke was not kept; and two mode goals meet only where an  *)
(* operation gave one up.                                                  *)
Claimed == ~killed /\ ~outlived /\ ~astray /\ ~unkept /\ (overlapped => givenUp)

RecordsSpec == RecordsInit /\ [][RecordsNext]_recordsVars
=============================================================================
