---------------------------- MODULE TeachMapping -----------------------------
(***************************************************************************)
(* The teach-mapping workflow (agt_system_manager, teach_mapping.py): the  *)
(* commands that take a session from a bootstrap map over a taught route   *)
(* and a rescan to a candidate map.  Each command is a process: it loads   *)
(* the session file, works, for minutes or hours, on what it has loaded,   *)
(* and writes the file as a whole.  build-candidate starts three programs, *)
(* each in a group of its own, which outlive it when it is killed; the     *)
(* mapping program takes in whatever is played, by whomever.               *)
(*                                                                         *)
(* The bootstrap assets, the manifest of the route and the bags stand for  *)
(* their contents, that is their hashes.  What a candidate holds is the    *)
(* bag that was played into it, once and from its beginning, or "mixed".   *)
(***************************************************************************)
EXTENDS Naturals, FiniteSets

CONSTANTS Terminals,  \* the commands that may be under way together
          Contents,   \* contents of the bootstrap assets
          Bags,       \* bags of rescans
          MapNames    \* names of candidate maps

VARIABLES teachSession,  \* the session file, or NoFile
          bootstrap,     \* the bootstrap assets as they are now
          routeManifest, \* the manifest on disk: the assets it binds, or 0
          candidates,    \* what each candidate directory holds
          programs,      \* the programs that run
          doing,         \* of each command
          loaded,        \* the session each command has loaded
          killed,        \* history: a build was killed
          outlived       \* history: a program outlived SIGINT and SIGTERM

teachMapVars == <<teachSession, bootstrap, routeManifest, candidates, programs, doing, loaded,
                  killed, outlived>>
disk == <<bootstrap, routeManifest, candidates, programs>>

Stages == {"CREATED", "BOOTSTRAP_READY", "PATH_EXTRACTED", "RESCAN_RECORDED",
           "CANDIDATE_MAP_BUILDING", "CANDIDATE_MAP_READY"}
NoFile == [stage |-> "none"]
NoCandidate == [name |-> "none", holds |-> "nothing", ready |-> FALSE]
Created == [stage |-> "CREATED", last |-> "CREATED", boot |-> 0, route |-> 0,
            bag |-> "none", candidate |-> NoCandidate]

Mapping(t, n) == [does |-> "mapping", by |-> t, name |-> n, bag |-> "none"]
Player(t, b) == [does |-> "player", by |-> t, name |-> "none", bag |-> b]
Saver(t) == [does |-> "saver", by |-> t, name |-> "none", bag |-> "none"]
StartedBy(t) == {p \in programs : p.by = t}

TeachMapInit ==
  /\ teachSession = NoFile
  /\ bootstrap \in Contents
  /\ routeManifest = 0
  /\ candidates = [n \in MapNames |-> "absent"]
  /\ programs = {}
  /\ doing = [t \in Terminals |-> "idle"]
  /\ loaded = [t \in Terminals |-> NoFile]
  /\ killed = FALSE /\ outlived = FALSE

----------------------------------------------------------------------------
(* effective_stage, transition and mark_failed. *)
Effective(s) == IF s.stage = "FAILED" THEN s.last ELSE s.stage

NextStage ==
  [s \in Stages |->
     CASE s = "CREATED"                -> {"BOOTSTRAP_READY"}
       [] s = "BOOTSTRAP_READY"        -> {"PATH_EXTRACTED"}
       [] s = "PATH_EXTRACTED"         -> {"RESCAN_RECORDED"}
       [] s = "RESCAN_RECORDED"        -> {"CANDIDATE_MAP_BUILDING"}
       [] s = "CANDIDATE_MAP_BUILDING" -> {"CANDIDATE_MAP_READY"}
       [] OTHER                        -> {}]

Reach(s, stage) == [s EXCEPT !.stage = stage, !.last = stage]
MarkFailed(s) == [s EXCEPT !.stage = "FAILED"]

Leaves(t) ==
  /\ doing' = [doing EXCEPT ![t] = "idle"]
  /\ loaded' = [loaded EXCEPT ![t] = NoFile]
Moves(t, to) == doing' = [doing EXCEPT ![t] = to] /\ UNCHANGED loaded

(* validate_session_bindings: the assets are those of the session, and, if *)
(* there is to be a route, it is the one that was extracted from them.     *)
AssetsBound(s) == s.boot = bootstrap
RouteBound(s) == AssetsBound(s) /\ s.route = routeManifest /\ routeManifest = s.boot

(* The commands that write a success are started one after the other; a    *)
(* report may be asked for at any time.                                    *)
LoadSession(t, command) ==
  /\ doing[t] = "idle" /\ teachSession # NoFile
  /\ command # "report" =>
       \A u \in Terminals : doing[u] \in {"idle", "report"}
  /\ doing' = [doing EXCEPT ![t] = command]
  /\ loaded' = [loaded EXCEPT ![t] = teachSession]
  /\ UNCHANGED <<teachSession, disk, killed, outlived>>

----------------------------------------------------------------------------
(* init: the session is written before the assets are looked at. *)
InitSession(t) ==
  /\ \A u \in Terminals : doing[u] \in {"idle", "report"}
  /\ doing[t] = "idle"
  /\ teachSession' = Created
  /\ doing' = [doing EXCEPT ![t] = "init"]
  /\ loaded' = [loaded EXCEPT ![t] = Created]
  /\ UNCHANGED <<disk, killed, outlived>>

InitEnds(t) ==
  /\ doing[t] = "init"
  /\ teachSession' \in {[Reach(loaded[t], "BOOTSTRAP_READY") EXCEPT !.boot = bootstrap],
                   MarkFailed(loaded[t])}
  /\ Leaves(t)
  /\ UNCHANGED <<disk, killed, outlived>>

(* extract: the manifest is the last file of the route to be written.      *)
WriteRoute(t) ==
  /\ doing[t] = "extract"
  /\ Effective(loaded[t]) = "BOOTSTRAP_READY" /\ AssetsBound(loaded[t])
  /\ routeManifest' = bootstrap
  /\ Moves(t, "extracted")
  /\ UNCHANGED <<teachSession, bootstrap, candidates, programs, killed, outlived>>

ExtractEnds(t) ==
  /\ doing[t] = "extracted" /\ routeManifest = loaded[t].boot /\ AssetsBound(loaded[t])
  /\ teachSession' = [Reach(loaded[t], "PATH_EXTRACTED") EXCEPT !.route = routeManifest]
  /\ Leaves(t)
  /\ UNCHANGED <<disk, killed, outlived>>

ExtractFails(t) ==
  /\ doing[t] \in {"extract", "extracted"}
  /\ teachSession' = IF Effective(loaded[t]) = "BOOTSTRAP_READY"
                  THEN MarkFailed(loaded[t]) ELSE teachSession
  /\ Leaves(t)
  /\ UNCHANGED <<disk, killed, outlived>>

(* register-rescan; the topics of the bag are checked too.                 *)
RegisterRescan(t) ==
  /\ doing[t] = "register"
  /\ IF Effective(loaded[t]) # "PATH_EXTRACTED"
       THEN UNCHANGED teachSession
       ELSE \/ teachSession' = MarkFailed(loaded[t])
            \/ /\ RouteBound(loaded[t])
               /\ \E b \in Bags :
                    teachSession' = [Reach(loaded[t], "RESCAN_RECORDED") EXCEPT !.bag = b]
  /\ Leaves(t)
  /\ UNCHANGED <<disk, killed, outlived>>

----------------------------------------------------------------------------
(* build-candidate.  What it refuses at first leaves no trace.             *)
RefuseBuild(t) ==
  /\ doing[t] = "build"
  /\ Leaves(t)
  /\ UNCHANGED <<teachSession, disk, killed, outlived>>

(* The stage to come back to is the one before: last is set again.         *)
BeginBuild(t) ==
  /\ doing[t] = "build"
  /\ Effective(loaded[t]) = "RESCAN_RECORDED" /\ RouteBound(loaded[t])
  /\ \E n \in MapNames :
       /\ candidates[n] = "absent"
       /\ teachSession' = [Reach(loaded[t], "CANDIDATE_MAP_BUILDING") EXCEPT
                        !.last = "RESCAN_RECORDED",
                        !.candidate = [NoCandidate EXCEPT !.name = n]]
       /\ loaded' = [loaded EXCEPT ![t].candidate.name = n]
  /\ doing' = [doing EXCEPT ![t] = "mapping"]
  /\ UNCHANGED <<disk, killed, outlived>>

Name(t) == loaded[t].candidate.name
Building == {"mapping", "ready", "play", "save", "stop", "stopped", "cleanup"}
Plays == \E p \in programs : p.does = "player"

(* The mapping program joins whatever is being played.                     *)
StartMapping(t) ==
  /\ doing[t] = "mapping"
  /\ programs' = programs \cup {Mapping(t, Name(t))}
  /\ candidates' = [candidates EXCEPT ![Name(t)] = IF Plays THEN "mixed" ELSE "nothing"]
  /\ Moves(t, "ready")
  /\ UNCHANGED <<teachSession, bootstrap, routeManifest, killed, outlived>>

(* Its subscriptions are there; the bag goes to every mapping program.     *)
Play(t) ==
  /\ doing[t] = "ready" /\ Mapping(t, Name(t)) \in programs
  /\ programs' = programs \cup {Player(t, loaded[t].bag)}
  /\ candidates' =
       [n \in MapNames |->
          IF \E p \in programs : p.does = "mapping" /\ p.name = n
            THEN IF candidates[n] = "nothing" THEN loaded[t].bag ELSE "mixed"
            ELSE candidates[n]]
  /\ Moves(t, "play")
  /\ UNCHANGED <<teachSession, bootstrap, routeManifest, killed, outlived>>

(* A program that has ended with success is awaited no longer.             *)
Save(t) ==
  /\ doing[t] = "play" /\ Mapping(t, Name(t)) \in programs
  /\ programs' = (programs \ {Player(t, loaded[t].bag)}) \cup {Saver(t)}
  /\ Moves(t, "save")
  /\ UNCHANGED <<teachSession, bootstrap, routeManifest, candidates, killed, outlived>>

StopMapping(t) ==
  /\ doing[t] = "save"
  /\ programs' = programs \ StartedBy(t)
  /\ Moves(t, "stopped")
  /\ UNCHANGED <<teachSession, bootstrap, routeManifest, candidates, killed, outlived>>

(* validate_candidate_assets: what the programs left is the candidate.     *)
CandidateAssets(t) ==
  [name |-> Name(t), holds |-> candidates[Name(t)], ready |-> TRUE]

(* The assets are there and bound by their record; the session is loaded   *)
(* again.                                                                  *)
CandidateBuilt(t) ==
  /\ doing[t] = "stopped"
  /\ "CANDIDATE_MAP_READY" \in NextStage[Effective(teachSession)]
  /\ teachSession' = [Reach(teachSession, "CANDIDATE_MAP_READY") EXCEPT
                        !.candidate = CandidateAssets(t)]
  /\ Moves(t, "cleanup")
  /\ UNCHANGED <<disk, killed, outlived>>

(* Any failure, timeout or interrupt between the first write and the last. *)
RescanBuildFails(t) ==
  /\ doing[t] \in Building \ {"cleanup"}
  /\ teachSession' = MarkFailed(teachSession)
  /\ Moves(t, "cleanup")
  /\ UNCHANGED <<disk, killed, outlived>>

Cleanup_StopsMapping(t) ==
  /\ doing[t] = "cleanup"
  /\ programs' = {p \in programs : p.by = t => p.does = "player"}
  /\ Leaves(t)
  /\ UNCHANGED <<teachSession, bootstrap, routeManifest, candidates, killed, outlived>>

(* cleanup: every program that was started is signalled; one that outlives *)
(* both signals is reported, and left.                                     *)
Cleanup(t) ==
  /\ doing[t] = "cleanup"
  /\ \E left \in SUBSET StartedBy(t) :
       /\ programs' = programs \ (StartedBy(t) \ left)
       /\ outlived' = (outlived \/ left # {})
       /\ teachSession' = IF left = {} THEN teachSession ELSE MarkFailed(teachSession)
  /\ Leaves(t)
  /\ UNCHANGED <<bootstrap, routeManifest, candidates, killed>>

----------------------------------------------------------------------------
(* report: a session that is not ready for it, or no longer, is marked     *)
(* failed.                                                                 *)
StillCurrent(s) ==
  /\ Effective(s) = "CANDIDATE_MAP_READY" /\ s.candidate.ready
  /\ RouteBound(s)
  /\ candidates[s.candidate.name] = s.candidate.holds

CreateReport(t) ==
  /\ doing[t] = "report"
  /\ teachSession' \in {MarkFailed(loaded[t])} \cup
                  (IF StillCurrent(loaded[t]) THEN {teachSession} ELSE {})
  /\ Leaves(t)
  /\ UNCHANGED <<disk, killed, outlived>>

(* Programs end by themselves, the bootstrap assets are edited, and a      *)
(* command is killed (or interrupted where it does not expect it).         *)
ProgramEnds ==
  /\ \E p \in programs : programs' = programs \ {p}
  /\ UNCHANGED <<teachSession, bootstrap, routeManifest, candidates, doing, loaded, killed, outlived>>

EditBootstrap ==
  /\ bootstrap' \in Contents
  /\ UNCHANGED <<teachSession, routeManifest, candidates, programs, doing, loaded, killed, outlived>>

Kill(t) ==
  /\ doing[t] # "idle"
  /\ killed' = (killed \/ doing[t] \in Building)
  /\ Leaves(t)
  /\ UNCHANGED <<teachSession, disk, outlived>>

BuildStep(t) ==
  \/ RefuseBuild(t) \/ BeginBuild(t) \/ StartMapping(t) \/ Play(t) \/ Save(t)
  \/ StopMapping(t) \/ CandidateBuilt(t) \/ RescanBuildFails(t) \/ Cleanup(t)

TeachMapNext ==
  \/ \E t \in Terminals :
       \/ \E c \in {"extract", "register", "build", "report"} : LoadSession(t, c)
       \/ InitSession(t) \/ InitEnds(t)
       \/ WriteRoute(t) \/ ExtractEnds(t) \/ ExtractFails(t) \/ RegisterRescan(t)
       \/ BuildStep(t) \/ CreateReport(t) \/ Kill(t)
  \/ ProgramEnds \/ EditBootstrap

TeachMapSpec == TeachMapInit /\ [][TeachMapNext]_teachMapVars

----------------------------------------------------------------------------
(* Unless a build was killed or a program outlived its signals, a          *)
(* candidate that is ready holds the rescan that the session records, and  *)
(* nothing else: no build before it, failed or not, was still playing or   *)
(* mapping.                                                                *)
CandidateIsPure ==
  (teachSession # NoFile /\ ~killed /\ ~outlived) =>
    (teachSession.candidate.ready => teachSession.candidate.holds = teachSession.bag)

=============================================================================
