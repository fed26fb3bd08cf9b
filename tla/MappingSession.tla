--------------------------- MODULE MappingSession ---------------------------
(***************************************************************************)
(* The mapping session manager (agt_system_manager,                        *)
(* mapping_session_manager.py over mapping_session.py) with the system     *)
(* mode manager it drives.  A session is one capture: START has the        *)
(* mapping chain started for it, FINALIZE saves the grid, stops the chain  *)
(* and builds a static candidate, COMMIT registers the candidate as a map  *)
(* version and DISCARD moves the session to the trash.                     *)
(*                                                                         *)
(* An operation holds the manager's lock and writes the session's file as  *)
(* it goes: "op" is the operation under way, and "session" is what the     *)
(* files say, which is all that a crash of the manager leaves.  A mode     *)
(* goal outlives the operation that gave it up.                            *)
(***************************************************************************)
EXTENDS SystemModes

CONSTANTS Sessions, MapVersions, NoSession, NoMap, NoGoal,
          ConsoleRequests   \* what other clients ask of the mode manager

ASSUME NoGoalAssumption == NoGoal \notin Goals
ASSUME NoSessionAssumption == NoSession \notin Sessions
ASSUME ConsoleAssumption == \A r \in ConsoleRequests : Named(r) /\ r.args \notin Sessions

VARIABLES session,  \* session[s]: the persisted record of s
          grid,     \* grid[s]: what the candidate's map files hold
          assets,   \* the sessions whose capture has written PCD and bag
          version,  \* version[v]: how the map registry has version v
          op,       \* the operation under way
          givenUp   \* history: an operation gave up a mode goal, or crashed

sessionVars == <<session, grid, assets, version, op, givenUp>>
allVars == <<modeVars, sessionVars>>

Active == {"PREPARED", "STARTING", "MAPPING", "SAVING_GRID", "STOPPING_MAPPING",
           "WAITING_ASSETS", "BUILDING_STATIC_MAP", "CANDIDATE_BUILD_FAILED",
           "CANDIDATE_READY", "COMMITTING", "COMMIT_FAILED", "CAPTURE_FAILED"}
Capturing == {"STARTING", "MAPPING", "SAVING_GRID", "STOPPING_MAPPING", "WAITING_ASSETS"}

MappingFor(s) == [mode |-> "MAPPING", profile |-> "MAPPING", sensor |-> FALSE,
                  health |-> FALSE, args |-> s]
Idle == [mode |-> "IDLE", profile |-> "IDLE", sensor |-> FALSE, health |-> FALSE,
         args |-> NoSession]
NoOp == [at |-> "none", s |-> NoSession, goal |-> NoGoal, v |-> NoMap]

Fresh(state) ==
  [state |-> state, preview |-> FALSE, failed |-> NoMap, version |-> NoMap]

(* The manager of the sessions starts with no operation. *)
ManagerInit == op = NoOp

SessionInit ==
  /\ ModesInit /\ ManagerInit
  /\ session = [s \in Sessions |-> Fresh("absent")]
  /\ grid = [s \in Sessions |-> "none"]
  /\ assets = {}
  /\ version = [v \in MapVersions |-> "absent"]
  /\ givenUp = FALSE

StateOf(s) == session[s].state
To(s, state) == session' = [session EXCEPT ![s].state = state]
At(place) == op.at = place
Go2(place) == op' = [op EXCEPT !.at = place]
End == op' = NoOp

(* _change_mode: the goal is sent and its result awaited up to a timeout.  *)
Send(r, place) ==
  \E g \in Goals : Submit(g, r) /\ op' = [op EXCEPT !.at = place, !.goal = g]
Answer == IF pc[op.goal] = "done" THEN result[op.goal] ELSE "none"
GiveUp == givenUp' = (givenUp \/ Answer = "none")

----------------------------------------------------------------------------
(* START: refused while any session is unfinished. *)
Prepare(s) ==
  /\ At("none")
  /\ StateOf(s) = "absent"
  /\ \A t \in Sessions : StateOf(t) \notin Active
  /\ To(s, "PREPARED")
  /\ op' = [NoOp EXCEPT !.at = "prepared", !.s = s]
  /\ UNCHANGED <<grid, assets, version, givenUp, modeVars>>

MarkStarting ==
  /\ At("prepared")
  /\ To(op.s, "STARTING")
  /\ Go2("launch")
  /\ UNCHANGED <<grid, assets, version, givenUp, modeVars>>

Launch ==
  /\ At("launch")
  /\ Send(MappingFor(op.s), "starting")
  /\ UNCHANGED <<session, grid, assets, version, givenUp>>

Started ==
  /\ At("starting")
  /\ Answer = "success"
  /\ To(op.s, "MAPPING")
  /\ End
  /\ UNCHANGED <<grid, assets, version, givenUp, modeVars>>

(* A start that failed, or was not answered in time, is stopped again;     *)
(* how the stop ends is ignored.                                           *)
LaunchFails ==
  /\ At("starting")
  /\ Answer # "success"
  /\ GiveUp
  /\ Send(Idle, "undoing")
  /\ UNCHANGED <<session, grid, assets, version>>

Undone ==
  /\ At("undoing")
  /\ GiveUp
  /\ To(op.s, "START_FAILED")
  /\ End
  /\ UNCHANGED <<grid, assets, version, modeVars>>

----------------------------------------------------------------------------
(* FINALIZE_CAPTURE of a capture that runs: the grid is saved while its    *)
(* publisher lives.                                                        *)
Finalize(s) ==
  /\ At("none")
  /\ StateOf(s) = "MAPPING"
  /\ To(s, "SAVING_GRID")
  /\ op' = [NoOp EXCEPT !.at = "saving", !.s = s]
  /\ UNCHANGED <<grid, assets, version, givenUp, modeVars>>

GridSaved ==
  /\ At("saving")
  /\ Live("MAPPING") # {}
  /\ grid' = [grid EXCEPT ![op.s] = "online"]
  /\ To(op.s, "STOPPING_MAPPING")
  /\ Send(Idle, "stopping")
  /\ UNCHANGED <<assets, version, givenUp>>

BackToMapping ==
  /\ At("saving")
  /\ To(op.s, "MAPPING")
  /\ End
  /\ UNCHANGED <<assets, version, givenUp, modeVars>>

SaveFails == BackToMapping /\ UNCHANGED grid

(* The grid that was saved has no free or no occupied cell, or its files   *)
(* do not fit each other.                                                  *)
GridRejected == BackToMapping /\ grid' = [grid EXCEPT ![op.s] = "partial"]

CaptureStopped ==
  /\ At("stopping")
  /\ Answer = "success"
  /\ To(op.s, "WAITING_ASSETS")
  /\ Go2("assets")
  /\ UNCHANGED <<grid, assets, version, givenUp, modeVars>>

StopFails ==
  /\ At("stopping")
  /\ Answer # "success"
  /\ GiveUp
  /\ To(op.s, "CAPTURE_FAILED")
  /\ End
  /\ UNCHANGED <<grid, assets, version, modeVars>>

(* The saved grid is preserved as the preview that every build starts from.*)
AssetsReady ==
  /\ At("assets")
  /\ op.s \in assets
  /\ session' = [session EXCEPT ![op.s].state = "BUILDING_STATIC_MAP",
                                ![op.s].preview = TRUE]
  /\ Go2("build")
  /\ UNCHANGED <<grid, assets, version, givenUp, modeVars>>

(* Assets that do not appear in time fail the capture; a hash that does    *)
(* not match raises and leaves the session where it is.                    *)
AssetsFail ==
  /\ At("assets")
  /\ \/ To(op.s, "CAPTURE_FAILED")
     \/ op.s \in assets /\ UNCHANGED session
  /\ End
  /\ UNCHANGED <<grid, assets, version, givenUp, modeVars>>

(* FINALIZE_CAPTURE again, after a failed or interrupted build. *)
Retry(s) ==
  /\ At("none")
  /\ StateOf(s) \in {"BUILDING_STATIC_MAP", "CANDIDATE_BUILD_FAILED"}
  /\ session[s].preview
  /\ To(s, "BUILDING_STATIC_MAP")
  /\ op' = [NoOp EXCEPT !.at = "build", !.s = s]
  /\ UNCHANGED <<grid, assets, version, givenUp, modeVars>>

(* The generator runs over the bag and the preview, in a directory of its  *)
(* own; its report must be about just this request.                        *)
Build ==
  /\ At("build")
  /\ Go2("built")
  /\ UNCHANGED <<session, grid, assets, version, givenUp, modeVars>>

BuildFailed ==
  /\ To(op.s, "CANDIDATE_BUILD_FAILED")
  /\ End
  /\ UNCHANGED <<grid, assets, version, givenUp, modeVars>>

BuildFails == op.at \in {"build", "promote", "promoted"} /\ BuildFailed

(* Poses that do not match, evidence that was clipped, a margin that is too*)
(* small, or a count that differs from the raster's.                       *)
ReportRejected == At("built") /\ BuildFailed

(* _promote_static_candidate: the image and then the YAML are replaced. *)
PromoteImage ==
  /\ At("built")
  /\ grid' = [grid EXCEPT ![op.s] = "partial"]
  /\ Go2("promote")
  /\ UNCHANGED <<session, assets, version, givenUp, modeVars>>

PromoteYaml ==
  /\ At("promote")
  /\ grid' = [grid EXCEPT ![op.s] = "static"]
  /\ Go2("promoted")
  /\ UNCHANGED <<session, assets, version, givenUp, modeVars>>

CandidateReady_Early ==
  /\ op.at \in {"promote", "promoted"}
  /\ To(op.s, "CANDIDATE_READY")
  /\ End
  /\ UNCHANGED <<grid, assets, version, givenUp, modeVars>>

CandidateReady ==
  /\ At("promoted")
  /\ To(op.s, "CANDIDATE_READY")
  /\ End
  /\ UNCHANGED <<grid, assets, version, givenUp, modeVars>>

----------------------------------------------------------------------------
(* The candidate's editor saves; the workflow has it closed before COMMIT. *)
Edit(s) ==
  /\ StateOf(s) \in {"CANDIDATE_READY", "COMMIT_FAILED"}
  /\ \E edited \in {"static", "spoiled"} : grid' = [grid EXCEPT ![s] = edited]
  /\ UNCHANGED <<session, assets, version, op, givenUp, modeVars>>

(* The canvas and the protected edge are those of the build. *)
GeometryKept(s) == grid[s] = "static"

(* COMMIT: the edited candidate is checked again and imported. *)
Commit(s) ==
  /\ At("none")
  /\ StateOf(s) \in {"CANDIDATE_READY", "COMMIT_FAILED"}
  /\ \/ /\ ~GeometryKept(s)
        /\ To(s, "COMMIT_FAILED")
        /\ UNCHANGED op
     \/ /\ GeometryKept(s)
        /\ To(s, "COMMITTING")
        /\ op' = [NoOp EXCEPT !.at = "import", !.s = s]
  /\ UNCHANGED <<grid, assets, version, givenUp, modeVars>>

ImportVersion ==
  /\ At("import")
  /\ \E v \in MapVersions :
       /\ version[v] = "absent"
       /\ \E status \in {"ready", "invalid"} :
            version' = [version EXCEPT ![v] = status]
       /\ op' = [op EXCEPT !.at = "imported", !.v = v]
  /\ UNCHANGED <<session, grid, assets, givenUp, modeVars>>

(* An import that raised names no version; an invalid one, or one that     *)
(* could not be activated, is remembered for DISCARD.                      *)
CommitFails ==
  /\ op.at \in {"import", "imported"}
  /\ session' = [session EXCEPT ![op.s].state = "COMMIT_FAILED", ![op.s].failed = op.v]
  /\ End
  /\ UNCHANGED <<grid, assets, version, givenUp, modeVars>>

(* The tasks directory is made and the session written.  Both may raise,   *)
(* outside of the try: the session then stays COMMITTING.                  *)
Registered ==
  /\ At("imported")
  /\ version[op.v] = "ready"
  /\ \/ session' = [session EXCEPT ![op.s].state = "REGISTERED", ![op.s].version = op.v]
     \/ UNCHANGED session
  /\ End
  /\ UNCHANGED <<grid, assets, version, givenUp, modeVars>>

----------------------------------------------------------------------------
(* DISCARD: a capture that may run is stopped first. *)
DiscardCapture(s) ==
  /\ At("none")
  /\ StateOf(s) \in Capturing
  /\ \E g \in Goals : Submit(g, Idle)
       /\ op' = [NoOp EXCEPT !.at = "aborting", !.s = s, !.goal = g]
  /\ UNCHANGED <<session, grid, assets, version, givenUp>>

Aborted ==
  /\ At("aborting")
  /\ Answer = "success"
  /\ To(op.s, "ABORTED")
  /\ Go2("trash")
  /\ UNCHANGED <<grid, assets, version, givenUp, modeVars>>

AbortFails ==
  /\ At("aborting")
  /\ Answer # "success"
  /\ GiveUp
  /\ End
  /\ UNCHANGED <<session, grid, assets, version, modeVars>>

(* The version of the last failed commit is deleted, and the session's     *)
(* directory moved to the trash unless a commit is under way or was        *)
(* interrupted.                                                            *)
Trash(s) ==
  /\ version' = IF session[s].failed = NoMap THEN version
                ELSE [version EXCEPT ![session[s].failed] = "deleted"]
  /\ IF StateOf(s) = "COMMITTING"
       THEN UNCHANGED <<session, grid, assets>>
       ELSE /\ session' = [session EXCEPT ![s] = Fresh("DISCARDED")]
            /\ grid' = [grid EXCEPT ![s] = "none"]
            /\ assets' = assets \ {s}
  /\ End
  /\ UNCHANGED <<givenUp, modeVars>>

DiscardAborted == At("trash") /\ Trash(op.s)

Discard_Unstopped(s) ==
  /\ At("none")
  /\ StateOf(s) \notin {"absent", "DISCARDED"}
  /\ Trash(s)

Discard(s) ==
  /\ At("none")
  /\ StateOf(s) \notin Capturing \cup {"absent", "DISCARDED"}
  /\ Trash(s)

(* The manager crashes and restarts: only the files are left. *)
SupervisorCrash ==
  /\ ~At("none")
  /\ End
  /\ givenUp' = (givenUp \/ op.goal # NoGoal)
  /\ UNCHANGED <<session, grid, assets, version, modeVars>>

----------------------------------------------------------------------------
(* A capture that ends may have written its PCD and closed its bag. *)
Flushed ==
  {running[p].args : p \in {q \in Processes : Runs(q, "MAPPING") /\ running'[q] = None}}
    \cap Sessions

ModeManager ==
  /\ ModesStep
  /\ assets' \in {assets, assets \cup Flushed}
  /\ UNCHANGED <<session, grid, version, op, givenUp>>

Console ==
  /\ \E g \in Goals, r \in ConsoleRequests : g # op.goal /\ Submit(g, r)
  /\ UNCHANGED sessionVars

Operation ==
  \/ MarkStarting \/ Launch \/ Started \/ LaunchFails \/ Undone
  \/ GridSaved \/ SaveFails \/ GridRejected \/ CaptureStopped \/ StopFails
  \/ AssetsReady \/ AssetsFail \/ Build \/ BuildFails \/ ReportRejected
  \/ PromoteImage \/ PromoteYaml
  \/ CandidateReady \/ ImportVersion \/ CommitFails \/ Registered
  \/ Aborted \/ AbortFails \/ DiscardAborted \/ SupervisorCrash
  \/ \E s \in Sessions :
       \/ Prepare(s) \/ Finalize(s) \/ Retry(s) \/ Commit(s)
       \/ DiscardCapture(s) \/ Discard(s) \/ Edit(s)

SessionNext == Operation \/ ModeManager \/ Console

SessionSpec == SessionInit /\ [][SessionNext]_allVars

----------------------------------------------------------------------------
(* As long as mode goals come one at a time and none was given up, every   *)
(* capture that runs for a session is that of a session that says so: a    *)
(* session that is built, committed, failed or discarded has none left.    *)
CaptureHasSession ==
  ~overlapped /\ ~givenUp =>
    \A p \in Live("MAPPING") :
      running[p].args \in Sessions =>
        StateOf(running[p].args) \in Capturing \ {"WAITING_ASSETS"}

(* What may be committed is the whole candidate built from the preserved   *)
(* preview and then edited, never the online grid or a half promoted one,  *)
(* whatever failed or crashed on the way; and what is registered has the   *)
(* geometry of its build and a version that is ready.                      *)
CandidateIsBuilt ==
  \A s \in Sessions :
    /\ StateOf(s) \in {"CANDIDATE_READY", "COMMIT_FAILED"}
         => grid[s] \in {"static", "spoiled"} /\ s \in assets
    /\ StateOf(s) \in {"COMMITTING", "REGISTERED"} => grid[s] = "static" /\ s \in assets
    /\ StateOf(s) = "REGISTERED" => version[session[s].version] = "ready"

(* "The server allocates a fresh session root" for a capture: while a      *)
(* session is MAPPING, no capture of another session or client runs.       *)
(* mapping_session_action.md states it; start() does not look at the       *)
(* arguments of the mapping chain that it finds alive.                     *)
CaptureIsOwn ==
  \A s \in Sessions : StateOf(s) = "MAPPING" =>
    \A p \in Live("MAPPING") : running[p].args = s
=============================================================================
