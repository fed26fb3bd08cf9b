-------------------------- MODULE OperationsConsole --------------------------
(***************************************************************************)
(* The web operations console (agt_web_console, service.py over            *)
(* ros_bridge.py) and the experiment manager it owns                       *)
(* (agt_experiment_manager, manager.py).  Each request of a browser runs   *)
(* in a thread of the HTTP server.  It reads what the bridge last heard of *)
(* the system mode, or the manifest of an experiment, or the handle of the *)
(* recorder or of the replay, and acts on what it read; no lock is held    *)
(* between the two.                                                        *)
(*                                                                         *)
(* The handles of the child processes live in memory and are gone when the *)
(* console is killed; the children have sessions of their own and go on.   *)
(* The offline backend is modelled by what it refuses.                     *)
(***************************************************************************)
EXTENDS Naturals, FiniteSets

CONSTANTS Threads,      \* the requests that may be under way together
          Experiments,
          Children,     \* recorders and replays that may exist together
          PageRequests, \* what browsers ask for
          Managed,      \* the modes that may be managed when the console starts
          Others,       \* the modes other clients of the mode manager ask for
          NoChild, NoExperiment

ASSUME NoChildAssumption == NoChild \notin Children

VARIABLES chain,      \* the mode that is managed
          kept,       \* RosBridge._active_mode
          heard,      \* the mode of the last TaskReadiness, or "none"
          backend,    \* _backend_mode
          runs,       \* what each child process does, or NoWork
          recorder,   \* _bag_process
          replay,     \* _playback_process
          manifests,  \* the manifest of each experiment
          at, asked,  \* the place of each thread and its request
          held,       \* the manifest a thread has read
          child,      \* the process a thread waits for
          abandoned,  \* history: the console ended and left a child behind
          crossed     \* history: a child was started, or the offline backend taken,
                      \* while another request was about to act on the same handle

consoleVars == <<chain, kept, heard, backend, runs, recorder, replay, manifests,
                 at, asked, held, child, abandoned, crossed>>
bridge == <<chain, kept, heard, backend>>
children == <<runs, recorder, replay>>

ConsoleModes == {"IDLE", "SENSOR_ONLY", "MAPPING", "NAVIGATION"}
Closed == {"COMPLETED", "INVALID"}
Absent == [state |-> "none", bag |-> FALSE]
NoWork == [does |-> "nothing", for |-> NoExperiment]
NotAsked == [op |-> "none", exp |-> NoExperiment, mode |-> "IDLE"]

OnExperiment == {"create", "start", "start_bag", "stop_bag", "finalize", "invalid"}
Asks ==
  [op : OnExperiment, exp : Experiments, mode : {"IDLE"}]
    \cup [op : {"mode"}, exp : {NoExperiment}, mode : ConsoleModes]
    \cup [op : {"play", "stop_play", "backend"}, exp : {NoExperiment}, mode : {"IDLE"}]

Alive(p) == p # NoChild /\ runs[p] # NoWork
ThreadBusy(r) == at[r] # "idle"
Known == IF heard = "none" THEN kept ELSE heard

(* The bridge takes the mode for IDLE until it hears or changes it. *)
BridgeInit == kept = "IDLE" /\ heard = "none"

ConsoleInit ==
  /\ chain \in Managed /\ BridgeInit
  /\ backend = "ros"
  /\ runs = [p \in Children |-> NoWork]
  /\ recorder = NoChild /\ replay = NoChild
  /\ manifests = [e \in Experiments |-> Absent]
  /\ at = [r \in Threads |-> "idle"]
  /\ asked = [r \in Threads |-> NotAsked]
  /\ held = [r \in Threads |-> Absent]
  /\ child = [r \in Threads |-> NoChild]
  /\ abandoned = FALSE /\ crossed = FALSE

----------------------------------------------------------------------------
(* What threads do. *)
Goes(r, place) == at' = [at EXCEPT ![r] = place]
ThreadAt(r, place, ops) == at[r] = place /\ asked[r].op \in ops

(* The answer, or the exception that the client is shown. *)
AnswerClient(r) ==
  /\ Goes(r, "idle")
  /\ asked' = [asked EXCEPT ![r] = NotAsked]
  /\ held' = [held EXCEPT ![r] = Absent]
  /\ child' = [child EXCEPT ![r] = NoChild]

Read(r, e) == held' = [held EXCEPT ![r] = manifests[e]]
Write(e, m) == manifests' = [manifests EXCEPT ![e] = m]

(* Requests that have looked at a handle and are about to change it. *)
UsesReplay(r) ==
  \/ ThreadAt(r, "spawn", {"play"})
  \/ at[r] \in {"stop", "clear"} /\ asked[r].op = "stop_play"

UsesRecorder(r) ==
  \/ ThreadAt(r, "spawn", {"start_bag"})
  \/ at[r] \in {"stop", "clear"} /\ asked[r].op # "stop_play"

Arrive(r, q) ==
  /\ ~ThreadBusy(r)
  /\ Goes(r, "check")
  /\ asked' = [asked EXCEPT ![r] = q]
  /\ UNCHANGED <<bridge, children, manifests, held, child, abandoned, crossed>>

(* set_mode and stop_mode: a mode that runs is not started again, and      *)
(* neither main mode is started over the other; offline, the simulator     *)
(* takes the request.                                                      *)
ModeAllowed(m) ==
  CASE m = "IDLE"        -> TRUE
    [] m = "SENSOR_ONLY" -> Known # "SENSOR_ONLY"
    [] OTHER             -> Known \notin {"MAPPING", m}
                            /\ (m = "MAPPING" => Known # "NAVIGATION")

CheckMode(r) ==
  /\ ThreadAt(r, "check", {"mode"})
  /\ IF backend = "ros" /\ ModeAllowed(asked[r].mode)
       THEN Goes(r, "send") /\ UNCHANGED <<asked, held, child>>
       ELSE AnswerClient(r)
  /\ UNCHANGED <<bridge, children, manifests, abandoned, crossed>>

(* The system mode Action, or the mapping session Action, has succeeded. *)
ModeChanged(r) ==
  /\ ThreadAt(r, "send", {"mode"})
  /\ chain' = asked[r].mode /\ kept' = asked[r].mode
  /\ AnswerClient(r)
  /\ UNCHANGED <<heard, backend, children, manifests, abandoned, crossed>>

(* It has failed, or it is not awaited any longer: what the manager does   *)
(* then, it does like a request of another client.                         *)
ModeNotChanged(r) ==
  /\ ThreadAt(r, "send", {"mode"})
  /\ AnswerClient(r)
  /\ UNCHANGED <<bridge, children, manifests, abandoned, crossed>>

OthersChange ==
  /\ \E m \in Others : chain' = m
  /\ UNCHANGED <<kept, heard, backend, children, manifests, at, asked, held, child, abandoned, crossed>>

(* _readiness_callback: the health node knows the mode from the manager. *)
Readiness ==
  /\ heard' = chain /\ kept' = chain
  /\ UNCHANGED <<chain, backend, children, manifests, at, asked, held, child, abandoned, crossed>>

----------------------------------------------------------------------------
(* Replays. *)
CheckReplayMode(r) ==
  /\ ThreadAt(r, "check", {"play"})
  /\ IF backend = "ros" /\ Known # "NAVIGATION"
       THEN Goes(r, "handles") /\ UNCHANGED <<asked, held, child>>
       ELSE AnswerClient(r)
  /\ UNCHANGED <<bridge, children, manifests, abandoned, crossed>>

(* start_playback forgets a replay that has ended. *)
CheckReplayHandles_NotReplay(r) ==
  /\ ThreadAt(r, "handles", {"play"})
  /\ IF Alive(recorder)
       THEN AnswerClient(r)
       ELSE Goes(r, "spawn") /\ UNCHANGED <<asked, held, child>>
  /\ replay' = IF Alive(replay) THEN replay ELSE NoChild
  /\ UNCHANGED <<bridge, runs, recorder, manifests, abandoned, crossed>>

CheckReplayHandles(r) ==
  /\ ThreadAt(r, "handles", {"play"})
  /\ IF Alive(replay) \/ Alive(recorder)
       THEN AnswerClient(r)
       ELSE Goes(r, "spawn") /\ UNCHANGED <<asked, held, child>>
  /\ replay' = IF Alive(replay) THEN replay ELSE NoChild
  /\ UNCHANGED <<bridge, runs, recorder, manifests, abandoned, crossed>>

FreshChild(p) ==
  runs[p] = NoWork /\ p \notin {recorder, replay} \cup {child[s] : s \in Threads}

(* The bag may also be missing or incomplete: then nothing is started. *)
SpawnReplay(r) ==
  /\ ThreadAt(r, "spawn", {"play"})
  /\ \/ \E p \in Children :
          /\ FreshChild(p)
          /\ runs' = [runs EXCEPT ![p] = [does |-> "replay", for |-> NoExperiment]]
          /\ replay' = p
          /\ crossed' = (crossed \/ \E s \in Threads \ {r} : UsesReplay(s))
     \/ UNCHANGED <<runs, replay, crossed>>
  /\ AnswerClient(r)
  /\ UNCHANGED <<bridge, recorder, manifests, abandoned>>

(* stop_playback, and in the manager every operation that stops the        *)
(* recorder: a process that was never started needs no stop.               *)
CheckStopReplay(r) ==
  /\ ThreadAt(r, "check", {"stop_play"})
  /\ IF backend = "ros" /\ replay # NoChild
       THEN /\ Goes(r, "stop")
            /\ child' = [child EXCEPT ![r] = replay]
            /\ UNCHANGED <<asked, held>>
       ELSE AnswerClient(r)
  /\ UNCHANGED <<bridge, children, manifests, abandoned, crossed>>

----------------------------------------------------------------------------
(* Experiments. *)
Create(r) ==
  /\ ThreadAt(r, "check", {"create"})
  /\ IF manifests[asked[r].exp] = Absent
       THEN Write(asked[r].exp, [state |-> "CREATED", bag |-> FALSE])
       ELSE UNCHANGED manifests
  /\ AnswerClient(r)
  /\ UNCHANGED <<bridge, children, abandoned, crossed>>

(* stop_bag reads no manifest: it stops what is recorded, whichever        *)
(* experiment is named and whether there is one or not.                    *)
ReadManifest(r) ==
  /\ ThreadAt(r, "check", OnExperiment \ {"create"})
  /\ manifests[asked[r].exp] # Absent \/ asked[r].op = "stop_bag"
  /\ ~(backend = "offline" /\ asked[r].op \in {"start_bag", "stop_bag"})
  /\ Read(r, asked[r].exp)
  /\ Goes(r, "read")
  /\ UNCHANGED <<bridge, children, manifests, asked, child, abandoned, crossed>>

RefuseExperiment(r) ==
  /\ ThreadAt(r, "check", OnExperiment \ {"create"})
  /\ \/ manifests[asked[r].exp] = Absent /\ asked[r].op # "stop_bag"
     \/ backend = "offline" /\ asked[r].op \in {"start_bag", "stop_bag"}
  /\ AnswerClient(r)
  /\ UNCHANGED <<bridge, children, manifests, abandoned, crossed>>

Start(r) ==
  /\ ThreadAt(r, "read", {"start"})
  /\ IF held[r].state \in {"CREATED", "INTERRUPTED"}
       THEN Write(asked[r].exp, [held[r] EXCEPT !.state = "RUNNING"])
       ELSE UNCHANGED manifests
  /\ AnswerClient(r)
  /\ UNCHANGED <<bridge, children, abandoned, crossed>>

CheckRecorder(r) ==
  /\ ThreadAt(r, "read", {"start_bag"})
  /\ IF held[r].state = "RUNNING" /\ ~Alive(recorder)
       THEN Goes(r, "spawn") /\ UNCHANGED <<asked, held, child>>
       ELSE AnswerClient(r)
  /\ UNCHANGED <<bridge, children, manifests, abandoned, crossed>>

SpawnRecorder(r) ==
  /\ ThreadAt(r, "spawn", {"start_bag"})
  /\ \/ \E p \in Children :
          /\ FreshChild(p)
          /\ runs' = [runs EXCEPT ![p] = [does |-> "record", for |-> asked[r].exp]]
          /\ recorder' = p
          /\ crossed' = (crossed \/ \E s \in Threads \ {r} : UsesRecorder(s))
          /\ Goes(r, "write")
          /\ UNCHANGED <<asked, held, child>>
     \/ AnswerClient(r) /\ UNCHANGED <<runs, recorder, crossed>>
  /\ UNCHANGED <<bridge, replay, manifests, abandoned>>

(* What was read before the recorder was started is written back. *)
NoteBag(r) ==
  /\ ThreadAt(r, "write", {"start_bag"})
  /\ Write(asked[r].exp, [held[r] EXCEPT !.bag = TRUE])
  /\ AnswerClient(r)
  /\ UNCHANGED <<bridge, children, abandoned, crossed>>

(* finalize and invalid stop the recorder for a RUNNING experiment only,   *)
(* and finalize is refused for another.                                    *)
Stops(r) ==
  CASE asked[r].op = "stop_bag" -> TRUE
    [] OTHER                  -> held[r].state = "RUNNING"

StopRecorder(r) ==
  /\ ThreadAt(r, "read", {"stop_bag", "finalize", "invalid"})
  /\ \/ /\ asked[r].op = "finalize" /\ held[r].state # "RUNNING"
        /\ AnswerClient(r)
     \/ /\ asked[r].op = "finalize" => held[r].state = "RUNNING"
        /\ IF Stops(r) /\ recorder # NoChild
             THEN /\ Goes(r, "stop")
                  /\ child' = [child EXCEPT ![r] = recorder]
             ELSE Goes(r, "close") /\ UNCHANGED child
        /\ UNCHANGED <<asked, held>>
  /\ UNCHANGED <<bridge, children, manifests, abandoned, crossed>>

(* SIGINT, then SIGTERM; a process that outlives both raises, and its      *)
(* handle is kept.                                                         *)
ChildStopped(r) ==
  /\ at[r] = "stop"
  /\ runs' = [runs EXCEPT ![child[r]] = NoWork]
  /\ Goes(r, "clear")
  /\ UNCHANGED <<bridge, recorder, replay, manifests, asked, held, child, abandoned, crossed>>

ChildLives(r) ==
  /\ at[r] = "stop"
  /\ Alive(child[r])
  /\ AnswerClient(r)
  /\ UNCHANGED <<bridge, children, manifests, abandoned, crossed>>

(* The end of the recording is noted with the experiment before the handle *)
(* is cleared; for one that is not there, this raises.                     *)
Clear(r) ==
  /\ at[r] = "clear"
  /\ CASE asked[r].op = "stop_play" ->
            replay' = NoChild /\ UNCHANGED recorder /\ AnswerClient(r)
       [] asked[r].op # "stop_play" /\ manifests[asked[r].exp] = Absent ->
            UNCHANGED <<recorder, replay>> /\ AnswerClient(r)
       [] OTHER ->
            /\ recorder' = NoChild /\ UNCHANGED replay
            /\ Goes(r, "close") /\ UNCHANGED <<asked, held, child>>
  /\ UNCHANGED <<bridge, runs, manifests, abandoned, crossed>>

Close(r) ==
  /\ ThreadAt(r, "close", {"stop_bag", "finalize", "invalid"})
  /\ CASE asked[r].op = "stop_bag" -> UNCHANGED manifests
       [] asked[r].op = "finalize" ->
            \E s \in Closed : Write(asked[r].exp, [held[r] EXCEPT !.state = s])
       [] asked[r].op = "invalid" ->
            Write(asked[r].exp, [held[r] EXCEPT !.state = "INVALID"])
  /\ AnswerClient(r)
  /\ UNCHANGED <<bridge, children, abandoned, crossed>>

----------------------------------------------------------------------------
(* set_backend: refused while something is managed or played.  (This check *)
(* and the switch are under the lock, the other requests are not.)         *)
Starting(r) == at[r] \in {"handles", "spawn"} /\ asked[r].op = "play"

SwitchBackend(r) ==
  /\ ThreadAt(r, "check", {"backend"})
  /\ backend' = IF backend = "offline" THEN "ros"
                ELSE IF chain = "IDLE" /\ ~Alive(replay) THEN "offline" ELSE backend
  /\ crossed' = (crossed \/ (backend' = "offline" /\ \E s \in Threads : Starting(s)))
  /\ AnswerClient(r)
  /\ UNCHANGED <<chain, kept, heard, children, manifests, abandoned>>

(* A bag has been played to its end, or a recorder died. *)
Ends(p) ==
  /\ runs[p] # NoWork
  /\ runs' = [runs EXCEPT ![p] = NoWork]
  /\ UNCHANGED <<bridge, recorder, replay, manifests, at, asked, held, child, abandoned, crossed>>

(* The console is ended and started again: close stops the replay and the  *)
(* recorder it has handles of, and gives up a recorder that outlives its   *)
(* SIGINT; a console that is killed stops nothing.  Experiments are left   *)
(* as they are.                                                            *)
Stray(p) == Alive(p) /\ p \notin {recorder, replay}
Survivors == {{p \in Children : Stray(p)},
              {p \in Children : Alive(p) /\ p # replay},
              {p \in Children : Alive(p)}}

Restart ==
  /\ \E live \in Survivors :
       /\ runs' = [p \in Children |-> IF p \in live THEN runs[p] ELSE NoWork]
       /\ abandoned' = (abandoned \/ live # {})
  /\ recorder' = NoChild /\ replay' = NoChild
  /\ kept' = "IDLE" /\ heard' = "none" /\ backend' = "ros"
  /\ at' = [r \in Threads |-> "idle"]
  /\ asked' = [r \in Threads |-> NotAsked]
  /\ held' = [r \in Threads |-> Absent]
  /\ child' = [r \in Threads |-> NoChild]
  /\ UNCHANGED <<chain, manifests, crossed>>

Serve(r) ==
  \/ CheckMode(r) \/ ModeChanged(r) \/ ModeNotChanged(r)
  \/ CheckReplayMode(r) \/ CheckReplayHandles(r) \/ SpawnReplay(r) \/ CheckStopReplay(r)
  \/ Create(r) \/ ReadManifest(r) \/ RefuseExperiment(r) \/ Start(r)
  \/ CheckRecorder(r) \/ SpawnRecorder(r) \/ NoteBag(r)
  \/ StopRecorder(r) \/ ChildStopped(r) \/ ChildLives(r) \/ Clear(r) \/ Close(r)
  \/ SwitchBackend(r)

ConsoleNext ==
  \/ \E r \in Threads : Serve(r) \/ \E q \in PageRequests : Arrive(r, q)
  \/ OthersChange \/ Readiness \/ Restart
  \/ \E p \in Children : Ends(p)

ConsoleSpec == ConsoleInit /\ [][ConsoleNext]_consoleVars

----------------------------------------------------------------------------
(* As long as no child was left behind, a child that runs can be stopped:  *)
(* it is the recorder or the replay the manager has a handle of; and the   *)
(* offline backend, which can stop no replay, never has one.  Requests     *)
(* about the same handle may come together, children may end between the   *)
(* steps of a request, and stops may fail; but no child is started, and no *)
(* backend changed, between another request's look at the handle and its   *)
(* use of what it saw.                                                     *)
ChildrenAreHeld ==
  (~abandoned /\ ~crossed) =>
    /\ \A p \in Children : runs[p] # NoWork =>
         p = IF runs[p].does = "record" THEN recorder ELSE replay
    /\ backend = "offline" => ~Alive(replay)

(* docs/architecture/web_experiment_operations_console.md:97: a bag is not *)
(* played while the navigation chain runs.                                 *)
NoReplayInNavigation == Alive(replay) => chain # "NAVIGATION"

=============================================================================
