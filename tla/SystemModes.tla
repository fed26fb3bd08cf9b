---------------------------- MODULE SystemModes ----------------------------
(***************************************************************************)
(* The system mode manager (agt_system_manager, system_mode_manager.py)    *)
(* over its process manager (process_manager.py).  A goal asks for a mode; *)
(* its thread stops the main chain that excludes the mode, keeps the       *)
(* sensor in a process of its own, starts the process of the profile, and  *)
(* may wait for health.  Goals run in the threads of one reentrant         *)
(* callback group and share the table of managed processes without a lock, *)
(* so that they interleave at every access of it and while they wait.      *)
(*                                                                         *)
(* A profile is named by the mode under which its process is managed:      *)
(* the profiles of the configuration have one mode each.                   *)
(***************************************************************************)
EXTENDS Naturals, FiniteSets

CONSTANTS Goals,      \* the goals that may be under way at the same time
          Requests,   \* what the clients ask for
          Processes,  \* the processes that may exist at the same time
          NoProcess

VARIABLES managed,    \* ProcessManager._managed: the process of each mode
          running,    \* running[p]: the profile and arguments p runs, or None
          pc,         \* pc[g]: the place of goal g in _execute
          request,    \* request[g]: the request of goal g
          todo,       \* todo[g]: the modes that g still has to stop
          job,        \* job[g]: the profile g starts, and the process it has
          result,     \* result[g]: what was reported of g
          overlapped  \* history: two goals were executed at the same time

modeVars == <<managed, running, pc, request, todo, job, result, overlapped>>

Main == {"MAPPING", "NAVIGATION"}
Modes == Main \cup {"SENSOR_ONLY", "MAPPING_FRONTEND"}
None == [profile |-> "none"]
NoJob == [profile |-> "none", process |-> NoProcess]
Places == {"idle", "accepted", "stopping", "waiting", "lookup", "spawn",
           "register", "health", "report", "done"}

(* What clients ask for has a configured profile: that of the mode itself,  *)
(* or a frontend.                                                          *)
Named(r) ==
  \/ r.mode = "IDLE" /\ r.profile = "IDLE"
  \/ /\ r.mode \in Modes /\ r.profile \in Modes
     /\ r.mode = "SENSOR_ONLY" \/ r.profile \in Main => r.mode = r.profile

ASSUME RequestsAssumption == \A r \in Requests : Named(r)
ASSUME NoProcessAssumption == NoProcess \notin Processes

Runs(p, k) == running[p] # None /\ running[p].profile = k
Live(k) == {p \in Processes : Runs(p, k)}
Busy(g) == pc[g] \notin {"idle", "done"}

ModesInit ==
  /\ managed = [k \in Modes |-> NoProcess]
  /\ running = [p \in Processes |-> None]
  /\ pc = [g \in Goals |-> "idle"]
  /\ request = [g \in Goals |-> None]
  /\ todo = [g \in Goals |-> {}]
  /\ job = [g \in Goals |-> NoJob]
  /\ result = [g \in Goals |-> "none"]
  /\ overlapped = FALSE

Go(g, place) == pc' = [pc EXCEPT ![g] = place]

----------------------------------------------------------------------------
(* A client sends a goal; its handle can be used again once it is done. *)
Submit(g, r) ==
  /\ ~Busy(g)
  /\ Go(g, "accepted")
  /\ request' = [request EXCEPT ![g] = r]
  /\ result' = [result EXCEPT ![g] = "none"]
  /\ overlapped' = (overlapped \/ \E h \in Goals : Busy(h))
  /\ UNCHANGED <<managed, running, todo, job>>

ToStop_SensorOnly(r) ==
  IF r.mode = "IDLE" THEN {k \in Modes : managed[k] # NoProcess}
  ELSE IF r.mode = "SENSOR_ONLY" THEN Main ELSE {}

(* IDLE stops every managed process; a main chain stops the other one and  *)
(* SENSOR_ONLY stops both; a frontend stops nothing.                       *)
ToStop(r) ==
  CASE r.mode = "IDLE"        -> {k \in Modes : managed[k] # NoProcess}
    [] r.mode = "SENSOR_ONLY" -> Main
    [] r.profile \in Main     -> Main \ {r.mode}
    [] OTHER                  -> {}

(* What is started first: the sensor, unless the request declines it. *)
FirstJob(r) ==
  IF r.profile \in Main /\ r.sensor THEN "SENSOR_ONLY" ELSE r.profile

BeginGoal(g) ==
  /\ pc[g] = "accepted"
  /\ todo' = [todo EXCEPT ![g] = ToStop(request[g])]
  /\ job' = [job EXCEPT ![g] = [profile |-> FirstJob(request[g]),
                                process |-> NoProcess]]
  /\ Go(g, "stopping")
  /\ UNCHANGED <<managed, running, request, result, overlapped>>

(* stop_mode: the entry is removed before the process has ended. *)
StopMode(g) ==
  /\ pc[g] = "stopping"
  /\ \E k \in todo[g] :
       /\ todo' = [todo EXCEPT ![g] = @ \ {k}]
       /\ managed' = [managed EXCEPT ![k] = NoProcess]
       /\ IF managed[k] = NoProcess
            THEN UNCHANGED <<pc, job>>
            ELSE /\ job' = [job EXCEPT ![g].process = managed[k]]
                 /\ Go(g, "waiting")
  /\ UNCHANGED <<running, request, result, overlapped>>

(* SIGINT, SIGTERM and SIGKILL in turn: the wait ends with the process. *)
Stopped(g) ==
  /\ pc[g] = "waiting"
  /\ running' = [running EXCEPT ![job[g].process] = None]
  /\ job' = [job EXCEPT ![g].process = NoProcess]
  /\ Go(g, "stopping")
  /\ UNCHANGED <<managed, request, todo, result, overlapped>>

(* Nothing is left to stop: IDLE is done, a start that did not become      *)
(* healthy has failed, any other request goes on.                          *)
AllStopped(g) ==
  /\ pc[g] = "stopping"
  /\ todo[g] = {}
  /\ \/ /\ request[g].mode = "IDLE"
        /\ result' = [result EXCEPT ![g] = "success"]
        /\ Go(g, "report")
     \/ /\ result[g] = "failure"
        /\ Go(g, "report")
        /\ UNCHANGED result
     \/ /\ request[g].mode # "IDLE"
        /\ result[g] # "failure"
        /\ Go(g, "lookup")
        /\ UNCHANGED result
  /\ UNCHANGED <<managed, running, request, todo, job, overlapped>>

(* start: a live process of the profile is taken as it is, whatever        *)
(* arguments it runs with.                                                 *)
Existing(k) == managed[k] # NoProcess /\ Runs(managed[k], k)

ContinueGoal(g) ==
  IF job[g].profile # request[g].profile
    THEN /\ job' = [job EXCEPT ![g] = [profile |-> request[g].profile,
                                       process |-> NoProcess]]
         /\ Go(g, "lookup")
         /\ UNCHANGED result
    ELSE /\ job' = [job EXCEPT ![g].process = NoProcess]
         /\ IF request[g].health
              THEN Go(g, "health") /\ UNCHANGED result
              ELSE Go(g, "report") /\ result' = [result EXCEPT ![g] = "success"]

LookUp_AlwaysSpawns(g) ==
  /\ pc[g] = "lookup"
  /\ Go(g, "spawn")
  /\ UNCHANGED <<managed, running, request, todo, job, result, overlapped>>

LookUp(g) ==
  /\ pc[g] = "lookup"
  /\ IF Existing(job[g].profile)
       THEN ContinueGoal(g)
       ELSE Go(g, "spawn") /\ UNCHANGED <<job, result>>
  /\ UNCHANGED <<managed, running, request, todo, overlapped>>

Spawn(g) ==
  /\ pc[g] = "spawn"
  /\ \E p \in Processes :
       /\ running[p] = None
       /\ \A k \in Modes : managed[k] # p
       /\ \A h \in Goals : job[h].process # p
       /\ running' = [running EXCEPT ![p] = [profile |-> job[g].profile,
                                             args |-> request[g].args]]
       /\ job' = [job EXCEPT ![g].process = p]
  /\ Go(g, "register")
  /\ UNCHANGED <<managed, request, todo, result, overlapped>>

(* An argument is rejected or the executable cannot be run; the main chain *)
(* that was stopped for it stays stopped.                                  *)
SpawnFails(g) ==
  /\ pc[g] = "spawn"
  /\ Go(g, "report")
  /\ result' = [result EXCEPT ![g] = "failure"]
  /\ UNCHANGED <<managed, running, request, todo, job, overlapped>>

RegisterProcess(g) ==
  /\ pc[g] = "register"
  /\ managed' = [managed EXCEPT ![job[g].profile] = job[g].process]
  /\ ContinueGoal(g)
  /\ UNCHANGED <<running, request, todo, overlapped>>

(* _wait_for_health ends with a fresh healthy snapshot, or by its timeout  *)
(* or a cancel; then the mode that was asked for is stopped again.         *)
Healthy(g) ==
  /\ pc[g] = "health"
  /\ Go(g, "report")
  /\ result' = [result EXCEPT ![g] = "success"]
  /\ UNCHANGED <<managed, running, request, todo, job, overlapped>>

Unhealthy(g) ==
  /\ pc[g] = "health"
  /\ Go(g, "stopping")
  /\ todo' = [todo EXCEPT ![g] = {request[g].mode}]
  /\ result' = [result EXCEPT ![g] = "failure"]
  /\ UNCHANGED <<managed, running, request, job, overlapped>>

(* The answer; what the thread held goes with it. *)
Report(g) ==
  /\ pc[g] = "report"
  /\ Go(g, "done")
  /\ request' = [request EXCEPT ![g] = None]
  /\ todo' = [todo EXCEPT ![g] = {}]
  /\ job' = [job EXCEPT ![g] = NoJob]
  /\ UNCHANGED <<managed, running, result, overlapped>>

(* A managed process ends by itself; its entry stays until it is looked up.*)
Dies(p) ==
  /\ running[p] # None
  /\ running' = [running EXCEPT ![p] = None]
  /\ UNCHANGED <<managed, pc, request, todo, job, result, overlapped>>

Execute(g) ==
  \/ BeginGoal(g) \/ StopMode(g) \/ Stopped(g) \/ AllStopped(g)
  \/ LookUp(g) \/ Spawn(g) \/ SpawnFails(g) \/ RegisterProcess(g)
  \/ Healthy(g) \/ Unhealthy(g) \/ Report(g)

ModesStep == (\E g \in Goals : Execute(g)) \/ (\E p \in Processes : Dies(p))

ModesNext == ModesStep \/ \E g \in Goals, r \in Requests : Submit(g, r)

ModesSpec == ModesInit /\ [][ModesNext]_modeVars

----------------------------------------------------------------------------
(* As long as goals come one at a time, no process is lost: each is in the *)
(* table, or held by the goal that starts or stops it.  (start and         *)
(* stop_mode use the table without a lock: with two goals at once a mode   *)
(* may be started twice, and the first process is then never stopped.)     *)
NoLostProcess ==
  ~overlapped =>
    \A p \in Processes : running[p] # None =>
      \/ managed[running[p].profile] = p
      \/ \E g \in Goals : job[g].process = p

(* As long as goals come one at a time, the mapping and the navigation     *)
(* chain never run side by side, whatever is asked for, whichever start    *)
(* fails or becomes unhealthy and whichever process dies.                  *)
ChainsExclusive == ~overlapped => Live("MAPPING") = {} \/ Live("NAVIGATION") = {}

(* docs/architecture/web_experiment_operations_console.md:22: the main     *)
(* mode is one of its values, and (32) a mapping or navigation transition  *)
(* stops the previous main chain: one process at most is a main chain.     *)
(* Each goal stops the other chain before it starts its own, but nothing   *)
(* keeps two goals apart.                                                  *)
OneMainChain == Cardinality(Live("MAPPING") \cup Live("NAVIGATION")) <= 1
=============================================================================
