---------------------------- MODULE ModesProofs ----------------------------
(***************************************************************************)
(* Theorems about the mode manager, the mapping sessions and the operations *)
(* console.                                                                *)
(***************************************************************************)
EXTENDS MappingSession, OperationsConsole, TLAPS

-----------------------------------------------------------------------------
(* The mode manager, while goals come one at a time.                       *)

Kept == Processes \cup {NoProcess}
Jobs == [profile : Modes \cup {"none", "IDLE"}, process : Kept]

ModesTypeOK ==
  /\ managed \in [Modes -> Kept] /\ DOMAIN running = Processes
  /\ pc \in [Goals -> Places] /\ DOMAIN request = Goals
  /\ todo \in [Goals -> SUBSET Modes] /\ job \in [Goals -> Jobs]
  /\ DOMAIN result = Goals

\* What a request has stopped before it starts anything: for IDLE, all there is.
Stops2(r) == IF r.mode = "IDLE" THEN Modes ELSE ToStop(r)
InHand(g) == IF pc[g] = "waiting" THEN {job[g].process} ELSE {}
Cleared(g) == \A k \in Stops2(request[g]) \ todo[g] : Live(k) \subseteq InHand(g)

Holds(g) ==
  /\ job[g].process \in Processes /\ \A k \in Modes : managed[k] # job[g].process

Working(g) ==
  /\ Named(request[g]) /\ Cleared(g)
  /\ pc[g] = "waiting" => job[g].process \in Processes
  /\ pc[g] \in {"lookup", "spawn", "register", "health", "report"} => todo[g] = {}
  /\ pc[g] \in {"lookup", "spawn", "register", "health"} => request[g].mode # "IDLE"
  /\ job[g].profile \in {"SENSOR_ONLY", request[g].profile}
  /\ pc[g] = "spawn" => Live(job[g].profile) = {}
  /\ pc[g] = "register" =>
       /\ Holds(g) /\ Live(job[g].profile) \subseteq {job[g].process}
       /\ running[job[g].process] # None => Runs(job[g].process, job[g].profile)
  /\ request[g].mode = "IDLE" => result[g] = IF pc[g] = "report" THEN "success" ELSE "none"

GoalInv(g) ==
  /\ pc[g] \notin {"waiting", "register"} => job[g].process = NoProcess
  /\ pc[g] \in {"idle", "accepted", "done"} => job[g] = NoJob
  /\ pc[g] = "accepted" => Named(request[g]) /\ result[g] = "none"
  /\ pc[g] \notin {"idle", "accepted", "done"} => Working(g)

OneGoal == \A g, h \in Goals : Busy(g) /\ Busy(h) => g = h
NoneLost ==
  \A p \in Processes : running[p] # None =>
    /\ running[p].profile \in Modes
    /\ managed[running[p].profile] = p \/ \E g \in Goals : job[g].process = p
Entries == \A k \in Modes : \A p \in Processes : managed[k] = p /\ running[p] # None => Runs(p, k)
Exclusive == Live("MAPPING") = {} \/ Live("NAVIGATION") = {}

Single ==
  /\ ModesTypeOK /\ OneGoal /\ NoneLost /\ Entries /\ Exclusive
  /\ \A g \in Goals : GoalInv(g)

ModesInv == ~overlapped => Single

LEMMA NoJobIs == NoJob.process = NoProcess /\ NoJob \in Jobs /\ NoProcess \in Kept
BY DEF NoJob, Jobs, Kept

LEMMA RunsIs ==
  ASSUME NEW q \in Modes, NEW a
  PROVE  [profile |-> q, args |-> a] # None /\ [profile |-> q, args |-> a].profile = q
<1>1. q # "none"
  BY DEF Modes, Main
<1>2. [profile |-> q, args |-> a].profile = q /\ None.profile = "none"
  BY DEF None
<1>3. QED
  BY <1>1, <1>2

LEMMA PlaceOf ==
  ASSUME ModesTypeOK, NEW g \in Goals
  PROVE  /\ pc[g] \in Places /\ job[g] \in Jobs /\ todo[g] \subseteq Modes
         /\ job[g].process \in Kept
BY DEF ModesTypeOK, Jobs

\* The other goals are not under way.
LEMMA OtherGoals ==
  ASSUME Single, NEW g \in Goals, Busy(g),
         \A h \in Goals : h # g => pc'[h] = pc[h] /\ job'[h] = job[h], GoalInv(g)'
  PROVE  OneGoal' /\ \A h \in Goals : GoalInv(h)'
<1>1. ASSUME NEW h \in Goals, h # g
      PROVE  pc'[h] \in {"idle", "done"} /\ GoalInv(h)'
  <2>1. pc[h] \in {"idle", "done"}
    BY <1>1 DEF Single, OneGoal, Busy
  <2>2. job[h] = NoJob
    BY <2>1 DEF Single, GoalInv
  <2>3. pc'[h] \in {"idle", "done"} /\ job'[h] = NoJob /\ job'[h].process = NoProcess
    BY <1>1, <2>1, <2>2, NoJobIs
  <2>4. QED
    BY <2>3 DEF GoalInv
<1>2. OneGoal'
  BY <1>1 DEF OneGoal, Busy
<1>3. QED
  BY <1>1, <1>2

\* A process that lives is in the table or in the hand of the one goal under way.
LEMMA LiveOf ==
  ASSUME Single, NEW g \in Goals, Busy(g), NEW k \in Modes, NEW p \in Live(k)
  PROVE  /\ p \in Processes /\ running[p] # None /\ running[p].profile = k
         /\ managed[k] = p \/ job[g].process = p
<1>1. p \in Processes /\ running[p] # None /\ running[p].profile = k
  BY DEF Live, Runs
<1>2. managed[k] = p \/ \E h \in Goals : job[h].process = p
  BY <1>1 DEF Single, NoneLost
<1>3. ASSUME NEW h \in Goals, job[h].process = p PROVE h = g
  <2>1. SUFFICES ASSUME h # g PROVE FALSE
    OBVIOUS
  <2>2. pc[h] \in {"idle", "done"}
    BY <2>1 DEF Single, OneGoal, Busy
  <2>3. job[h].process = NoProcess
    BY <2>2 DEF Single, GoalInv
  <2>4. QED
    BY <1>1, <1>3, <2>3, NoProcessAssumption
<1>4. QED
  BY <1>1, <1>2, <1>3

LEMMA SameLive ==
  ASSUME running' = running
  PROVE  /\ \A k : Live(k)' = Live(k)
         /\ \A p, k : Runs(p, k)' = Runs(p, k)
         /\ Exclusive' = Exclusive
BY DEF Live, Runs, Exclusive

\* The place of one goal, when only its own state and the table may change.
LEMMA MoveOn ==
  ASSUME Single, NEW g \in Goals, Busy(g), running' = running, ModesTypeOK',
         \A h \in Goals : h # g => pc'[h] = pc[h] /\ job'[h] = job[h],
         GoalInv(g)',
         \A k \in Modes :
           \/ managed'[k] = managed[k]
           \/ managed'[k] = NoProcess /\ managed[k] \in {job'[g].process, NoProcess}
           \/ /\ managed'[k] = job[g].process /\ job[g].process \in Processes
              /\ Live(k) \subseteq {job[g].process}
              /\ running[job[g].process] # None => Runs(job[g].process, k),
         \/ job'[g].process = job[g].process \/ job[g].process = NoProcess
         \/ \E k \in Modes : /\ managed'[k] = job[g].process
                             /\ (running[job[g].process] # None => Runs(job[g].process, k))
  PROVE  Single'
<1>1. OneGoal' /\ \A h \in Goals : GoalInv(h)'
  BY OtherGoals
<1>2. Exclusive'
  BY SameLive DEF Single
<1>3. Entries'
  <2> SUFFICES ASSUME NEW k \in Modes, NEW p \in Processes, managed'[k] = p, running[p] # None
               PROVE  Runs(p, k)
    BY SameLive DEF Entries
  <2>1. CASE managed[k] = p
    BY <2>1 DEF Single, Entries
  <2>2. CASE managed[k] # p
    BY <2>2, NoProcessAssumption
  <2>3. QED
    BY <2>1, <2>2
<1>4. NoneLost'
  <2> SUFFICES ASSUME NEW p \in Processes, running[p] # None, NEW k, k = running[p].profile
               PROVE  k \in Modes /\ (managed'[k] = p \/ \E h \in Goals : job'[h].process = p)
    BY DEF NoneLost
  <2>1. k \in Modes /\ p \in Live(k)
    BY DEF Single, NoneLost, Live, Runs
  <2>2. managed[k] = p \/ job[g].process = p
    BY <2>1, LiveOf
  <2>3. CASE managed[k] = p
    <3>1. \/ managed'[k] = managed[k]
          \/ managed[k] \in {job'[g].process, NoProcess}
          \/ managed'[k] = job[g].process /\ Live(k) \subseteq {job[g].process}
      BY <2>1
    <3>2. managed'[k] = p \/ job'[g].process = p
      BY <2>1, <2>3, <3>1, NoProcessAssumption
    <3>3. QED
      BY <2>1, <3>2
  <2>4. CASE job[g].process = p
    <3>1. CASE \E j \in Modes : /\ managed'[j] = job[g].process
                                /\ (running[job[g].process] # None => Runs(job[g].process, j))
      BY <2>1, <2>4, <3>1 DEF Runs
    <3>2. CASE job'[g].process = job[g].process
      BY <2>1, <2>4, <3>2
    <3>3. QED
      BY <2>4, <3>1, <3>2, NoProcessAssumption
  <2>5. QED
    BY <2>1, <2>2, <2>3, <2>4
<1>5. QED
  BY <1>1, <1>2, <1>3, <1>4 DEF Single

\* Of a goal that goes on, what has to be shown anew.
LEMMA GoesTo ==
  ASSUME NEW g \in Goals, NEW place \in {"stopping", "lookup", "spawn", "health", "report"},
         pc'[g] = place, job'[g].process = NoProcess,
         Named(request[g]), request'[g] = request[g], Cleared(g)',
         place # "stopping" => todo'[g] = {},
         place \in {"lookup", "spawn", "health"} => request[g].mode # "IDLE",
         job'[g].profile \in {"SENSOR_ONLY", request[g].profile},
         place = "spawn" => Live(job[g].profile)' = {} /\ job'[g].profile = job[g].profile,
         request[g].mode = "IDLE" => result'[g] = IF place = "report" THEN "success" ELSE "none"
  PROVE  GoalInv(g)'
<1>1. Working(g)'
  BY DEF Working, Named, Live, Runs
<1>2. QED
  BY <1>1 DEF GoalInv

LEMMA StillCleared ==
  ASSUME NEW g \in Goals, Cleared(g), running' = running, request'[g] = request[g],
         todo[g] \subseteq todo'[g] \/ Stops2(request[g]) \cap todo[g] \subseteq todo'[g], pc[g] # "waiting"
  PROVE  Cleared(g)'
<1>1. \A k : Live(k)' = Live(k)
  BY SameLive
<1>2. Stops2(request[g])' = Stops2(request[g])
  BY DEF Stops2, ToStop
<1>3. QED
  BY <1>1 DEF Cleared, InHand, Stops2, ToStop

LEMMA ToStopOf ==
  ASSUME NEW r, Named(r)
  PROVE  /\ r.mode = "IDLE" => ToStop(r) = {j \in Modes : managed[j] # NoProcess}
         /\ r.mode \in Main /\ r.profile = r.mode => ToStop(r) = Main \ {r.mode}
<1>1. r.mode = "IDLE" => r.mode # "SENSOR_ONLY" /\ r.profile \notin Main
  BY DEF Named, Main
<1>2. r.mode \in Main => r.mode # "SENSOR_ONLY" /\ r.mode # "IDLE"
  BY DEF Main
<1>3. QED
  BY <1>1, <1>2 DEF ToStop

LEMMA BeginGoalKeeps == ASSUME Single, NEW g \in Goals, BeginGoal(g) PROVE Single'
<1>1. /\ pc[g] = "accepted" /\ UNCHANGED <<managed, running, request, result, overlapped>>
      /\ pc' = [pc EXCEPT ![g] = "stopping"] /\ todo' = [todo EXCEPT ![g] = ToStop(request[g])]
      /\ job' = [job EXCEPT ![g] = [profile |-> FirstJob(request[g]), process |-> NoProcess]]
  BY DEF BeginGoal, Go
<1>2. /\ ModesTypeOK /\ Busy(g) /\ Named(request[g]) /\ result[g] = "none" /\ job[g].process = NoProcess
  BY <1>1 DEF Single, GoalInv, Busy
<1>3. ModesTypeOK'
  <2>1. ToStop(request[g]) \subseteq Modes
    BY DEF ToStop, Modes, Main
  <2>2. FirstJob(request[g]) \in Modes \cup {"none", "IDLE"}
    BY <1>2 DEF FirstJob, Named, Modes, Main
  <2>3. [profile |-> FirstJob(request[g]), process |-> NoProcess] \in Jobs
    BY <2>2 DEF Jobs, Kept
  <2>4. QED
    BY <1>1, <1>2, <2>1, <2>3 DEF ModesTypeOK, Places
<1>4. pc'[g] = "stopping" /\ todo'[g] = ToStop(request[g]) /\ job'[g].process = NoProcess
  BY <1>1, <1>2 DEF ModesTypeOK
<1>5. Cleared(g)'
  <2> SUFFICES ASSUME NEW k \in Stops2(request[g]) \ ToStop(request[g]) PROVE Live(k) = {}
    BY <1>1, <1>4, SameLive DEF Cleared, InHand, Stops2, ToStop
  <2>1. request[g].mode = "IDLE" /\ k \in Modes /\ managed[k] = NoProcess
    <3>1. request[g].mode = "IDLE" /\ k \in Modes
      BY DEF Stops2
    <3>2. ToStop(request[g]) = {j \in Modes : managed[j] # NoProcess}
      BY <1>2, <3>1, ToStopOf
    <3>3. QED
      BY <3>1, <3>2
  <2>2. QED
    BY <1>2, <2>1, LiveOf, NoProcessAssumption
<1>6. GoalInv(g)'
  <2>1. job'[g].profile \in {"SENSOR_ONLY", request[g].profile}
    BY <1>1, <1>2 DEF ModesTypeOK, FirstJob
  <2>2. QED
    BY <1>1, <1>2, <1>4, <1>5, <2>1, GoesTo
<1>7. QED
  BY <1>1, <1>2, <1>3, <1>4, <1>6, MoveOn DEF ModesTypeOK

LEMMA StopModeKeeps == ASSUME Single, NEW g \in Goals, StopMode(g) PROVE Single'
<1>1. PICK k \in todo[g] :
        /\ pc[g] = "stopping" /\ UNCHANGED <<running, request, result, overlapped>>
        /\ todo' = [todo EXCEPT ![g] = @ \ {k}] /\ managed' = [managed EXCEPT ![k] = NoProcess]
        /\ IF managed[k] = NoProcess
             THEN UNCHANGED <<pc, job>>
             ELSE /\ job' = [job EXCEPT ![g].process = managed[k]]
                  /\ pc' = [pc EXCEPT ![g] = "waiting"]
  BY DEF StopMode, Go
<1>2. /\ ModesTypeOK /\ Busy(g) /\ Named(request[g]) /\ job[g].process = NoProcess
      /\ Cleared(g) /\ (request[g].mode = "IDLE" => result[g] = "none") /\ k \in Modes
      /\ job[g].profile \in {"SENSOR_ONLY", request[g].profile}
      /\ managed[k] \in Kept
  BY <1>1 DEF Single, GoalInv, Busy, Working, ModesTypeOK
<1>3. todo'[g] = todo[g] \ {k} /\ managed'[k] = NoProcess /\ \A j \in Modes : j # k => managed'[j] = managed[j]
  BY <1>1, <1>2 DEF ModesTypeOK
<1>4. CASE managed[k] = NoProcess
  <2>1. ModesTypeOK'
    BY <1>1, <1>2, <1>4 DEF ModesTypeOK, Kept
  <2>2. Live(k) = {}
    BY <1>2, <1>4, LiveOf, NoProcessAssumption
  <2>3. Cleared(g)'
    BY <1>1, <1>2, <1>3, <1>4, <2>2, SameLive DEF Cleared, InHand, Stops2, ToStop
  <2>4. GoalInv(g)'
    BY <1>1, <1>2, <1>4, <2>3, GoesTo
  <2>5. QED
    BY <1>1, <1>2, <1>3, <1>4, <2>1, <2>4, MoveOn
<1>5. CASE managed[k] # NoProcess
  <2>0. managed[k] \in Processes
    BY <1>2, <1>5 DEF Kept
  <2>1. /\ pc'[g] = "waiting" /\ job'[g].process = managed[k] /\ job'[g].profile = job[g].profile
        /\ \A h \in Goals : h # g => pc'[h] = pc[h] /\ job'[h] = job[h]
    BY <1>1, <1>2, <1>5 DEF ModesTypeOK, Jobs
  <2>2. ModesTypeOK'
    <3>1. job' \in [Goals -> Jobs]
      BY <1>1, <1>2, <1>5 DEF ModesTypeOK, Jobs
    <3>2. QED
      BY <1>1, <1>2, <1>5, <3>1 DEF ModesTypeOK, Kept, Places
  <2>3. Live(k) \subseteq {managed[k]}
    BY <1>2, LiveOf, NoProcessAssumption
  <2>4. Cleared(g)'
    <3>1. \A j \in Stops2(request[g]) \ todo'[g] : Live(j) \subseteq {managed[k]}
      BY <1>1, <1>2, <1>3, <2>3 DEF Cleared, InHand
    <3>2. QED
      BY <1>1, <2>1, <3>1, SameLive DEF Cleared, InHand, Stops2, ToStop
  <2>6. GoalInv(g)'
    <3>1. Working(g)'
      BY <1>1, <1>2, <2>0, <2>1, <2>4 DEF Working, Named
    <3>2. QED
      BY <2>1, <3>1 DEF GoalInv
  <2>7. QED
    BY <1>1, <1>2, <1>3, <2>1, <2>2, <2>6, MoveOn
<1>6. QED
  BY <1>4, <1>5

LEMMA Shrinks ==
  ASSUME managed' = managed, \A p \in Processes : running'[p] \in {running[p], None}
  PROVE  /\ \A k : Live(k)' \subseteq Live(k)
         /\ Exclusive => Exclusive'
         /\ Entries => Entries'
<1>1. ASSUME NEW p \in Processes, NEW k, Runs(p, k)' PROVE Runs(p, k) /\ running'[p] = running[p]
  BY <1>1 DEF Runs
<1>2. \A k : Live(k)' \subseteq Live(k)
  BY <1>1 DEF Live
<1>3. Exclusive => Exclusive'
  BY <1>2 DEF Exclusive
<1>4. Entries => Entries'
  BY <1>1 DEF Entries, Runs
<1>5. QED
  BY <1>2, <1>3, <1>4

LEMMA StoppedKeeps == ASSUME Single, NEW g \in Goals, Stopped(g) PROVE Single'
<1>1. /\ pc[g] = "waiting" /\ UNCHANGED <<managed, request, todo, result, overlapped>>
      /\ running' = [running EXCEPT ![job[g].process] = None]
      /\ job' = [job EXCEPT ![g].process = NoProcess] /\ pc' = [pc EXCEPT ![g] = "stopping"]
  BY DEF Stopped, Go
<1>2. /\ ModesTypeOK /\ Busy(g) /\ Named(request[g]) /\ job[g].process \in Processes
      /\ Cleared(g) /\ (request[g].mode = "IDLE" => result[g] = "none")
      /\ job[g].profile \in {"SENSOR_ONLY", request[g].profile}
  BY <1>1 DEF Single, GoalInv, Busy, Working
<1>3. /\ \A p \in Processes : running'[p] = IF p = job[g].process THEN None ELSE running[p]
      /\ DOMAIN running' = Processes
  BY <1>1, <1>2 DEF ModesTypeOK
<1>4. /\ pc'[g] = "stopping" /\ job'[g].process = NoProcess /\ job'[g].profile = job[g].profile
      /\ \A h \in Goals : h # g => pc'[h] = pc[h] /\ job'[h] = job[h]
  BY <1>1, <1>2 DEF ModesTypeOK, Jobs
<1>5. ModesTypeOK'
  <2>1. job' \in [Goals -> Jobs]
    BY <1>1, <1>2 DEF ModesTypeOK, Jobs, Kept
  <2>2. QED
    BY <1>1, <1>2, <1>3, <2>1 DEF ModesTypeOK, Places
<1>6. /\ \A k : Live(k)' \subseteq Live(k)
      /\ Exclusive' /\ Entries'
  BY <1>1, <1>3, Shrinks DEF Single
<1>7. Cleared(g)'
  <2>1. ASSUME NEW k \in Stops2(request[g]) \ todo[g] PROVE Live(k)' = {}
    <3>1. Live(k) \subseteq {job[g].process}
      BY <1>1, <1>2 DEF Cleared, InHand
    <3>2. job[g].process \notin Live(k)'
      BY <1>2, <1>3 DEF Live, Runs
    <3>3. QED
      BY <1>6, <3>1, <3>2
  <2>2. QED
    BY <1>1, <2>1 DEF Cleared, Stops2, ToStop
<1>8. GoalInv(g)'
  BY <1>1, <1>2, <1>4, <1>7, GoesTo
<1>9. OneGoal' /\ \A h \in Goals : GoalInv(h)'
  BY <1>2, <1>4, <1>8, OtherGoals
<1>10. NoneLost'
  <2> SUFFICES ASSUME NEW p \in Processes, running'[p] # None
               PROVE  /\ running'[p].profile \in Modes
                      /\ managed'[running'[p].profile] = p \/ \E h \in Goals : job'[h].process = p
    BY DEF NoneLost
  <2>1. p # job[g].process /\ running'[p] = running[p]
    BY <1>3
  <2>2. /\ running[p].profile \in Modes
        /\ managed[running[p].profile] = p \/ \E h \in Goals : job[h].process = p
    BY <2>1 DEF Single, NoneLost
  <2>3. \A h \in Goals : job[h].process = p => job'[h].process = p
    BY <1>4, <2>1
  <2>4. QED
    BY <1>1, <2>1, <2>2, <2>3
<1>11. QED
  BY <1>5, <1>6, <1>9, <1>10 DEF Single

LEMMA AllStoppedKeeps == ASSUME Single, NEW g \in Goals, AllStopped(g) PROVE Single'
<1>1. /\ pc[g] = "stopping" /\ todo[g] = {}
      /\ UNCHANGED <<managed, running, request, todo, job, overlapped>>
  BY DEF AllStopped
<1>2. /\ ModesTypeOK /\ Busy(g) /\ Named(request[g]) /\ job[g].process = NoProcess
      /\ Cleared(g) /\ (request[g].mode = "IDLE" => result[g] = "none")
      /\ job[g].profile \in {"SENSOR_ONLY", request[g].profile}
  BY <1>1 DEF Single, GoalInv, Busy, Working
<1>3. PICK place \in {"report", "lookup"} :
        /\ pc' = [pc EXCEPT ![g] = place]
        /\ \/ /\ request[g].mode = "IDLE" /\ place = "report"
              /\ result' = [result EXCEPT ![g] = "success"]
           \/ result[g] = "failure" /\ place = "report" /\ result' = result
           \/ request[g].mode # "IDLE" /\ result' = result
  BY DEF AllStopped, Go
<1>4. pc'[g] = place /\ \A h \in Goals : h # g => pc'[h] = pc[h]
  BY <1>2, <1>3 DEF ModesTypeOK
<1>5. Cleared(g)'
  BY <1>1, <1>2, StillCleared
<1>6. /\ request[g].mode = "IDLE" => result'[g] = "success" /\ place = "report"
      /\ DOMAIN result' = Goals
  BY <1>2, <1>3 DEF ModesTypeOK
<1>7. GoalInv(g)'
  BY <1>1, <1>2, <1>4, <1>5, <1>6, GoesTo
<1>8. ModesTypeOK'
  BY <1>1, <1>2, <1>3, <1>6 DEF ModesTypeOK, Places
<1>9. QED
  BY <1>1, <1>2, <1>4, <1>7, <1>8, MoveOn

\* A goal whose process runs goes on to the next, or to its end.
LEMMA ContinueKeeps ==
  ASSUME Single, NEW g \in Goals, pc[g] \in {"lookup", "register"}, ContinueGoal(g),
         managed' \in [Modes -> Kept], UNCHANGED <<running, request, todo, overlapped>>
  PROVE  /\ ModesTypeOK' /\ GoalInv(g)'
         /\ \A h \in Goals : h # g => pc'[h] = pc[h] /\ job'[h] = job[h]
<1>1. /\ ModesTypeOK /\ Busy(g) /\ Working(g) /\ Named(request[g]) /\ Cleared(g) /\ todo[g] = {}
      /\ request[g].mode # "IDLE" /\ request[g].profile \in Modes
  BY DEF Single, GoalInv, Busy, Working, Named
<1>2. Cleared(g)'
  BY <1>1, StillCleared
<1>3. CASE job[g].profile # request[g].profile
  <2>1. /\ job' = [job EXCEPT ![g] = [profile |-> request[g].profile, process |-> NoProcess]]
        /\ pc' = [pc EXCEPT ![g] = "lookup"] /\ result' = result
    BY <1>3 DEF ContinueGoal, Go
  <2>2. /\ pc'[g] = "lookup" /\ job'[g] = [profile |-> request[g].profile, process |-> NoProcess]
        /\ \A h \in Goals : h # g => pc'[h] = pc[h] /\ job'[h] = job[h]
    BY <1>1, <2>1 DEF ModesTypeOK
  <2>3. ModesTypeOK'
    <3>1. [profile |-> request[g].profile, process |-> NoProcess] \in Jobs
      BY <1>1 DEF Jobs, Kept
    <3>2. QED
      BY <1>1, <2>1, <3>1 DEF ModesTypeOK, Places
  <2>4. GoalInv(g)'
    BY <1>1, <1>2, <2>2, GoesTo
  <2>5. QED
    BY <2>2, <2>3, <2>4
<1>4. CASE job[g].profile = request[g].profile
  <2>1. PICK place \in {"health", "report"} :
          /\ job' = [job EXCEPT ![g].process = NoProcess] /\ pc' = [pc EXCEPT ![g] = place]
          /\ result' = result \/ result' = [result EXCEPT ![g] = "success"]
    BY <1>4 DEF ContinueGoal, Go
  <2>2. /\ pc'[g] = place /\ job'[g].process = NoProcess /\ job'[g].profile = job[g].profile
        /\ \A h \in Goals : h # g => pc'[h] = pc[h] /\ job'[h] = job[h]
    BY <1>1, <2>1 DEF ModesTypeOK, Jobs
  <2>3. ModesTypeOK'
    <3>1. job' \in [Goals -> Jobs]
      BY <1>1, <2>1 DEF ModesTypeOK, Jobs, Kept
    <3>2. DOMAIN result' = Goals
      BY <1>1, <2>1 DEF ModesTypeOK
    <3>3. QED
      BY <1>1, <2>1, <3>1, <3>2 DEF ModesTypeOK, Places
  <2>4. GoalInv(g)'
    BY <1>1, <1>2, <1>4, <2>2, GoesTo
  <2>5. QED
    BY <2>2, <2>3, <2>4
<1>5. QED
  BY <1>3, <1>4

LEMMA LookUpKeeps == ASSUME Single, NEW g \in Goals, LookUp(g) PROVE Single'
<1>1. pc[g] = "lookup" /\ UNCHANGED <<managed, running, request, todo, overlapped>>
  BY DEF LookUp
<1>2. /\ ModesTypeOK /\ Busy(g) /\ Named(request[g]) /\ job[g].process = NoProcess
      /\ Cleared(g) /\ todo[g] = {} /\ request[g].mode # "IDLE"
      /\ job[g].profile \in {"SENSOR_ONLY", request[g].profile}
  BY <1>1 DEF Single, GoalInv, Busy, Working
<1>3. CASE Existing(job[g].profile)
  <2>1. ContinueGoal(g) /\ managed' \in [Modes -> Kept]
    BY <1>1, <1>2, <1>3 DEF LookUp, ModesTypeOK
  <2>2. QED
    BY <1>1, <1>2, <2>1, ContinueKeeps, MoveOn
<1>4. CASE ~Existing(job[g].profile)
  <2>1. pc' = [pc EXCEPT ![g] = "spawn"] /\ UNCHANGED <<job, result>>
    BY <1>4 DEF LookUp, Go
  <2>2. pc'[g] = "spawn" /\ \A h \in Goals : h # g => pc'[h] = pc[h]
    BY <1>2, <2>1 DEF ModesTypeOK
  <2>3. Live(job[g].profile) = {}
    <3>1. job[g].profile \in Modes
      BY <1>2 DEF Named, Modes
    <3>2. ASSUME NEW p \in Live(job[g].profile) PROVE FALSE
      <4>1. p \in Processes /\ managed[job[g].profile] = p
        BY <1>2, <3>1, <3>2, LiveOf, NoProcessAssumption
      <4>2. Runs(p, job[g].profile)
        BY <3>2 DEF Live
      <4>3. QED
        BY <1>4, <4>1, <4>2, NoProcessAssumption DEF Existing
    <3>3. QED
      BY <3>2
  <2>4. ModesTypeOK'
    BY <1>1, <1>2, <2>1 DEF ModesTypeOK, Places
  <2>5. Cleared(g)'
    BY <1>1, <1>2, StillCleared
  <2>6. GoalInv(g)'
    <3>1. Live(job[g].profile)' = {}
      BY <1>1, <2>1, <2>3 DEF Live, Runs
    <3>2. QED
      BY <1>1, <1>2, <2>1, <2>2, <2>5, <3>1, GoesTo
  <2>7. QED
    BY <1>1, <1>2, <2>1, <2>2, <2>4, <2>6, MoveOn
<1>5. QED
  BY <1>3, <1>4

LEMMA SpawnKeeps == ASSUME Single, NEW g \in Goals, Spawn(g) PROVE Single'
<1>q. PICK q : q = job[g].profile
  OBVIOUS
<1>1. PICK p \in Processes :
        /\ pc[g] = "spawn" /\ running[p] = None /\ \A k \in Modes : managed[k] # p
        /\ running' = [running EXCEPT ![p] = [profile |-> q, args |-> request[g].args]]
        /\ job' = [job EXCEPT ![g].process = p] /\ pc' = [pc EXCEPT ![g] = "register"]
        /\ UNCHANGED <<managed, request, todo, result, overlapped>>
  BY <1>q DEF Spawn, Go
<1>2. /\ ModesTypeOK /\ Busy(g) /\ Named(request[g]) /\ job[g].process = NoProcess
      /\ Cleared(g) /\ todo[g] = {} /\ request[g].mode # "IDLE"
      /\ q \in {"SENSOR_ONLY", request[g].profile} /\ Live(q) = {}
  BY <1>q, <1>1 DEF Single, GoalInv, Busy, Working
<1>3. /\ q \in Modes /\ q # "none"
      /\ q \in Main => q = request[g].profile /\ q = request[g].mode
  BY <1>2 DEF Named, Modes, Main
<1>4. /\ pc'[g] = "register" /\ job'[g].process = p /\ job'[g].profile = q
      /\ \A h \in Goals : h # g => pc'[h] = pc[h] /\ job'[h] = job[h]
  BY <1>q, <1>1, <1>2 DEF ModesTypeOK, Jobs
<1>5. ModesTypeOK'
  <2>1. job' \in [Goals -> Jobs]
    BY <1>1, <1>2 DEF ModesTypeOK, Jobs, Kept
  <2>2. QED
    BY <1>1, <1>2, <2>1 DEF ModesTypeOK, Places
<1>6. /\ running'[p] # None /\ running'[p].profile = q
      /\ \A r \in Processes : r # p => running'[r] = running[r]
  BY <1>1, <1>2, <1>3, RunsIs DEF ModesTypeOK
<1>7. /\ Live(q)' = {p} /\ \A k : k # q => Live(k)' = Live(k)
  <2>1. ASSUME NEW k, NEW r \in Processes
        PROVE  Runs(r, k)' <=> IF r = p THEN k = q ELSE Runs(r, k)
    BY <1>6 DEF Runs
  <2>2. ~\E k : Runs(p, k)
    BY <1>1 DEF Runs
  <2>3. Live(q)' = {p}
    BY <1>2, <2>1 DEF Live
  <2>4. ASSUME NEW k, k # q PROVE Live(k)' = Live(k)
    BY <2>1, <2>2, <2>4 DEF Live
  <2>5. QED
    BY <2>3, <2>4
<1>8. q \in Main => /\ Stops2(request[g]) = Main \ {q}
                    /\ \A k \in Main \ {q} : Live(k) = {}
  <2>1. q \in Main => Stops2(request[g]) = Main \ {q}
    BY <1>2, <1>3, ToStopOf DEF Stops2
  <2>2. QED
    BY <1>1, <1>2, <2>1 DEF Cleared, InHand
<1>9. Exclusive'
  <2>1. CASE q \in Main
    BY <1>7, <1>8, <2>1 DEF Exclusive, Main
  <2>2. CASE q \notin Main
    BY <1>7, <2>2 DEF Single, Exclusive, Main
  <2>3. QED
    BY <2>1, <2>2
<1>10. Entries'
  <2> SUFFICES ASSUME NEW k \in Modes, NEW r \in Processes, managed[k] = r, running'[r] # None
               PROVE  Runs(r, k)'
    BY <1>1 DEF Entries
  <2>1. r # p /\ running'[r] = running[r]
    BY <1>1, <1>6
  <2>2. QED
    BY <2>1 DEF Single, Entries, Runs
<1>11. NoneLost'
  <2> SUFFICES ASSUME NEW r \in Processes, running'[r] # None
               PROVE  /\ running'[r].profile \in Modes
                      /\ managed[running'[r].profile] = r \/ \E h \in Goals : job'[h].process = r
    BY <1>1 DEF NoneLost
  <2>1. CASE r = p
    BY <1>3, <1>4, <1>6, <2>1
  <2>2. CASE r # p
    <3>1. running'[r] = running[r]
      BY <1>6, <2>2
    <3>2. /\ running[r].profile \in Modes
          /\ managed[running[r].profile] = r \/ \E h \in Goals : job[h].process = r
      BY <3>1 DEF Single, NoneLost
    <3>3. \A h \in Goals : job[h].process = r => job'[h].process = r
      BY <1>2, <1>4, NoProcessAssumption
    <3>4. QED
      BY <3>1, <3>2, <3>3
  <2>3. QED
    BY <2>1, <2>2
<1>12. Cleared(g)'
  <2>1. q \notin Stops2(request[g])
    <3>1. Stops2(request[g]) \subseteq Main
      BY <1>2 DEF Stops2, ToStop
    <3>2. QED
      BY <1>8, <3>1
  <2>2. QED
    BY <1>1, <1>2, <1>7, <2>1 DEF Cleared, InHand, Stops2, ToStop
<1>13. GoalInv(g)'
  <2>1. Holds(g)'
    BY <1>1, <1>4 DEF Holds
  <2>2. Live(job[g].profile)' \subseteq {p} /\ Runs(p, q)'
    BY <1>4, <1>6, <1>7 DEF Runs
  <2>3. Working(g)'
    <3>2. job'[g].profile \in {"SENSOR_ONLY", request'[g].profile}
      BY <1>1, <1>2, <1>4
    <3>3. Runs(job[g].process, job[g].profile)'
      BY <1>4, <2>2
    <3>4. QED
      BY <1>1, <1>2, <1>4, <1>12, <2>1, <2>2, <3>2, <3>3 DEF Working, Named
  <2>4. QED
    BY <1>4, <2>3 DEF GoalInv
<1>14. OneGoal' /\ \A h \in Goals : GoalInv(h)'
  BY <1>2, <1>4, <1>13, OtherGoals
<1>15. QED
  BY <1>5, <1>9, <1>10, <1>11, <1>14 DEF Single

LEMMA RegisterKeeps == ASSUME Single, NEW g \in Goals, RegisterProcess(g) PROVE Single'
<1>1. /\ pc[g] = "register" /\ UNCHANGED <<running, request, todo, overlapped>> /\ ContinueGoal(g)
      /\ managed' = [managed EXCEPT ![job[g].profile] = job[g].process]
  BY DEF RegisterProcess
<1>2. /\ ModesTypeOK /\ Busy(g) /\ job[g].process \in Processes /\ job[g].profile \in Modes
      /\ Live(job[g].profile) \subseteq {job[g].process}
      /\ running[job[g].process] # None => Runs(job[g].process, job[g].profile)
  BY <1>1 DEF Single, GoalInv, Busy, Working, Holds, Named, Modes
<1>3. managed' \in [Modes -> Kept]
  BY <1>1, <1>2 DEF ModesTypeOK, Kept
<1>4. \A k \in Modes : managed'[k] = IF k = job[g].profile THEN job[g].process ELSE managed[k]
  BY <1>1, <1>2 DEF ModesTypeOK
<1>5. /\ ModesTypeOK' /\ GoalInv(g)'
      /\ \A h \in Goals : h # g => pc'[h] = pc[h] /\ job'[h] = job[h]
  BY <1>1, <1>3, ContinueKeeps
<1>6. QED
  BY <1>1, <1>2, <1>4, <1>5, MoveOn

LEMMA EndingKeeps ==
  ASSUME Single, NEW g \in Goals, SpawnFails(g) \/ Healthy(g) \/ Unhealthy(g)
  PROVE  Single'
<1>1. PICK place \in {"report", "stopping"} :
        /\ pc[g] \in {"spawn", "health"} /\ pc' = [pc EXCEPT ![g] = place]
        /\ UNCHANGED <<managed, running, request, job, overlapped>>
        /\ \/ place = "report" /\ todo' = todo
           \/ place = "stopping" /\ todo' = [todo EXCEPT ![g] = {request[g].mode}]
        /\ \E x : result' = [result EXCEPT ![g] = x]
  BY DEF SpawnFails, Healthy, Unhealthy, Go
<1>2. /\ ModesTypeOK /\ Busy(g) /\ Named(request[g]) /\ job[g].process = NoProcess
      /\ Cleared(g) /\ todo[g] = {} /\ request[g].mode # "IDLE"
      /\ job[g].profile \in {"SENSOR_ONLY", request[g].profile}
  BY <1>1 DEF Single, GoalInv, Busy, Working
<1>3. pc'[g] = place /\ \A h \in Goals : h # g => pc'[h] = pc[h]
  BY <1>1, <1>2 DEF ModesTypeOK
<1>4. Cleared(g)'
  BY <1>1, <1>2, StillCleared
<1>5. GoalInv(g)'
  BY <1>1, <1>2, <1>3, <1>4, GoesTo
<1>6. ModesTypeOK'
  <2>1. request[g].mode \in Modes
    BY <1>2 DEF Named
  <2>2. QED
    BY <1>1, <1>2, <2>1 DEF ModesTypeOK, Places
<1>7. QED
  BY <1>1, <1>2, <1>3, <1>5, <1>6, MoveOn

LEMMA ReportKeeps == ASSUME Single, NEW g \in Goals, Report(g) PROVE Single'
<1>1. /\ pc[g] = "report" /\ UNCHANGED <<managed, running, result, overlapped>>
      /\ pc' = [pc EXCEPT ![g] = "done"] /\ request' = [request EXCEPT ![g] = None]
      /\ todo' = [todo EXCEPT ![g] = {}] /\ job' = [job EXCEPT ![g] = NoJob]
  BY DEF Report, Go
<1>2. ModesTypeOK /\ Busy(g) /\ job[g].process = NoProcess
  BY <1>1 DEF Single, GoalInv, Busy
<1>3. /\ pc'[g] = "done" /\ job'[g] = NoJob
      /\ \A h \in Goals : h # g => pc'[h] = pc[h] /\ job'[h] = job[h]
  BY <1>1, <1>2 DEF ModesTypeOK
<1>4. GoalInv(g)'
  BY <1>3, NoJobIs DEF GoalInv
<1>5. ModesTypeOK'
  BY <1>1, <1>2, NoJobIs DEF ModesTypeOK, Places
<1>6. QED
  BY <1>1, <1>2, <1>3, <1>4, <1>5, MoveOn

LEMMA DiesKeeps == ASSUME Single, NEW p \in Processes, Dies(p) PROVE Single'
<1>1. /\ running' = [running EXCEPT ![p] = None]
      /\ UNCHANGED <<managed, pc, request, todo, job, result, overlapped>>
  BY DEF Dies
<1>2. /\ \A r \in Processes : running'[r] = IF r = p THEN None ELSE running[r]
      /\ DOMAIN running' = Processes
  BY <1>1 DEF Single, ModesTypeOK
<1>3. /\ \A k : Live(k)' \subseteq Live(k)
      /\ Exclusive' /\ Entries'
  BY <1>1, <1>2, Shrinks DEF Single
<1>4. ModesTypeOK'
  BY <1>1, <1>2 DEF Single, ModesTypeOK
<1>5. OneGoal'
  BY <1>1 DEF Single, OneGoal, Busy
<1>6. NoneLost'
  BY <1>1, <1>2 DEF Single, NoneLost
<1>7. ASSUME NEW g \in Goals PROVE GoalInv(g)'
  <2>1. Cleared(g) => Cleared(g)'
    BY <1>1, <1>3 DEF Cleared, InHand, Stops2, ToStop
  <2>2. Holds(g) => Holds(g)'
    BY <1>1 DEF Holds
  <2>3. Live(job[g].profile)' \subseteq Live(job[g].profile)
    BY <1>1, <1>3
  <2>4. ASSUME job[g].process \in Processes,
               running[job[g].process] # None => Runs(job[g].process, job[g].profile),
               running'[job[g].process] # None
        PROVE  Runs(job[g].process, job[g].profile)'
    BY <1>1, <1>2, <2>4 DEF Runs
  <2>5. Working(g) => Working(g)'
    BY <1>1, <2>1, <2>2, <2>3, <2>4 DEF Working, Holds, Named
  <2>6. QED
    BY <1>1, <2>5 DEF Single, GoalInv
<1>8. QED
  BY <1>3, <1>4, <1>5, <1>6, <1>7 DEF Single

LEMMA ModesStepKeeps == ASSUME Single, ModesStep PROVE Single' /\ overlapped' = overlapped
<1>1. CASE \E p \in Processes : Dies(p)
  BY <1>1, DiesKeeps DEF Dies
<1>2. ASSUME NEW g \in Goals, Execute(g) PROVE Single' /\ overlapped' = overlapped
  <2>1. Single'
    BY <1>2, BeginGoalKeeps, StopModeKeeps, StoppedKeeps, AllStoppedKeeps, LookUpKeeps, SpawnKeeps,
       RegisterKeeps, EndingKeeps, ReportKeeps DEF Execute
  <2>2. overlapped' = overlapped
    BY <1>2 DEF Execute, BeginGoal, StopMode, Stopped, AllStopped, LookUp, Spawn, SpawnFails,
       RegisterProcess, Healthy, Unhealthy, Report
  <2>3. QED
    BY <2>1, <2>2
<1>3. QED
  BY <1>1, <1>2 DEF ModesStep

LEMMA SubmitKeeps ==
  ASSUME ModesInv, NEW g \in Goals, NEW r, Named(r), Submit(g, r)
  PROVE  ModesInv'
<1> SUFFICES ASSUME ~overlapped' PROVE Single'
  BY DEF ModesInv, Single, ModesTypeOK, OneGoal, NoneLost, Entries, Exclusive, GoalInv
<1>1. /\ ~Busy(g) /\ UNCHANGED <<managed, running, todo, job>>
      /\ pc' = [pc EXCEPT ![g] = "accepted"] /\ request' = [request EXCEPT ![g] = r]
      /\ result' = [result EXCEPT ![g] = "none"]
  BY DEF Submit, Go
<1>2. ~overlapped /\ \A h \in Goals : ~Busy(h)
  BY Zenon DEF Submit
<1>3. Single /\ ModesTypeOK
  BY <1>2 DEF ModesInv, Single
<1>4. /\ pc'[g] = "accepted" /\ request'[g] = r /\ result'[g] = "none"
      /\ \A h \in Goals : h # g => pc'[h] = pc[h]
  BY <1>1, <1>3 DEF ModesTypeOK
<1>5. ModesTypeOK'
  BY <1>1, <1>3 DEF ModesTypeOK, Places
<1>6. OneGoal'
  BY <1>2, <1>4 DEF OneGoal, Busy
<1>7. NoneLost' /\ Entries' /\ Exclusive'
  BY <1>1, <1>3, SameLive DEF Single, NoneLost, Entries
<1>8. ASSUME NEW h \in Goals PROVE GoalInv(h)'
  <2>1. pc[h] \in {"idle", "done"} /\ job[h] = NoJob
    BY <1>2, <1>3 DEF Busy, Single, GoalInv
  <2>2. pc'[h] \in {"idle", "done", "accepted"} /\ job'[h] = NoJob
    BY <1>1, <1>4, <2>1
  <2>3. pc'[h] = "accepted" => h = g
    BY <1>4, <2>1
  <2>4. QED
    BY <1>4, <2>2, <2>3, NoJobIs DEF GoalInv, Named
<1>9. QED
  BY <1>5, <1>6, <1>7, <1>8 DEF Single

LEMMA ModesInitInv == ModesInit => ModesInv
<1> SUFFICES ASSUME ModesInit PROVE Single
  BY DEF ModesInv
<1>1. /\ managed = [k \in Modes |-> NoProcess] /\ running = [p \in Processes |-> None]
      /\ pc = [g \in Goals |-> "idle"] /\ request = [g \in Goals |-> None]
      /\ todo = [g \in Goals |-> {}] /\ job = [g \in Goals |-> NoJob]
      /\ result = [g \in Goals |-> "none"]
  BY DEF ModesInit
<1>2. ModesTypeOK
  BY <1>1, NoJobIs DEF ModesTypeOK, Places
<1>3. OneGoal /\ NoneLost /\ Entries
  BY <1>1 DEF OneGoal, Busy, NoneLost, Entries
<1>4. Exclusive
  BY <1>1 DEF Exclusive, Live, Runs
<1>5. \A g \in Goals : GoalInv(g)
  BY <1>1, NoJobIs DEF GoalInv
<1>6. QED
  BY <1>2, <1>3, <1>4, <1>5 DEF Single

LEMMA ModesInvStep == ModesInv /\ [ModesNext]_modeVars => ModesInv'
<1> SUFFICES ASSUME ModesInv, [ModesNext]_modeVars PROVE ModesInv'
  OBVIOUS
<1>1. CASE ModesStep
  <2>1. overlapped' = overlapped
    BY <1>1 DEF ModesStep, Execute, BeginGoal, StopMode, Stopped, AllStopped, LookUp, Spawn,
       SpawnFails, RegisterProcess, Healthy, Unhealthy, Report, Dies
  <2>2. ~overlapped => Single'
    BY <1>1, ModesStepKeeps DEF ModesInv
  <2>3. QED
    BY <2>1, <2>2 DEF ModesInv, Single, ModesTypeOK, OneGoal, NoneLost, Entries, Exclusive, GoalInv
<1>2. ASSUME NEW g \in Goals, NEW r \in Requests, Submit(g, r) PROVE ModesInv'
  BY <1>2, RequestsAssumption, SubmitKeeps
<1>3. CASE UNCHANGED modeVars
  BY <1>3 DEF modeVars, ModesInv, Single, ModesTypeOK, OneGoal, NoneLost, Entries, Exclusive,
     GoalInv, Working, Cleared, InHand, Holds, Live, Runs, Busy, Stops2, ToStop
<1>4. QED
  BY <1>1, <1>2, <1>3 DEF ModesNext

LEMMA ModesInvImplies == ModesInv => NoLostProcess /\ ChainsExclusive
BY DEF ModesInv, Single, NoneLost, Exclusive, NoLostProcess, ChainsExclusive

\* While goals come one at a time, a process that runs is in the table of managed processes or
\* in the hands of the goal that starts or stops it (process_manager.py start and stop_mode).
THEOREM NoProcessEverLost == ModesSpec => []NoLostProcess
<1>1. ModesInit => ModesInv
  BY ModesInitInv
<1>2. ModesInv /\ [ModesNext]_modeVars => ModesInv'
  BY ModesInvStep
<1>3. ModesInv => NoLostProcess
  BY ModesInvImplies
<1>4. QED
  BY <1>1, <1>2, <1>3, PTL DEF ModesSpec

\* While goals come one at a time, mapping and navigation never run together, whichever start
\* fails or becomes unhealthy and whichever process dies (system_mode_manager.py
\* _prepare_main_transition).
THEOREM ChainsAlwaysExclusive == ModesSpec => []ChainsExclusive
<1>1. ModesInit => ModesInv
  BY ModesInitInv
<1>2. ModesInv /\ [ModesNext]_modeVars => ModesInv'
  BY ModesInvStep
<1>3. ModesInv => ChainsExclusive
  BY ModesInvImplies
<1>4. QED
  BY <1>1, <1>2, <1>3, PTL DEF ModesSpec

-----------------------------------------------------------------------------
(* The mapping sessions: what each place of an operation says of its        *)
(* session, and what each state says of the candidate.                     *)

SessionStates == Active \cup {"absent", "START_FAILED", "ABORTED", "DISCARDED", "REGISTERED"}
Building == {"build", "built", "promote", "promoted"}
OpPlaces == {"none", "prepared", "launch", "starting", "undoing", "saving", "stopping", "assets",
             "import", "imported", "aborting", "trash"} \cup Building
HasAssets == {"BUILDING_STATIC_MAP", "CANDIDATE_BUILD_FAILED", "CANDIDATE_READY", "COMMIT_FAILED",
              "COMMITTING", "REGISTERED"}
Record == [state : SessionStates, preview : BOOLEAN,
           failed : MapVersions \cup {NoMap}, version : MapVersions \cup {NoMap}]

SessionTypeOK ==
  /\ session \in [Sessions -> Record] /\ DOMAIN grid = Sessions
  /\ DOMAIN version = MapVersions
  /\ op \in [at : OpPlaces, s : Sessions \cup {NoSession}, goal : Goals \cup {NoGoal},
             v : MapVersions \cup {NoMap}]

\* The state of its session at each place of an operation.
Placed ==
  /\ op.at # "none" => op.s \in Sessions
  /\ op.at = "prepared" => StateOf(op.s) = "PREPARED"
  /\ op.at \in {"launch", "starting", "undoing"} => StateOf(op.s) = "STARTING"
  /\ op.at = "saving" => StateOf(op.s) = "SAVING_GRID"
  /\ op.at = "stopping" => StateOf(op.s) = "STOPPING_MAPPING"
  /\ op.at = "assets" => StateOf(op.s) = "WAITING_ASSETS"
  /\ op.at \in Building => StateOf(op.s) = "BUILDING_STATIC_MAP"
  /\ op.at \in {"import", "imported"} => StateOf(op.s) = "COMMITTING"
  /\ op.at = "aborting" => StateOf(op.s) \in Capturing
  /\ op.at = "trash" => StateOf(op.s) = "ABORTED"

\* What an operation has in hand: the promoted files, the version it imported.
InProgress ==
  /\ op.at = "promoted" => grid[op.s] = "static"
  /\ op.at = "import" => op.v = NoMap
  /\ op.at = "imported" =>
       /\ op.v \in MapVersions /\ version[op.v] # "absent"
       /\ \A s \in Sessions :
            /\ session[s].failed # NoMap => session[s].failed # op.v
            /\ StateOf(s) = "REGISTERED" => session[s].version # op.v

Candidates ==
  \A s \in Sessions :
    /\ StateOf(s) \in HasAssets => s \in assets
    /\ StateOf(s) \in {"CANDIDATE_READY", "COMMIT_FAILED"} => grid[s] \in {"static", "spoiled"}
    /\ StateOf(s) \in {"COMMITTING", "REGISTERED"} => grid[s] = "static"

\* A version that DISCARD would delete is not that of a registered session.
Registrations ==
  /\ \A s \in Sessions : session[s].failed # NoMap =>
       session[s].failed \in MapVersions /\ version[session[s].failed] # "absent"
  /\ \A t \in Sessions : StateOf(t) = "REGISTERED" =>
       /\ session[t].version \in MapVersions /\ version[session[t].version] = "ready"
       /\ \A s \in Sessions : session[s].failed # NoMap => session[s].failed # session[t].version

SessionInv == SessionTypeOK /\ Placed /\ InProgress /\ Candidates /\ Registrations

-----------------------------------------------------------------------------
LEMMA NoOpIs ==
  /\ NoOp.at = "none" /\ NoOp.s = NoSession /\ NoOp.goal = NoGoal /\ NoOp.v = NoMap
  /\ NoOp \in [at : OpPlaces, s : Sessions \cup {NoSession}, goal : Goals \cup {NoGoal},
               v : MapVersions \cup {NoMap}]
BY DEF NoOp, OpPlaces

LEMMA FreshIs ==
  ASSUME NEW state \in SessionStates
  PROVE  Fresh(state) \in Record /\ Fresh(state).state = state /\ Fresh(state).failed = NoMap
BY DEF Fresh, Record

\* An operation that ends leaves nothing to say of it.
LEMMA EndIs ==
  ASSUME op' = NoOp PROVE Placed' /\ InProgress'
BY NoOpIs DEF Placed, InProgress, Building

LEMMA ToOf ==
  ASSUME SessionTypeOK, NEW s \in Sessions, NEW x \in SessionStates, To(s, x)
  PROVE  /\ session' \in [Sessions -> Record] /\ session'[s].state = x
         /\ \A t \in Sessions : /\ t # s => session'[t] = session[t]
                                /\ session'[t].failed = session[t].failed
                                /\ session'[t].version = session[t].version
<1>1. session' = [session EXCEPT ![s].state = x]
  BY DEF To
<1>2. session \in [Sessions -> Record]
  BY DEF SessionTypeOK
<1>3. session' = [session EXCEPT ![s] = [session[s] EXCEPT !.state = x]]
  BY <1>1
<1>4. session[s] \in Record /\ [session[s] EXCEPT !.state = x] \in Record
  BY <1>2 DEF Record
<1>5. session'[s] = [session[s] EXCEPT !.state = x]
  BY <1>2, <1>3
<1>6. session' \in [Sessions -> Record]
  BY <1>2, <1>3, <1>4
<1>7. /\ session'[s].state = x /\ session'[s].failed = session[s].failed
      /\ session'[s].version = session[s].version
  BY <1>4, <1>5 DEF Record
<1>8. \A t \in Sessions : t # s => session'[t] = session[t]
  BY <1>2, <1>3
<1>9. QED
  BY <1>6, <1>7, <1>8

\* A new state of one session, when no other candidate and no version changes.
LEMMA StateMove ==
  ASSUME SessionTypeOK, Candidates, Registrations,
         NEW s \in Sessions, NEW x \in SessionStates, To(s, x), x # "REGISTERED",
         assets' = assets, version' = version, \A t \in Sessions : t # s => grid'[t] = grid[t],
         x \in HasAssets => s \in assets,
         x \in {"CANDIDATE_READY", "COMMIT_FAILED"} => grid'[s] \in {"static", "spoiled"},
         x = "COMMITTING" => grid'[s] = "static"
  PROVE  Candidates' /\ Registrations'
<1>1. /\ session'[s].state = x
      /\ \A t \in Sessions : /\ t # s => session'[t] = session[t]
                             /\ session'[t].failed = session[t].failed
                             /\ session'[t].version = session[t].version
  BY ToOf
<1>2. Candidates'
  BY <1>1 DEF Candidates, StateOf
<1>3. Registrations'
  BY <1>1 DEF Registrations, StateOf
<1>4. QED
  BY <1>2, <1>3

\* An operation whose session is not touched goes on to another place.
LEMMA PlaceMove ==
  ASSUME SessionTypeOK, NEW place \in OpPlaces, op' = [op EXCEPT !.at = place]
  PROVE  /\ op'.at = place /\ op'.s = op.s /\ op'.goal = op.goal /\ op'.v = op.v
         /\ op' \in [at : OpPlaces, s : Sessions \cup {NoSession}, goal : Goals \cup {NoGoal},
                     v : MapVersions \cup {NoMap}]
BY DEF SessionTypeOK

LEMMA NewOp ==
  ASSUME NEW place \in OpPlaces, NEW s \in Sessions, op' = [NoOp EXCEPT !.at = place, !.s = s]
  PROVE  /\ op'.at = place /\ op'.s = s /\ op'.goal = NoGoal /\ op'.v = NoMap
         /\ op' \in [at : OpPlaces, s : Sessions \cup {NoSession}, goal : Goals \cup {NoGoal},
                     v : MapVersions \cup {NoMap}]
BY DEF NoOp

LEMMA SessionInitInv == SessionInit => SessionInv
<1> SUFFICES ASSUME SessionInit PROVE SessionInv
  OBVIOUS
<1>1. /\ session = [s \in Sessions |-> Fresh("absent")] /\ grid = [s \in Sessions |-> "none"]
      /\ version = [v \in MapVersions |-> "absent"] /\ op = NoOp
  BY DEF SessionInit, ManagerInit
<1>2. "absent" \in SessionStates /\ "absent" \notin HasAssets
  BY DEF SessionStates, HasAssets
<1>3. \A s \in Sessions : /\ session[s] \in Record /\ session[s].state = "absent"
                          /\ session[s].failed = NoMap
  BY <1>1, <1>2, FreshIs
<1>4. SessionTypeOK
  BY <1>1, <1>2, FreshIs, NoOpIs DEF SessionTypeOK
<1>5. Placed /\ InProgress
  BY <1>1, NoOpIs DEF Placed, InProgress, Building
<1>6. Candidates /\ Registrations
  BY <1>2, <1>3 DEF Candidates, Registrations, StateOf
<1>7. QED
  BY <1>4, <1>5, <1>6 DEF SessionInv

\* Operations that end by writing a state.
LEMMA EndStateKeeps ==
  ASSUME SessionInv,
         Started \/ Undone \/ SaveFails \/ GridRejected \/ StopFails \/ AssetsFail \/ BuildFails
           \/ ReportRejected \/ CandidateReady
  PROVE  SessionInv'
<1> USE DEF At, End
<1>1. /\ SessionTypeOK /\ Placed /\ InProgress /\ Candidates /\ Registrations
  BY DEF SessionInv
<1>2. op' = NoOp /\ UNCHANGED <<assets, version>> /\ op.s \in Sessions
  BY <1>1 DEF Started, Undone, SaveFails, GridRejected, BackToMapping, StopFails, AssetsFail,
              BuildFails, ReportRejected, BuildFailed, CandidateReady, Placed
<1>3. ASSUME session' = session, grid' = grid PROVE SessionInv'
  BY <1>1, <1>2, <1>3, NoOpIs, EndIs DEF SessionInv, SessionTypeOK, Candidates, Registrations, StateOf
<1>4. ASSUME NEW x \in SessionStates, To(op.s, x), x # "REGISTERED", DOMAIN grid' = Sessions,
             \A t \in Sessions : t # op.s => grid'[t] = grid[t],
             x \in HasAssets => op.s \in assets,
             x \in {"CANDIDATE_READY", "COMMIT_FAILED"} => grid'[op.s] \in {"static", "spoiled"},
             x # "COMMITTING"
      PROVE  SessionInv'
  <2>1. Candidates' /\ Registrations'
    BY <1>1, <1>2, <1>4, StateMove
  <2>2. SessionTypeOK'
    BY <1>1, <1>2, <1>4, NoOpIs, ToOf DEF SessionTypeOK
  <2>3. QED
    BY <1>2, <2>1, <2>2, EndIs DEF SessionInv
<1>5. /\ "MAPPING" \in SessionStates \ HasAssets /\ "START_FAILED" \in SessionStates \ HasAssets
      /\ "CAPTURE_FAILED" \in SessionStates \ HasAssets
      /\ "CANDIDATE_BUILD_FAILED" \in SessionStates /\ "CANDIDATE_READY" \in SessionStates
  BY DEF SessionStates, HasAssets, Active
<1>6. DOMAIN grid = Sessions
  BY <1>1 DEF SessionTypeOK
<1>7. CASE Started
  BY <1>4, <1>5, <1>6, <1>7 DEF Started
<1>8. CASE Undone
  BY <1>4, <1>5, <1>6, <1>8 DEF Undone
<1>9. CASE SaveFails
  BY <1>4, <1>5, <1>6, <1>9 DEF SaveFails, BackToMapping
<1>10. CASE GridRejected
  <2>1. To(op.s, "MAPPING") /\ grid' = [grid EXCEPT ![op.s] = "partial"]
    BY <1>10 DEF GridRejected, BackToMapping
  <2>2. QED
    BY <1>4, <1>5, <1>6, <2>1
<1>11. CASE StopFails
  BY <1>4, <1>5, <1>6, <1>11 DEF StopFails
<1>12. CASE AssetsFail
  <2>1. grid' = grid /\ (session' = session \/ To(op.s, "CAPTURE_FAILED"))
    BY <1>12 DEF AssetsFail
  <2>2. QED
    BY <1>3, <1>4, <1>5, <1>6, <2>1
<1>13. CASE BuildFails \/ ReportRejected
  <2>1. op.at \in Building /\ To(op.s, "CANDIDATE_BUILD_FAILED") /\ grid' = grid
    BY <1>13 DEF BuildFails, ReportRejected, BuildFailed, Building
  <2>2. op.s \in assets
    BY <1>1, <1>2, <2>1 DEF Placed, Candidates, HasAssets
  <2>3. QED
    BY <1>4, <1>5, <1>6, <2>1, <2>2
<1>14. CASE CandidateReady
  <2>1. op.at = "promoted" /\ To(op.s, "CANDIDATE_READY") /\ grid' = grid
    BY <1>14 DEF CandidateReady
  <2>2. op.s \in assets /\ grid[op.s] = "static"
    BY <1>1, <1>2, <2>1 DEF Placed, InProgress, Candidates, HasAssets, Building
  <2>3. QED
    BY <1>4, <1>5, <1>6, <2>1, <2>2
<1>15. QED
  BY <1>7, <1>8, <1>9, <1>10, <1>11, <1>12, <1>13, <1>14

\* Operations that write a state and go on.
LEMMA GoOnStateKeeps ==
  ASSUME SessionInv, MarkStarting \/ GridSaved \/ CaptureStopped \/ Aborted
  PROVE  SessionInv'
<1> USE DEF At, Go2
<1>1. /\ SessionTypeOK /\ Placed /\ InProgress /\ Candidates /\ Registrations
  BY DEF SessionInv
<1>2. UNCHANGED <<assets, version>> /\ op.s \in Sessions
  BY <1>1 DEF MarkStarting, GridSaved, CaptureStopped, Aborted, Placed
<1>3. PICK x \in {"STARTING", "STOPPING_MAPPING", "WAITING_ASSETS", "ABORTED"},
           place \in {"launch", "stopping", "assets", "trash"} :
        /\ To(op.s, x) /\ op'.at = place /\ op'.s = op.s
        /\ op' \in [at : OpPlaces, s : Sessions \cup {NoSession}, goal : Goals \cup {NoGoal},
                    v : MapVersions \cup {NoMap}]
        /\ place = "launch" => x = "STARTING"
        /\ place = "stopping" => x = "STOPPING_MAPPING"
        /\ place = "assets" => x = "WAITING_ASSETS"
        /\ place = "trash" => x = "ABORTED"
        /\ grid' = grid \/ grid' = [grid EXCEPT ![op.s] = "online"]
  <2>1. CASE MarkStarting
    BY <1>1, <2>1, PlaceMove DEF MarkStarting, OpPlaces
  <2>2. CASE CaptureStopped
    BY <1>1, <2>2, PlaceMove DEF CaptureStopped, OpPlaces
  <2>3. CASE Aborted
    BY <1>1, <2>3, PlaceMove DEF Aborted, OpPlaces
  <2>4. CASE GridSaved
    <3>1. PICK g \in Goals : op' = [op EXCEPT !.at = "stopping", !.goal = g]
      BY <2>4 DEF GridSaved, Send
    <3>2. /\ op'.at = "stopping" /\ op'.s = op.s
          /\ op' \in [at : OpPlaces, s : Sessions \cup {NoSession}, goal : Goals \cup {NoGoal},
                      v : MapVersions \cup {NoMap}]
      BY <1>1, <3>1 DEF SessionTypeOK, OpPlaces
    <3>3. QED
      BY <2>4, <3>2 DEF GridSaved
  <2>5. QED
    BY <2>1, <2>2, <2>3, <2>4
<1>4. x \in SessionStates \ HasAssets /\ x \notin {"REGISTERED", "COMMITTING"}
  BY DEF SessionStates, HasAssets, Active
<1>5. DOMAIN grid' = Sessions /\ \A t \in Sessions : t # op.s => grid'[t] = grid[t]
  BY <1>1, <1>3 DEF SessionTypeOK
<1>6. Candidates' /\ Registrations'
  BY <1>1, <1>2, <1>3, <1>4, <1>5, StateMove DEF HasAssets
<1>7. SessionTypeOK'
  BY <1>1, <1>2, <1>3, <1>4, <1>5, ToOf DEF SessionTypeOK
<1>8. StateOf(op.s)' = x /\ op'.s \in Sessions
  BY <1>1, <1>2, <1>3, <1>4, ToOf DEF StateOf
<1>9. Placed' /\ InProgress'
  BY <1>2, <1>3, <1>8 DEF Placed, InProgress, Building
<1>10. QED
  BY <1>6, <1>7, <1>9 DEF SessionInv

\* Operations that begin.
LEMMA NewOpKeeps ==
  ASSUME SessionInv, NEW s \in Sessions, Prepare(s) \/ Finalize(s) \/ Retry(s) \/ Commit(s)
  PROVE  SessionInv'
<1> USE DEF At
<1>1. /\ SessionTypeOK /\ Placed /\ InProgress /\ Candidates /\ Registrations
  BY DEF SessionInv
<1>2. UNCHANGED <<grid, assets, version>> /\ op.at = "none"
  BY DEF Prepare, Finalize, Retry, Commit
<1>3. CASE Commit(s) /\ ~GeometryKept(s)
  <2>1. To(s, "COMMIT_FAILED") /\ op' = op /\ StateOf(s) \in {"CANDIDATE_READY", "COMMIT_FAILED"}
    BY <1>3 DEF Commit
  <2>2. s \in assets /\ grid[s] \in {"static", "spoiled"} /\ "COMMIT_FAILED" \in SessionStates
    BY <1>1, <2>1 DEF Candidates, HasAssets, SessionStates, Active
  <2>3. Candidates' /\ Registrations'
    BY <1>1, <1>2, <2>1, <2>2, StateMove
  <2>4. SessionTypeOK'
    BY <1>1, <1>2, <2>1, <2>2, ToOf DEF SessionTypeOK
  <2>5. Placed' /\ InProgress'
    BY <1>2, <2>1 DEF Placed, InProgress, Building
  <2>6. QED
    BY <2>3, <2>4, <2>5 DEF SessionInv
<1>4. CASE ~(Commit(s) /\ ~GeometryKept(s))
  <2>1. PICK x \in {"PREPARED", "SAVING_GRID", "BUILDING_STATIC_MAP", "COMMITTING"},
             place \in {"prepared", "saving", "build", "import"} :
          /\ To(s, x) /\ op' = [NoOp EXCEPT !.at = place, !.s = s]
          /\ place = "prepared" => x = "PREPARED"
          /\ place = "saving" => x = "SAVING_GRID"
          /\ place = "build" => x = "BUILDING_STATIC_MAP"
          /\ place = "import" => x = "COMMITTING"
          /\ x = "BUILDING_STATIC_MAP" => StateOf(s) \in {"BUILDING_STATIC_MAP", "CANDIDATE_BUILD_FAILED"}
          /\ x = "COMMITTING" => StateOf(s) \in {"CANDIDATE_READY", "COMMIT_FAILED"} /\ grid[s] = "static"
    <3>1. CASE Prepare(s)
      BY <3>1 DEF Prepare
    <3>2. CASE Finalize(s)
      BY <3>2 DEF Finalize
    <3>3. CASE Retry(s)
      BY <3>3 DEF Retry
    <3>4. CASE Commit(s)
      BY <1>4, <3>4 DEF Commit, GeometryKept
    <3>5. QED
      BY <3>1, <3>2, <3>3, <3>4
  <2>2. /\ x \in SessionStates /\ place \in OpPlaces
        /\ x \in HasAssets => s \in assets
    BY <1>1, <2>1 DEF SessionStates, Active, OpPlaces, Building, HasAssets, Candidates
  <2>3. /\ op'.at = place /\ op'.s = s /\ op'.v = NoMap
        /\ op' \in [at : OpPlaces, s : Sessions \cup {NoSession}, goal : Goals \cup {NoGoal},
                    v : MapVersions \cup {NoMap}]
    BY <2>1, <2>2, NewOp
  <2>4. Candidates' /\ Registrations'
    BY <1>1, <1>2, <2>1, <2>2, StateMove
  <2>5. SessionTypeOK'
    BY <1>1, <1>2, <2>1, <2>2, <2>3, ToOf DEF SessionTypeOK
  <2>6. StateOf(op.s)' = x
    BY <1>1, <2>1, <2>2, <2>3, ToOf DEF StateOf
  <2>7. Placed' /\ InProgress'
    BY <2>1, <2>3, <2>6 DEF Placed, InProgress, Building
  <2>8. QED
    BY <2>4, <2>5, <2>7 DEF SessionInv
<1>5. QED
  BY <1>3, <1>4

\* Operations that leave the sessions as they are.
LEMMA SameStateKeeps ==
  ASSUME SessionInv,
         Launch \/ LaunchFails \/ Build \/ PromoteImage \/ PromoteYaml \/ AbortFails \/ SupervisorCrash
           \/ \E s \in Sessions : DiscardCapture(s)
  PROVE  SessionInv'
<1> USE DEF At, Go2, End
<1>1. /\ SessionTypeOK /\ Placed /\ InProgress /\ Candidates /\ Registrations
  BY DEF SessionInv
<1>2. UNCHANGED <<session, assets, version>>
  BY DEF Launch, LaunchFails, Build, PromoteImage, PromoteYaml, AbortFails, SupervisorCrash, DiscardCapture
<1>3. Registrations'
  BY <1>1, <1>2 DEF Registrations, StateOf
<1>4. CASE AbortFails \/ SupervisorCrash
  <2>1. op' = NoOp /\ grid' = grid
    BY <1>4 DEF AbortFails, SupervisorCrash
  <2>2. QED
    BY <1>1, <1>2, <1>3, <2>1, NoOpIs, EndIs DEF SessionInv, SessionTypeOK, Candidates, StateOf
<1>5. CASE Launch \/ LaunchFails
  <2>1. PICK g \in Goals, place \in {"starting", "undoing"} : op' = [op EXCEPT !.at = place, !.goal = g]
    BY <1>5 DEF Launch, LaunchFails, Send
  <2>2. /\ op'.at = place /\ op'.s = op.s
        /\ op' \in [at : OpPlaces, s : Sessions \cup {NoSession}, goal : Goals \cup {NoGoal},
                    v : MapVersions \cup {NoMap}]
    BY <1>1, <2>1 DEF SessionTypeOK, OpPlaces
  <2>3. op.at \in {"launch", "starting"} /\ grid' = grid
    BY <1>5 DEF Launch, LaunchFails
  <2>4. StateOf(op.s) = "STARTING" /\ op.s \in Sessions /\ StateOf(op.s)' = "STARTING"
    BY <1>1, <1>2, <2>2, <2>3 DEF Placed, StateOf
  <2>5. Placed' /\ InProgress'
    BY <2>2, <2>4 DEF Placed, InProgress, Building
  <2>6. QED
    BY <1>1, <1>2, <1>3, <2>2, <2>3, <2>5 DEF SessionInv, SessionTypeOK, Candidates, StateOf
<1>6. CASE Build \/ PromoteImage \/ PromoteYaml
  <2>1. PICK place \in {"built", "promote", "promoted"} :
          /\ op.at \in Building /\ op' = [op EXCEPT !.at = place]
          /\ \/ grid' = grid /\ place = "built"
             \/ grid' = [grid EXCEPT ![op.s] = "partial"] /\ place = "promote"
             \/ grid' = [grid EXCEPT ![op.s] = "static"] /\ place = "promoted"
    BY <1>6 DEF Build, PromoteImage, PromoteYaml, Building
  <2>2. /\ op'.at = place /\ op'.s = op.s
        /\ op' \in [at : OpPlaces, s : Sessions \cup {NoSession}, goal : Goals \cup {NoGoal},
                    v : MapVersions \cup {NoMap}]
    BY <1>1, <2>1, PlaceMove DEF OpPlaces, Building
  <2>3. op.s \in Sessions /\ StateOf(op.s) = "BUILDING_STATIC_MAP" /\ StateOf(op.s)' = "BUILDING_STATIC_MAP"
    BY <1>1, <1>2, <2>1, <2>2 DEF Placed, StateOf, Building
  <2>4. /\ DOMAIN grid' = Sessions /\ \A t \in Sessions : t # op.s => grid'[t] = grid[t]
        /\ place = "promoted" => grid'[op.s] = "static"
    BY <1>1, <2>1, <2>3 DEF SessionTypeOK
  <2>5. Placed' /\ InProgress'
    BY <2>2, <2>3, <2>4 DEF Placed, InProgress, Building
  <2>6. Candidates'
    BY <1>1, <1>2, <2>3, <2>4 DEF Candidates, StateOf, HasAssets
  <2>7. QED
    BY <1>1, <1>2, <1>3, <2>2, <2>4, <2>5, <2>6 DEF SessionInv, SessionTypeOK
<1>7. ASSUME NEW s \in Sessions, DiscardCapture(s) PROVE SessionInv'
  <2>1. PICK g \in Goals : op' = [NoOp EXCEPT !.at = "aborting", !.s = s, !.goal = g]
    BY <1>7 DEF DiscardCapture
  <2>2. /\ op'.at = "aborting" /\ op'.s = s
        /\ op' \in [at : OpPlaces, s : Sessions \cup {NoSession}, goal : Goals \cup {NoGoal},
                    v : MapVersions \cup {NoMap}]
    BY <2>1 DEF NoOp, OpPlaces
  <2>3. StateOf(op.s)' \in Capturing /\ grid' = grid
    BY <1>2, <1>7, <2>2 DEF DiscardCapture, StateOf
  <2>4. Placed' /\ InProgress'
    BY <2>2, <2>3 DEF Placed, InProgress, Building
  <2>5. QED
    BY <1>1, <1>2, <1>3, <2>2, <2>3, <2>4 DEF SessionInv, SessionTypeOK, Candidates, StateOf
<1>8. QED
  BY <1>4, <1>5, <1>6, <1>7

\* The builds that begin, the edits, and what happens beside the operations.
LEMMA BesideKeeps ==
  ASSUME SessionInv,
         AssetsReady \/ ModeManager \/ Console \/ UNCHANGED allVars \/ \E s \in Sessions : Edit(s)
  PROVE  SessionInv'
<1> USE DEF At, Go2
<1>1. /\ SessionTypeOK /\ Placed /\ InProgress /\ Candidates /\ Registrations
  BY DEF SessionInv
<1>2. CASE AssetsReady
  <2>1. /\ op.at = "assets" /\ op.s \in assets /\ op' = [op EXCEPT !.at = "build"]
        /\ session' = [session EXCEPT ![op.s].state = "BUILDING_STATIC_MAP", ![op.s].preview = TRUE]
        /\ UNCHANGED <<grid, assets, version>>
    BY <1>2 DEF AssetsReady
  <2>2. op.s \in Sessions /\ StateOf(op.s) = "WAITING_ASSETS" /\ session[op.s] \in Record
    BY <1>1, <2>1 DEF Placed, SessionTypeOK
  <2>3. /\ op'.at = "build" /\ op'.s = op.s
        /\ op' \in [at : OpPlaces, s : Sessions \cup {NoSession}, goal : Goals \cup {NoGoal},
                    v : MapVersions \cup {NoMap}]
    BY <1>1, <2>1, PlaceMove DEF OpPlaces, Building
  <2>4. /\ session' \in [Sessions -> Record] /\ session'[op.s].state = "BUILDING_STATIC_MAP"
        /\ session'[op.s].failed = session[op.s].failed
        /\ \A t \in Sessions : t # op.s => session'[t] = session[t]
    <3>1. session' = [session EXCEPT ![op.s] =
                        [session[op.s] EXCEPT !.state = "BUILDING_STATIC_MAP", !.preview = TRUE]]
      BY <1>1, <2>1, <2>2 DEF SessionTypeOK
    <3>2. "BUILDING_STATIC_MAP" \in SessionStates
      BY DEF SessionStates, Active
    <3>3. [session[op.s] EXCEPT !.state = "BUILDING_STATIC_MAP", !.preview = TRUE] \in Record
      BY <2>2, <3>2 DEF Record
    <3>4. session'[op.s] = [session[op.s] EXCEPT !.state = "BUILDING_STATIC_MAP", !.preview = TRUE]
      BY <1>1, <2>2, <3>1 DEF SessionTypeOK
    <3>5. /\ session' \in [Sessions -> Record]
          /\ \A t \in Sessions : t # op.s => session'[t] = session[t]
      BY <1>1, <2>2, <3>1, <3>3 DEF SessionTypeOK
    <3>6. session'[op.s].state = "BUILDING_STATIC_MAP" /\ session'[op.s].failed = session[op.s].failed
      BY <2>2, <3>4 DEF Record
    <3>7. QED
      BY <3>5, <3>6
  <2>5. Candidates' /\ Registrations'
    BY <1>1, <2>1, <2>2, <2>4 DEF Candidates, Registrations, StateOf, HasAssets
  <2>6. Placed' /\ InProgress'
    BY <2>2, <2>3, <2>4 DEF Placed, InProgress, Building, StateOf
  <2>7. QED
    BY <1>1, <2>1, <2>3, <2>4, <2>5, <2>6 DEF SessionInv, SessionTypeOK
<1>3. CASE ModeManager \/ Console \/ UNCHANGED allVars
  <2>1. UNCHANGED <<session, grid, version, op>> /\ assets \subseteq assets'
    BY <1>3 DEF ModeManager, Console, allVars, sessionVars
  <2>2. QED
    BY <1>1, <2>1 DEF SessionInv, SessionTypeOK, Placed, InProgress, Candidates, Registrations, StateOf
<1>4. ASSUME NEW s \in Sessions, Edit(s) PROVE SessionInv'
  <2>1. PICK x \in {"static", "spoiled"} :
          /\ StateOf(s) \in {"CANDIDATE_READY", "COMMIT_FAILED"} /\ grid' = [grid EXCEPT ![s] = x]
          /\ UNCHANGED <<session, assets, version, op>>
    BY <1>4 DEF Edit
  <2>2. /\ DOMAIN grid' = Sessions /\ grid'[s] = x /\ \A t \in Sessions : t # s => grid'[t] = grid[t]
    BY <1>1, <2>1 DEF SessionTypeOK
  <2>3. op.at = "promoted" => op.s # s
    BY <1>1, <2>1 DEF Placed, Building
  <2>4. Candidates' /\ Registrations' /\ InProgress'
    BY <1>1, <2>1, <2>2, <2>3 DEF Candidates, Registrations, InProgress, Placed, StateOf
  <2>5. Placed' /\ SessionTypeOK'
    BY <1>1, <2>1, <2>2 DEF Placed, SessionTypeOK, StateOf
  <2>6. QED
    BY <2>4, <2>5 DEF SessionInv
<1>5. QED
  BY <1>2, <1>3, <1>4

\* The versions: imported, given up, registered, deleted.
LEMMA VersionsKeep ==
  ASSUME SessionInv,
         ImportVersion \/ CommitFails \/ Registered \/ DiscardAborted \/ \E s \in Sessions : Discard(s)
  PROVE  SessionInv'
<1> USE DEF At, End
<1>1. /\ SessionTypeOK /\ Placed /\ InProgress /\ Candidates /\ Registrations
  BY DEF SessionInv
<1>2. CASE ImportVersion
  <2>1. PICK v \in MapVersions, status \in {"ready", "invalid"} :
          /\ op.at = "import" /\ version[v] = "absent" /\ version' = [version EXCEPT ![v] = status]
          /\ op' = [op EXCEPT !.at = "imported", !.v = v] /\ UNCHANGED <<session, grid, assets>>
    BY <1>2 DEF ImportVersion
  <2>2. /\ op'.at = "imported" /\ op'.s = op.s /\ op'.v = v
        /\ op' \in [at : OpPlaces, s : Sessions \cup {NoSession}, goal : Goals \cup {NoGoal},
                    v : MapVersions \cup {NoMap}]
    BY <1>1, <2>1 DEF SessionTypeOK, OpPlaces
  <2>3. /\ DOMAIN version' = MapVersions /\ version'[v] = status
        /\ \A w \in MapVersions : w # v => version'[w] = version[w]
    BY <1>1, <2>1 DEF SessionTypeOK
  <2>4. /\ \A s \in Sessions : session[s].failed # NoMap => session[s].failed # v
        /\ \A s \in Sessions : StateOf(s) = "REGISTERED" => session[s].version # v
    BY <1>1, <2>1 DEF Registrations
  <2>5. Registrations'
    BY <1>1, <2>1, <2>3, <2>4 DEF Registrations, StateOf
  <2>6. Placed' /\ InProgress' /\ Candidates'
    BY <1>1, <2>1, <2>2, <2>3, <2>4 DEF Placed, InProgress, Candidates, StateOf, Building
  <2>7. QED
    BY <1>1, <2>1, <2>2, <2>3, <2>5, <2>6 DEF SessionInv, SessionTypeOK
<1>3. CASE CommitFails
  <2>1. /\ op.at \in {"import", "imported"} /\ op' = NoOp /\ UNCHANGED <<grid, assets, version>>
        /\ session' = [session EXCEPT ![op.s].state = "COMMIT_FAILED", ![op.s].failed = op.v]
    BY <1>3 DEF CommitFails
  <2>2. op.s \in Sessions /\ StateOf(op.s) = "COMMITTING" /\ session[op.s] \in Record
    BY <1>1, <2>1 DEF Placed, SessionTypeOK
  <2>3. /\ op.v \in MapVersions \cup {NoMap}
        /\ op.v # NoMap => /\ op.v \in MapVersions /\ version[op.v] # "absent"
                           /\ \A t \in Sessions : StateOf(t) = "REGISTERED" => session[t].version # op.v
    BY <1>1, <2>1 DEF SessionTypeOK, InProgress
  <2>4. /\ session' \in [Sessions -> Record] /\ session'[op.s].state = "COMMIT_FAILED"
        /\ session'[op.s].failed = op.v
        /\ \A t \in Sessions : t # op.s => session'[t] = session[t]
    <3>1. session' = [session EXCEPT ![op.s] =
                        [session[op.s] EXCEPT !.state = "COMMIT_FAILED", !.failed = op.v]]
      BY <1>1, <2>1, <2>2 DEF SessionTypeOK
    <3>2. "COMMIT_FAILED" \in SessionStates
      BY DEF SessionStates, Active
    <3>3. [session[op.s] EXCEPT !.state = "COMMIT_FAILED", !.failed = op.v] \in Record
      BY <2>2, <2>3, <3>2 DEF Record
    <3>4. session'[op.s] = [session[op.s] EXCEPT !.state = "COMMIT_FAILED", !.failed = op.v]
      BY <1>1, <2>2, <3>1 DEF SessionTypeOK
    <3>5. /\ session' \in [Sessions -> Record]
          /\ \A t \in Sessions : t # op.s => session'[t] = session[t]
      BY <1>1, <2>2, <3>1, <3>3 DEF SessionTypeOK
    <3>6. session'[op.s].state = "COMMIT_FAILED" /\ session'[op.s].failed = op.v
      BY <2>2, <3>4 DEF Record
    <3>7. QED
      BY <3>5, <3>6
  <2>5. op.s \in assets /\ grid[op.s] = "static"
    BY <1>1, <2>2 DEF Candidates, HasAssets
  <2>6. Candidates'
    BY <1>1, <2>1, <2>4, <2>5 DEF Candidates, StateOf
  <2>7. Registrations'
    <3>1. \A t \in Sessions : StateOf(t)' = "REGISTERED" =>
            t # op.s /\ StateOf(t) = "REGISTERED" /\ session'[t] = session[t]
      BY <2>4 DEF StateOf
    <3>2. \A t \in Sessions : session'[t].failed = IF t = op.s THEN op.v ELSE session[t].failed
      BY <2>4
    <3>3. \A t \in Sessions : session'[t].failed # NoMap =>
            session'[t].failed \in MapVersions /\ version[session'[t].failed] # "absent"
      BY <1>1, <2>3, <3>2 DEF Registrations
    <3>4. ASSUME NEW t \in Sessions, session'[t].state = "REGISTERED"
          PROVE  /\ session'[t].version \in MapVersions /\ version[session'[t].version] = "ready"
                 /\ \A s \in Sessions : session'[s].failed # NoMap =>
                      session'[s].failed # session'[t].version
      <4>1. StateOf(t) = "REGISTERED" /\ session'[t] = session[t]
        BY <3>1, <3>4 DEF StateOf
      <4>2. /\ session[t].version \in MapVersions /\ version[session[t].version] = "ready"
            /\ \A s \in Sessions : session[s].failed # NoMap =>
                 session[s].failed # session[t].version
        BY <1>1, <4>1 DEF Registrations
      <4>3. op.v # NoMap => session[t].version # op.v
        BY <2>3, <4>1
      <4>4. QED
        BY <3>2, <4>1, <4>2, <4>3
    <3>5. QED
      BY <2>1, <3>3, <3>4 DEF Registrations, StateOf
  <2>8. QED
    BY <1>1, <2>1, <2>4, <2>6, <2>7, NoOpIs, EndIs DEF SessionInv, SessionTypeOK
<1>4. CASE Registered
  <2>1. /\ op.at = "imported" /\ version[op.v] = "ready" /\ op' = NoOp
        /\ UNCHANGED <<grid, assets, version>>
        /\ \/ session' = [session EXCEPT ![op.s].state = "REGISTERED", ![op.s].version = op.v]
           \/ session' = session
    BY <1>4 DEF Registered
  <2>2. op.s \in Sessions /\ StateOf(op.s) = "COMMITTING" /\ session[op.s] \in Record
    BY <1>1, <2>1 DEF Placed, SessionTypeOK
  <2>3. /\ op.v \in MapVersions
        /\ \A s \in Sessions : session[s].failed # NoMap => session[s].failed # op.v
    BY <1>1, <2>1 DEF InProgress
  <2>4. op.s \in assets /\ grid[op.s] = "static"
    BY <1>1, <2>2 DEF Candidates, HasAssets
  <2>5. CASE session' = session
    BY <1>1, <2>1, <2>5, NoOpIs, EndIs DEF SessionInv, SessionTypeOK, Candidates, Registrations, StateOf
  <2>6. CASE session' = [session EXCEPT ![op.s].state = "REGISTERED", ![op.s].version = op.v]
    <3>1. session' = [session EXCEPT ![op.s] =
                        [session[op.s] EXCEPT !.state = "REGISTERED", !.version = op.v]]
      BY <1>1, <2>2, <2>6 DEF SessionTypeOK
    <3>2. "REGISTERED" \in SessionStates
      BY DEF SessionStates, Active
    <3>3. [session[op.s] EXCEPT !.state = "REGISTERED", !.version = op.v] \in Record
      BY <2>2, <2>3, <3>2 DEF Record
    <3>4. session'[op.s] = [session[op.s] EXCEPT !.state = "REGISTERED", !.version = op.v]
      BY <1>1, <2>2, <3>1 DEF SessionTypeOK
    <3>5. /\ session' \in [Sessions -> Record]
          /\ \A t \in Sessions : t # op.s => session'[t] = session[t]
      BY <1>1, <2>2, <3>1, <3>3 DEF SessionTypeOK
    <3>6. /\ session'[op.s].state = "REGISTERED" /\ session'[op.s].version = op.v
          /\ session'[op.s].failed = session[op.s].failed
      BY <2>2, <3>4 DEF Record
    <3>7. Candidates'
      BY <1>1, <2>1, <2>4, <3>5, <3>6 DEF Candidates, StateOf
    <3>8. Registrations'
      <4>1. \A t \in Sessions : session'[t].failed = session[t].failed
        BY <3>5, <3>6
      <4>2. QED
        BY <1>1, <2>1, <2>3, <3>5, <3>6, <4>1 DEF Registrations, StateOf
    <3>9. QED
      BY <1>1, <2>1, <3>5, <3>7, <3>8, NoOpIs, EndIs DEF SessionInv, SessionTypeOK
  <2>7. QED
    BY <2>1, <2>5, <2>6
<1>5. ASSUME NEW s \in Sessions, Trash(s) PROVE SessionInv'
  <2>1. /\ version' = IF session[s].failed = NoMap THEN version
                      ELSE [version EXCEPT ![session[s].failed] = "deleted"]
        /\ op' = NoOp
    BY <1>5 DEF Trash
  <2>2. /\ DOMAIN version' = MapVersions
        /\ \A w \in MapVersions : version'[w] = IF session[s].failed # NoMap /\ w = session[s].failed
                                                THEN "deleted" ELSE version[w]
    BY <1>1, <2>1 DEF SessionTypeOK
  <2>3. CASE StateOf(s) = "COMMITTING"
    <3>1. UNCHANGED <<session, grid, assets>>
      BY <1>5, <2>3 DEF Trash
    <3>2. Registrations' /\ Candidates'
      BY <1>1, <2>2, <3>1 DEF Registrations, Candidates, StateOf
    <3>3. QED
      BY <1>1, <2>1, <2>2, <3>1, <3>2, NoOpIs, EndIs DEF SessionInv, SessionTypeOK
  <2>4. CASE StateOf(s) # "COMMITTING"
    <3>1. /\ session' = [session EXCEPT ![s] = Fresh("DISCARDED")]
          /\ grid' = [grid EXCEPT ![s] = "none"] /\ assets' = assets \ {s}
      BY <1>5, <2>4 DEF Trash
    <3>2. "DISCARDED" \in SessionStates /\ "DISCARDED" \notin HasAssets
      BY DEF SessionStates, HasAssets
    <3>3. /\ session' \in [Sessions -> Record] /\ DOMAIN grid' = Sessions
          /\ session'[s].state = "DISCARDED" /\ session'[s].failed = NoMap
          /\ \A t \in Sessions : t # s => session'[t] = session[t] /\ grid'[t] = grid[t]
      BY <1>1, <3>1, <3>2, FreshIs DEF SessionTypeOK
    <3>4. Candidates'
      BY <1>1, <3>1, <3>2, <3>3 DEF Candidates, StateOf
    <3>5. Registrations'
      BY <1>1, <2>2, <3>3 DEF Registrations, StateOf
    <3>6. QED
      BY <1>1, <2>1, <2>2, <3>3, <3>4, <3>5, NoOpIs, EndIs DEF SessionInv, SessionTypeOK
  <2>5. QED
    BY <2>3, <2>4
<1>6. CASE DiscardAborted
  <2>1. Trash(op.s) /\ op.s \in Sessions
    BY <1>1, <1>6 DEF DiscardAborted, Placed
  <2>2. QED
    BY <1>5, <2>1
<1>7. CASE \E s \in Sessions : Discard(s)
  BY <1>5, <1>7 DEF Discard
<1>8. QED
  BY <1>2, <1>3, <1>4, <1>6, <1>7

LEMMA SessionInvStep == SessionInv /\ [SessionNext]_allVars => SessionInv'
<1> SUFFICES ASSUME SessionInv, [SessionNext]_allVars PROVE SessionInv'
  OBVIOUS
<1>1. CASE Operation
  BY <1>1, EndStateKeeps, GoOnStateKeeps, NewOpKeeps, SameStateKeeps, BesideKeeps, VersionsKeep
     DEF Operation
<1>2. CASE ModeManager \/ Console \/ UNCHANGED allVars
  BY <1>2, BesideKeeps
<1>3. QED
  BY <1>1, <1>2 DEF SessionNext

LEMMA SessionInvImplies == SessionInv => CandidateIsBuilt
BY DEF SessionInv, Candidates, Registrations, HasAssets, CandidateIsBuilt

\* What may be committed is the whole candidate of a build, and what is registered has its
\* geometry and a version that is ready, whatever fails and crashes (mapping_session.py finalize,
\* commit and discard).
THEOREM CandidateAlwaysBuilt == SessionSpec => []CandidateIsBuilt
<1>1. SessionInit => SessionInv
  BY SessionInitInv
<1>2. SessionInv /\ [SessionNext]_allVars => SessionInv'
  BY SessionInvStep
<1>3. SessionInv => CandidateIsBuilt
  BY SessionInvImplies
<1>4. QED
  BY <1>1, <1>2, <1>3, PTL DEF SessionSpec

-----------------------------------------------------------------------------
(* The captures of the sessions: what runs for a session, while mode goals *)
(* come one at a time and none was given up.                               *)

Captures == {p \in Live("MAPPING") : running[p].args \in Sessions}
Commanding == {"stopping", "undoing", "aborting"}

\* The goal of an operation that stops the chain: under way, or done and nothing captures.
Stopping ==
  \/ Busy(op.goal) /\ request[op.goal] = Idle
  \/ pc[op.goal] = "done" /\ result[op.goal] = "success" /\ Captures = {}

CaptureInv ==
  /\ \A p \in Captures : StateOf(running[p].args) \in Capturing \ {"WAITING_ASSETS"}
  /\ \A g \in Goals : Busy(g) /\ request[g].args \in Sessions =>
       op.at = "starting" /\ op.goal = g /\ op.s = request[g].args
  /\ op.at \in {"starting"} \cup Commanding => op.goal \in Goals
  /\ op.at \in Commanding => Stopping

ManagerInv == ModesInv /\ SessionInv /\ (~overlapped /\ ~givenUp => CaptureInv)

\* What a step of the mode manager does with the goal that takes it.
LEMMA GoalStep ==
  ASSUME Single, NEW g \in Goals, Execute(g)
  PROVE  /\ Busy(g)
         /\ \A h \in Goals : h # g => /\ pc'[h] = pc[h] /\ request'[h] = request[h]
                                      /\ result'[h] = result[h]
         /\ \/ Busy(g)' /\ request' = request
            \/ pc[g] = "report" /\ pc'[g] = "done" /\ result' = result /\ running' = running
<1>1. /\ DOMAIN pc = Goals /\ DOMAIN request = Goals /\ DOMAIN result = Goals
      /\ pc \in [Goals -> Places]
  BY DEF Single, ModesTypeOK
<1>2. CASE Report(g)
  BY <1>1, <1>2 DEF Report, Go, Busy
<1>3. CASE ~Report(g)
  <2>1. /\ Busy(g) /\ request' = request
        /\ result' = result \/ \E x : result' = [result EXCEPT ![g] = x]
        /\ pc' = pc \/ \E x \in Places \ {"idle", "done"} : pc' = [pc EXCEPT ![g] = x]
    <3>1. CASE BeginGoal(g)
      BY <3>1 DEF BeginGoal, Go, Busy, Places
    <3>2. CASE StopMode(g)
      BY <3>2 DEF StopMode, Go, Busy, Places
    <3>3. CASE Stopped(g)
      BY <3>3 DEF Stopped, Go, Busy, Places
    <3>4. CASE AllStopped(g)
      BY <3>4 DEF AllStopped, Go, Busy, Places
    <3>5. ASSUME ContinueGoal(g)
          PROVE  /\ result' = result \/ \E x : result' = [result EXCEPT ![g] = x]
                 /\ \E x \in Places \ {"idle", "done"} : pc' = [pc EXCEPT ![g] = x]
      BY <3>5 DEF ContinueGoal, Go, Places
    <3>6. CASE LookUp(g)
      <4>1. /\ pc[g] = "lookup" /\ request' = request
            /\ \/ ContinueGoal(g)
               \/ pc' = [pc EXCEPT ![g] = "spawn"] /\ result' = result
        BY <3>6 DEF LookUp, Go
      <4>2. QED
        BY <3>5, <4>1 DEF Busy, Places
    <3>7. CASE RegisterProcess(g)
      <4>1. pc[g] = "register" /\ request' = request /\ ContinueGoal(g)
        BY <3>7 DEF RegisterProcess
      <4>2. QED
        BY <3>5, <4>1 DEF Busy
    <3>8. CASE Spawn(g) \/ SpawnFails(g)
      BY <3>8 DEF Spawn, SpawnFails, Go, Busy, Places
    <3>9. CASE Healthy(g) \/ Unhealthy(g)
      BY <3>9 DEF Healthy, Unhealthy, Go, Busy, Places
    <3>10. QED
      BY <1>3, <3>1, <3>2, <3>3, <3>4, <3>6, <3>7, <3>8, <3>9 DEF Execute
  <2>2. Busy(g)' /\ \A h \in Goals : h # g => pc'[h] = pc[h]
    BY <1>1, <2>1 DEF Busy
  <2>3. \A h \in Goals : h # g => result'[h] = result[h]
    BY <1>1, <2>1
  <2>4. QED
    BY <2>1, <2>2, <2>3
<1>4. QED
  BY <1>2, <1>3

\* A process is started with the profile and the arguments of a goal under way.
LEMMA ProcessStep ==
  ASSUME Single, ModesStep, NEW p \in Processes
  PROVE  \/ running'[p] \in {running[p], None}
         \/ \E g \in Goals :
              /\ Busy(g) /\ job[g].profile \in {"SENSOR_ONLY", request[g].profile}
              /\ running'[p] = [profile |-> job[g].profile, args |-> request[g].args]
<1>1. DOMAIN running = Processes
  BY DEF Single, ModesTypeOK
<1>2. CASE \E q \in Processes : Dies(q)
  BY <1>1, <1>2 DEF Dies
<1>3. ASSUME NEW g \in Goals, Stopped(g) PROVE running'[p] \in {running[p], None}
  BY <1>1, <1>3 DEF Stopped
<1>4. ASSUME NEW g \in Goals, Spawn(g)
      PROVE  \/ running'[p] \in {running[p], None}
             \/ /\ Busy(g) /\ job[g].profile \in {"SENSOR_ONLY", request[g].profile}
                /\ running'[p] = [profile |-> job[g].profile, args |-> request[g].args]
  <2>1. pc[g] = "spawn"
    BY <1>4 DEF Spawn
  <2>2. Busy(g) /\ job[g].profile \in {"SENSOR_ONLY", request[g].profile}
    BY <2>1 DEF Busy, Single, GoalInv, Working
  <2>3. PICK q \in Processes :
          running' = [running EXCEPT ![q] = [profile |-> job[g].profile, args |-> request[g].args]]
    BY <1>4 DEF Spawn
  <2>4. QED
    BY <1>1, <2>2, <2>3
<1>5. ASSUME NEW g \in Goals, Execute(g), ~Stopped(g), ~Spawn(g) PROVE running' = running
  BY <1>5 DEF Execute, BeginGoal, StopMode, AllStopped, LookUp, SpawnFails, RegisterProcess,
     Healthy, Unhealthy, Report
<1>6. QED
  BY <1>2, <1>3, <1>4, <1>5 DEF ModesStep

\* A goal that stops everything reports only when nothing runs.
LEMMA IdleReports ==
  ASSUME Single, NEW g \in Goals, pc[g] = "report", request[g] = Idle
  PROVE  result[g] = "success" /\ Live("MAPPING") = {}
<1>1. Working(g) /\ request[g].mode = "IDLE"
  BY DEF Single, GoalInv, Idle
<1>2. todo[g] = {} /\ Cleared(g) /\ result[g] = "success"
  BY <1>1 DEF Working
<1>3. "MAPPING" \in Stops2(request[g]) \ todo[g] /\ InHand(g) = {}
  BY <1>1, <1>2 DEF Stops2, InHand, Modes, Main
<1>4. QED
  BY <1>2, <1>3 DEF Cleared

LEMMA RequestsAre ==
  /\ \A s : Named(MappingFor(s)) /\ MappingFor(s).args = s /\ MappingFor(s).profile = "MAPPING"
  /\ Named(Idle) /\ Idle.args \notin Sessions
BY NoSessionAssumption DEF Named, MappingFor, Idle, Modes, Main

LEMMA CapturesStep ==
  ASSUME Single, SessionInv, CaptureInv, ModesStep
  PROVE  \A p \in Captures' :
           \/ p \in Captures /\ running'[p] = running[p]
           \/ op.at = "starting" /\ op.s = running'[p].args
<1> SUFFICES ASSUME NEW p \in Processes, Runs(p, "MAPPING")', running'[p].args \in Sessions,
                    ~(p \in Captures /\ running'[p] = running[p])
             PROVE  op.at = "starting" /\ op.s = running'[p].args
  BY DEF Captures, Live
<1>1. running'[p] # None /\ running'[p].profile = "MAPPING" /\ running'[p] # running[p]
  BY DEF Runs, Captures, Live
<1>2. PICK g \in Goals : /\ Busy(g)
                         /\ running'[p] = [profile |-> job[g].profile, args |-> request[g].args]
  BY <1>1, ProcessStep
<1>3. running'[p].args = request[g].args
  BY <1>2
<1>4. QED
  BY <1>2, <1>3 DEF CaptureInv

LEMMA CaptureModesStep ==
  ASSUME Single, SessionInv, CaptureInv, ModesStep, UNCHANGED <<session, op>>
  PROVE  CaptureInv'
<1>1. \A g \in Goals : \/ Busy(g) /\ Busy(g)' /\ request'[g] = request[g]
                       \/ /\ pc'[g] = pc[g] /\ request'[g] = request[g] /\ result'[g] = result[g]
                          /\ ~Busy(g)'
                       \/ /\ pc[g] = "report" /\ pc'[g] = "done" /\ result'[g] = result[g]
                          /\ running' = running
  <2>1. CASE \E p \in Processes : Dies(p)
    BY <2>1 DEF Dies, Busy
  <2>2. ASSUME NEW h \in Goals, Execute(h), NEW g \in Goals
        PROVE  \/ Busy(g) /\ Busy(g)' /\ request'[g] = request[g]
               \/ /\ pc'[g] = pc[g] /\ request'[g] = request[g] /\ result'[g] = result[g]
                  /\ ~Busy(g)'
               \/ /\ pc[g] = "report" /\ pc'[g] = "done" /\ result'[g] = result[g]
                  /\ running' = running
    <3>1. CASE g = h
      BY <2>2, <3>1, GoalStep
    <3>2. CASE g # h
      BY <2>2, <3>2, GoalStep DEF Busy
    <3>3. QED
      BY <3>1, <3>2
  <2>3. QED
    BY <2>1, <2>2 DEF ModesStep
<1>2. ASSUME NEW p \in Captures'
      PROVE  session'[running'[p].args].state \in Capturing \ {"WAITING_ASSETS"}
  <2>1. CASE p \in Captures /\ running'[p] = running[p]
    BY <2>1 DEF CaptureInv, StateOf
  <2>2. CASE op.at = "starting" /\ op.s = running'[p].args
    <3>1. session[op.s].state = "STARTING"
      BY <2>2 DEF SessionInv, Placed, StateOf
    <3>2. QED
      BY <2>2, <3>1 DEF StateOf, Capturing
  <2>3. QED
    BY <1>2, <2>1, <2>2, CapturesStep
<1>3. ASSUME NEW g \in Goals, Busy(g)', request'[g].args \in Sessions
      PROVE  op'.at = "starting" /\ op'.goal = g /\ op'.s = request'[g].args
  <2>1. Busy(g) /\ request'[g] = request[g]
    BY <1>1, <1>3 DEF Busy
  <2>2. QED
    BY <1>3, <2>1 DEF CaptureInv
<1>4. ASSUME op.at \in Commanding PROVE Stopping'
  <2>1. op.goal \in Goals /\ Stopping /\ op.at # "starting"
    BY <1>4 DEF CaptureInv, Commanding
  <2>2. Captures' \subseteq Captures
    BY <2>1, CapturesStep
  <2>3. CASE pc[op.goal] = "done"
    <3>1. pc'[op.goal] = "done" /\ result'[op.goal] = result[op.goal]
      BY <1>1, <2>1, <2>3 DEF Busy
    <3>2. result[op.goal] = "success" /\ Captures = {}
      BY <2>1, <2>3 DEF Stopping, Busy
    <3>3. QED
      BY <2>2, <3>1, <3>2 DEF Stopping
  <2>4. CASE pc[op.goal] # "done"
    <3>1. Busy(op.goal) /\ request[op.goal] = Idle
      BY <2>1, <2>4 DEF Stopping
    <3>2. CASE Busy(op.goal)' /\ request'[op.goal] = request[op.goal]
      BY <3>1, <3>2 DEF Stopping, Idle
    <3>3. CASE /\ pc[op.goal] = "report" /\ pc'[op.goal] = "done"
               /\ result'[op.goal] = result[op.goal] /\ running' = running
      <4>1. result[op.goal] = "success" /\ Live("MAPPING") = {}
        BY <2>1, <3>1, <3>3, IdleReports
      <4>2. QED
        BY <2>2, <3>3, <4>1 DEF Stopping, Captures
    <3>4. QED
      BY <1>1, <2>1, <3>1, <3>2, <3>3 DEF Busy
  <2>5. QED
    BY <2>3, <2>4
<1>5. QED
  BY <1>2, <1>3, <1>4 DEF CaptureInv, Commanding, StateOf

\* Where no goal is sent and none is awaited afterwards.
LEMMA QuietKeeps ==
  ASSUME CaptureInv, UNCHANGED modeVars,
         op'.at \notin {"starting"} \cup Commanding,
         op.at = "starting" => ~Busy(op.goal),
         \A p \in Captures : session'[running[p].args].state \in Capturing \ {"WAITING_ASSETS"}
  PROVE  CaptureInv'
<1>1. Captures' = Captures /\ running' = running
  BY DEF modeVars, Captures, Live, Runs
<1>2. \A g \in Goals : Busy(g)' => Busy(g) /\ request'[g] = request[g]
  BY DEF modeVars, Busy
<1>3. \A g \in Goals : Busy(g)' => request'[g].args \notin Sessions
  BY <1>2 DEF CaptureInv
<1>4. QED
  BY <1>1, <1>3 DEF CaptureInv, StateOf

\* Where a goal is sent.
LEMMA SendKeeps ==
  ASSUME ModesInv, CaptureInv, NEW g \in Goals, NEW r, Submit(g, r), ~overlapped',
         \A p \in Captures : session'[running[p].args].state \in Capturing \ {"WAITING_ASSETS"},
         r.args \in Sessions => op'.at = "starting" /\ op'.goal = g /\ op'.s = r.args,
         \/ op' = op /\ op.goal # g
         \/ op'.goal = g /\ (op'.at \in Commanding => r = Idle)
  PROVE  CaptureInv'
<1>1. /\ running' = running /\ pc' = [pc EXCEPT ![g] = "accepted"]
      /\ request' = [request EXCEPT ![g] = r] /\ result' = [result EXCEPT ![g] = "none"]
  BY DEF Submit, Go
<1>2. ~overlapped /\ \A h \in Goals : ~Busy(h)
  BY Zenon DEF Submit
<1>3. DOMAIN pc = Goals /\ DOMAIN request = Goals /\ DOMAIN result = Goals
  BY <1>2 DEF ModesInv, Single, ModesTypeOK
<1>4. /\ pc'[g] = "accepted" /\ request'[g] = r
      /\ \A h \in Goals : h # g => /\ pc'[h] = pc[h] /\ request'[h] = request[h]
                                   /\ result'[h] = result[h]
  BY <1>1, <1>3
<1>5. Captures' = Captures
  BY <1>1 DEF Captures, Live, Runs
<1>6. \A h \in Goals : Busy(h)' => h = g
  BY <1>2, <1>4 DEF Busy
<1>7. ASSUME op'.at \in {"starting"} \cup Commanding PROVE op'.goal \in Goals
  BY <1>7 DEF CaptureInv
<1>8. ASSUME op'.at \in Commanding PROVE Stopping'
  <2>1. CASE op'.goal = g
    BY <1>4, <1>8, <2>1 DEF Stopping, Busy, Commanding, Idle
  <2>2. CASE op' = op /\ op.goal # g
    <3>1. op.goal \in Goals /\ Stopping
      BY <1>8, <2>2 DEF CaptureInv
    <3>2. pc[op.goal] = "done" /\ result[op.goal] = "success" /\ Captures = {}
      BY <1>2, <3>1 DEF Stopping
    <3>3. QED
      BY <1>4, <1>5, <2>2, <3>1, <3>2 DEF Stopping
  <2>3. QED
    BY <2>1, <2>2
<1>9. QED
  BY <1>1, <1>4, <1>5, <1>6, <1>7, <1>8 DEF CaptureInv, StateOf

\* What an operation that stops the chain finds in the answer.
LEMMA AnswerIs ==
  ASSUME CaptureInv, op.at \in Commanding, Answer # "none"
  PROVE  Answer = "success" /\ Captures = {}
BY DEF CaptureInv, Stopping, Answer, Busy

LEMMA OpenCaptures ==
  ASSUME SessionInv, CaptureInv, NEW s \in Sessions,
         \A t \in Sessions : t # s => session'[t] = session[t],
         \/ StateOf(s) \notin Capturing \ {"WAITING_ASSETS"}
         \/ session'[s].state \in Capturing \ {"WAITING_ASSETS"}
         \/ Captures = {}
  PROVE  \A p \in Captures : session'[running[p].args].state \in Capturing \ {"WAITING_ASSETS"}
<1> SUFFICES ASSUME NEW p \in Captures
             PROVE  session'[running[p].args].state \in Capturing \ {"WAITING_ASSETS"}
  OBVIOUS
<1>1. running[p].args \in Sessions /\ StateOf(running[p].args) \in Capturing \ {"WAITING_ASSETS"}
  BY DEF CaptureInv, Captures
<1>2. QED
  BY <1>1 DEF StateOf

LEMMA ToOpen ==
  ASSUME SessionInv, NEW s \in Sessions, NEW x, To(s, x)
  PROVE  session'[s].state = x /\ \A t \in Sessions : t # s => session'[t] = session[t]
<1>1. session[s] \in Record /\ DOMAIN session = Sessions
  BY DEF SessionInv, SessionTypeOK
<1>2. session' = [session EXCEPT ![s] = [session[s] EXCEPT !.state = x]]
  BY <1>1 DEF To
<1>3. QED
  BY <1>1, <1>2 DEF Record

Quiet ==
  \/ MarkStarting \/ Started \/ Undone \/ SaveFails \/ GridRejected
  \/ CaptureStopped \/ StopFails
  \/ AssetsReady \/ AssetsFail \/ Build \/ BuildFails \/ ReportRejected
  \/ PromoteImage \/ PromoteYaml
  \/ CandidateReady \/ ImportVersion \/ CommitFails \/ Registered
  \/ Aborted \/ AbortFails \/ DiscardAborted
  \/ \E s \in Sessions : \/ Prepare(s) \/ Finalize(s) \/ Retry(s) \/ Commit(s) \/ Discard(s)

LEMMA QuietOps ==
  ASSUME SessionInv, CaptureInv, Quiet, ~givenUp'
  PROVE  CaptureInv'
<1> USE DEF At, End
<1>0. op' = NoOp => op'.at = "none"
  BY NoOpIs
<1>1. SessionTypeOK /\ Placed
  BY DEF SessionInv
<1>2. CASE MarkStarting
  <2>1. /\ op.at = "prepared" /\ To(op.s, "STARTING") /\ op' = [op EXCEPT !.at = "launch"]
        /\ UNCHANGED modeVars
    BY <1>2 DEF MarkStarting, Go2
  <2>2. op.s \in Sessions /\ op'.at = "launch"
    BY <1>1, <2>1 DEF Placed, SessionTypeOK
  <2>3. \A p \in Captures : session'[running[p].args].state \in Capturing \ {"WAITING_ASSETS"}
    BY <2>1, <2>2, ToOpen, OpenCaptures DEF Capturing
  <2>4. QED
    BY <2>1, <2>2, <2>3, QuietKeeps DEF Commanding
<1>3. CASE Started
  <2>1. /\ op.at = "starting" /\ Answer = "success" /\ To(op.s, "MAPPING") /\ op' = NoOp
        /\ UNCHANGED modeVars
    BY <1>3 DEF Started
  <2>2. op.s \in Sessions /\ ~Busy(op.goal)
    BY <1>1, <2>1 DEF Placed, Answer, Busy
  <2>3. \A p \in Captures : session'[running[p].args].state \in Capturing \ {"WAITING_ASSETS"}
    BY <2>1, <2>2, ToOpen, OpenCaptures DEF Capturing
  <2>4. QED
    BY <1>0, <2>1, <2>2, <2>3, QuietKeeps DEF Commanding
<1>4. CASE Undone \/ StopFails
  <2>1. /\ op.at \in Commanding /\ GiveUp /\ op' = NoOp /\ UNCHANGED modeVars
        /\ \E x : To(op.s, x)
    BY <1>4 DEF Undone, StopFails, Commanding
  <2>2. Answer # "none"
    BY <2>1, Zenon DEF GiveUp
  <2>3. op.s \in Sessions /\ Captures = {} /\ op.at # "starting"
    BY <1>1, <2>1, <2>2, AnswerIs DEF Placed, Commanding
  <2>4. QED
    BY <1>0, <2>1, <2>3, QuietKeeps DEF Commanding
<1>5. CASE SaveFails \/ GridRejected
  <2>1. op.at = "saving" /\ To(op.s, "MAPPING") /\ op' = NoOp /\ UNCHANGED modeVars
    BY <1>5 DEF SaveFails, GridRejected, BackToMapping
  <2>2. op.s \in Sessions
    BY <1>1, <2>1 DEF Placed
  <2>3. \A p \in Captures : session'[running[p].args].state \in Capturing \ {"WAITING_ASSETS"}
    BY <2>1, <2>2, ToOpen, OpenCaptures DEF Capturing
  <2>4. QED
    BY <1>0, <2>1, <2>2, <2>3, QuietKeeps DEF Commanding
<1>6. CASE CaptureStopped \/ Aborted
  <2>1. /\ op.at \in Commanding /\ Answer = "success" /\ UNCHANGED modeVars
        /\ \E x \in {"assets", "trash"} : op' = [op EXCEPT !.at = x]
    BY <1>6 DEF CaptureStopped, Aborted, Commanding, Go2
  <2>2. op'.at \in {"assets", "trash"} /\ Captures = {} /\ op.at # "starting"
    BY <1>1, <2>1, AnswerIs DEF SessionTypeOK, Commanding
  <2>3. QED
    BY <2>1, <2>2, QuietKeeps DEF Commanding
<1>7. CASE AbortFails
  <2>1. /\ op.at = "aborting" /\ GiveUp /\ op' = NoOp /\ UNCHANGED modeVars
        /\ Answer # "success"
    BY <1>7 DEF AbortFails
  <2>2. Answer # "none"
    BY <2>1, Zenon DEF GiveUp
  <2>3. QED
    BY <2>1, <2>2, AnswerIs DEF Commanding
<1>8. CASE AssetsReady \/ AssetsFail \/ BuildFails \/ ReportRejected \/ CandidateReady
           \/ CommitFails \/ Registered
  <2>1. /\ op.at \in {"assets", "import", "imported"} \cup Building /\ UNCHANGED modeVars
        /\ op' = NoOp \/ op' = [op EXCEPT !.at = "build"]
        /\ session' = session \/ \E x : session' = [session EXCEPT ![op.s] = x]
    <3>1. /\ op.s \in Sessions /\ DOMAIN session = Sessions /\ session[op.s] \in Record
          /\ op.at \in {"assets", "import", "imported"} \cup Building
      BY <1>1, <1>8 DEF AssetsReady, AssetsFail, BuildFails, ReportRejected, CandidateReady,
         CommitFails, Registered, Placed, SessionTypeOK, Building
    <3>2. CASE AssetsReady \/ CommitFails \/ Registered
      BY <3>1, <3>2 DEF AssetsReady, CommitFails, Registered, Go2
    <3>3. CASE AssetsFail \/ BuildFails \/ ReportRejected \/ CandidateReady
      BY <3>1, <3>3 DEF AssetsFail, BuildFails, ReportRejected, BuildFailed, CandidateReady, To
    <3>4. QED
      BY <1>8, <3>1, <3>2, <3>3
  <2>2. /\ op.s \in Sessions /\ StateOf(op.s) \in {"WAITING_ASSETS", "BUILDING_STATIC_MAP", "COMMITTING"}
    BY <1>1, <2>1 DEF Placed, Building
  <2>3. \A t \in Sessions : t # op.s => session'[t] = session[t]
    BY <1>1, <2>1 DEF SessionTypeOK
  <2>4. \A p \in Captures : session'[running[p].args].state \in Capturing \ {"WAITING_ASSETS"}
    BY <2>2, <2>3, OpenCaptures DEF Capturing
  <2>5. op'.at \in {"none", "build"}
    BY <1>0, <1>1, <2>1 DEF SessionTypeOK
  <2>6. QED
    BY <2>1, <2>4, <2>5, QuietKeeps DEF Commanding, Building
<1>9. CASE Build \/ PromoteImage \/ PromoteYaml \/ ImportVersion
  <2>1. /\ op.at \in {"build", "built", "promote", "import"} /\ UNCHANGED <<session, modeVars>>
        /\ \E x \in {"built", "promote", "promoted", "imported"} : \E v : op' = [op EXCEPT !.at = x, !.v = v]
    <3>1. op = [op EXCEPT !.v = op.v]
      BY <1>1 DEF SessionTypeOK
    <3>2. CASE ImportVersion
      BY <3>2 DEF ImportVersion
    <3>3. CASE Build \/ PromoteImage \/ PromoteYaml
      <4>1. /\ op.at \in {"build", "built", "promote"} /\ UNCHANGED <<session, modeVars>>
            /\ \E x \in {"built", "promote", "promoted"} : op' = [op EXCEPT !.at = x]
        BY <3>3 DEF Build, PromoteImage, PromoteYaml, Go2
      <4>2. \A x : [op EXCEPT !.at = x] = [op EXCEPT !.at = x, !.v = op.v]
        BY <1>1 DEF SessionTypeOK
      <4>3. QED
        BY <4>1, <4>2
    <3>4. QED
      BY <1>9, <3>2, <3>3
  <2>2. op'.at \in {"built", "promote", "promoted", "imported"}
    BY <1>1, <2>1 DEF SessionTypeOK
  <2>3. \A p \in Captures : session'[running[p].args].state \in Capturing \ {"WAITING_ASSETS"}
    BY <2>1 DEF CaptureInv, StateOf
  <2>4. QED
    BY <2>1, <2>2, <2>3, QuietKeeps DEF Commanding
<1>10. ASSUME NEW s \in Sessions, StateOf(s) \notin Capturing, op.at # "starting", Trash(s)
       PROVE  CaptureInv'
  <2>1. op' = NoOp /\ UNCHANGED modeVars
        /\ (session' = session \/ session' = [session EXCEPT ![s] = Fresh("DISCARDED")])
    BY <1>10 DEF Trash
  <2>2. \A t \in Sessions : t # s => session'[t] = session[t]
    BY <1>1, <2>1 DEF SessionTypeOK
  <2>3. \A p \in Captures : session'[running[p].args].state \in Capturing \ {"WAITING_ASSETS"}
    BY <1>10, <2>2, OpenCaptures
  <2>4. QED
    BY <1>0, <1>10, <2>1, <2>3, QuietKeeps DEF Commanding
<1>11. CASE DiscardAborted
  <2>1. /\ op.at = "trash" /\ Trash(op.s) /\ op.s \in Sessions /\ StateOf(op.s) = "ABORTED"
    BY <1>1, <1>11 DEF DiscardAborted, Placed
  <2>2. QED
    BY <1>10, <2>1 DEF Capturing
<1>12. ASSUME NEW s \in Sessions, Discard(s) PROVE CaptureInv'
  <2>1. op.at = "none" /\ StateOf(s) \notin Capturing /\ Trash(s)
    BY <1>12 DEF Discard
  <2>2. QED
    BY <1>10, <2>1
<1>13. ASSUME NEW s \in Sessions, Prepare(s) \/ Finalize(s) \/ Retry(s) \/ Commit(s)
       PROVE  CaptureInv'
  <2>1. /\ op.at = "none" /\ UNCHANGED modeVars
        /\ op' = op \/ \E x \in {"prepared", "saving", "build", "import"} :
                         op' = [NoOp EXCEPT !.at = x, !.s = s]
    BY <1>13 DEF Prepare, Finalize, Retry, Commit
  <2>2. op'.at \in {"none", "prepared", "saving", "build", "import"}
    BY <2>1, NoOpIs
  <2>3. /\ \E x : To(s, x)
        /\ \/ StateOf(s) \notin Capturing \ {"WAITING_ASSETS"}
           \/ To(s, "SAVING_GRID")
    BY <1>13 DEF Prepare, Finalize, Retry, Commit, Capturing
  <2>4. /\ \A t \in Sessions : t # s => session'[t] = session[t]
        /\ \/ StateOf(s) \notin Capturing \ {"WAITING_ASSETS"}
           \/ session'[s].state \in Capturing \ {"WAITING_ASSETS"}
    BY <2>3, ToOpen DEF Capturing
  <2>5. \A p \in Captures : session'[running[p].args].state \in Capturing \ {"WAITING_ASSETS"}
    BY <2>4, OpenCaptures
  <2>6. QED
    BY <2>1, <2>2, <2>5, QuietKeeps DEF Commanding
<1>14. QED
  BY <1>2, <1>3, <1>4, <1>5, <1>6, <1>7, <1>8, <1>9, <1>11, <1>12, <1>13 DEF Quiet

LEMMA SendingOps ==
  ASSUME ModesInv, SessionInv, CaptureInv, ~overlapped', ~givenUp',
         \/ Launch \/ LaunchFails \/ GridSaved \/ Console
         \/ \E s \in Sessions : DiscardCapture(s)
  PROVE  CaptureInv'
<1> USE DEF At, End
<1>1. SessionTypeOK /\ Placed
  BY DEF SessionInv
<1>2. CASE Launch
  <2>1. PICK g \in Goals : /\ Submit(g, MappingFor(op.s))
                           /\ op' = [op EXCEPT !.at = "starting", !.goal = g]
                           /\ op.at = "launch" /\ session' = session
    BY <1>2 DEF Launch, Send
  <2>2. op'.at = "starting" /\ op'.goal = g /\ op'.s = op.s
    BY <1>1, <2>1 DEF SessionTypeOK
  <2>3. \A p \in Captures : session'[running[p].args].state \in Capturing \ {"WAITING_ASSETS"}
    BY <2>1 DEF CaptureInv, StateOf
  <2>4. QED
    BY <2>1, <2>2, <2>3, RequestsAre, SendKeeps DEF Commanding
<1>3. CASE LaunchFails
  <2>1. PICK g \in Goals : /\ Submit(g, Idle)
                           /\ op' = [op EXCEPT !.at = "undoing", !.goal = g]
                           /\ session' = session
    BY <1>3 DEF LaunchFails, Send
  <2>2. op'.at = "undoing" /\ op'.goal = g
    BY <1>1, <2>1 DEF SessionTypeOK
  <2>3. \A p \in Captures : session'[running[p].args].state \in Capturing \ {"WAITING_ASSETS"}
    BY <2>1 DEF CaptureInv, StateOf
  <2>4. QED
    BY <2>1, <2>2, <2>3, RequestsAre, SendKeeps
<1>4. CASE GridSaved
  <2>1. PICK g \in Goals : /\ Submit(g, Idle)
                           /\ op' = [op EXCEPT !.at = "stopping", !.goal = g]
                           /\ op.at = "saving" /\ To(op.s, "STOPPING_MAPPING")
    BY <1>4 DEF GridSaved, Send
  <2>2. op'.at = "stopping" /\ op'.goal = g /\ op.s \in Sessions
    BY <1>1, <2>1 DEF SessionTypeOK, Placed
  <2>3. \A p \in Captures : session'[running[p].args].state \in Capturing \ {"WAITING_ASSETS"}
    BY <2>1, <2>2, ToOpen, OpenCaptures DEF Capturing
  <2>4. QED
    BY <2>1, <2>2, <2>3, RequestsAre, SendKeeps
<1>5. ASSUME NEW s \in Sessions, DiscardCapture(s) PROVE CaptureInv'
  <2>1. PICK g \in Goals : /\ Submit(g, Idle)
                           /\ op' = [NoOp EXCEPT !.at = "aborting", !.s = s, !.goal = g]
                           /\ session' = session
    BY <1>5 DEF DiscardCapture
  <2>2. op'.at = "aborting" /\ op'.goal = g
    BY <1>1, <2>1, NoOpIs
  <2>3. \A p \in Captures : session'[running[p].args].state \in Capturing \ {"WAITING_ASSETS"}
    BY <2>1 DEF CaptureInv, StateOf
  <2>4. QED
    BY <2>1, <2>2, <2>3, RequestsAre, SendKeeps
<1>6. CASE Console
  <2>1. PICK g \in Goals, r \in ConsoleRequests :
          g # op.goal /\ Submit(g, r) /\ UNCHANGED <<session, op>>
    BY <1>6 DEF Console, sessionVars
  <2>2. r.args \notin Sessions
    BY ConsoleAssumption
  <2>3. \A p \in Captures : session'[running[p].args].state \in Capturing \ {"WAITING_ASSETS"}
    BY <2>1 DEF CaptureInv, StateOf
  <2>4. QED
    BY <2>1, <2>2, <2>3, SendKeeps
<1>7. QED
  BY <1>2, <1>3, <1>4, <1>5, <1>6

\* The modes are those of the mode manager, whatever the sessions ask of it.
LEMMA ModesKept ==
  ASSUME ModesInv, SessionNext
  PROVE  ModesInv' /\ (~overlapped' => ~overlapped)
<1>1. ASSUME NEW g \in Goals, NEW r, Named(r), Submit(g, r)
      PROVE  ModesInv' /\ (~overlapped' => ~overlapped)
  <2>1. ~overlapped' => ~overlapped
    BY <1>1, Zenon DEF Submit
  <2>2. QED
    BY <1>1, <2>1, SubmitKeeps
<1>2. ASSUME UNCHANGED modeVars PROVE ModesInv' /\ (~overlapped' => ~overlapped)
  <2>1. ModesInv'
    BY <1>2, ModesInvStep
  <2>2. QED
    BY <1>2, <2>1 DEF modeVars
<1>3. CASE ModeManager
  <2>1. ModesStep
    BY <1>3 DEF ModeManager
  <2>2. ModesInv'
    BY <2>1, ModesInvStep DEF ModesNext
  <2>3. overlapped' = overlapped
    BY <2>1 DEF ModesStep, Execute, BeginGoal, StopMode, Stopped, AllStopped, LookUp, Spawn,
       SpawnFails, RegisterProcess, Healthy, Unhealthy, Report, Dies
  <2>4. QED
    BY <2>2, <2>3
<1>4. CASE Console
  BY <1>1, <1>4, ConsoleAssumption DEF Console
<1>5. CASE Launch \/ LaunchFails \/ GridSaved \/ \E s \in Sessions : DiscardCapture(s)
  <2>1. PICK g \in Goals : Submit(g, MappingFor(op.s)) \/ Submit(g, Idle)
    BY <1>5 DEF Launch, LaunchFails, GridSaved, Send, DiscardCapture
  <2>2. QED
    BY <1>1, <2>1, RequestsAre
<1>6. ASSUME Operation, ~(Launch \/ LaunchFails \/ GridSaved \/ \E s \in Sessions : DiscardCapture(s))
      PROVE  UNCHANGED modeVars
  BY <1>6 DEF Operation, MarkStarting, Started, Undone, SaveFails, GridRejected, BackToMapping,
     CaptureStopped, StopFails, AssetsReady, AssetsFail, Build, BuildFails, ReportRejected,
     BuildFailed, PromoteImage, PromoteYaml, CandidateReady, ImportVersion, CommitFails,
     Registered, Aborted, AbortFails, DiscardAborted, Trash, SupervisorCrash, Prepare, Finalize,
     Retry, Commit, Discard, Edit
<1>7. QED
  BY <1>2, <1>3, <1>4, <1>5, <1>6 DEF SessionNext

LEMMA GivenUpStays == ASSUME SessionNext, ~givenUp' PROVE ~givenUp
<1>1. CASE givenUp' = givenUp
  BY <1>1
<1>2. CASE LaunchFails \/ Undone \/ StopFails \/ AbortFails
  <2>1. GiveUp
    BY <1>2 DEF LaunchFails, Undone, StopFails, AbortFails
  <2>2. QED
    BY <2>1, Zenon DEF GiveUp
<1>3. CASE SupervisorCrash
  <2>1. givenUp' = (givenUp \/ op.goal # NoGoal)
    BY <1>3 DEF SupervisorCrash
  <2>2. QED
    BY <2>1, Zenon
<1>4. ASSUME ~(LaunchFails \/ Undone \/ StopFails \/ AbortFails \/ SupervisorCrash)
      PROVE  givenUp' = givenUp
  BY <1>4 DEF SessionNext, ModeManager, Console, sessionVars,
     Operation, MarkStarting, Launch, Started, GridSaved, SaveFails, GridRejected, BackToMapping,
     CaptureStopped, AssetsReady, AssetsFail, Build, BuildFails, ReportRejected,
     BuildFailed, PromoteImage, PromoteYaml, CandidateReady, ImportVersion, CommitFails,
     Registered, Aborted, DiscardAborted, Trash, Prepare, Finalize,
     Retry, Commit, DiscardCapture, Discard, Edit
<1>5. QED
  BY <1>1, <1>2, <1>3, <1>4

LEMMA CaptureStep ==
  ASSUME ModesInv, SessionInv, CaptureInv, SessionNext, ~overlapped, ~overlapped', ~givenUp'
  PROVE  CaptureInv'
<1>1. CASE ModeManager
  BY <1>1, CaptureModesStep DEF ModesInv, ModeManager
<1>2. CASE Console
  BY <1>2, SendingOps
<1>3. CASE SupervisorCrash
  <2>1. op.goal = NoGoal /\ op' = NoOp /\ UNCHANGED <<session, modeVars>>
    <3>1. givenUp' = (givenUp \/ op.goal # NoGoal)
      BY <1>3 DEF SupervisorCrash
    <3>2. op.goal = NoGoal
      BY <3>1, Zenon
    <3>3. QED
      BY <1>3, <3>2 DEF SupervisorCrash, End
  <2>2. op.at \notin {"starting"} \cup Commanding
    BY <2>1, NoGoalAssumption DEF CaptureInv
  <2>3. \A p \in Captures : session'[running[p].args].state \in Capturing \ {"WAITING_ASSETS"}
    BY <2>1 DEF CaptureInv, StateOf
  <2>4. QED
    BY <2>1, <2>2, <2>3, NoOpIs, QuietKeeps DEF Commanding
<1>4. CASE \E s \in Sessions : Edit(s)
  <2>1. UNCHANGED <<session, op, modeVars>>
    BY <1>4 DEF Edit
  <2>2. QED
    BY <2>1 DEF modeVars, CaptureInv, Captures, Stopping, Live, Runs, Busy, StateOf
<1>5. CASE Launch \/ LaunchFails \/ GridSaved \/ \E s \in Sessions : DiscardCapture(s)
  BY <1>5, SendingOps
<1>6. CASE Quiet
  BY <1>6, QuietOps
<1>7. QED
  BY <1>1, <1>2, <1>3, <1>4, <1>5, <1>6 DEF SessionNext, Operation, Quiet

LEMMA ManagerInvStep == ManagerInv /\ [SessionNext]_allVars => ManagerInv'
<1> SUFFICES ASSUME ManagerInv, [SessionNext]_allVars PROVE ManagerInv'
  OBVIOUS
<1>1. ModesInv /\ SessionInv /\ SessionInv'
  BY SessionInvStep DEF ManagerInv
<1>2. CASE SessionNext
  <2>1. ModesInv' /\ (~overlapped' => ~overlapped)
    BY <1>1, <1>2, ModesKept
  <2>2. ~givenUp' => ~givenUp
    BY <1>2, GivenUpStays
  <2>3. ASSUME ~overlapped', ~givenUp' PROVE CaptureInv'
    BY <1>1, <1>2, <2>1, <2>2, <2>3, CaptureStep DEF ManagerInv
  <2>4. QED
    BY <1>1, <2>1, <2>3 DEF ManagerInv
<1>3. CASE UNCHANGED allVars
  <2>1. UNCHANGED modeVars /\ UNCHANGED <<session, op, overlapped, givenUp>>
    BY <1>3 DEF allVars, modeVars, sessionVars
  <2>2. ModesInv'
    BY <1>1, <2>1, ModesInvStep
  <2>3. CaptureInv => CaptureInv'
    BY <2>1 DEF modeVars, CaptureInv, Captures, Stopping, Live, Runs, Busy, StateOf
  <2>4. QED
    BY <1>1, <2>1, <2>2, <2>3 DEF ManagerInv
<1>4. QED
  BY <1>2, <1>3

LEMMA ManagerInitInv == SessionInit => ManagerInv
<1> SUFFICES ASSUME SessionInit PROVE ManagerInv
  OBVIOUS
<1>1. ModesInv /\ SessionInv
  BY ModesInitInv, SessionInitInv DEF SessionInit
<1>2. /\ op.at = "none" /\ running = [p \in Processes |-> None] /\ pc = [g \in Goals |-> "idle"]
  BY NoOpIs DEF SessionInit, ManagerInit, ModesInit
<1>3. Captures = {} /\ \A g \in Goals : ~Busy(g)
  BY <1>2 DEF Captures, Live, Runs, Busy
<1>4. CaptureInv
  BY <1>2, <1>3 DEF CaptureInv, Commanding
<1>5. QED
  BY <1>1, <1>4 DEF ManagerInv

LEMMA ManagerInvImplies == ManagerInv => CaptureHasSession
BY DEF ManagerInv, CaptureInv, Captures, CaptureHasSession

\* While no mode goal was given up, what captures for a session is known to it: no session is
\* built, registered, failed or discarded while its capture still runs (mapping_session.py start,
\* finalize and discard, over mapping_session_manager.py _change_mode).
THEOREM CapturesAlwaysHaveSession == SessionSpec => []CaptureHasSession
<1>1. SessionInit => ManagerInv
  BY ManagerInitInv
<1>2. ManagerInv /\ [SessionNext]_allVars => ManagerInv'
  BY ManagerInvStep
<1>3. ManagerInv => CaptureHasSession
  BY ManagerInvImplies
<1>4. QED
  BY <1>1, <1>2, <1>3, PTL DEF SessionSpec

-----------------------------------------------------------------------------
(* The children of the operations console, while none was left behind and   *)
(* no request acted on a handle that another was about to change.           *)

Handles == Children \cup {NoChild}

ConsoleTypeOK ==
  /\ DOMAIN runs = Children /\ recorder \in Handles /\ replay \in Handles
  /\ DOMAIN at = Threads /\ DOMAIN asked = Threads /\ DOMAIN held = Threads
  /\ DOMAIN child = Threads /\ crossed \in BOOLEAN

\* A child that runs is the one of its handle.
HandleOf(p) ==
  runs[p] # NoWork =>
    \/ runs[p].does = "record" /\ p = recorder
    \/ runs[p].does = "replay" /\ p = replay

\* What a request has found of the handles that it will change.
Found(r) ==
  /\ Starting(r) => backend = "ros"
  /\ asked[r].op = "play" /\ at[r] = "spawn" => ~Alive(replay)
  /\ asked[r].op = "start_bag" /\ at[r] = "spawn" => ~Alive(recorder)
  /\ at[r] = "stop" =>
       IF asked[r].op = "stop_play" THEN replay \in {child[r], NoChild}
                                    ELSE recorder \in {child[r], NoChild}
  /\ at[r] = "clear" => IF asked[r].op = "stop_play" THEN ~Alive(replay) ELSE ~Alive(recorder)

ConsoleInv ==
  /\ ConsoleTypeOK
  /\ ~crossed => (\A r \in Threads : Found(r)) /\ (backend = "offline" => ~Alive(replay))
  /\ ~crossed /\ ~abandoned => \A p \in Children : HandleOf(p)

LEMMA NoWorkIs ==
  /\ NoWork.does = "nothing" /\ \A x, y : [does |-> x, for |-> y].does = x
  /\ NotAsked.op = "none"
BY DEF NoWork, NotAsked

\* What a step of one request leaves to the others, unless they cross.
Effects(r) ==
  /\ \A h \in Threads \ {r} : at'[h] = at[h] /\ asked'[h] = asked[h] /\ child'[h] = child[h]
  /\ \A h \in Threads \ {r} : Starting(h) => backend' \in {backend, "ros"}
  /\ \A h \in Threads \ {r} : UsesReplay(h) =>
       replay' \in {replay, NoChild} /\ (Alive(replay)' => Alive(replay))
  /\ \A h \in Threads \ {r} : UsesRecorder(h) =>
       recorder' \in {recorder, NoChild} /\ (Alive(recorder)' => Alive(recorder))

LEMMA OthersKeep ==
  ASSUME ConsoleInv, ~crossed, NEW r \in Threads, Effects(r)
  PROVE  \A h \in Threads \ {r} : Found(h)'
<1> SUFFICES ASSUME NEW h \in Threads \ {r} PROVE Found(h)'
  OBVIOUS
<1>1. /\ at'[h] = at[h] /\ asked'[h] = asked[h] /\ child'[h] = child[h]
      /\ Starting(h) => backend' \in {backend, "ros"}
      /\ UsesReplay(h) => replay' \in {replay, NoChild} /\ (Alive(replay)' => Alive(replay))
      /\ UsesRecorder(h) =>
           recorder' \in {recorder, NoChild} /\ (Alive(recorder)' => Alive(recorder))
  BY DEF Effects
<1>2. Found(h)
  BY DEF ConsoleInv
<1>3. (Starting(h) => backend = "ros")'
  BY <1>1, <1>2 DEF Found, Starting
<1>4. /\ (asked[h].op = "play" /\ at[h] = "spawn" => ~Alive(replay))'
      /\ (at[h] = "stop" /\ asked[h].op = "stop_play" => replay \in {child[h], NoChild})'
      /\ (at[h] = "clear" /\ asked[h].op = "stop_play" => ~Alive(replay))'
  BY <1>1, <1>2 DEF Found, UsesReplay, ThreadAt
<1>5. /\ (asked[h].op = "start_bag" /\ at[h] = "spawn" => ~Alive(recorder))'
      /\ (at[h] = "stop" /\ asked[h].op # "stop_play" => recorder \in {child[h], NoChild})'
      /\ (at[h] = "clear" /\ asked[h].op # "stop_play" => ~Alive(recorder))'
  BY <1>1, <1>2 DEF Found, UsesRecorder, ThreadAt
<1>6. QED
  BY <1>3, <1>4, <1>5 DEF Found

\* A step of one request keeps the invariant if it keeps what it is about.
LEMMA StepKeeps ==
  ASSUME ConsoleInv, ConsoleTypeOK', NEW r \in Threads, crossed' \in BOOLEAN,
         ~crossed' => /\ ~crossed /\ Effects(r) /\ Found(r)'
                      /\ (backend = "offline" => ~Alive(replay))'
                      /\ ~abandoned' => ~abandoned
                      /\ ~abandoned => \A p \in Children : HandleOf(p) => HandleOf(p)'
  PROVE  ConsoleInv'
<1>1. ASSUME ~crossed' PROVE \A h \in Threads : Found(h)'
  BY <1>1, OthersKeep
<1>2. ASSUME ~crossed', ~abandoned' PROVE \A p \in Children : HandleOf(p)'
  BY <1>2 DEF ConsoleInv
<1>3. QED
  BY <1>1, <1>2 DEF ConsoleInv

LEMMA SameAlive ==
  ASSUME UNCHANGED children PROVE /\ Alive(replay)' = Alive(replay)
                                  /\ Alive(recorder)' = Alive(recorder)
                                  /\ \A p : HandleOf(p)' = HandleOf(p)
BY DEF children, Alive, HandleOf

LEMMA AnswerOf ==
  ASSUME ConsoleTypeOK, NEW r \in Threads, AnswerClient(r)
  PROVE  /\ at'[r] = "idle" /\ DOMAIN at' = Threads /\ DOMAIN asked' = Threads
         /\ DOMAIN held' = Threads /\ DOMAIN child' = Threads
         /\ \A h \in Threads \ {r} : at'[h] = at[h] /\ asked'[h] = asked[h] /\ child'[h] = child[h]
BY DEF AnswerClient, Goes, ConsoleTypeOK

\* A step that touches no handle.
LEMMA QuietKeepsHandles ==
  ASSUME ConsoleInv, ConsoleTypeOK', NEW r \in Threads,
         \A h \in Threads \ {r} : at'[h] = at[h] /\ asked'[h] = asked[h] /\ child'[h] = child[h],
         UNCHANGED <<children, backend, abandoned, crossed>>, ~crossed => Found(r)'
  PROVE  ConsoleInv'
<1>1. ~crossed => Effects(r)
  BY SameAlive DEF Effects, children
<1>2. ~crossed' => (backend = "offline" => ~Alive(replay))'
  BY SameAlive DEF ConsoleInv
<1>3. crossed' \in BOOLEAN
  BY DEF ConsoleInv, ConsoleTypeOK
<1>4. /\ crossed' = crossed /\ abandoned' = abandoned
      /\ \A p \in Children : HandleOf(p) => HandleOf(p)'
  BY SameAlive
<1>5. ~crossed' => /\ ~crossed /\ Effects(r) /\ Found(r)'
                   /\ (backend = "offline" => ~Alive(replay))'
                   /\ ~abandoned' => ~abandoned
                   /\ ~abandoned => \A p \in Children : HandleOf(p) => HandleOf(p)'
  BY <1>1, <1>2, <1>4
<1>6. QED
  BY <1>3, <1>5, StepKeeps

\* A step that answers, and touches no handle.
LEMMA AnswerKeeps ==
  ASSUME ConsoleInv, NEW r \in Threads, AnswerClient(r),
         UNCHANGED <<children, backend, abandoned, crossed>>
  PROVE  ConsoleInv'
<1>1. ConsoleTypeOK
  BY DEF ConsoleInv
<1>2. Found(r)'
  BY <1>1, AnswerOf DEF Found, Starting
<1>3. ConsoleTypeOK'
  BY <1>1, AnswerOf DEF ConsoleTypeOK, children
<1>4. QED
  BY <1>1, <1>2, <1>3, AnswerOf, QuietKeepsHandles

\* A step to another place of the same request, which touches no handle.
LEMMA GoesKeeps ==
  ASSUME ConsoleInv, NEW r \in Threads, NEW place, at' = [at EXCEPT ![r] = place],
         asked' = asked, held' = held \/ \E x : held' = [held EXCEPT ![r] = x],
         child' = child \/ \E x : child' = [child EXCEPT ![r] = x],
         UNCHANGED <<children, backend, abandoned, crossed>>, Found(r)'
  PROVE  ConsoleInv'
<1>1. ConsoleTypeOK
  BY DEF ConsoleInv
<1>2. \A h \in Threads \ {r} : at'[h] = at[h] /\ asked'[h] = asked[h] /\ child'[h] = child[h]
  BY <1>1 DEF ConsoleTypeOK
<1>3. ConsoleTypeOK'
  BY <1>1 DEF ConsoleTypeOK, children
<1>4. QED
  BY <1>2, <1>3, QuietKeepsHandles

LEMMA PlainServes ==
  ASSUME ConsoleInv, NEW r \in Threads,
         \/ CheckMode(r) \/ ModeChanged(r) \/ ModeNotChanged(r)
         \/ CheckReplayMode(r) \/ CheckStopReplay(r)
         \/ Create(r) \/ ReadManifest(r) \/ RefuseExperiment(r) \/ Start(r)
         \/ CheckRecorder(r) \/ NoteBag(r) \/ StopRecorder(r) \/ ChildLives(r) \/ Close(r)
  PROVE  ConsoleInv'
<1> USE DEF ThreadAt
<1>1. ConsoleTypeOK
  BY DEF ConsoleInv
<1>2. UNCHANGED <<children, backend, abandoned, crossed>>
  BY DEF CheckMode, ModeChanged, ModeNotChanged, CheckReplayMode, CheckStopReplay, Create,
     ReadManifest, RefuseExperiment, Start, CheckRecorder, NoteBag, StopRecorder, ChildLives, Close,
     bridge
<1>3. CASE AnswerClient(r)
  BY <1>2, <1>3, AnswerKeeps
<1>4. CASE ~AnswerClient(r)
  <2>1. CASE CheckMode(r) \/ CheckRecorder(r) \/ CheckReplayMode(r)
    <3>1. /\ asked' = asked /\ held' = held /\ child' = child
          /\ \/ asked[r].op = "mode" /\ at' = [at EXCEPT ![r] = "send"]
             \/ asked[r].op = "start_bag" /\ at' = [at EXCEPT ![r] = "spawn"] /\ ~Alive(recorder)
             \/ asked[r].op = "play" /\ at' = [at EXCEPT ![r] = "handles"] /\ backend = "ros"
      BY <1>4, <2>1 DEF CheckMode, CheckRecorder, CheckReplayMode, Goes
    <3>2. Found(r)'
      BY <1>1, <1>2, <3>1, SameAlive DEF Found, Starting, ConsoleTypeOK
    <3>3. QED
      BY <1>2, <3>1, <3>2, GoesKeeps
  <2>2. CASE CheckStopReplay(r)
    <3>1. /\ asked' = asked /\ held' = held /\ child' = [child EXCEPT ![r] = replay]
          /\ at' = [at EXCEPT ![r] = "stop"] /\ asked[r].op = "stop_play"
      BY <1>4, <2>2 DEF CheckStopReplay, Goes
    <3>2. Found(r)'
      BY <1>1, <1>2, <3>1 DEF Found, Starting, ConsoleTypeOK, children
    <3>3. QED
      BY <1>2, <3>1, <3>2, GoesKeeps
  <2>3. CASE ReadManifest(r)
    <3>1. /\ asked' = asked /\ child' = child /\ \E x : held' = [held EXCEPT ![r] = x]
          /\ at' = [at EXCEPT ![r] = "read"]
      BY <2>3 DEF ReadManifest, Goes, Read
    <3>2. Found(r)'
      BY <1>1, <3>1 DEF Found, Starting, ConsoleTypeOK
    <3>3. QED
      BY <1>2, <3>1, <3>2, GoesKeeps
  <2>4. CASE StopRecorder(r)
    <3>1. /\ asked' = asked /\ held' = held /\ asked[r].op \in {"stop_bag", "finalize", "invalid"}
          /\ \/ at' = [at EXCEPT ![r] = "stop"] /\ child' = [child EXCEPT ![r] = recorder]
             \/ at' = [at EXCEPT ![r] = "close"] /\ child' = child
      BY <1>4, <2>4 DEF StopRecorder, Goes
    <3>2. Found(r)'
      BY <1>1, <1>2, <3>1 DEF Found, Starting, ConsoleTypeOK, children
    <3>3. QED
      BY <1>2, <3>1, <3>2, GoesKeeps
  <2>5. QED
    BY <1>4, <2>1, <2>2, <2>3, <2>4 DEF ModeChanged, ModeNotChanged, Create, RefuseExperiment,
       Start, NoteBag, ChildLives, Close
<1>5. QED
  BY <1>3, <1>4

LEMMA ReplayHandlesKeep == ASSUME ConsoleInv, NEW r \in Threads, CheckReplayHandles(r) PROVE ConsoleInv'
<1> USE DEF ThreadAt
<1>1. /\ ConsoleTypeOK /\ asked[r].op = "play" /\ at[r] = "handles"
      /\ runs' = runs /\ recorder' = recorder /\ abandoned' = abandoned /\ backend' = backend
      /\ crossed' = crossed
      /\ replay' = IF Alive(replay) THEN replay ELSE NoChild
  BY DEF ConsoleInv, CheckReplayHandles, bridge
<1>2. Alive(replay)' = Alive(replay) /\ Alive(recorder)' = Alive(recorder)
  BY <1>1 DEF Alive
<1>3. ASSUME NEW p \in Children, HandleOf(p) PROVE HandleOf(p)'
  BY <1>1, <1>3, NoChildAssumption DEF HandleOf, Alive
<1>4. /\ \A h \in Threads \ {r} : at'[h] = at[h] /\ asked'[h] = asked[h] /\ child'[h] = child[h]
      /\ \/ at'[r] = "idle"
         \/ asked'[r] = asked[r] /\ at'[r] = "spawn" /\ ~Alive(replay)
      /\ DOMAIN at' = Threads /\ DOMAIN asked' = Threads /\ DOMAIN held' = Threads
      /\ DOMAIN child' = Threads
  <2>1. CASE AnswerClient(r)
    BY <1>1, <2>1, AnswerOf
  <2>2. CASE ~AnswerClient(r)
    <3>1. at' = [at EXCEPT ![r] = "spawn"] /\ UNCHANGED <<asked, held, child>> /\ ~Alive(replay)
      BY <2>2 DEF CheckReplayHandles, Goes
    <3>2. QED
      BY <1>1, <3>1 DEF ConsoleTypeOK
  <2>3. QED
    BY <2>1, <2>2
<1>5. Effects(r)
  BY <1>1, <1>2, <1>4 DEF Effects
<1>6. ~crossed => Found(r)' /\ (backend = "offline" => ~Alive(replay))'
  BY <1>1, <1>2, <1>4 DEF ConsoleInv, Found, Starting
<1>7. ConsoleTypeOK'
  BY <1>1, <1>4 DEF ConsoleTypeOK, Handles
<1>8. crossed' \in BOOLEAN
  BY <1>1 DEF ConsoleTypeOK
<1>9. QED
  BY <1>1, <1>3, <1>5, <1>6, <1>7, <1>8, StepKeeps

LEMMA SpawnReplayKeeps == ASSUME ConsoleInv, NEW r \in Threads, SpawnReplay(r) PROVE ConsoleInv'
<1> USE DEF ThreadAt
<1>1. /\ ConsoleTypeOK /\ asked[r].op = "play" /\ at[r] = "spawn" /\ Starting(r)
      /\ recorder' = recorder /\ abandoned' = abandoned /\ backend' = backend
      /\ AnswerClient(r)
  BY DEF ConsoleInv, SpawnReplay, bridge, Starting
<1>2. ~crossed => backend = "ros" /\ ~Alive(replay)
  BY <1>1 DEF ConsoleInv, Found
<1>3. CASE UNCHANGED <<runs, replay, crossed>>
  BY <1>1, <1>3, AnswerKeeps DEF children
<1>4. ASSUME NEW p \in Children, FreshChild(p), replay' = p,
             runs' = [runs EXCEPT ![p] = [does |-> "replay", for |-> NoExperiment]],
             crossed' = (crossed \/ \E s \in Threads \ {r} : UsesReplay(s))
      PROVE  ConsoleInv'
  <2>1. /\ runs'[p].does = "replay" /\ \A q \in Children : q # p => runs'[q] = runs[q]
        /\ recorder # p /\ runs[p] = NoWork /\ DOMAIN runs' = Children
    BY <1>1, <1>4, NoWorkIs DEF FreshChild, ConsoleTypeOK
  <2>2. Alive(recorder)' => Alive(recorder)
    BY <1>1, <2>1 DEF Alive, ConsoleTypeOK, Handles
  <2>3. crossed' \in BOOLEAN /\ (~crossed' => ~crossed /\ \A s \in Threads \ {r} : ~UsesReplay(s))
    BY <1>4, Zenon
  <2>4. ASSUME ~crossed, NEW q \in Children, HandleOf(q) PROVE HandleOf(q)'
    <3>1. CASE q = p
      BY <1>4, <2>1, <3>1 DEF HandleOf
    <3>2. CASE q # p
      BY <1>1, <1>2, <2>1, <2>4, <3>2, NoChildAssumption DEF HandleOf, Alive
    <3>3. QED
      BY <3>1, <3>2
  <2>5. ~crossed' => Effects(r)
    BY <1>1, <2>2, <2>3, AnswerOf DEF Effects
  <2>6. Found(r)'
    BY <1>1, AnswerOf DEF Found, Starting
  <2>7. ConsoleTypeOK'
    BY <1>1, <1>4, <2>1, <2>3, AnswerOf DEF ConsoleTypeOK, Handles
  <2>8. ~crossed => (backend = "offline" => ~Alive(replay))'
    BY <1>1, <1>2
  <2>9. QED
    BY <1>1, <2>3, <2>4, <2>5, <2>6, <2>7, <2>8, StepKeeps
<1>5. QED
  BY <1>3, <1>4 DEF SpawnReplay

LEMMA SpawnRecorderKeeps == ASSUME ConsoleInv, NEW r \in Threads, SpawnRecorder(r) PROVE ConsoleInv'
<1> USE DEF ThreadAt
<1>1. /\ ConsoleTypeOK /\ asked[r].op = "start_bag" /\ at[r] = "spawn"
      /\ replay' = replay /\ abandoned' = abandoned /\ backend' = backend
  BY DEF ConsoleInv, SpawnRecorder, bridge
<1>2. ~crossed => ~Alive(recorder)
  BY <1>1 DEF ConsoleInv, Found
<1>3. CASE AnswerClient(r) /\ UNCHANGED <<runs, recorder, crossed>>
  BY <1>1, <1>3, AnswerKeeps DEF children
<1>4. ASSUME NEW p \in Children, FreshChild(p), recorder' = p, Goes(r, "write"),
             runs' = [runs EXCEPT ![p] = [does |-> "record", for |-> asked[r].exp]],
             crossed' = (crossed \/ \E s \in Threads \ {r} : UsesRecorder(s)),
             UNCHANGED <<asked, held, child>>
      PROVE  ConsoleInv'
  <2>1. /\ runs'[p].does = "record" /\ \A q \in Children : q # p => runs'[q] = runs[q]
        /\ replay # p /\ runs[p] = NoWork /\ DOMAIN runs' = Children
    BY <1>1, <1>4, NoWorkIs DEF FreshChild, ConsoleTypeOK
  <2>2. Alive(replay)' => Alive(replay)
    BY <1>1, <2>1 DEF Alive, ConsoleTypeOK, Handles
  <2>3. crossed' \in BOOLEAN /\ (~crossed' => ~crossed /\ \A s \in Threads \ {r} : ~UsesRecorder(s))
    BY <1>4, Zenon
  <2>4. ASSUME ~crossed, NEW q \in Children, HandleOf(q) PROVE HandleOf(q)'
    <3>1. CASE q = p
      BY <1>4, <2>1, <3>1 DEF HandleOf
    <3>2. CASE q # p
      BY <1>1, <1>2, <2>1, <2>4, <3>2, NoChildAssumption DEF HandleOf, Alive
    <3>3. QED
      BY <3>1, <3>2
  <2>5. /\ at'[r] = "write" /\ \A h \in Threads \ {r} : at'[h] = at[h]
        /\ DOMAIN at' = Threads
    BY <1>1, <1>4 DEF Goes, ConsoleTypeOK
  <2>6. ~crossed' => Effects(r)
    BY <1>1, <1>4, <2>2, <2>3, <2>5 DEF Effects
  <2>7. Found(r)'
    BY <2>5 DEF Found, Starting
  <2>8. ConsoleTypeOK'
    BY <1>1, <1>4, <2>1, <2>3, <2>5 DEF ConsoleTypeOK, Handles
  <2>9. ~crossed => (backend = "offline" => ~Alive(replay))'
    BY <1>1, <2>2 DEF ConsoleInv
  <2>10. QED
    BY <1>1, <2>3, <2>4, <2>6, <2>7, <2>8, <2>9, StepKeeps
<1>5. QED
  BY <1>3, <1>4 DEF SpawnRecorder

LEMMA ChildStoppedKeeps == ASSUME ConsoleInv, NEW r \in Threads, ChildStopped(r) PROVE ConsoleInv'
<1>1. /\ ConsoleTypeOK /\ at[r] = "stop"
      /\ runs' = [runs EXCEPT ![child[r]] = NoWork] /\ at' = [at EXCEPT ![r] = "clear"]
      /\ UNCHANGED <<backend, recorder, replay, asked, held, child, abandoned, crossed>>
  BY DEF ConsoleInv, ChildStopped, Goes, bridge
<1>2. ~crossed => IF asked[r].op = "stop_play" THEN replay \in {child[r], NoChild}
                                              ELSE recorder \in {child[r], NoChild}
  BY <1>1 DEF ConsoleInv, Found
<1>3. /\ \A q \in Children : runs'[q] = IF q = child[r] THEN NoWork ELSE runs[q]
      /\ DOMAIN runs' = Children
  BY <1>1 DEF ConsoleTypeOK
<1>4. /\ Alive(replay)' => Alive(replay) /\ child[r] # replay
      /\ Alive(recorder)' => Alive(recorder) /\ child[r] # recorder
      /\ ~(NoChild \in {replay} /\ Alive(replay)') /\ ~(NoChild \in {recorder} /\ Alive(recorder)')
  BY <1>1, <1>3 DEF Alive, ConsoleTypeOK, Handles
<1>5. ASSUME NEW q \in Children, HandleOf(q) PROVE HandleOf(q)'
  BY <1>1, <1>3, <1>5 DEF HandleOf
<1>6. /\ at'[r] = "clear" /\ \A h \in Threads \ {r} : at'[h] = at[h]
      /\ DOMAIN at' = Threads
  BY <1>1 DEF ConsoleTypeOK
<1>7. Effects(r)
  BY <1>1, <1>4, <1>6 DEF Effects
<1>8. ~crossed => Found(r)'
  BY <1>1, <1>2, <1>4, <1>6 DEF Found, Starting
<1>9. ConsoleTypeOK' /\ crossed' \in BOOLEAN
  BY <1>1, <1>3, <1>6 DEF ConsoleTypeOK
<1>10. ~crossed => (backend = "offline" => ~Alive(replay))'
  BY <1>1, <1>4 DEF ConsoleInv
<1>11. QED
  BY <1>1, <1>5, <1>7, <1>8, <1>9, <1>10, StepKeeps

LEMMA ClearKeeps == ASSUME ConsoleInv, NEW r \in Threads, Clear(r) PROVE ConsoleInv'
<1>1. /\ ConsoleTypeOK /\ at[r] = "clear"
      /\ UNCHANGED <<backend, runs, abandoned, crossed>> /\ crossed' \in BOOLEAN
  BY DEF ConsoleInv, Clear, bridge, ConsoleTypeOK
<1>2. CASE asked[r].op = "stop_play"
  <2>1. replay' = NoChild /\ recorder' = recorder /\ AnswerClient(r)
    BY <1>2 DEF Clear
  <2>2. ~Alive(replay)' /\ Alive(recorder)' = Alive(recorder) /\ (~crossed => ~Alive(replay))
    BY <1>1, <1>2, <2>1 DEF Alive, ConsoleInv, Found
  <2>3. ASSUME ~crossed, NEW q \in Children, HandleOf(q) PROVE HandleOf(q)'
    BY <1>1, <2>1, <2>2, <2>3, NoChildAssumption DEF HandleOf, Alive
  <2>4. Effects(r)
    BY <1>1, <2>1, <2>2, AnswerOf DEF Effects
  <2>5. Found(r)' /\ ConsoleTypeOK'
    BY <1>1, <2>1, AnswerOf DEF Found, Starting, ConsoleTypeOK, Handles
  <2>6. QED
    BY <1>1, <2>2, <2>3, <2>4, <2>5, StepKeeps
<1>3. CASE asked[r].op # "stop_play" /\ recorder' # recorder
  <2>1. /\ replay' = replay /\ recorder' = NoChild
        /\ at' = [at EXCEPT ![r] = "close"] /\ UNCHANGED <<asked, held, child>>
    BY <1>3 DEF Clear, Goes
  <2>2. ~Alive(recorder)' /\ Alive(replay)' = Alive(replay) /\ (~crossed => ~Alive(recorder))
    BY <1>1, <1>3, <2>1 DEF Alive, ConsoleInv, Found
  <2>3. ASSUME ~crossed, NEW q \in Children, HandleOf(q) PROVE HandleOf(q)'
    BY <1>1, <2>1, <2>2, <2>3, NoChildAssumption DEF HandleOf, Alive
  <2>4. /\ at'[r] = "close" /\ \A h \in Threads \ {r} : at'[h] = at[h]
        /\ DOMAIN at' = Threads
    BY <1>1, <2>1 DEF ConsoleTypeOK
  <2>5. Effects(r)
    BY <1>1, <2>1, <2>2, <2>4 DEF Effects
  <2>6. Found(r)' /\ ConsoleTypeOK'
    BY <1>1, <2>1, <2>4 DEF Found, Starting, ConsoleTypeOK, Handles
  <2>7. ~crossed => (backend = "offline" => ~Alive(replay))'
    BY <1>1, <2>2 DEF ConsoleInv
  <2>8. QED
    BY <1>1, <2>3, <2>5, <2>6, <2>7, StepKeeps
<1>4. CASE asked[r].op # "stop_play" /\ recorder' = recorder
  <2>1. UNCHANGED <<children, backend, abandoned, crossed>>
    BY <1>1, <1>4 DEF Clear, children
  <2>2. CASE AnswerClient(r)
    BY <2>1, <2>2, AnswerKeeps
  <2>3. CASE ~AnswerClient(r)
    <3>1. at' = [at EXCEPT ![r] = "close"] /\ UNCHANGED <<asked, held, child>>
      BY <1>4, <2>3 DEF Clear, Goes
    <3>2. Found(r)'
      BY <1>1, <3>1 DEF Found, Starting, ConsoleTypeOK
    <3>3. QED
      BY <2>1, <3>1, <3>2, GoesKeeps
  <2>4. QED
    BY <2>2, <2>3
<1>5. QED
  BY <1>2, <1>3, <1>4

LEMMA SwitchKeeps == ASSUME ConsoleInv, NEW r \in Threads, SwitchBackend(r) PROVE ConsoleInv'
<1>1. /\ ConsoleTypeOK /\ asked[r].op = "backend" /\ AnswerClient(r)
      /\ UNCHANGED <<runs, recorder, replay, abandoned>>
      /\ backend' = "offline" => backend = "offline" \/ ~Alive(replay)
      /\ backend' \in {backend, "ros", "offline"}
  BY DEF ConsoleInv, SwitchBackend, ThreadAt, children
<1>2. /\ crossed' \in BOOLEAN
      /\ ~crossed' => ~crossed /\ (backend' # "offline" \/ \A s \in Threads : ~Starting(s))
  <2>1. crossed' = (crossed \/ (backend' = "offline" /\ \E s \in Threads : Starting(s)))
    BY DEF SwitchBackend
  <2>2. QED
    BY <2>1, Zenon
<1>3. UNCHANGED children
  BY <1>1 DEF children
<1>4. ~crossed => (backend' = "offline" => ~Alive(replay)')
  BY <1>1, <1>3, SameAlive DEF ConsoleInv
<1>5. ~crossed' => Effects(r)
  BY <1>1, <1>2, <1>3, SameAlive, AnswerOf DEF Effects
<1>6. Found(r)' /\ ConsoleTypeOK'
  BY <1>1, <1>2, AnswerOf DEF Found, Starting, ConsoleTypeOK, Handles
<1>7. \A p \in Children : HandleOf(p) => HandleOf(p)'
  BY <1>3, SameAlive
<1>8. QED
  BY <1>1, <1>2, <1>4, <1>5, <1>6, <1>7, StepKeeps

LEMMA ArriveKeeps ==
  ASSUME ConsoleInv, NEW r \in Threads, NEW q, Arrive(r, q) PROVE ConsoleInv'
<1>1. /\ ConsoleTypeOK
      /\ at' = [at EXCEPT ![r] = "check"] /\ asked' = [asked EXCEPT ![r] = q]
      /\ UNCHANGED <<backend, children, held, child, abandoned, crossed>>
  BY DEF ConsoleInv, Arrive, Goes, bridge
<1>2. /\ at'[r] = "check" /\ asked'[r] = q
      /\ \A h \in Threads \ {r} : at'[h] = at[h] /\ asked'[h] = asked[h] /\ child'[h] = child[h]
      /\ DOMAIN at' = Threads /\ DOMAIN asked' = Threads
  BY <1>1 DEF ConsoleTypeOK
<1>3. Found(r)'
  BY <1>2 DEF Found, Starting
<1>4. ConsoleTypeOK'
  BY <1>1, <1>2 DEF ConsoleTypeOK, children
<1>5. QED
  BY <1>1, <1>2, <1>3, <1>4, QuietKeepsHandles

LEMMA EndsKeeps == ASSUME ConsoleInv, NEW p \in Children, Ends(p) PROVE ConsoleInv'
<1>1. /\ ConsoleTypeOK /\ runs' = [runs EXCEPT ![p] = NoWork]
      /\ UNCHANGED <<backend, recorder, replay, at, asked, held, child, abandoned, crossed>>
  BY DEF ConsoleInv, Ends, bridge
<1>2. /\ \A q \in Children : runs'[q] = IF q = p THEN NoWork ELSE runs[q]
      /\ DOMAIN runs' = Children
  BY <1>1 DEF ConsoleTypeOK
<1>3. /\ Alive(replay)' => Alive(replay)
      /\ Alive(recorder)' => Alive(recorder)
      /\ \A q \in Children : HandleOf(q) => HandleOf(q)'
  BY <1>1, <1>2 DEF Alive, ConsoleTypeOK, Handles, HandleOf
<1>4. ~crossed => \A h \in Threads : Found(h)'
  BY <1>1, <1>3 DEF ConsoleInv, Found, Starting
<1>5. ConsoleTypeOK'
  BY <1>1, <1>2 DEF ConsoleTypeOK
<1>6. QED
  BY <1>1, <1>3, <1>4, <1>5 DEF ConsoleInv

LEMMA RestartKeeps == ASSUME ConsoleInv, Restart PROVE ConsoleInv'
<1>1. /\ recorder' = NoChild /\ replay' = NoChild /\ backend' = "ros" /\ crossed' = crossed
      /\ at' = [r \in Threads |-> "idle"] /\ asked' = [r \in Threads |-> NotAsked]
      /\ held' = [r \in Threads |-> Absent] /\ child' = [r \in Threads |-> NoChild]
  BY DEF Restart
<1>2. PICK live \in Survivors :
        /\ runs' = [p \in Children |-> IF p \in live THEN runs[p] ELSE NoWork]
        /\ abandoned' = (abandoned \/ live # {})
  BY DEF Restart
<1>3. ~abandoned' => live = {}
  BY <1>2, Zenon
<1>4. ~abandoned' => \A p \in Children : HandleOf(p)'
  BY <1>2, <1>3 DEF HandleOf
<1>5. ConsoleTypeOK' /\ \A r \in Threads : Found(r)'
  BY <1>1, <1>2 DEF ConsoleInv, ConsoleTypeOK, Handles, Starting, Found
<1>6. QED
  BY <1>1, <1>4, <1>5 DEF ConsoleInv

LEMMA ConsoleInvStep ==
  ASSUME ConsoleInv, [ConsoleNext]_consoleVars PROVE ConsoleInv'
<1>1. ASSUME NEW r \in Threads, Serve(r) PROVE ConsoleInv'
  BY <1>1, PlainServes, ReplayHandlesKeep, SpawnReplayKeeps, SpawnRecorderKeeps,
     ChildStoppedKeeps, ClearKeeps, SwitchKeeps DEF Serve
<1>2. ASSUME NEW r \in Threads, NEW q \in PageRequests, Arrive(r, q) PROVE ConsoleInv'
  BY <1>2, ArriveKeeps
<1>3. CASE OthersChange \/ Readiness \/ UNCHANGED consoleVars
  <2>1. UNCHANGED <<backend, children, at, asked, held, child, abandoned, crossed>>
    BY <1>3 DEF OthersChange, Readiness, consoleVars, children
  <2>2. UNCHANGED <<runs, recorder, replay>>
    BY <2>1 DEF children
  <2>3. ConsoleTypeOK'
    BY <2>1, <2>2 DEF ConsoleInv, ConsoleTypeOK
  <2>4. ~crossed => \A r \in Threads : Found(r)'
    BY <2>1, <2>2, SameAlive DEF ConsoleInv, Found, Starting
  <2>5. QED
    BY <2>1, <2>3, <2>4, SameAlive DEF ConsoleInv
<1>4. CASE \E p \in Children : Ends(p)
  BY <1>4, EndsKeeps
<1>5. CASE Restart
  BY <1>5, RestartKeeps
<1>6. QED
  BY <1>1, <1>2, <1>3, <1>4, <1>5 DEF ConsoleNext

LEMMA ConsoleInitInv == ConsoleInit => ConsoleInv
<1> SUFFICES ASSUME ConsoleInit PROVE ConsoleInv
  OBVIOUS
<1>1. /\ backend = "ros" /\ runs = [p \in Children |-> NoWork] /\ crossed = FALSE
      /\ recorder = NoChild /\ replay = NoChild /\ at = [r \in Threads |-> "idle"]
      /\ asked = [r \in Threads |-> NotAsked] /\ held = [r \in Threads |-> Absent]
      /\ child = [r \in Threads |-> NoChild]
  BY DEF ConsoleInit
<1>2. QED
  BY <1>1 DEF ConsoleInv, ConsoleTypeOK, Handles, Starting, Found, HandleOf

LEMMA ConsoleInvImplies == ConsoleInv => ChildrenAreHeld
<1>1. \A p \in Children : HandleOf(p) =>
        (runs[p] # NoWork => p = IF runs[p].does = "record" THEN recorder ELSE replay)
  BY DEF HandleOf
<1>2. QED
  BY <1>1 DEF ConsoleInv, ChildrenAreHeld

\* As long as no child was left behind by an ended console and no request started a child, or took
\* the offline backend, between another's look at the same handle and its use, every recorder and
\* replay that runs has the handle that stops it, however requests, failed stops and deaths
\* interleave, and the offline backend has no replay (manager.py start_bag, stop_bag and
\* start_playback, service.py set_backend).
THEOREM ChildrenAlwaysHeld == ConsoleSpec => []ChildrenAreHeld
<1>1. ConsoleInit => ConsoleInv
  BY ConsoleInitInv
<1>2. ConsoleInv /\ [ConsoleNext]_consoleVars => ConsoleInv'
  BY ConsoleInvStep
<1>3. ConsoleInv => ChildrenAreHeld
  BY ConsoleInvImplies
<1>4. QED
  BY <1>1, <1>2, <1>3, PTL DEF ConsoleSpec

=============================================================================
