------------------------ MODULE LocalizationProofs --------------------------
(***************************************************************************)
(* What is published of the localization, how often it is searched for,    *)
(* and what the gate of Nav2 knows, for every value of the limits.         *)
(***************************************************************************)
EXTENDS Relocalization, NavigationGate, SystemHealth, TLAPS

Places == {"build", "checks", "candidates", "answer", "validate"}
RunTypes == [kind : {"goal", "pose", "validation"}, owner : Clients, place : Places,
             left : Nat, good : Nat, success : BOOLEAN]

\* A validation runs only over a pose that was adopted and may still be lost.
ValidatesTracking ==
  run.kind = "validation" =>
    located /\ state \in {"TRACKING", "DEGRADED", "RECOVERING"}

StatusInv ==
  /\ run \in RunTypes \cup {NoRun}
  /\ At("validate") => run.kind = "validation"
  /\ ValidatesTracking
  /\ AcceptedIsTracking

\* Every search that was sent is an attempt of the policy as it is now.
PolicyInv ==
  /\ attempts \in Nat /\ sent = attempts
  /\ attempts <= MaxAttempts
  /\ mode \in ModeNames
  /\ startup => attempts = 0
  /\ mode = "AUTO_ON_START" /\ ~startup => attempts <= 1

LEMMA LocalizationInvInit == LocalizationInit => StatusInv /\ PolicyInv
<1> SUFFICES ASSUME LocalizationInit PROVE StatusInv /\ PolicyInv
  OBVIOUS
<1>1. StatusInv
  BY DEF LocalizationInit, StatusInv, ValidatesTracking, AcceptedIsTracking, NoRun, At,
     Running
<1>2. PolicyInv
  BY LocalizationAssumption DEF LocalizationInit, PolicyInit, PolicyInv
<1>3. QED
  BY <1>1, <1>2

-----------------------------------------------------------------------------
(* The steps of a run. *)
LEMMA RunEnds ==
  ASSUME run \in RunTypes, NEW good \in BOOLEAN, Ends(good)
  PROVE  /\ run' \in RunTypes /\ run'.kind = run.kind
         /\ run'.place = "validate" => run.kind = "validation"
<1>1. CASE Search
  BY <1>1 DEF Ends, RunTypes, Places
<1>2. CASE ~Search
  BY <1>2 DEF Ends, RunTypes, Places, Search
<1>3. QED
  BY <1>1, <1>2

-----------------------------------------------------------------------------
(* What is published. *)

\* What every step of a search or a validation has to keep.
LEMMA KeepsStatus ==
  ASSUME run' \in RunTypes \cup {NoRun},
         run'.place = "validate" /\ run' # NoRun => run'.kind = "validation",
         run'.kind = "validation" =>
           located' /\ state' \in {"TRACKING", "DEGRADED", "RECOVERING"},
         status'.valid => state' = "TRACKING" /\ located'
  PROVE  StatusInv'
<1>1. Running' => run' # NoRun
  BY DEF Running, NoRun
<1>2. QED
  BY <1>1 DEF StatusInv, ValidatesTracking, AcceptedIsTracking, At

LEMMA NoRunKeepsStatus ==
  ASSUME run' = NoRun, status'.valid => state' = "TRACKING" /\ located'
  PROVE  StatusInv'
<1>1. run'.kind # "validation"
  BY DEF NoRun
<1>2. QED
  BY <1>1, KeepsStatus

\* The node's callbacks start a run only when there is none.
LEMMA CallbackKeepsStatus ==
  ASSUME StatusInv,
         \/ \E c \in Clients : HandleGoal(c)
         \/ HandleCancel \/ StartValidation
         \/ \E usable \in BOOLEAN : InitialPose(usable)
  PROVE  StatusInv'
<1>1. CASE UNCHANGED <<run, supervisorVars>> /\ (UNCHANGED status \/ ~status'.valid)
  BY <1>1 DEF StatusInv, ValidatesTracking, AcceptedIsTracking, supervisorVars, At, Running
<1>2. ASSUME NEW c \in Clients, HandleGoal(c) PROVE StatusInv'
  <2>1. UNCHANGED <<supervisorVars, status>> /\ (UNCHANGED run \/ run' = Run("goal", c, "build"))
    BY <1>2 DEF HandleGoal
  <2>2. CASE run' = Run("goal", c, "build")
    <3>1. run' \in RunTypes /\ run'.kind = "goal" /\ run'.place = "build"
      BY <2>2 DEF Run, RunTypes, Places
    <3>2. QED
      BY <2>1, <3>1, KeepsStatus DEF StatusInv, AcceptedIsTracking, supervisorVars
  <2>3. QED
    BY <1>1, <2>1, <2>2
<1>3. CASE HandleCancel
  BY <1>1, <1>3 DEF HandleCancel
<1>4. CASE StartValidation
  <2>1. /\ UNCHANGED <<supervisorVars, status>>
        /\ located /\ state \in {"TRACKING", "DEGRADED", "RECOVERING"}
        /\ run' = [Run("validation", "operator", "checks") EXCEPT !.left = 1]
    BY <1>4 DEF StartValidation
  <2>2. run' \in RunTypes /\ run'.place = "checks"
    BY <2>1 DEF Run, RunTypes, Places, Clients
  <2>3. QED
    BY <2>1, <2>2, KeepsStatus DEF StatusInv, AcceptedIsTracking, supervisorVars
<1>5. ASSUME NEW usable \in BOOLEAN, InitialPose(usable) PROVE StatusInv'
  <2>1. /\ UNCHANGED run \/ run' = [Run("pose", "operator", "checks") EXCEPT !.left = 1]
        /\ UNCHANGED supervisorVars /\ (UNCHANGED status \/ ~status'.valid)
    BY <1>5 DEF InitialPose, Publish
  <2>2. CASE run' = [Run("pose", "operator", "checks") EXCEPT !.left = 1]
    <3>1. run' \in RunTypes /\ run'.kind = "pose" /\ run'.place = "checks"
      BY <2>2 DEF Run, RunTypes, Places, Clients
    <3>2. QED
      BY <2>1, <3>1, KeepsStatus DEF StatusInv, AcceptedIsTracking, supervisorVars
  <2>3. QED
    BY <1>1, <2>1, <2>2
<1>6. QED
  BY <1>2, <1>3, <1>4, <1>5

\* A run goes on, or ends, as the run that it is.
LEMMA GoesOn ==
  ASSUME StatusInv, run \in RunTypes, run' \in RunTypes, run'.kind = run.kind,
         run'.place = "validate" => run.kind = "validation",
         run.kind = "validation" => UNCHANGED <<state, located>>,
         status'.valid => state' = "TRACKING" /\ located'
  PROVE  StatusInv'
<1>1. run.kind = "validation" => located /\ state \in {"TRACKING", "DEGRADED", "RECOVERING"}
  BY DEF StatusInv, ValidatesTracking
<1>2. QED
  BY <1>1, KeepsStatus

LEMMA AtIsRunning == ASSUME StatusInv, NEW p \in Places, At(p) PROVE run \in RunTypes
BY DEF StatusInv, At, Running, NoRun

\* A worker publishes a valid pose only with the verdict on it.
LEMMA WorkerKeepsStatus == ASSUME StatusInv, Worker PROVE StatusInv'
<1>1. status.valid => state = "TRACKING" /\ located
  BY DEF StatusInv, AcceptedIsTracking
<1>2. CASE BuildCandidates
  <2>1. run \in RunTypes
    BY <1>2, AtIsRunning DEF BuildCandidates, Places
  <2>2. PICK n \in 1..MaxCandidates :
          run' = [run EXCEPT !.place = "checks", !.left = n]
    BY <1>2 DEF BuildCandidates
  <2>3. n \in Nat
    BY LocalizationAssumption
  <2>4. run' \in RunTypes /\ run'.kind = run.kind /\ run'.place = "checks"
    BY <2>1, <2>2, <2>3 DEF Places, RunTypes
  <2>5. QED
    BY <1>1, <1>2, <2>1, <2>4, GoesOn DEF BuildCandidates, supervisorVars
<1>3. CASE NoCandidates
  <2>1. run \in RunTypes /\ Ends(FALSE) /\ UNCHANGED supervisorVars /\ ~status'.valid
    BY <1>3, AtIsRunning DEF NoCandidates, Publish, Places
  <2>2. QED
    BY <2>1, RunEnds, GoesOn DEF supervisorVars
<1>4. CASE RefuseMap \/ RefuseScan \/ RefuseTransform
  <2>1. PICK s \in {"LOST", "ERROR"} : Refuse(s)
    BY <1>4 DEF RefuseMap, RefuseScan, RefuseTransform
  <2>2. run \in RunTypes /\ Ends(FALSE) /\ UNCHANGED supervisorVars
    BY <2>1, AtIsRunning DEF Refuse, Places
  <2>3. UNCHANGED status \/ ~status'.valid
    BY <2>1 DEF Refuse, Publish
  <2>4. QED
    BY <1>1, <2>2, <2>3, RunEnds, GoesOn DEF supervisorVars
<1>5. CASE SkipValidation
  BY <1>1, <1>5, NoRunKeepsStatus DEF SkipValidation, supervisorVars
<1>6. CASE Begin
  <2>1. run \in RunTypes
    BY <1>6, AtIsRunning DEF Begin, Places
  <2>2. run' \in RunTypes /\ run'.kind = run.kind /\ run'.place = "candidates"
    BY <1>6, <2>1 DEF Begin, Places, RunTypes
  <2>3. CASE Search
    BY <1>6, <2>1, <2>2, <2>3, GoesOn DEF Begin, Publish, Search
  <2>4. CASE ~Search
    BY <1>1, <1>6, <2>1, <2>2, <2>4, GoesOn DEF Begin
  <2>5. QED
    BY <2>3, <2>4
<1>7. ASSUME NEW good \in BOOLEAN, TryCandidate(good) PROVE StatusInv'
  <2>1. run \in RunTypes
    BY <1>7, AtIsRunning DEF TryCandidate, Places
  <2>2. run.left - 1 \in Nat /\ run.good + (IF good THEN 1 ELSE 0) \in Nat
    BY <1>7, <2>1 DEF TryCandidate, RunTypes
  <2>3. run' = [run EXCEPT !.left = run.left - 1,
                           !.good = run.good + (IF good THEN 1 ELSE 0)]
    BY <1>7 DEF TryCandidate
  <2>4. run' \in RunTypes /\ run'.kind = run.kind /\ run'.place = run.place
    BY <2>1, <2>2, <2>3 DEF RunTypes
  <2>5. run.place = "candidates" /\ UNCHANGED located
    BY <1>7 DEF TryCandidate, At
  <2>6. CASE Search
    BY <1>7, <2>1, <2>4, <2>5, <2>6, GoesOn DEF TryCandidate, Publish, Search
  <2>7. CASE ~Search
    BY <1>1, <1>7, <2>1, <2>4, <2>5, <2>7, GoesOn DEF TryCandidate
  <2>8. QED
    BY <2>6, <2>7
<1>8. CASE StopCanceled \/ StopTimedOut \/ RejectResult
  <2>1. At("candidates") /\ Ends(FALSE) /\ UNCHANGED located
    BY <1>8 DEF StopCanceled, StopTimedOut, RejectResult
  <2>2. run \in RunTypes
    BY <2>1, AtIsRunning DEF Places
  <2>3. CASE Search
    <3>1. ~status'.valid
      <4>1. \E published : Publish(published, FALSE)
        BY <1>8, <2>3 DEF StopCanceled, StopTimedOut, RejectResult
      <4>2. QED
        BY <4>1 DEF Publish
    <3>2. QED
      BY <2>1, <2>2, <2>3, <3>1, RunEnds, GoesOn DEF Search
  <2>4. CASE ~Search
    <3>1. UNCHANGED <<state, status>>
      <4>1. CASE StopCanceled
        BY <2>4, <4>1 DEF StopCanceled
      <4>2. CASE StopTimedOut
        BY <2>4, <4>2 DEF StopTimedOut
      <4>3. CASE RejectResult
        BY <2>4, <4>3 DEF RejectResult
      <4>4. QED
        BY <1>8, <4>1, <4>2, <4>3
    <3>2. QED
      BY <1>1, <2>1, <2>2, <2>4, <3>1, RunEnds, GoesOn
  <2>5. QED
    BY <2>3, <2>4
<1>9. CASE AcceptResult
  <2>1. /\ run \in RunTypes /\ Ends(TRUE)
        /\ Search => state' = "TRACKING" /\ located'
        /\ ~Search => UNCHANGED <<supervisorVars, status>>
    BY <1>9, AtIsRunning DEF AcceptResult, AcceptSearchResult, Places
  <2>2. CASE Search
    BY <2>1, <2>2, RunEnds, GoesOn DEF Search
  <2>3. CASE ~Search
    <3>1. UNCHANGED <<state, located, status>>
      BY <2>1, <2>3 DEF supervisorVars
    <3>2. QED
      BY <1>1, <2>1, <2>3, <3>1, RunEnds, GoesOn
  <2>4. QED
    BY <2>2, <2>3
<1>10. CASE EndValidation
  <2>1. run' = NoRun /\ UNCHANGED located /\ status'.valid = run.success
    BY <1>10 DEF EndValidation, Publish
  <2>2. run.kind = "validation" /\ located /\ state \in {"TRACKING", "DEGRADED", "RECOVERING"}
    BY <1>10 DEF EndValidation, StatusInv, ValidatesTracking
  <2>3. run.success => state' = "TRACKING"
    BY <1>10, <2>2 DEF EndValidation, AfterValidation
  <2>4. QED
    BY <2>1, <2>2, <2>3, NoRunKeepsStatus
<1>11. CASE Answer
  BY <1>1, <1>11, NoRunKeepsStatus DEF Answer, supervisorVars
<1>12. QED
  BY <1>2, <1>3, <1>4, <1>5, <1>6, <1>7, <1>8, <1>9, <1>10, <1>11 DEF Worker, Works

LEMMA StatusInvStep ==
  ASSUME StatusInv, [LocalizationStep]_localizationVars PROVE StatusInv'
<1>1. CASE UNCHANGED <<supervisorVars, workerVars>>
  BY <1>1 DEF StatusInv, ValidatesTracking, AcceptedIsTracking, supervisorVars, workerVars,
     At, Running
<1>2. CASE Coordinator \/ Time \/ AskByHand \/ \E ready \in BOOLEAN : AskAtStart(ready)
             \/ \E m \in ModeNames : SetMode(m)
  BY <1>1, <1>2 DEF Coordinator, SendSearch, Exhaust, FinishAttempt, Time, AskByHand,
     AskAtStart, SetMode
<1>3. QED
  BY <1>1, <1>2, CallbackKeepsStatus, WorkerKeepsStatus
     DEF LocalizationStep, localizationVars

-----------------------------------------------------------------------------
(* The policy. *)
LEMMA PolicyInvStep ==
  ASSUME PolicyInv, [LocalizationStep]_localizationVars PROVE PolicyInv'
<1> USE LocalizationAssumption DEF PolicyInv
<1>1. CASE UNCHANGED policyVars
  BY <1>1 DEF policyVars
<1>2. CASE SendSearch
  BY <1>2 DEF SendSearch, MayRecover, Spent
<1>3. CASE Exhaust \/ FinishAttempt \/ Time
  BY <1>3 DEF Exhaust, FinishAttempt, Time
<1>4. ASSUME NEW m \in ModeNames, SetMode(m) PROVE PolicyInv'
  BY <1>4 DEF SetMode
<1>5. CASE \/ \E c \in Clients : HandleGoal(c)
           \/ StartValidation \/ HandleCancel \/ AskByHand
           \/ \E ready \in BOOLEAN : AskAtStart(ready)
           \/ \E usable \in BOOLEAN : InitialPose(usable)
  BY <1>1, <1>5 DEF HandleGoal, StartValidation, HandleCancel, AskByHand, AskAtStart,
     InitialPose
<1>6. CASE Worker
  BY <1>1, <1>6 DEF Worker, Works, BuildCandidates, NoCandidates, RefuseMap, RefuseScan,
     RefuseTransform, Refuse, SkipValidation, Begin, TryCandidate, StopCanceled,
     StopTimedOut, RejectResult, AcceptResult, EndValidation, Answer
<1>7. QED
  BY <1>1, <1>2, <1>3, <1>4, <1>5, <1>6 DEF LocalizationStep, Coordinator, localizationVars

-----------------------------------------------------------------------------
(* A valid status is published, and stands, only while the supervisor      *)
(* tracks an adopted pose, for any number of candidates and any limits of  *)
(* failures.                                                               *)
THEOREM AcceptedTracking == LocalizationSpec => []AcceptedIsTracking
<1>1. StatusInv => AcceptedIsTracking
  BY DEF StatusInv
<1>2. QED
  BY LocalizationInvInit, StatusInvStep, <1>1, PTL DEF LocalizationSpec

(* The coordinator sends no more searches than it may, for every number of *)
(* attempts.                                                               *)
THEOREM BoundedAttempts == LocalizationSpec => []AttemptsBounded
<1>1. PolicyInv => AttemptsBounded
  BY DEF PolicyInv, AttemptsBounded
<1>2. QED
  BY LocalizationInvInit, PolicyInvStep, <1>1, PTL DEF LocalizationSpec

-----------------------------------------------------------------------------
(* The gate.  A command is sent only to the state it is meant for, as far  *)
(* as the gate knows, and an answer to it that is a success says what Nav2 *)
(* is.                                                                     *)
CommandFits ==
  /\ pending \in Commands \cup {"none"}
  /\ answer \in {"none", "success", "failure"}
  /\ started \in BOOLEAN
  /\ answer # "none" => InFlight
  /\ Starts(pending) \/ pending = "RESET" => ~started
  /\ pending = "PAUSE" => started

NodesAreKnown ==
  /\ answer = "success" =>
       /\ Starts(pending) => nodes = All
       /\ ~Starts(pending) => nodes = 0
  /\ nodes > 0 /\ cut # "start" => started \/ (Starts(pending) /\ answer = "success")
  /\ started /\ cut # "pause" =>
       nodes = All \/ (pending = "PAUSE" /\ answer = "success")

GateInv == CommandFits /\ NodesAreKnown

LEMMA GateInvInit == ASSUME GateInit PROVE GateInv
<1>1. CommandFits
  BY DEF GateInit, CommandFits, Starts
<1>2. NodesAreKnown
  BY DEF GateInit, NodesAreKnown, Starts
<1>3. QED
  BY <1>1, <1>2 DEF GateInv

LEMMA GateInvStep == ASSUME GateInv, [GateNext]_navigationVars PROVE GateInv'
<1> USE DEF GateInv, CommandFits, NodesAreKnown, Starts, Commands, InFlight, navVars
<1>1. CASE UNCHANGED navigationVars
  BY <1>1 DEF navigationVars, gateVars
<1>2. CASE \/ Expire \/ GraceElapses \/ \E ready \in BOOLEAN : Localization(ready)
  BY <1>2 DEF Expire, GraceElapses, Localization
<1>3. ASSUME NEW available \in BOOLEAN, Tick(available) PROVE GateInv'
  <2>1. UNCHANGED <<started, navVars>>
    BY <1>3 DEF Tick
  <2>2. \/ UNCHANGED pending
        \/ ~InFlight /\ pending' \in {"none", "STARTUP", "RESUME", "RESET"} /\ ~started
        \/ ~InFlight /\ pending' \in {"none", "PAUSE"} /\ started
        \/ ~InFlight /\ pending' = "none"
    BY <1>3 DEF Tick, SendCommand, CommandFor
  <2>3. QED
    BY <2>1, <2>2
<1>4. CASE CommandDone
  <2>1. pending' = "none" /\ answer' = "none" /\ UNCHANGED <<nodes, cut>>
    BY <1>4 DEF CommandDone
  <2>2. CASE answer = "success" /\ Starts(pending)
    <3>1. started' = TRUE /\ nodes = All
      BY <1>4, <2>2 DEF CommandDone
    <3>2. QED
      BY <2>1, <3>1
  <2>3. CASE answer = "success" /\ ~Starts(pending)
    <3>1. nodes = 0
      BY <2>3
    <3>2. started' = Starts(pending)
      BY <1>4, <2>3 DEF CommandDone
    <3>3. ~(nodes' > 0)
      BY <2>1, <3>1
    <3>4. ~started'
      BY <2>3, <3>2
    <3>5. started' \in BOOLEAN
      BY <3>2
    <3>6. QED
      BY <2>1, <3>3, <3>4, <3>5
  <2>4. CASE answer = "failure" /\ Starts(pending)
    <3>1. started' = FALSE /\ ~started
      BY <1>4, <2>4 DEF CommandDone
    <3>2. QED
      BY <2>1, <2>4, <3>1
  <2>5. CASE answer = "failure" /\ ~Starts(pending)
    <3>1. UNCHANGED started
      BY <1>4, <2>5 DEF CommandDone
    <3>2. QED
      BY <2>1, <2>5, <3>1
  <2>6. QED
    BY <1>4, <2>2, <2>3, <2>4, <2>5 DEF CommandDone
<1>5. CASE NavDoes
  <2>1. /\ InFlight /\ answer = "none" /\ answer' = "success"
        /\ nodes' = IF Starts(pending) THEN All ELSE 0
        /\ UNCHANGED <<pending, started>>
    BY <1>5 DEF NavDoes, NavIdle, gateVars
  <2>2. QED
    BY <2>1
<1>6. CASE NavFails
  <2>1. /\ InFlight /\ answer = "none" /\ answer' = "failure"
        /\ \/ UNCHANGED <<nodes, cut>>
           \/ cut' = IF pending = "PAUSE" THEN "pause" ELSE "start"
        /\ UNCHANGED <<pending, started>>
    BY <1>6 DEF NavFails, NavIdle, gateVars
  <2>2. QED
    BY <2>1
<1>7. QED
  BY <1>1, <1>2, <1>3, <1>4, <1>5, <1>6 DEF GateNext, GateStep

(* The gate knows which nodes of Nav2 are active, whatever commands fail   *)
(* and in whatever order statuses come, but for what a command that was    *)
(* cut in the middle, or one tried after it, has left.                     *)
THEOREM ActiveKnown == GateSpec => []ActiveIsKnown
<1>1. GateInv => ActiveIsKnown
  BY DEF GateInv, CommandFits, NodesAreKnown, ActiveIsKnown
<1>2. QED
  BY GateInvInit, GateInvStep, <1>1, PTL DEF GateSpec

-----------------------------------------------------------------------------
(* The readiness of a task.  The invariant says how long ago the watched    *)
(* input had the watched value, given where that value is still held: not   *)
(* longer than the message that holds it is old, or than the last tick is.  *)

HealthTypeOK ==
  /\ world \in [Inputs -> Maps \cup {NoMap} \cup BOOLEAN]
  /\ \A i \in Inputs : world[i] \in Values(i)
  /\ cache \in [Polled -> Maps \cup {NoMap} \cup BOOLEAN]
  /\ \A i \in Polled : cache[i] \in Values(i)
  /\ latest \in [Topics -> [value : Maps \cup {NoMap} \cup BOOLEAN, age : Nat]]
  /\ \A t \in Topics : latest[t].value \in Values(t)
  /\ sinceTick \in 0 .. Period
  /\ watched \in Facts
  /\ ago \in Nat

HeldValues ==
  /\ world[watched[1]] = watched[2] => ago = 0
  /\ watched[1] \in Polled =>
       (cache[watched[1]] = watched[2] => ago <= sinceTick)
  /\ watched[1] \in Topics =>
       (latest[watched[1]].value = watched[2] => ago <= latest[watched[1]].age)

HealthInv == HealthTypeOK /\ HeldValues

LEMMA LongestIsNat == Longest \in Nat
<1> DEFINE Lengths == {Period} \cup {Timeout[t] : t \in Topics}
<1>1. Lengths \subseteq Nat
  BY HealthAssumption
<1>2. \E n \in Lengths : \A m \in Lengths : m <= n
  BY HealthAssumption
<1>3. Longest \in Lengths
  BY <1>2 DEF Longest
<1>4. QED
  BY <1>1, <1>3

LEMMA OlderIsLater ==
  ASSUME NEW age \in Nat
  PROVE  /\ Older(age) \in Nat /\ Older(age) <= age + 1
         /\ \A least \in Nat : least <= age => Older(least) <= Older(age)
  BY LongestIsNat DEF Older

\* The watched input is one of the inputs, and its watched value is useful.
LEMMA WatchedFact ==
  ASSUME watched \in Facts
  PROVE  /\ watched[1] \in Inputs /\ watched[2] \in Values(watched[1])
         /\ watched[2] # Useless(watched[1])
         /\ watched[1] \notin {"map", "localization"} =>
              \A v \in Values(watched[1]) : v # Useless(watched[1]) => v = watched[2]
<1>1. /\ watched[1] \in Inputs /\ watched[2] \in Maps \cup {TRUE}
      /\ watched[2] \in Values(watched[1])
  BY DEF Facts
<1>2. watched[2] # Useless(watched[1])
  BY <1>1, HealthAssumption DEF Values, Useless
<1>3. ASSUME watched[1] \notin {"map", "localization"}, NEW v \in Values(watched[1]),
             v # Useless(watched[1])
      PROVE  v = watched[2]
  BY <1>1, <1>3, HealthAssumption DEF Values, Useless
<1>4. QED
  BY <1>1, <1>2, <1>3

LEMMA HealthInvInit == HealthInit => HealthInv
<1> SUFFICES ASSUME HealthInit
             PROVE  HealthInv
  OBVIOUS
<1>1. Longest + 1 \in Nat
  BY LongestIsNat
<1>2. \A i \in Inputs : Useless(i) \in Values(i) /\ Useless(i) \in Maps \cup {NoMap} \cup BOOLEAN
  BY DEF Useless, Values
<1>3. HealthTypeOK
  BY <1>1, <1>2, HealthAssumption DEF HealthInit, HealthTypeOK, Inputs
<1>4. HeldValues
  BY WatchedFact DEF HealthInit, HeldValues, Inputs
<1>5. QED
  BY <1>3, <1>4 DEF HealthInv

LEMMA HealthInvStep == HealthInv /\ [HealthNext]_healthVars => HealthInv'
<1> SUFFICES ASSUME HealthInv, [HealthNext]_healthVars
             PROVE  HealthInv'
  OBVIOUS
<1> USE DEF HealthInv
<1>0. watched[1] \in Inputs /\ watched[2] \in Values(watched[1])
  BY WatchedFact DEF HealthTypeOK
<1>1. ASSUME NEW i \in Inputs, ChangeInput(i)
      PROVE  HealthInv'
  <2>1. PICK v \in Values(i) : world' = [world EXCEPT ![i] = v]
    BY <1>1 DEF ChangeInput
  <2>2. v \in Maps \cup {NoMap} \cup BOOLEAN
    BY DEF Values
  <2>3. /\ ago' = IF world'[watched[1]] = watched[2] THEN 0 ELSE ago
        /\ cache' = cache /\ latest' = latest /\ sinceTick' = sinceTick /\ watched' = watched
    BY <1>1 DEF ChangeInput
  <2>4. HealthTypeOK'
    <3>1. ago' \in Nat
      BY <2>3 DEF HealthTypeOK
    <3>2. /\ world' \in [Inputs -> Maps \cup {NoMap} \cup BOOLEAN]
          /\ \A j \in Inputs : world'[j] \in Values(j)
      BY <2>1, <2>2 DEF HealthTypeOK
    <3>3. QED
      BY <2>3, <3>1, <3>2 DEF HealthTypeOK
  <2>5. HeldValues'
    <3>1. ago' = 0 \/ (ago' = ago /\ world'[watched[1]] # watched[2])
      BY <2>3
    <3>2. CASE ago' = 0
      BY <2>3, <3>2 DEF HealthTypeOK, HeldValues
    <3>3. CASE ago' = ago /\ world'[watched[1]] # watched[2]
      BY <2>3, <3>3 DEF HeldValues
    <3>4. QED
      BY <3>1, <3>2, <3>3
  <2>6. QED
    BY <2>4, <2>5
<1>2. ASSUME NEW n \in Nodes,
             \/ ChangeNode(n) \/ NodeStarts(n) \/ NodeEnds(n)
             \/ NodeAnswers(n) \/ LifecycleDone(n)
      PROVE  HealthInv'
  <2>1. /\ world' = world /\ cache' = cache /\ latest' = latest /\ sinceTick' = sinceTick
        /\ watched' = watched /\ ago' = ago
    BY <1>2 DEF ChangeNode, NodeStarts, NodeEnds, NodeAnswers, LifecycleDone
  <2>2. QED
    BY <2>1 DEF HealthTypeOK, HeldValues
<1>3. ASSUME NEW t \in Topics, Hear(t)
      PROVE  HealthInv'
  <2>1. /\ world' = world /\ cache' = cache /\ sinceTick' = sinceTick
        /\ watched' = watched /\ ago' = ago
        /\ latest' = [latest EXCEPT ![t] = [value |-> world[t], age |-> 0]]
    BY <1>3 DEF Hear
  <2>2. /\ world[t] \in Maps \cup {NoMap} \cup BOOLEAN /\ world[t] \in Values(t)
    BY DEF HealthTypeOK, Inputs
  <2>3. HealthTypeOK'
    <3>1. /\ latest' \in [Topics -> [value : Maps \cup {NoMap} \cup BOOLEAN, age : Nat]]
          /\ \A u \in Topics : latest'[u].value \in Values(u)
      BY <2>1, <2>2 DEF HealthTypeOK
    <3>2. QED
      BY <2>1, <3>1 DEF HealthTypeOK
  <2>4. ASSUME watched[1] \in Topics, latest'[watched[1]].value = watched[2]
        PROVE  ago <= latest'[watched[1]].age
    <3>1. CASE watched[1] = t
      BY <2>1, <2>4, <3>1 DEF HealthTypeOK, HeldValues
    <3>2. CASE watched[1] # t
      BY <2>1, <2>4, <3>2 DEF HealthTypeOK, HeldValues
    <3>3. QED
      BY <3>1, <3>2
  <2>5. HeldValues'
    BY <2>1, <2>4 DEF HeldValues
  <2>6. QED
    BY <2>3, <2>5
<1>4. CASE HealthTick
  <2>1. /\ world' = world /\ latest' = latest /\ watched' = watched /\ ago' = ago
        /\ cache' = [i \in Polled |-> world[i]] /\ sinceTick' = 0
    BY <1>4 DEF HealthTick, ReadPolled
  <2>2. HealthTypeOK'
    <3>1. /\ cache' \in [Polled -> Maps \cup {NoMap} \cup BOOLEAN]
          /\ \A i \in Polled : cache'[i] \in Values(i)
      BY <2>1 DEF HealthTypeOK, Inputs
    <3>2. sinceTick' \in 0 .. Period
      BY <2>1, HealthAssumption
    <3>3. QED
      BY <2>1, <3>1, <3>2 DEF HealthTypeOK
  <2>3. HeldValues'
    BY <2>1 DEF HeldValues, HealthTypeOK
  <2>4. QED
    BY <2>2, <2>3
<1>5. CASE EvaluateReadiness
  BY <1>5 DEF EvaluateReadiness, HealthTypeOK, HeldValues
<1>6. CASE HealthPass
  <2>1. /\ world' = world /\ cache' = cache /\ watched' = watched
        /\ sinceTick < Period /\ sinceTick' = sinceTick + 1
        /\ latest' = [t \in Topics |-> [latest[t] EXCEPT !.age = Older(@)]]
        /\ ago' = IF world[watched[1]] = watched[2] THEN 0 ELSE Older(ago)
    BY <1>6 DEF HealthPass
  <2>2. \A t \in Topics : latest'[t] = [value |-> latest[t].value, age |-> Older(latest[t].age)]
    BY <2>1 DEF HealthTypeOK
  <2>3. \A t \in Topics : /\ latest[t].age \in Nat /\ Older(latest[t].age) \in Nat
                          /\ ago <= latest[t].age => Older(ago) <= Older(latest[t].age)
    BY OlderIsLater DEF HealthTypeOK
  <2>4. ago \in Nat /\ Older(ago) \in Nat /\ Older(ago) <= ago + 1
    BY OlderIsLater DEF HealthTypeOK
  <2>5. HealthTypeOK'
    <3>1. /\ latest' \in [Topics -> [value : Maps \cup {NoMap} \cup BOOLEAN, age : Nat]]
          /\ \A t \in Topics : latest'[t].value \in Values(t)
      BY <2>1, <2>2, <2>3 DEF HealthTypeOK
    <3>2. sinceTick' \in 0 .. Period /\ ago' \in Nat
      BY <2>1, <2>4, HealthAssumption DEF HealthTypeOK
    <3>3. QED
      BY <2>1, <3>1, <3>2 DEF HealthTypeOK
  <2>6. CASE world[watched[1]] = watched[2]
    <3>1. ago' = 0
      BY <2>1, <2>6
    <3>2. QED
      BY <2>1, <2>2, <2>3, <2>5, <3>1 DEF HeldValues, HealthTypeOK
  <2>7. CASE world[watched[1]] # watched[2]
    <3>1. ago' = Older(ago)
      BY <2>1, <2>7
    <3>2. watched[1] \in Polled /\ cache[watched[1]] = watched[2] => ago' <= sinceTick'
      BY <2>1, <2>4, <3>1, HealthAssumption DEF HeldValues, HealthTypeOK
    <3>3. watched[1] \in Topics /\ latest'[watched[1]].value = watched[2]
            => ago' <= latest'[watched[1]].age
      <4>1. ASSUME watched[1] \in Topics, latest'[watched[1]].value = watched[2]
            PROVE  ago' <= latest'[watched[1]].age
        <5> DEFINE t == watched[1]
        <5>0. latest'[t] = [value |-> latest[t].value, age |-> Older(latest[t].age)]
          BY <2>2, <4>1
        <5>1. /\ latest'[t].value = latest[t].value
              /\ latest'[t].age = Older(latest[t].age)
          BY <5>0
        <5>2. ago <= latest[watched[1]].age
          BY <4>1, <5>1 DEF HeldValues
        <5>3. QED
          BY <2>3, <3>1, <4>1, <5>1, <5>2
      <4>2. QED
        BY <4>1
    <3>4. HeldValues'
      BY <2>1, <2>7, <3>2, <3>3 DEF HeldValues
    <3>5. QED
      BY <2>5, <3>4
  <2>8. QED
    BY <2>6, <2>7
<1>7. CASE UNCHANGED healthVars
  BY <1>7 DEF healthVars, HealthTypeOK, HeldValues
<1>8. QED
  BY <1>1, <1>2, <1>3, <1>4, <1>5, <1>6, <1>7 DEF HealthNext

\* A positive answer from what is held relies on values that are held.
LEMMA RelianceIsHeld ==
  ASSUME HealthInv, NEW polled \in [Polled -> Maps \cup {NoMap} \cup BOOLEAN], NEW lifecycle,
         \A i \in Polled : polled[i] \in Values(i),
         ReliesOn(Evaluated(polled, lifecycle))
  PROVE  \/ watched[1] \in Polled /\ polled[watched[1]] = watched[2]
         \/ /\ watched[1] \in Topics /\ latest[watched[1]].value = watched[2]
            /\ latest[watched[1]].age <= Timeout[watched[1]]
<1>1. /\ \A i \in Polled : polled[i] # Useless(i)
      /\ \A t \in Topics : latest[t].value # Useless(t) /\ latest[t].age <= Timeout[t]
      /\ latest["localization"].value = polled["map"]
      /\ watched[1] \in {"map", "localization"} => watched[2] = polled["map"]
  BY DEF ReliesOn, Evaluated, Fresh
<1>2. watched[1] \in Polled \cup Topics
  BY WatchedFact DEF HealthInv, HealthTypeOK, Inputs
<1>3. CASE watched[1] = "map"
  BY <1>1, <1>3, HealthAssumption
<1>4. CASE watched[1] = "localization"
  BY <1>1, <1>4, HealthAssumption
<1>5. CASE watched[1] \notin {"map", "localization"}
  <2>1. \A v \in Values(watched[1]) : v # Useless(watched[1]) => v = watched[2]
    BY <1>5, WatchedFact DEF HealthInv, HealthTypeOK
  <2>2. QED
    BY <1>1, <1>2, <2>1 DEF HealthInv, HealthTypeOK
<1>6. QED
  BY <1>3, <1>4, <1>5

(* A positive readiness relies on nothing that is longer ago than its      *)
(* timeout, or than a period for what a tick reads, for every set of maps, *)
(* topics and nodes, every period and every timeout.                       *)
THEOREM ReadyAlwaysCurrent == HealthSpec => ReadyIsCurrent
<1>1. ASSUME HealthInv, HealthInv', HealthTick \/ EvaluateReadiness, ReliesOn(readiness')
      PROVE  ago <= Allowed(watched[1])
  <2>1. latest' = latest /\ watched' = watched /\ ago' = ago
    BY <1>1 DEF HealthTick, EvaluateReadiness
  <2>2. readiness' = Evaluated(cache', states')
    BY <1>1 DEF HealthTick, EvaluateReadiness, Evaluated, Fresh
  <2>3. /\ cache' \in [Polled -> Maps \cup {NoMap} \cup BOOLEAN]
        /\ \A i \in Polled : cache'[i] \in Values(i)
    BY <1>1 DEF HealthInv, HealthTypeOK
  <2>4. \/ watched[1] \in Polled /\ cache'[watched[1]] = watched[2]
        \/ /\ watched[1] \in Topics /\ latest[watched[1]].value = watched[2]
           /\ latest[watched[1]].age <= Timeout[watched[1]]
    <3>1. ReliesOn(Evaluated(cache', states'))
      BY <1>1, <2>2
    <3>2. QED
      BY <1>1, <2>3, <3>1, RelianceIsHeld
  <2>5. CASE watched[1] \in Polled /\ cache'[watched[1]] = watched[2]
    <3>1. ago' <= sinceTick' /\ sinceTick' \in 0 .. Period /\ ago' \in Nat
      BY <1>1, <2>1, <2>5 DEF HealthInv, HealthTypeOK, HeldValues
    <3>2. QED
      BY <2>1, <2>5, <3>1, HealthAssumption DEF Allowed
  <2>6. CASE /\ watched[1] \in Topics /\ latest[watched[1]].value = watched[2]
             /\ latest[watched[1]].age <= Timeout[watched[1]]
    <3>1. ago <= latest[watched[1]].age /\ latest[watched[1]].age \in Nat /\ ago \in Nat
      BY <1>1, <2>6 DEF HealthInv, HealthTypeOK, HeldValues
    <3>2. watched[1] \notin Polled /\ Timeout[watched[1]] \in Nat
      BY <2>6, HealthAssumption
    <3>3. QED
      BY <2>6, <3>1, <3>2 DEF Allowed
  <2>7. QED
    BY <2>4, <2>5, <2>6
<1>2. QED
  BY <1>1, HealthInvInit, HealthInvStep, PTL DEF HealthSpec, ReadyIsCurrent

=============================================================================
