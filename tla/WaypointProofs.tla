--------------------------- MODULE WaypointProofs ---------------------------
(***************************************************************************)
(* Proofs about the waypoint task server, for any set of tasks, any bound on *)
(* the loops and any choice of required gates: what it promises, and that it *)
(* implements the abstract supervision of a motion.                        *)
(***************************************************************************)
EXTENDS WaypointMotion, TLAPS

-----------------------------------------------------------------------------
(***************************************************************************)
(* WaypointTask: chains, reservations, success.                            *)
(***************************************************************************)

\* The stages in which Nav2 may hold a chain of the task that it was not asked
\* to stop, and those in which that chain is the registered child.
Driving == {"sending", "handed", "awaitCancel", "awaitResult"}
Registered == {"handed", "awaitCancel", "awaitResult"}

(***************************************************************************)
(* The first inductive invariant: what one task does with its chains.  A   *)
(* chain that is requested or running is the current one of a task that is *)
(* driving; the chains of the loops that were passed have succeeded; and a *)
(* task has succeeded only when no loop is left.                           *)
(***************************************************************************)
ChainOfDriver ==
  \A t \in Tasks : \A n \in Loop :
    /\ nav[<<t, n>>] = "requested" => pc[t] = "sending" /\ loop[t] = n
    /\ nav[<<t, n>>] = "running" => pc[t] \in Driving /\ loop[t] = n

CheckedChainIsOver ==
  \A t \in Tasks :
    /\ pc[t] \in Driving \cup {"check"} => loop[t] \in Loop
    /\ pc[t] = "check" => nav[<<t, loop[t]>>] \in NavOver

PassedLoops ==
  \A t \in Tasks : \A n \in Loop :
    n < loop[t] => nav[<<t, n>>] = "succeeded"

SuccessIsLast ==
  \A t \in Tasks :
    goal[t] = "succeeded" => loop[t] > loops[t] /\ pc[t] \in {"finally", "done"}

ChainInv ==
  TypeOK /\ ChainOfDriver /\ CheckedChainIsOver /\ PassedLoops /\ SuccessIsLast

(***************************************************************************)
(* The second one: the reservation.  _active is set exactly while a task   *)
(* is live, and with serial goal requests the task being checked is alone: *)
(* that is what keeps the second lock region of _goal_callback from        *)
(* admitting a second task, and with it what keeps the finally block of    *)
(* one task from clearing the child of another.                            *)
(***************************************************************************)
Reservation ==
  /\ \A t \in Tasks : Live(t) => active
  /\ \A t \in Tasks : pc[t] = "checking" => ~active
  /\ \A t, u \in Tasks : pc[t] = "checking" /\ pc[u] = "checking" => t = u

ReservationInv ==
  TypeOK /\ Reservation /\ OneLiveTask /\ AwaitedChainIsSupervised

-----------------------------------------------------------------------------

LEMMA TypeInit == Init => TypeOK
<1> SUFFICES ASSUME Init PROVE TypeOK
  OBVIOUS
<1>1. 1 \in Loop /\ 1 \in 1 .. MaxLoops + 1
  BY WaypointAssumption DEF Loop
<1>2. QED
  BY <1>1 DEF Init, TypeOK, Stage, GoalState, NavState, Gate

\* Every step of a gate, of a client or of Nav2 preserves the types.
LEMMA TypeEnvironment ==
  ASSUME TypeOK,
         \/ \E t \in Tasks : CancelCallback(t) \/ CancelAck(t)
         \/ \E g \in Required : Expire(g)
         \/ \E g \in Gate, ready \in BOOLEAN : Report(g, ready)
         \/ Watchdog
         \/ \E c \in Chain : NavAnswers(c) \/ NavEnds(c) \/ NavCancels(c) \/ NavStops(c)
  PROVE  TypeOK'
<1> USE DEF TypeOK, serverVars, gateVars, navVars
<1>1. ASSUME NEW t \in Tasks, CancelCallback(t) PROVE TypeOK'
  BY <1>1 DEF CancelCallback
<1>2. ASSUME NEW t \in Tasks, CancelAck(t) PROVE TypeOK'
  BY <1>2 DEF CancelAck, GoalState
<1>3. ASSUME NEW g \in Required, Expire(g) PROVE TypeOK'
  BY <1>3, WaypointAssumption DEF Expire
<1>4. ASSUME NEW g \in Gate, NEW ready \in BOOLEAN, Report(g, ready) PROVE TypeOK'
  <2>1. seen' \in [Gate -> BOOLEAN] /\ fresh' \in [Gate -> BOOLEAN]
    BY <1>4, WaypointAssumption DEF Report, gateVars
  <2>2. cancels' \subseteq Chain
    BY <1>4 DEF Report, CancelChild
  <2>3. QED
    BY <1>4, <2>1, <2>2 DEF Report
<1>5. ASSUME Watchdog PROVE TypeOK'
  <2>1. seen' \in [Gate -> BOOLEAN]
    BY <1>5 DEF Watchdog
  <2>2. cancels' \subseteq Chain
    BY <1>5 DEF Watchdog, CancelChild
  <2>3. QED
    BY <1>5, <2>1, <2>2 DEF Watchdog
<1>6. ASSUME NEW c \in Chain, NavAnswers(c) \/ NavEnds(c) \/ NavStops(c) PROVE TypeOK'
  BY <1>6 DEF NavAnswers, NavEnds, NavStops, NavState
<1>7. ASSUME NEW c \in Chain, NavCancels(c) PROVE TypeOK'
  BY <1>7 DEF NavCancels, NavState
<1>8. QED
  BY <1>1, <1>2, <1>3, <1>4, <1>5, <1>6, <1>7

\* So does every step of the server on a goal.
LEMMA TypeServer ==
  ASSUME TypeOK, CheckedChainIsOver, NEW t \in Tasks,
         GoalRequest(t) \/ GoalRefuse(t) \/ GoalAccept(t) \/ Execute(t)
  PROVE  TypeOK'
<1> USE DEF TypeOK, gateVars, navVars
<1>1. CASE GoalRequest(t) \/ GoalRefuse(t)
  BY <1>1 DEF GoalRequest, GoalRefuse, Reject, Stage, GoalState
<1>2. CASE GoalAccept(t)
  BY <1>2 DEF GoalAccept, Stage, GoalState
<1>3. CASE Execute(t)
  <2>1. CASE PrepareFails(t) \/ CanceledBeforeLoop(t) \/ Succeed(t)
          \/ ChainRejected(t) \/ CheckCanceled(t) \/ CheckFails(t)
    BY <2>1 DEF PrepareFails, CanceledBeforeLoop, Succeed, ChainRejected,
                CheckCanceled, CheckFails, End, Stage, GoalState
  <2>2. CASE Prepare(t) \/ Handover(t)
    BY <2>2 DEF Prepare, Handover, AfterHandover, Stage
  <2>3. CASE SendChain(t)
    BY <2>3 DEF SendChain, Stage, NavState
  <2>4. CASE RegisterChild(t)
    <3>1. <<t, loop[t]>> \in Chain
      BY <2>4 DEF RegisterChild, CheckedChainIsOver, Driving, Chain
    <3>2. QED
      BY <2>4, <3>1 DEF RegisterChild, Register, Stage
  <2>5. CASE CancelAnswered(t)
    <3> DEFINE c == <<t, loop[t]>>
    <3>1. nav' \in [Chain -> NavState]
      BY <2>5 DEF CancelAnswered, NavState
    <3>2. QED
      BY <2>5, <3>1 DEF CancelAnswered, End, Stage, GoalState
  <2>6. CASE ChainResult(t)
    BY <2>6 DEF ChainResult, Stage
  <2>7. CASE CheckPasses(t)
    <3>1. loop[t] \in Loop
      BY <2>7 DEF CheckPasses, CheckedChainIsOver
    <3>2. loop[t] + 1 \in 1 .. MaxLoops + 1
      BY <3>1, WaypointAssumption DEF Loop
    <3>3. QED
      BY <2>7, <3>2 DEF CheckPasses, Stage
  <2>8. CASE Finally(t)
    BY <2>8 DEF Finally, Release, Stage
  <2>9. QED
    BY <1>3, <2>1, <2>2, <2>3, <2>4, <2>5, <2>6, <2>7, <2>8 DEF Execute
<1>4. QED
  BY <1>1, <1>2, <1>3

LEMMA TypeStep == TypeOK /\ CheckedChainIsOver /\ [Next]_vars => TypeOK'
<1> SUFFICES ASSUME TypeOK, CheckedChainIsOver, [Next]_vars PROVE TypeOK'
  OBVIOUS
<1>1. CASE UNCHANGED vars
  BY <1>1 DEF vars, serverVars, gateVars, navVars, TypeOK
<1>2. CASE Next
  BY <1>2, TypeEnvironment, TypeServer DEF Next
<1>3. QED
  BY <1>1, <1>2

-----------------------------------------------------------------------------
(* The chains. *)

LEMMA ChainInit == Init => ChainInv
<1> SUFFICES ASSUME Init PROVE ChainInv
  OBVIOUS
<1>1. TypeOK
  BY TypeInit
<1>2. ChainOfDriver
  BY DEF Init, ChainOfDriver, Chain, Driving
<1>3. CheckedChainIsOver
  BY DEF Init, CheckedChainIsOver, Driving
<1>4. PassedLoops
  BY DEF Init, PassedLoops, Loop
<1>5. SuccessIsLast
  BY DEF Init, SuccessIsLast
<1>6. QED
  BY <1>1, <1>2, <1>3, <1>4, <1>5 DEF ChainInv

\* Nav2 changes a chain only while it is requested, running or canceling: never
\* one that is over, and none of a task that it does not drive.
LEMMA NavStep ==
  ASSUME ChainInv, TypeOK', UNCHANGED <<pc, goal, loops, loop>>,
         \/ UNCHANGED nav
         \/ \E c \in Chain : NavAnswers(c) \/ NavEnds(c) \/ NavCancels(c) \/ NavStops(c)
  PROVE  ChainInv'
<1>1. ASSUME NEW c \in Chain, nav[c] \in NavOver PROVE nav'[c] = nav[c]
  BY <1>1 DEF NavAnswers, NavEnds, NavCancels, NavStops, NavOver, ChainInv, TypeOK
<1>2. ASSUME NEW c \in Chain, nav'[c] \in {"requested", "running"}
      PROVE  \/ nav'[c] = nav[c]
             \/ nav[c] = "requested" /\ nav'[c] = "running"
  BY <1>2 DEF NavAnswers, NavEnds, NavCancels, NavStops, ChainInv, TypeOK
<1>3. ChainOfDriver'
  <2> SUFFICES ASSUME NEW t \in Tasks, NEW n \in Loop
               PROVE  /\ nav'[<<t, n>>] = "requested" => pc[t] = "sending" /\ loop[t] = n
                      /\ nav'[<<t, n>>] = "running" => pc[t] \in Driving /\ loop[t] = n
    BY DEF ChainOfDriver
  <2>1. <<t, n>> \in Chain
    BY DEF Chain
  <2>2. QED
    BY <1>2, <2>1 DEF ChainInv, ChainOfDriver, Driving
<1>4. CheckedChainIsOver'
  BY <1>1 DEF ChainInv, CheckedChainIsOver, Chain
<1>5. PassedLoops'
  BY <1>1 DEF ChainInv, PassedLoops, Chain, NavOver
<1>6. SuccessIsLast'
  BY DEF ChainInv, SuccessIsLast
<1>7. QED
  BY <1>3, <1>4, <1>5, <1>6 DEF ChainInv

\* A step of the server moves one task, and its chains only by asking Nav2 for
\* the current one or by canceling it.
LEMMA ServerStep ==
  ASSUME ChainInv, TypeOK', NEW t \in Tasks,
         GoalRequest(t) \/ GoalRefuse(t) \/ GoalAccept(t) \/ CancelAck(t) \/ Execute(t)
  PROVE  ChainInv'
<1> USE DEF ChainInv, TypeOK, navVars
<1>1. CASE GoalRequest(t) \/ GoalRefuse(t) \/ GoalAccept(t) \/ CancelAck(t)
  <2>1. nav' = nav /\ loop' = loop
    BY <1>1 DEF GoalRequest, GoalRefuse, GoalAccept, CancelAck
  <2>2. \A u \in Tasks : pc'[u] \in Driving \cup {"check"} => pc'[u] = pc[u]
    BY <1>1 DEF GoalRequest, GoalRefuse, GoalAccept, CancelAck, Reject, Driving
  <2>3. \A u \in Tasks : pc[u] \in Driving => pc'[u] = pc[u]
    BY <1>1 DEF GoalRequest, GoalRefuse, GoalAccept, CancelAck, Reject, Driving
  <2>4. ChainOfDriver'
    BY <2>1, <2>3 DEF ChainOfDriver, Driving
  <2>5. CheckedChainIsOver'
    BY <2>1, <2>2 DEF CheckedChainIsOver
  <2>6. PassedLoops'
    BY <2>1 DEF PassedLoops
  <2>7. SuccessIsLast'
    BY <1>1 DEF SuccessIsLast, GoalRequest, GoalRefuse, GoalAccept, CancelAck, Reject
  <2>8. QED
    BY <2>4, <2>5, <2>6, <2>7
<1>2. CASE Execute(t)
  <2>1. CASE PrepareFails(t) \/ Prepare(t) \/ CanceledBeforeLoop(t) \/ Succeed(t)
          \/ CheckCanceled(t) \/ CheckFails(t) \/ Finally(t) \/ ChainRejected(t)
    <3>1. nav' = nav /\ loop' = loop /\ loops' = loops
      BY <2>1 DEF PrepareFails, Prepare, CanceledBeforeLoop, Succeed, CheckCanceled,
                  CheckFails, Finally, ChainRejected
    <3>2. /\ pc'[t] \notin Driving \cup {"check"}
          /\ \A u \in Tasks \ {t} : pc'[u] = pc[u]
      BY <2>1 DEF PrepareFails, Prepare, CanceledBeforeLoop, Succeed, CheckCanceled,
                  CheckFails, Finally, ChainRejected, End, Driving
    <3>3. \A n \in Loop : nav[<<t, n>>] \notin {"requested", "running"}
      BY <2>1 DEF PrepareFails, Prepare, CanceledBeforeLoop, Succeed, CheckCanceled,
                  CheckFails, Finally, ChainRejected, ChainOfDriver, Driving
    <3>4. ChainOfDriver'
      <4> SUFFICES ASSUME NEW u \in Tasks, NEW n \in Loop
                   PROVE  /\ nav'[<<u, n>>] = "requested" => pc'[u] = "sending" /\ loop'[u] = n
                          /\ nav'[<<u, n>>] = "running" => pc'[u] \in Driving /\ loop'[u] = n
        BY DEF ChainOfDriver
      <4>1. CASE u = t
        BY <3>1, <3>3, <4>1
      <4>2. CASE u # t
        BY <3>1, <3>2, <4>2 DEF ChainOfDriver
      <4>3. QED
        BY <4>1, <4>2
    <3>5. CheckedChainIsOver'
      BY <3>1, <3>2 DEF CheckedChainIsOver
    <3>6. PassedLoops'
      BY <3>1 DEF PassedLoops
    <3>7. SuccessIsLast'
      <4>1. CASE Succeed(t)
        BY <4>1 DEF Succeed, End, LoopsLeft, SuccessIsLast, Loop
      <4>2. CASE Finally(t)
        BY <4>2 DEF Finally, SuccessIsLast
      <4>3. CASE ~Succeed(t) /\ ~Finally(t)
        BY <2>1, <4>3 DEF PrepareFails, Prepare, CanceledBeforeLoop, CheckCanceled,
                          CheckFails, ChainRejected, End, SuccessIsLast
      <4>4. QED
        BY <4>1, <4>2, <4>3
    <3>8. QED
      BY <3>4, <3>5, <3>6, <3>7
  <2>2. CASE SendChain(t)
    <3>1. loop[t] \in Loop
      BY <2>2, WaypointAssumption DEF SendChain, LoopsLeft, Loop
    <3>2. ChainOfDriver'
      BY <2>2, <3>1, ZenonT(60) DEF SendChain, ChainOfDriver, Driving, Chain
    <3>3. CheckedChainIsOver'
      BY <2>2, <3>1 DEF SendChain, CheckedChainIsOver, Driving, Chain
    <3>4. PassedLoops'
      BY <2>2, <3>1 DEF SendChain, PassedLoops, Chain, Loop
    <3>5. SuccessIsLast'
      BY <2>2 DEF SendChain, SuccessIsLast
    <3>6. QED
      BY <3>2, <3>3, <3>4, <3>5
  <2>3. CASE RegisterChild(t) \/ Handover(t)
    <3>1. nav' = nav /\ loop' = loop /\ loops' = loops /\ goal' = goal
      BY <2>3 DEF RegisterChild, Handover
    <3>2. /\ pc[t] \in Driving /\ pc'[t] \in Driving /\ pc'[t] # "sending"
          /\ \A u \in Tasks \ {t} : pc'[u] = pc[u]
      BY <2>3 DEF RegisterChild, Handover, AfterHandover, Driving
    <3>3. nav[<<t, loop[t]>>] # "requested"
      BY <2>3 DEF RegisterChild, Handover, ChainOfDriver, CheckedChainIsOver, Driving
    <3>4. ChainOfDriver'
      BY <3>1, <3>2, <3>3, ZenonT(60) DEF ChainOfDriver
    <3>5. CheckedChainIsOver'
      BY <3>1, <3>2 DEF CheckedChainIsOver, Driving
    <3>6. PassedLoops'
      BY <3>1 DEF PassedLoops
    <3>7. SuccessIsLast'
      BY <3>1, <3>2 DEF SuccessIsLast, Driving
    <3>8. QED
      BY <3>4, <3>5, <3>6, <3>7
  <2>4. CASE CancelAnswered(t)
    <3> DEFINE c == <<t, loop[t]>>
    <3>1. c \in Chain
      BY <2>4 DEF CancelAnswered, CheckedChainIsOver, Driving, Chain
    <3>2. \A d \in Chain : nav'[d] = IF d = c /\ nav[c] = "running" THEN "canceling" ELSE nav[d]
      BY <2>4, <3>1 DEF CancelAnswered
    <3>3. /\ pc' = [pc EXCEPT ![t] = "finally"] /\ loop' = loop /\ loops' = loops
          /\ pc[t] = "awaitCancel"
          /\ goal' = [goal EXCEPT ![t] = "canceled"] \/ goal' = [goal EXCEPT ![t] = "aborted"]
      BY <2>4 DEF CancelAnswered, End
    <3>4. ChainOfDriver'
      <4> SUFFICES ASSUME NEW u \in Tasks, NEW n \in Loop
                   PROVE  /\ nav'[<<u, n>>] = "requested" => pc'[u] = "sending" /\ loop'[u] = n
                          /\ nav'[<<u, n>>] = "running" => pc'[u] \in Driving /\ loop'[u] = n
        BY DEF ChainOfDriver
      <4>1. <<u, n>> \in Chain
        BY DEF Chain
      <4>2. CASE u = t
        BY <3>2, <3>3, <4>1, <4>2 DEF ChainOfDriver
      <4>3. CASE u # t
        BY <3>2, <3>3, <4>1, <4>3 DEF ChainOfDriver
      <4>4. QED
        BY <4>2, <4>3
    <3>5. CheckedChainIsOver'
      BY <3>2, <3>3 DEF CheckedChainIsOver, Chain, Driving, NavOver
    <3>6. PassedLoops'
      BY <3>2, <3>3 DEF PassedLoops, Chain
    <3>7. SuccessIsLast'
      BY <3>3 DEF SuccessIsLast
    <3>8. QED
      BY <3>4, <3>5, <3>6, <3>7
  <2>5. CASE ChainResult(t)
    <3>1. nav' = nav /\ loop' = loop /\ loops' = loops /\ goal' = goal
      BY <2>5 DEF ChainResult
    <3>2. /\ pc[t] = "awaitResult" /\ pc' = [pc EXCEPT ![t] = "check"]
          /\ nav[<<t, loop[t]>>] \in NavOver
      BY <2>5 DEF ChainResult
    <3>3. ChainOfDriver'
      BY <3>1, <3>2, ZenonT(60) DEF ChainOfDriver, NavOver, Driving
    <3>4. CheckedChainIsOver'
      BY <3>1, <3>2 DEF CheckedChainIsOver, Driving
    <3>5. PassedLoops'
      BY <3>1 DEF PassedLoops
    <3>6. SuccessIsLast'
      BY <3>1, <3>2 DEF SuccessIsLast
    <3>7. QED
      BY <3>3, <3>4, <3>5, <3>6
  <2>6. CASE CheckPasses(t)
    <3>1. /\ nav' = nav /\ loops' = loops /\ goal' = goal
          /\ pc[t] = "check" /\ pc' = [pc EXCEPT ![t] = "loop"]
          /\ loop' = [loop EXCEPT ![t] = loop[t] + 1]
          /\ nav[<<t, loop[t]>>] = "succeeded"
      BY <2>6 DEF CheckPasses, ResultAccepted
    <3>2. ChainOfDriver'
      BY <3>1, ZenonT(60) DEF ChainOfDriver, Driving
    <3>3. CheckedChainIsOver'
      BY <3>1 DEF CheckedChainIsOver, Driving
    <3>4. PassedLoops'
      <4> SUFFICES ASSUME NEW u \in Tasks, NEW n \in Loop, n < loop'[u]
                   PROVE  nav'[<<u, n>>] = "succeeded"
        BY DEF PassedLoops
      <4>1. CASE u = t /\ n = loop[t]
        BY <3>1, <4>1
      <4>2. CASE ~(u = t /\ n = loop[t])
        <5>1. n < loop[u]
          BY <3>1, <4>2 DEF Loop
        <5>2. QED
          BY <3>1, <5>1 DEF PassedLoops
      <4>3. QED
        BY <4>1, <4>2
    <3>5. SuccessIsLast'
      BY <3>1 DEF SuccessIsLast
    <3>6. QED
      BY <3>2, <3>3, <3>4, <3>5
  <2>7. QED
    BY <1>2, <2>1, <2>2, <2>3, <2>4, <2>5, <2>6 DEF Execute
<1>3. QED
  BY <1>1, <1>2

LEMMA ChainStep == ChainInv /\ [Next]_vars => ChainInv'
<1> SUFFICES ASSUME ChainInv, [Next]_vars PROVE ChainInv'
  OBVIOUS
<1>1. TypeOK'
  BY TypeStep DEF ChainInv
<1>2. CASE UNCHANGED vars
  BY <1>1, <1>2, NavStep DEF vars, serverVars, navVars
<1>3. ASSUME NEW t \in Tasks,
             GoalRequest(t) \/ GoalRefuse(t) \/ GoalAccept(t) \/ CancelAck(t) \/ Execute(t)
      PROVE  ChainInv'
  BY <1>1, <1>3, ServerStep
<1>4. ASSUME NEW t \in Tasks, CancelCallback(t) PROVE ChainInv'
  BY <1>1, <1>4, NavStep DEF CancelCallback, serverVars
<1>5. ASSUME NEW g \in Gate,
             Expire(g) \/ \E ready \in BOOLEAN : Report(g, ready)
      PROVE  ChainInv'
  BY <1>1, <1>5, NavStep DEF Expire, Report, serverVars, navVars
<1>6. ASSUME Watchdog PROVE ChainInv'
  BY <1>1, <1>6, NavStep DEF Watchdog, serverVars
<1>7. ASSUME NEW c \in Chain,
             NavAnswers(c) \/ NavEnds(c) \/ NavCancels(c) \/ NavStops(c)
      PROVE  ChainInv'
  <2>1. UNCHANGED <<pc, goal, loops, loop>>
    BY <1>7 DEF NavAnswers, NavEnds, NavCancels, NavStops, serverVars
  <2>2. QED
    BY <1>1, <1>7, <2>1, NavStep
<1>8. QED
  BY <1>2, <1>3, <1>4, <1>5, <1>6, <1>7, WaypointAssumption DEF Next

\* Types are kept: every field of the server, of its goals and of Nav2's chains
\* stays in its range, the loop index included.
THEOREM TypeCorrect == Spec => []TypeOK
<1>1. ChainInv => TypeOK
  BY DEF ChainInv
<1>2. QED
  BY <1>1, ChainInit, ChainStep, PTL DEF Spec

\* Whatever two goal requests do to each other, no path through _execute ends a
\* task and leaves one of its FollowWaypoints goals running unasked to stop.
THEOREM NoOrphan == Spec => []NoOrphanChain
<1>1. ChainInv => NoOrphanChain
  BY DEF ChainInv, ChainOfDriver, NoOrphanChain, Driving, Live
<1>2. QED
  BY <1>1, ChainInit, ChainStep, PTL DEF Spec

\* A task that succeeded has driven its chain to the end in every one of its
\* loops, for any loop_count the server accepts.
THEOREM Complete == Spec => []SuccessIsComplete
<1>1. ChainInv => SuccessIsComplete
  <2> SUFFICES ASSUME ChainInv, NEW t \in Tasks, goal[t] = "succeeded",
                      NEW n \in 1 .. loops[t]
               PROVE  nav[<<t, n>>] = "succeeded"
    BY DEF SuccessIsComplete
  <2>1. n \in Loop /\ n < loop[t]
    BY WaypointAssumption DEF ChainInv, TypeOK, SuccessIsLast, Loop
  <2>2. QED
    BY <2>1 DEF ChainInv, PassedLoops
<1>2. QED
  BY <1>1, ChainInit, ChainStep, PTL DEF Spec

-----------------------------------------------------------------------------
(* The reservation, when goal requests are handled one at a time. *)

LEMMA ReservationInit == Init => ReservationInv
<1> SUFFICES ASSUME Init PROVE ReservationInv
  OBVIOUS
<1>1. TypeOK
  BY TypeInit
<1>2. Reservation /\ OneLiveTask /\ AwaitedChainIsSupervised
  BY DEF Init, Reservation, OneLiveTask, AwaitedChainIsSupervised, Live
<1>3. QED
  BY <1>1, <1>2 DEF ReservationInv

\* A step that moves a task within its life, and leaves the reservation and the
\* child alone or registers the child of that task.
LEMMA LiveStep ==
  ASSUME ReservationInv, TypeOK', NEW t \in Tasks, Live(t),
         \A u \in Tasks \ {t} : pc'[u] = pc[u],
         pc'[t] \notin {"idle", "checking", "done"}, active' = active,
         loop'[t] = loop[t] \/ pc'[t] = "loop",
         \A u \in Tasks \ {t} : loop'[u] = loop[u],
         pc'[t] \in Registered =>
           child' = <<t, loop[t]>> \/ (child' = child /\ pc[t] \in Registered)
  PROVE  ReservationInv'
<1> USE DEF ReservationInv, Live
<1>1. Reservation'
  BY DEF Reservation
<1>2. OneLiveTask'
  BY DEF OneLiveTask
<1>3. AwaitedChainIsSupervised'
  BY DEF Reservation, OneLiveTask, AwaitedChainIsSupervised, Registered
<1>4. QED
  BY <1>1, <1>2, <1>3

\* With serial goal requests, a request that is admitted to its checks finds no
\* live task, and none appears before it sets _active.
LEMMA AdmissionStep ==
  ASSUME SerialGoals, ReservationInv, TypeOK', NEW t \in Tasks,
         GoalRequest(t) \/ GoalRefuse(t) \/ GoalAccept(t)
  PROVE  ReservationInv'
<1> USE DEF ReservationInv, TypeOK, Live, Reservation, OneLiveTask,
            AwaitedChainIsSupervised
<1>1. CASE GoalRequest(t)
  <2>1. CASE active
    BY <1>1, <2>1 DEF GoalRequest, Reject
  <2>2. CASE ~active
    BY <1>1, <2>2 DEF GoalRequest, GoalRequestMutex
  <2>3. QED
    BY <2>1, <2>2
<1>2. CASE GoalRefuse(t)
  BY <1>2 DEF GoalRefuse, Reject
<1>3. CASE GoalAccept(t)
  BY <1>3 DEF GoalAccept
<1>4. QED
  BY <1>1, <1>2, <1>3

LEMMA ReservationStep ==
  ASSUME SerialGoals, ReservationInv, TypeOK', [Next]_vars
  PROVE  ReservationInv'
<1> USE DEF ReservationInv
<1>1. CASE UNCHANGED <<pc, loop, active, child>>
  BY <1>1 DEF Reservation, OneLiveTask, AwaitedChainIsSupervised, Live
<1>2. ASSUME NEW t \in Tasks, GoalRequest(t) \/ GoalRefuse(t) \/ GoalAccept(t)
      PROVE  ReservationInv'
  BY <1>2, AdmissionStep
<1>3. ASSUME NEW t \in Tasks, Execute(t) PROVE ReservationInv'
  <2> USE DEF TypeOK, navVars
  <2>1. CASE PrepareFails(t) \/ CanceledBeforeLoop(t) \/ Succeed(t)
          \/ ChainRejected(t) \/ CheckCanceled(t) \/ CheckFails(t)
    BY <2>1, LiveStep DEF PrepareFails, CanceledBeforeLoop, Succeed, ChainRejected,
         CheckCanceled, CheckFails, End, Live, Registered
  <2>2. CASE Prepare(t) \/ SendChain(t) \/ CheckPasses(t)
    BY <2>2, LiveStep DEF Prepare, SendChain, CheckPasses, Live, Registered
  <2>3. CASE RegisterChild(t)
    <3>1. /\ pc[t] = "sending" /\ pc' = [pc EXCEPT ![t] = "handed"]
          /\ child' = <<t, loop[t]>> /\ UNCHANGED <<loop, active>>
      BY <2>3 DEF RegisterChild, Register
    <3>2. /\ Live(t) /\ pc'[t] = "handed" /\ loop'[t] = loop[t]
          /\ \A u \in Tasks \ {t} : pc'[u] = pc[u] /\ loop'[u] = loop[u]
      BY <3>1 DEF Live
    <3>3. Reservation' /\ OneLiveTask'
      BY <3>1, <3>2 DEF Reservation, OneLiveTask, Live
    <3>4. AwaitedChainIsSupervised'
      <4> SUFFICES ASSUME NEW u \in Tasks,
                          pc'[u] \in {"handed", "awaitCancel", "awaitResult"}
                   PROVE  active' /\ child' = <<u, loop'[u]>>
        BY DEF AwaitedChainIsSupervised
      <4>1. u = t
        BY <3>1, <3>2 DEF OneLiveTask, Live
      <4>2. QED
        BY <3>1, <3>2, <4>1 DEF Reservation
    <3>5. QED
      BY <3>3, <3>4
  <2>4. CASE Handover(t)
    BY <2>4, LiveStep DEF Handover, AfterHandover, Live, Registered
  <2>5. CASE CancelAnswered(t)
    <3>1. /\ pc[t] = "awaitCancel" /\ pc' = [pc EXCEPT ![t] = "finally"]
          /\ UNCHANGED <<loop, active, child>>
      BY <2>5 DEF CancelAnswered, End
    <3>2. QED
      BY <3>1, LiveStep DEF Live, Registered
  <2>6. CASE ChainResult(t)
    BY <2>6, LiveStep DEF ChainResult, Live, Registered
  <2>7. CASE Finally(t)
    BY <2>7 DEF Finally, Release, Live, Reservation, OneLiveTask,
                AwaitedChainIsSupervised
  <2>8. QED
    BY <1>3, <2>1, <2>2, <2>3, <2>4, <2>5, <2>6, <2>7 DEF Execute
<1>4. CASE Next
  <2>1. ASSUME NEW t \in Tasks, CancelCallback(t) \/ CancelAck(t)
        PROVE  UNCHANGED <<pc, loop, active, child>>
    BY <2>1 DEF CancelCallback, CancelAck, serverVars
  <2>2. ASSUME NEW g \in Gate,
               Expire(g) \/ \E ready \in BOOLEAN : Report(g, ready)
        PROVE  UNCHANGED <<pc, loop, active, child>>
    BY <2>2 DEF Expire, Report, serverVars
  <2>3. ASSUME Watchdog PROVE UNCHANGED <<pc, loop, active, child>>
    BY <2>3 DEF Watchdog, serverVars
  <2>4. ASSUME NEW c \in Chain,
               NavAnswers(c) \/ NavEnds(c) \/ NavCancels(c) \/ NavStops(c)
        PROVE  UNCHANGED <<pc, loop, active, child>>
    BY <2>4 DEF NavAnswers, NavEnds, NavCancels, NavStops, serverVars
  <2>5. QED
    BY <1>1, <1>2, <1>3, <1>4, <2>1, <2>2, <2>3, <2>4, WaypointAssumption DEF Next
<1>5. QED
  BY <1>1, <1>4 DEF vars, serverVars

\* With serial goal requests, no two accepted tasks are ever executed together,
\* although the test of _active and its assignment are not one critical section.
THEOREM OneLive == SerialGoals /\ Spec => []OneLiveTask
<1> SUFFICES ASSUME SerialGoals PROVE Spec => []OneLiveTask
  OBVIOUS
<1>1. ReservationInv /\ TypeOK' /\ [Next]_vars => ReservationInv'
  BY ReservationStep
<1>2. ReservationInv => OneLiveTask
  BY DEF ReservationInv
<1>3. QED
  BY <1>1, <1>2, ReservationInit, TypeCorrect, PTL DEF Spec

\* ... and the chain a task awaits is always the one the gates can cancel.
THEOREM AwaitedSupervised == SerialGoals /\ Spec => []AwaitedChainIsSupervised
<1> SUFFICES ASSUME SerialGoals PROVE Spec => []AwaitedChainIsSupervised
  OBVIOUS
<1>1. ReservationInv /\ TypeOK' /\ [Next]_vars => ReservationInv'
  BY ReservationStep
<1>2. ReservationInv => AwaitedChainIsSupervised
  BY DEF ReservationInv
<1>3. QED
  BY <1>1, <1>2, ReservationInit, TypeCorrect, PTL DEF Spec

-----------------------------------------------------------------------------
(***************************************************************************)
(* WaypointTask implements SupervisedMotion, whether or not goal requests  *)
(* are handled one at a time.                                              *)
(***************************************************************************)

\* Beside ChainInv, the mapping needs to know that the chains of later loops were
\* not sent, and that the goal of a task is open while the task is executed.
LaterUnsent ==
  \A t \in Tasks : \A n \in Loop :
    n > loop[t] \/ (n = loop[t] /\ pc[t] \in {"idle", "checking", "accepted", "loop"}) =>
      nav[<<t, n>>] = "unsent"

OpenGoals ==
  \A t \in Tasks :
    /\ pc[t] \in {"idle", "checking"} => goal[t] = "none"
    /\ pc[t] \in {"accepted", "loop", "check"} \cup Driving =>
         goal[t] \in {"executing", "canceling"}

MotionInv == ChainInv /\ LaterUnsent /\ OpenGoals

LEMMA MotionInit == Init => MotionInv
<1> SUFFICES ASSUME Init PROVE MotionInv
  OBVIOUS
<1>1. LaterUnsent
  BY DEF Init, LaterUnsent, Chain, Loop
<1>2. OpenGoals
  BY DEF Init, OpenGoals, Driving
<1>3. QED
  BY <1>1, <1>2, ChainInit DEF MotionInv

\* What a step of the server does to the goals and the stages.
LEMMA OpenGoalsStep == ASSUME ChainInv, OpenGoals, [Next]_vars PROVE OpenGoals'
<1> USE DEF ChainInv, TypeOK, OpenGoals, Driving
<1>1. CASE UNCHANGED <<pc, goal>>
  BY <1>1
<1>2. ASSUME NEW t \in Tasks, GoalRequest(t) \/ GoalRefuse(t) \/ GoalAccept(t) \/ CancelAck(t)
      PROVE  OpenGoals'
  BY <1>2 DEF GoalRequest, GoalRefuse, GoalAccept, CancelAck, Reject
<1>3. ASSUME NEW t \in Tasks, Execute(t) PROVE OpenGoals'
  <2>1. CASE PrepareFails(t) \/ CanceledBeforeLoop(t) \/ Succeed(t) \/ ChainRejected(t)
             \/ CheckCanceled(t) \/ CheckFails(t) \/ CancelAnswered(t)
    BY <2>1 DEF PrepareFails, CanceledBeforeLoop, Succeed, ChainRejected, CheckCanceled,
                CheckFails, CancelAnswered, End
  <2>2. CASE Prepare(t) \/ SendChain(t) \/ RegisterChild(t) \/ Handover(t)
             \/ ChainResult(t) \/ CheckPasses(t) \/ Finally(t)
    BY <2>2 DEF Prepare, SendChain, RegisterChild, Handover, AfterHandover, ChainResult,
                CheckPasses, Finally
  <2>3. QED
    BY <1>3, <2>1, <2>2 DEF Execute
<1>4. CASE \/ UNCHANGED vars \/ Watchdog
           \/ \E t \in Tasks : CancelCallback(t)
           \/ \E g \in Required : Expire(g)
           \/ \E g \in Gate, ready \in BOOLEAN : Report(g, ready)
           \/ \E c \in Chain : NavAnswers(c) \/ NavEnds(c) \/ NavCancels(c) \/ NavStops(c)
  <2>1. UNCHANGED <<pc, goal>>
    BY <1>4 DEF vars, serverVars, Watchdog, CancelCallback, Expire, Report, NavAnswers,
                NavEnds, NavCancels, NavStops
  <2>2. QED
    BY <1>1, <2>1
<1>5. QED
  BY <1>2, <1>3, <1>4 DEF Next

LEMMA LaterUnsentStep == ASSUME ChainInv, LaterUnsent, [Next]_vars PROVE LaterUnsent'
<1> USE DEF ChainInv, TypeOK
<1>1. SUFFICES ASSUME NEW u \in Tasks, NEW n \in Loop,
                      \/ n > loop'[u]
                      \/ n = loop'[u] /\ pc'[u] \in {"idle", "checking", "accepted", "loop"}
               PROVE  nav'[<<u, n>>] = "unsent"
  BY DEF LaterUnsent
<1> DEFINE c == <<u, n>>
<1>2. c \in Chain
  BY DEF Chain
<1>3. loop[u] \in Nat /\ n \in Nat
  <2>1. loop[u] \in 1 .. MaxLoops + 1 /\ n \in 1 .. MaxLoops
    BY DEF Loop
  <2>2. QED
    BY <2>1, WaypointAssumption
<1>4. CASE \/ UNCHANGED vars \/ Watchdog
           \/ \E t \in Tasks : CancelCallback(t) \/ CancelAck(t)
           \/ \E g \in Required : Expire(g)
           \/ \E g \in Gate, ready \in BOOLEAN : Report(g, ready)
           \/ \E d \in Chain : NavAnswers(d) \/ NavEnds(d) \/ NavCancels(d) \/ NavStops(d)
  <2>1. UNCHANGED <<pc, loop>>
    BY <1>4 DEF vars, serverVars, Watchdog, CancelCallback, CancelAck, Expire, Report,
                NavAnswers, NavEnds, NavCancels, NavStops
  <2>2. nav[c] = "unsent"
    BY <1>1, <2>1 DEF LaterUnsent
  <2>3. nav'[c] = nav[c]
    <3>1. CASE \E d \in Chain : NavAnswers(d) \/ NavEnds(d) \/ NavCancels(d) \/ NavStops(d)
      BY <1>2, <2>2, <3>1 DEF NavAnswers, NavEnds, NavCancels, NavStops
    <3>2. CASE UNCHANGED nav
      BY <3>2
    <3>3. QED
      BY <1>4, <3>1, <3>2 DEF vars, navVars, Watchdog, CancelCallback, CancelAck, Expire,
                              Report
  <2>4. QED
    BY <2>2, <2>3
<1>5. ASSUME NEW t \in Tasks,
             GoalRequest(t) \/ GoalRefuse(t) \/ GoalAccept(t) \/ Execute(t)
      PROVE  nav'[c] = "unsent"
  <2>1. CASE GoalRequest(t) \/ GoalRefuse(t) \/ GoalAccept(t)
    BY <1>1, <2>1 DEF GoalRequest, GoalRefuse, GoalAccept, Reject, LaterUnsent, navVars
  <2>2. CASE PrepareFails(t) \/ CanceledBeforeLoop(t) \/ Succeed(t) \/ ChainRejected(t)
             \/ CheckCanceled(t) \/ CheckFails(t)
    BY <1>1, <2>2 DEF PrepareFails, CanceledBeforeLoop, Succeed, ChainRejected,
                      CheckCanceled, CheckFails, End, LaterUnsent, navVars
  <2>3. CASE Prepare(t) \/ RegisterChild(t) \/ Handover(t) \/ ChainResult(t) \/ Finally(t)
    BY <1>1, <2>3 DEF Prepare, RegisterChild, Handover, AfterHandover, ChainResult,
                      Finally, LaterUnsent, navVars
  <2>4. CASE CancelAnswered(t)
    <3>1. pc' = [pc EXCEPT ![t] = "finally"] /\ loop' = loop
      BY <2>4 DEF CancelAnswered, End
    <3>2. nav[c] = "unsent"
      BY <1>1, <3>1 DEF LaterUnsent
    <3>3. nav'[c] = nav[c]
      BY <1>2, <2>4, <3>2 DEF CancelAnswered
    <3>4. QED
      BY <3>2, <3>3
  <2>5. CASE SendChain(t)
    <3>1. pc' = [pc EXCEPT ![t] = "sending"] /\ loop' = loop /\ pc[t] = "loop"
      BY <2>5 DEF SendChain
    <3>2. nav[c] = "unsent"
      BY <1>1, <3>1 DEF LaterUnsent
    <3>3. c # <<t, loop[t]>>
      BY <1>1, <1>3, <3>1
    <3>4. nav'[c] = nav[c]
      BY <1>2, <2>5, <3>3 DEF SendChain
    <3>5. QED
      BY <3>2, <3>4
  <2>6. CASE CheckPasses(t)
    <3>1. /\ nav' = nav /\ pc' = [pc EXCEPT ![t] = "loop"]
          /\ loop' = [loop EXCEPT ![t] = loop[t] + 1]
      BY <2>6 DEF CheckPasses, navVars
    <3>2. CASE u = t
      <4>1. n > loop[u]
        BY <1>1, <1>3, <3>1, <3>2
      <4>2. QED
        BY <3>1, <4>1 DEF LaterUnsent
    <3>3. CASE u # t
      BY <1>1, <3>1, <3>3 DEF LaterUnsent
    <3>4. QED
      BY <3>2, <3>3
  <2>7. QED
    BY <1>5, <2>1, <2>2, <2>3, <2>4, <2>5, <2>6 DEF Execute
<1>6. QED
  BY <1>4, <1>5 DEF Next

LEMMA MotionStep == MotionInv /\ [Next]_vars => MotionInv'
  BY ChainStep, OpenGoalsStep, LaterUnsentStep DEF MotionInv

-----------------------------------------------------------------------------
(* Steps of the abstract specification, in terms of the mapping. *)

report == [t \in Tasks |-> Reported(t)]
motion == [c \in Chain |-> Motion(c)]

AbstractNext == [Supervised!Next]_<<report, motion>>

LEMMA Stutter ==
  ASSUME \A t \in Tasks : Reported(t)' = Reported(t),
         \A c \in Chain : Motion(c)' = Motion(c)
  PROVE  AbstractNext
BY DEF AbstractNext, report, motion

\* A chain counts as driven from the moment the server asks for it.
LEMMA NeverAsked == \A c \in Chain : Motion(c) # "asked"
BY DEF Motion

\* One run starts, is told to stop, or ends; no report changes.
LEMMA RunStep ==
  ASSUME NEW c \in Chain,
         \A t \in Tasks : Reported(t)' = Reported(t),
         \A d \in Chain \ {c} : Motion(d)' = Motion(d),
         \/ Motion(c)' = Motion(c)
         \/ /\ Motion(c) = "none" /\ Motion(c)' = "driven" /\ Reported(c[1]) = "open"
            /\ \A d \in Chain : d[1] = c[1] => Motion(d) # "driven"
         \/ Motion(c) = "driven" /\ Motion(c)' = "stopping"
         \/ Motion(c) \in {"driven", "stopping"} /\ Motion(c)' \in {"reached", "over"}
  PROVE  AbstractNext
<1>1. report' = report
  BY DEF report
<1>2. motion' = [motion EXCEPT ![c] = Motion(c)']
  BY DEF motion
<1>3. motion[c] = Motion(c) /\ c[1] \in Tasks
  BY DEF motion, Chain
<1>4. report[c[1]] = Reported(c[1])
  BY <1>3 DEF report
<1>5. CASE Motion(c)' = Motion(c)
  BY <1>5, Stutter
<1>6. CASE /\ Motion(c) = "none" /\ Motion(c)' = "driven" /\ Reported(c[1]) = "open"
           /\ \A d \in Chain : d[1] = c[1] => Motion(d) # "driven"
  <2>1. Supervised!Start(c)
    BY NeverAsked, <1>1, <1>2, <1>3, <1>4, <1>6 DEF Supervised!Start, Supervised!RunsOf, report, motion
  <2>2. QED
    BY <2>1 DEF AbstractNext, Supervised!Next
<1>7. CASE Motion(c) = "driven" /\ Motion(c)' = "stopping"
  <2>1. Supervised!Stop(c)
    BY <1>1, <1>2, <1>3, <1>7 DEF Supervised!Stop, report, motion
  <2>2. QED
    BY <2>1 DEF AbstractNext, Supervised!Next
<1>8. CASE Motion(c) \in {"driven", "stopping"} /\ Motion(c)' \in {"reached", "over"}
  <2>1. Supervised!End(c)
    BY <1>1, <1>2, <1>3, <1>8 DEF Supervised!End, report, motion
  <2>2. QED
    BY <2>1 DEF AbstractNext, Supervised!Next
<1>9. QED
  BY <1>5, <1>6, <1>7, <1>8

\* A task is reported as ended; a run of it that is driven is stopped by that step.
LEMMA EndedStep ==
  ASSUME NEW t \in Tasks, Reported(t) = "open", Reported(t)' = "ended",
         \A u \in Tasks \ {t} : Reported(u)' = Reported(u),
         \A c \in Chain : Motion(c)' = IF c[1] = t /\ Motion(c) = "driven"
                                       THEN "stopping" ELSE Motion(c)
  PROVE  AbstractNext
<1>1. report' = [report EXCEPT ![t] = "ended"] /\ report[t] = "open"
  BY DEF report
<1>2. motion' = [c \in Chain |-> IF c[1] = t /\ motion[c] = "driven"
                                 THEN "stopping" ELSE motion[c]]
  BY DEF motion
<1>3. \A c \in Chain : [d \in Chain |-> d[1]][c] = c[1]
  OBVIOUS
<1>4. Supervised!ReportEnded(t)
  BY NeverAsked, <1>1, <1>2, <1>3 DEF Supervised!ReportEnded, Supervised!RunsOf, report, motion
<1>5. QED
  BY <1>4 DEF AbstractNext, Supervised!Next

LEMMA SucceededStep ==
  ASSUME NEW t \in Tasks, Reported(t) = "open", Reported(t)' = "succeeded",
         \A u \in Tasks \ {t} : Reported(u)' = Reported(u),
         \A c \in Chain : Motion(c)' = Motion(c),
         \A c \in Chain : c[1] = t => Motion(c) \in {"none", "reached"},
         NEW r \in Chain, r[1] = t, Motion(r) = "reached"
  PROVE  AbstractNext
<1>1. report' = [report EXCEPT ![t] = "succeeded"] /\ report[t] = "open"
  BY DEF report
<1>2. motion' = motion
  BY DEF motion
<1>3. \A c \in Chain : motion[c] = Motion(c)
  BY DEF motion
<1>4. Supervised!RunsOf(t) = {c \in Chain : c[1] = t}
  BY DEF Supervised!RunsOf
<1>5. Supervised!ReportSucceeded(t)
  BY <1>1, <1>2, <1>3, <1>4 DEF Supervised!ReportSucceeded, report, motion
<1>6. QED
  BY <1>5 DEF AbstractNext, Supervised!Next

-----------------------------------------------------------------------------
(* Every step of the server maps to a step of the abstract specification. *)

\* A task leaves _execute, or is refused, with none of its chains driven.
LEMMA EndIsStep ==
  ASSUME MotionInv, NEW t \in Tasks, NEW outcome \in {"rejected", "canceled", "aborted"},
         goal' = [goal EXCEPT ![t] = outcome], nav' = nav,
         Reported(t) = "open",
         \A n \in Loop : nav[<<t, n>>] \notin {"requested", "running"}
  PROVE  AbstractNext
<1> USE DEF MotionInv, ChainInv, TypeOK
<1>1. Reported(t)' = "ended" /\ \A u \in Tasks \ {t} : Reported(u)' = Reported(u)
  BY DEF Reported
<1>2. \A c \in Chain : Motion(c)' = Motion(c)
  BY DEF Motion
<1>3. ASSUME NEW c \in Chain, c[1] = t PROVE Motion(c) # "driven"
  <2>1. PICK n \in Loop : c = <<t, n>>
    BY <1>3 DEF Chain
  <2>2. nav[c] \notin {"requested", "running"}
    BY <2>1
  <2>3. QED
    BY <2>2 DEF Motion
<1>4. QED
  BY <1>1, <1>2, <1>3, EndedStep

LEMMA ServerMaps ==
  ASSUME MotionInv, NEW t \in Tasks,
         GoalRequest(t) \/ GoalRefuse(t) \/ GoalAccept(t) \/ CancelAck(t) \/ Execute(t)
  PROVE  AbstractNext
<1> USE DEF MotionInv, ChainInv, TypeOK, navVars
<1>1. ASSUME pc[t] \notin Driving, NEW n \in Loop
      PROVE  nav[<<t, n>>] \notin {"requested", "running"}
  BY <1>1 DEF ChainOfDriver, Driving
<1>2. pc[t] \in {"idle", "checking", "accepted", "loop", "check"} \cup Driving =>
        Reported(t) = "open"
  BY DEF OpenGoals, Reported
<1>3. ASSUME UNCHANGED <<goal, nav>> PROVE AbstractNext
  BY <1>3, Stutter DEF Reported, Motion
<1>4. CASE GoalRequest(t) \/ GoalRefuse(t)
  <2>1. CASE UNCHANGED goal
    BY <1>3, <1>4, <2>1 DEF GoalRequest, GoalRefuse
  <2>2. CASE Reject(t)
    BY <1>1, <1>2, <1>4, <2>2, EndIsStep DEF GoalRequest, GoalRefuse, Reject, Driving
  <2>3. QED
    BY <1>4, <2>1, <2>2 DEF GoalRequest, GoalRefuse
<1>5. CASE GoalAccept(t) \/ CancelAck(t)
  <2>1. \A u \in Tasks : Reported(u)' = Reported(u)
    BY <1>5 DEF GoalAccept, CancelAck, Reported, OpenGoals
  <2>2. nav' = nav
    BY <1>5 DEF GoalAccept, CancelAck
  <2>3. QED
    BY <2>1, <2>2, Stutter DEF Motion
<1>6. CASE PrepareFails(t) \/ CanceledBeforeLoop(t) \/ CheckCanceled(t) \/ CheckFails(t)
  <2>1. pc[t] \in {"accepted", "loop", "check"} /\ nav' = nav
    BY <1>6 DEF PrepareFails, CanceledBeforeLoop, CheckCanceled, CheckFails
  <2>2. \E outcome \in {"canceled", "aborted"} : goal' = [goal EXCEPT ![t] = outcome]
    BY <1>6 DEF PrepareFails, CanceledBeforeLoop, CheckCanceled, CheckFails, End
  <2>3. QED
    BY <1>1, <1>2, <2>1, <2>2, EndIsStep DEF Driving
<1>7. CASE ChainRejected(t)
  <2>1. pc[t] = "sending" /\ nav[<<t, loop[t]>>] = "rejected" /\ nav' = nav
    BY <1>7 DEF ChainRejected
  <2>2. goal' = [goal EXCEPT ![t] = "aborted"]
    BY <1>7 DEF ChainRejected, End
  <2>3. \A n \in Loop : nav[<<t, n>>] \notin {"requested", "running"}
    BY <2>1 DEF ChainOfDriver
  <2>4. QED
    BY <1>2, <2>1, <2>2, <2>3, EndIsStep DEF Driving
<1>8. CASE Prepare(t) \/ RegisterChild(t) \/ Handover(t) \/ ChainResult(t)
           \/ CheckPasses(t) \/ Finally(t)
  BY <1>3, <1>8 DEF Prepare, RegisterChild, Handover, ChainResult, CheckPasses, Finally
<1>9. CASE SendChain(t)
  <2>1. pc[t] = "loop" /\ loop[t] \in Loop /\ goal' = goal
    BY <1>9, WaypointAssumption DEF SendChain, LoopsLeft, Loop
  <2> PICK c \in Chain : c = <<t, loop[t]>>
    BY <2>1 DEF Chain
  <2>2. c[1] = t /\ nav[c] = "unsent"
    BY <2>1 DEF LaterUnsent
  <2>3. nav' = [nav EXCEPT ![c] = "requested"]
    BY <1>9 DEF SendChain
  <2>4. Motion(c) = "none" /\ Motion(c)' = "driven"
    BY <2>2, <2>3 DEF Motion
  <2>5. \A d \in Chain \ {c} : Motion(d)' = Motion(d)
    BY <2>3 DEF Motion
  <2>6. \A u \in Tasks : Reported(u)' = Reported(u)
    BY <2>1 DEF Reported
  <2>7. ASSUME NEW d \in Chain, d[1] = t PROVE Motion(d) # "driven"
    <3>1. PICK n \in Loop : d = <<t, n>>
      BY <2>7 DEF Chain
    <3>2. nav[d] \notin {"requested", "running"}
      BY <1>1, <2>1, <3>1 DEF Driving
    <3>3. QED
      BY <3>2 DEF Motion
  <2>8. Reported(t) = "open"
    BY <1>2, <2>1
  <2>9. QED
    BY <2>2, <2>4, <2>5, <2>6, <2>7, <2>8, RunStep
<1>10. CASE Succeed(t)
  <2>1. /\ pc[t] = "loop" /\ loop[t] > loops[t] /\ nav' = nav
        /\ goal' = [goal EXCEPT ![t] = "succeeded"]
    BY <1>10 DEF Succeed, LoopsLeft, End, Loop
  <2>2. Reported(t) = "open" /\ Reported(t)' = "succeeded"
        /\ \A u \in Tasks \ {t} : Reported(u)' = Reported(u)
    BY <1>2, <2>1 DEF Reported
  <2>3. \A c \in Chain : Motion(c)' = Motion(c)
    BY <2>1 DEF Motion
  <2>4. ASSUME NEW n \in Loop PROVE nav[<<t, n>>] \in {"succeeded", "unsent"}
    <3>1. CASE n < loop[t]
      BY <3>1 DEF PassedLoops
    <3>2. CASE ~(n < loop[t])
      <4>1. n > loop[t] \/ n = loop[t]
        BY <3>2 DEF Loop
      <4>2. QED
        BY <2>1, <4>1 DEF LaterUnsent
    <3>3. QED
      BY <3>1, <3>2
  <2>5. ASSUME NEW c \in Chain, c[1] = t PROVE Motion(c) \in {"none", "reached"}
    <3>1. PICK n \in Loop : c = <<t, n>>
      BY <2>5 DEF Chain
    <3>2. nav[c] \in {"succeeded", "unsent"}
      BY <2>4, <3>1
    <3>3. QED
      BY <3>2 DEF Motion
  <2>6. 1 \in Loop /\ 1 < loop[t]
    BY <2>1, WaypointAssumption DEF Loop
  <2>7. nav[<<t, 1>>] = "succeeded" /\ <<t, 1>> \in Chain
    BY <2>6 DEF PassedLoops, Chain
  <2>8. Motion(<<t, 1>>) = "reached"
    BY <2>7 DEF Motion
  <2>9. QED
    BY <2>2, <2>3, <2>5, <2>7, <2>8, SucceededStep
<1>11. CASE CancelAnswered(t)
  <2> DEFINE c == <<t, loop[t]>>
  <2>1. pc[t] = "awaitCancel" /\ loop[t] \in Loop
    BY <1>11 DEF CancelAnswered, CheckedChainIsOver, Driving
  <2>2. c \in Chain /\ c[1] = t /\ nav[c] # "requested"
    BY <2>1 DEF Chain, ChainOfDriver
  <2>3. \A d \in Chain : nav'[d] = IF d = c /\ nav[c] = "running" THEN "canceling" ELSE nav[d]
    BY <1>11, <2>2 DEF CancelAnswered
  <2>4. \E outcome \in {"canceled", "aborted"} : goal' = [goal EXCEPT ![t] = outcome]
    BY <1>11 DEF CancelAnswered, End
  <2>5. Reported(t)' = "ended" /\ \A u \in Tasks \ {t} : Reported(u)' = Reported(u)
    BY <2>4 DEF Reported
  <2>6. ASSUME NEW d \in Chain
        PROVE  Motion(d)' = IF d[1] = t /\ Motion(d) = "driven" THEN "stopping" ELSE Motion(d)
    <3>1. PICK u \in Tasks, n \in Loop : d = <<u, n>>
      BY DEF Chain
    <3>2. CASE d = c
      BY <2>2, <2>3, <3>2 DEF Motion
    <3>3. CASE d # c
      <4>1. nav'[d] = nav[d]
        BY <2>3, <3>3
      <4>2. d[1] = t => nav[d] \notin {"requested", "running"}
        BY <3>1, <3>3 DEF ChainOfDriver
      <4>3. QED
        BY <4>1, <4>2 DEF Motion
    <3>4. QED
      BY <3>2, <3>3
  <2>7. Reported(t) = "open"
    BY <1>2, <2>1 DEF Driving
  <2>8. QED
    BY <2>5, <2>6, <2>7, EndedStep
<1>12. QED
  BY <1>4, <1>5, <1>6, <1>7, <1>8, <1>9, <1>10, <1>11 DEF Execute

LEMMA NavMaps ==
  ASSUME MotionInv, NEW c \in Chain,
         NavAnswers(c) \/ NavEnds(c) \/ NavCancels(c) \/ NavStops(c)
  PROVE  AbstractNext
<1> USE DEF MotionInv, ChainInv, TypeOK
<1>1. goal' = goal
  BY DEF NavAnswers, NavEnds, NavCancels, NavStops, serverVars
<1>2. \A t \in Tasks : Reported(t)' = Reported(t)
  BY <1>1 DEF Reported
<1>3. \A d \in Chain \ {c} : nav'[d] = nav[d]
  BY DEF NavAnswers, NavEnds, NavCancels, NavStops
<1>4. \A d \in Chain \ {c} : Motion(d)' = Motion(d)
  BY <1>3 DEF Motion
<1>5. \/ nav'[c] = nav[c]
      \/ nav[c] = "requested" /\ nav'[c] \in {"running", "rejected"}
      \/ nav[c] = "running" /\ nav'[c] \in {"canceling", "succeeded", "missed", "aborted"}
      \/ nav[c] = "canceling" /\ nav'[c] \in {"canceled", "succeeded", "aborted"}
  BY DEF NavAnswers, NavEnds, NavCancels, NavStops
<1>6. \/ Motion(c)' = Motion(c)
      \/ Motion(c) = "driven" /\ Motion(c)' = "stopping"
      \/ Motion(c) \in {"driven", "stopping"} /\ Motion(c)' \in {"reached", "over"}
  BY <1>5 DEF Motion
<1>7. QED
  BY <1>2, <1>4, <1>6, RunStep

LEMMA NextMaps == MotionInv /\ [Next]_vars => AbstractNext
<1> SUFFICES ASSUME MotionInv, [Next]_vars PROVE AbstractNext
  OBVIOUS
<1>1. CASE \/ UNCHANGED vars \/ Watchdog
           \/ \E t \in Tasks : CancelCallback(t)
           \/ \E g \in Required : Expire(g)
           \/ \E g \in Gate, ready \in BOOLEAN : Report(g, ready)
  <2>1. UNCHANGED <<goal, nav>>
    BY <1>1 DEF vars, serverVars, navVars, Watchdog, CancelCallback, Expire, Report
  <2>2. QED
    BY <2>1, Stutter DEF Reported, Motion
<1>2. QED
  BY <1>1, ServerMaps, NavMaps DEF Next

\* No interleaving lets a waypoint task be reported while one of its chains is
\* driven, succeed without all its loops, or drive two of its chains at once.
THEOREM Supervises == Spec => SupervisesMotion
<1>1. Init => Supervised!Init
  BY DEF Init, Supervised!Init, Reported, Motion
<1>2. MotionInv /\ [Next]_vars =>
        [Supervised!Next]_<<[t \in Tasks |-> Reported(t)], [c \in Chain |-> Motion(c)]>>
  BY NextMaps DEF AbstractNext, report, motion
<1>3. QED
  BY <1>1, <1>2, MotionInit, MotionStep, PTL DEF Spec, SupervisesMotion, Supervised!Spec

=============================================================================
