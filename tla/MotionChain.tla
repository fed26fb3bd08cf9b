---------------------------- MODULE MotionChain -----------------------------
(***************************************************************************)
(* The last part of the way of a velocity command: the tracked safety      *)
(* controller publishes its output on a topic, and the chassis command     *)
(* guard (agt_chassis/scripts/chassis_command_guard.py) repeats the last   *)
(* command it received to the chassis until that command is older than     *)
(* command_timeout.                                                        *)
(*                                                                         *)
(* Time is discrete.  The two timers fire at least once per period, a      *)
(* message is delivered in order within Delay units or lost, and the       *)
(* process of the safety controller may crash and be started again.        *)
(***************************************************************************)
EXTENDS TrackedSafety, Sequences

CONSTANTS
  SafetyPeriod,            \* 1 / publish_rate of the safety controller
  GuardPeriod,             \* 1 / publish_rate of the guard
  GuardTimeout,            \* command_timeout
  Delay,                   \* the longest delivery of a message
  HardLinear, HardTurn     \* hard_max_linear_speed and hard_max_angular_speed

ASSUME ChainAssumption ==
  /\ SafetyPeriod \in Nat \ {0} /\ GuardPeriod \in Nat \ {0}
  /\ GuardTimeout \in Nat /\ Delay \in Nat
  /\ HardLinear \in Nat /\ HardTurn \in Nat

\* A late message still finds the one before it fresh (0.05 s and the delay
\* against 0.20 s).
PeriodsFit == SafetyPeriod + Delay <= GuardTimeout

VARIABLES
  alive,       \* the safety controller's process runs
  sinceSafety,   \* time since its last tick, or since its start
  topic,       \* /agt/safety/cmd_vel: the messages on their way, with their age
  last,        \* _last_command
  stampAge,    \* age of _last_stamp; GuardTimeout + 1 is stale, and -inf
  sinceGuard,  \* time since the guard's last tick
  chassis,     \* /agt/chassis/cmd_vel: the last command the chassis was given
  quiet,       \* for how long the safety controller has not let the robot drive
  lossless     \* no message was lost, and the controller never crashed

guardVars == <<last, stampAge, sinceGuard, chassis>>
chainVars == <<alive, sinceSafety, topic, guardVars, quiet, lossless>>
allVars == <<vars, chainVars>>

Message == [cmd : Speed, age : 0 .. Delay]
Least(a, b) == IF a < b THEN a ELSE b

\* How long the chassis may go on moving while the controller is quiet, at worst
\* and when nothing is lost; quiet is counted up to QuietMax.
StopTime == Delay + GuardTimeout + GuardPeriod
PromptStopTime == SafetyPeriod + Delay + GuardPeriod
QuietMax == StopTime + PromptStopTime

ChainTypeOK ==
  /\ TypeOK
  /\ alive \in BOOLEAN /\ lossless \in BOOLEAN
  /\ sinceSafety \in 0 .. SafetyPeriod
  /\ topic \in Seq(Message)
  /\ last \in Speed /\ chassis \in Speed
  /\ stampAge \in 0 .. GuardTimeout + 1
  /\ sinceGuard \in 0 .. GuardPeriod
  /\ quiet \in 0 .. QuietMax + 1

ChainInit ==
  /\ Init
  /\ alive = TRUE /\ sinceSafety = 0
  /\ topic = <<>>
  /\ last = Zero /\ stampAge = GuardTimeout + 1
  /\ sinceGuard = 0 /\ chassis = Zero
  /\ quiet = 0 /\ lossless = TRUE

-----------------------------------------------------------------------------
(* The safety controller. *)

\* The quiet time starts again whenever the controller would drive the robot.
Observe == quiet' = IF alive' /\ Driven' THEN 0 ELSE quiet

\* One of its callbacks: nothing is published.
SafetyCallback ==
  /\ alive
  /\ \/ \E c \in Commands : NavigationCommand(c) \/ ManualCommand(c)
     \/ NavigationVoid \/ ManualVoid
     \/ \E valid \in BOOLEAN : LocalizationStatus(valid)
     \/ LocalizationExpires
     \/ \E pressed \in BOOLEAN : EmergencyStop(pressed)
     \/ \E on \in BOOLEAN : SetMotionEnabled(on)
     \/ ResetEmergencyStop
  /\ UNCHANGED <<alive, sinceSafety, topic, guardVars, lossless>>
  /\ Observe

SafetyTick_OnChange ==
  /\ alive /\ sinceSafety > 0
  /\ Tick(Least(sinceSafety, MaxDt))
  /\ sinceSafety' = 0
  /\ topic' = IF out' = out THEN topic ELSE Append(topic, [cmd |-> out', age |-> 0])
  /\ UNCHANGED <<alive, guardVars, lossless>>
  /\ Observe
SafetyTick ==
  /\ alive /\ sinceSafety > 0
  /\ Tick(Least(sinceSafety, MaxDt))
  /\ sinceSafety' = 0
  /\ topic' = Append(topic, [cmd |-> out', age |-> 0])
  /\ UNCHANGED <<alive, guardVars, lossless>>
  /\ Observe

SafetyCrash ==
  /\ alive
  /\ alive' = FALSE
  /\ lossless' = FALSE
  /\ UNCHANGED <<vars, sinceSafety, topic, guardVars>>
  /\ Observe

\* A started controller knows nothing of the run before.
SafetyRestart ==
  /\ ~alive
  /\ alive' = TRUE /\ sinceSafety' = 0
  /\ estop' = FALSE /\ latched' = FALSE /\ enabled' = StartupEnabled
  /\ located' = FALSE /\ locFresh' = FALSE
  /\ manual' = Zero /\ manualFresh' = FALSE
  /\ nav' = Zero /\ navFresh' = FALSE
  /\ out' = Zero
  /\ UNCHANGED <<topic, guardVars, lossless>>
  /\ Observe

-----------------------------------------------------------------------------
(* The chassis command guard. *)

\* _callback.
Deliver ==
  /\ topic # <<>>
  /\ last' = Head(topic).cmd
  /\ stampAge' = 0
  /\ topic' = Tail(topic)
  /\ UNCHANGED <<vars, alive, sinceSafety, sinceGuard, chassis, quiet, lossless>>

\* _tick.
Output_Unclocked == last
Output ==
  IF stampAge <= GuardTimeout
  THEN [linear |-> Clamp(last.linear, -HardLinear, HardLinear),
        turn |-> Clamp(last.turn, -HardTurn, HardTurn)]
  ELSE Zero

GuardTick ==
  /\ sinceGuard > 0
  /\ chassis' = Output
  /\ sinceGuard' = 0
  /\ UNCHANGED <<vars, alive, sinceSafety, topic, last, stampAge, quiet, lossless>>

-----------------------------------------------------------------------------
(* The topic (external) and time. *)

Lose ==
  /\ topic # <<>>
  /\ topic' = Tail(topic)
  /\ lossless' = FALSE
  /\ UNCHANGED <<vars, alive, sinceSafety, guardVars, quiet>>

Pass ==
  /\ alive => sinceSafety < SafetyPeriod
  /\ sinceGuard < GuardPeriod
  /\ \A i \in 1 .. Len(topic) : topic[i].age < Delay
  /\ sinceSafety' = IF alive THEN sinceSafety + 1 ELSE sinceSafety
  /\ sinceGuard' = sinceGuard + 1
  /\ topic' = [i \in 1 .. Len(topic) |-> [topic[i] EXCEPT !.age = @ + 1]]
  /\ stampAge' = Least(stampAge + 1, GuardTimeout + 1)
  /\ quiet' = IF alive /\ Driven THEN 0 ELSE Least(quiet + 1, QuietMax + 1)
  /\ UNCHANGED <<vars, alive, last, chassis, lossless>>

-----------------------------------------------------------------------------
ChainNext ==
  \/ SafetyCallback \/ SafetyTick \/ SafetyCrash \/ SafetyRestart
  \/ Deliver \/ GuardTick \/ Lose \/ Pass

ChainSpec == ChainInit /\ [][ChainNext]_allVars

-----------------------------------------------------------------------------
(* Properties. *)

\* The chassis is told to stop within StopTime of the moment from which the
\* safety controller does not let the robot drive - or is dead -, whatever
\* messages are lost or delayed on the way.
StopsInTime == quiet > StopTime => chassis = Zero

\* If the controller runs and no message is lost, the wait for command_timeout
\* is not part of it: the controller itself sends the stop.
StopsPromptly == lossless /\ quiet > PromptStopTime => chassis = Zero

\* The guard never takes a running controller for a silent one: once it has a
\* command, it has a fresh one as long as nothing is lost.  Needs PeriodsFit.
NoFalseTimeout == lossless /\ last # Zero => stampAge <= GuardTimeout
=============================================================================
