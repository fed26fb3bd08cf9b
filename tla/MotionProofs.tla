---------------------------- MODULE MotionProofs ----------------------------
(***************************************************************************)
(* Proofs about the last stages of a velocity command: the safety          *)
(* controller alone, then the chain from it to the chassis.                *)
(***************************************************************************)
EXTENDS MotionChain, TLAPS

-----------------------------------------------------------------------------
(***************************************************************************)
(* TrackedSafety, for any limits, rates and commands.  The output never    *)
(* leaves its limits because each tick keeps it, component by component,   *)
(* between where it was and the target, and the target respects them; the  *)
(* track limit couples the two components, and holds because one of them   *)
(* never rises faster than the other one falls.                            *)
(***************************************************************************)

\* What the commands and the published speeds respect.
Bounded(c) ==
  /\ c \in Speed
  /\ c.linear \in -MaxReverse .. MaxForward
  /\ c.turn \in -MaxTurn .. MaxTurn

-----------------------------------------------------------------------------
(* The arithmetic of a tick. *)

LEMMA Quotient ==
  ASSUME NEW a \in Nat, NEW d \in Nat, d > 0
  PROVE  a \div d \in Nat /\ (a \div d) * d <= a
  BY Z3

\* Scaling shrinks a value towards zero, in proportion to the scale.
LEMMA ScaleShrinks ==
  ASSUME NEW x \in Int, NEW num \in Nat, NEW den \in Nat, den > 0, num <= den
  PROVE  /\ Scale(x, num, den) \in Int
         /\ Abs(Scale(x, num, den)) * den <= Abs(x) * num
         /\ x >= 0 => Scale(x, num, den) \in 0 .. x
         /\ x < 0 => Scale(x, num, den) \in x .. 0
<1> DEFINE a == Abs(x)
           q == (a * num) \div den
<1>1. a \in Nat /\ a * num \in Nat
  BY DEF Abs
<1>2. q \in Nat /\ q * den <= a * num
  BY <1>1, Quotient
<1>3. a * num <= a * den
  BY <1>1
<1>4. q * den <= a * den
  BY <1>1, <1>2, <1>3
<1>5. q <= a
  BY <1>1, <1>2, <1>4
<1>6. Scale(x, num, den) = IF x >= 0 THEN q ELSE -q
  BY DEF Scale, Abs
<1> HIDE DEF q
<1>7. QED
  BY <1>2, <1>5, <1>6 DEF Abs

\* A pair of values that each shrink in proportion M to their sum adds up to M.
LEMMA SharesAddUp ==
  ASSUME NEW q \in Nat, NEW r \in Nat, NEW x \in Nat, NEW y \in Nat, NEW m \in Nat,
         q * (x + y) <= x * m, r * (x + y) <= y * m, x + y > 0
  PROVE  q + r <= m
<1>1. (q + r) * (x + y) <= m * (x + y)
  OBVIOUS
<1>2. QED
  BY <1>1

\* A command over the track limit, scaled down to it.
LEMMA ScaledPair ==
  ASSUME NEW l \in Int, NEW b \in Int, NEW m \in Nat, NEW p \in Nat,
         p = Abs(l) + Abs(b), p > m, NEW s, s = Scale(l, m, p), NEW t, t = Scale(b, m, p)
  PROVE  /\ Abs(s) + Abs(t) <= m
         /\ s \in Int /\ (l >= 0 => s \in 0 .. l) /\ (l < 0 => s \in l .. 0)
         /\ t \in Int /\ (b >= 0 => t \in 0 .. b) /\ (b < 0 => t \in b .. 0)
<1>1. p > 0 /\ m <= p
  OBVIOUS
<1>2. /\ s \in Int /\ Abs(s) * p <= Abs(l) * m
      /\ l >= 0 => s \in 0 .. l
      /\ l < 0 => s \in l .. 0
  BY <1>1, ScaleShrinks
<1>3. /\ t \in Int /\ Abs(t) * p <= Abs(b) * m
      /\ b >= 0 => t \in 0 .. b
      /\ b < 0 => t \in b .. 0
  BY <1>1, ScaleShrinks
<1>4. Abs(s) \in Nat /\ Abs(t) \in Nat /\ Abs(l) \in Nat /\ Abs(b) \in Nat
  BY <1>2, <1>3 DEF Abs
<1>5. Abs(s) + Abs(t) <= m
  BY <1>1, <1>2, <1>3, <1>4, SharesAddUp
<1>6. QED
  BY <1>2, <1>3, <1>5

\* The command that is followed respects the speed limits and the track limit.
LEMMA LimitBounds ==
  ASSUME SafetyAssumption, NEW c \in Speed
  PROVE  Bounded(Limit(c)) /\ Peak(Limit(c)) <= MaxTrack
<1> USE SafetyAssumption DEF SafetyAssumption, Speed, Bounded
<1> DEFINE l == Clamp(c.linear, -MaxReverse, MaxForward)
           b == Clamp(c.turn, -MaxTurn, MaxTurn)
           d == [linear |-> l, turn |-> b]
<1>1. l \in -MaxReverse .. MaxForward /\ b \in -MaxTurn .. MaxTurn
  BY DEF Clamp
<1>2. Limit(c) = Project(d)
  BY DEF Limit
<1>3. Peak(d) = Abs(l) + Abs(b) /\ Abs(l) \in Nat /\ Abs(b) \in Nat
  BY <1>1 DEF Peak, Abs
<1> HIDE DEF l, b
<1>4. CASE Peak(d) <= MaxTrack
  BY <1>1, <1>2, <1>3, <1>4 DEF Project
<1>5. CASE Peak(d) > MaxTrack
  <2> DEFINE s == Scale(l, MaxTrack, Peak(d))
             t == Scale(b, MaxTrack, Peak(d))
  <2>1. Project(d) = [linear |-> s, turn |-> t]
    BY <1>5 DEF Project
  <2>2. l \in Int /\ b \in Int /\ Peak(d) \in Nat
    BY <1>1, <1>3
  <2>3. /\ Abs(s) + Abs(t) <= MaxTrack
        /\ s \in Int /\ (l >= 0 => s \in 0 .. l) /\ (l < 0 => s \in l .. 0)
        /\ t \in Int /\ (b >= 0 => t \in 0 .. b) /\ (b < 0 => t \in b .. 0)
    <3> HIDE DEF d
    <3>1. QED
      BY <1>3, <1>5, <2>2, ScaledPair
  <2> HIDE DEF s, t
  <2>4. Bounded(Project(d))
    BY <1>1, <2>1, <2>3
  <2>5. Peak(Project(d)) <= MaxTrack
    BY <2>1, <2>3 DEF Peak
  <2>6. QED
    BY <1>2, <2>4, <2>5
<1>6. QED
  BY <1>3, <1>4, <1>5

\* One component of one tick: the new value lies between the old one and the
\* target, rises by at most rise * dt, and falls by fall * dt until it is there.
LEMMA SlewMoves ==
  ASSUME NEW cur \in Int, NEW tgt \in Int, NEW rise \in Nat, NEW fall \in Nat,
         NEW dt \in Nat, NEW new, new = Slew(cur, tgt, rise, fall, dt)
  PROVE  /\ new \in Int
         /\ new \in cur .. tgt \/ new \in tgt .. cur
         /\ Abs(tgt) > Abs(cur) =>
              Abs(new) <= Abs(tgt) /\ Abs(new) <= Abs(cur) + rise * dt
         /\ Abs(tgt) <= Abs(cur) =>
              /\ Abs(new) <= Abs(cur)
              /\ Abs(new) <= Abs(tgt) \/ Abs(new) <= Abs(cur) - fall * dt
<1>1. rise * dt \in Nat /\ fall * dt \in Nat
  OBVIOUS
<1>2. CASE Abs(tgt) > Abs(cur)
  <2>1. new = cur + Clamp(tgt - cur, -(rise * dt), rise * dt)
    BY <1>2 DEF Slew
  <2>2. QED
    BY <1>1, <1>2, <2>1 DEF Clamp, Abs
<1>3. CASE Abs(tgt) <= Abs(cur)
  <2>1. new = cur + Clamp(tgt - cur, -(fall * dt), fall * dt)
    BY <1>3 DEF Slew, Abs
  <2>2. QED
    BY <1>1, <1>3, <2>1 DEF Clamp, Abs
<1>4. QED
  BY <1>2, <1>3 DEF Abs

-----------------------------------------------------------------------------
(* Types and speed limits. *)

SpeedInv == TypeOK /\ SpeedsWithinLimit

LEMMA SpeedInit == ASSUME SafetyAssumption PROVE Init => SpeedInv
<1> SUFFICES ASSUME SafetyAssumption, Init PROVE SpeedInv
  OBVIOUS
<1>1. Zero \in Speed /\ Zero.linear = 0 /\ Zero.turn = 0
  BY DEF Zero, Speed
<1>2. TypeOK
  BY <1>1 DEF Init, TypeOK, SafetyAssumption
<1>3. SpeedsWithinLimit
  BY <1>1 DEF Init, SpeedsWithinLimit, SafetyAssumption
<1>4. QED
  BY <1>2, <1>3 DEF SpeedInv

LEMMA TargetBounds ==
  ASSUME SafetyAssumption, TypeOK
  PROVE  Bounded(Target) /\ Peak(Target) <= MaxTrack
<1>1. (IF manualFresh THEN manual ELSE nav) \in Speed
  BY DEF TypeOK
<1>2. QED
  BY <1>1, LimitBounds DEF Target

\* What a tick that follows a command does to each component.
LEMMA TickMoves ==
  ASSUME SafetyAssumption, TypeOK, NEW dt \in 0 .. MaxDt, Tick(dt), Driven
  PROVE  /\ out' = [linear |-> out'.linear, turn |-> out'.turn]
         /\ out'.linear = Slew(out.linear, Target.linear, LinearRise, LinearFall, dt)
         /\ out'.turn = Slew(out.turn, Target.turn, TurnRise, TurnFall, dt)
  BY DEF Tick

LEMMA TickBounded ==
  ASSUME SafetyAssumption, SpeedInv, NEW dt \in 0 .. MaxDt, Tick(dt)
  PROVE  Bounded(out')
<1> USE DEF SafetyAssumption
<1>1. CASE Driven
  <2>1. /\ out' = [linear |-> out'.linear, turn |-> out'.turn]
        /\ out'.linear = Slew(out.linear, Target.linear, LinearRise, LinearFall, dt)
        /\ out'.turn = Slew(out.turn, Target.turn, TurnRise, TurnFall, dt)
    BY <1>1, TickMoves DEF SpeedInv
  <2>2. Bounded(Target) /\ Bounded(out)
    BY TargetBounds DEF SpeedInv, TypeOK, SpeedsWithinLimit, Bounded
  <2>3. /\ Target.linear \in -MaxReverse .. MaxForward /\ Target.turn \in -MaxTurn .. MaxTurn
        /\ out.linear \in -MaxReverse .. MaxForward /\ out.turn \in -MaxTurn .. MaxTurn
    BY <2>2 DEF Bounded
  <2>4. /\ dt \in Nat /\ Target.linear \in Int /\ Target.turn \in Int
        /\ out.linear \in Int /\ out.turn \in Int
    BY <2>3
  <2>5. out'.linear \in -MaxReverse .. MaxForward
    <3>1. /\ out'.linear \in Int
          /\ \/ out'.linear \in out.linear .. Target.linear
             \/ out'.linear \in Target.linear .. out.linear
      BY <2>1, <2>4, SlewMoves
    <3>2. QED
      BY <2>3, <2>4, <3>1
  <2>6. out'.turn \in -MaxTurn .. MaxTurn
    <3>1. /\ out'.turn \in Int
          /\ \/ out'.turn \in out.turn .. Target.turn
             \/ out'.turn \in Target.turn .. out.turn
      BY <2>1, <2>4, SlewMoves
    <3>2. QED
      BY <2>3, <2>4, <3>1
  <2>7. out' \in Speed
    BY <2>1, <2>5, <2>6 DEF Speed
  <2>8. QED
    BY <2>5, <2>6, <2>7 DEF Bounded
<1>2. CASE ~Driven
  BY <1>2 DEF Tick, Zero, Bounded, Speed
<1>3. QED
  BY <1>1, <1>2

LEMMA SpeedStep ==
  ASSUME SafetyAssumption, SpeedInv, [Next]_vars
  PROVE  SpeedInv'
<1> USE DEF SpeedInv, TypeOK, SpeedsWithinLimit, permissions, inputs
<1>1. ASSUME NEW dt \in 0 .. MaxDt, Tick(dt) PROVE SpeedInv'
  BY <1>1, TickBounded DEF Tick, Bounded
<1>2. ASSUME NEW c \in Commands, NavigationCommand(c) \/ ManualCommand(c)
      PROVE  SpeedInv'
  BY <1>2 DEF NavigationCommand, ManualCommand, SafetyAssumption
<1>3. ASSUME NavigationVoid \/ ManualVoid PROVE SpeedInv'
  BY <1>3 DEF NavigationVoid, ManualVoid
<1>4. ASSUME NEW valid \in BOOLEAN, LocalizationStatus(valid) PROVE SpeedInv'
  BY <1>4 DEF LocalizationStatus
<1>5. ASSUME LocalizationExpires \/ ResetEmergencyStop PROVE SpeedInv'
  BY <1>5 DEF LocalizationExpires, ResetEmergencyStop
<1>6. ASSUME NEW pressed \in BOOLEAN, EmergencyStop(pressed) PROVE SpeedInv'
  BY <1>6 DEF EmergencyStop
<1>7. ASSUME NEW on \in BOOLEAN, SetMotionEnabled(on) PROVE SpeedInv'
  BY <1>7 DEF SetMotionEnabled
<1>8. CASE UNCHANGED vars
  BY <1>8 DEF vars
<1>9. QED
  BY <1>1, <1>2, <1>3, <1>4, <1>5, <1>6, <1>7, <1>8 DEF Next

\* Types are kept, the published speeds included.
THEOREM TypeCorrect == Spec => []TypeOK
<1>1. SpeedInv => TypeOK
  BY DEF SpeedInv
<1>2. Init => SpeedInv
  BY SpeedInit, SafetyAssumption
<1>3. SpeedInv /\ [Next]_vars => SpeedInv'
  BY SpeedStep, SafetyAssumption
<1>4. QED
  BY <1>1, <1>2, <1>3, PTL DEF Spec

\* The published speeds keep the limits of a command, for any rates.
THEOREM SpeedLimit == Spec => []SpeedsWithinLimit
<1>1. SpeedInv => SpeedsWithinLimit
  BY DEF SpeedInv
<1>2. Init => SpeedInv
  BY SpeedInit, SafetyAssumption
<1>3. SpeedInv /\ [Next]_vars => SpeedInv'
  BY SpeedStep, SafetyAssumption
<1>4. QED
  BY <1>1, <1>2, <1>3, PTL DEF Spec

-----------------------------------------------------------------------------
(* The track limit. *)

LEMMA TrackTick ==
  ASSUME SafetyAssumption, RatesBalanced, SpeedInv, TracksWithinLimit,
         NEW dt \in 0 .. MaxDt, Tick(dt)
  PROVE  TracksWithinLimit'
<1> USE DEF SafetyAssumption
<1>1. CASE ~Driven
  BY <1>1 DEF Tick, Zero, TracksWithinLimit, Peak, Abs
<1>2. CASE Driven
  <2> DEFINE l == out.linear
             b == out.turn
             tl == Target.linear
             tb == Target.turn
             nl == out'.linear
             nb == out'.turn
  <2>1. /\ l \in Int /\ b \in Int /\ tl \in Int /\ tb \in Int /\ dt \in Nat
        /\ Abs(tl) + Abs(tb) <= MaxTrack
        /\ Abs(l) + Abs(b) <= MaxTrack
    BY TargetBounds DEF SpeedInv, TypeOK, Speed, Bounded, Peak, TracksWithinLimit
  <2>2. /\ nl = Slew(l, tl, LinearRise, LinearFall, dt)
        /\ nb = Slew(b, tb, TurnRise, TurnFall, dt)
    BY <1>2, TickMoves DEF SpeedInv
  <2>3. LinearRise * dt <= TurnFall * dt /\ TurnRise * dt <= LinearFall * dt
    BY <2>1 DEF RatesBalanced
  <2> DEFINE lr == LinearRise * dt
             lf == LinearFall * dt
             br == TurnRise * dt
             bf == TurnFall * dt
  <2>4. lr \in Nat /\ lf \in Nat /\ br \in Nat /\ bf \in Nat /\ lr <= bf /\ br <= lf
    BY <2>1, <2>3
  <2>5. /\ nl \in Int
        /\ Abs(tl) > Abs(l) => Abs(nl) <= Abs(tl) /\ Abs(nl) <= Abs(l) + lr
        /\ Abs(tl) <= Abs(l) =>
             Abs(nl) <= Abs(l) /\ (Abs(nl) <= Abs(tl) \/ Abs(nl) <= Abs(l) - lf)
    BY <2>1, <2>2, SlewMoves
  <2>6. /\ nb \in Int
        /\ Abs(tb) > Abs(b) => Abs(nb) <= Abs(tb) /\ Abs(nb) <= Abs(b) + br
        /\ Abs(tb) <= Abs(b) =>
             Abs(nb) <= Abs(b) /\ (Abs(nb) <= Abs(tb) \/ Abs(nb) <= Abs(b) - bf)
    BY <2>1, <2>2, SlewMoves
  <2>7. /\ Abs(l) \in Nat /\ Abs(b) \in Nat /\ Abs(tl) \in Nat /\ Abs(tb) \in Nat
        /\ Abs(nl) \in Nat /\ Abs(nb) \in Nat
    BY <2>1, <2>5, <2>6 DEF Abs
  <2>8. Peak(out)' = Abs(nl) + Abs(nb)
    BY DEF Peak, Abs
  <2> HIDE DEF l, b, tl, tb, nl, nb, lr, lf, br, bf
  <2>9. Abs(nl) + Abs(nb) <= MaxTrack
    BY <2>1, <2>4, <2>5, <2>6, <2>7
  <2>10. QED
    BY <2>8, <2>9 DEF TracksWithinLimit
<1>3. QED
  BY <1>1, <1>2

\* No tick publishes speeds that drive a track over max_track_speed, although
\* the two components are slewed separately: for any limits and rates such that
\* neither component rises faster than the other one falls.
THEOREM TrackLimit == RatesBalanced /\ Spec => []TracksWithinLimit
<1> SUFFICES ASSUME RatesBalanced PROVE Spec => []TracksWithinLimit
  OBVIOUS
<1>1. Init => SpeedInv /\ TracksWithinLimit
  <2>1. Init => out.linear = 0 /\ out.turn = 0
    BY DEF Init, Zero
  <2>2. 0 <= MaxTrack
    BY SafetyAssumption DEF SafetyAssumption
  <2>3. QED
    BY <2>1, <2>2, SpeedInit, SafetyAssumption DEF TracksWithinLimit, Peak, Abs
<1>2. SpeedInv /\ TracksWithinLimit /\ [Next]_vars => SpeedInv' /\ TracksWithinLimit'
  <2> SUFFICES ASSUME SpeedInv, TracksWithinLimit, [Next]_vars
               PROVE  SpeedInv' /\ TracksWithinLimit'
    OBVIOUS
  <2>1. SpeedInv'
    BY SpeedStep, SafetyAssumption
  <2>2. ASSUME NEW dt \in 0 .. MaxDt, Tick(dt) PROVE TracksWithinLimit'
    BY <2>2, TrackTick, SafetyAssumption
  <2>3. CASE out' = out
    BY <2>1, <2>3 DEF TracksWithinLimit, Peak, Abs
  <2>4. out' = out \/ \E dt \in 0 .. MaxDt : Tick(dt)
    BY DEF Next, vars, NavigationCommand, ManualCommand, NavigationVoid, ManualVoid,
           LocalizationStatus, LocalizationExpires, EmergencyStop, SetMotionEnabled,
           ResetEmergencyStop
  <2>5. QED
    BY <2>1, <2>2, <2>3, <2>4
<1>3. QED
  BY <1>1, <1>2, PTL DEF Spec

-----------------------------------------------------------------------------
(* The emergency stop. *)

\* A pressed stop is latched, and a latched stop keeps motion disabled: leaving
\* it takes the release, the reset and a new enabling, from any start.
THEOREM StopLatches == Spec => []StopNeedsReset
<1>1. Init => StopNeedsReset
  BY DEF Init, StopNeedsReset
<1>2. TypeOK /\ StopNeedsReset /\ [Next]_vars => StopNeedsReset'
  <2> SUFFICES ASSUME TypeOK, StopNeedsReset, [Next]_vars PROVE StopNeedsReset'
    OBVIOUS
  <2> USE DEF StopNeedsReset, permissions
  <2>1. CASE UNCHANGED <<estop, latched, enabled>>
    BY <2>1
  <2>2. ASSUME NEW pressed \in BOOLEAN, EmergencyStop(pressed) PROVE StopNeedsReset'
    BY <2>2 DEF EmergencyStop
  <2>3. ASSUME NEW on \in BOOLEAN, SetMotionEnabled(on) PROVE StopNeedsReset'
    BY <2>3 DEF SetMotionEnabled
  <2>4. CASE ResetEmergencyStop
    BY <2>4 DEF ResetEmergencyStop
  <2>5. QED
    BY <2>1, <2>2, <2>3, <2>4
    DEF Next, vars, Tick, NavigationCommand, ManualCommand, NavigationVoid,
        ManualVoid, LocalizationStatus, LocalizationExpires
<1>3. QED
  BY <1>1, <1>2, TypeCorrect, PTL DEF Spec

-----------------------------------------------------------------------------
(***************************************************************************)
(* The stop of the chassis, for every period, timeout, delay and limit.    *)
(* The invariants follow a command on its way: a message on the topic, the *)
(* guard's last command, the chassis' command.  A command that moves the   *)
(* robot is never younger than the controller's quiet time, and what each  *)
(* stage may add to its age is bounded.                                    *)
(***************************************************************************)

-----------------------------------------------------------------------------
(* Types. *)

\* The controller's invariant holds under all its steps, its crash and restart.
BaseInv == SpeedInv /\ ChainTypeOK

LEMMA StopTimes ==
  /\ StopTime \in Nat /\ PromptStopTime \in Nat /\ QuietMax \in Nat
  /\ StopTime <= QuietMax /\ PromptStopTime <= QuietMax
BY ChainAssumption DEF StopTime, PromptStopTime, QuietMax

LEMMA ZeroSpeed == Zero \in Speed
BY DEF Zero, Speed

LEMMA BaseInit == ChainInit => BaseInv
<1> SUFFICES ASSUME ChainInit PROVE BaseInv
  OBVIOUS
<1>1. SpeedInv
  BY SpeedInit, SafetyAssumption DEF ChainInit
<1>2. /\ sinceSafety \in 0 .. SafetyPeriod /\ stampAge \in 0 .. GuardTimeout + 1
      /\ sinceGuard \in 0 .. GuardPeriod /\ quiet \in 0 .. QuietMax + 1
  BY StopTimes, ChainAssumption DEF ChainInit
<1>3. QED
  BY <1>1, <1>2, ZeroSpeed DEF BaseInv, ChainTypeOK, ChainInit, SpeedInv

\* A callback or a crash publishes nothing; it may only end the quiet time.
LEMMA SilentStep ==
  ASSUME BaseInv, SafetyCallback \/ SafetyCrash \/ SafetyRestart
  PROVE  BaseInv' /\ (quiet' = 0 \/ quiet' = quiet) /\ UNCHANGED <<topic, guardVars>>
<1>1. quiet' = 0 \/ quiet' = quiet
  BY DEF SafetyCallback, SafetyCrash, SafetyRestart, Observe
<1>2. UNCHANGED <<topic, guardVars>>
  BY DEF SafetyCallback, SafetyCrash, SafetyRestart
<1>3. SpeedInv'
  <2>1. CASE SafetyCallback
    <3>1. Next
      BY <2>1 DEF SafetyCallback, Next
    <3>2. QED
      BY <3>1, SpeedStep, SafetyAssumption DEF BaseInv
  <2>2. CASE SafetyCrash
    BY <2>2, SpeedStep, SafetyAssumption DEF SafetyCrash, BaseInv
  <2>3. CASE SafetyRestart
    <3>1. out'.linear = 0 /\ out'.turn = 0
      BY <2>3 DEF SafetyRestart, Zero
    <3>2. TypeOK'
      BY <2>3, ZeroSpeed, SafetyAssumption DEF SafetyRestart, TypeOK, SafetyAssumption
    <3>3. 0 \in -MaxReverse .. MaxForward /\ 0 \in -MaxTurn .. MaxTurn
      BY SafetyAssumption DEF SafetyAssumption
    <3>4. QED
      BY <3>1, <3>2, <3>3 DEF SpeedInv, SpeedsWithinLimit
  <2>4. QED
    BY <2>1, <2>2, <2>3
<1>4. /\ alive' \in BOOLEAN /\ lossless' \in BOOLEAN /\ sinceSafety' \in 0 .. SafetyPeriod
      /\ quiet' \in 0 .. QuietMax + 1
  <2>1. quiet' \in 0 .. QuietMax + 1
    BY <1>1, StopTimes DEF BaseInv, ChainTypeOK
  <2>2. sinceSafety' \in 0 .. SafetyPeriod
    <3>1. sinceSafety' = sinceSafety \/ sinceSafety' = 0
      BY DEF SafetyCallback, SafetyCrash, SafetyRestart
    <3>2. QED
      BY <3>1, ChainAssumption DEF BaseInv, ChainTypeOK
  <2>3. alive' \in BOOLEAN /\ lossless' \in BOOLEAN
    BY DEF BaseInv, ChainTypeOK, SafetyCallback, SafetyCrash, SafetyRestart
  <2>4. QED
    BY <2>1, <2>2, <2>3
<1>5. QED
  BY <1>1, <1>2, <1>3, <1>4 DEF BaseInv, ChainTypeOK, SpeedInv, guardVars

\* A tick publishes one command, and none that moves the robot in quiet time.
LEMMA TickStep ==
  ASSUME BaseInv, SafetyTick
  PROVE  /\ BaseInv'
         /\ quiet' = 0 \/ quiet' = quiet
         /\ topic' = Append(topic, [cmd |-> out', age |-> 0])
         /\ out' # Zero => quiet' = 0
         /\ sinceSafety' = 0 /\ alive' = alive /\ lossless' = lossless
         /\ UNCHANGED guardVars
<1>1. quiet' = 0 \/ quiet' = quiet
  BY DEF SafetyTick, Observe
<1>2. PICK dt \in 0 .. MaxDt : Tick(dt)
  <2>1. Least(sinceSafety, MaxDt) \in 0 .. MaxDt
    BY ChainAssumption, SafetyAssumption
    DEF SafetyAssumption, Least, BaseInv, ChainTypeOK
  <2>2. QED
    BY <2>1 DEF SafetyTick
<1>3. SpeedInv'
  BY <1>2, SpeedStep, SafetyAssumption DEF Next, BaseInv
<1>4. out' # Zero => quiet' = 0
  <2>1. Driven' <=> Driven
    BY <1>2 DEF Tick, Driven, Permitted, Located, permissions, inputs
  <2>2. out' # Zero => Driven
    BY <1>2 DEF Tick
  <2>3. QED
    BY <2>1, <2>2 DEF SafetyTick, Observe
<1>5. topic' \in Seq(Message)
  <2>1. [cmd |-> out', age |-> 0] \in Message
    BY <1>3, ChainAssumption DEF SpeedInv, TypeOK, Message
  <2>2. QED
    BY <2>1 DEF SafetyTick, BaseInv, ChainTypeOK
<1>6. QED
  BY <1>1, <1>3, <1>4, <1>5, ChainAssumption, StopTimes
  DEF BaseInv, ChainTypeOK, SafetyTick, guardVars, SpeedInv

\* The head of the topic is removed: the messages left keep their order.
LEMMA TailMessages ==
  ASSUME topic \in Seq(Message), topic # <<>>, topic' = Tail(topic)
  PROVE  /\ topic' \in Seq(Message) /\ Len(topic') = Len(topic) - 1
         /\ Len(topic) \in Nat \ {0}
         /\ Head(topic) = topic[1] /\ topic[1] \in Message
         /\ \A i \in 1 .. Len(topic') : i + 1 \in 1 .. Len(topic) /\ topic'[i] = topic[i + 1]
  OBVIOUS

LEMMA DeliverStep ==
  ASSUME BaseInv, Deliver
  PROVE  BaseInv'
<1>1. topic' \in Seq(Message) /\ Head(topic) \in Message
  BY TailMessages DEF Deliver, BaseInv, ChainTypeOK
<1>2. last' \in Speed
  BY <1>1 DEF Deliver, Message
<1>3. QED
  BY <1>1, <1>2, ChainAssumption
  DEF BaseInv, ChainTypeOK, Deliver, SpeedInv, TypeOK, SpeedsWithinLimit, vars,
      permissions, inputs

LEMMA LoseStep ==
  ASSUME BaseInv, Lose
  PROVE  BaseInv'
<1>1. topic' \in Seq(Message)
  BY TailMessages DEF Lose, BaseInv, ChainTypeOK
<1>2. QED
  BY <1>1 DEF BaseInv, ChainTypeOK, Lose, SpeedInv, TypeOK, SpeedsWithinLimit, vars,
      permissions, inputs, guardVars

LEMMA ClampInt ==
  ASSUME NEW x \in Int, NEW low \in Int, NEW high \in Int
  PROVE  Clamp(x, low, high) \in Int
BY DEF Clamp

LEMMA GuardStep ==
  ASSUME BaseInv, GuardTick
  PROVE  /\ BaseInv'
         /\ chassis' # Zero => last # Zero /\ stampAge <= GuardTimeout
<1>1. last \in Speed /\ last.linear \in Int /\ last.turn \in Int
  BY DEF BaseInv, ChainTypeOK, Speed
<1>2. HardLinear \in Int /\ -HardLinear \in Int /\ HardTurn \in Int /\ -HardTurn \in Int
  BY ChainAssumption
<1>3. Output \in Speed
  BY <1>1, <1>2, ClampInt, ZeroSpeed DEF Output, Speed
<1>4. last = Zero => Output = Zero
  BY ChainAssumption DEF Output, Clamp, Zero
<1>5. BaseInv'
  BY <1>3, ChainAssumption
  DEF BaseInv, ChainTypeOK, GuardTick, SpeedInv, TypeOK, SpeedsWithinLimit, vars,
      permissions, inputs
<1>6. Output # Zero => stampAge <= GuardTimeout
  BY DEF Output
<1>7. QED
  BY <1>4, <1>5, <1>6 DEF GuardTick

\* One unit of time, on the clocks.
LEMMA PassClocks ==
  ASSUME BaseInv, Pass
  PROVE  /\ BaseInv'
         /\ sinceGuard' = sinceGuard + 1
         /\ alive => sinceSafety' = sinceSafety + 1
         /\ quiet' <= quiet + 1
         /\ stampAge' = stampAge + 1 \/ stampAge' = GuardTimeout + 1
         /\ stampAge' <= stampAge + 1
         /\ Len(topic') = Len(topic)
         /\ \A i \in 1 .. Len(topic) :
              /\ topic'[i].cmd = topic[i].cmd
              /\ topic'[i].age = topic[i].age + 1
<1>1. /\ sinceSafety' \in 0 .. SafetyPeriod
      /\ sinceGuard' \in 0 .. GuardPeriod
      /\ sinceGuard' = sinceGuard + 1
      /\ alive => sinceSafety' = sinceSafety + 1
  BY ChainAssumption, SMTT(30) DEF BaseInv, ChainTypeOK, Pass
<1>2. /\ stampAge' \in 0 .. GuardTimeout + 1
      /\ stampAge' = stampAge + 1 \/ stampAge' = GuardTimeout + 1
      /\ stampAge' <= stampAge + 1
  BY ChainAssumption DEF BaseInv, ChainTypeOK, Pass, Least
<1>3. quiet' \in 0 .. QuietMax + 1 /\ quiet' <= quiet + 1
  BY StopTimes DEF BaseInv, ChainTypeOK, Pass, Least
<1>4. /\ Len(topic) \in Nat
      /\ topic \in Seq(Message)
      /\ topic' = [i \in 1 .. Len(topic) |-> [topic[i] EXCEPT !.age = @ + 1]]
      /\ \A i \in 1 .. Len(topic) : topic[i].age < Delay
  BY DEF BaseInv, ChainTypeOK, Pass, Message
<1>5. ASSUME NEW i \in 1 .. Len(topic)
      PROVE  /\ topic'[i] \in Message
             /\ topic'[i].cmd = topic[i].cmd
             /\ topic'[i].age = topic[i].age + 1
  <2>1. topic[i] \in Message
    BY <1>4
  <2>2. topic'[i] = [topic[i] EXCEPT !.age = @ + 1]
    BY <1>4
  <2>3. topic[i].cmd \in Speed /\ topic[i].age \in 0 .. Delay /\ topic[i].age < Delay
    BY <2>1, <1>4 DEF Message
  <2>4. topic'[i] = [cmd |-> topic[i].cmd, age |-> topic[i].age + 1]
    BY <2>1, <2>2 DEF Message
  <2>5. topic[i].age + 1 \in 0 .. Delay
    BY <2>3, ChainAssumption
  <2>6. QED
    BY <2>3, <2>4, <2>5 DEF Message
<1>6. topic' \in Seq(Message) /\ Len(topic') = Len(topic)
  BY <1>4, <1>5
<1>7. UNCHANGED <<alive, lossless>>
  BY DEF Pass
<1>8. QED
  BY <1>1, <1>2, <1>3, <1>4, <1>5, <1>6, <1>7
  DEF BaseInv, ChainTypeOK, Pass, SpeedInv, TypeOK, SpeedsWithinLimit, vars,
      permissions, inputs

-----------------------------------------------------------------------------
(* The stop that survives any loss. *)

\* A command that moves the robot was sent before the quiet time; the guard
\* repeats it for GuardTimeout, the chassis keeps it for one more period.
MovingIsOld == \A i \in 1 .. Len(topic) : topic[i].cmd # Zero => quiet <= topic[i].age
LastIsOld == last # Zero /\ stampAge <= GuardTimeout => quiet <= stampAge + Delay
ChassisIsOld == chassis # Zero => quiet <= Delay + GuardTimeout + sinceGuard
StopInv == BaseInv /\ MovingIsOld /\ LastIsOld /\ ChassisIsOld

LEMMA Numbers ==
  ASSUME BaseInv
  PROVE  /\ quiet \in Nat /\ stampAge \in Nat /\ sinceGuard \in Nat /\ sinceSafety \in Nat
         /\ sinceSafety <= SafetyPeriod
         /\ Delay \in Nat /\ GuardTimeout \in Nat /\ GuardPeriod \in Nat
         /\ SafetyPeriod \in Nat
         /\ topic \in Seq(Message) /\ Len(topic) \in Nat
         /\ \A i \in 1 .. Len(topic) : topic[i].age \in 0 .. Delay
<1>1. /\ quiet \in Nat /\ stampAge \in Nat /\ sinceGuard \in Nat /\ sinceSafety \in Nat
      /\ sinceSafety <= SafetyPeriod
  BY StopTimes, ChainAssumption DEF BaseInv, ChainTypeOK
<1>2. topic \in Seq(Message) /\ Len(topic) \in Nat
  BY DEF BaseInv, ChainTypeOK
<1>3. ASSUME NEW i \in 1 .. Len(topic) PROVE topic[i].age \in 0 .. Delay
  <2>1. topic[i] \in Message
    BY <1>2
  <2>2. QED
    BY <2>1 DEF Message
<1>4. QED
  BY <1>1, <1>2, <1>3, ChainAssumption

\* Every step keeps every stage.
LEMMA StopStep == ASSUME StopInv, [ChainNext]_allVars PROVE StopInv'
<1> USE DEF StopInv, MovingIsOld, LastIsOld, ChassisIsOld
<1>n. /\ quiet \in Nat /\ stampAge \in Nat /\ sinceGuard \in Nat
      /\ Delay \in Nat /\ GuardTimeout \in Nat /\ GuardPeriod \in Nat
      /\ topic \in Seq(Message) /\ Len(topic) \in Nat
      /\ \A i \in 1 .. Len(topic) : topic[i].age \in 0 .. Delay
  BY Numbers
<1>1. CASE UNCHANGED allVars
  BY <1>1 DEF allVars, vars, permissions, inputs, chainVars, guardVars, BaseInv,
              ChainTypeOK, SpeedInv, TypeOK, SpeedsWithinLimit
<1>2. CASE SafetyCallback \/ SafetyCrash \/ SafetyRestart
  BY <1>2, <1>n, SilentStep DEF guardVars
<1>3. CASE SafetyTick
  <2>1. /\ BaseInv'
        /\ quiet' = 0 \/ quiet' = quiet
        /\ topic' = Append(topic, [cmd |-> out', age |-> 0])
        /\ out' # Zero => quiet' = 0
        /\ UNCHANGED guardVars
    BY <1>3, TickStep
  <2>2. ASSUME NEW i \in 1 .. Len(topic'), topic'[i].cmd # Zero
        PROVE  quiet' <= topic'[i].age
    <3>1. CASE i \in 1 .. Len(topic)
      BY <2>1, <2>2, <3>1, <1>n
    <3>2. CASE i = Len(topic) + 1
      BY <2>1, <2>2, <3>2, <1>n
    <3>3. QED
      BY <3>1, <3>2, <2>1, <1>n
  <2>3. QED
    BY <2>1, <2>2, <1>n DEF guardVars
<1>4. CASE Deliver
  <2>1. /\ BaseInv' /\ quiet' = quiet /\ topic' = Tail(topic) /\ last' = topic[1].cmd
        /\ stampAge' = 0 /\ sinceGuard' = sinceGuard /\ chassis' = chassis
        /\ 1 \in 1 .. Len(topic)
    BY <1>4, DeliverStep, TailMessages, <1>n DEF Deliver
  <2>2. MovingIsOld'
    BY <1>4, <2>1, <1>n, TailMessages DEF Deliver
  <2>3. LastIsOld'
    BY <2>1, <1>n
  <2>4. QED
    BY <2>1, <2>2, <2>3
<1>5. CASE GuardTick
  <2>1. BaseInv' /\ (chassis' # Zero => last # Zero /\ stampAge <= GuardTimeout)
    BY <1>5, GuardStep
  <2>2. QED
    BY <1>5, <2>1, <1>n DEF GuardTick
<1>6. CASE Lose
  <2>1. BaseInv' /\ topic' = Tail(topic) /\ UNCHANGED <<quiet, guardVars>>
    BY <1>6, LoseStep DEF Lose
  <2>2. MovingIsOld'
    BY <1>6, <2>1, <1>n, TailMessages DEF Lose
  <2>3. QED
    BY <2>1, <2>2 DEF guardVars
<1>7. CASE Pass
  <2>1. /\ BaseInv'
        /\ sinceGuard' = sinceGuard + 1
        /\ quiet' <= quiet + 1 /\ quiet' \in Nat
        /\ stampAge' = stampAge + 1 \/ stampAge' = GuardTimeout + 1
        /\ Len(topic') = Len(topic)
        /\ \A i \in 1 .. Len(topic) :
             topic'[i].cmd = topic[i].cmd /\ topic'[i].age = topic[i].age + 1
    BY <1>7, PassClocks, StopTimes DEF BaseInv, ChainTypeOK
  <2>2. last' = last /\ chassis' = chassis
    BY <1>7 DEF Pass
  <2>3. MovingIsOld'
    BY <2>1, <1>n
  <2>4. LastIsOld' /\ ChassisIsOld'
    BY <2>1, <2>2, <1>n
  <2>5. QED
    BY <2>1, <2>3, <2>4
<1>8. QED
  BY <1>1, <1>2, <1>3, <1>4, <1>5, <1>6, <1>7 DEF ChainNext

\* The types hold of every behaviour, so no clock passes its bound.
THEOREM ChainTypes == ChainSpec => []ChainTypeOK
<1>1. ChainInit => StopInv
  BY BaseInit DEF ChainInit, StopInv, MovingIsOld, LastIsOld, ChassisIsOld
<1>2. StopInv => ChainTypeOK
  BY DEF StopInv, BaseInv
<1>3. QED
  BY <1>1, <1>2, StopStep, PTL DEF ChainSpec

\* Whatever is lost, delayed or crashes, the chassis is told to stop at most
\* Delay + GuardTimeout + GuardPeriod after the controller's last permission.
THEOREM StopInTime == ChainSpec => []StopsInTime
<1>1. ChainInit => StopInv
  BY BaseInit DEF ChainInit, StopInv, MovingIsOld, LastIsOld, ChassisIsOld
<1>2. StopInv => StopsInTime
  BY ChainAssumption DEF StopInv, StopsInTime, BaseInv, ChainTypeOK, ChassisIsOld,
                         StopTime, QuietMax
<1>3. QED
  BY <1>1, <1>2, StopStep, PTL DEF ChainSpec

-----------------------------------------------------------------------------
(* The stop when nothing is lost. *)

\* Either the controller has not ticked in quiet time, or its stop is on the
\* way, or it has arrived.
StopIsSent ==
  \/ quiet <= sinceSafety
  \/ \E i \in 1 .. Len(topic) :
       /\ quiet <= topic[i].age + SafetyPeriod
       /\ \A j \in 1 .. Len(topic) : j >= i => topic[j].cmd = Zero
  \/ last = Zero /\ \A i \in 1 .. Len(topic) : topic[i].cmd = Zero
PromptInv ==
  /\ BaseInv
  /\ lossless =>
       /\ alive
       /\ StopIsSent
       /\ chassis # Zero => quiet <= SafetyPeriod + Delay + sinceGuard

LEMMA PromptStep == ASSUME PromptInv, [ChainNext]_allVars PROVE PromptInv'
<1> USE DEF PromptInv
<1>n. /\ quiet \in Nat /\ sinceGuard \in Nat /\ sinceSafety \in Nat
      /\ sinceSafety <= SafetyPeriod
      /\ Delay \in Nat /\ SafetyPeriod \in Nat /\ Len(topic) \in Nat
      /\ topic \in Seq(Message)
      /\ \A i \in 1 .. Len(topic) : topic[i].age \in 0 .. Delay
  BY Numbers
<1>1. CASE UNCHANGED allVars
  BY <1>1 DEF allVars, vars, permissions, inputs, chainVars, guardVars, BaseInv,
              ChainTypeOK, SpeedInv, TypeOK, SpeedsWithinLimit, StopIsSent
<1>2. CASE SafetyCallback
  <2>1. BaseInv' /\ (quiet' = 0 \/ quiet' = quiet) /\ UNCHANGED <<topic, guardVars>>
    BY <1>2, SilentStep
  <2>2. UNCHANGED <<alive, sinceSafety, lossless>>
    BY <1>2 DEF SafetyCallback
  <2>3. StopIsSent => StopIsSent'
    BY <2>1, <2>2, <1>n DEF StopIsSent, guardVars
  <2>4. QED
    BY <2>1, <2>2, <2>3, <1>n DEF guardVars
<1>3. CASE SafetyCrash
  BY <1>3, SilentStep DEF SafetyCrash
<1>4. CASE SafetyRestart
  BY <1>4, SilentStep DEF SafetyRestart
<1>5. CASE SafetyTick
  <2>1. /\ BaseInv'
        /\ quiet' = 0 \/ quiet' = quiet
        /\ topic' = Append(topic, [cmd |-> out', age |-> 0])
        /\ out' # Zero => quiet' = 0
        /\ sinceSafety' = 0 /\ alive' = alive /\ lossless' = lossless
        /\ last' = last /\ sinceGuard' = sinceGuard /\ chassis' = chassis
    BY <1>5, TickStep DEF guardVars
  <2>2. /\ Len(topic') = Len(topic) + 1
        /\ topic'[Len(topic) + 1] = [cmd |-> out', age |-> 0]
        /\ \A i \in 1 .. Len(topic) : topic'[i] = topic[i]
    BY <2>1, <1>n
  <2>3. ASSUME StopIsSent PROVE StopIsSent'
    <3>1. CASE quiet' = 0
      BY <2>1, <3>1 DEF StopIsSent
    <3>2. CASE quiet' = quiet /\ out' = Zero /\ quiet <= sinceSafety
      <4> DEFINE n == Len(topic')
      <4>1. n \in 1 .. Len(topic') /\ topic'[n].age = 0 /\ topic'[n].cmd = Zero
        BY <2>2, <3>2, <1>n
      <4>2. quiet' <= topic'[n].age + SafetyPeriod
        BY <3>2, <4>1, <1>n
      <4>3. \A j \in 1 .. Len(topic') : j >= n => topic'[j].cmd = Zero
        BY <4>1, <2>2, <1>n
      <4>4. QED
        BY <4>1, <4>2, <4>3 DEF StopIsSent
    <3>3. CASE /\ quiet' = quiet /\ out' = Zero
               /\ \E i \in 1 .. Len(topic) :
                    /\ quiet <= topic[i].age + SafetyPeriod
                    /\ \A j \in 1 .. Len(topic) : j >= i => topic[j].cmd = Zero
      <4>1. PICK i \in 1 .. Len(topic) :
                    /\ quiet <= topic[i].age + SafetyPeriod
                    /\ \A j \in 1 .. Len(topic) : j >= i => topic[j].cmd = Zero
        BY <3>3
      <4>2. i \in 1 .. Len(topic') /\ quiet' <= topic'[i].age + SafetyPeriod
        BY <2>2, <3>3, <4>1, <1>n
      <4>3. ASSUME NEW j \in 1 .. Len(topic'), j >= i PROVE topic'[j].cmd = Zero
        <5>1. CASE j = Len(topic) + 1
          BY <2>2, <3>3, <5>1
        <5>2. CASE j \in 1 .. Len(topic)
          BY <2>2, <4>1, <4>3, <5>2
        <5>3. j \in 1 .. Len(topic) + 1
          BY <2>2, <4>3
        <5>4. QED
          BY <5>1, <5>2, <5>3, <1>n
      <4>4. QED
        BY <4>2, <4>3 DEF StopIsSent
    <3>4. CASE /\ quiet' = quiet /\ out' = Zero
               /\ last = Zero /\ \A i \in 1 .. Len(topic) : topic[i].cmd = Zero
      <4>1. ASSUME NEW j \in 1 .. Len(topic') PROVE topic'[j].cmd = Zero
        BY <2>2, <3>4, <1>n
      <4>2. QED
        BY <2>1, <3>4, <4>1 DEF StopIsSent
    <3>5. QED
      BY <2>1, <2>3, <3>1, <3>2, <3>3, <3>4 DEF StopIsSent
  <2>4. QED
    BY <2>1, <2>3, <1>n
<1>6. CASE Deliver
  <2>1. /\ BaseInv' /\ quiet' = quiet /\ topic' = Tail(topic) /\ last' = topic[1].cmd
        /\ UNCHANGED <<alive, lossless, sinceSafety, sinceGuard, chassis>>
        /\ Len(topic') = Len(topic) - 1 /\ Len(topic) \in Nat \ {0}
        /\ \A i \in 1 .. Len(topic') : topic'[i] = topic[i + 1]
    BY <1>6, DeliverStep, TailMessages, <1>n DEF Deliver
  <2>2. ASSUME StopIsSent PROVE StopIsSent'
    <3>1. CASE quiet <= sinceSafety
      BY <2>1, <3>1 DEF StopIsSent
    <3>2. CASE \E i \in 1 .. Len(topic) :
                    /\ quiet <= topic[i].age + SafetyPeriod
                    /\ \A j \in 1 .. Len(topic) : j >= i => topic[j].cmd = Zero
      <4>1. PICK i \in 1 .. Len(topic) :
                    /\ quiet <= topic[i].age + SafetyPeriod
                    /\ \A j \in 1 .. Len(topic) : j >= i => topic[j].cmd = Zero
        BY <3>2
      <4>2. CASE i = 1
        <5>1. last' = Zero /\ \A j \in 1 .. Len(topic') : topic'[j].cmd = Zero
          BY <2>1, <4>1, <4>2
        <5>2. QED
          BY <5>1 DEF StopIsSent
      <4>3. CASE i # 1
        <5>1. i - 1 \in 1 .. Len(topic') /\ topic'[i - 1] = topic[i]
          BY <2>1, <4>1, <4>3
        <5>2. ASSUME NEW j \in 1 .. Len(topic'), j >= i - 1 PROVE topic'[j].cmd = Zero
          <6>1. j + 1 \in 1 .. Len(topic) /\ j + 1 >= i
            BY <2>1, <5>2
          <6>2. QED
            BY <2>1, <4>1, <6>1
        <5>3. quiet' <= topic'[i - 1].age + SafetyPeriod
          BY <2>1, <4>1, <5>1
        <5>4. QED
          BY <5>1, <5>2, <5>3 DEF StopIsSent
      <4>4. QED
        BY <4>2, <4>3
    <3>3. CASE last = Zero /\ \A i \in 1 .. Len(topic) : topic[i].cmd = Zero
      <4>1. last' = Zero
        BY <2>1, <3>3
      <4>2. ASSUME NEW j \in 1 .. Len(topic') PROVE topic'[j].cmd = Zero
        <5>1. j + 1 \in 1 .. Len(topic)
          BY <2>1
        <5>2. QED
          BY <2>1, <3>3, <5>1
      <4>3. QED
        BY <4>1, <4>2 DEF StopIsSent
    <3>4. QED
      BY <2>2, <3>1, <3>2, <3>3 DEF StopIsSent
  <2>3. QED
    BY <2>1, <2>2
<1>7. CASE GuardTick
  <2>1. /\ BaseInv' /\ (chassis' # Zero => last # Zero)
        /\ UNCHANGED <<quiet, sinceSafety, topic, last, alive, lossless>>
        /\ sinceGuard' = 0
    BY <1>7, GuardStep DEF GuardTick
  <2>2. StopIsSent => StopIsSent'
    BY <2>1 DEF StopIsSent
  <2>3. StopIsSent /\ last # Zero => quiet <= SafetyPeriod + Delay
    BY <1>n DEF StopIsSent
  <2>4. QED
    BY <2>1, <2>2, <2>3, <1>n
<1>8. CASE Lose
  BY <1>8, LoseStep DEF Lose
<1>9. CASE Pass
  <2>1. /\ BaseInv'
        /\ sinceGuard' = sinceGuard + 1
        /\ alive => sinceSafety' = sinceSafety + 1
        /\ quiet' <= quiet + 1 /\ quiet' \in Nat
        /\ Len(topic') = Len(topic)
        /\ \A i \in 1 .. Len(topic) :
             topic'[i].cmd = topic[i].cmd /\ topic'[i].age = topic[i].age + 1
    BY <1>9, PassClocks, StopTimes DEF BaseInv, ChainTypeOK
  <2>2. UNCHANGED <<alive, last, chassis, lossless>>
    BY <1>9 DEF Pass
  <2>3. ASSUME StopIsSent, alive PROVE StopIsSent'
    <3>1. CASE quiet <= sinceSafety
      BY <2>1, <2>3, <3>1, <1>n DEF StopIsSent
    <3>2. CASE \E i \in 1 .. Len(topic) :
                    /\ quiet <= topic[i].age + SafetyPeriod
                    /\ \A j \in 1 .. Len(topic) : j >= i => topic[j].cmd = Zero
      <4>1. PICK i \in 1 .. Len(topic) :
                    /\ quiet <= topic[i].age + SafetyPeriod
                    /\ \A j \in 1 .. Len(topic) : j >= i => topic[j].cmd = Zero
        BY <3>2
      <4>2. quiet' <= topic'[i].age + SafetyPeriod
        BY <2>1, <4>1, <1>n
      <4>3. \A j \in 1 .. Len(topic') : j >= i => topic'[j].cmd = Zero
        BY <2>1, <4>1
      <4>4. QED
        BY <2>1, <4>1, <4>2, <4>3 DEF StopIsSent
    <3>3. CASE last = Zero /\ \A i \in 1 .. Len(topic) : topic[i].cmd = Zero
      BY <2>1, <2>2, <3>3 DEF StopIsSent
    <3>4. QED
      BY <2>3, <3>1, <3>2, <3>3 DEF StopIsSent
  <2>4. QED
    BY <2>1, <2>2, <2>3, <1>n
<1>10. QED
  BY <1>1, <1>2, <1>3, <1>4, <1>5, <1>6, <1>7, <1>8, <1>9 DEF ChainNext

\* When nothing is lost, the controller's own stop arrives, and the guard's
\* timeout is not waited for.
THEOREM StopPrompt == ChainSpec => []StopsPromptly
<1>1. ChainInit => PromptInv
  <2> SUFFICES ASSUME ChainInit PROVE PromptInv
    OBVIOUS
  <2>1. BaseInv /\ alive /\ quiet = 0 /\ sinceSafety = 0 /\ chassis = Zero
    BY BaseInit DEF ChainInit
  <2>2. QED
    BY <2>1 DEF PromptInv, StopIsSent
<1>2. PromptInv => StopsPromptly
  <2> SUFFICES ASSUME PromptInv, lossless, chassis # Zero PROVE quiet <= PromptStopTime
    BY Numbers, StopTimes DEF StopsPromptly, PromptInv
  <2>1. sinceGuard \in 0 .. GuardPeriod
    BY DEF PromptInv, BaseInv, ChainTypeOK
  <2>2. QED
    BY <2>1, Numbers DEF PromptInv, PromptStopTime
<1>3. QED
  BY <1>1, <1>2, PromptStep, PTL DEF ChainSpec

-----------------------------------------------------------------------------
(* The guard's clock when nothing is lost. *)

\* The next message comes at most a period after the one before it was sent.
StampIsRecent ==
  IF topic = <<>> THEN stampAge <= sinceSafety ELSE stampAge <= topic[1].age + SafetyPeriod
FreshInv == BaseInv /\ (lossless => alive /\ (last # Zero => StampIsRecent))

LEMMA FreshStep == ASSUME FreshInv, [ChainNext]_allVars PROVE FreshInv'
<1> USE DEF FreshInv, StampIsRecent
<1>n. /\ stampAge \in Nat /\ sinceSafety \in Nat /\ sinceSafety <= SafetyPeriod
      /\ Delay \in Nat /\ SafetyPeriod \in Nat /\ Len(topic) \in Nat
      /\ topic \in Seq(Message)
      /\ \A i \in 1 .. Len(topic) : topic[i].age \in 0 .. Delay
  BY Numbers
<1>1. CASE UNCHANGED allVars
  BY <1>1 DEF allVars, vars, permissions, inputs, chainVars, guardVars, BaseInv,
              ChainTypeOK, SpeedInv, TypeOK, SpeedsWithinLimit
<1>2. CASE SafetyCallback
  <2>1. BaseInv' /\ UNCHANGED <<topic, guardVars>>
    BY <1>2, SilentStep
  <2>2. UNCHANGED <<alive, sinceSafety, lossless>>
    BY <1>2 DEF SafetyCallback
  <2>3. QED
    BY <2>1, <2>2 DEF guardVars
<1>3. CASE SafetyCrash
  BY <1>3, SilentStep DEF SafetyCrash
<1>4. CASE SafetyRestart
  BY <1>4, SilentStep DEF SafetyRestart
<1>5. CASE SafetyTick
  <2>1. /\ BaseInv' /\ alive' = alive /\ lossless' = lossless
        /\ topic' = Append(topic, [cmd |-> out', age |-> 0])
        /\ stampAge' = stampAge /\ last' = last
    BY <1>5, TickStep DEF guardVars
  <2>2. topic' # <<>>
    BY <2>1, <1>n
  <2>3. CASE topic = <<>>
    <3>1. topic'[1].age = 0
      BY <2>1, <2>3, <1>n
    <3>2. QED
      BY <2>1, <2>2, <2>3, <3>1, <1>n
  <2>4. CASE topic # <<>>
    <3>1. topic'[1] = topic[1]
      BY <2>1, <2>4, <1>n
    <3>2. QED
      BY <2>1, <2>2, <2>4, <3>1
  <2>5. QED
    BY <2>3, <2>4
<1>6. CASE Deliver
  <2>1. BaseInv' /\ stampAge' = 0 /\ alive' = alive /\ lossless' = lossless
    BY <1>6, DeliverStep DEF Deliver
  <2>2. StampIsRecent'
    <3>1. topic' # <<>> => topic'[1].age \in Nat
      BY <2>1, Numbers, TailMessages, <1>6, <1>n DEF Deliver
    <3>2. sinceSafety' = sinceSafety
      BY <1>6 DEF Deliver
    <3>3. QED
      BY <2>1, <3>1, <3>2, <1>n
  <2>3. QED
    BY <2>1, <2>2
<1>7. CASE GuardTick
  BY <1>7, GuardStep DEF GuardTick
<1>8. CASE Lose
  BY <1>8, LoseStep DEF Lose
<1>9. CASE Pass
  <2>1. /\ BaseInv'
        /\ alive => sinceSafety' = sinceSafety + 1
        /\ stampAge' <= stampAge + 1 /\ stampAge' \in Nat
        /\ Len(topic') = Len(topic)
        /\ \A i \in 1 .. Len(topic) : topic'[i].age = topic[i].age + 1
    BY <1>9, PassClocks, ChainAssumption DEF BaseInv, ChainTypeOK
  <2>2. UNCHANGED <<alive, last, lossless>>
    BY <1>9 DEF Pass
  <2>3. topic' \in Seq(Message)
    BY <2>1 DEF BaseInv, ChainTypeOK
  <2>4. topic = <<>> <=> topic' = <<>>
    BY <2>1, <2>3, <1>n
  <2>5. topic # <<>> => topic'[1].age = topic[1].age + 1 /\ topic[1].age \in Nat
    BY <2>1, <1>n
  <2>6. QED
    BY <2>1, <2>2, <2>4, <2>5, <1>n
<1>10. QED
  BY <1>1, <1>2, <1>3, <1>4, <1>5, <1>6, <1>7, <1>8, <1>9 DEF ChainNext

\* If a message has the time to arrive before the one before it is stale, the
\* guard never stops the robot of a controller that runs and is heard.
THEOREM GuardKeepsFresh == PeriodsFit /\ ChainSpec => []NoFalseTimeout
<1> SUFFICES ASSUME PeriodsFit PROVE ChainSpec => []NoFalseTimeout
  OBVIOUS
<1>1. ChainInit => FreshInv
  BY BaseInit DEF ChainInit, FreshInv
<1>2. FreshInv => NoFalseTimeout
  <2> SUFFICES ASSUME FreshInv, lossless, last # Zero PROVE stampAge <= GuardTimeout
    BY DEF NoFalseTimeout
  <2>1. /\ stampAge \in Nat /\ sinceSafety \in Nat /\ sinceSafety <= SafetyPeriod
        /\ Delay \in Nat /\ SafetyPeriod \in Nat /\ GuardTimeout \in Nat
        /\ topic # <<>> => topic[1].age \in 0 .. Delay
    BY Numbers DEF FreshInv
  <2>2. QED
    BY <2>1 DEF FreshInv, StampIsRecent, PeriodsFit
<1>3. QED
  BY <1>1, <1>2, FreshStep, PTL DEF ChainSpec

=============================================================================
