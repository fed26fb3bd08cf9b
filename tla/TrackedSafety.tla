--------------------------- MODULE TrackedSafety ----------------------------
(***************************************************************************)
(* The tracked safety controller of agt_safety                             *)
(* (scripts/tracked_safety_controller.py): the last arbiter before the     *)
(* chassis.  It chooses between the manual and the navigation command,     *)
(* stops at once when motion is not permitted, and otherwise moves its     *)
(* output towards the chosen command under speed, track and acceleration   *)
(* limits.  Two executor threads run its callbacks, each entirely under    *)
(* one lock, so every callback is one action.                              *)
(*                                                                         *)
(* Speeds are integers in one unit.  The turn of a command is the speed it *)
(* gives the right track over the body, angular.z times half the track     *)
(* width; a rate is the change of speed in one unit of the time between    *)
(* two ticks.  Time itself is abstracted: a command or a localization      *)
(* status is fresh until its timeout expires.                              *)
(***************************************************************************)
EXTENDS Integers

CONSTANTS
  MaxForward, MaxReverse, MaxTurn,  \* speed limits of a command
  MaxTrack,                         \* max_track_speed
  LinearRise, LinearFall,           \* max_linear_acceleration, _deceleration
  TurnRise, TurnFall,               \* the same for the turn
  MaxDt,                            \* the 0.2 s to which dt is clamped
  RequireLocalization,              \* require_localization_valid
  StartupEnabled,                   \* startup_motion_enabled
  Commands                          \* finite commands the inputs may carry

Speed == [linear : Int, turn : Int]
Zero == [linear |-> 0, turn |-> 0]

ASSUME SafetyAssumption ==
  /\ MaxForward \in Nat /\ MaxReverse \in Nat /\ MaxTurn \in Nat
  /\ MaxTrack \in Nat \ {0}
  /\ LinearRise \in Nat /\ LinearFall \in Nat
  /\ TurnRise \in Nat /\ TurnFall \in Nat /\ MaxDt \in Nat
  /\ RequireLocalization \in BOOLEAN
  /\ StartupEnabled \in BOOLEAN
  /\ Commands \subseteq Speed

\* What the default parameters satisfy (0.35 against 1.2 * 0.31, and 0.8 * 0.31
\* against 0.7) and nothing in the code checks: while one component of the speed
\* rises, the other one falls at least as fast.
RatesBalanced == LinearRise <= TurnFall /\ TurnRise <= LinearFall

VARIABLES
  estop,         \* _physical_estop
  latched,       \* _estop_latched
  enabled,       \* _motion_enabled
  located,       \* _localization_valid
  locFresh,      \* the localization status is younger than its timeout
  manual,        \* _manual_cmd
  manualFresh,   \* ... and younger than manual_timeout
  nav,           \* _nav_cmd
  navFresh,      \* ... and younger than navigation_timeout
  out            \* _linear_out and _angular_out, published by every tick

permissions == <<estop, latched, enabled, located, locFresh>>
inputs == <<manual, manualFresh, nav, navFresh>>
vars == <<permissions, inputs, out>>

TypeOK ==
  /\ estop \in BOOLEAN /\ latched \in BOOLEAN /\ enabled \in BOOLEAN
  /\ located \in BOOLEAN /\ locFresh \in BOOLEAN
  /\ manual \in Speed /\ manualFresh \in BOOLEAN
  /\ nav \in Speed /\ navFresh \in BOOLEAN
  /\ out \in Speed

Init ==
  /\ estop = FALSE /\ latched = FALSE
  /\ enabled = StartupEnabled
  /\ located = FALSE /\ locFresh = FALSE
  /\ manual = Zero /\ manualFresh = FALSE
  /\ nav = Zero /\ navFresh = FALSE
  /\ out = Zero

-----------------------------------------------------------------------------
(* Arithmetic of a tick. *)

Abs(x) == IF x >= 0 THEN x ELSE -x
Clamp(x, low, high) == IF x > high THEN high ELSE IF x < low THEN low ELSE x

\* Division rounding towards zero.
Scale(x, num, den) ==
  IF x >= 0 THEN (x * num) \div den ELSE -(((-x) * num) \div den)

\* The larger of the two track speeds, linear - turn and linear + turn.
Peak(c) == Abs(c.linear) + Abs(c.turn)

\* project_track_speeds: scale both components when a track would exceed its
\* limit.
Project_Never(c) == c
Project(c) ==
  IF Peak(c) > MaxTrack
  THEN [linear |-> Scale(c.linear, MaxTrack, Peak(c)),
        turn |-> Scale(c.turn, MaxTrack, Peak(c))]
  ELSE c

Limit(c) ==
  Project([linear |-> Clamp(c.linear, -MaxReverse, MaxForward),
           turn |-> Clamp(c.turn, -MaxTurn, MaxTurn)])

\* slew: the acceleration applies when the speed grows, the deceleration when
\* it shrinks.
Slew(current, target, rise, fall, dt) ==
  LET rate == (IF Abs(target) > Abs(current) THEN rise ELSE fall) * dt IN
    current + Clamp(target - current, -rate, rate)

-----------------------------------------------------------------------------
(* Arbitration. *)

Permitted == ~estop /\ ~latched /\ enabled
Located == located /\ locFresh

\* The command _target follows; outside this condition the stop is immediate.
Driven ==
  /\ Permitted
  /\ manualFresh \/ (navFresh /\ (RequireLocalization => Located))
Target == Limit(IF manualFresh THEN manual ELSE nav)

\* _tick.
Tick(dt) ==
  /\ out' = IF Driven
            THEN [linear |-> Slew(out.linear, Target.linear, LinearRise, LinearFall, dt),
                  turn |-> Slew(out.turn, Target.turn, TurnRise, TurnFall, dt)]
            ELSE Zero
  /\ UNCHANGED <<permissions, inputs>>

-----------------------------------------------------------------------------
(* The callbacks. *)

NavigationCommand(c) ==
  /\ nav' = c /\ navFresh' = TRUE
  /\ UNCHANGED <<permissions, manual, manualFresh, out>>

ManualCommand(c) ==
  /\ manual' = c /\ manualFresh' = TRUE
  /\ UNCHANGED <<permissions, nav, navFresh, out>>

\* A command with a non-finite component voids the input; so does its timeout.
NavigationVoid ==
  /\ navFresh' = FALSE
  /\ UNCHANGED <<permissions, nav, manual, manualFresh, out>>

ManualVoid ==
  /\ manualFresh' = FALSE
  /\ UNCHANGED <<permissions, nav, navFresh, manual, out>>

LocalizationStatus(valid) ==
  /\ located' = valid /\ locFresh' = TRUE
  /\ UNCHANGED <<estop, latched, enabled, inputs, out>>

LocalizationExpires ==
  /\ locFresh' = FALSE
  /\ UNCHANGED <<estop, latched, enabled, located, inputs, out>>

EmergencyStop(pressed) ==
  /\ estop' = pressed
  /\ latched' = (latched \/ pressed)
  /\ enabled' = (enabled /\ ~pressed)
  /\ UNCHANGED <<located, locFresh, inputs, out>>

\* /agt/safety/set_motion_enabled; refused while the stop is pressed or latched.
SetMotionEnabled(on) ==
  /\ enabled' = IF on /\ (estop \/ latched) THEN enabled ELSE on
  /\ UNCHANGED <<estop, latched, located, locFresh, inputs, out>>

\* /agt/safety/reset_emergency_stop; refused while the stop is pressed.
ResetEmergencyStop ==
  /\ latched' = (latched /\ estop)
  /\ UNCHANGED <<estop, enabled, located, locFresh, inputs, out>>

Next ==
  \/ \E dt \in 0 .. MaxDt : Tick(dt)
  \/ \E c \in Commands : NavigationCommand(c) \/ ManualCommand(c)
  \/ NavigationVoid \/ ManualVoid
  \/ \E valid \in BOOLEAN : LocalizationStatus(valid)
  \/ LocalizationExpires
  \/ \E pressed \in BOOLEAN : EmergencyStop(pressed)
  \/ \E on \in BOOLEAN : SetMotionEnabled(on)
  \/ ResetEmergencyStop

Spec == Init /\ [][Next]_vars

-----------------------------------------------------------------------------
(* Properties. *)

\* Leaving an emergency stop takes three acts: a pressed stop is latched, and a
\* latched stop has disabled motion, which cannot be enabled before the reset.
\* So neither releasing the button nor the reset alone lets the robot move.
StopNeedsReset == (estop => latched) /\ (latched => ~enabled)

\* The speeds that are published keep both tracks under max_track_speed, not
\* only the command they tend to: the two components are slewed separately and
\* at different rates.  It needs RatesBalanced.
TracksWithinLimit == Peak(out) <= MaxTrack

\* They also keep the limits of a command, whichever source it comes from and
\* however often the source changes in the middle of a ramp.
SpeedsWithinLimit ==
  /\ out.linear \in -MaxReverse .. MaxForward
  /\ out.turn \in -MaxTurn .. MaxTurn

=============================================================================
