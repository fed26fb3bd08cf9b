--------------------------- MODULE NavigationGate ---------------------------
(***************************************************************************)
(* The localization gate of Nav2                                           *)
(* (agt_bringup, localization_navigation_gate.py).  It listens to the      *)
(* localization status and asks the lifecycle manager of Nav2, with one    *)
(* command at a time, to start, pause, resume or reset the navigation      *)
(* nodes.  Nav2 is external: its manager carries a command out node by     *)
(* node, in the order of the launch file (backwards where it deactivates), *)
(* and may fail at any of them, the last one included.  A goal is served   *)
(* as soon as controller_server is active, whatever comes after it.        *)
(*                                                                         *)
(* The status, the age of it and the grace period are three-valued; what   *)
(* the gate knows of Nav2 (started, paused, reset) is kept apart from what *)
(* Nav2 is.                                                                *)
(***************************************************************************)
EXTENDS Naturals, Sequences

CONSTANT MaxFailures  \* how often Nav2 fails before it is active again

VARIABLES lastStatus, \* the last status: none yet, "ready", "unready" or "stale"
          invalid,    \* _invalid_since: "no", "grace" or, the grace over, "over"
          desired,    \* _desired_command
          pending,    \* _pending_command, "none" when none is in flight
          started,    \* _nav_started
          paused,     \* _nav_paused
          reset,      \* _recovery_reset_required
          configured, \* external: "none", "some" or "all" of the nodes
          nodes,      \* external: how many nodes are active, from the first one on
          answer,     \* external: what the manager answers, "none" until it does
          fails,      \* external: its failures since it was last made active
          cut         \* history: "start" or "pause", the kind of command in whose
                      \* middle Nav2 stopped; "no" once one was carried out

gateVars == <<lastStatus, invalid, desired, pending, started, paused, reset>>
navVars == <<configured, nodes, answer, fails, cut>>
navigationVars == <<gateVars, navVars>>

Commands == {"STARTUP", "PAUSE", "RESUME", "RESET"}

(* The nodes the manager is given, in the order it starts them. *)
ManagedNodes ==
  <<"map_server", "planner_server", "smoother_server", "controller_server",
    "behavior_server", "bt_navigator", "waypoint_follower", "collision_monitor">>

All == Len(ManagedNodes)

(* FollowPath is served by controller_server, and the goals of             *)
(* bt_navigator, a later node, are driven by means of it.                  *)
GoalsServed == \E i \in 1 .. nodes : ManagedNodes[i] = "controller_server"

GateTypeOK ==
  /\ lastStatus \in {"none", "ready", "unready", "stale"}
  /\ invalid \in {"no", "grace", "over"}
  /\ desired \in {"none", "STARTUP", "PAUSE"}
  /\ pending \in Commands \cup {"none"}
  /\ {started, paused, reset} \subseteq BOOLEAN
  /\ configured \in {"none", "some", "all"} /\ nodes \in 0 .. All
  /\ answer \in {"none", "success", "failure"}
  /\ fails \in 0 .. MaxFailures
  /\ cut \in {"no", "start", "pause"}

GateInit ==
  /\ lastStatus = "none"
  /\ invalid = "no"
  /\ desired = "none"
  /\ pending = "none"
  /\ started = FALSE
  /\ paused = FALSE
  /\ reset = FALSE
  /\ configured = "none" /\ nodes = 0
  /\ answer = "none"
  /\ fails = 0
  /\ cut = "no"

InFlight == pending # "none"

----------------------------------------------------------------------------
Localization_RestartsGrace(ready) ==
  /\ lastStatus' = IF ready THEN "ready" ELSE "unready"
  /\ invalid' = IF ready THEN "no" ELSE "grace"
  /\ desired' = IF ready THEN "STARTUP" ELSE "PAUSE"
  /\ UNCHANGED <<pending, started, paused, reset, navVars>>

(* A status arrives.  One that is not ready asks for a pause at once; the   *)
(* grace period holds back the command, in Tick, and not the wish.          *)
Localization(ready) ==
  /\ lastStatus' = IF ready THEN "ready" ELSE "unready"
  /\ invalid' = IF ready THEN "no" ELSE IF invalid = "no" THEN "grace" ELSE invalid
  /\ desired' = IF ready THEN "STARTUP" ELSE "PAUSE"
  /\ UNCHANGED <<pending, started, paused, reset, navVars>>

(* The statuses stop: the last one is older than the timeout. *)
Expire ==
  /\ lastStatus = "ready"
  /\ lastStatus' = "stale"
  /\ UNCHANGED <<invalid, desired, pending, started, paused, reset, navVars>>

GraceElapses ==
  /\ invalid = "grace"
  /\ invalid' = "over"
  /\ UNCHANGED <<lastStatus, desired, pending, started, paused, reset, navVars>>

(* What the timer sends when it wants want: a wish that is already met     *)
(* sends nothing, and a start after a failure or a pause is another one.   *)
CommandFor(want) ==
  CASE want = "STARTUP" /\ ~started ->
         IF reset THEN "RESET" ELSE IF paused THEN "RESUME" ELSE "STARTUP"
    [] want = "PAUSE" /\ started -> "PAUSE"
    [] OTHER -> "none"

SendCommand(want, available) ==
  pending' = IF InFlight \/ ~available THEN pending ELSE CommandFor(want)

(* The timer.  While a loss is younger than the grace period it does       *)
(* nothing at all.                                                         *)
Tick(available) ==
  /\ \/ /\ lastStatus = "ready"
        /\ invalid' = "no"
        /\ desired' = "STARTUP"
        /\ SendCommand("STARTUP", available)
     \/ /\ lastStatus # "ready" /\ invalid = "over"
        /\ invalid' = "over"
        /\ desired' = "PAUSE"
        /\ SendCommand("PAUSE", available)
     \/ /\ lastStatus # "ready" /\ invalid # "over"
        /\ invalid' = "grace"
        /\ UNCHANGED <<desired, pending>>
  /\ UNCHANGED <<lastStatus, started, paused, reset, navVars>>

CommandDone_AssumesPaused ==
  /\ InFlight /\ answer # "none"
  /\ started' = (pending \in {"STARTUP", "RESUME"} /\ answer = "success")
  /\ paused' = (pending = "PAUSE")
  /\ reset' = (pending \in {"STARTUP", "RESUME"} /\ answer = "failure")
  /\ pending' = "none"
  /\ answer' = "none"
  /\ UNCHANGED <<lastStatus, invalid, desired, configured, nodes, fails, cut>>

CommandDone_ForgetsFailedStart ==
  /\ InFlight /\ answer # "none"
  /\ \/ /\ answer = "failure"
        /\ IF pending \in {"STARTUP", "RESUME"}
             THEN started' = FALSE /\ paused' = FALSE /\ reset' = FALSE
             ELSE UNCHANGED <<started, paused, reset>>
     \/ /\ answer = "success"
        /\ started' = (pending \in {"STARTUP", "RESUME"})
        /\ paused' = (pending = "PAUSE")
        /\ reset' = (reset /\ pending = "PAUSE")
  /\ pending' = "none"
  /\ answer' = "none"
  /\ UNCHANGED <<lastStatus, invalid, desired, configured, nodes, fails, cut>>

(* The answer to the command in flight.                                    *)
CommandDone ==
  /\ InFlight /\ answer # "none"
  /\ \/ /\ answer = "failure"
        /\ IF pending \in {"STARTUP", "RESUME"}
             THEN started' = FALSE /\ paused' = FALSE /\ reset' = TRUE
             ELSE /\ reset' = (reset /\ pending # "RESET")
                  /\ UNCHANGED <<started, paused>>
     \/ /\ answer = "success"
        /\ started' = (pending \in {"STARTUP", "RESUME"})
        /\ paused' = (pending = "PAUSE")
        /\ reset' = (reset /\ pending = "PAUSE")
  /\ pending' = "none"
  /\ answer' = "none"
  /\ UNCHANGED <<lastStatus, invalid, desired, configured, nodes, fails, cut>>

----------------------------------------------------------------------------
(* Nav2: whether a command fits what its nodes are, and what becomes of    *)
(* them when all of them follow it.                                        *)
Fits(command) ==
  CASE command = "STARTUP" -> configured = "none"
    [] command = "RESUME" -> configured = "all" /\ nodes = 0
    [] command = "PAUSE" -> nodes = All
    [] command = "RESET" -> TRUE

Starts(command) == command \in {"STARTUP", "RESUME"}

NavIdle == ~InFlight \/ answer # "none"

NavDoes ==
  /\ ~NavIdle
  /\ Fits(pending)
  /\ configured' = IF pending = "RESET" THEN "none" ELSE "all"
  /\ nodes' = IF Starts(pending) THEN All ELSE 0
  /\ answer' = "success"
  /\ fails' = IF Starts(pending) THEN 0 ELSE fails
  /\ cut' = "no"
  /\ UNCHANGED gateVars

(* It fails at some node, before or after that node changed, and leaves    *)
(* the others as they are.  A start configures every node before it        *)
(* activates one, a reset deactivates all of them before it cleans one up. *)
(* A command that does not fit fails at once; one that fits does not fail  *)
(* for ever.                                                               *)
NavFails ==
  /\ ~NavIdle
  /\ \/ UNCHANGED <<configured, nodes, cut>>
     \/ /\ Fits(pending)
        /\ configured' \in {"none", "some", "all"} /\ nodes' \in 0 .. All
        /\ pending \in {"RESUME", "PAUSE"} => configured' = configured
        /\ Starts(pending) \/ nodes' <= nodes
        /\ nodes' > 0 => configured' = "all"
        /\ cut' = IF pending = "PAUSE" THEN "pause" ELSE "start"
  /\ IF Fits(pending) THEN fails < MaxFailures /\ fails' = fails + 1
                      ELSE UNCHANGED fails
  /\ answer' = "failure"
  /\ UNCHANGED gateVars

GateStep ==
  \/ Expire \/ GraceElapses \/ \E available \in BOOLEAN : Tick(available)
  \/ CommandDone \/ NavDoes \/ NavFails

GateNext == GateStep \/ \E ready \in BOOLEAN : Localization(ready)

(* The timer runs, and finds the manager's service there; the manager      *)
(* answers.                                                                *)
GateFairness ==
  /\ WF_navigationVars(GraceElapses)
  /\ WF_navigationVars(Tick(TRUE))
  /\ WF_navigationVars(NavDoes \/ NavFails)
  /\ WF_navigationVars(CommandDone)

GateSpec == GateInit /\ [][GateNext]_navigationVars /\ GateFairness

----------------------------------------------------------------------------
(* Nav2 has active nodes only when the gate knows, or is about to be told, *)
(* unless a start or a reset stopped in the middle; and what the gate      *)
(* takes for started is active as a whole, unless a pause stopped in the   *)
(* middle.  A command that fails at its first node, or does not fit, must  *)
(* not make the gate forget what an earlier one did.                       *)
ActiveIsKnown ==
  /\ nodes > 0 /\ cut # "start" => started \/ answer = "success"
  /\ started /\ cut # "pause" => nodes = All \/ answer = "success"

(* When the localization is lost for good (status not ready, or no status  *)
(* any more), Nav2 ends up, and stays, serving no goals: where no command  *)
(* is left cut in the middle.                                              *)
LossStopsNavigation ==
  (<>[](lastStatus # "ready") /\ <>[](cut = "no")) => <>[]~GoalsServed

(* When the localization stays good, Nav2 ends up active as a whole, even  *)
(* when starts and resets were cut in the middle: the gate resets and      *)
(* starts again.  (A pause that was cut it takes for a running Nav2.)      *)
ReadyStartsNavigation ==
  (<>[](lastStatus = "ready") /\ <>[](cut # "pause")) => <>[](nodes = All)

(* What the documentation says of the gate: without a good localization    *)
(* Nav2 is inactive or paused.  A start that is cut in the middle, after   *)
(* controller_server, leaves it serving goals, and the gate, which takes   *)
(* it for not started, sends no pause when the localization is lost.       *)
CutStartIsPaused ==
  (<>[](lastStatus # "ready") /\ <>[](cut # "pause")) => <>[]~GoalsServed

=============================================================================
