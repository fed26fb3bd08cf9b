# TLA+ specifications of agt_navigation_v2

Models, model-checking runs and machine-checked proofs about the parts of
agt_navigation_v2 that decide whether the robot moves, where it believes it is,
and what it keeps of maps, routes and tasks. The sources under `src/src/` are
the reference: every definition is a translation of the code, and `PROJECT.json`
("map") says which lines it stands for.

1. [The system](#1-the-system)
2. [Modules](#2-modules)
3. [How the models correspond to the code](#3-how-the-models-correspond-to-the-code)
4. [Runs](#4-runs)
5. [Fairness](#5-fairness)
6. [Proofs](#6-proofs)
7. [What the models found](#7-what-the-models-found)
8. [What is not modelled](#8-what-is-not-modelled)
9. [Plan](#9-plan)

Paths below are relative to `src/src/`.

## 1. The system

A ROS 2 workspace for a tracked agricultural robot. A velocity command takes
this way:

    waypoint task server ─┐
    coverage task server ─┼─> Nav2 ─> tracked safety controller ─> chassis command guard ─> chassis
    teach-path executor ──┘    ^             ^
                               │             └─ manual commands
           localization navigation gate <── localization supervisor

Task servers turn the goal of an operator into Nav2 goals and supervise them;
the safety controller arbitrates, limits and ramps; the guard repeats its last
command to the chassis until it is too old. Beside this chain run localization
(which map, where on it) with the gate that starts and pauses Nav2, the modes of
the system (which processes run), the readiness that every task server asks
for, the web console, and the tools that make and keep maps, routes and tasks.
Nodes share no memory: they talk by topics (latest value wins, may be lost),
services and actions (request, feedback, result, cancel), and by files.

| Component | State it keeps | Operations | Hard part | What makes it correct |
|---|---|---|---|---|
| Waypoint task server, `agt_navigation/scripts/waypoint_task_server.py` | `_active`, the handle of the running Nav2 goal, the last values of three readiness gates | accept a goal, cancel, execute (N loops, one Nav2 goal each), status callbacks, 0.2 s watchdog | two threads over a reentrant group: everything interleaves at every `await` and lock release | one task at a time; no Nav2 goal survives its task; a lost gate or a cancel stops the robot; success means all loops; every task ends |
| Coverage task server, `agt_coverage_planning/scripts/coverage_task_server.py` | reservation, generation counters and last values of five product topics, the handle of the Nav2 goal | reserve, load, plan, validate, repair, execute, cancel | products carry no task; cancels and timeouts hit any wait; the cancel of the child may be refused or unanswered | a task drives the path planned for it; a path whose handle is known never stays running; the report agrees with Nav2; the reservation is released |
| Coverage request adapter and path validator, `.../coverage_request_adapter.py`, `.../coverage_path_validator.py` | map parameter, flag `planning`; last inputs, flag `dirty` | plan service, parameter and planner answers; input callbacks, timer | an answer that never comes or comes late; earlier paths are published again | one plan at a time, products before status; never a path without its report |
| Coverage path repair, `.../coverage_path_repair.py` | last inputs, the repair under way | repair service, a chain of planner goals | inputs change and one step fails while Nav2 plans | a path is repaired as a whole or not at all |
| Path semantics, `.../path_semantics.py` | none | labels of a flat path | the planner does not say which component comes first | every stretch has the label of its component |
| Path validation, `.../path_validator.py` | none | sample a path, lay the footprint on the costmap at every sample | what lies between two samples, or at a joint of two segments | a valid path is free between its samples too |
| Variant comparator, `.../coverage_variant_comparator.py` with `variant_comparison.py` | inputs loaded, place in the list, candidates | start by timer or service, plan the variants one by one, report | answers carry no variant; a start at any time, an answer refused | a report lists each variant of one input once, with its own path |
| Time simulator, `.../coverage_time_simulator.py` with `time_simulation.py` | last path, last semantics, last report | path and semantics callbacks | two passes over the speeds meet at stops, turns and reversals; either message may come last | the estimate is of the last path and of the fastest drive within the limits |
| Route preview and editor, `agt_ui_bridge/scripts/semantic_editor_qt5.py` with `coverage_preview_auditor.py`, `coverage_approach_preview.py` | the path and audit shown; document, strokes, undo stacks | launch and stop a preview, receive; edit, undo, redo | messages in any order, from earlier previews; two stacks with shared timelines | an audit and its collisions are shown for their own path; undo restores what was there |
| Teach-path executor, `agt_teach_repeat/agt_teach_repeat/teach_path_executor.py` | active flag, child handle, gates | start, cancel, watchdog | watchdog in a reentrant group; gates lost between check and use | as for the waypoint server |
| Waypoint preview planner, `agt_navigation/scripts/waypoint_preview_planner.py` | request, segment, generation | plan segment by segment | timed-out goals answer later | a preview shows its own request |
| Tracked safety controller, `agt_safety/scripts/tracked_safety_controller.py` | stop button, stop latch, motion enable, last commands, output speeds | six callbacks and services, timer | orders of press, release, reset, enable; two ramps under a joint track limit | a stop needs reset and enable; the output never exceeds a limit |
| Chassis command guard, `agt_chassis/scripts/chassis_command_guard.py` | last command and its time | callback, timer | lost messages, a dead controller | the chassis stops in bounded time; no false timeout |
| Localization supervisor and relocalization, `agt_localization/src`; mode controller, `agt_system_manager/scripts/relocalization_mode_controller.py` | supervisor state, running search, status; policy and attempts | goal, cancel, pose, validation; set_mode | mode changes, cancels and time limits race running searches | only what is tracked is published as valid; attempts are bounded; searches end |
| Localization navigation gate, `agt_bringup/scripts/localization_navigation_gate.py` | what it believes of Nav2's lifecycle, `_in_flight` | status callback, timer, answers | a command fails half done | the gate knows of every active node; a loss stops Nav2, a recovery starts it |
| System mode manager, `agt_system_manager/scripts/system_mode_manager.py` with `process_manager.py` | managed processes per mode | change mode | concurrent goals without a lock | no process lost, never MAPPING beside NAVIGATION (as long as goals come one at a time: section 7) |
| System health, `agt_system_manager/scripts/system_health_node.py` with `readiness.py` | caches, topic ages, lifecycle states | timer, callbacks, readiness service | values of different times; a call that is never answered | what is called ready was so just now |
| Web console and experiment manager, `agt_web_console/agt_web_console`, `agt_experiment_manager/agt_experiment_manager/manager.py` | mode last heard, recorder, replay, manifests | change mode, record, play, finalize | HTTP threads without a lock; children that end by themselves | a child that runs can be stopped; no replay beside navigation |
| Mapping session manager, `agt_system_manager/scripts/mapping_session_manager.py` with `mapping_session.py` | persisted session state, candidate files | start, finalize (save, stop, build), commit, discard | crash or failure between the steps of each | no capture without its session; only a whole candidate is committed |
| Teach mapping tool, `agt_system_manager/agt_system_manager/teach_mapping.py` | session file, candidate directories, programs | stages from bootstrap to candidate | commands of several terminals; kills | a candidate holds the recorded rescan and nothing else |
| Map registry, `agt_map_manager/agt_map_manager/registry.py` | map directories with manifests, SQLite index, pointer `active_map.yaml` | register, import, activate, pin, archive, delete, purge, rebuild | three stores written one after the other | they agree whatever fails; the selected map is never deleted |
| Task group repository, `agt_navigation/agt_navigation/task_group.py` | task files, backups, index, archive | save, copy, import, archive, put back, prune | file and index are two writes, each of which may fail late | index and files agree; the last good save is kept |
| Semantic map server, teach-path tools, perception, drivers, launch files | little or none that others rely on | loading, conversion | sequential code or numeric data | covered by unit tests |

The hazards of this code that a unit test hardly reaches are listed, each at its
line, in `PROJECT.json` ("hazards"), with the properties that watch them.

## 2. Modules

    SupervisedMotion  <── implemented by ── WaypointMotion ── WaypointTask
          ^
          └────────────── implemented by ── CoverageMotion ── CoverageExecution

    TrackedSafety ── extended by ── MotionChain
    SystemModes ──── extended by ── MappingSession

| Module | Models | Checked through |
|---|---|---|
| SupervisedMotion | the abstract promise of a task server: a task drives one run (Nav2 goal) at a time, is reported only when none it knows is driven (each is over, or was told to stop), and as succeeded only when every run it started was driven to its end; with `MayLose`, a run that Nav2 has not answered may be left behind | the two refinements |
| WaypointTask, WaypointMotion | the waypoint task server with rclpy's action server and Nav2 as external parts; its refinement | MCWaypointTask |
| TrackedSafety | the safety controller, with integer speeds | MCOperations |
| MotionChain | the safety controller, a lossy and delayed topic, and the guard, in discrete time, with crashes of the controller | MCOperations |
| CoverageExecution, CoverageMotion | the coverage task server from the reservation to the report; its refinement | MCCoverageExecution |
| CoverageRepair, PreviewPanel, TeachExecution | the repair node; the route preview; the teach-path executor | MCCoverageExecution |
| CoverageProducts, PathSemantics, PathPreview | the preparation of a coverage path: server, adapter, validator and topics; the labels of a path; the preview planner | MCCoverageProducts |
| PathValidation, VariantComparison, TimeSimulation | the geometry of the validator; the variant comparator; the time simulator | MCCoverageProducts |
| MapRegistry, MappingSession, TeachMapping, TaskGroups, EditHistory | the stores, write by write | MCRecords |
| SystemModes, OperationsConsole, SystemHealth | mode changes; the console and its children; the readiness | MCOperations |
| Relocalization, NavigationGate | the localization status; the gate of Nav2 | MCLocalization |

All MC modules but MCWaypointTask hold components that share no state and see
nothing of each other but what the models leave free; their first state chooses
with `part` (one of `Moving`) which component moves, so the states of a run are
the sum, not the product, of those of its parts. In MCOperations the safety
controller moves alone with all its commands (`speeds`), and before the topic
and the guard with one of them (`chain`). `*Proofs` modules hold the theorems of
several models each, as section 6 says.

## 3. How the models correspond to the code

**WaypointTask.** An action is what one thread does between two points where it
gives up the lock or awaits. `pc[t]` says where `_execute` is for task `t`;
`active` and `child` are `_active` and `_child_goal_handle`, shared by all tasks
as in the code; `seen` and `fresh` are the last value of a gate and whether its
age is under the timeout. `GoalRequest`, `GoalRefuse` and `GoalAccept` are the
two lock regions of `_goal_callback` and what is between them. `CancelCallback`
and `CancelAck` are apart because rclpy makes a goal CANCELING only after the
cancel callback has returned: `CancelRequested` is what `is_cancel_requested`
returns. A chain is named by its task and loop; `nav` is its state in Nav2, and
a chain that is `running` may end in any way at any time. The load of the task
file, the map checks and the wait for Nav2 are one stage that may fail.
`SerialGoals = TRUE` means that two goal requests are never handled at the same
time, which the code does not ensure (section 7).

**TrackedSafety.** Every callback of the node runs under one lock, so it is one
action. The angular speed is represented by the speed it gives a track; a
command or status is `fresh` until its timeout expires, which may happen at any
time. `Scale` rounds towards zero where the code computes in floating point.

**MotionChain.** Time is counted in units; timers fire at least once per period,
messages arrive in order within `Delay` or are lost. The ages are counted to one
more than the largest value any guard distinguishes (`GuardTimeout + 1`,
`QuietMax + 1`).

**CoverageExecution.** The server runs each task in a thread that polls every
50 ms. A turn of the loop is one action, its branches in the code's order (the
cancel, then safety, then the deadline, then the result). While `_wait_future`
waits for Nav2 to accept the path, a cancel or the stage timeout may end the task
before it has the handle of its child (`SendGivenUp`). `Deadline` is
`execution_timeout > 0`.
`StopChild` sends the cancel, `StopAccepted` and `StopFails` are the two ways
`_cancel_child` returns (Nav2 accepted; it refused or `service_timeout` passed).

**SupervisedMotion.** A run is `asked` from the goal that is sent to the answer
that gives the server a handle, then `driven`. WaypointTask implements it with
`MayLose = FALSE`: its thread waits for the answer as long as it takes, so that a
chain counts as `driven` from the start and no task ends before it.
CoverageExecution implements it with `MayLose = TRUE`: a task that is given up
while Nav2 is asked loses its path (section 7), and no other.

**CoverageProducts.** A product is named by the task whose map was planned; the
real messages do not say it. A topic is latched and of depth one: `slot` holds
the topics with a message on its way and `sent` its content, so a later message
replaces one that was not received. `new` are the topics whose generation
counter is above the baseline the task noted. The adapter's `phase` is what its
asynchronous chain last asked for (parameters, goal, result). The verdict of the
validator is a free choice. `Prompt = TRUE` assumes that what was published
before a task's map is loaded has arrived when the task notes its baselines (the
load is a service call that takes many message delays; nothing in the code
ensures it).

**CoverageRepair.** A path is its connections and its swaths, each laid out as
planned first or anew; the costmap and the keepout mask are the set of layouts
that collide. `RepairService` and `AutoRepairTick` are the two ways to begin,
`GoalRefused`, `GoalAccepted`, `PlanningFails` and `Planned` the answers of the
planner, and `FinishRepair` the last one, which looks at every input again.

**PathSemantics.** One action builds the labels of any path made of at most
`MaxSwaths` swaths and turns, in either order, with or without gaps. Points are
on a line: the code uses distances, and the order of the ends of a swath.

**PathValidation.** `Samples` are what `interpolate_path` makes of a segment,
points at rational fractions of the way in integer arithmetic; `Collides` is
`_CollisionIndex.check` for one of them, `TooTight` the curvature loop. The
footprint is a disc, the costmap is not rotated, and headings only count for the
number of samples and the curvature. Clearances and maximum costs are left out.

**VariantComparison.** The node's callbacks run one at a time, so each is one
action. An edition of the inputs stands for the files a start finds; a call
(`pending`) carries what it was made for, which the code does not see, and the
node enters it under the variant at its current `index`. What the candidates
measure and how they are ranked by it is left out, and so is what other nodes
set on the same coverage server meanwhile.

**TimeSimulation.** Speeds are squared, so that `v^2 + 2 a d` stays an integer and
`VertexSpeeds` is the code's two passes exactly; the times, which need the
roots, are left out, but not whether the ramps of a segment fit in its length
(`RampsFit`). A path is its segments as `_segment` sees them.

**PreviewPanel.** Nodes publish and the panel receives, each topic on its own
and from every preview that still has nodes; a path is its stamp. The panel's
callbacks are one action each, with the audit and the collisions that are kept
until their path comes. `markers` is the path whose collisions are drawn: an
empty path and a new preview clear them, another path does not.

**PathPreview.** Each answer of Nav2 carries the generation and segment it was
asked for, as the code's callbacks do, and may come at any time later.

**TeachExecution.** Each read and write that another callback may come between
is a step: the look at the gates, the taking of the request, the second look,
the send, the handle, the test of the pending failure. `Timers` runs of the
watchdog may be under way together. The gates are one (`ready`, `silent`).

**MapRegistry.** An operation starts by its checks and its first write (`Begin`
notes what an exception would write back) and goes on by its other writes;
`Fails` is an exception before the next write, with the code's roll back where
there is one, `FailsForGood` where there is none, and `Crash` a crash. `row` is
what the index says of the manifest; the flag `deleted` and the path in the
trash are set together and are `place = "trash"`. `enforce_retention` is a
sequence of `SoftDelete`. The ghosts `crashed` and `settled` say which of the
promises below still stand.

**MappingSession** extends SystemModes: its operations submit mode goals and
wait for their answers or give up. `op` is the operation that holds the
manager's lock, `session` the persisted record, `grid` what the candidate's
files hold (the online grid, half of a promotion, the built map, an edit that
spoils it). A crash leaves the files only.

**TeachMapping.** Each command of a terminal loads the session file, works on
what it loaded, and writes it as a whole. The programs of a build are separate
and outlive it; a mapping program takes in whatever is played, by whomever.

**TaskGroups.** Rotation of the backups, replacement of the file and of the
index are steps, each of which may fail before or (fsync of the directory) after
the replacement; `RestoreGroup` is the code's undoing of it. A file that is
edited by hand leaves the index as it was.

**EditHistory.** Two documents with two stacks each and the two timelines;
`past` and `future` are ghosts, the documents an ideal history would restore.
`Press` and `PressOutside` are a button press inside and outside the picture:
both are followed by `Paint`, the second with no copy kept (`unkept`).

**SystemModes.** `start`, `stop_mode` and the waits of a goal's thread are split
at every access of the table `_managed`. Health is a free choice.

**OperationsConsole.** Each HTTP request is a thread; `at` is its place between
two reads or writes of shared state. Children end by themselves, the console is
closed or killed. Requests about the same handle interleave as the code lets
them; the ghost `crossed` notes that a child was started, or the backend
changed, between another request's look at the handle and its use of it.

**SystemHealth.** Discrete time: `latest` has the age of each message, `cache`
what the last tick read, `calls` the open `get_state` calls. `watched` and `ago`
follow one input and one value of it: for how long it has not had that value.
`Answering` says whether a node that is asked answers before it ends.

**Relocalization.** One worker at a time; its checks before each candidate
(cancel, then time) are steps. Candidates are counted, registration is a free
choice. The coordinator (`SetMode`, `SendSearch`, `Exhaust`, `FinishAttempt`)
sees the last status and its own goal; `sent` is a ghost.

**NavigationGate.** `lastStatus`, `invalid` (the grace period) and what the gate
knows (`started`, `paused`, `reset`) beside what Nav2 is: how many of its nodes
are configured, and how many are active, in the order of
`agt_navigation/launch/navigation.launch.py`. Nav2's manager carries a command
out node by node and may fail at any of them, at most `MaxFailures` times until
it succeeds; `GoalsServed` is that controller_server, the fourth of eight, is
active: from there on FollowPath goals are driven. The ghost `cut` is the kind
of command that stopped in the middle last. External and assumed: a start that
fails leaves the nodes before the failing one active and the others not.

## 4. Runs

| Run | Instance | Properties | Shows |
|---|---|---|---|
| waypoint_safety | 2 tasks, up to 2 loops, gate safety, symmetric | NoOrphanChain, SupervisesMotion | no interleaving of callbacks, watchdog, cancels, threads and Nav2 leaves a chain driven or reports a task as done before every loop it started was driven to its end |
| waypoint_progress | 2 tasks, 1 loop, gates safety and localization | LossStopsChain, EveryTaskEnds | a lasting loss stops the chain; every accepted task is reported and releases the server |
| waypoint_two_goals | 2 tasks, overlapping goal requests | LossStopsChain violated | section 7 |
| coverage_execution | 2 tasks, given up also while Nav2 is asked; 2 paths of 2 connections; 2 previews; 2 watchdog runs and 2 Nav2 goals | KnownPathIsStopped, ReportIsConfirmed, UnsafeStopsPath, EveryTaskEnds; RepairedIsWhole; FindingsAreOwn, CheckingEnds; DrivenIsSupervised, SerialLossStopsPath | a coverage or taught path that is known is stopped by a loss and has a task that watches it; a path is mended as a whole or not at all; the editor shows an audit for its own path and marks no collisions of an earlier preview, whatever order messages arrive in |
| coverage_products | 2 tasks; 3 requests of 2 or 3 points; up to 2 swaths; 3 editions of up to 3 variants; paths of up to 3 segments, and of 2 or 3 poses over a costmap of 3 by 2 cells | OwnPathExecuted; PreviewIsOwn; LabelsAreOrigins; ComparedAsLoaded; EstimateIsFastest; SamplesAreEnough | a task executes, a preview shows and a comparison lists the path of its own request; labels name what was planned; speeds are the fastest within the limits; nothing blocked between samples goes unreported |
| records | 2 map versions; 2 sessions over 2 mode goals and processes; 2 terminals; 2 task groups with 2 backups and 3 saves; undo of 2 | RecordsAgree, ActivationRestores; CaptureHasSession, CandidateIsBuilt; CandidateIsPure; IndexMatches, LastSavedIsKept; HistoryIsTrue | what is written in several steps is consistent whatever fails or crashes between them |
| operations | 2 mode goals, 6 requests; 2 browser threads, 2 children; 2 maps, the localization kept twice as long as a period; 6 commands over and under each limit; the chain with periods 1, delay 1, timeout 2 | NoLostProcess, ChainsExclusive; ChildrenAreHeld; ReadyIsCurrent; TracksWithinLimit; StopsInTime, NoFalseTimeout | mode changes, one at a time, lose no process and never run two chains; children of the console can be stopped while no two requests cross; what is called ready was so just now; the joint limit of everything published while two ramps run at different rates; the chassis stops within the bound, and a running controller is not taken for a silent one |
| mode_goals_overlap | 2 mode goals at once | OneMainChain violated | section 7 |
| console_replay | the console, 1 thread | NoReplayInNavigation violated | section 7 |
| readiness_gone_node | the health node, a Nav2 node that may end with a call open | GoneIsNoticed violated | section 7 |
| localization | 3 clients, 2 candidates, 2 attempts; Nav2 failing up to twice | AcceptedIsTracking, AttemptsBounded, SearchEnds; ActiveIsKnown, LossStopsNavigation, ReadyStartsNavigation | only a tracked pose is published as valid, searches are bounded and end; the gate knows of every active node that no cut command left behind, stops Nav2 after a lasting loss and starts it again, also after a start that was cut |
| gate_cut_start | the gate, Nav2 failing up to twice | CutStartIsPaused violated | section 7 |

*Bounds.* Two tasks are what two actors of one server need: a third would only
be rejected like the second, and the shared fields (`_active`, the child, the
reservation) hold one task. Two loops are the first number at which flags of
one child could survive into the next. One gate besides safety covers the
callbacks that are treated differently from safety. In `operations`, the limits
are such that each command of the safety controller meets another combination of
clamps, and the rates (rise 1, fall 3) differ as the defaults do; the periods and
the delay of the chain, which is driven with one of the commands, are the smallest that leave more than one message on the topic; the arithmetic
for other values is proved, not checked. Two connections are the first number
with a first and a last planner goal in a repair; two previews the first with a
node that outlives its launch; three preview requests let an answer be late by
two; two swaths with two turns have both alternations. Two usable editions with
different lists and one that is refused tell a comparison begun over another
apart; three segments have a vertex that both passes bound from both sides, and
the four kinds (long, short and bent, backwards, on the spot) every kind of cap;
three poses have a joint, on places within and across cells, over costmaps with
one occupied or unknown cell anywhere. Two versions give an
activation an old active version and a parent. Two sessions are a finished or
failed one and its successor. Two backups and three saves let the last good
content be rotated, and rotated out if a rotation were wrong. In `operations`
the two timeouts differ, so that an input can be fresh by its own and stale by
the other's. `FailuresToLost` is more than `FailuresToRecover` as in the
defaults. The counters are bounded by the guards that name `MaxClock`,
`MaxSaves`, `MaxAttempts`, `MaxFailures`, `MaxLoops`; saturated ages by the
largest timeout.

*Constraints.* `coverage_execution`, `records` and `operations` do not follow a
behaviour beyond the step after which their properties claim nothing: once two
runs of the teach watchdog have sent side by side, or two mode goals were under
way (`overlapped`), a teach build was killed or a program outlived its signals
(`killed`, `outlived`), undo went astray or a stroke left nothing to undo
(`astray`, `unkept`), the console left a child process behind or two of its
requests crossed (`abandoned`, `crossed`). But for an editor that opens another
document these ghosts never become false again, and each property of those components is
true where they hold. What becomes of the system beyond that step is in section 7
and, for mode_goals_overlap, in a run without the constraint. In `records` two
mode goals meet only where an operation of the session manager gave one up
(`overlapped => givenUp`): `CandidateIsBuilt` is not checked beside a mode goal
of the console that runs together with one that is awaited, and
`CaptureHasSession` claims nothing there.

*Symmetry.* `records` uses that of the names of goals, processes and sessions,
which the parts share, `operations` that of the console's threads and children,
`waypoint_safety` that of the tasks. None of these runs checks liveness.

*Deadlock* is not checked where a client may stop submitting tasks
(WaypointTask, CoverageExecution, CoverageProducts and what is checked beside
them); it is checked in all other passing runs.

## 5. Fairness

* WaypointTask: weak fairness of the executing thread, of rclpy's cancel
  acknowledgement, of the goal callback, of the timer, of a gate's publisher (it
  publishes again or its last value expires), and of Nav2's answers to goal and
  cancel requests. A running chain need not end, a client need not cancel.
* CoverageExecution: weak fairness of the polling thread and of Nav2's answers.
* TeachExecution: weak fairness of each callback and of each run of the timer,
  of Nav2's answers and of its obeying a cancel; a lost gate is reported again
  or falls silent.
* PreviewPanel: weak fairness of `Serve`: the nodes answer and messages are
  delivered.
* Relocalization: weak fairness of the worker, the callbacks, the coordinator
  and time; strong fairness of the validation, whose timer competes with the
  searches for the one worker: a validation is not skipped for ever since scans
  are new. NavigationGate: the timer, which at some time finds the manager's
  service there, the grace period, Nav2's manager answers.
* SystemHealth (readiness_gone_node): its timer, and Nav2 nodes that live answer.

The executor of rclpy serves its ready callbacks in turn and the timers are wall
timers, so weak fairness is enough where nothing a step waits for is taken back
by a step of another actor. EveryTaskEnds assumes within its statement that the
robot ends or gives up each chain or path. LossStopsChain, UnsafeStopsPath and
LossStopsNavigation promise nothing for a loss that is over before it is
noticed.

## 6. Proofs

All with `tlapm`, for every value of the constants under the ASSUME of the
module that declares them. Some theorems are about properties that no run
lists: they follow from the same invariants, and are told apart below.

**WaypointProofs** (WaypointTask, WaypointMotion)

* TypeCorrect, NoOrphan, Complete need no assumption about goal requests. The
  invariant `ChainInv` says which chain each place of `_execute` may have in
  flight (`ChainOfDriver`), that a chain whose result is being checked is over,
  and that the loops already passed have succeeded; NoOrphanChain alone is not
  inductive since it says nothing of the place of the thread.
* OneLive (one task at a time is live) and AwaitedSupervised (the chain that is
  awaited is the one callbacks and watchdog cancel) assume `SerialGoals`:
  `ReservationInv` adds that `_active` is set while a task is live and that a
  request being checked is alone. Without it they are false (section 7).
* Supervises, the refinement: `MotionInv` adds that later loops are unsent and
  which goals are open.

**MotionProofs** (TrackedSafety, MotionChain)

* TypeCorrect, SpeedLimit, StopLatches (a pressed stop is latched, and a latched
  one has disabled motion); TrackLimit under `RatesBalanced`, which the default
  parameters satisfy and the code does not check: while one component rises the
  other falls at least as fast. The lemmas on `Scale`, `Limit` and `Slew` are
  about all integers.
* ChainTypes, StopInTime, StopPrompt (the shorter bound when nothing is lost),
  and GuardKeepsFresh under `PeriodsFit`. The invariants follow a command on its
  way: whatever moves the robot is at least as old as the time for which the
  controller has not let it drive, and each stage (topic, guard, chassis) bounds
  the age.

**ExecutionProofs** (CoverageExecution, CoverageMotion, CoverageRepair,
TeachExecution)

* TypeCorrect, KnownPathStopped, ReportConfirmed, and Supervises, that
  CoverageExecution implements SupervisedMotion with `MayLose`. The
  invariant relates, for each task, the place of the thread, the handle, the
  cancel on its way and Nav2's reply.
* RepairTypes and RepairedAlwaysWhole. `RepairInv` adds that a repair under way
  has a connection that is not done, the one Nav2 was asked for: an answer can
  then only continue, abort, or publish through the last check.
* TeachTypes and DrivenAlwaysSupervised. DrivenIsSupervised says nothing of a
  goal that Nav2 has not accepted yet; `TeachInv` adds that, unless two runs of
  the watchdog overlapped, at most one goal is open, only while the task is
  active, and that no run is then about to send another. `SupervisionInv`
  adds to it that a loss or a cancel that the task has noted has reached the
  path it knows (`StopTold`): the safety half of SerialLossStopsPath.

**PlansProofs** (CoverageProducts, PathPreview, PreviewPanel, VariantComparison)

* OwnPathAlwaysExecuted, under `Prompt` and while no task was given up. No
  product says whose it is, so the invariant (`OneTask`) says it instead: which
  task's map the status, the adapter, the validator, the messages on their way
  and the slots of the server are of, at each stage of the one task that
  prepares.
* PreviewAlwaysOwn: `PreviewInv` adds that every answer on its way carries a
  generation that was given out, and that one of the current generation belongs
  to the request that is served.
* FindingsAlwaysOwn: for the verdict, inductive by itself once what may be on the
  topics is typed, since the panel compares stamps at every message; collisions
  that are kept came in this preview, and with a stamp of their path.
* ComparedAlwaysAsLoaded: `CompareInv` adds that one call at most is pending, and
  only while a comparison is under way, that it was made for the variant at the
  current index of the edition all inputs were loaded from, and that the index
  is one more than the number of entries.

**ModesProofs** (SystemModes, MappingSession, OperationsConsole)

* NoProcessEverLost and ChainsAlwaysExclusive, of histories without two goals at
  once (`overlapped`): with two they are false (section 7). `ModesInv` says what runs, what is in the table and what
  the goal holds at each of its steps: between the stop of one chain and the
  start of the other neither runs outside the hands of the goal.
* CandidateAlwaysBuilt: `SessionInv` adds where an operation may be for each
  state of its session, and which assets and registrations each state has;
  crashes and failures at every step are in it.
* CapturesAlwaysHaveSession composes both modules: `ManagerInv` is the two
  invariants and `CaptureInv`, that every mode goal for a session is the one its
  operation waits for. It holds until a mode goal is given up, whose process may
  start later.
* ChildrenAlwaysHeld: `ConsoleInv` says, for each thread of a request, what it has
  seen (`Found`): that the handle it is about to set is free, or the child it
  stops is that of the handle, also beside other requests about the same handle,
  until two of them cross.

**RecordsProofs** (MapRegistry, TaskGroups, TeachMapping, EditHistory)

* TypeCorrect, RecordsAlwaysAgree, Restores, of the map registry. The invariant is
  about the committed stores: what an exception would write back while an
  operation can be undone, else what is there. `Agree` (pointer and index) stands
  unless a crash hit an activation; `Same` (index and manifests) and `Progress`
  (how far the operation has come) unless there was any crash.
* IndexAlwaysMatches and LastSavedAlwaysKept. `GroupsShape` says what each step
  of an operation has written, `IndexFollows` how index and files stand to each
  other during it, and `SavedWithin` that the content saved last is no deeper
  among the backups than saves have failed since.
* CandidateAlwaysPure: unless a build was killed or outlived by its programs, every
  copy of the session that a command may still write is `Honest` (its stage, its
  candidate and its rescan agree), one command at a time writes successes and all
  programs are of its build (`OneBuild`), and what each step of a build relies on
  is still so (`Relies`).
* HistoryAlwaysTrue, while nothing went astray and no drag from outside the picture
  changed it: `HistoryInv` lays each timeline, the two stacks of its
  domains and the documents along a ladder: each rung holds the edit and the
  document as it was there, and the timelines together are within the limit.

**LocalizationProofs** (Relocalization, NavigationGate, SystemHealth)

* AcceptedTracking, BoundedAttempts, ActiveKnown. `StatusInv` adds that a
  validation runs only over an adopted pose that is still tracked, so that its
  verdict can publish a valid one; `PolicyInv` that every search sent is an
  attempt of the policy as it is now, whatever mode it was sent in; `GateInv`
  that the command in flight fits what the gate knows, that an answer of success
  says what Nav2 is, and how many of its nodes are active beside each command,
  unless one was cut in the middle.
* ReadyAlwaysCurrent, an action property: `HealthInv` bounds how long ago an input
  had the value that is still held of it, by the age of the message that holds it
  or by the time since the last tick.

**AlgorithmProofs** (PathSemantics, TimeSimulation, PathValidation)

What these models compute by recursion, or as a least number, is proved by
induction over sets: with `WFMin` of the library every set of naturals has a least
element (LeastElement), so one that has 0, and n + 1 whenever it has n, has all of
them (SetInduction), and so a function defined through its predecessor exists and
satisfies its equations (Recursion). No induction theorem
with an operator as its parameter is used, which no installed prover can
instantiate.

* EstimateAlwaysFastest. The two passes satisfy their equations (`ReachedBy`,
  `BrakedBy`), so the speeds can be driven; by induction from the start no
  drivable speeds exceed the first pass, and from the end none exceed the second.
  That the ramps fit is arithmetic on one segment (RampsAlwaysFit).
* SamplesAlwaysEnough. Two neighbouring samples are at most a step apart
  (PointsApart), so whatever is nearer than the radius less half a step to a point
  between them is nearer than the radius to one of them (SampleReaches), and the
  bounded block of cells that a sample looks at contains it (CellLookedAt); the
  start of a segment is a sample of the segment before (EndsMeet).
  ClearBetweenSamples states it for every point of a segment instead of 25.
* LabelsAlwaysOrigins. The path may have its joints twice, the components laid one
  after the other have them once. `Carries` says that both have the same
  cumulative lengths and labels wherever an interval has a length, and
  JoinedCarries that one more component keeps this; so the middle of an interval
  of the path lies in the interval it was made of (RawLabelsOrigin). The
  order is the one the plan was drawn in (ScheduleAsDrawn): without gaps it costs
  nothing, and the other one something, since the ends of a swath differ. The
  stretches of a document split the path (StretchesSplit), so reading them gives
  back the labels (ParsedAgain). PlansNeverRefused: such a path also passes the
  comparison of lengths.

One definition changed for it: `Overlaps` now asks that the diameter is positive.
For a footprint whose radius is less than half a step, which the constants of the run exclude
and the assumptions do not, the square of a negative diameter had made
SamplesAreEnough claim what nobody promises.

The constants are assumed to be what the code makes them: names that stand for
"none" are not members of their sets; a preview has at least two points
(`SizesAssumption`; the node refuses fewer); connections are numbered, so a set
of them has a first (`ConnectionsAssumption`); places, headings and points are
integers (`GridAssumption`, `SemanticsAssumption`), as all geometry of these models
is; topics are finitely many, so that
one timeout is the longest (`HealthAssumption`). One assumption says more:
`RequestsAssumption` (`Named`): a request for a mode names a profile of that mode
or a frontend, as its clients do (`ros_bridge.py:31`,
`mapping_session_manager.py:147,334`). The mode manager does not check it; a
request for MAPPING with the profile of navigation would start one beside the
other.

Only model-checked: all liveness under fairness, which is beyond the prover, and
the violations. Every invariant and action property of the passing runs is a
theorem.

## 7. What the models found

With a run:

* *Two waypoint goals at once* (waypoint_two_goals). `_active` is tested in one
  lock region and set in another. Two accepted goals share one child field, and
  a loss of safety then leaves a chain driven.
* *A replay in the navigation chain* (console_replay). A replay is refused in
  navigation, but navigation is not refused while a replay runs.
* *A node that is gone is counted as active* (readiness_gone_node). The call to a
  node that ended is never answered and never asked again.
* *Goals driven without localization* (gate_cut_start). A STARTUP or RESUME that
  fails behind controller_server leaves it active; the gate takes Nav2 for not
  started, and a loss of the localization sends no PAUSE. (It is mended when the
  localization is good: the gate resets and starts again, ReadyStartsNavigation.)
* *Two main chains* (mode_goals_overlap). The mode manager executes goals side by
  side over a table without a lock: two goals start two chains, and where both
  start the same mode one process is lost. NoLostProcess and ChainsExclusive
  hold only for goals that come one at a time.

`PROJECT.json` ("findings") names the lines. Met while modelling, without a run
of its own; each is a place where code and documents differ (paths below `src/`):

* A cancel of a waypoint task whose callback runs before the child is registered
  finds no child, and the check that follows the registration
  (`waypoint_task_server.py:599`) may run before rclpy makes the goal CANCELING:
  the chain runs to its end (`docs/interfaces/waypoint_task_action.md:44`).
* A coverage cancel while Nav2 is asked to accept the path
  (`coverage_task_server.py:494`) ends the task without its child's handle
  (`docs/interfaces/coverage_task_action.md:58`), and the plan of a task that was
  given up may reach the next one, which executes it (`:353`; line 57 says late
  products are ignored). Hence `MayLose` and the condition of OwnPathExecuted.
* Two runs of the teach watchdog may both send the path
  (`teach_path_executor.py:368`); the second handle replaces the first, which no
  loss cancels then (`docs/architecture/teach_repeat_module.md:120`).
* The automatic repair tries once for each report it has not tried, not once for
  a transaction (`coverage_path_repair.py:227`;
  `docs/interfaces/coverage_planning.md:104`).
* A capture may run on the mapping chain of another client: `start` returns a
  live process of the profile whatever its arguments (`process_manager.py:118`;
  `docs/interfaces/mapping_session_action.md:18`).
* `AUTO_ON_START` waits for a status that names the map
  (`relocalization_mode_controller.py:73`), and the relocalization node publishes
  no status before a first search that someone else asked for
  (`docs/interfaces/localization_modes.md:7`).
* Nothing calls `recover_interrupted` (`manager.py:622`), so a restart leaves an
  experiment RUNNING (`docs/interfaces/experiment_manifest.md:18`).
* A build of teach mapping that is killed stays CANDIDATE_MAP_BUILDING
  (`docs/architecture/teach_mapping_mvp.md:28` has failed builds come back to
  RESCAN_RECORDED).
* When the write of the index fails late (after the replacement), the task file
  is put back and the index stays newer (`task_group.py:425` names the opposite
  case as what is prevented).
* A path that replaces the shown one, such as the repaired one, which is never
  audited, does not clear the markers of its collisions
  (`semantic_editor_qt5.py:1036`; the test at
  `src/agt_ui_bridge/test/test_semantic_editor.py:566` is named for points that
  "match current path stamp"). FindingsAreOwn therefore says of the markers only
  that they were found in the preview that is shown.
* A drag that begins outside the picture paints on it with no copy kept
  (`semantic_editor_qt5.py:377`): the stroke cannot be undone
  (`src/agt_ui_bridge/README.md:186` has whole strokes undone). After one
  (`unkept`) HistoryIsTrue claims nothing.
* Esc while a stroke is painted drops it without its copy
  (`semantic_editor_qt5.py:1534`): the undo of the next one goes back too far
  (`astray`).
* Two requests to record at once both find no recorder (`manager.py:367`); the
  second handle replaces the first, which nothing stops any more (the comment at
  `:582` says that a shutdown "must not leave a recorder orphaned").
  ChildrenAreHeld holds only while no two requests cross.
* The previews of one editor share one ROS domain
  (`semantic_editor_qt5.py:772`), and the nodes of a launch that was killed live
  on in it (`src/agt_ui_bridge/README.md:200` promises isolation).

In the registry, a crash between the writes of `activate` leaves the pointer at
a version that the index does not call active, and a manifest that still says
active; the conditions of RecordsAgree and ActivationRestores say exactly
how far the promises reach. A mapping session that was interrupted while
COMMITTING stays so: neither COMMIT nor DISCARD ends it.

## 8. What is not modelled

* Of modelled components: the wait for a repair and the progress feedback of the
  coverage server; automatic planning by the adapter; the figures and the ranking
  of compared variants; the times of an estimate; rotated costmaps and footprints
  that are not discs; other geometry, map and file
  contents; roll backs of the registry that fail themselves, and several
  processes on one map directory; floating point (TrackedSafety rounds towards
  zero); the ages by which task servers tell a stale value from a fresh one (a
  free choice, except in MotionChain and SystemHealth); the health contracts of
  `health.py`, which the readiness does not use; pages, logins and map views of
  the console; events and reports of experiments; widgets, drawing and file
  dialogs of the editor; the reports that compare two maps in teach mapping.
* Of Nav2's lifecycle manager (external): its bond with the nodes, by which it
  takes down nodes when one of them dies and may bring them up again, so that
  nodes are active only through commands of the gate; and what the gate does
  after a PAUSE that was cut in the middle and a recovery (it sends nothing,
  `localization_navigation_gate.py:100`; ReadyStartsNavigation claims nothing then).
* An answer of Nav2's lifecycle manager that never comes (the gate then sends
  nothing any more) and a planner of the adapter that never answers (it refuses
  every later request): the code has no way out of either to check.
* Not modelled as components: the semantic map server (loads one document),
  teach-path tools (files and geometry), registration, perception and map processing (numeric), the goal pose bridge, the
  simulator, drivers, launch files, message definitions, vendored packages. They
  have no interleaving or protocol of their own.

## 9. Plan

Done, in this order, because what moves the robot comes first: WaypointTask,
TrackedSafety, MotionChain, CoverageExecution, SupervisedMotion with its two
implementations, CoverageProducts, MapRegistry; then SystemModes with
MappingSession over it, Relocalization and NavigationGate, TeachExecution,
CoverageRepair, and the tools around them (TeachMapping, TaskGroups, PathPreview,
PathSemantics, PreviewPanel, EditHistory, OperationsConsole, SystemHealth,
VariantComparison, TimeSimulation, PathValidation).

What would be worth adding:

1. TeachExecution as a third implementation of SupervisedMotion.
2. A task server over MotionChain: that a lost gate stops the chassis, joining
   the two halves; and several processes on one map registry.
