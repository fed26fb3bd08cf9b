---------------------------- MODULE SystemHealth ----------------------------
(***************************************************************************)
(* The system health node (agt_system_manager, system_health_node.py) as   *)
(* the source of the task readiness (readiness.py) that every task server  *)
(* waits for.  It hears topics at any time, reads the mode, the active map *)
(* and the transforms at each tick of its timer, and asks the Nav2 nodes   *)
(* for their states with calls that are answered between two ticks.        *)
(*                                                                         *)
(* An input is one that is read (Polled) or heard (Topics).  The map and   *)
(* the localization have the name of a map or NoMap, everything else is    *)
(* good or not; what makes it so is up to the publisher.  The contracts of *)
(* health.py, which do not decide the readiness, are left out.             *)
(***************************************************************************)
EXTENDS Naturals

CONSTANTS Maps, NoMap,
          Polled,       \* "map", and of "mode", "tf" those that may change
          Topics,       \* "localization", and of "safety", "chassis" likewise
          Nodes,        \* _NAV2_LIFECYCLE_NODES
          Period,       \* period_sec, in units of time
          Timeout,      \* of each topic: its status timeout
          Answering     \* a Nav2 node that is asked answers before it ends

(* The periods and timeouts have a longest one: the topics are finitely many. *)
ASSUME HealthAssumption ==
  /\ NoMap \notin Maps \cup BOOLEAN /\ Maps \cap BOOLEAN = {}
  /\ "map" \in Polled /\ "localization" \in Topics /\ Polled \cap Topics = {}
  /\ Period \in Nat \ {0} /\ Timeout \in [Topics -> Nat]
  /\ \E n \in {Period} \cup {Timeout[t] : t \in Topics} :
       \A m \in {Period} \cup {Timeout[t] : t \in Topics} : m <= n

VARIABLES world,     \* the inputs as they are
          up,        \* the states of the Nav2 nodes
          cache,     \* _mode, _map_id with its validity, _frames
          latest,    \* the last message of each topic, and its age
          calls,     \* _lifecycle_futures
          states,    \* _lifecycle_states
          sinceTick,
          readiness, \* the readiness published or answered last
          watched,   \* history: an input and one of its values,
          ago        \* history: and for how long it has not had that value

healthVars == <<world, up, cache, latest, calls, states, sinceTick, readiness, watched, ago>>

Inputs == Polled \cup Topics
Values(i) == IF i \in {"map", "localization"} THEN Maps \cup {NoMap} ELSE BOOLEAN
Useless(i) == IF i \in {"map", "localization"} THEN NoMap ELSE FALSE

Longest == CHOOSE n \in {Period} \cup {Timeout[t] : t \in Topics} :
             \A m \in {Period} \cup {Timeout[t] : t \in Topics} : m <= n
Older(age) == IF age > Longest THEN age ELSE age + 1

(* What the value of an input is relied on for. *)
Facts == {f \in Inputs \X (Maps \cup {TRUE}) : f[2] \in Values(f[1])}

HealthInit ==
  /\ world = [i \in Inputs |-> Useless(i)]
  /\ up = [n \in Nodes |-> "gone"]
  /\ cache = [i \in Polled |-> Useless(i)]
  /\ latest = [t \in Topics |-> [value |-> Useless(t), age |-> Longest + 1]]
  /\ calls = [n \in Nodes |-> "none"] /\ states = [n \in Nodes |-> "unknown"]
  /\ sinceTick = 0
  /\ readiness = [ready |-> FALSE, map |-> NoMap]
  /\ watched \in Facts /\ ago = Longest + 1

----------------------------------------------------------------------------
(* The rest of the system. *)
ChangeInput(i) ==
  /\ \E v \in Values(i) \ {world[i]} : world' = [world EXCEPT ![i] = v]
  /\ ago' = IF world'[watched[1]] = watched[2] THEN 0 ELSE ago
  /\ UNCHANGED <<up, cache, latest, calls, states, sinceTick, readiness, watched>>

ChangeNode(n) ==
  /\ up[n] # "gone"
  /\ up' = [up EXCEPT ![n] = IF @ = "active" THEN "inactive" ELSE "active"]
  /\ UNCHANGED <<world, cache, latest, calls, states, sinceTick, readiness, watched, ago>>

NodeStarts(n) ==
  /\ up[n] = "gone" /\ up' = [up EXCEPT ![n] = "inactive"]
  /\ UNCHANGED <<world, cache, latest, calls, states, sinceTick, readiness, watched, ago>>

(* A call that the node was asked and has not answered is never answered. *)
NodeEnds(n) ==
  /\ up[n] # "gone" /\ up' = [up EXCEPT ![n] = "gone"]
  /\ Answering => calls[n] # "sent"
  /\ calls' = [calls EXCEPT ![n] = IF @ = "sent" THEN "lost" ELSE @]
  /\ UNCHANGED <<world, cache, latest, states, sinceTick, readiness, watched, ago>>

NodeAnswers(n) ==
  /\ calls[n] = "sent"
  /\ calls' = [calls EXCEPT ![n] = up[n]]
  /\ UNCHANGED <<world, up, cache, latest, states, sinceTick, readiness, watched, ago>>

----------------------------------------------------------------------------
(* _topic_callback: the age counts from the receipt. *)
Hear(t) ==
  /\ latest' = [latest EXCEPT ![t] = [value |-> world[t], age |-> 0]]
  /\ UNCHANGED <<world, up, cache, calls, states, sinceTick, readiness, watched, ago>>

(* _lifecycle_done *)
LifecycleDone(n) ==
  /\ calls[n] \in {"active", "inactive"}
  /\ states' = [states EXCEPT ![n] = calls[n]]
  /\ calls' = [calls EXCEPT ![n] = "none"]
  /\ UNCHANGED <<world, up, cache, latest, sinceTick, readiness, watched, ago>>

(* evaluate_task_readiness, on what _evaluate gathers. *)
Fresh(t) == latest[t].age <= Timeout[t]

Evaluated_OtherMap(polled, lifecycle) ==
  [ready |-> /\ \A i \in Polled : polled[i] # Useless(i)
             /\ \A t \in Topics : latest[t].value # Useless(t) /\ Fresh(t)
             /\ \A n \in Nodes : lifecycle[n] = "active",
   map |-> polled["map"]]

Evaluated(polled, lifecycle) ==
  [ready |-> /\ \A i \in Polled : polled[i] # Useless(i)
             /\ \A t \in Topics : latest[t].value # Useless(t) /\ Fresh(t)
             /\ latest["localization"].value = polled["map"]
             /\ \A n \in Nodes : lifecycle[n] = "active",
   map |-> polled["map"]]

(* _refresh_lifecycle: a node is not asked again while a call to it is     *)
(* open, and then keeps the state it had.                                  *)
RefreshLifecycle ==
  /\ states' = [n \in Nodes |-> IF calls[n] = "none" /\ up[n] = "gone"
                                THEN "unknown" ELSE states[n]]
  /\ calls' = [n \in Nodes |-> IF calls[n] = "none" /\ up[n] # "gone"
                               THEN "sent" ELSE calls[n]]

(* _refresh_active_map and _refresh_tf: what the tick reads. *)
ReadPolled == cache' = [i \in Polled |-> world[i]]

(* _tick *)
HealthTick ==
  /\ sinceTick = Period /\ sinceTick' = 0
  /\ ReadPolled
  /\ RefreshLifecycle
  /\ readiness' = Evaluated(cache', states')
  /\ UNCHANGED <<world, up, latest, watched, ago>>

(* _evaluate_readiness, at any time, with what the last tick read. *)
EvaluateReadiness ==
  /\ readiness' = Evaluated(cache, states)
  /\ UNCHANGED <<world, up, cache, latest, calls, states, sinceTick, watched, ago>>

(* The timer of the node is on time. *)
HealthPass ==
  /\ sinceTick < Period /\ sinceTick' = sinceTick + 1
  /\ latest' = [t \in Topics |-> [latest[t] EXCEPT !.age = Older(@)]]
  /\ ago' = IF world[watched[1]] = watched[2] THEN 0 ELSE Older(ago)
  /\ UNCHANGED <<world, up, cache, calls, states, readiness, watched>>

HealthNext ==
  \/ \E i \in Inputs : ChangeInput(i)
  \/ \E n \in Nodes : \/ ChangeNode(n) \/ NodeStarts(n) \/ NodeEnds(n)
                      \/ NodeAnswers(n) \/ LifecycleDone(n)
  \/ \E t \in Topics : Hear(t)
  \/ HealthTick \/ EvaluateReadiness \/ HealthPass

HealthFairness ==
  /\ WF_healthVars(HealthTick) /\ WF_healthVars(HealthPass)
  /\ \A n \in Nodes : WF_healthVars(NodeAnswers(n)) /\ WF_healthVars(LifecycleDone(n))

HealthSpec == HealthInit /\ [][HealthNext]_healthVars /\ HealthFairness

----------------------------------------------------------------------------
(* The value of the watched input is one that a positive answer relies on. *)
ReliesOn(answer) ==
  /\ answer.ready
  /\ watched[1] \in {"map", "localization"} => watched[2] = answer.map

Allowed(i) == IF i \in Polled THEN Period ELSE Timeout[i]

(* A positive readiness, published or answered, relies on nothing that is  *)
(* longer ago than its timeout, or than one period for what is read: the   *)
(* map it names was active and the localization was accepted on that very  *)
(* map, motion was permitted and the chassis connected, in whatever order  *)
(* messages, map changes and requests came, or stopped coming.             *)
ReadyIsCurrent ==
  [][(HealthTick \/ EvaluateReadiness) /\ ReliesOn(readiness')
        => ago <= Allowed(watched[1])]_healthVars

(* A Nav2 node that is gone for good is in the end noticed: no task is     *)
(* called ready with it.                                                   *)
GoneIsNoticed == \A n \in Nodes : <>[](up[n] = "gone") => <>[]~readiness.ready
=============================================================================
