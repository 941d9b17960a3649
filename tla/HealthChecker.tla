---------------------------- MODULE HealthChecker ----------------------------
(***************************************************************************)
(* The target list of the pool (discovery.mjs) and the health checker      *)
(* (health-checker.mjs): periodic /healthz checks, and the circuit breaker *)
(* fed with the outcomes of real traffic.                                  *)
(*                                                                         *)
(* nodes[n] is the record #nodes keeps for target n, Fresh when it keeps   *)
(* none (n \notin registered). ejectedUntil, an absolute time, is          *)
(* represented by the number of clock ticks it still lies in the future.   *)
(* Both failure counters are compared with >= only, so they saturate at    *)
(* their thresholds.  A check holds a reference to the record it started   *)
(* with; when that record is pruned its answer is written to a detached    *)
(* object nobody reads, so checks of pruned records are forgotten.         *)
(***************************************************************************)
EXTENDS Naturals, FiniteSets

CONSTANTS Ids,                   \* target ids that may ever appear
          Static,                \* those of POOL_TARGETS, always in the list
          UnhealthyThreshold,    \* POOL_UNHEALTHY_THRESHOLD
          TrafficEjectThreshold, \* POOL_TRAFFIC_EJECT_THRESHOLD
          Cooldown,              \* POOL_EJECT_COOLDOWN_MS, in clock ticks
          MaxOverlap             \* bound: checks in flight for one record

ASSUME StaticAssumption == Static \subseteq Ids
ASSUME ThresholdAssumption ==
    /\ UnhealthyThreshold \in Nat \ {0}
    /\ TrafficEjectThreshold \in Nat \ {0}
    /\ Cooldown \in Nat \ {0}
    /\ MaxOverlap \in Nat \ {0}

VARIABLES targets,     \* Discovery.#targets
          registered,  \* the keys of HealthChecker.#nodes
          nodes,       \* the values of HealthChecker.#nodes
          checking     \* #checkOne calls whose fetch has not settled yet

healthVars == <<targets, registered, nodes, checking>>

NodeStatus ==
    [healthy : BOOLEAN,
     failures : 0..UnhealthyThreshold,             \* consecutiveFailures
     trafficFailures : 0..TrafficEjectThreshold,
     ejected : 0..Cooldown]                        \* ejectedUntil - now

Fresh == [healthy |-> FALSE, failures |-> 0, trafficFailures |-> 0, ejected |-> 0]

HealthTypeOK ==
    /\ targets \in SUBSET Ids
    /\ Static \subseteq targets
    /\ registered \in SUBSET Ids
    /\ nodes \in [Ids -> NodeStatus]
    /\ checking \in [Ids -> 0..MaxOverlap]

\* Discovery.start() has polled once, or failed to, and HealthChecker.start()
\* has registered every target and started its first check.
HealthInit ==
    /\ \E discovered \in SUBSET (Ids \ Static) : targets = Static \cup discovered
    /\ registered = targets
    /\ nodes = [n \in Ids |-> Fresh]
    /\ checking = [n \in Ids |-> IF n \in targets THEN 1 ELSE 0]

----------------------------------------------------------------------------
(* Discovery *)

\* #poll(): the static targets and whatever Tailscale reports now. A poll that
\* throws leaves the list as it is.
DiscoveryPoll ==
    /\ \E discovered \in SUBSET (Ids \ Static) : targets' = Static \cup discovered
    /\ UNCHANGED <<registered, nodes, checking>>

----------------------------------------------------------------------------
(* Health checks *)

\* Mutant: what joins the list is not registered.
PollAllWithoutNewcomers ==
    /\ \A n \in targets : checking[n] < MaxOverlap
    /\ registered' = registered \cap targets
    /\ nodes' = [n \in Ids |-> IF n \in registered' THEN nodes[n] ELSE Fresh]
    /\ checking' = [n \in Ids |-> IF n \in registered' THEN checking[n] + 1 ELSE 0]
    /\ UNCHANGED targets

\* #pollAll(): prune what left the list, register what joined it, and start one
\* check per target. MaxOverlap bounds the overlap of slow checks.
PollAll ==
    /\ \A n \in targets : checking[n] < MaxOverlap
    /\ registered' = targets
    /\ nodes' = [n \in Ids |-> IF n \in targets THEN nodes[n] ELSE Fresh]
    /\ checking' = [n \in Ids |-> IF n \in targets THEN checking[n] + 1 ELSE 0]
    /\ UNCHANGED targets

EndCheck(n) ==
    /\ checking[n] > 0
    /\ checking' = [checking EXCEPT ![n] = @ - 1]
    /\ UNCHANGED <<targets, registered>>

\* #checkOne, /healthz or /health answered 2xx.
CheckOk(n) ==
    /\ EndCheck(n)
    /\ nodes' = [nodes EXCEPT ![n] = [@ EXCEPT !.healthy = TRUE, !.failures = 0]]

Saturate(count, threshold) == IF count < threshold THEN count + 1 ELSE threshold

\* Mutant: the first failed check takes a node out.
CheckFailAtOnce(n) ==
    /\ EndCheck(n)
    /\ nodes' = [nodes EXCEPT
                   ![n] = [@ EXCEPT !.failures = Saturate(@, UnhealthyThreshold),
                                    !.healthy = FALSE]]

\* #checkOne, neither did, in time: #recordFailure.
CheckFail(n) ==
    /\ EndCheck(n)
    /\ LET failures == Saturate(nodes[n].failures, UnhealthyThreshold)
           healthy == nodes[n].healthy /\ failures < UnhealthyThreshold
       IN  nodes' = [nodes EXCEPT
                       ![n] = [nodes[n] EXCEPT !.failures = failures, !.healthy = healthy]]

----------------------------------------------------------------------------
(* Circuit breaker *)

\* Mutants of the record after a traffic outcome.  A success ends the ejection and
\* keeps the streak, or the other way round:
OutcomeStreakKept(status, ok) ==
    LET failures == Saturate(status.trafficFailures, TrafficEjectThreshold)
    IN  IF ok
        THEN [status EXCEPT !.ejected = 0]
        ELSE [status EXCEPT
                !.trafficFailures = failures,
                !.ejected = IF failures >= TrafficEjectThreshold /\ @ = 0
                            THEN Cooldown ELSE @]
OutcomeStaysEjected(status, ok) ==
    LET failures == Saturate(status.trafficFailures, TrafficEjectThreshold)
    IN  IF ok
        THEN [status EXCEPT !.trafficFailures = 0]
        ELSE [status EXCEPT
                !.trafficFailures = failures,
                !.ejected = IF failures >= TrafficEjectThreshold /\ @ = 0
                            THEN Cooldown ELSE @]

\* It trips when the streak reaches the threshold, and not beyond it:
OutcomeTripsOnce(status, ok) ==
    IF ok
    THEN [status EXCEPT !.trafficFailures = 0, !.ejected = 0]
    ELSE [status EXCEPT
            !.trafficFailures = Saturate(@, TrafficEjectThreshold),
            !.ejected = IF status.trafficFailures + 1 = TrafficEjectThreshold
                        THEN Cooldown ELSE @]

\* A failure during an ejection starts the cooldown again, or adds to it:
OutcomeRearms(status, ok) ==
    LET failures == Saturate(status.trafficFailures, TrafficEjectThreshold)
    IN  IF ok
        THEN [status EXCEPT !.trafficFailures = 0, !.ejected = 0]
        ELSE [status EXCEPT
                !.trafficFailures = failures,
                !.ejected = IF failures >= TrafficEjectThreshold THEN Cooldown ELSE @]
OutcomeAccumulates(status, ok) ==
    LET failures == Saturate(status.trafficFailures, TrafficEjectThreshold)
    IN  IF ok
        THEN [status EXCEPT !.trafficFailures = 0, !.ejected = 0]
        ELSE [status EXCEPT
                !.trafficFailures = failures,
                !.ejected = IF failures >= TrafficEjectThreshold THEN @ + Cooldown ELSE @]

\* The record after one traffic outcome.
Outcome(status, ok) ==
    LET failures == Saturate(status.trafficFailures, TrafficEjectThreshold)
    IN  IF ok
        THEN [status EXCEPT !.trafficFailures = 0, !.ejected = 0]
        ELSE [status EXCEPT
                !.trafficFailures = failures,
                !.ejected = IF failures >= TrafficEjectThreshold /\ @ = 0
                            THEN Cooldown ELSE @]

\* recordTrafficOutcome(nodeId, ok): an unknown id is ignored.
RecordTrafficOutcome(n, ok) ==
    nodes' = IF n \in registered THEN [nodes EXCEPT ![n] = Outcome(@, ok)] ELSE nodes

\* Mutant: an ejection never quite ends.
TickStuck ==
    /\ \E n \in Ids : nodes[n].ejected > 1
    /\ nodes' = [n \in Ids |-> IF nodes[n].ejected > 1
                               THEN [nodes[n] EXCEPT !.ejected = @ - 1]
                               ELSE nodes[n]]
    /\ UNCHANGED <<targets, registered, checking>>

\* Time passes: every ejectedUntil comes one tick closer.
Tick ==
    /\ \E n \in Ids : nodes[n].ejected > 0
    /\ nodes' = [n \in Ids |-> IF nodes[n].ejected > 0
                               THEN [nodes[n] EXCEPT !.ejected = @ - 1]
                               ELSE nodes[n]]
    /\ UNCHANGED <<targets, registered, checking>>

\* getHealthyNodes(), as a set: its order is by latency, which is not modelled.
InRotation(n) == n \in registered /\ nodes[n].healthy /\ nodes[n].ejected = 0
HealthyNodes == {n \in Ids : InRotation(n)}

----------------------------------------------------------------------------

\* The steps the health checker and discovery take by themselves.
HealthNext ==
    \/ DiscoveryPoll
    \/ PollAll
    \/ Tick
    \/ \E n \in Ids : CheckOk(n) \/ CheckFail(n)

\* The interval timers keep running, a check settles within its timeout, and
\* time passes.
HealthFairness ==
    /\ WF_healthVars(PollAll)
    /\ WF_healthVars(Tick)
    /\ \A n \in Ids : WF_healthVars(CheckOk(n) \/ CheckFail(n))
=============================================================================
