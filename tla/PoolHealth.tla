------------------------------ MODULE PoolHealth ------------------------------
(***************************************************************************)
(* The health checker under traffic.  The router is reduced to what the    *)
(* breaker sees of it: a node getHealthyNodes() returned is picked for a   *)
(* call, and an arbitrary time later recordTrafficOutcome reports on it,   *)
(* or never does (a failover candidate whose turn did not come).           *)
(*                                                                         *)
(* traffic and probes are history variables: the outcomes recorded for the *)
(* current record of a node, the last TrafficEjectThreshold of traffic and *)
(* the last UnhealthyThreshold of health checks.  They let the properties  *)
(* speak of what happened instead of the counters the code keeps.          *)
(***************************************************************************)
EXTENDS HealthChecker, Sequences

CONSTANT MaxOwed   \* bound: outstanding picks of one node

ASSUME MaxOwedAssumption == MaxOwed \in Nat

VARIABLES owed,     \* picks of a node that have not reported yet
          traffic,  \* history: outcomes recorded by recordTrafficOutcome
          probes    \* history: results of #checkOne

vars == <<targets, registered, nodes, checking, owed, traffic, probes>>

Window(seq, size) == IF Len(seq) > size THEN Tail(seq) ELSE seq

AllFailures(size) == [i \in 1..size |-> FALSE]

TypeOK ==
    /\ HealthTypeOK
    /\ owed \in [Ids -> 0..MaxOwed]

Init ==
    /\ HealthInit
    /\ owed = [n \in Ids |-> 0]
    /\ traffic = [n \in Ids |-> <<>>]
    /\ probes = [n \in Ids |-> <<>>]

----------------------------------------------------------------------------
(* Health checker steps, with their history *)

Discover == DiscoveryPoll /\ UNCHANGED <<owed, traffic, probes>>

Poll ==
    /\ PollAll
    /\ traffic' = [n \in Ids |-> IF n \in targets THEN traffic[n] ELSE <<>>]
    /\ probes' = [n \in Ids |-> IF n \in targets THEN probes[n] ELSE <<>>]
    /\ UNCHANGED owed

Check(n) ==
    /\ \/ CheckOk(n) /\ probes' = [probes EXCEPT
                           ![n] = Window(Append(@, TRUE), UnhealthyThreshold)]
       \/ CheckFail(n) /\ probes' = [probes EXCEPT
                           ![n] = Window(Append(@, FALSE), UnhealthyThreshold)]
    /\ UNCHANGED <<owed, traffic>>

Pass == Tick /\ UNCHANGED <<owed, traffic, probes>>

----------------------------------------------------------------------------
(* Traffic *)

\* The router takes n from getHealthyNodes().
Pick(n) ==
    /\ InRotation(n)
    /\ owed[n] < MaxOwed
    /\ owed' = [owed EXCEPT ![n] = @ + 1]
    /\ UNCHANGED <<targets, registered, nodes, checking, traffic, probes>>

\* A failover candidate is not needed: an earlier one served the batch.
Drop(n) ==
    /\ owed[n] > 0
    /\ owed' = [owed EXCEPT ![n] = @ - 1]
    /\ UNCHANGED <<targets, registered, nodes, checking, traffic, probes>>

\* The backend answered, or failed to.
Report(n, ok) ==
    /\ owed[n] > 0
    /\ owed' = [owed EXCEPT ![n] = @ - 1]
    /\ RecordTrafficOutcome(n, ok)
    /\ traffic' = IF n \in registered
                  THEN [traffic EXCEPT
                          ![n] = Window(Append(@, ok), TrafficEjectThreshold)]
                  ELSE traffic
    /\ UNCHANGED <<targets, registered, checking, probes>>

Next ==
    \/ Discover
    \/ Poll
    \/ Pass
    \/ \E n \in Ids : Check(n) \/ Pick(n) \/ Drop(n)
    \/ \E n \in Ids, ok \in BOOLEAN : Report(n, ok)

Spec == Init /\ [][Next]_vars

\* No fairness is asked of traffic: backends may never be called again.
FairSpec == Spec /\ HealthFairness

----------------------------------------------------------------------------
(* Properties *)

\* A backend is ejected only when the last TrafficEjectThreshold outcomes
\* recorded for it, one success in between would do, were failures.
EjectedOnlyAfterStreak ==
    \A n \in Ids :
        nodes[n].ejected > 0 => traffic[n] = AllFailures(TrafficEjectThreshold)

\* ... and the other way round: a failed call that leaves a backend with nothing but
\* failures in its last TrafficEjectThreshold outcomes leaves it ejected, in a
\* half-open state, when the failures of before the cooldown still count, as well.
EjectsOnStreak ==
    \A n \in registered :
        (Report(n, FALSE) /\ traffic'[n] = AllFailures(TrafficEjectThreshold))
            => nodes'[n].ejected > 0
StreakEjects == [][EjectsOnStreak]_vars

\* A backend that served health checks leaves rotation only after
\* UnhealthyThreshold failed ones in a row, or when a full streak of failed calls
\* ejects it, or when discovery drops it: one lost ping never takes a backend out,
\* not one on probation after its cooldown either.
LeavesForCause ==
    \A n \in Ids :
        (InRotation(n) /\ ~InRotation(n)')
            => \/ probes'[n] = AllFailures(UnhealthyThreshold)
               \/ traffic'[n] = AllFailures(TrafficEjectThreshold) /\ nodes'[n].ejected > 0
               \/ n \notin targets
OutOfRotationIsEarned == [][LeavesForCause]_vars

\* Calls that were under way when a backend was ejected report late; none of
\* those failures prolongs its cooldown.
CooldownNotExtended ==
    \A n \in Ids :
        (nodes[n].ejected > 0 /\ n \in registered') =>
            nodes'[n].ejected <= nodes[n].ejected
CooldownNeverExtended == [][CooldownNotExtended]_vars

\* A backend that stays a target and whose health checks stop failing gets
\* back into rotation again and again, whatever its traffic does.
Readmitted ==
    \A n \in Ids :
        (<>[](n \in targets) /\ <>[][~CheckFail(n)]_vars) => []<>InRotation(n)

----------------------------------------------------------------------------
(* The abstract circuit breaker *)

Mode(n) ==
    IF n \notin registered THEN "unknown"
    ELSE IF nodes[n].ejected > 0 THEN "open"
    ELSE IF nodes[n].trafficFailures = TrafficEjectThreshold THEN "half_open"
    ELSE "closed"

Breaker == INSTANCE CircuitBreaker
             WITH mode <- [n \in Ids |-> Mode(n)], calls <- owed, MaxCalls <- MaxOwed

\* The counters and timestamps of the health checker implement the breaker: no
\* step of theirs does what a circuit breaker does not.
ImplementsBreakerSteps == Breaker!BreakerSteps

\* They implement it with its liveness: every ejection ends although failures of
\* late calls keep coming.
ImplementsBreaker == Breaker!BreakerSpec
=============================================================================
