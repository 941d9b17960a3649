--------------------------- MODULE PoolHealthProofs ---------------------------
(***************************************************************************)
(* Theorems of PoolHealth, for every pool and every threshold.             *)
(***************************************************************************)
EXTENDS PoolHealth, TLAPS

(* count is the length of the run of failures at the end of the window seq. *)
Tracks(seq, count, size) ==
    /\ seq \in Seq(BOOLEAN)
    /\ Len(seq) <= size
    /\ count \in 0..Len(seq)
    /\ \A i \in 1..Len(seq) : i > Len(seq) - count => seq[i] = FALSE
    /\ count < Len(seq) => seq[Len(seq) - count] = TRUE

\* Pushing an outcome into a window keeps the counter in step with it.
LEMMA WindowPush ==
    ASSUME NEW size \in Nat \ {0}, NEW seq, NEW count, NEW ok \in BOOLEAN,
           Tracks(seq, count, size)
    PROVE  Tracks(Window(Append(seq, ok), size),
                  IF ok THEN 0 ELSE Saturate(count, size), size)
<1> DEFINE long == Append(seq, ok)
           window == Window(long, size)
           new == IF ok THEN 0 ELSE Saturate(count, size)
<1> SUFFICES Tracks(window, new, size)
  OBVIOUS
<1>1. /\ seq \in Seq(BOOLEAN) /\ Len(seq) \in Nat /\ Len(seq) <= size
      /\ count \in Nat /\ count <= Len(seq)
      /\ long \in Seq(BOOLEAN)
      /\ Len(long) = Len(seq) + 1
      /\ \A i \in 1..Len(seq) : long[i] = seq[i]
      /\ long[Len(seq) + 1] = ok
  BY DEF Tracks
<1>2. new \in Nat /\ new <= size /\ new = IF ok THEN 0
                       ELSE IF count < size THEN count + 1 ELSE size
  BY <1>1 DEF Saturate
<1>3. CASE Len(seq) = size
  <2>1. window = Tail(long)
    BY <1>1, <1>3 DEF Window
  <2>2. /\ window \in Seq(BOOLEAN)
        /\ Len(window) = size
        /\ \A i \in 1..size : window[i] = long[i + 1]
    BY <1>1, <1>3, <2>1
  <2>3. window[size] = ok
    BY <1>1, <1>3, <2>2
  <2>4. \A i \in 1..size : i < size => window[i] = seq[i + 1]
    BY <1>1, <1>3, <2>2
  <2> HIDE DEF window, new, long
  <2>5. ASSUME NEW i \in 1..Len(window), i > Len(window) - new PROVE window[i] = FALSE
    BY <1>1, <1>2, <1>3, <2>2, <2>3, <2>4, <2>5 DEF Tracks
  <2>6. ASSUME new < Len(window) PROVE window[Len(window) - new] = TRUE
    BY <1>1, <1>2, <1>3, <2>2, <2>3, <2>4, <2>6 DEF Tracks
  <2>7. new \in 0..Len(window) /\ Len(window) <= size
    BY <1>2, <2>2
  <2> QED
    BY <2>2, <2>5, <2>6, <2>7 DEF Tracks
<1>4. CASE Len(seq) < size
  <2>1. window = long
    BY <1>1, <1>4 DEF Window
  <2> HIDE DEF window, new, long
  <2>2. ASSUME NEW i \in 1..Len(window), i > Len(window) - new PROVE window[i] = FALSE
    BY <1>1, <1>2, <1>4, <2>1, <2>2 DEF Tracks
  <2>3. ASSUME new < Len(window) PROVE window[Len(window) - new] = TRUE
    BY <1>1, <1>2, <1>4, <2>1, <2>3 DEF Tracks
  <2>4. new \in 0..Len(window) /\ Len(window) <= size
    BY <1>1, <1>2, <1>4, <2>1
  <2> QED
    BY <1>1, <2>1, <2>2, <2>3, <2>4 DEF Tracks
<1> QED
  BY <1>1, <1>3, <1>4

\* A window whose run of failures fills it holds failures only, and conversely.
LEMMA FullWindow ==
    ASSUME NEW size \in Nat \ {0}, NEW seq, NEW count, Tracks(seq, count, size)
    PROVE  count = size <=> seq = AllFailures(size)
<1>1. ASSUME count = size PROVE seq = AllFailures(size)
  <2>1. Len(seq) = size /\ \A i \in 1..size : seq[i] = FALSE
    BY <1>1 DEF Tracks
  <2>2. seq = [i \in 1..size |-> seq[i]]
    BY <2>1 DEF Tracks
  <2> QED
    BY <2>1, <2>2 DEF AllFailures
<1>2. ASSUME seq = AllFailures(size) PROVE count = size
  <2>1. DOMAIN seq = 1..size /\ \A i \in 1..size : seq[i] = FALSE
    BY <1>2 DEF AllFailures
  <2>2. Len(seq) = size
    BY <2>1 DEF Tracks
  <2> QED
    BY <2>1, <2>2 DEF Tracks
<1> QED
  BY <1>1, <1>2
----------------------------------------------------------------------------
(* The inductive invariant *)

HistoryTypeOK == traffic \in [Ids -> Seq(BOOLEAN)] /\ probes \in [Ids -> Seq(BOOLEAN)]

\* Without a record a target has no past.
NoRecordNoPast ==
    \A n \in Ids : n \notin registered =>
        /\ nodes[n] = Fresh /\ checking[n] = 0
        /\ traffic[n] = <<>> /\ probes[n] = <<>>

\* The counters say what the histories say.
CountersTrackHistory ==
    \A n \in Ids : /\ Tracks(traffic[n], nodes[n].trafficFailures, TrafficEjectThreshold)
                   /\ Tracks(probes[n], nodes[n].failures, UnhealthyThreshold)

EjectedAtThreshold ==
    \A n \in Ids : nodes[n].ejected > 0 => nodes[n].trafficFailures = TrafficEjectThreshold

IInv == /\ TypeOK /\ HistoryTypeOK
        /\ NoRecordNoPast /\ CountersTrackHistory /\ EjectedAtThreshold

USE DEF HistoryTypeOK, TypeOK, HealthTypeOK

LEMMA FreshFacts ==
    /\ Fresh \in NodeStatus
    /\ \A size \in Nat \ {0} : Tracks(<<>>, 0, size)
<1>1. Fresh \in NodeStatus
  BY ThresholdAssumption DEF Fresh, NodeStatus
<1>2. \A size \in Nat \ {0} : Tracks(<<>>, 0, size)
  BY DEF Tracks
<1> QED
  BY <1>1, <1>2

\* A traffic outcome turns a status into a status.
LEMMA OutcomeFacts ==
    ASSUME NEW status \in NodeStatus, NEW ok \in BOOLEAN
    PROVE  /\ Outcome(status, ok) \in NodeStatus
           /\ Outcome(status, ok).healthy = status.healthy
           /\ Outcome(status, ok).failures = status.failures
           /\ Outcome(status, ok).trafficFailures =
                IF ok THEN 0 ELSE Saturate(status.trafficFailures, TrafficEjectThreshold)
           /\ ok => Outcome(status, ok).ejected = 0
           /\ ~ok => Outcome(status, ok).ejected =
                IF Saturate(status.trafficFailures, TrafficEjectThreshold)
                        = TrafficEjectThreshold
                   /\ status.ejected = 0
                THEN Cooldown ELSE status.ejected
<1>1. Saturate(status.trafficFailures, TrafficEjectThreshold) \in 0..TrafficEjectThreshold
  BY ThresholdAssumption DEF Saturate, NodeStatus
<1>2. Cooldown \in 0..Cooldown /\ 0 \in 0..Cooldown /\ 0 \in 0..TrafficEjectThreshold
  BY ThresholdAssumption
<1>3. CASE ok
  BY <1>2, <1>3 DEF Outcome, NodeStatus
<1>4. CASE ~ok
  <2> DEFINE streak == Saturate(status.trafficFailures, TrafficEjectThreshold)
             left == IF streak >= TrafficEjectThreshold /\ status.ejected = 0
                     THEN Cooldown ELSE status.ejected
  <2>1. streak >= TrafficEjectThreshold <=> streak = TrafficEjectThreshold
    BY <1>1, ThresholdAssumption
  <2>2. Outcome(status, ok) =
          [status EXCEPT !.trafficFailures = streak, !.ejected = left]
    BY <1>4 DEF Outcome
  <2>3. left \in 0..Cooldown
    BY <1>2 DEF NodeStatus
  <2> HIDE DEF streak, left
  <2>4. /\ Outcome(status, ok) \in NodeStatus
        /\ Outcome(status, ok).healthy = status.healthy
        /\ Outcome(status, ok).failures = status.failures
        /\ Outcome(status, ok).trafficFailures = streak
        /\ Outcome(status, ok).ejected = left
    BY <1>1, <2>2, <2>3 DEF NodeStatus, streak
  <2> QED
    BY <1>4, <2>1, <2>4 DEF streak, left
<1> QED
  BY <1>3, <1>4

LEMMA InitIInv == Init => IInv
<1> SUFFICES ASSUME Init PROVE IInv
  OBVIOUS
<1>1. TypeOK /\ HistoryTypeOK
  BY StaticAssumption, ThresholdAssumption, MaxOwedAssumption, FreshFacts
     DEF Init, HealthInit
<1>2. NoRecordNoPast
  BY DEF Init, HealthInit, NoRecordNoPast
<1>3. CountersTrackHistory
  BY FreshFacts, ThresholdAssumption DEF Init, HealthInit, CountersTrackHistory, Fresh
<1>4. EjectedAtThreshold
  BY DEF Init, HealthInit, EjectedAtThreshold, Fresh
<1> QED
  BY <1>1, <1>2, <1>3, <1>4 DEF IInv

----------------------------------------------------------------------------
(* One lemma per action: it keeps the types and the invariant *)

LEMMA WindowType ==
    ASSUME NEW size \in Nat \ {0}, NEW seq \in Seq(BOOLEAN), NEW ok \in BOOLEAN
    PROVE  Window(Append(seq, ok), size) \in Seq(BOOLEAN)
<1>1. Append(seq, ok) \in Seq(BOOLEAN) /\ Len(Append(seq, ok)) = Len(seq) + 1
  OBVIOUS
<1>2. Append(seq, ok) # <<>>
  BY <1>1
<1>3. Tail(Append(seq, ok)) \in Seq(BOOLEAN)
  BY <1>1, <1>2
<1> QED
  BY <1>1, <1>3 DEF Window

LEMMA PollStep == ASSUME IInv, Poll PROVE IInv'
<1>1. /\ registered' = targets /\ targets' = targets
      /\ nodes' = [n \in Ids |-> IF n \in targets THEN nodes[n] ELSE Fresh]
      /\ traffic' = [n \in Ids |-> IF n \in targets THEN traffic[n] ELSE <<>>]
      /\ probes' = [n \in Ids |-> IF n \in targets THEN probes[n] ELSE <<>>]
      /\ owed' = owed
  BY DEF Poll, PollAll
<1>2. checking' \in [Ids -> 0..MaxOverlap] /\ \A n \in Ids \ targets : checking'[n] = 0
  <2>1. checking' = [n \in Ids |-> IF n \in targets THEN checking[n] + 1 ELSE 0]
    BY DEF Poll, PollAll
  <2>2. \A n \in targets : n \in Ids /\ checking[n] + 1 \in 0..MaxOverlap
    BY ThresholdAssumption DEF IInv, Poll, PollAll
  <2> QED
    BY <2>1, <2>2, ThresholdAssumption
<1>3. TypeOK' /\ HistoryTypeOK'
  <2>1. \A n \in Ids : <<>> \in Seq(BOOLEAN)
    OBVIOUS
  <2> QED
    BY <1>1, <1>2, <2>1, FreshFacts DEF IInv
<1>4. NoRecordNoPast'
  BY <1>1, <1>2 DEF NoRecordNoPast
<1>5. CountersTrackHistory'
  BY <1>1, FreshFacts, ThresholdAssumption DEF IInv, CountersTrackHistory, Fresh
<1>6. EjectedAtThreshold'
  BY <1>1 DEF IInv, EjectedAtThreshold, Fresh
<1> QED
  BY <1>3, <1>4, <1>5, <1>6 DEF IInv

LEMMA CheckStep == ASSUME IInv, NEW n \in Ids, Check(n) PROVE IInv'
<1> DEFINE streak == Saturate(nodes[n].failures, UnhealthyThreshold)
<1>1. PICK ok \in BOOLEAN :
        /\ IF ok THEN CheckOk(n) ELSE CheckFail(n)
        /\ probes' = [probes EXCEPT ![n] = Window(Append(@, ok), UnhealthyThreshold)]
  BY DEF Check
<1>2. /\ targets' = targets /\ registered' = registered
      /\ owed' = owed /\ traffic' = traffic
      /\ checking[n] > 0 /\ checking' = [checking EXCEPT ![n] = @ - 1]
  BY <1>1 DEF Check, CheckOk, CheckFail, EndCheck
<1>3. nodes[n] \in NodeStatus
  BY DEF IInv
<1>4. streak \in 0..UnhealthyThreshold
  BY <1>3, ThresholdAssumption DEF NodeStatus, Saturate
<1> DEFINE failures == IF ok THEN 0 ELSE streak
           healthy == IF ok THEN TRUE ELSE nodes[n].healthy /\ streak < UnhealthyThreshold
           new == [nodes[n] EXCEPT !.failures = failures, !.healthy = healthy]
<1>5. nodes' = [nodes EXCEPT ![n] = new]
  <2>1. CASE ok
    BY <1>1, <1>3, <2>1 DEF CheckOk, NodeStatus
  <2>2. CASE ~ok
    <3>1. nodes' = [nodes EXCEPT ![n] = [nodes[n] EXCEPT
                      !.failures = streak,
                      !.healthy = nodes[n].healthy /\ streak < UnhealthyThreshold]]
      BY <1>1, <2>2 DEF CheckFail
    <3>2. failures = streak
      BY <2>2
    <3>3. healthy = (nodes[n].healthy /\ streak < UnhealthyThreshold)
      BY <2>2
    <3> HIDE DEF failures, healthy, streak
    <3> QED
      BY <3>1, <3>2, <3>3, Zenon
  <2> QED
    BY <2>1, <2>2
<1>6. /\ new \in NodeStatus
      /\ new.failures = failures
      /\ new.trafficFailures = nodes[n].trafficFailures
      /\ new.ejected = nodes[n].ejected
  <2>1. failures \in 0..UnhealthyThreshold
    BY <1>4, ThresholdAssumption
  <2>2. healthy \in BOOLEAN
    OBVIOUS
  <2> HIDE DEF failures, healthy
  <2> QED
    BY <1>3, <2>1, <2>2 DEF NodeStatus
<1> HIDE DEF new
<1>7. TypeOK' /\ HistoryTypeOK'
  <2>1. nodes' \in [Ids -> NodeStatus] /\ checking' \in [Ids -> 0..MaxOverlap]
    BY <1>2, <1>5, <1>6, ThresholdAssumption DEF IInv
  <2>2. probes' \in [Ids -> Seq(BOOLEAN)]
    BY <1>1, WindowType, ThresholdAssumption DEF IInv
  <2> QED
    BY <1>2, <2>1, <2>2 DEF IInv
<1>8. n \in registered
  BY <1>2 DEF IInv, NoRecordNoPast
<1>9. NoRecordNoPast'
  BY <1>1, <1>2, <1>5, <1>8 DEF IInv, NoRecordNoPast
<1>10. CountersTrackHistory'
  <2>1. Tracks(probes'[n], failures, UnhealthyThreshold)
    BY <1>1, WindowPush, ThresholdAssumption DEF IInv, CountersTrackHistory
  <2> QED
    BY <1>1, <1>2, <1>5, <1>6, <2>1 DEF IInv, CountersTrackHistory
<1>11. EjectedAtThreshold'
  BY <1>2, <1>5, <1>6 DEF IInv, EjectedAtThreshold
<1> QED
  BY <1>7, <1>9, <1>10, <1>11 DEF IInv

LEMMA PassStep == ASSUME IInv, Pass PROVE IInv'
<1> DEFINE New(n) == [nodes[n] EXCEPT !.ejected = @ - 1]
<1>1. /\ nodes' = [n \in Ids |-> IF nodes[n].ejected > 0 THEN New(n) ELSE nodes[n]]
      /\ UNCHANGED <<targets, registered, checking, owed, traffic, probes>>
  BY DEF Pass, Tick
<1>2. \A n \in Ids : nodes[n] \in NodeStatus
  BY DEF IInv
<1>3. ASSUME NEW n \in Ids
      PROVE  /\ nodes'[n] \in NodeStatus
             /\ nodes'[n].failures = nodes[n].failures
             /\ nodes'[n].trafficFailures = nodes[n].trafficFailures
             /\ nodes'[n].ejected <= nodes[n].ejected
  <2>1. CASE nodes[n].ejected > 0
    <3>1. nodes[n].ejected - 1 \in 0..Cooldown /\ nodes[n].ejected - 1 <= nodes[n].ejected
      BY <1>2, <2>1, ThresholdAssumption DEF NodeStatus
    <3> QED
      BY <1>1, <1>2, <2>1, <3>1 DEF NodeStatus
  <2>2. CASE ~(nodes[n].ejected > 0)
    BY <1>1, <1>2, <2>2 DEF NodeStatus
  <2> QED
    BY <2>1, <2>2
<1>4. TypeOK' /\ HistoryTypeOK'
  BY <1>1, <1>3 DEF IInv
<1>5. NoRecordNoPast'
  <2>1. Fresh.ejected = 0
    BY DEF Fresh
  <2>2. \A n \in Ids : nodes[n] = Fresh => nodes'[n] = Fresh
    BY <1>1, <2>1
  <2> QED
    BY <1>1, <2>2 DEF IInv, NoRecordNoPast
<1>6. CountersTrackHistory'
  BY <1>1, <1>3 DEF IInv, CountersTrackHistory
<1>7. EjectedAtThreshold'
  BY <1>1, <1>2, <1>3 DEF IInv, EjectedAtThreshold, NodeStatus
<1> QED
  BY <1>4, <1>5, <1>6, <1>7 DEF IInv

LEMMA ReportStep ==
    ASSUME IInv, NEW n \in Ids, NEW ok \in BOOLEAN, Report(n, ok) PROVE IInv'
<1>1. /\ UNCHANGED <<targets, registered, checking, probes>>
      /\ owed[n] > 0 /\ owed' = [owed EXCEPT ![n] = @ - 1]
  BY DEF Report
<1>2. owed' \in [Ids -> 0..MaxOwed]
  BY <1>1, MaxOwedAssumption DEF IInv
<1>3. CASE n \notin registered
  <2>1. nodes' = nodes /\ traffic' = traffic
    BY <1>3 DEF Report, RecordTrafficOutcome
  <2> QED
    BY <1>1, <1>2, <2>1
       DEF IInv, NoRecordNoPast, CountersTrackHistory, EjectedAtThreshold
<1>4. CASE n \in registered
  <2> DEFINE new == Outcome(nodes[n], ok)
  <2>1. /\ nodes' = [nodes EXCEPT ![n] = new]
        /\ traffic' = [traffic EXCEPT ![n] = Window(Append(@, ok), TrafficEjectThreshold)]
    BY <1>4 DEF Report, RecordTrafficOutcome
  <2>2. nodes[n] \in NodeStatus
    BY DEF IInv
  <2>3. /\ new \in NodeStatus
        /\ new.failures = nodes[n].failures
        /\ new.trafficFailures =
             IF ok THEN 0 ELSE Saturate(nodes[n].trafficFailures, TrafficEjectThreshold)
    BY <2>2, OutcomeFacts
  <2>4. new.ejected > 0 => new.trafficFailures = TrafficEjectThreshold
    <3>1. nodes[n].ejected > 0 => nodes[n].trafficFailures = TrafficEjectThreshold
      BY DEF IInv, EjectedAtThreshold
    <3>2. Saturate(TrafficEjectThreshold, TrafficEjectThreshold) = TrafficEjectThreshold
      BY ThresholdAssumption DEF Saturate
    <3>3. nodes[n].ejected \in Nat
      BY <2>2, ThresholdAssumption DEF NodeStatus
    <3> QED
      BY <2>2, <3>1, <3>2, <3>3, OutcomeFacts
  <2> HIDE DEF new
  <2>5. TypeOK' /\ HistoryTypeOK'
    <3>1. traffic' \in [Ids -> Seq(BOOLEAN)]
      BY <2>1, WindowType, ThresholdAssumption DEF IInv
    <3> QED
      BY <1>1, <1>2, <2>1, <2>3, <3>1 DEF IInv
  <2>6. NoRecordNoPast'
    BY <1>1, <1>4, <2>1 DEF IInv, NoRecordNoPast
  <2>7. CountersTrackHistory'
    <3>1. Tracks(traffic'[n], new.trafficFailures, TrafficEjectThreshold)
      BY <2>1, <2>3, WindowPush, ThresholdAssumption DEF IInv, CountersTrackHistory
    <3> QED
      BY <1>1, <2>1, <2>3, <3>1 DEF IInv, CountersTrackHistory
  <2>8. EjectedAtThreshold'
    BY <2>1, <2>4 DEF IInv, EjectedAtThreshold
  <2> QED
    BY <2>5, <2>6, <2>7, <2>8 DEF IInv
<1> QED
  BY <1>3, <1>4

LEMMA NextIInv == ASSUME IInv, [Next]_vars PROVE IInv'
<1>1. CASE Discover
  BY <1>1, StaticAssumption
     DEF Discover, DiscoveryPoll, IInv, NoRecordNoPast, CountersTrackHistory,
         EjectedAtThreshold
<1>2. CASE Poll
  BY <1>2, PollStep
<1>3. CASE Pass
  BY <1>3, PassStep
<1>4. ASSUME NEW n \in Ids, Check(n) PROVE IInv'
  BY <1>4, CheckStep
<1>5. ASSUME NEW n \in Ids, Pick(n) \/ Drop(n) PROVE IInv'
  <2>1. owed' \in [Ids -> 0..MaxOwed]
    <3>1. CASE Pick(n)
      BY <3>1, MaxOwedAssumption DEF IInv, Pick
    <3>2. CASE Drop(n)
      BY <3>2, MaxOwedAssumption DEF IInv, Drop
    <3> QED
      BY <1>5, <3>1, <3>2
  <2> QED
    BY <1>5, <2>1 DEF Pick, Drop, IInv, NoRecordNoPast, CountersTrackHistory,
                      EjectedAtThreshold
<1>6. ASSUME NEW n \in Ids, NEW ok \in BOOLEAN, Report(n, ok) PROVE IInv'
  BY <1>6, ReportStep
<1>7. CASE UNCHANGED vars
  BY <1>7 DEF vars, IInv, NoRecordNoPast, CountersTrackHistory, EjectedAtThreshold
<1> QED
  BY <1>1, <1>2, <1>3, <1>4, <1>5, <1>6, <1>7 DEF Next

THEOREM Invariance == Spec => []IInv
<1>1. Init => IInv
  BY InitIInv
<1>2. IInv /\ [Next]_vars => IInv'
  BY NextIInv
<1> QED
  BY <1>1, <1>2, PTL DEF Spec

----------------------------------------------------------------------------
(* State properties *)

\* Every variable keeps its type: counters stay within their thresholds.
THEOREM TypeCorrect == Spec => []TypeOK
<1>1. IInv => TypeOK
  BY DEF IInv
<1> QED
  BY <1>1, Invariance, PTL

LEMMA EjectedImpliesStreak == IInv => EjectedOnlyAfterStreak
<1> SUFFICES ASSUME IInv, NEW n \in Ids, nodes[n].ejected > 0
             PROVE  traffic[n] = AllFailures(TrafficEjectThreshold)
  BY DEF EjectedOnlyAfterStreak
<1>1. nodes[n].trafficFailures = TrafficEjectThreshold
  BY DEF IInv, EjectedAtThreshold
<1>2. Tracks(traffic[n], nodes[n].trafficFailures, TrafficEjectThreshold)
  BY DEF IInv, CountersTrackHistory
<1>3. TrafficEjectThreshold \in Nat \ {0}
  BY ThresholdAssumption
<1> QED
  BY <1>1, <1>2, <1>3, FullWindow

\* Only a full streak of failed calls ejects a backend.
THEOREM EjectionIsEarned == Spec => []EjectedOnlyAfterStreak
  BY EjectedImpliesStreak, Invariance, PTL

----------------------------------------------------------------------------
(* What a step does to one node *)

\* The steps that change the breaker of n, and how.
LEMMA BreakerStep ==
    ASSUME IInv, [Next]_vars, NEW n \in Ids
    PROVE  \/ /\ UNCHANGED <<traffic[n], nodes[n].trafficFailures>>
              /\ n \in registered <=> n \in registered'
              /\ nodes'[n].ejected <= nodes[n].ejected
           \/ /\ n \notin registered' /\ traffic'[n] = <<>>
              /\ nodes'[n].ejected = 0
           \/ /\ n \notin registered /\ n \in registered'
              /\ UNCHANGED <<nodes[n], traffic[n]>>
           \/ \E ok \in BOOLEAN :
                /\ Report(n, ok) /\ n \in registered /\ n \in registered'
                /\ nodes'[n] = Outcome(nodes[n], ok)
<1>1. nodes[n] \in NodeStatus /\ nodes'[n] \in NodeStatus
  BY NextIInv DEF IInv
<1>2. nodes[n].ejected \in Nat /\ nodes'[n].ejected \in Nat
  BY <1>1, ThresholdAssumption DEF NodeStatus
<1>3. CASE Poll
  <2>1. /\ registered' = targets
        /\ nodes'[n] = IF n \in targets THEN nodes[n] ELSE Fresh
        /\ traffic'[n] = IF n \in targets THEN traffic[n] ELSE <<>>
    BY <1>3 DEF Poll, PollAll
  <2>2. Fresh.ejected = 0
    BY DEF Fresh
  <2> QED
    BY <1>2, <2>1, <2>2
<1>4. CASE Pass
  <2>1. /\ nodes'[n] = IF nodes[n].ejected > 0
                       THEN [nodes[n] EXCEPT !.ejected = @ - 1] ELSE nodes[n]
        /\ UNCHANGED <<traffic, registered>>
    BY <1>4 DEF Pass, Tick
  <2>2. [nodes[n] EXCEPT !.ejected = @ - 1].ejected = nodes[n].ejected - 1
        /\ [nodes[n] EXCEPT !.ejected = @ - 1].trafficFailures = nodes[n].trafficFailures
    BY <1>1 DEF NodeStatus
  <2> QED
    BY <1>2, <2>1, <2>2
<1>5. ASSUME NEW m \in Ids, Check(m)
      PROVE  /\ UNCHANGED <<traffic[n], nodes[n].trafficFailures, nodes[n].ejected>>
             /\ UNCHANGED registered
  <2>1. UNCHANGED <<traffic, registered>>
    BY <1>5 DEF Check, CheckOk, CheckFail, EndCheck
  <2>2. CASE CheckOk(m)
    BY <1>1, <2>1, <2>2 DEF CheckOk, NodeStatus, IInv
  <2>3. CASE CheckFail(m)
    BY <1>1, <2>1, <2>3 DEF CheckFail, NodeStatus, IInv
  <2> QED
    BY <1>5, <2>1, <2>2, <2>3 DEF Check
<1>6. ASSUME NEW m \in Ids, NEW ok \in BOOLEAN, Report(m, ok)
      PROVE  \/ UNCHANGED <<traffic[n], nodes[n], registered>>
             \/ /\ m = n /\ n \in registered /\ registered' = registered
                /\ nodes'[n] = Outcome(nodes[n], ok)
  BY <1>6 DEF Report, RecordTrafficOutcome, IInv
<1>7. CASE Discover \/ UNCHANGED vars \/ \E m \in Ids : Pick(m) \/ Drop(m)
  BY <1>2, <1>7 DEF Discover, DiscoveryPoll, vars, Pick, Drop
<1> QED
  BY <1>2, <1>3, <1>4, <1>5, <1>6, <1>7 DEF Next

----------------------------------------------------------------------------
(* Action properties *)

\* Late failures of calls that were under way never prolong a cooldown.
THEOREM CooldownOnlyShrinks == Spec => CooldownNeverExtended
<1>1. ASSUME IInv, [Next]_vars, NEW n \in Ids, nodes[n].ejected > 0, n \in registered'
      PROVE  nodes'[n].ejected <= nodes[n].ejected
  <2>1. nodes[n] \in NodeStatus /\ nodes[n].ejected \in Nat
    BY <1>1, ThresholdAssumption DEF IInv, NodeStatus
  <2>2. ASSUME NEW ok \in BOOLEAN, nodes'[n] = Outcome(nodes[n], ok)
        PROVE  nodes'[n].ejected <= nodes[n].ejected
    BY <1>1, <2>1, <2>2, OutcomeFacts
  <2>3. n \in registered
    BY <1>1, ThresholdAssumption DEF IInv, NoRecordNoPast, Fresh
  <2> QED
    BY <1>1, <2>2, <2>3, BreakerStep
<1>2. IInv /\ [Next]_vars => [CooldownNotExtended]_vars
  BY <1>1 DEF CooldownNotExtended
<1> QED
  BY <1>2, Invariance, PTL DEF Spec, CooldownNeverExtended

\* A failed call that fills the window with failures ejects: a half-open backend is
\* ejected by its first failure.
THEOREM FullStreakEjects == Spec => StreakEjects
<1>1. ASSUME IInv, [Next]_vars, NEW n \in registered,
             Report(n, FALSE), traffic'[n] = AllFailures(TrafficEjectThreshold)
      PROVE  nodes'[n].ejected > 0
  <2>1. n \in Ids /\ nodes[n] \in NodeStatus /\ nodes[n].ejected \in Nat
    BY <1>1, ThresholdAssumption DEF IInv, NodeStatus
  <2>2. nodes'[n] = Outcome(nodes[n], FALSE)
    BY <1>1, <2>1 DEF Report, RecordTrafficOutcome, IInv
  <2>3. nodes'[n].trafficFailures = TrafficEjectThreshold
    <3>1. Tracks(traffic'[n], nodes'[n].trafficFailures, TrafficEjectThreshold)
      BY <1>1, <2>1, NextIInv DEF IInv, CountersTrackHistory
    <3> QED
      BY <1>1, <3>1, FullWindow, ThresholdAssumption
  <2>4. Saturate(nodes[n].trafficFailures, TrafficEjectThreshold) = TrafficEjectThreshold
    BY <2>1, <2>2, <2>3, OutcomeFacts
  <2>5. nodes'[n].ejected =
          IF nodes[n].ejected = 0 THEN Cooldown ELSE nodes[n].ejected
    BY <2>1, <2>2, <2>4, OutcomeFacts
  <2> QED
    BY <2>1, <2>5, ThresholdAssumption
<1>2. IInv /\ [Next]_vars => [EjectsOnStreak]_vars
  BY <1>1 DEF EjectsOnStreak
<1> QED
  BY <1>2, Invariance, PTL DEF Spec, StreakEjects

\* A healthy node that a step makes unhealthy, or drops, and nothing else.
LEMMA HealthStepOf ==
    ASSUME IInv, [Next]_vars, NEW n \in Ids, n \in registered, nodes[n].healthy
    PROVE  \/ n \notin targets
           \/ n \in registered' /\ nodes'[n].healthy
           \/ nodes'[n].failures = UnhealthyThreshold
<1>1. nodes[n] \in NodeStatus
  BY DEF IInv
<1>2. CASE Poll
  BY <1>2 DEF Poll, PollAll
<1>3. CASE Pass
  <2>1. [nodes[n] EXCEPT !.ejected = @ - 1].healthy = nodes[n].healthy
    BY <1>1 DEF NodeStatus
  <2> QED
    BY <1>3, <2>1 DEF Pass, Tick
<1>4. ASSUME NEW m \in Ids, Check(m)
      PROVE  \/ n \in registered' /\ nodes'[n].healthy
             \/ nodes'[n].failures = UnhealthyThreshold
  <2>1. n \in registered'
    BY <1>4 DEF Check, CheckOk, CheckFail, EndCheck
  <2>2. CASE CheckOk(m)
    BY <1>1, <2>1, <2>2 DEF CheckOk, NodeStatus, IInv
  <2>3. CASE CheckFail(m)
    <3> DEFINE streak == Saturate(nodes[n].failures, UnhealthyThreshold)
    <3>1. streak \in 0..UnhealthyThreshold
      BY <1>1, ThresholdAssumption DEF NodeStatus, Saturate
    <3>2. CASE m = n
      <4>1. /\ nodes'[n].failures = streak
            /\ streak < UnhealthyThreshold => nodes'[n].healthy
        BY <1>1, <2>3, <3>2 DEF CheckFail, NodeStatus, IInv
      <4> QED
        BY <2>1, <3>1, <4>1, ThresholdAssumption
    <3>3. CASE m # n
      BY <2>1, <2>3, <3>3 DEF CheckFail, IInv
    <3> QED
      BY <3>2, <3>3
  <2> QED
    BY <1>4, <2>2, <2>3 DEF Check
<1>5. ASSUME NEW m \in Ids, NEW ok \in BOOLEAN, Report(m, ok)
      PROVE  n \in registered' /\ nodes'[n].healthy
  BY <1>1, <1>5, OutcomeFacts DEF Report, RecordTrafficOutcome, IInv
<1>6. CASE Discover \/ UNCHANGED vars \/ \E m \in Ids : Pick(m) \/ Drop(m)
  BY <1>6 DEF Discover, DiscoveryPoll, vars, Pick, Drop
<1> QED
  BY <1>2, <1>3, <1>4, <1>5, <1>6 DEF Next

\* A backend leaves rotation only for a full streak of failed checks, ejected for a
\* full streak of failed calls, or because discovery dropped it.
THEOREM LeavingRotationIsEarned == Spec => OutOfRotationIsEarned
<1>1. ASSUME IInv, [Next]_vars, NEW n \in Ids, InRotation(n), ~InRotation(n)'
      PROVE  \/ probes'[n] = AllFailures(UnhealthyThreshold)
             \/ traffic'[n] = AllFailures(TrafficEjectThreshold) /\ nodes'[n].ejected > 0
             \/ n \notin targets
  <2>1. IInv'
    BY <1>1, NextIInv
  <2>2. CASE nodes'[n].ejected # 0
    <3>1. nodes'[n].ejected > 0
      BY <2>1, <2>2, ThresholdAssumption DEF IInv, NodeStatus
    <3>2. EjectedOnlyAfterStreak'
      BY <2>1, EjectedImpliesStreak, PTL
    <3> QED
      BY <3>1, <3>2 DEF EjectedOnlyAfterStreak
  <2>3. CASE nodes'[n].failures = UnhealthyThreshold
    <3>1. Tracks(probes'[n], nodes'[n].failures, UnhealthyThreshold)
      BY <2>1 DEF IInv, CountersTrackHistory
    <3> QED
      BY <2>3, <3>1, FullWindow, ThresholdAssumption
  <2> QED
    BY <1>1, <2>2, <2>3, HealthStepOf DEF InRotation
<1>2. IInv /\ [Next]_vars => [LeavesForCause]_vars
  BY <1>1 DEF LeavesForCause
<1> QED
  BY <1>2, Invariance, PTL DEF Spec, OutOfRotationIsEarned

----------------------------------------------------------------------------
(* The health checker implements the abstract circuit breaker *)

USE DEF Breaker!Modes

AllModes == [n \in Ids |-> Mode(n)]

LEMMA ModeFacts ==
    ASSUME NEW n \in Ids
    PROVE  AllModes[n] = Mode(n) /\ Mode(n) \in Breaker!Modes
  BY DEF AllModes, Mode

LEMMA InitBreaker == Init => Breaker!BreakerInit
<1> SUFFICES ASSUME Init PROVE Breaker!BreakerInit
  OBVIOUS
<1>1. \A n \in Ids : Mode(n) \in {"unknown", "closed"}
  BY ThresholdAssumption DEF Init, HealthInit, Mode, Fresh
<1> QED
  BY <1>1 DEF Init, Breaker!BreakerInit

LEMMA PollBreaker == ASSUME IInv, Poll PROVE Breaker!Membership(targets)
<1>1. ASSUME NEW n \in Ids
      PROVE  Mode(n)' = IF n \notin targets THEN "unknown"
                        ELSE IF Mode(n) = "unknown" THEN "closed" ELSE Mode(n)
  <2>1. registered' = targets
        /\ nodes'[n] = IF n \in targets THEN nodes[n] ELSE Fresh
    BY DEF Poll, PollAll
  <2>2. n \notin registered => nodes[n].ejected = 0 /\ nodes[n].trafficFailures = 0
    BY DEF IInv, NoRecordNoPast, Fresh
  <2>3. TrafficEjectThreshold # 0 /\ ~(0 > 0)
    BY ThresholdAssumption
  <2> QED
    BY <2>1, <2>2, <2>3 DEF Mode
<1>2. owed' = owed
  BY DEF Poll
<1> QED
  BY <1>1, <1>2 DEF Breaker!Membership

LEMMA PassBreaker ==
    ASSUME IInv, Pass
    PROVE  (\E S \in SUBSET Ids : Breaker!Expire(S)) \/ UNCHANGED Breaker!breakerVars
<1> DEFINE S == {n \in Ids : nodes[n].ejected = 1}
<1>1. UNCHANGED <<registered, owed>>
  BY DEF Pass, Tick
<1>2. ASSUME NEW n \in Ids
      PROVE  /\ n \in S => Mode(n) = "open" /\ Mode(n)' = "half_open"
             /\ n \notin S => Mode(n)' = Mode(n)
  <2>1. nodes[n] \in NodeStatus /\ nodes[n].ejected \in Nat
    BY ThresholdAssumption DEF IInv, NodeStatus
  <2>2. nodes'[n] = IF nodes[n].ejected > 0
                    THEN [nodes[n] EXCEPT !.ejected = @ - 1] ELSE nodes[n]
    BY DEF Pass, Tick
  <2>3. nodes'[n].trafficFailures = nodes[n].trafficFailures
        /\ nodes'[n].ejected = IF nodes[n].ejected > 0
                               THEN nodes[n].ejected - 1 ELSE nodes[n].ejected
    BY <2>1, <2>2 DEF NodeStatus
  <2>4. nodes[n].ejected > 0 => n \in registered
    BY DEF IInv, NoRecordNoPast, Fresh
  <2>5. nodes[n].ejected > 0 => nodes[n].trafficFailures = TrafficEjectThreshold
    BY DEF IInv, EjectedAtThreshold
  <2> QED
    BY <1>1, <2>1, <2>3, <2>4, <2>5 DEF Mode
<1> HIDE DEF S
<1>3. S \in SUBSET Ids
  BY DEF S
<1>4. CASE S = {}
  BY <1>1, <1>2, <1>4 DEF Breaker!breakerVars
<1>5. CASE S # {}
  BY <1>1, <1>2, <1>3, <1>5 DEF Breaker!Expire
<1> QED
  BY <1>3, <1>4, <1>5

\* Health checks are not the breaker's business.
LEMMA CheckBreaker ==
    ASSUME IInv, NEW m \in Ids, Check(m)
    PROVE  UNCHANGED Breaker!breakerVars
<1>1. UNCHANGED <<registered, owed>>
  BY DEF Check, CheckOk, CheckFail, EndCheck
<1>2. ASSUME NEW n \in Ids PROVE Mode(n)' = Mode(n)
  <2>1. nodes[n] \in NodeStatus
    BY DEF IInv
  <2>2. UNCHANGED <<nodes[n].trafficFailures, nodes[n].ejected>>
    <3>1. CASE CheckOk(m)
      BY <2>1, <3>1 DEF CheckOk, NodeStatus, IInv
    <3>2. CASE CheckFail(m)
      BY <2>1, <3>2 DEF CheckFail, NodeStatus, IInv
    <3> QED
      BY <3>1, <3>2 DEF Check
  <2> QED
    BY <1>1, <2>2 DEF Mode
<1> QED
  BY <1>1, <1>2 DEF Breaker!breakerVars

LEMMA PickBreaker ==
    ASSUME IInv, NEW m \in Ids, Pick(m)
    PROVE  Breaker!Pick(m)
<1>1. UNCHANGED <<registered, nodes>>
  BY DEF Pick
<1>2. Mode(m) \in {"closed", "half_open"}
  BY ThresholdAssumption DEF Pick, InRotation, Mode
<1>3. \A n \in Ids : Mode(n)' = Mode(n)
  BY <1>1 DEF Mode
<1> QED
  BY <1>2, <1>3 DEF Pick, Breaker!Pick

LEMMA DropBreaker ==
    ASSUME IInv, NEW m \in Ids, Drop(m)
    PROVE  Breaker!Drop(m)
<1>1. UNCHANGED <<registered, nodes>>
  BY DEF Drop
<1>2. \A n \in Ids : Mode(n)' = Mode(n)
  BY <1>1 DEF Mode
<1> QED
  BY <1>2 DEF Drop, Breaker!Drop

\* An outcome closes the breaker of its node, or is a failure of its breaker.
LEMMA ReportBreaker ==
    ASSUME IInv, NEW m \in Ids, NEW ok \in BOOLEAN, Report(m, ok)
    PROVE  IF ok THEN Breaker!Success(m) ELSE Breaker!Failure(m)
<1>1. /\ registered' = registered /\ owed[m] > 0
      /\ owed' = [owed EXCEPT ![m] = @ - 1]
  BY DEF Report
<1>2. \A n \in Ids \ {m} : Mode(n)' = Mode(n)
  BY <1>1 DEF Report, RecordTrafficOutcome, IInv, Mode
<1>3. nodes[m] \in NodeStatus /\ nodes[m].ejected \in Nat
      /\ nodes[m].trafficFailures \in 0..TrafficEjectThreshold
  BY ThresholdAssumption DEF IInv, NodeStatus
<1>4. AllModes' = [AllModes EXCEPT ![m] = Mode(m)']
  BY <1>2 DEF AllModes
<1>5. CASE m \notin registered
  <2>1. Mode(m) = "unknown" /\ Mode(m)' = "unknown"
    BY <1>1, <1>5 DEF Mode
  <2>2. AllModes[m] = "unknown" /\ AllModes' = [AllModes EXCEPT ![m] = "unknown"]
    BY <1>4, <2>1, ModeFacts
  <2>3. CASE ok
    <3>1. AllModes' = [AllModes EXCEPT ![m] = IF @ = "unknown" THEN @ ELSE "closed"]
      BY <2>2
    <3> QED
      BY <1>1, <2>3, <3>1 DEF AllModes, Breaker!Success
  <2>4. CASE ~ok
    <3>1. "unknown" \in Breaker!Modes
      OBVIOUS
    <3> QED
      BY <1>1, <2>2, <2>4, <3>1 DEF AllModes, Breaker!Failure
  <2> QED
    BY <2>3, <2>4
<1>6. CASE m \in registered
  <2>1. nodes'[m] = Outcome(nodes[m], ok)
    BY <1>6 DEF Report, RecordTrafficOutcome, IInv
  <2>2. CASE ok
    <3>1. Mode(m)' = "closed"
      <4>1. nodes'[m].trafficFailures = 0 /\ nodes'[m].ejected = 0
        BY <1>3, <2>1, <2>2, OutcomeFacts
      <4>2. TrafficEjectThreshold # 0 /\ ~(0 > 0)
        BY ThresholdAssumption
      <4> QED
        BY <1>1, <1>6, <4>1, <4>2 DEF Mode
    <3>2. AllModes[m] # "unknown"
      BY <1>6, ModeFacts DEF Mode
    <3>3. AllModes' = [AllModes EXCEPT ![m] = IF @ = "unknown" THEN @ ELSE "closed"]
      BY <1>4, <3>1, <3>2
    <3> QED
      BY <1>1, <2>2, <3>3 DEF AllModes, Breaker!Success
  <2>3. CASE ~ok
    <3> DEFINE streak == Saturate(nodes[m].trafficFailures, TrafficEjectThreshold)
    <3>1. /\ nodes'[m].trafficFailures = streak
          /\ nodes'[m].ejected = IF streak = TrafficEjectThreshold /\ nodes[m].ejected = 0
                                 THEN Cooldown ELSE nodes[m].ejected
      BY <1>3, <2>1, <2>3, OutcomeFacts
    <3>2. streak \in 0..TrafficEjectThreshold
          /\ (nodes[m].trafficFailures = TrafficEjectThreshold
                 => streak = TrafficEjectThreshold)
      BY <1>3, ThresholdAssumption DEF Saturate
    <3> HIDE DEF streak
    <3>3. /\ Mode(m) = "open" => Mode(m)' = "open"
          /\ Mode(m) = "closed" => Mode(m)' \in {"closed", "open"}
          /\ Mode(m) = "half_open" => Mode(m)' = "open"
          /\ Mode(m) \in {"open", "closed", "half_open"}
      BY <1>1, <1>3, <1>6, <3>1, <3>2, ThresholdAssumption DEF Mode
    <3>4. Mode(m)' \in Breaker!Modes
      BY <3>3
    <3>5. \/ AllModes[m] = "open" /\ Mode(m)' = AllModes[m]
          \/ AllModes[m] = "closed" /\ Mode(m)' \in {"closed", "open"}
          \/ AllModes[m] = "half_open" /\ Mode(m)' = "open"
      BY <3>3, ModeFacts
    <3> QED
      BY <1>1, <1>4, <2>3, <3>4, <3>5 DEF AllModes, Breaker!Failure
  <2> QED
    BY <2>2, <2>3
<1> QED
  BY <1>5, <1>6

LEMMA NextBreaker ==
    IInv /\ [Next]_vars => [Breaker!BreakerNext]_(Breaker!breakerVars)
<1> SUFFICES ASSUME IInv, [Next]_vars
             PROVE  Breaker!BreakerNext \/ UNCHANGED Breaker!breakerVars
  OBVIOUS
<1>1. CASE Poll
  <2>1. targets \in SUBSET Ids
    BY DEF IInv
  <2> QED
    BY <1>1, <2>1, PollBreaker DEF Breaker!BreakerNext
<1>2. CASE Pass
  BY <1>2, PassBreaker DEF Breaker!BreakerNext
<1>3. ASSUME NEW n \in Ids, Check(n) \/ Pick(n) \/ Drop(n)
      PROVE  Breaker!BreakerNext \/ UNCHANGED Breaker!breakerVars
  BY <1>3, CheckBreaker, PickBreaker, DropBreaker DEF Breaker!BreakerNext
<1>4. ASSUME NEW n \in Ids, NEW ok \in BOOLEAN, Report(n, ok)
      PROVE  Breaker!BreakerNext
  BY <1>4, ReportBreaker DEF Breaker!BreakerNext
<1>5. CASE Discover \/ UNCHANGED vars
  BY <1>5 DEF Discover, DiscoveryPoll, vars, Mode, Breaker!breakerVars
<1> QED
  BY <1>1, <1>2, <1>3, <1>4, <1>5 DEF Next

\* Whatever the thresholds and the interleaving of checks, polls, ejections and
\* late reports, the health checker takes only steps of a circuit breaker.
THEOREM ImplementsCircuitBreaker == Spec => ImplementsBreakerSteps
<1> QED
  BY Invariance, InitBreaker, NextBreaker, PTL
     DEF Spec, ImplementsBreakerSteps, Breaker!BreakerSteps
=============================================================================
