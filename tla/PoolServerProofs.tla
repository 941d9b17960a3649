-------------------------- MODULE PoolServerProofs --------------------------
(***************************************************************************)
(* The server of the pool.  For every set of backends, models and callers, *)
(* and every TTL and Timeout: /info tells no model that was served too     *)
(* long ago.  For every set of peers, and all times with PollTimeout <     *)
(* PollInterval: discovery polls are applied in the order they began.      *)
(***************************************************************************)
EXTENDS InfoCache, Lifecycle, TLAPS

----------------------------------------------------------------------------
(* GET /info *)

Asks == [phase : {"idle", "asked", "answered"}, node : Backends \cup {NoModel},
         age : Nat, model : Models \cup {NoModel}]

InfoTypeInv ==
    /\ healthy \subseteq Backends
    /\ serves \in [Backends -> Models]
    /\ gone \in [Models -> Nat]
    /\ infoCache \in Models \cup {NoModel}
    /\ infoAge \in 0..TTL
    /\ ask \in [Callers -> Asks]
    /\ told \in [Callers -> [status : Nat, cached : BOOLEAN, lag : Nat]]

\* A call under way has lasted no longer than Timeout, was made of a backend, and
\* what it was answered was served since it began.
AsksInv ==
    \A c \in Callers : ask[c].phase # "idle" =>
        /\ ask[c].age <= Timeout
        /\ ask[c].node \in Backends
        /\ ask[c].phase = "answered" => ask[c].model \in Models /\ gone[ask[c].model] <= ask[c].age

\* While the cache may answer, its model was served since the request that filled it.
CacheInv == Fresh => gone[infoCache] <= infoAge

\* What a backend serves was last served now.
ServedNow == \A b \in Backends : gone[serves[b]] = 0

InfoInv == InfoTypeInv /\ AsksInv /\ CacheInv /\ ServedNow /\ InfoFresh

\* Putting another record in the place of a client's keeps AsksInv when it is right.
LEMMA AskReplaced ==
    ASSUME InfoInv, UNCHANGED gone, NEW c \in Callers, NEW q \in Asks,
           ask' = [ask EXCEPT ![c] = q],
           q.phase # "idle" =>
             /\ q.age <= Timeout
             /\ q.node \in Backends
             /\ q.phase = "answered" => q.model \in Models /\ gone[q.model] <= q.age
    PROVE  ask' \in [Callers -> Asks] /\ AsksInv'
<1>1. ask \in [Callers -> Asks] /\ AsksInv
  BY DEF InfoInv, InfoTypeInv
<1>2. /\ ask'[c] = q
      /\ \A d \in Callers : d # c => ask'[d] = ask[d]
      /\ ask' \in [Callers -> Asks]
  BY <1>1
<1> QED
  BY <1>1, <1>2 DEF AsksInv

\* A client that does not ask.
LEMMA IdleAsk == Idle \in Asks /\ Idle.phase = "idle"
BY DEF Idle, Ask, Asks

\* A call under way, a tick later.
LEMMA OlderAsk ==
    ASSUME NEW q \in Asks
    PROVE  LET older == [q EXCEPT !.age = q.age + 1]
           IN  /\ older \in Asks /\ older.age = q.age + 1
               /\ older.phase = q.phase /\ older.node = q.node /\ older.model = q.model
BY DEF Asks

\* The cache is empty at the start.
LEMMA InfoStarts == InfoInit => InfoInv
<1> SUFFICES ASSUME InfoInit PROVE InfoInv
  OBVIOUS
<1>1. /\ serves \in [Backends -> Models]
      /\ gone = [m \in Models |-> IF \E b \in Backends : serves[b] = m THEN 0 ELSE TTL + Timeout]
  BY DEF InfoInit, Horizon
<1>2. TTL \in Nat /\ Timeout \in Nat
  BY InfoAssumption
<1>3. gone \in [Models -> Nat]
  BY <1>1, <1>2
<1>4. ServedNow
  BY <1>1 DEF ServedNow
<1>5. ask \in [Callers -> Asks] /\ AsksInv
  BY IdleAsk DEF AsksInv, InfoInit
<1>6. told \in [Callers -> [status : Nat, cached : BOOLEAN, lag : Nat]] /\ InfoFresh
  BY DEF Told, InfoFresh, InfoInit
<1>7. healthy \subseteq Backends /\ infoCache \in Models \cup {NoModel} /\ infoAge \in 0..TTL /\ ~Fresh
  BY <1>2 DEF InfoInit, Fresh
<1> QED
  BY <1>1, <1>3, <1>4, <1>5, <1>6, <1>7 DEF InfoInv, InfoTypeInv, CacheInv

\* One step per action.
LEMMA InfoGoesOn == InfoInv /\ [InfoNext]_infoVars => InfoInv'
<1> SUFFICES ASSUME InfoInv, [InfoNext]_infoVars PROVE InfoInv'
  OBVIOUS
<1> USE InfoAssumption
<1>1. ASSUME NEW c \in Callers, Hit(c) PROVE InfoInv'
  <2>1. infoCache \in Models /\ gone[infoCache] \in Nat /\ gone[infoCache] < TTL
    BY <1>1 DEF Hit, Fresh, InfoInv, InfoTypeInv, CacheInv
  <2>2. told' \in [Callers -> [status : Nat, cached : BOOLEAN, lag : Nat]] /\ InfoFresh'
    BY <1>1, <2>1 DEF Hit, Told, InfoInv, InfoTypeInv, InfoFresh
  <2> QED
    BY <1>1, <2>2 DEF Hit, InfoInv, InfoTypeInv, AsksInv, CacheInv, ServedNow, Fresh
<1>2. ASSUME NEW c \in Callers, Miss(c) PROVE InfoInv'
  <2>1. CASE UNCHANGED ask /\ told' = [told EXCEPT ![c] = Told(503, FALSE, 0)]
    BY <1>2, <2>1 DEF Miss, Told, InfoInv, InfoTypeInv, AsksInv, CacheInv, ServedNow, Fresh, InfoFresh
  <2>2. ASSUME NEW b \in healthy, UNCHANGED told,
               ask' = [ask EXCEPT ![c] = Ask("asked", b, 0, NoModel)]
        PROVE  InfoInv'
    <3> DEFINE new == Ask("asked", b, 0, NoModel)
    <3>1. new \in Asks /\ b \in Backends /\ new.node = b /\ new.age = 0 /\ new.phase = "asked"
      BY <2>2 DEF Ask, Asks, InfoInv, InfoTypeInv
    <3> HIDE DEF new
    <3>2. new.age <= Timeout
      BY <3>1
    <3>3. ask' = [ask EXCEPT ![c] = new]
      BY <2>2 DEF new
    <3>4. ask' \in [Callers -> Asks] /\ AsksInv'
      BY <1>2, <3>1, <3>2, <3>3, AskReplaced DEF Miss
    <3> QED
      BY <1>2, <2>2, <3>4 DEF Miss, InfoInv, InfoTypeInv, CacheInv, ServedNow, Fresh, InfoFresh
  <2> QED
    BY <1>2, <2>1, <2>2 DEF Miss
<1>3. ASSUME NEW c \in Callers, Answer(c) PROVE InfoInv'
  <2>1. serves[ask[c].node] \in Models /\ gone[serves[ask[c].node]] = 0
    BY <1>3 DEF Answer, InfoInv, InfoTypeInv, AsksInv, ServedNow
  <2> DEFINE new == Ask("answered", ask[c].node, ask[c].age, serves[ask[c].node])
  <2>2. ask[c] \in Asks /\ ask[c].age <= Timeout /\ ask[c].node \in Backends
    BY <1>3 DEF Answer, InfoInv, InfoTypeInv, AsksInv
  <2>3. new \in Asks /\ new.age = ask[c].age /\ new.node = ask[c].node
        /\ new.model = serves[ask[c].node] /\ gone[new.model] <= new.age
    BY <2>1, <2>2 DEF Ask, Asks
  <2>4. ask' = [ask EXCEPT ![c] = new] /\ UNCHANGED gone
    BY <1>3 DEF Answer, InfoInv, InfoTypeInv
  <2> HIDE DEF new
  <2>5. ask' \in [Callers -> Asks] /\ AsksInv'
    <3>1. new.age <= Timeout /\ new.node \in Backends /\ new.model \in Models
      BY <2>1, <2>2, <2>3
    <3> QED
      BY <2>3, <2>4, <3>1, AskReplaced
  <2> QED
    BY <1>3, <2>5 DEF Answer, InfoInv, InfoTypeInv, CacheInv, ServedNow, Fresh, InfoFresh
<1>4. ASSUME NEW c \in Callers, Settle(c) PROVE InfoInv'
  <2>2. ask' \in [Callers -> Asks] /\ AsksInv'
    BY <1>4, IdleAsk, AskReplaced DEF Settle, Arrive, Fail
  <2>3. CASE Arrive(c)
    <3>1. /\ ask[c].model \in Models /\ gone[ask[c].model] \in Nat
          /\ ask[c].age \in Nat /\ ask[c].age <= Timeout /\ gone[ask[c].model] <= ask[c].age
      BY <2>3 DEF Arrive, InfoInv, InfoTypeInv, AsksInv, Asks
    <3>2. infoAge' \in 0..TTL /\ CacheInv'
      BY <2>3, <3>1 DEF Arrive, Stamp, Capped, Fresh, CacheInv
    <3>3. told' \in [Callers -> [status : Nat, cached : BOOLEAN, lag : Nat]] /\ InfoFresh'
      BY <2>3, <3>1 DEF Arrive, Told, InfoInv, InfoTypeInv, InfoFresh
    <3> QED
      BY <2>2, <2>3, <3>1, <3>2, <3>3 DEF Arrive, InfoInv, InfoTypeInv, ServedNow
  <2>4. CASE Fail(c)
    BY <2>2, <2>4 DEF Fail, Told, InfoInv, InfoTypeInv, CacheInv, ServedNow, Fresh, InfoFresh
  <2> QED
    BY <1>4, <2>3, <2>4 DEF Settle
<1>5. ASSUME NEW b \in Backends, NEW m \in Models, Deploy(b, m) PROVE InfoInv'
  BY <1>5 DEF Deploy, InfoInv, InfoTypeInv, Asks, AsksInv, CacheInv, ServedNow, Fresh, InfoFresh
<1>6. CASE HealthChanges
  BY <1>6 DEF HealthChanges, InfoInv, InfoTypeInv, AsksInv, CacheInv, ServedNow, Fresh, InfoFresh
<1>7. CASE InfoTick
  <2>1. /\ gone' \in [Models -> Nat]
        /\ \A m \in Models : gone'[m] <= gone[m] + 1
        /\ ServedNow'
    BY <1>7 DEF InfoTick, InfoInv, InfoTypeInv, ServedNow, Capped, Horizon
  <2>2. infoAge' \in 0..TTL /\ CacheInv'
    BY <1>7, <2>1 DEF InfoTick, InfoInv, InfoTypeInv, CacheInv, Fresh, Capped
  <2>3. \A c \in Callers : IF ask[c].phase = "idle" THEN ask'[c] = Idle
                           ELSE /\ ask[c].age < Timeout /\ ask[c] \in Asks
                                /\ ask'[c] = [ask[c] EXCEPT !.age = ask[c].age + 1]
    BY <1>7 DEF InfoTick, InfoInv, InfoTypeInv
  <2>4. ask' \in [Callers -> Asks] /\ AsksInv'
    <3>1. ASSUME NEW c \in Callers PROVE ask'[c] \in Asks
      <4>1. CASE ask[c].phase = "idle"
        BY <2>3, <4>1, IdleAsk
      <4>2. CASE ask[c].phase # "idle"
        BY <2>3, <4>2, OlderAsk
      <4> QED
        BY <4>1, <4>2
    <3>2. ask' \in [Callers -> Asks]
      BY <1>7, <3>1 DEF InfoTick
    <3>3. ASSUME NEW c \in Callers, ask'[c].phase # "idle"
          PROVE  /\ ask'[c].age <= Timeout
                 /\ ask'[c].node \in Backends
                 /\ ask'[c].phase = "answered" =>
                      ask'[c].model \in Models /\ gone'[ask'[c].model] <= ask'[c].age
      <4>1. ask[c].phase # "idle"
        BY <2>3, <3>3, IdleAsk
      <4>2. /\ ask[c] \in Asks /\ ask[c].age \in Nat /\ ask[c].age < Timeout
            /\ ask'[c].age = ask[c].age + 1 /\ ask'[c].phase = ask[c].phase
            /\ ask'[c].node = ask[c].node /\ ask'[c].model = ask[c].model
        <5>1. /\ ask[c] \in Asks /\ ask[c].age < Timeout
              /\ ask'[c] = [ask[c] EXCEPT !.age = ask[c].age + 1]
          BY <2>3, <4>1
        <5>2. ask[c].age \in Nat
          BY <5>1 DEF Asks
        <5> QED
          BY <5>1, <5>2 DEF Asks
      <4>3. /\ ask[c].node \in Backends
            /\ ask[c].phase = "answered" => ask[c].model \in Models /\ gone[ask[c].model] <= ask[c].age
        BY <4>1 DEF InfoInv, AsksInv
      <4> QED
        BY <2>1, <4>2, <4>3 DEF InfoInv, InfoTypeInv
    <3> QED
      BY <3>2, <3>3 DEF AsksInv
  <2> QED
    BY <1>7, <2>1, <2>2, <2>4 DEF InfoTick, InfoInv, InfoTypeInv, InfoFresh
<1>8. CASE UNCHANGED infoVars
  BY <1>8 DEF infoVars, InfoInv, InfoTypeInv, AsksInv, CacheInv, ServedNow, Fresh, InfoFresh
<1> QED
  BY <1>1, <1>2, <1>3, <1>4, <1>5, <1>6, <1>7, <1>8 DEF InfoNext

\* GET /info of pool-router.mjs, however its calls overlap: a model told from the
\* cache was served less than TTL ago, one just asked for since the request came.
THEOREM InfoIsFresh == InfoSpec => []InfoFresh
<1>1. InfoInv => InfoFresh
  BY DEF InfoInv
<1> QED
  BY <1>1, InfoStarts, InfoGoesOn, PTL DEF InfoSpec

----------------------------------------------------------------------------
(* Discovery polls *)

Polls == [age : Nat, seen : {None} \cup SUBSET Peers]

TimesOK ==
    /\ polls \subseteq Polls
    /\ online \subseteq Peers
    /\ timer \in Nat /\ applied \in Nat /\ since \in Nat

\* At most one poll is under way: while the timers run it began when discovery's
\* last fired, and it is over before that fires again.
OnePoll ==
    /\ \A p, q \in polls : p = q
    /\ \A p \in polls : p.age <= PollTimeout /\ (TimersRun => p.age = timer)
    /\ TimersRun => timer <= applied /\ timer <= PollInterval

PollInv == TimesOK /\ OnePoll /\ PollsInOrder

----------------------------------------------------------------------------

\* The first poll is under way at the start.
LEMMA PollInit == Init => PollInv
BY LifecycleAssumption
   DEF Init, PollInv, TimesOK, OnePoll, PollsInOrder, Polls, Started, Old, TimersRun

\* A poll that ends leaves none under way, whether it is the first one or not.
LEMMA PollOver ==
    ASSUME PollInv, NEW p \in polls, Running,
           polls' = polls \ {p}, applied' \in {applied, p.age}, Proceed, UNCHANGED online
    PROVE  PollInv'
<1>1. p.age \in Nat /\ timer \in Nat /\ applied \in Nat /\ since \in Nat
      /\ PollInterval \in Nat /\ PollTimeout \in Nat
  BY LifecycleAssumption DEF PollInv, TimesOK, Polls
<1>2. polls' = {}
  BY DEF PollInv, OnePoll
<1>3. applied' \in Nat /\ timer' \in Nat /\ since' \in Nat /\ online' \subseteq Peers
  BY <1>1 DEF Proceed, PollInv, TimesOK
<1>4. TimersRun' => timer' <= applied' /\ timer' <= PollInterval
  <2>1. CASE phase = "discovering"
    BY <1>1, <1>3, <2>1 DEF Proceed
  <2>2. CASE phase # "discovering"
    BY <1>1, <2>2 DEF Proceed, TimersRun, PollInv, OnePoll
  <2> QED
    BY <2>1, <2>2
<1> QED
  BY <1>2, <1>3, <1>4 DEF PollInv, TimesOK, OnePoll, PollsInOrder

\* One step per action; time and the timer are what may start a poll too many.
LEMMA PollNext == PollInv /\ [Next]_vars => PollInv'
<1> SUFFICES ASSUME PollInv, [Next]_vars PROVE PollInv'
  OBVIOUS
<1> USE LifecycleAssumption
<1>1. ASSUME NEW p \in polls, Read(p) PROVE PollInv'
  <2>1. p \in Polls /\ polls = {p}
    BY <1>1 DEF PollInv, OnePoll, TimesOK
  <2> DEFINE q == [p EXCEPT !.seen = online]
  <2>2. polls' = {q} /\ q.age = p.age
    BY <1>1, <2>1 DEF Read, Polls
  <2> QED
    BY <1>1, <2>1, <2>2 DEF Read, process, PollInv, OnePoll, TimesOK, PollsInOrder, TimersRun, Polls
<1>2. ASSUME NEW p \in polls, Apply(p) PROVE PollInv'
  BY <1>2, PollOver DEF Apply
<1>3. ASSUME NEW p \in polls, PollFails(p) PROVE PollInv'
  BY <1>3, PollOver DEF PollFails
<1>4. CASE TimerFires
  <2>1. polls = {}
    BY <1>4 DEF TimerFires, PollInv, OnePoll, TimesOK, Polls, TimersRun
  <2>2. polls' = {Started} /\ timer' = 0 /\ applied' = applied /\ since' = since /\ phase' = phase
      /\ online' = online
    BY <1>4, <2>1 DEF TimerFires, process
  <2>3. applied > 0
    BY <1>4 DEF TimerFires, PollInv, OnePoll, TimesOK
  <2> QED
    BY <1>4, <2>2, <2>3 DEF PollInv, OnePoll, TimesOK, PollsInOrder, TimersRun, Started, Polls
<1>5. CASE Tick
  <2>1. PICK old \in SUBSET Polls : old = polls
    BY DEF PollInv, TimesOK
  <2>2. ASSUME NEW q \in polls'
        PROVE  \E p \in polls : /\ p.age \in Nat /\ p.age < PollTimeout
                                /\ q = [p EXCEPT !.age = Least(@ + 1, Old)]
                                /\ q.age = p.age + 1
    BY <1>5 DEF Tick, InTime, PollInv, TimesOK, Polls, Least, Old
  <2>3. /\ applied' = Least(applied + 1, Old) /\ phase' = phase
        /\ timer' = IF TimersRun THEN timer + 1 ELSE timer
        /\ since' \in Nat /\ applied' \in Nat /\ timer' \in Nat /\ online' \subseteq Peers
        /\ TimersRun => timer < PollInterval
    BY <1>5 DEF Tick, Least, Old, PollInv, TimesOK
  <2>4. polls' \subseteq Polls
    BY <2>2 DEF Polls, PollInv, TimesOK
  <2>5. PollsInOrder'
    BY <2>2, <2>3 DEF PollsInOrder, PollInv, TimesOK, Least, Old
  <2>6. OnePoll'
    <3>1. \A p, q \in polls' : p = q
      BY <2>2 DEF PollInv, OnePoll
    <3>2. \A p \in polls' : p.age <= PollTimeout /\ (TimersRun' => p.age = timer')
      BY <2>2, <2>3 DEF PollInv, OnePoll, TimersRun
    <3>3. TimersRun' => timer' <= applied' /\ timer' <= PollInterval
      BY <2>3 DEF PollInv, OnePoll, TimersRun, TimesOK, Least, Old
    <3> QED
      BY <3>1, <3>2, <3>3 DEF OnePoll
  <2> QED
    BY <2>3, <2>4, <2>5, <2>6 DEF PollInv, TimesOK
<1>6. CASE Listen
  BY <1>6 DEF Listen, discovery, PollInv, OnePoll, TimesOK, PollsInOrder, TimersRun
<1>7. CASE Signal \/ Drained \/ ForcedExit \/ ListenFails \/ Crash
  BY <1>7 DEF Signal, Drained, ForcedExit, ListenFails, Crash, Exit, discovery, PollInv,
     OnePoll, TimesOK, PollsInOrder, TimersRun
<1>8. ASSUME NEW c \in Clients, Request(c) \/ Answered(c) PROVE PollInv'
  BY <1>8 DEF Request, Answered, process, discovery, PollInv, OnePoll, TimesOK, PollsInOrder, TimersRun
<1>9. CASE PeersChange \/ UNCHANGED vars
  BY <1>9 DEF PeersChange, vars, process, discovery, PollInv, OnePoll, TimesOK, PollsInOrder, TimersRun
<1> QED
  BY <1>1, <1>2, <1>3, <1>4, <1>5, <1>6, <1>7, <1>8, <1>9 DEF Next, PollStep

\* With an interval above the timeout of tailscale status (discovery.mjs #poll), no
\* poll is applied after one that began later.
THEOREM PollsAppliedInOrder == Spec => []PollsInOrder
<1>1. PollInv => PollsInOrder
  BY DEF PollInv
<1> QED
  BY <1>1, PollInit, PollNext, PTL DEF Spec
=============================================================================
