------------------------------ MODULE Lifecycle ------------------------------
(***************************************************************************)
(* The life of the pool router: main() of pool-router.mjs, the signal      *)
(* handlers, and the polls of discovery.mjs that run from start to stop.   *)
(*                                                                         *)
(* A poll asks tailscaled, is answered with the peers online then, and is  *)
(* applied when the answer has arrived; with execFile's timeout it is over *)
(* within PollTimeout.  Time is kept in ticks since each event.            *)
(***************************************************************************)
EXTENDS Naturals, FiniteSets

CONSTANTS Peers,         \* what tailscale may report: ids of tagged peers with an address
          Static,        \* ids of POOL_TARGETS
          Clients,
          None,
          PollInterval,  \* POOL_DISCOVERY_INTERVAL_MS
          PollTimeout,   \* of tailscaleStatus
          SettleTime,    \* between the first checks and listen
          Grace          \* between a signal and the forced exit

ASSUME LifecycleAssumption ==
    /\ {PollInterval, PollTimeout, SettleTime, Grace} \subseteq Nat
    /\ PollTimeout < PollInterval    \* 10 s and 30 s unless configured
    /\ Peers \cap Static = {}        \* ids start with ts: and with static:
    /\ None \notin Nat

VARIABLES phase,           \* of the process
          since,           \* ticks the phase has lasted
          exitCode,
          online,          \* the peers that are online
          polls,           \* the polls under way, known by their age
          timer,           \* ticks since discovery's timer last fired
          targets,
          discoveryPeers,  \* the gauge
          applied,         \* history: the age of the poll applied last
          conn             \* the connection of each client

vars == <<phase, since, exitCode, online, polls, timer, targets, discoveryPeers, applied, conn>>

discovery == <<polls, timer, targets, discoveryPeers, applied>>
process == <<phase, since, exitCode>>

Started == [age |-> 0, seen |-> None]
Old == PollTimeout + PollInterval   \* older than any poll under way

\* start() has seeded the static targets and asked tailscale.
Init ==
    /\ phase = "discovering" /\ since = 0 /\ exitCode = None
    /\ online \in SUBSET Peers
    /\ polls = {Started}
    /\ timer = 0
    /\ targets = Static
    /\ discoveryPeers = 0
    /\ applied = Old
    /\ conn = [c \in Clients |-> "none"]

Running == phase # "exited"
TimersRun == phase \in {"settling", "listening"}

----------------------------------------------------------------------------
(* Discovery *)

\* tailscaled answers.
Read(p) ==
    /\ Running
    /\ p.seen = None
    /\ polls' = (polls \ {p}) \cup {[p EXCEPT !.seen = online]}
    /\ UNCHANGED <<process, online, timer, targets, discoveryPeers, applied, conn>>

\* The awaited first poll is over, with or without an answer: the timers start, and
\* the first health checks.
Proceed ==
    IF phase = "discovering"
    THEN phase' = "settling" /\ since' = 0 /\ timer' = 0
    ELSE UNCHANGED <<phase, since, timer>>

\* Mutant: a peer that is gone is noticed when another appears.
ChangedByArrival(next) == ~(next \subseteq targets)

Changed(next) == next # targets

\* The listener of the change event counts the discovered targets.
PeersIn(next) == Cardinality(next \cap Peers)
SetDiscoveryPeers(count) == discoveryPeers' = count

\* #poll: the list is replaced; the gauge is told when the ids have changed.
Apply(p) ==
    /\ Running
    /\ p.seen # None
    /\ polls' = polls \ {p}
    /\ applied' = p.age
    /\ LET next == Static \cup p.seen
       IN /\ targets' = next
          /\ IF Changed(next) THEN SetDiscoveryPeers(PeersIn(next)) ELSE UNCHANGED discoveryPeers
    /\ Proceed
    /\ UNCHANGED <<exitCode, online, conn>>

\* Mutant: the first poll must succeed, or main() fails.
PollFailsFatally(p) ==
    /\ Running
    /\ polls' = polls \ {p}
    /\ IF phase = "discovering"
       THEN phase' = "exited" /\ exitCode' = 1 /\ UNCHANGED <<since, timer>>
       ELSE UNCHANGED <<process, timer>>
    /\ UNCHANGED <<online, targets, discoveryPeers, applied, conn>>

\* No tailscale, no answer in time, or not JSON: the list stays as it is.
PollFails(p) ==
    /\ Running
    /\ polls' = polls \ {p}
    /\ Proceed
    /\ UNCHANGED <<exitCode, online, targets, discoveryPeers, applied, conn>>

TimerFires ==
    /\ TimersRun
    /\ timer = PollInterval
    /\ polls' = polls \cup {Started}
    /\ timer' = 0
    /\ UNCHANGED <<process, online, targets, discoveryPeers, applied, conn>>

----------------------------------------------------------------------------
(* The process *)

Listen ==
    /\ phase = "settling" /\ since = SettleTime
    /\ phase' = "listening" /\ since' = 0
    /\ UNCHANGED <<exitCode, online, discovery, conn>>

\* The process ends, and with it every connection.
Exit(code) ==
    /\ phase' = "exited" /\ exitCode' = code
    /\ conn' = [c \in Clients |-> "none"]
    /\ UNCHANGED <<since, online, discovery>>

\* listen() throws, which main().catch ends with, or the server emits an error, to
\* which nothing listens.
ListenFails == phase = "settling" /\ since = SettleTime /\ Exit(1)

\* The handler of a request rejects: nothing handles that, and node ends the process.
Crash == (\E c \in Clients : conn[c] = "busy") /\ Exit(1)

\* Mutant: every signal sets the one grace timer anew.
SignalRestartsGrace ==
    \/ phase \in {"discovering", "settling"} /\ Exit(0)
    \/ /\ phase \in {"listening", "draining"}
       /\ phase' = "draining" /\ since' = 0
       /\ conn' = [c \in Clients |-> IF conn[c] = "idle" THEN "none" ELSE conn[c]]
       /\ UNCHANGED <<exitCode, online, discovery>>

\* SIGTERM or SIGINT: timers stop and idle connections close; before listen the
\* server is closed at once.  A second signal sets a timer of its own, later than
\* that of the first, which still runs.
Signal ==
    \/ phase \in {"discovering", "settling"} /\ Exit(0)
    \/ /\ phase \in {"listening", "draining"}
       /\ phase' = "draining"
       /\ since' = IF phase = "listening" THEN 0 ELSE since
       /\ conn' = [c \in Clients |-> IF conn[c] = "idle" THEN "none" ELSE conn[c]]
       /\ UNCHANGED <<exitCode, online, discovery>>

\* server.close() calls back when every connection is closed.
Closed == \A c \in Clients : conn[c] = "none"

Drained == phase = "draining" /\ Closed /\ Exit(0)
ForcedExit == phase = "draining" /\ since = Grace /\ Exit(1)

----------------------------------------------------------------------------
(* The world *)

\* A request: on a connection of its own while the router listens, or on one that
\* is kept alive.
Request(c) ==
    /\ \/ phase = "listening" /\ conn[c] \in {"none", "idle"}
       \/ phase = "draining" /\ conn[c] = "idle"
    /\ conn' = [conn EXCEPT ![c] = "busy"]
    /\ UNCHANGED <<process, online, discovery>>

\* The answer, or the idle connection's end.
Answered(c) ==
    /\ Running
    /\ \/ conn[c] = "busy" /\ \E rest \in {"none", "idle"} : conn' = [conn EXCEPT ![c] = rest]
       \/ conn[c] = "idle" /\ conn' = [conn EXCEPT ![c] = "none"]
    /\ UNCHANGED <<process, online, discovery>>

PeersChange ==
    /\ Running
    /\ online' \in SUBSET Peers
    /\ UNCHANGED <<process, discovery, conn>>

\* Mutant: tailscale is given any time.
InTimeAlways(p) == TRUE

\* execFile kills a poll at its timeout.
InTime(p) == p.age < PollTimeout

Least(a, b) == IF a < b THEN a ELSE b

Tick ==
    /\ Running
    /\ \A p \in polls : InTime(p)
    /\ TimersRun => timer < PollInterval
    /\ phase = "settling" => since < SettleTime
    /\ phase = "draining" => since < Grace
    /\ polls' = {[p EXCEPT !.age = Least(@ + 1, Old)] : p \in polls}
    /\ timer' = IF TimersRun THEN timer + 1 ELSE timer
    /\ since' = IF phase \in {"settling", "draining"} THEN since + 1 ELSE since
    /\ applied' = Least(applied + 1, Old)
    /\ UNCHANGED <<phase, exitCode, online, targets, discoveryPeers, conn>>

PollStep == \E p \in polls : Read(p) \/ Apply(p) \/ PollFails(p)

Next ==
    \/ PollStep
    \/ TimerFires
    \/ Listen \/ ListenFails
    \/ Signal \/ Drained \/ ForcedExit \/ Crash
    \/ \E c \in Clients : Request(c) \/ Answered(c)
    \/ PeersChange
    \/ Tick

Spec == Init /\ [][Next]_vars

PollEnds == \E p \in polls : Apply(p) \/ PollFails(p)

\* Time passes, polls end, and timers fire; tailscaled, clients and peers do as they please.
Fairness ==
    /\ WF_vars(Tick) /\ WF_vars(PollEnds) /\ WF_vars(TimerFires)
    /\ WF_vars(Listen) /\ WF_vars(ForcedExit)

FairSpec == Spec /\ Fairness

----------------------------------------------------------------------------
(* Properties *)

\* A poll under way began after the one that was applied last, so that no older
\* answer will replace a newer one.
PollsInOrder == \A p \in polls : p.age < applied

\* Whatever tailscale does, the router gets as far as listen(), unless it is told to
\* stop before.
StartsAnyway == <>((phase = "settling" /\ since = SettleTime) \/ exitCode = 0)

\* Whatever the callers do on connections they keep open, and however often it is told
\* to stop, a router that was told to ends.
ShutdownEnds == (phase = "draining") ~> (phase = "exited")

\* Once peers stop changing, and as long as polls succeed now and then, the target
\* list and the gauge come to be those of the peers online.
Succeeding == []<><<\E p \in polls : Apply(p)>>_vars
DiscoveryConverges ==
    Succeeding /\ <>[][UNCHANGED online]_vars =>
        <>[](targets = Static \cup online /\ discoveryPeers = Cardinality(online))
=============================================================================
