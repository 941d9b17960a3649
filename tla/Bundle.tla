-------------------------------- MODULE Bundle --------------------------------
(***************************************************************************)
(* POST /embed/bundle (handleEmbedBundle, embedShardWithFailover): the     *)
(* inputs of a bundle are split over the healthy nodes by latency, every   *)
(* shard is embedded with failover, all at the same time, and the vectors  *)
(* are put back in input order.  The first shard to fail fails the bundle, *)
(* while the other shards go on for nobody.                                *)
(*                                                                         *)
(* Input i of a bundle is i, and so is the vector a backend computes for   *)
(* it; 0 is a hole.                                                        *)
(***************************************************************************)
EXTENDS PoolRouter, Shards

CONSTANTS Bundles,   \* bound: bundles under way at a time
          MaxInputs, \* bound: inputs of one bundle
          Latencies, \* avgLatencyMs a node may have, a set of naturals
          MaxHops,   \* POOL_BATCH_MAX_HOPS
          Answers    \* the ways a call may end, a subset of Replies

ASSUME BundleAssumption ==
    /\ IsFiniteSet(Ids) /\ IsFiniteSet(Bundles)
    /\ MaxInputs \in Nat \ {0} /\ MaxHops \in Nat \ {0}
    /\ Latencies \subseteq Nat
    /\ Answers \subseteq Replies

VARIABLE bundle   \* for each slot, the bundle it holds

vars == <<routerVars, bundle>>

\* A bundle, and one of its shards.  out are the vectors the client will get; tried
\* and hops are history: the nodes that failed, and how many may.
BundleOf(phase, shards, out, hops) ==
    [phase |-> phase, shards |-> shards, out |-> out, hops |-> hops]
ShardOf(slice, candidates, tried, outcome) ==
    [start |-> slice.start, end |-> slice.end,
     candidates |-> candidates, tried |-> tried, outcome |-> outcome]

Idle == BundleOf("idle", <<>>, <<>>, 0)
Refused == BundleOf("refused", <<>>, <<>>, 0)

Init ==
    /\ HealthInit
    /\ inflight = [n \in Ids |-> 0]
    /\ bundle = [b \in Bundles |-> Idle]

----------------------------------------------------------------------------
(* A bundle *)

\* Mutant: the node of the shard is a candidate twice.
CandidatesTwice(order, node) ==
    LET ordered == <<node>> \o order
    IN  SubSeq(ordered, 1, Least(Len(ordered), MaxHops))

\* Candidates of a shard: its own node first, then the others by latency.
Candidates(order, node) ==
    LET Own(n) == n = node
        ordered == ToFront(order, SelectInSeq(order, Own))
    IN  SubSeq(ordered, 1, Least(Len(ordered), MaxHops))

\* A bundle arrives: it is refused without a healthy node, split and sent
\* otherwise, all in one turn of the event loop.
Arrive(b) ==
    /\ bundle[b].phase = "idle"
    /\ UNCHANGED healthVars
    /\ \/ /\ HealthyNodes = {}
          /\ bundle' = [bundle EXCEPT ![b] = Refused]
          /\ UNCHANGED inflight
       \/ /\ HealthyNodes # {}
          /\ \E inputs \in 1..MaxInputs, order \in ByLatency,
                latency \in [HealthyNodes -> Latencies] :
               /\ Sorted(order, latency)
               /\ LET split == Split(inputs, order, latency)
                      New(slice) ==
                         ShardOf(slice, Candidates(order, slice.node), {}, "pending")
                  IN /\ bundle' = [bundle EXCEPT ![b] =
                           BundleOf("embedding", [s \in DOMAIN split |-> New(split[s])],
                                    [i \in 1..inputs |-> 0], Least(Len(order), MaxHops))]
                     /\ inflight' = [n \in Ids |-> inflight[n] +
                           Cardinality({s \in DOMAIN split : split[s].node = n})]

\* The shards of b that still wait for a node.
Sending(b) == {s \in DOMAIN bundle[b].shards : bundle[b].shards[s].candidates # <<>>}

\* Mutants of the phase once a shard is served: the first shard answers the
\* bundle; the last one does even when another failed it.
PhaseOnFirst(b, s) == IF bundle[b].phase = "embedding" THEN "ok" ELSE bundle[b].phase
PhaseAnsweredTwice(b, s) == IF Sending(b) = {s} THEN "ok" ELSE bundle[b].phase
\* The phase of a bundle when its shard s is served: Promise.all answers it with
\* the last shard, unless one has failed.
PhaseServed(b, s) ==
    IF bundle[b].phase = "embedding" /\ Sending(b) = {s} THEN "ok" ELSE bundle[b].phase

\* The inputs of a shard, inputs.slice(start, end) in the code.
ShardInputs(shard) == [j \in 1..(shard.end + 1 - shard.start) |-> shard.start + j - 1]

\* A shard's call ends well: its vectors, one per input, are copied into out from
\* where the shard starts.
ShardServed(b, s) ==
    LET old == bundle[b]
        shard == old.shards[s]
        vectors == ShardInputs(shard)
        InShard(i) == shard.start <= i /\ i <= shard.end
    IN  /\ bundle' = [bundle EXCEPT ![b] =
             BundleOf(PhaseServed(b, s),
                      [old.shards EXCEPT ![s] = ShardOf(shard, <<>>, shard.tried, "served")],
                      [i \in DOMAIN old.out |->
                         IF InShard(i) THEN vectors[i - shard.start + 1] ELSE old.out[i]],
                      old.hops)]
        /\ inflight' = Dec(inflight, Head(shard.candidates))

\* It ends badly: failover to the next candidate; when there is none, or when the
\* vectors are not as many as the inputs, the bundle fails.
ShardFailed(b, s, kind) ==
    LET old == bundle[b]
        shard == old.shards[s]
        n == Head(shard.candidates)
        rest == IF kind = "miscounted" THEN <<>> ELSE Tail(shard.candidates)
        outcome == IF kind = "miscounted" THEN "mismatch"
                   ELSE IF rest = <<>> THEN "exhausted" ELSE "pending"
        phase == IF old.phase = "embedding" /\ rest = <<>> THEN "failed" ELSE old.phase
        left == Dec(inflight, n)
    IN  /\ bundle' = [bundle EXCEPT ![b] =
             BundleOf(phase,
                      [old.shards EXCEPT
                         ![s] = ShardOf(shard, rest, shard.tried \cup {n}, outcome)],
                      old.out, old.hops)]
        /\ inflight' = IF rest = <<>> THEN left ELSE Inc(left, Head(rest))

\* proxyTo settles for shard s, at the latest after POOL_REQUEST_TIMEOUT_MS.
CallEnds(b, s, kind) ==
    /\ s \in Sending(b)
    /\ kind \in Answers
    /\ RecordBatchOutcome(Head(bundle[b].shards[s].candidates), kind)
    /\ IF kind = "ok" THEN ShardServed(b, s) ELSE ShardFailed(b, s, kind)
    /\ UNCHANGED <<targets, registered, checking>>

\* The slot is free once the bundle is answered and its last shard is over.
Leave(b) ==
    /\ bundle[b].phase \in {"ok", "failed", "refused"}
    /\ Sending(b) = {}
    /\ bundle' = [bundle EXCEPT ![b] = Idle]
    /\ UNCHANGED routerVars

Progress(b) == \E s \in Sending(b), kind \in Answers : CallEnds(b, s, kind)

Next ==
    \/ \E b \in Bundles : Arrive(b) \/ Progress(b) \/ Leave(b)
    \/ HealthStep /\ UNCHANGED bundle

Spec == Init /\ [][Next]_vars

----------------------------------------------------------------------------
(* Properties *)

\* A bundle is answered with the vector of every input at its place: however
\* the shards finish, no hole is left and none is in another's place.
ReassembledInOrder ==
    \A b \in Bundles : bundle[b].phase = "ok" =>
        \A i \in DOMAIN bundle[b].out : bundle[b].out[i] = i

\* A bundle fails only when one of its shards failed on as many different nodes
\* as there were, up to MaxHops, or got the wrong number of vectors.
FailureJustified ==
    \A b \in Bundles : bundle[b].phase = "failed" =>
        \E s \in DOMAIN bundle[b].shards :
            LET shard == bundle[b].shards[s]
            IN  \/ shard.outcome = "mismatch"
                \/ /\ shard.outcome = "exhausted"
                   /\ Cardinality(shard.tried) = bundle[b].hops

\* A bundle is answered once: the shards that go on after the first one failed
\* change nothing for the client.
AnsweredOnce ==
    [][\A b \in Bundles :
         bundle[b].phase \in {"ok", "failed", "refused"} =>
            bundle'[b].phase \in {bundle[b].phase, "idle"}]_vars

\* The in-flight counters count the shards at work, those nobody waits for any
\* more included.
InflightExact ==
    \A n \in Ids : inflight[n] =
        Cardinality({p \in Bundles \X (1..Cardinality(Ids)) :
                       /\ p[2] \in Sending(p[1])
                       /\ Head(bundle[p[1]].shards[p[2]].candidates) = n})
=============================================================================
