-------------------------------- MODULE Shards --------------------------------
(***************************************************************************)
(* How handleEmbedBundle cuts the inputs 1..inputs of a bundle into shards *)
(* for the nodes of order, the fastest first: in proportion to the weights *)
(* 1 / (latency + 1), brought to a common denominator here, so that they   *)
(* are natural numbers.  The rounding errors of the floating point         *)
(* arithmetic of the code are not modelled.                                *)
(***************************************************************************)
EXTENDS Naturals, SequencesExt

Total(seq) == FoldLeft(LAMBDA x, y : x + y, 0, seq)
Product(seq) == FoldLeft(LAMBDA x, y : x * y, 1, seq)

\* Mutant: the slowest node weighs most.
WeightOfSlow(order, latency) == [i \in DOMAIN order |-> latency[order[i]] + 1]

Weight(order, latency) ==
    LET slow == [j \in DOMAIN order |-> latency[order[j]] + 1]
    IN  [i \in DOMAIN order |-> Product(RemoveAt(slow, i))]

\* Math.round(num / den)
Round(num, den) == (2 * num + den) \div (2 * den)

\* The number of inputs each node wants.
Want(inputs, order, latency) ==
    LET weight == Weight(order, latency)
    IN  [i \in DOMAIN order |-> Round(inputs * weight[i], Total(weight))]

\* Nodes take what they want until nothing is left; the last takes all that is
\* left.  EndOf(inputs, want, i) is the last input of the first i nodes.
EndOf(inputs, want, i) ==
    LET wanted == Total(SubSeq(want, 1, i))
    IN  IF i = Len(want) \/ wanted > inputs THEN inputs ELSE wanted

\* A node that gets nothing has no shard.
WithShard(shards, shard) == IF shard.start <= shard.end THEN Append(shards, shard) ELSE shards

Split(inputs, order, latency) ==
    LET want == Want(inputs, order, latency)
    IN  FoldLeft(WithShard, <<>>,
                 [i \in DOMAIN order |-> [node |-> order[i],
                                          start |-> EndOf(inputs, want, i - 1) + 1,
                                          end |-> EndOf(inputs, want, i)]])

\* The order getHealthyNodes() returns is by latency.
Sorted(order, latency) ==
    \A i, j \in DOMAIN order : i < j => latency[order[i]] <= latency[order[j]]
=============================================================================
