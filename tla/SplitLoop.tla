------------------------------ MODULE SplitLoop ------------------------------
(***************************************************************************)
(* The loop of handleEmbedBundle that computes the shards, one iteration   *)
(* per step, for every number of inputs, nodes and latencies within the    *)
(* bounds: it computes Split, and Split is what the pool promises.         *)
(***************************************************************************)
EXTENDS Shards

CONSTANTS MaxLength,  \* bound: inputs of a bundle
          MaxNodes,   \* bound: healthy nodes
          MaxLatency  \* bound: avgLatencyMs of a node

ASSUME SplitAssumption ==
    MaxLength \in Nat \ {0} /\ MaxNodes \in Nat \ {0} /\ MaxLatency \in Nat

VARIABLES length,       \* inputs.length
          avgLatencyMs, \* of the healthy nodes, sorted
          nextNode,     \* i + 1
          cursor,       \* cursor
          cutShards,    \* shards, the first input of a shard counted from 1
          settled       \* the shards are final

loopVars == <<length, avgLatencyMs, nextNode, cursor, cutShards, settled>>

\* The healthy nodes, numbered by latency.
byPlace == [i \in DOMAIN avgLatencyMs |-> i]

LoopInit ==
    /\ length \in 1..MaxLength
    /\ \E n \in 1..MaxNodes : avgLatencyMs \in [1..n -> 0..MaxLatency]
    /\ Sorted(byPlace, avgLatencyMs)
    /\ nextNode = 1
    /\ cursor = 0
    /\ cutShards = <<>>
    /\ settled = FALSE

Looping == nextNode <= Len(avgLatencyMs) /\ cursor < length

\* Mutant: the last node takes no more than it wants.
EndUnfilled(wanted) == IF wanted > length THEN length ELSE wanted

\* Where the shard of this node ends.
End(wanted) == IF nextNode = Len(avgLatencyMs) \/ wanted > length THEN length ELSE wanted

\* Mutant: shards overlap.
ShardOverlapping(end) ==
    [node |-> nextNode, start |-> IF cursor = 0 THEN 1 ELSE cursor, end |-> end]

Shard(end) == [node |-> nextNode, start |-> cursor + 1, end |-> end]

\* One iteration of the loop.
Iterate ==
    /\ Looping
    /\ LET end == End(cursor + Want(length, byPlace, avgLatencyMs)[nextNode])
       IN  /\ cursor' = end
           /\ cutShards' = IF end > cursor
                           THEN Append(cutShards, Shard(end)) ELSE cutShards
    /\ nextNode' = nextNode + 1
    /\ UNCHANGED <<length, avgLatencyMs, settled>>

\* After the loop: a tail it left goes to the last shard, or to the first node.
Finish ==
    /\ ~Looping
    /\ ~settled
    /\ settled' = TRUE
    /\ cutShards' = IF cursor = length THEN cutShards
                    ELSE IF cutShards = <<>>
                    THEN <<[node |-> 1, start |-> cursor + 1, end |-> length]>>
                    ELSE [cutShards EXCEPT ![Len(cutShards)].end = length]
    /\ UNCHANGED <<length, avgLatencyMs, nextNode, cursor>>

LoopNext == Iterate \/ Finish

LoopSpec == LoopInit /\ [][LoopNext]_loopVars

----------------------------------------------------------------------------
(* Properties *)

\* The loop computes Split.
LoopIsSplit == settled => cutShards = Split(length, byPlace, avgLatencyMs)

\* Every input is in one shard, the shards are in order, none is empty.
ShardsPartitionInputs ==
    settled => /\ cutShards # <<>>
               /\ cutShards[1].start = 1
               /\ cutShards[Len(cutShards)].end = length
               /\ \A s \in DOMAIN cutShards : cutShards[s].start <= cutShards[s].end
               /\ \A s \in 2..Len(cutShards) : cutShards[s].start = cutShards[s - 1].end + 1

\* The inputs a node gets.
Share(i) ==
    Total([s \in DOMAIN cutShards |->
             IF cutShards[s].node = i
             THEN cutShards[s].end + 1 - cutShards[s].start ELSE 0])

\* A node is given its share of the inputs, in proportion to 1 / (latency + 1), give
\* or take half an input per node before it, for those are rounded: the last node,
\* which takes what is left, pays for all of them.  (Written without fractions.)
SharesProportional ==
    settled => LET all == Product([i \in DOMAIN avgLatencyMs |-> avgLatencyMs[i] + 1])
                   speed == [i \in DOMAIN avgLatencyMs |-> all \div (avgLatencyMs[i] + 1)]
                   total == Total(speed)
               IN  \A i \in DOMAIN avgLatencyMs :
                     /\ 2 * total * Share(i) <= 2 * length * speed[i] + i * total
                     /\ 2 * length * speed[i] <= 2 * total * Share(i) + i * total
=============================================================================
