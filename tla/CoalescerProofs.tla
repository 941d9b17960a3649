--------------------------- MODULE CoalescerProofs ---------------------------
(***************************************************************************)
(* For every target, number of parallel flushes and of hops, every finite  *)
(* pool and every load: a request in the queue of the coalescer is never   *)
(* forgotten, lost or settled twice; the counters are exact; a caller is   *)
(* rejected only after the failover it is owed; it gets its own vectors    *)
(* when the backend sent one per text, and shares none with another caller *)
(* when it did not; and a backend that fails its batches in a row is       *)
(* ejected.                                                                *)
(*                                                                         *)
(* Each invariant rests on the ones before it:                             *)
(*   WakeupInv  the queue, the timer and the slots                         *)
(*   PlaceInv   where every request is                                     *)
(*   CountInv   the counters; HopInv  the failover; OwnInv  the vectors    *)
(*   HeardInv   what the breaker counts, beside what the backends did      *)
(***************************************************************************)
EXTENDS CoalescerHistory, FiniteSetTheorems, SequenceTheorems, TLAPS

Waiting == [id : Nat, size : Nat]

\* No more flushes than slots, which is what makes the free slots a number.
WakeupInv ==
    /\ queue \in Seq(Waiting)
    /\ submitted \in Nat
    /\ activeFlushes \in Int /\ activeFlushes <= Parallel
    /\ NoLostWakeup

\* A quotient, rounded down.
LEMMA DivBounds ==
    ASSUME NEW n \in Nat, NEW d \in Nat \ {0}
    PROVE  n \div d \in Nat /\ (n \div d) * d <= n /\ n < (n \div d) * d + d
OBVIOUS

\* What maybeFlush leaves in the queue waits because every slot is taken.
LEMMA FlushLeaves ==
    ASSUME NEW q \in Seq(Waiting), NEW active \in Int, active <= Parallel,
           NEW running, MaybeFlush(q, active, running)
    PROVE  /\ queue' \in Seq(Waiting)
           /\ activeFlushes' \in Int /\ activeFlushes' <= Parallel
           /\ queue' # <<>> => activeFlushes' = Parallel
<1> DEFINE slots == Parallel - active
           batches == (Len(q) + Target - 1) \div Target
           started == Least(slots, batches)
<1>1. slots \in Nat /\ Len(q) \in Nat /\ Target \in Nat \ {0} /\ Parallel \in Nat
  BY CoalescerAssumption
<1>2. batches \in Nat /\ Len(q) < batches * Target + 1
  <2>1. Len(q) + Target - 1 \in Nat
    BY <1>1
  <2> QED
    BY <1>1, <2>1, DivBounds
<1>3. /\ queue' = SubSeq(q, started * Target + 1, Len(q))
      /\ activeFlushes' = active + started
  BY DEF MaybeFlush, StartFlushes
<1> HIDE DEF slots, batches
<1>4. started \in Nat /\ started <= slots /\ (started = slots \/ started = batches)
  BY <1>1, <1>2 DEF Least
<1>5. queue' \in Seq(Waiting)
  <2>1. started * Target + 1 \in Nat \ {0}
    BY <1>1, <1>4
  <2> QED
    BY <1>1, <1>3, <2>1
<1>6. activeFlushes' \in Int /\ activeFlushes' <= Parallel
  BY <1>1, <1>3, <1>4 DEF slots
<1>7. ASSUME queue' # <<>> PROVE activeFlushes' = Parallel
  <2>1. started # batches
    BY <1>1, <1>2, <1>3, <1>7
  <2> QED
    BY <1>1, <1>3, <1>4, <2>1 DEF slots
<1> QED
  BY <1>5, <1>6, <1>7

\* The queue is empty at the start.
LEMMA WakeupInit == Init => WakeupInv
BY CoalescerAssumption DEF Init, WakeupInv, NoLostWakeup

\* What is queued by a step waits for a slot that is taken or for a timer that is set.
LEMMA WakeupNext == WakeupInv /\ [Next]_vars => WakeupInv'
<1> SUFFICES ASSUME WakeupInv, [Next]_vars PROVE WakeupInv'
  OBVIOUS
<1>1. CASE Submit
  <2>1. PICK size \in 1..MaxTexts :
          LET q == Append(queue, [id |-> submitted + 1, size |-> size])
          IN  IF Len(AllTexts(q)) >= Target
              THEN timer' = FALSE /\ MaybeFlush(q, activeFlushes, flushes)
              ELSE /\ timer' = TRUE
                   /\ queue' = q
                   /\ UNCHANGED <<activeFlushes, flushes, reply, inflight>>
    BY <1>1 DEF Submit
  <2> DEFINE q == Append(queue, [id |-> submitted + 1, size |-> size])
  <2>2. q \in Seq(Waiting) /\ submitted' \in Nat
    BY <1>1, CoalescerAssumption DEF Submit, WakeupInv, Waiting
  <2>3. CASE MaybeFlush(q, activeFlushes, flushes)
    BY <2>2, <2>3, FlushLeaves DEF WakeupInv, NoLostWakeup
  <2>4. CASE timer' = TRUE /\ queue' = q /\ UNCHANGED activeFlushes
    BY <2>2, <2>4 DEF WakeupInv, NoLostWakeup
  <2> QED
    BY <2>1, <2>3, <2>4
<1>2. CASE TimerFires
  BY <1>2, FlushLeaves DEF TimerFires, WakeupInv, NoLostWakeup
<1>3. ASSUME NEW f \in flushes, NEW kind \in Answers, CallEnds(f, kind) PROVE WakeupInv'
  BY <1>3 DEF CallEnds, WakeupInv, NoLostWakeup
<1>4. ASSUME NEW f \in flushes, Finally(f) PROVE WakeupInv'
  <2>1. MaybeFlush(queue, activeFlushes - 1, flushes \ {f}) /\ UNCHANGED <<timer, submitted>>
    BY <1>4 DEF Finally
  <2>2. activeFlushes - 1 \in Int /\ activeFlushes - 1 <= Parallel
    BY CoalescerAssumption DEF WakeupInv
  <2> QED
    BY <2>1, <2>2, FlushLeaves DEF WakeupInv, NoLostWakeup
<1>5. CASE (HealthStep /\ UNCHANGED batchVars) \/ UNCHANGED vars
  BY <1>5 DEF vars, batchVars, WakeupInv, NoLostWakeup
<1> QED
  BY <1>1, <1>2, <1>3, <1>4, <1>5 DEF Next, Step

\* maybeFlush and its finally (pool-router.mjs): whenever requests wait in batchQueue,
\* the timer is armed or every flush slot is taken.
THEOREM QueueIsWoken == Spec => []NoLostWakeup
<1>1. WakeupInv => NoLostWakeup
  BY DEF WakeupInv
<1> QED
  BY <1>1, WakeupInit, WakeupNext, PTL DEF Spec

----------------------------------------------------------------------------
(* Cutting the queue *)

Distinct(seq) == \A i, j \in DOMAIN seq : seq[i].id = seq[j].id => i = j

\* Row i ends before row j starts.
LEMMA Rows ==
    ASSUME NEW i \in Nat, NEW j \in Nat, NEW d \in Nat, i < j
    PROVE  i * d + d <= j * d
OBVIOUS

\* The requests of a batch are consecutive in the queue.
LEMMA BatchIsSlice ==
    ASSUME NEW q \in Seq(Waiting), NEW i \in Nat \ {0}
    PROVE  /\ Batch(q, i) \in Seq(Waiting)
           /\ Len(Batch(q, i)) <= Target
           /\ \A k \in DOMAIN Batch(q, i) :
                /\ (i - 1) * Target + k \in DOMAIN q
                /\ Batch(q, i)[k] = q[(i - 1) * Target + k]
           /\ (i - 1) * Target < Len(q) => Batch(q, i) # <<>>
           /\ \A p \in DOMAIN q : (i - 1) * Target < p /\ p <= i * Target =>
                 /\ p - (i - 1) * Target \in DOMAIN Batch(q, i)
                 /\ Batch(q, i)[p - (i - 1) * Target] = q[p]
<1> DEFINE before == (i - 1) * Target
           last == Least(i * Target, Len(q))
<1>1. /\ Target \in Nat \ {0} /\ Len(q) \in Nat
      /\ before \in Nat /\ i * Target = before + Target
  BY CoalescerAssumption
<1>2. /\ last \in Nat /\ last <= Len(q) /\ last <= before + Target
      /\ last = Len(q) \/ last = before + Target
  BY <1>1 DEF Least
<1>3. Batch(q, i) = SubSeq(q, before + 1, last)
  BY DEF Batch
<1> HIDE DEF before, last
<1>4. /\ Batch(q, i) \in Seq(Waiting)
      /\ Len(Batch(q, i)) \in Nat
      /\ before < last => Len(Batch(q, i)) = last - before
      /\ last <= before => Len(Batch(q, i)) = 0
      /\ \A k \in 1..(last - before) : Batch(q, i)[k] = q[before + k]
  <2>1. before + 1 \in Int /\ last \in Int /\ \A k \in (before + 1)..last : q[k] \in Waiting
    <3>1. \A k \in (before + 1)..last : k \in 1..Len(q)
      BY <1>1, <1>2
    <3> QED
      BY <1>1, <1>2, <3>1, ElementOfSeq
  <2>2. /\ Batch(q, i) \in Seq(Waiting)
        /\ Len(Batch(q, i)) = IF before + 1 <= last THEN last - (before + 1) + 1 ELSE 0
        /\ \A k \in 1..(last - (before + 1) + 1) : Batch(q, i)[k] = q[(before + 1) + k - 1]
    BY <1>3, <2>1, SubSeqProperties
  <2>3. ASSUME NEW k \in 1..(last - before) PROVE Batch(q, i)[k] = q[before + k]
    <3>1. k \in 1..(last - (before + 1) + 1) /\ (before + 1) + k - 1 = before + k
      BY <1>1, <1>2
    <3> QED
      BY <2>2, <3>1
  <2> QED
    BY <1>1, <1>2, <2>2, <2>3
<1>5. DOMAIN q = 1..Len(q) /\ DOMAIN Batch(q, i) = 1..Len(Batch(q, i))
  BY <1>4
<1>6. ASSUME NEW k \in DOMAIN Batch(q, i)
      PROVE  before + k \in DOMAIN q /\ Batch(q, i)[k] = q[before + k]
  <2>0. k \in 1..Len(Batch(q, i))
    BY <1>5
  <2>1. k \in Nat /\ 1 <= k /\ k <= last - before
    BY <1>1, <1>2, <1>4, <2>0
  <2>2. k \in 1..(last - before) /\ before + k \in 1..Len(q)
    BY <1>1, <1>2, <2>1
  <2> QED
    BY <1>4, <1>5, <2>2
<1>7. \A p \in DOMAIN q : before < p /\ p <= i * Target =>
                 /\ p - before \in DOMAIN Batch(q, i)
                 /\ Batch(q, i)[p - before] = q[p]
  <2> SUFFICES ASSUME NEW p \in DOMAIN q, before < p, p <= i * Target
               PROVE  /\ p - before \in DOMAIN Batch(q, i)
                      /\ Batch(q, i)[p - before] = q[p]
    OBVIOUS
  <2>1. p \in 1..Len(q)
    BY <1>5
  <2>2. p - before \in 1..(last - before) /\ before + (p - before) = p /\ before < last
    BY <1>1, <1>2, <2>1
  <2>3. p - before \in 1..Len(Batch(q, i))
    BY <1>4, <2>2
  <2>4. Batch(q, i)[p - before] = q[before + (p - before)]
    BY <1>4, <2>2
  <2> QED
    BY <1>5, <2>2, <2>3, <2>4
<1>8. before < Len(q) => Batch(q, i) # <<>>
  BY <1>1, <1>2, <1>4
<1> QED
  BY <1>1, <1>2, <1>4, <1>6, <1>7, <1>8 DEF before

\* What is left of q when n batches were cut from it.
Rest(q, n) == SubSeq(q, n * Target + 1, Len(q))

\* And so are those left.
LEMMA RestIsSlice ==
    ASSUME NEW q \in Seq(Waiting), NEW n \in Nat
    PROVE  /\ Rest(q, n) \in Seq(Waiting)
           /\ \A k \in DOMAIN Rest(q, n) :
                 n * Target + k \in DOMAIN q /\ Rest(q, n)[k] = q[n * Target + k]
           /\ \A p \in DOMAIN q : n * Target < p =>
                 p - n * Target \in DOMAIN Rest(q, n) /\ Rest(q, n)[p - n * Target] = q[p]
<1> DEFINE before == n * Target
<1>1. before \in Nat /\ Len(q) \in Nat /\ Rest(q, n) = SubSeq(q, before + 1, Len(q))
  BY CoalescerAssumption DEF Rest
<1> HIDE DEF before
<1>2. /\ Rest(q, n) \in Seq(Waiting) /\ Len(Rest(q, n)) \in Nat
      /\ before < Len(q) => Len(Rest(q, n)) = Len(q) - before
      /\ Len(q) <= before => Len(Rest(q, n)) = 0
      /\ \A k \in 1..(Len(q) - before) : Rest(q, n)[k] = q[before + k]
  BY <1>1
<1>3. DOMAIN q = 1..Len(q) /\ DOMAIN Rest(q, n) = 1..Len(Rest(q, n))
  BY <1>2
<1>4. ASSUME NEW k \in DOMAIN Rest(q, n)
      PROVE  before + k \in DOMAIN q /\ Rest(q, n)[k] = q[before + k]
  <2>1. k \in 1..Len(Rest(q, n))
    BY <1>3
  <2>2. k \in 1..(Len(q) - before) /\ before + k \in 1..Len(q)
    BY <1>1, <1>2, <2>1
  <2> QED
    BY <1>2, <1>3, <2>2
<1>5. ASSUME NEW p \in DOMAIN q, before < p
      PROVE  p - before \in DOMAIN Rest(q, n) /\ Rest(q, n)[p - before] = q[p]
  <2>1. p \in 1..Len(q)
    BY <1>3
  <2>2. p - before \in 1..(Len(q) - before) /\ before + (p - before) = p /\ before < Len(q)
    BY <1>1, <1>5, <2>1
  <2>3. p - before \in 1..Len(Rest(q, n)) /\ Rest(q, n)[p - before] = q[before + (p - before)]
    BY <1>2, <2>2
  <2> QED
    BY <1>3, <2>2, <2>3
<1> QED
  BY <1>2, <1>4, <1>5 DEF before

\* Every place before the rest belongs to a batch.
LEMMA RowOf ==
    ASSUME NEW p \in Nat \ {0}, NEW n \in Nat, p <= n * Target
    PROVE  \E i \in 1..n : (i - 1) * Target < p /\ p <= i * Target
<1> DEFINE k == (p - 1) \div Target
<1>1. Target \in Nat \ {0} /\ p - 1 \in Nat
  BY CoalescerAssumption
<1>2. k \in Nat /\ k * Target <= p - 1 /\ p - 1 < k * Target + Target
  BY <1>1, DivBounds
<1> HIDE DEF k
<1>3. k < n
  <2> SUFFICES ASSUME n <= k PROVE FALSE
    BY <1>2
  <2>1. n * Target <= k * Target
    BY <1>1, <1>2
  <2> QED
    BY <1>1, <1>2, <2>1
<1>4. (k + 1) * Target = k * Target + Target /\ (k + 1) - 1 = k /\ k + 1 \in 1..n
  BY <1>1, <1>2, <1>3
<1>5. k * Target < p /\ p <= k * Target + Target
  BY <1>1, <1>2
<1>6. ((k + 1) - 1) * Target < p /\ p <= (k + 1) * Target
  BY <1>4, <1>5
<1> QED
  BY <1>4, <1>6

\* Cutting n batches from q puts every request in one batch or in the rest.
LEMMA Divided ==
    ASSUME NEW q \in Seq(Waiting), Distinct(q), NEW n \in Nat,
           \A i \in 1..n : (i - 1) * Target < Len(q)
    PROVE  /\ \A i \in 1..n : /\ Batch(q, i) \in Seq(Waiting) /\ Batch(q, i) # <<>>
                               /\ Len(Batch(q, i)) <= Target
                               /\ Distinct(Batch(q, i))
                               /\ IdsOf(Batch(q, i)) \subseteq IdsOf(q)
                               /\ IdsOf(Batch(q, i)) \cap IdsOf(Rest(q, n)) = {}
           /\ \A i, j \in 1..n : i # j => IdsOf(Batch(q, i)) \cap IdsOf(Batch(q, j)) = {}
           /\ Rest(q, n) \in Seq(Waiting) /\ Distinct(Rest(q, n))
           /\ IdsOf(Rest(q, n)) \subseteq IdsOf(q)
           /\ \A r \in IdsOf(q) \ IdsOf(Rest(q, n)) : \E i \in 1..n : r \in IdsOf(Batch(q, i))
<1>0. Target \in Nat \ {0} /\ Len(q) \in Nat /\ DOMAIN q = 1..Len(q)
  BY CoalescerAssumption
<1>1. ASSUME NEW i \in 1..n
      PROVE  /\ Batch(q, i) \in Seq(Waiting) /\ Batch(q, i) # <<>>
             /\ Len(Batch(q, i)) <= Target
             /\ \A k \in DOMAIN Batch(q, i) :
                   /\ k \in 1..Target
                   /\ (i - 1) * Target + k \in DOMAIN q
                   /\ Batch(q, i)[k] = q[(i - 1) * Target + k]
             /\ \A p \in DOMAIN q : (i - 1) * Target < p /\ p <= i * Target =>
                   /\ p - (i - 1) * Target \in DOMAIN Batch(q, i)
                   /\ Batch(q, i)[p - (i - 1) * Target] = q[p]
  <2>1. i \in Nat \ {0} /\ (i - 1) * Target < Len(q)
    OBVIOUS
  <2>2. /\ Batch(q, i) \in Seq(Waiting) /\ Batch(q, i) # <<>>
        /\ Len(Batch(q, i)) <= Target
        /\ \A k \in DOMAIN Batch(q, i) :
              /\ (i - 1) * Target + k \in DOMAIN q
              /\ Batch(q, i)[k] = q[(i - 1) * Target + k]
        /\ \A p \in DOMAIN q : (i - 1) * Target < p /\ p <= i * Target =>
              /\ p - (i - 1) * Target \in DOMAIN Batch(q, i)
              /\ Batch(q, i)[p - (i - 1) * Target] = q[p]
    BY <2>1, BatchIsSlice
  <2>3. ASSUME NEW k \in DOMAIN Batch(q, i) PROVE k \in 1..Target
    <3>1. k \in 1..Len(Batch(q, i)) /\ Len(Batch(q, i)) \in Nat
      BY <2>2
    <3> QED
      BY <1>0, <2>2, <3>1
  <2> QED
    BY <2>2, <2>3
<1>2. ASSUME NEW i \in 1..n, NEW k \in 1..Target
      PROVE  /\ (i - 1) * Target + k \in Nat /\ (i - 1) * Target + k <= n * Target
             /\ \A l \in 1..Target : (i - 1) * Target + k = (i - 1) * Target + l => k = l
             /\ \A j \in 1..n, l \in 1..Target : i # j =>
                   (i - 1) * Target + k # (j - 1) * Target + l
  <2>1. ASSUME NEW a \in 1..n, NEW b \in 1..n, a < b
        PROVE  (a - 1) * Target + Target <= (b - 1) * Target
    <3>1. a - 1 \in Nat /\ b - 1 \in Nat /\ a - 1 < b - 1
      BY <2>1
    <3> QED
      BY <1>0, <3>1, Rows
  <2>2. (i - 1) * Target \in Nat /\ (i - 1) * Target + Target <= n * Target
    <3>1. i - 1 \in Nat /\ i - 1 < n
      OBVIOUS
    <3> QED
      BY <1>0, <3>1, Rows
  <2>3. ASSUME NEW j \in 1..n, NEW l \in 1..Target, i # j
        PROVE  (i - 1) * Target + k # (j - 1) * Target + l
    <3>1. (j - 1) * Target \in Nat
      BY <1>0
    <3>2. CASE i < j
      BY <1>0, <2>1, <2>2, <3>1, <3>2
    <3>3. CASE j < i
      BY <1>0, <2>1, <2>2, <3>1, <3>3
    <3> QED
      BY <2>3, <3>2, <3>3
  <2> QED
    BY <1>0, <2>2, <2>3
<1>3. /\ Rest(q, n) \in Seq(Waiting)
      /\ \A k \in DOMAIN Rest(q, n) :
            /\ n * Target + k \in DOMAIN q /\ Rest(q, n)[k] = q[n * Target + k]
            /\ k \in Nat \ {0}
      /\ \A p \in DOMAIN q : n * Target < p =>
            p - n * Target \in DOMAIN Rest(q, n) /\ Rest(q, n)[p - n * Target] = q[p]
  <2>1. \A k \in DOMAIN Rest(q, n) : k \in Nat \ {0}
    <3>1. Rest(q, n) \in Seq(Waiting)
      BY RestIsSlice
    <3> QED
      BY <3>1
  <2> QED
    BY RestIsSlice, <2>1
<1>4. n * Target \in Nat
  BY <1>0
<1>5. \A p1, p2 \in DOMAIN q : q[p1].id = q[p2].id => p1 = p2
  BY DEF Distinct
<1>6. ASSUME NEW i \in 1..n
      PROVE  /\ Distinct(Batch(q, i)) /\ IdsOf(Batch(q, i)) \subseteq IdsOf(q)
             /\ IdsOf(Batch(q, i)) \cap IdsOf(Rest(q, n)) = {}
  <2>1. Distinct(Batch(q, i))
    <3> SUFFICES ASSUME NEW k \in DOMAIN Batch(q, i), NEW l \in DOMAIN Batch(q, i),
                        Batch(q, i)[k].id = Batch(q, i)[l].id
                 PROVE  k = l
      BY DEF Distinct
    <3>1. (i - 1) * Target + k = (i - 1) * Target + l
      BY <1>1, <1>5
    <3> QED
      BY <1>1, <1>2, <3>1
  <2>2. IdsOf(Batch(q, i)) \subseteq IdsOf(q)
    BY <1>1 DEF IdsOf
  <2>3. ASSUME NEW k \in DOMAIN Batch(q, i), NEW l \in DOMAIN Rest(q, n)
        PROVE  Batch(q, i)[k].id # Rest(q, n)[l].id
    <3>1. (i - 1) * Target + k # n * Target + l
      <4>1. (i - 1) * Target + k \in Nat /\ (i - 1) * Target + k <= n * Target
        BY <1>1, <1>2
      <4> QED
        BY <1>3, <1>4, <4>1
    <3> QED
      BY <1>1, <1>3, <1>5, <3>1
  <2> QED
    BY <2>1, <2>2, <2>3 DEF IdsOf
<1>7. ASSUME NEW i \in 1..n, NEW j \in 1..n, i # j
      PROVE  IdsOf(Batch(q, i)) \cap IdsOf(Batch(q, j)) = {}
  <2>1. ASSUME NEW k \in DOMAIN Batch(q, i), NEW l \in DOMAIN Batch(q, j)
        PROVE  Batch(q, i)[k].id # Batch(q, j)[l].id
    <3>1. (i - 1) * Target + k # (j - 1) * Target + l
      BY <1>1, <1>2, <1>7
    <3> QED
      BY <1>1, <1>5, <3>1
  <2> QED
    BY <2>1 DEF IdsOf
<1>8. Distinct(Rest(q, n))
  <2> SUFFICES ASSUME NEW k \in DOMAIN Rest(q, n), NEW l \in DOMAIN Rest(q, n),
                      Rest(q, n)[k].id = Rest(q, n)[l].id
               PROVE  k = l
    BY DEF Distinct
  <2>1. n * Target + k = n * Target + l
    BY <1>3, <1>5
  <2> QED
    BY <1>3, <1>4, <2>1
<1>9. IdsOf(Rest(q, n)) \subseteq IdsOf(q)
  BY <1>3 DEF IdsOf
<1>10. ASSUME NEW r \in IdsOf(q) \ IdsOf(Rest(q, n))
       PROVE  \E i \in 1..n : r \in IdsOf(Batch(q, i))
  <2>1. PICK p \in DOMAIN q : q[p].id = r
    BY DEF IdsOf
  <2>2. ~(n * Target < p)
    BY <1>3, <1>10, <2>1 DEF IdsOf
  <2>3. p \in Nat \ {0} /\ p <= n * Target
    BY <1>0, <1>4, <2>2
  <2>4. PICK i \in 1..n : (i - 1) * Target < p /\ p <= i * Target
    BY <2>3, RowOf
  <2> QED
    BY <1>1, <2>1, <2>4 DEF IdsOf
<1> QED
  BY <1>1, <1>3, <1>6, <1>7, <1>8, <1>9, <1>10

----------------------------------------------------------------------------
(* The texts of a batch *)

AText == Nat \X Nat

\* Where the texts of each request are in the texts of a batch.
TextsInPlace(batch, texts) ==
    /\ texts \in Seq(AText)
    /\ \A i \in DOMAIN batch :
         /\ Offset(batch, i) \in Nat
         /\ Offset(batch, i) + batch[i].size <= Len(texts)
         /\ \A k \in 1..batch[i].size : texts[Offset(batch, i) + k] = <<batch[i].id, k>>
    /\ \A p \in 1..Len(texts) : \E i \in DOMAIN batch :
         Offset(batch, i) < p /\ p <= Offset(batch, i) + batch[i].size

Joined == INSTANCE SequenceFacts WITH Op <- LAMBDA texts, item : texts \o Texts(item), Base <- <<>>,
                                  Items <- Waiting, Holds <- TextsInPlace

\* The texts of a batch, as the fold that SequenceFacts speaks of.
LEMMA AllTextsIsFold == \A batch : AllTexts(batch) = Joined!Fold(batch)
BY DEF AllTexts, Joined!Fold, FoldLeft, Joined!FoldLeft, MapThenFoldSet, Joined!MapThenFoldSet,
       Max, Joined!Max

\* The texts of a batch are those of its requests, one request after the other.
LEMMA AllTextsInPlace ==
    ASSUME NEW batch \in Seq(Waiting)
    PROVE  TextsInPlace(batch, AllTexts(batch))
<1>1. TextsInPlace(<<>>, <<>>)
  BY DEF TextsInPlace
<1>2. ASSUME NEW seq \in Seq(Waiting), NEW x \in Waiting, TextsInPlace(seq, Joined!Fold(seq))
      PROVE  TextsInPlace(Append(seq, x), Joined!Fold(seq) \o Texts(x))
  <2> DEFINE n == Len(seq)
             longer == Append(seq, x)
             texts == Joined!Fold(seq)
             more == Texts(x)
             all == texts \o more
  <2>1. /\ n \in Nat /\ DOMAIN seq = 1..n /\ DOMAIN longer = 1..(n + 1)
        /\ longer[n + 1] = x /\ \A i \in 1..n : longer[i] = seq[i]
        /\ longer \in Seq(Waiting)
    OBVIOUS
  <2>2. ASSUME NEW i \in 1..(n + 1)
        PROVE  SubSeq(longer, 1, i - 1) = SubSeq(seq, 1, i - 1)
    <3>1. \A k \in 1..(i - 1) : k \in 1..n
      BY <2>1
    <3> HIDE DEF longer, n
    <3>2. /\ SubSeq(longer, 1, i - 1) \in Seq(Waiting) /\ Len(SubSeq(longer, 1, i - 1)) = i - 1
          /\ \A k \in 1..(i - 1) : SubSeq(longer, 1, i - 1)[k] = longer[k]
      BY <2>1
    <3>3. /\ SubSeq(seq, 1, i - 1) \in Seq(Waiting) /\ Len(SubSeq(seq, 1, i - 1)) = i - 1
          /\ \A k \in 1..(i - 1) : SubSeq(seq, 1, i - 1)[k] = seq[k]
      BY <2>1
    <3> QED
      BY <2>1, <3>1, <3>2, <3>3
  <2>3. SubSeq(seq, 1, (n + 1) - 1) = seq
    BY <2>1
  <2>4. \A i \in 1..n : Offset(longer, i) = Offset(seq, i)
    <3>1. \A i \in 1..n : i \in 1..(n + 1)
      BY <2>1
    <3> QED
      BY <2>2, <3>1 DEF Offset
  <2>5. Offset(longer, n + 1) = Len(texts)
    <3>1. n + 1 \in 1..(n + 1)
      BY <2>1
    <3> QED
      BY <2>2, <2>3, <3>1, AllTextsIsFold DEF Offset
  <2>6. texts \in Seq(AText) /\ Len(texts) \in Nat
    BY <1>2 DEF TextsInPlace
  <2>7. /\ more \in Seq(AText) /\ Len(more) = x.size /\ x.size \in Nat /\ x.id \in Nat
        /\ \A k \in 1..x.size : more[k] = <<x.id, k>>
    <3>1. x.size \in Nat /\ x.id \in Nat
      BY DEF Waiting
    <3>2. \A k \in 1..x.size : <<x.id, k>> \in AText
      BY <3>1 DEF AText
    <3>3. more = [k \in 1..x.size |-> <<x.id, k>>]
      BY DEF Texts
    <3> HIDE DEF more
    <3>4. more \in [1..x.size -> AText]
      BY <3>2, <3>3
    <3>5. more \in Seq(AText) /\ Len(more) = x.size
      BY <3>1, <3>4
    <3> QED
      BY <3>1, <3>3, <3>5
  <2> HIDE DEF n, longer, texts, more
  <2>8. /\ all \in Seq(AText) /\ Len(all) = Len(texts) + x.size
        /\ \A k \in 1..Len(texts) : all[k] = texts[k]
        /\ \A k \in 1..x.size : all[Len(texts) + k] = <<x.id, k>>
    <3>1. /\ all \in Seq(AText) /\ Len(all) = Len(texts) + Len(more)
          /\ \A k \in 1..(Len(texts) + Len(more)) :
               all[k] = IF k <= Len(texts) THEN texts[k] ELSE more[k - Len(texts)]
      BY <2>6, <2>7, ConcatProperties
    <3>2. \A k \in 1..Len(texts) : all[k] = texts[k]
      BY <2>6, <2>7, <3>1
    <3>3. ASSUME NEW k \in 1..x.size PROVE all[Len(texts) + k] = <<x.id, k>>
      <4>1. /\ Len(texts) + k \in 1..(Len(texts) + Len(more)) /\ ~(Len(texts) + k <= Len(texts))
            /\ (Len(texts) + k) - Len(texts) = k
        BY <2>6, <2>7
      <4> QED
        BY <2>7, <3>1, <4>1
    <3> QED
      BY <2>7, <3>1, <3>2, <3>3
  <2> HIDE DEF all
  <2>9. ASSUME NEW i \in 1..n
        PROVE  /\ Offset(longer, i) \in Nat /\ longer[i].size \in Nat
               /\ Offset(longer, i) + longer[i].size <= Len(texts)
               /\ \A k \in 1..longer[i].size : texts[Offset(longer, i) + k] = <<longer[i].id, k>>
    <3>1. longer[i] = seq[i] /\ Offset(longer, i) = Offset(seq, i)
      BY <2>1, <2>4
    <3>2. seq[i].size \in Nat
      <4>1. seq[i] \in Waiting
        BY <2>1
      <4> QED
        BY <4>1 DEF Waiting
    <3> QED
      BY <1>2, <2>1, <3>1, <3>2 DEF TextsInPlace, texts
  <2>10. ASSUME NEW i \in 1..(n + 1)
         PROVE  /\ Offset(longer, i) \in Nat
                /\ Offset(longer, i) + longer[i].size <= Len(all)
                /\ \A k \in 1..longer[i].size : all[Offset(longer, i) + k] = <<longer[i].id, k>>
    <3>1. CASE i = n + 1
      <4>1. Offset(longer, i) = Len(texts) /\ longer[i] = x
        BY <2>1, <2>5, <3>1
      <4>2. Len(texts) \in Nat /\ Len(texts) + x.size <= Len(all)
        BY <2>6, <2>7, <2>8
      <4> QED
        BY <2>8, <4>1, <4>2
    <3>2. CASE i \in 1..n
      <4>1. ASSUME NEW k \in 1..longer[i].size
            PROVE  all[Offset(longer, i) + k] = <<longer[i].id, k>>
        <5>1. Offset(longer, i) + k \in 1..Len(texts)
          <6>1. Offset(longer, i) \in Nat /\ longer[i].size \in Nat
                /\ Offset(longer, i) + longer[i].size <= Len(texts)
            BY <2>9, <3>2
          <6> QED
            BY <2>6, <6>1
        <5> QED
          BY <2>8, <2>9, <3>2, <5>1
      <4> QED
        BY <2>6, <2>7, <2>8, <2>9, <3>2, <4>1
    <3>3. i = n + 1 \/ i \in 1..n
      BY <2>1
    <3> QED
      BY <3>1, <3>2, <3>3
  <2>11. ASSUME NEW p \in 1..Len(all)
         PROVE  \E i \in 1..(n + 1) :
                  Offset(longer, i) < p /\ p <= Offset(longer, i) + longer[i].size
    <3>1. CASE p <= Len(texts)
      <4>1. p \in 1..Len(texts)
        BY <2>6, <3>1
      <4>2. PICK i \in 1..n : Offset(seq, i) < p /\ p <= Offset(seq, i) + seq[i].size
        BY <1>2, <2>1, <4>1 DEF TextsInPlace, texts
      <4>3. i \in 1..(n + 1)
        BY <2>1
      <4> QED
        BY <2>1, <2>4, <4>2, <4>3
    <3>2. CASE ~(p <= Len(texts))
      <4>1. Len(texts) < p /\ p <= Len(texts) + x.size
        BY <2>6, <2>7, <2>8, <3>2
      <4>2. n + 1 \in 1..(n + 1)
        BY <2>1
      <4> QED
        BY <2>1, <2>5, <4>1, <4>2
    <3> QED
      BY <3>1, <3>2
  <2>12. TextsInPlace(longer, all)
    BY <2>1, <2>8, <2>10, <2>11 DEF TextsInPlace
  <2> QED
    BY <2>12 DEF longer, all, texts, more
<1>3. \A seq \in Seq(Waiting) : TextsInPlace(seq, Joined!Fold(seq))
  BY <1>1, <1>2, Joined!FoldInduction
<1> QED
  BY <1>3, AllTextsIsFold

\* Where the texts of the i-th request are, and no others.
LEMMA TextsOfOne ==
    ASSUME NEW batch \in Seq(Waiting), Distinct(batch), NEW i \in DOMAIN batch,
           NEW p \in 1..Len(AllTexts(batch))
    PROVE  AllTexts(batch)[p][1] = batch[i].id
             <=> Offset(batch, i) < p /\ p <= Offset(batch, i) + batch[i].size
<1>1. TextsInPlace(batch, AllTexts(batch))
  BY AllTextsInPlace
<1>2. ASSUME NEW j \in DOMAIN batch,
             Offset(batch, j) < p, p <= Offset(batch, j) + batch[j].size
      PROVE  AllTexts(batch)[p][1] = batch[j].id
  <2>0. batch[j] \in Waiting
    OBVIOUS
  <2>1. Offset(batch, j) \in Nat /\ batch[j].size \in Nat /\ p \in Nat
    BY <1>1, <2>0 DEF TextsInPlace, Waiting
  <2>2. p - Offset(batch, j) \in 1..batch[j].size /\ Offset(batch, j) + (p - Offset(batch, j)) = p
    BY <1>2, <2>1
  <2>3. AllTexts(batch)[Offset(batch, j) + (p - Offset(batch, j))]
          = <<batch[j].id, p - Offset(batch, j)>>
    BY <1>1, <2>2 DEF TextsInPlace
  <2> QED
    BY <2>2, <2>3
<1>3. PICK j \in DOMAIN batch : Offset(batch, j) < p /\ p <= Offset(batch, j) + batch[j].size
  BY <1>1 DEF TextsInPlace
<1> QED
  BY <1>2, <1>3 DEF Distinct

\* No two texts of a batch are the same, and none is Stray.
LEMMA TextsDiffer ==
    ASSUME NEW batch \in Seq(Waiting), Distinct(batch)
    PROVE  /\ AllTexts(batch) \in Seq(AText)
           /\ \A p, q \in 1..Len(AllTexts(batch)) :
                AllTexts(batch)[p] = AllTexts(batch)[q] => p = q
           /\ \A p \in 1..Len(AllTexts(batch)) :
                AllTexts(batch)[p] # Stray /\ AllTexts(batch)[p][1] \in IdsOf(batch)
<1> DEFINE all == AllTexts(batch)
           size(i) == batch[i].size
<1>1. TextsInPlace(batch, all)
  BY AllTextsInPlace
<1>2. ASSUME NEW p \in 1..Len(all)
      PROVE  \E i \in DOMAIN batch, k \in Nat :
                k # 0 /\ p = Offset(batch, i) + k /\ all[p] = <<batch[i].id, k>>
  <2>1. PICK i \in DOMAIN batch : Offset(batch, i) < p /\ p <= Offset(batch, i) + size(i)
    BY <1>1 DEF TextsInPlace
  <2>2. Offset(batch, i) \in Nat /\ size(i) \in Nat
    <3>1. batch[i] \in Waiting
      OBVIOUS
    <3> QED
      BY <1>1, <3>1 DEF TextsInPlace, Waiting
  <2> DEFINE k == p - Offset(batch, i)
  <2>3. k \in 1..size(i) /\ Offset(batch, i) + k = p
    BY <2>1, <2>2
  <2>4. all[Offset(batch, i) + k] = <<batch[i].id, k>>
    BY <1>1, <2>3 DEF TextsInPlace
  <2> QED
    BY <2>2, <2>3, <2>4
<1> HIDE DEF all
<1>3. ASSUME NEW p \in 1..Len(all), NEW q \in 1..Len(all), all[p] = all[q] PROVE p = q
  <2>1. PICK i \in DOMAIN batch, k \in Nat :
          k # 0 /\ p = Offset(batch, i) + k /\ all[p] = <<batch[i].id, k>>
    BY <1>2
  <2>2. PICK j \in DOMAIN batch, l \in Nat :
          l # 0 /\ q = Offset(batch, j) + l /\ all[q] = <<batch[j].id, l>>
    BY <1>2
  <2>3. batch[i].id = batch[j].id /\ k = l
    BY <1>3, <2>1, <2>2
  <2> QED
    BY <2>1, <2>2, <2>3 DEF Distinct
<1>4. ASSUME NEW p \in 1..Len(all) PROVE all[p] # Stray /\ all[p][1] \in IdsOf(batch)
  <2>1. PICK i \in DOMAIN batch, k \in Nat : k # 0 /\ all[p] = <<batch[i].id, k>>
    BY <1>2
  <2> QED
    BY <2>1 DEF Stray, IdsOf
<1> QED
  BY <1>1, <1>3, <1>4 DEF TextsInPlace, all

\* Whatever array comes back, its vectors are those of texts, each once, or Stray.
ArrayOf(array, texts) ==
    /\ array \in Seq(AText)
    /\ Len(array) = Len(texts) => array = texts
    /\ \A p \in 1..Len(array) :
         array[p] # Stray => \E x \in 1..Len(texts) : array[p] = texts[x]
    /\ \A p, q \in 1..Len(array) : array[p] # Stray /\ array[p] = array[q] => p = q

LEMMA ArraysAreOfTexts ==
    ASSUME NEW texts \in Seq(AText), NEW kind, NEW array \in Arrays(texts, kind),
           \A p, q \in 1..Len(texts) : texts[p] = texts[q] => p = q
    PROVE  ArrayOf(array, texts)
<1> DEFINE n == Len(texts)
<1>0. n \in Nat /\ \A p \in 1..n : texts[p] \in AText
  BY ElementOfSeq
<1>1. CASE array = texts
  BY <1>1 DEF ArrayOf
<1>2. ASSUME NEW m \in 1..n, array = RemoveAt(texts, m) PROVE ArrayOf(array, texts)
  <2> DEFINE before == SubSeq(texts, 1, m - 1)
             after == SubSeq(texts, m + 1, n)
             from(p) == IF p <= m - 1 THEN p ELSE p + 1
  <2>1. /\ before \in Seq(AText) /\ Len(before) = m - 1
        /\ \A p \in 1..(m - 1) : before[p] = texts[p]
    <3>1. 1 \in Int /\ m - 1 \in Int /\ \A p \in 1..(m - 1) : texts[p] \in AText
      BY <1>0
    <3>2. /\ before \in Seq(AText) /\ Len(before) = IF 1 <= m - 1 THEN (m - 1) - 1 + 1 ELSE 0
          /\ \A p \in 1..((m - 1) - 1 + 1) : before[p] = texts[1 + p - 1]
      BY <3>1, SubSeqProperties
    <3> QED
      BY <1>0, <3>2
  <2>2. /\ after \in Seq(AText) /\ Len(after) = n - m
        /\ \A p \in 1..(n - m) : after[p] = texts[m + p]
    <3>1. m + 1 \in Int /\ n \in Int /\ \A p \in (m + 1)..n : texts[p] \in AText
      BY <1>0
    <3>2. /\ after \in Seq(AText) /\ Len(after) = IF m + 1 <= n THEN n - (m + 1) + 1 ELSE 0
          /\ \A p \in 1..(n - (m + 1) + 1) : after[p] = texts[(m + 1) + p - 1]
      BY <3>1, SubSeqProperties
    <3>3. ASSUME NEW p \in 1..(n - m) PROVE after[p] = texts[m + p]
      <4>1. p \in 1..(n - (m + 1) + 1) /\ (m + 1) + p - 1 = m + p
        BY <1>0
      <4> QED
        BY <3>2, <4>1
    <3> QED
      BY <1>0, <3>2, <3>3
  <2>3. array = before \o after
    BY <1>2 DEF RemoveAt
  <2> HIDE DEF before, after, n
  <2>4. /\ array \in Seq(AText) /\ Len(array) = n - 1
        /\ \A p \in 1..(n - 1) : array[p] = IF p <= m - 1 THEN before[p] ELSE after[p - (m - 1)]
    <3>1. /\ before \o after \in Seq(AText) /\ Len(before \o after) = Len(before) + Len(after)
          /\ \A p \in 1..Len(before) + Len(after) : (before \o after)[p] =
                IF p <= Len(before) THEN before[p] ELSE after[p - Len(before)]
      BY <2>1, <2>2, ConcatProperties
    <3>2. Len(before) + Len(after) = n - 1
      BY <1>0, <2>1, <2>2
    <3> QED
      BY <2>1, <2>3, <3>1, <3>2
  <2>5. ASSUME NEW p \in 1..(n - 1) PROVE from(p) \in 1..n /\ array[p] = texts[from(p)]
    <3>1. CASE p <= m - 1
      BY <1>0, <2>1, <2>4, <3>1
    <3>2. CASE ~(p <= m - 1)
      <4>1. p - (m - 1) \in 1..(n - m) /\ m + (p - (m - 1)) = p + 1 /\ p + 1 \in 1..n
        BY <1>0, <3>2
      <4>2. array[p] = after[p - (m - 1)]
        BY <2>4, <3>2
      <4>3. after[p - (m - 1)] = texts[p + 1]
        BY <2>2, <4>1
      <4> QED
        BY <3>2, <4>1, <4>2, <4>3
    <3> QED
      BY <3>1, <3>2
  <2>6. \A p, q \in 1..(n - 1) : from(p) = from(q) => p = q
    BY <1>0
  <2> HIDE DEF from
  <2>7. \A p, q \in 1..(n - 1) : array[p] = array[q] => p = q
    BY <2>5, <2>6 DEF n
  <2>8. n - 1 # n
    BY <1>0
  <2> QED
    BY <2>4, <2>5, <2>7, <2>8 DEF ArrayOf, n
<1>3. ASSUME NEW m \in 1..(n + 1), array = InsertAt(texts, m, Stray) PROVE ArrayOf(array, texts)
  <2> DEFINE before == SubSeq(texts, 1, m - 1)
             upto == before \o <<Stray>>
             after == SubSeq(texts, m, n)
             from(p) == IF p <= m - 1 THEN p ELSE p - 1
  <2>0. Stray \in AText
    BY DEF Stray, AText
  <2>1. /\ before \in Seq(AText) /\ Len(before) = m - 1
        /\ \A p \in 1..(m - 1) : before[p] = texts[p]
    <3>1. 1 \in Int /\ m - 1 \in Int /\ \A p \in 1..(m - 1) : texts[p] \in AText
      BY <1>0
    <3>2. /\ before \in Seq(AText) /\ Len(before) = IF 1 <= m - 1 THEN (m - 1) - 1 + 1 ELSE 0
          /\ \A p \in 1..((m - 1) - 1 + 1) : before[p] = texts[1 + p - 1]
      BY <3>1, SubSeqProperties
    <3> QED
      BY <1>0, <3>2
  <2>2. /\ after \in Seq(AText) /\ Len(after) = n - m + 1
        /\ \A p \in 1..(n - m + 1) : after[p] = texts[m + p - 1]
    <3>1. m \in Int /\ n \in Int /\ \A p \in m..n : texts[p] \in AText
      BY <1>0
    <3>2. /\ after \in Seq(AText) /\ Len(after) = IF m <= n THEN n - m + 1 ELSE 0
          /\ \A p \in 1..(n - m + 1) : after[p] = texts[m + p - 1]
      BY <3>1, SubSeqProperties
    <3> QED
      BY <1>0, <3>2
  <2>3. array = upto \o after
    BY <1>3 DEF InsertAt
  <2> HIDE DEF before, after, n
  <2>4. /\ upto \in Seq(AText) /\ Len(upto) = m
        /\ \A p \in 1..m : upto[p] = IF p <= m - 1 THEN before[p] ELSE Stray
    <3>1. <<Stray>> \in Seq(AText) /\ Len(<<Stray>>) = 1 /\ <<Stray>>[1] = Stray
      BY <2>0
    <3>2. /\ upto \in Seq(AText) /\ Len(upto) = Len(before) + 1
          /\ \A p \in 1..Len(before) + 1 : upto[p] =
                IF p <= Len(before) THEN before[p] ELSE <<Stray>>[p - Len(before)]
      <4>1. before \in Seq(AText) /\ <<Stray>> \in Seq(AText)
        BY <2>1, <3>1
      <4>2. /\ before \o <<Stray>> \in Seq(AText)
            /\ Len(before \o <<Stray>>) = Len(before) + Len(<<Stray>>)
            /\ \A p \in 1..Len(before) + Len(<<Stray>>) : (before \o <<Stray>>)[p] =
                  IF p <= Len(before) THEN before[p] ELSE <<Stray>>[p - Len(before)]
        BY <4>1, ConcatProperties
      <4> QED
        BY <3>1, <4>2
    <3>3. Len(before) + 1 = m
      BY <1>0, <2>1
    <3>4. ASSUME NEW p \in 1..m PROVE upto[p] = IF p <= m - 1 THEN before[p] ELSE Stray
      <4>1. ~(p <= m - 1) => p - (m - 1) = 1
        BY <1>0
      <4> QED
        BY <2>1, <3>1, <3>2, <3>3, <4>1
    <3> QED
      BY <3>2, <3>3, <3>4
  <2> HIDE DEF upto
  <2>5. /\ array \in Seq(AText) /\ Len(array) = n + 1
        /\ \A p \in 1..(n + 1) : array[p] = IF p <= m THEN upto[p] ELSE after[p - m]
    <3>1. /\ upto \o after \in Seq(AText) /\ Len(upto \o after) = Len(upto) + Len(after)
          /\ \A p \in 1..Len(upto) + Len(after) : (upto \o after)[p] =
                IF p <= Len(upto) THEN upto[p] ELSE after[p - Len(upto)]
      <4>1. upto \in Seq(AText) /\ after \in Seq(AText)
        BY <2>2, <2>4
      <4> QED
        BY <4>1, ConcatProperties
    <3>2. Len(upto) + Len(after) = n + 1
      BY <1>0, <2>2, <2>4
    <3> QED
      BY <2>3, <2>4, <3>1, <3>2
  <2>6. ASSUME NEW p \in 1..(n + 1), array[p] # Stray
        PROVE  p # m /\ from(p) \in 1..n /\ array[p] = texts[from(p)]
    <3>1. CASE p <= m - 1
      BY <1>0, <2>1, <2>4, <2>5, <3>1
    <3>2. CASE p = m
      <4>1. p \in 1..m /\ ~(p <= m - 1) /\ p <= m
        BY <1>0, <3>2
      <4>2. array[p] = Stray
        BY <2>4, <2>5, <4>1
      <4> QED
        BY <2>6, <4>2
    <3>3. CASE m < p
      <4>1. p - m \in 1..(n - m + 1) /\ m + (p - m) - 1 = p - 1 /\ p - 1 \in 1..n
            /\ ~(p <= m) /\ ~(p <= m - 1)
        BY <1>0, <3>3
      <4>2. array[p] = after[p - m]
        BY <2>5, <4>1
      <4>3. after[p - m] = texts[p - 1]
        BY <2>2, <4>1
      <4> QED
        BY <3>3, <4>1, <4>2, <4>3
    <3> QED
      BY <1>0, <3>1, <3>2, <3>3
  <2>7. \A p, q \in 1..(n + 1) : p # m /\ q # m /\ from(p) = from(q) => p = q
    BY <1>0
  <2> HIDE DEF from
  <2>8. \A p, q \in 1..(n + 1) : array[p] # Stray /\ array[p] = array[q] => p = q
    BY <2>6, <2>7 DEF n
  <2>9. n + 1 # n
    BY <1>0
  <2> QED
    BY <2>5, <2>6, <2>8, <2>9 DEF ArrayOf, n
<1> QED
  BY <1>1, <1>2, <1>3 DEF Arrays

\* A slice lies within the places of its request.
LEMMA SliceLies ==
    ASSUME NEW batch \in Seq(Waiting), NEW i \in DOMAIN batch, NEW array \in Seq(AText)
    PROVE  LET lo == Offset(batch, i)
               slice == SliceOf(array, batch, i)
           IN  /\ lo \in Nat /\ batch[i].size \in Nat
               /\ slice \in Seq(AText)
               /\ lo + batch[i].size <= Len(array) => Len(slice) = batch[i].size
               /\ \A k \in 1..Len(slice) : /\ k \in 1..batch[i].size
                                           /\ lo + k \in 1..Len(array)
                                           /\ slice[k] = array[lo + k]
<1> DEFINE lo == Offset(batch, i)
           size == batch[i].size
           n == Len(array)
           hi == Least(n, lo + size)
           slice == SliceOf(array, batch, i)
<1>1. lo \in Nat /\ size \in Nat /\ n \in Nat
  <2>1. TextsInPlace(batch, AllTexts(batch))
    BY AllTextsInPlace
  <2>2. batch[i] \in Waiting
    OBVIOUS
  <2> QED
    BY <2>1, <2>2 DEF TextsInPlace, Waiting
<1>2. hi \in Nat /\ hi <= n /\ hi <= lo + size /\ (lo + size <= n => hi = lo + size)
  BY <1>1 DEF Least
<1>3. slice = SubSeq(array, lo + 1, hi)
  BY DEF SliceOf
<1> HIDE DEF lo, size, hi, slice, n
<1>4. lo + 1 \in Int /\ hi \in Int /\ \A k \in (lo + 1)..hi : array[k] \in AText
  <2>1. \A k \in 1..n : array[k] \in AText
    BY ElementOfSeq DEF n
  <2>2. (lo + 1)..hi \subseteq 1..n
    BY <1>1, <1>2
  <2> QED
    BY <1>1, <1>2, <2>1, <2>2
<1>5. /\ slice \in Seq(AText)
      /\ Len(slice) = IF lo + 1 <= hi THEN hi - (lo + 1) + 1 ELSE 0
      /\ \A k \in 1..(hi - (lo + 1) + 1) : slice[k] = array[(lo + 1) + k - 1]
  BY <1>3, <1>4, SubSeqProperties
<1>6. lo + size <= n => Len(slice) = size
  BY <1>1, <1>2, <1>5
<1>7. ASSUME NEW k \in 1..Len(slice)
      PROVE  k \in 1..size /\ lo + k \in 1..n /\ slice[k] = array[lo + k]
  <2>1. k \in 1..(hi - (lo + 1) + 1) /\ (lo + 1) + k - 1 = lo + k
    BY <1>1, <1>2, <1>5
  <2>2. k \in 1..size /\ lo + k \in 1..n
    BY <1>1, <1>2, <2>1
  <2> QED
    BY <1>5, <2>1, <2>2
<1> QED
  BY <1>1, <1>5, <1>6, <1>7 DEF lo, size, slice, n

\* Of an array with a vector per text, a request gets its own.
LEMMA SliceIsOwn ==
    ASSUME NEW batch \in Seq(Waiting), NEW i \in DOMAIN batch
    PROVE  SliceOf(AllTexts(batch), batch, i) = [k \in 1..batch[i].size |-> <<batch[i].id, k>>]
<1> DEFINE all == AllTexts(batch)
           lo == Offset(batch, i)
           size == batch[i].size
           slice == SliceOf(all, batch, i)
<1>1. TextsInPlace(batch, all)
  BY AllTextsInPlace
<1>2. all \in Seq(AText) /\ lo + size <= Len(all)
      /\ \A k \in 1..size : all[lo + k] = <<batch[i].id, k>>
  BY <1>1 DEF TextsInPlace
<1>3. /\ size \in Nat /\ slice \in Seq(AText) /\ Len(slice) = size
      /\ \A k \in 1..Len(slice) : slice[k] = all[lo + k]
  BY <1>2, SliceLies
<1> HIDE DEF all, slice, size, lo
<1>4. DOMAIN slice = 1..size /\ slice = [k \in DOMAIN slice |-> slice[k]]
  BY <1>3
<1>5. \A k \in 1..size : slice[k] = <<batch[i].id, k>>
  BY <1>2, <1>3
<1> QED
  BY <1>4, <1>5 DEF slice, all, size

\* Two requests of a batch have no place in common, hence no vector.
LEMMA SlicesDisjoint ==
    ASSUME NEW batch \in Seq(Waiting), Distinct(batch), NEW i \in DOMAIN batch,
           NEW j \in DOMAIN batch, i # j,
           NEW array, ArrayOf(array, AllTexts(batch))
    PROVE  ToSet(SliceOf(array, batch, i)) \cap ToSet(SliceOf(array, batch, j)) \subseteq {Stray}
<1> SUFFICES ASSUME NEW v \in ToSet(SliceOf(array, batch, i)), v \in ToSet(SliceOf(array, batch, j)),
                    v # Stray
             PROVE  FALSE
  OBVIOUS
<1> DEFINE all == AllTexts(batch)
<1>1. TextsInPlace(batch, all) /\ array \in Seq(AText)
  BY AllTextsInPlace DEF ArrayOf
<1>2. /\ DOMAIN SliceOf(array, batch, i) = 1..Len(SliceOf(array, batch, i))
      /\ DOMAIN SliceOf(array, batch, j) = 1..Len(SliceOf(array, batch, j))
  BY <1>1, SliceLies
<1>3. PICK k \in 1..Len(SliceOf(array, batch, i)) : SliceOf(array, batch, i)[k] = v
  BY <1>2 DEF ToSet
<1>4. PICK l \in 1..Len(SliceOf(array, batch, j)) : SliceOf(array, batch, j)[l] = v
  BY <1>2 DEF ToSet
<1>5. /\ Offset(batch, i) \in Nat /\ k \in 1..batch[i].size /\ batch[i].size \in Nat
      /\ Offset(batch, i) + k \in 1..Len(array) /\ array[Offset(batch, i) + k] = v
  BY <1>1, <1>3, SliceLies
<1>6. /\ Offset(batch, j) \in Nat /\ l \in 1..batch[j].size /\ batch[j].size \in Nat
      /\ Offset(batch, j) + l \in 1..Len(array) /\ array[Offset(batch, j) + l] = v
  BY <1>1, <1>4, SliceLies
<1>7. Offset(batch, i) + k = Offset(batch, j) + l
  BY <1>5, <1>6 DEF ArrayOf
<1>8. /\ all[Offset(batch, i) + k] = <<batch[i].id, k>>
      /\ all[Offset(batch, j) + l] = <<batch[j].id, l>>
  BY <1>1, <1>5, <1>6 DEF TextsInPlace
<1> HIDE DEF all
<1>9. batch[i].id = batch[j].id
  BY <1>7, <1>8
<1> QED
  BY <1>9 DEF Distinct

----------------------------------------------------------------------------
(* The candidates of a batch *)

\* getHealthyNodes() returns every healthy node once.
LEMMA PermutationTypes ==
    ASSUME NEW s \in ByLatency
    PROVE  s \in Seq(Ids) /\ Len(s) = Cardinality(HealthyNodes) /\ IsInjective(s)
<1>1. IsFiniteSet(HealthyNodes) /\ HealthyNodes \subseteq Ids
  BY CoalescerAssumption, FS_Subset DEF HealthyNodes
<1>2. Cardinality(HealthyNodes) \in Nat
  BY <1>1, FS_CardinalityType
<1>3. /\ s \in [1..Cardinality(HealthyNodes) -> HealthyNodes]
      /\ \A i, j \in 1..Cardinality(HealthyNodes) : i # j => s[i] # s[j]
  BY DEF ByLatency, SetToSeqs
<1>4. s \in Seq(Ids) /\ Len(s) = Cardinality(HealthyNodes)
  BY <1>1, <1>2, <1>3
<1> QED
  BY <1>3, <1>4 DEF IsInjective

\* The candidates of a batch are different nodes, as many as are healthy, up to MaxHops.
LEMMA CandidatesType ==
    ASSUME NEW byLatency \in ByLatency, NEW batch
    PROVE  /\ Candidates(byLatency, batch) \in Seq(Ids)
           /\ IsInjective(Candidates(byLatency, batch))
           /\ Len(Candidates(byLatency, batch)) = Least(Cardinality(HealthyNodes), MaxHops)
<1>1. byLatency \in Seq(Ids) /\ Len(byLatency) = Cardinality(HealthyNodes) /\ IsInjective(byLatency)
  BY PermutationTypes
<1> DEFINE Preferred(n) == UrlOf[n] = RemoteUrl /\ Len(AllTexts(batch)) >= MinTexts
           preferred == {i \in 1..Len(byLatency) : Preferred(byLatency[i])}
           first == SelectInSeq(byLatency, Preferred)
           ordered == ToFront(byLatency, first)
<1>2. Len(byLatency) \in Nat /\ DOMAIN byLatency = 1..Len(byLatency)
  BY <1>1
<1>3. first = IF preferred # {} THEN Min(preferred) ELSE 0
  BY DEF SelectInSeq
<1>4. first = 0 \/ first \in DOMAIN byLatency
  <2>1. CASE preferred # {}
    <3>0. preferred \in SUBSET Nat
      BY <1>2
    <3>1. \E i \in preferred : \A j \in preferred : i <= j
      <4> HIDE DEF preferred
      <4> QED
        BY <2>1, <3>0, Joined!LeastNumber
    <3>2. Min(preferred) \in preferred
      BY <3>1 DEF Min
    <3> QED
      BY <1>2, <1>3, <2>1, <3>2
  <2> QED
    BY <1>3, <2>1
<1>5. Candidates(byLatency, batch) = SubSeq(ordered, 1, Least(Len(ordered), MaxHops))
  BY DEF Candidates
<1> HIDE DEF first
<1>6. ordered \in Seq(Ids) /\ Len(ordered) = Len(byLatency) /\ IsInjective(ordered)
  <2> DEFINE t == <<byLatency[first]>> \o RemoveAt(byLatency, first)
  <2>1. ASSUME first \in DOMAIN byLatency
        PROVE  t \in Seq(Ids) /\ Len(t) = Len(byLatency) /\ IsInjective(t)
    BY <1>1, <2>1, Joined!MovedToFront
    DEF RemoveAt, Joined!RemoveAt, IsInjective, Joined!IsInjective
  <2> QED
    BY <1>1, <1>4, <2>1 DEF ToFront
<1> HIDE DEF ordered
<1> DEFINE hops == Least(Len(ordered), MaxHops)
<1>7. hops \in Nat /\ hops <= Len(ordered) /\ Len(ordered) \in Nat
  BY <1>2, <1>6, CoalescerAssumption DEF Least
<1>8. DOMAIN ordered = 1..Len(ordered)
  BY <1>6
<1> HIDE DEF hops
<1>9. /\ SubSeq(ordered, 1, hops) \in Seq(Ids) /\ Len(SubSeq(ordered, 1, hops)) = hops
      /\ DOMAIN SubSeq(ordered, 1, hops) = 1..hops
      /\ \A k \in 1..hops : SubSeq(ordered, 1, hops)[k] = ordered[k]
  BY <1>6, <1>7
<1>10. IsInjective(SubSeq(ordered, 1, hops))
  BY <1>6, <1>7, <1>8, <1>9 DEF IsInjective
<1> QED
  BY <1>1, <1>5, <1>6, <1>9, <1>10 DEF hops

----------------------------------------------------------------------------
(* Starting flushes *)

Flushes == [batch : Seq(Waiting), candidates : Seq(Ids), tried : SUBSET Ids, seen : SUBSET Ids]

\* A flush of new carries a batch of its own, and its candidates are what was healthy.
NewFlushes(new, q) ==
    /\ IsFiniteSet(new) /\ new \subseteq Flushes
    /\ \A f \in new : /\ f.batch # <<>> /\ Len(f.batch) <= Target /\ Distinct(f.batch)
                      /\ IdsOf(f.batch) \subseteq IdsOf(q)
                      /\ f.tried = {} /\ IsInjective(f.candidates)
                      /\ Len(f.candidates) = Least(Cardinality(f.seen), MaxHops)
    /\ \A f, g \in new : f # g => IdsOf(f.batch) \cap IdsOf(g.batch) = {}

\* They took from q what is not in the queue any more.
TakenFrom(q, new) ==
    /\ queue' \in Seq(Waiting) /\ Distinct(queue')
    /\ IdsOf(queue') \subseteq IdsOf(q)
    /\ \A f \in new : IdsOf(f.batch) \cap IdsOf(queue') = {}
    /\ \A r \in IdsOf(q) \ IdsOf(queue') : \E f \in new : r \in IdsOf(f.batch)

\* The requests of those that found no candidate are rejected.
RejectedAtOnce(new) ==
    /\ DOMAIN reply' = 1..Requests
    /\ \A r \in 1..Requests :
          \/ \E f \in new : /\ f.candidates = <<>> /\ r \in IdsOf(f.batch)
                            /\ reply'[r] = Rejection(f)
          \/ /\ \A f \in new : f.candidates = <<>> => r \notin IdsOf(f.batch)
             /\ reply'[r] = reply[r]

\* What maybeFlush() does, without the arithmetic.
LEMMA MaybeFlushStarts ==
    ASSUME NEW q \in Seq(Waiting), Distinct(q), NEW active \in Int, active <= Parallel,
           NEW running, MaybeFlush(q, active, running)
    PROVE  \E new : /\ NewFlushes(new, q) /\ TakenFrom(q, new) /\ RejectedAtOnce(new)
                    /\ flushes' = running \cup new
                    /\ activeFlushes' = active + Cardinality(new)
                    /\ inflight' = [n \in Ids |-> inflight[n] +
                         Cardinality({f \in new : f.candidates # <<>> /\ Head(f.candidates) = n})]
<1> DEFINE batches == (Len(q) + Target - 1) \div Target
           started == Least(Parallel - active, batches)
           F(byLatency, i) == Flush(Batch(q, i), Candidates(byLatency, Batch(q, i)), {}, HealthyNodes)
<1>1. PICK byLatency \in ByLatency :
          LET new == {F(byLatency, i) : i \in 1..started}
              over == {f \in new : f.candidates = <<>>}
          IN  /\ queue' = Rest(q, started)
              /\ activeFlushes' = active + started
              /\ flushes' = running \cup new
              /\ inflight' = [n \in Ids |-> inflight[n] +
                                Cardinality({f \in new \ over : Head(f.candidates) = n})]
              /\ reply' = [r \in 1..Requests |->
                             IF \E f \in over : r \in IdsOf(f.batch)
                             THEN Rejection(CHOOSE f \in over : r \in IdsOf(f.batch))
                             ELSE reply[r]]
  BY DEF MaybeFlush, StartFlushes, Rest
<1>2. started \in Nat /\ \A i \in 1..started : (i - 1) * Target < Len(q)
  <2>1. /\ Target \in Nat \ {0} /\ Len(q) \in Nat /\ Parallel - active \in Nat
        /\ Len(q) + Target - 1 \in Nat
    BY CoalescerAssumption
  <2>2. batches \in Nat /\ batches * Target <= Len(q) + Target - 1
    BY <2>1, DivBounds
  <2> HIDE DEF batches
  <2>3. started \in Nat /\ started <= batches
    BY <2>1, <2>2 DEF Least
  <2> HIDE DEF started
  <2>4. ASSUME NEW i \in 1..started PROVE (i - 1) * Target < Len(q)
    <3>1. (i - 1) * Target + Target <= batches * Target
      <4>1. i - 1 \in Nat /\ i - 1 < batches
        BY <2>2, <2>3
      <4> QED
        BY <2>1, <2>2, <4>1, Rows
    <3>2. (i - 1) * Target \in Nat /\ batches * Target \in Nat
      BY <2>1, <2>2, <2>3
    <3> QED
      BY <2>1, <2>2, <3>1, <3>2
  <2> QED
    BY <2>3, <2>4
<1> DEFINE f(i) == F(byLatency, i)
           new == {f(i) : i \in 1..started}
           over == {g \in new : g.candidates = <<>>}
<1> HIDE DEF started
<1>3. /\ \A i \in 1..started : /\ Batch(q, i) \in Seq(Waiting) /\ Batch(q, i) # <<>>
                               /\ Len(Batch(q, i)) <= Target
                               /\ Distinct(Batch(q, i))
                               /\ IdsOf(Batch(q, i)) \subseteq IdsOf(q)
                               /\ IdsOf(Batch(q, i)) \cap IdsOf(Rest(q, started)) = {}
      /\ \A i, j \in 1..started : i # j => IdsOf(Batch(q, i)) \cap IdsOf(Batch(q, j)) = {}
      /\ Rest(q, started) \in Seq(Waiting) /\ Distinct(Rest(q, started))
      /\ IdsOf(Rest(q, started)) \subseteq IdsOf(q)
      /\ \A r \in IdsOf(q) \ IdsOf(Rest(q, started)) : \E i \in 1..started : r \in IdsOf(Batch(q, i))
  BY <1>2, Divided
<1>4. ASSUME NEW i \in 1..started
      PROVE  /\ f(i) \in Flushes /\ f(i).batch = Batch(q, i) /\ f(i).tried = {}
             /\ IsInjective(f(i).candidates)
             /\ Len(f(i).candidates) = Least(Cardinality(f(i).seen), MaxHops)
  <2>1. Batch(q, i) \in Seq(Waiting) /\ {} \in SUBSET Ids /\ HealthyNodes \in SUBSET Ids
    BY <1>3 DEF HealthyNodes
  <2>2. /\ Candidates(byLatency, Batch(q, i)) \in Seq(Ids)
        /\ IsInjective(Candidates(byLatency, Batch(q, i)))
        /\ Len(Candidates(byLatency, Batch(q, i))) = Least(Cardinality(HealthyNodes), MaxHops)
    BY CandidatesType
  <2> QED
    BY <2>1, <2>2 DEF Flush, Flushes
<1> HIDE DEF f
<1>5. ASSUME NEW i \in 1..started PROVE IdsOf(Batch(q, i)) # {}
  <2>1. Batch(q, i) \in Seq(Waiting) /\ Batch(q, i) # <<>>
    BY <1>3
  <2>2. 1 \in DOMAIN Batch(q, i)
    BY <2>1
  <2> QED
    BY <2>2 DEF IdsOf
<1>6. \A i, j \in 1..started : f(i) = f(j) => i = j
  BY <1>3, <1>4, <1>5
<1>7. IsFiniteSet(new) /\ Cardinality(new) = started
  <2>1. [i \in 1..started |-> f(i)] \in Bijection(1..started, new)
    BY <1>6 DEF Bijection, Injection, Surjection, IsInjective
  <2>2. IsFiniteSet(1..started) /\ Cardinality(1..started) = started
    BY <1>2, FS_Interval
  <2>3. ExistsBijection(1..started, new)
    BY <2>1 DEF ExistsBijection
  <2> QED
    BY <2>2, <2>3, FS_Bijection
<1>8. NewFlushes(new, q)
  BY <1>3, <1>4, <1>7 DEF NewFlushes
<1>9. TakenFrom(q, new)
  BY <1>1, <1>3, <1>4 DEF TakenFrom
<1>10. /\ flushes' = running \cup new /\ activeFlushes' = active + started
       /\ inflight' = [n \in Ids |-> inflight[n] +
                         Cardinality({g \in new \ over : Head(g.candidates) = n})]
       /\ reply' = [r \in 1..Requests |->
                      IF \E g \in over : r \in IdsOf(g.batch)
                      THEN Rejection(CHOOSE g \in over : r \in IdsOf(g.batch))
                      ELSE reply[r]]
  BY <1>1 DEF f
<1> HIDE DEF new
<1>11. RejectedAtOnce(new)
  <2>1. DOMAIN reply' = 1..Requests
    BY <1>10
  <2>2. ASSUME NEW r \in 1..Requests
        PROVE  \/ \E g \in new : /\ g.candidates = <<>> /\ r \in IdsOf(g.batch)
                                 /\ reply'[r] = Rejection(g)
               \/ /\ \A g \in new : g.candidates = <<>> => r \notin IdsOf(g.batch)
                  /\ reply'[r] = reply[r]
    <3>1. CASE \E g \in over : r \in IdsOf(g.batch)
      <4> DEFINE h == CHOOSE g \in over : r \in IdsOf(g.batch)
      <4>1. h \in over /\ r \in IdsOf(h.batch)
        BY <3>1
      <4>2. reply'[r] = Rejection(h)
        BY <1>10, <3>1
      <4> QED
        BY <4>1, <4>2
    <3>2. CASE ~\E g \in over : r \in IdsOf(g.batch)
      BY <1>10, <3>2
    <3> QED
      BY <3>1, <3>2
  <2> QED
    BY <2>1, <2>2 DEF RejectedAtOnce
<1>12. \A n : {g \in new \ over : Head(g.candidates) = n}
               = {g \in new : g.candidates # <<>> /\ Head(g.candidates) = n}
  OBVIOUS
<1>13. inflight' = [n \in Ids |-> inflight[n] +
                      Cardinality({g \in new : g.candidates # <<>> /\ Head(g.candidates) = n})]
  BY <1>10, <1>12
<1> QED
  BY <1>7, <1>8, <1>9, <1>10, <1>11, <1>13

----------------------------------------------------------------------------
(* Where the requests are *)

\* Every request up to the last is in the queue q, in one batch of fs, or settled.
Placed(q, fs, last) ==
    /\ q \in Seq(Waiting) /\ Distinct(q)
    /\ IdsOf(q) \subseteq 1..last
    /\ fs \subseteq Flushes
    /\ \A f \in fs : /\ f.batch # <<>> /\ Len(f.batch) <= Target /\ Distinct(f.batch)
                     /\ IdsOf(f.batch) \subseteq 1..last
                     /\ IdsOf(f.batch) \cap IdsOf(q) = {}
    /\ \A f, g \in fs : f # g => IdsOf(f.batch) \cap IdsOf(g.batch) = {}

\* The requests that wait are those to come, the queued ones and those being sent.
Unsettled(r, q, fs, last) ==
    \/ r > last
    \/ r \in IdsOf(q)
    \/ \E f \in fs : f.candidates # <<>> /\ r \in IdsOf(f.batch)

Settles(answers, q, fs, last) ==
    \A r \in 1..Requests : answers[r].status = "waiting" <=> Unsettled(r, q, fs, last)

PlaceInv ==
    /\ WakeupInv
    /\ submitted <= Requests
    /\ Placed(queue, flushes, submitted)
    /\ Settles(reply, queue, flushes, submitted)

\* Starting flushes keeps every request in its one place.
LEMMA FlushPlaces ==
    ASSUME NEW q, NEW running, NEW last \in Nat, NEW active \in Int, active <= Parallel,
           Placed(q, running, last), Settles(reply, q, running, last),
           MaybeFlush(q, active, running)
    PROVE  /\ Placed(queue', flushes', last)
           /\ Settles(reply', queue', flushes', last)
           /\ \A r \in 1..Requests : reply[r].status # "waiting" => reply'[r] = reply[r]
<1>1. q \in Seq(Waiting) /\ Distinct(q)
  BY DEF Placed
<1>2. PICK new : /\ NewFlushes(new, q) /\ TakenFrom(q, new) /\ RejectedAtOnce(new)
                 /\ flushes' = running \cup new
  BY <1>1, MaybeFlushStarts
<1>3. \A f \in running : IdsOf(f.batch) \cap IdsOf(q) = {}
  BY DEF Placed
<1>4. \A f \in new : IdsOf(f.batch) \subseteq IdsOf(q) /\ IdsOf(f.batch) \cap IdsOf(queue') = {}
  BY <1>2 DEF NewFlushes, TakenFrom
<1>5. IdsOf(queue') \subseteq IdsOf(q)
  BY <1>2 DEF TakenFrom
<1>6. Placed(queue', flushes', last)
  <2>1. queue' \in Seq(Waiting) /\ Distinct(queue') /\ IdsOf(queue') \subseteq 1..last
    BY <1>2, <1>5 DEF Placed, TakenFrom
  <2>2. flushes' \subseteq Flushes
    BY <1>2 DEF Placed, NewFlushes
  <2>3. ASSUME NEW f \in flushes'
        PROVE  /\ f.batch # <<>> /\ Len(f.batch) <= Target /\ Distinct(f.batch)
               /\ IdsOf(f.batch) \subseteq 1..last
               /\ IdsOf(f.batch) \cap IdsOf(queue') = {}
    <3>1. CASE f \in running
      BY <3>1, <1>3, <1>5 DEF Placed
    <3>2. CASE f \in new
      BY <3>2, <1>2, <1>4 DEF Placed, NewFlushes
    <3> QED
      BY <1>2, <3>1, <3>2
  <2>4. ASSUME NEW f \in flushes', NEW g \in flushes', f # g
        PROVE  IdsOf(f.batch) \cap IdsOf(g.batch) = {}
    <3>1. CASE f \in running /\ g \in running
      BY <3>1, <2>4 DEF Placed
    <3>2. CASE f \in new /\ g \in new
      BY <3>2, <2>4, <1>2 DEF NewFlushes
    <3>3. CASE (f \in running /\ g \in new) \/ (f \in new /\ g \in running)
      BY <3>3, <1>3, <1>4
    <3> QED
      BY <1>2, <3>1, <3>2, <3>3
  <2> QED
    BY <2>1, <2>2, <2>3, <2>4 DEF Placed
<1>7. ASSUME NEW r \in 1..Requests
      PROVE  /\ reply'[r].status = "waiting" <=> Unsettled(r, queue', flushes', last)
             /\ reply[r].status # "waiting" => reply'[r] = reply[r]
  <2>1. reply[r].status = "waiting" <=> Unsettled(r, q, running, last)
    BY DEF Settles
  <2>2. CASE \E f \in new : /\ f.candidates = <<>> /\ r \in IdsOf(f.batch)
                            /\ reply'[r] = Rejection(f)
    <3>1. PICK f \in new : /\ f.candidates = <<>> /\ r \in IdsOf(f.batch)
                           /\ reply'[r] = Rejection(f)
      BY <2>2
    <3>2. reply'[r].status # "waiting"
      BY <3>1 DEF Rejection
    <3>3. r \in IdsOf(q) /\ r \notin IdsOf(queue')
      BY <3>1, <1>4
    <3>4. \A g \in flushes' : r \in IdsOf(g.batch) => g = f
      <4>1. f \in flushes'
        BY <1>2, <3>1
      <4> QED
        BY <1>6, <3>1, <4>1 DEF Placed
    <3>5. ~(r > last)
      BY <3>3 DEF Placed
    <3>6. ~Unsettled(r, queue', flushes', last)
      BY <3>1, <3>3, <3>4, <3>5 DEF Unsettled
    <3>7. reply[r].status = "waiting"
      BY <2>1, <3>3 DEF Unsettled
    <3> QED
      BY <3>2, <3>6, <3>7
  <2>3. CASE /\ \A f \in new : f.candidates = <<>> => r \notin IdsOf(f.batch)
             /\ reply'[r] = reply[r]
    <3>1. Unsettled(r, q, running, last) => Unsettled(r, queue', flushes', last)
      <4>1. r \in IdsOf(q) /\ r \notin IdsOf(queue') => \E f \in new : r \in IdsOf(f.batch)
        BY <1>2 DEF TakenFrom
      <4> QED
        BY <1>2, <2>3, <4>1 DEF Unsettled
    <3>2. Unsettled(r, queue', flushes', last) => Unsettled(r, q, running, last)
      BY <1>2, <1>4, <1>5 DEF Unsettled
    <3> QED
      BY <2>1, <2>3, <3>1, <3>2
  <2> QED
    BY <1>2, <2>2, <2>3 DEF RejectedAtOnce
<1> QED
  BY <1>6, <1>7 DEF Settles

\* The next request joins the queue.
LEMMA Queued ==
    ASSUME PlaceInv, submitted < Requests, NEW size \in 1..MaxTexts
    PROVE  LET q == Append(queue, [id |-> submitted + 1, size |-> size])
           IN  /\ Placed(q, flushes, submitted + 1)
               /\ Settles(reply, q, flushes, submitted + 1)
<1> DEFINE item == [id |-> submitted + 1, size |-> size]
           q == Append(queue, item)
<1>1. /\ queue \in Seq(Waiting) /\ submitted \in Nat /\ item \in Waiting
      /\ Placed(queue, flushes, submitted)
  BY CoalescerAssumption DEF PlaceInv, WakeupInv, Waiting
<1>2. /\ q \in Seq(Waiting) /\ Len(queue) \in Nat /\ DOMAIN q = 1..(Len(queue) + 1)
      /\ DOMAIN queue = 1..Len(queue)
      /\ \A k \in 1..Len(queue) : q[k] = queue[k]
      /\ q[Len(queue) + 1] = item
  BY <1>1
<1>3. item.id = submitted + 1
  OBVIOUS
<1> HIDE DEF q, item
<1>4. \A k \in 1..Len(queue) : queue[k].id \in 1..submitted
  BY <1>1, <1>2 DEF Placed, IdsOf
<1>5. IdsOf(q) = IdsOf(queue) \cup {submitted + 1}
  <2>1. \A k \in DOMAIN q : k \in 1..Len(queue) \/ k = Len(queue) + 1
    BY <1>2
  <2>2. \A k \in DOMAIN queue : k \in DOMAIN q
    BY <1>2
  <2>3. Len(queue) + 1 \in DOMAIN q
    BY <1>2
  <2> QED
    BY <1>2, <1>3, <2>1, <2>2, <2>3 DEF IdsOf
<1>6. Distinct(q)
  <2> SUFFICES ASSUME NEW i \in DOMAIN q, NEW j \in DOMAIN q, q[i].id = q[j].id PROVE i = j
    BY DEF Distinct
  <2>1. /\ i \in 1..Len(queue) \/ i = Len(queue) + 1
        /\ j \in 1..Len(queue) \/ j = Len(queue) + 1
    BY <1>2
  <2>2. submitted + 1 \notin 1..submitted
    BY <1>1
  <2>3. CASE i \in 1..Len(queue) /\ j \in 1..Len(queue)
    BY <1>1, <1>2, <2>3 DEF Placed, Distinct
  <2> QED
    BY <1>2, <1>3, <1>4, <2>1, <2>2, <2>3
<1>7. \A f \in flushes : IdsOf(f.batch) \subseteq 1..submitted
  BY <1>1 DEF Placed
<1>8. 1..submitted \subseteq 1..(submitted + 1) /\ submitted + 1 \notin 1..submitted
      /\ submitted + 1 \in 1..(submitted + 1)
  BY <1>1
<1>9. Placed(q, flushes, submitted + 1)
  BY <1>1, <1>2, <1>5, <1>6, <1>7, <1>8 DEF Placed
<1>10. Settles(reply, q, flushes, submitted + 1)
  <2> SUFFICES ASSUME NEW r \in 1..Requests
               PROVE  Unsettled(r, queue, flushes, submitted) <=> Unsettled(r, q, flushes, submitted + 1)
    BY DEF PlaceInv, Settles
  <2>1. r > submitted <=> r > submitted + 1 \/ r = submitted + 1
    BY <1>1
  <2> QED
    BY <1>5, <2>1 DEF Unsettled
<1> QED
  BY <1>9, <1>10 DEF q, item

\* A flush that goes on, or is over, keeps its batch.
Moved(f, g) ==
    /\ flushes' = (flushes \ {f}) \cup {g}
    /\ g \in Flushes /\ g.batch = f.batch
    /\ \A r \in 1..Requests :
         reply'[r] = reply[r] \/ (g.candidates = <<>> /\ r \in IdsOf(f.batch))
    /\ g.candidates = <<>> => \A r \in 1..Requests \cap IdsOf(f.batch) : reply'[r].status # "waiting"

\* It goes on with the next candidate, and its last failure rejects the callers.
Hopped(f, g) ==
    /\ g.seen = f.seen
    /\ g.candidates # <<>> => /\ g.candidates = Tail(f.candidates)
                              /\ g.tried = f.tried \cup {Head(f.candidates)}
    /\ inflight' = IF g.candidates = <<>> THEN Dec(inflight, Head(f.candidates))
                   ELSE Inc(Dec(inflight, Head(f.candidates)), Head(g.candidates))
    /\ \A r \in 1..Requests :
         \/ reply'[r] = reply[r]
         \/ reply'[r].status # "rejected"
         \/ /\ reply'[r] = Rejection(g) /\ Tail(f.candidates) = <<>>
            /\ g.tried = f.tried \cup {Head(f.candidates)}

\* The end of a call is one of those steps.
LEMMA CallMoves ==
    ASSUME PlaceInv, NEW f \in flushes, NEW kind, CallEnds(f, kind)
    PROVE  \E g : Moved(f, g) /\ Hopped(f, g)
<1>1. f \in Flushes /\ f.candidates # <<>> /\ f.candidates \in Seq(Ids) /\ f.batch \in Seq(Waiting)
      /\ f.tried \in SUBSET Ids /\ f.seen \in SUBSET Ids
  BY DEF PlaceInv, Placed, CallEnds, Calling, Flushes
<1>2. <<>> \in Seq(Ids) /\ Head(f.candidates) \in Ids /\ Tail(f.candidates) \in Seq(Ids)
  BY <1>1
<1>3. CASE Serve(f, kind)
  <2> DEFINE g == Flush(f.batch, <<>>, f.tried, f.seen)
  <2>1. g \in Flushes /\ g.batch = f.batch /\ g.candidates = <<>> /\ g.seen = f.seen
    BY <1>1, <1>2 DEF Flush, Flushes
  <2>2. flushes' = (flushes \ {f}) \cup {g}
    BY <1>3 DEF Serve
  <2>3. ASSUME NEW r \in 1..Requests
        PROVE  /\ r \in IdsOf(f.batch) => reply'[r].status # "waiting"
               /\ r \in IdsOf(f.batch) => reply'[r].status # "rejected"
               /\ r \notin IdsOf(f.batch) => reply'[r] = reply[r]
    <3>1. PICK array :
            reply' = [q \in 1..Requests |->
                        IF q \in IdsOf(f.batch)
                        THEN LET i == CHOOSE i \in DOMAIN f.batch : f.batch[i].id = q
                             IN  Vectors(SliceOf(array, f.batch, i), f.batch[i],
                                         Len(array) = Len(AllTexts(f.batch)))
                        ELSE reply[q]]
      BY <1>3 DEF Serve
    <3> QED
      BY <3>1 DEF Vectors
  <2>4. inflight' = Dec(inflight, Head(f.candidates))
    BY <1>3 DEF Serve
  <2> HIDE DEF g
  <2> QED
    BY <2>1, <2>2, <2>3, <2>4 DEF Moved, Hopped
<1>4. CASE Failover(f, kind)
  <2> DEFINE rest == Tail(f.candidates)
             g == Flush(f.batch, rest, f.tried \cup {Head(f.candidates)}, f.seen)
  <2>0. f.tried \cup {Head(f.candidates)} \in SUBSET Ids
    BY <1>1, <1>2
  <2>1. /\ g \in Flushes /\ g.batch = f.batch /\ g.candidates = rest /\ g.seen = f.seen
        /\ g.tried = f.tried \cup {Head(f.candidates)}
    BY <1>1, <1>2, <2>0 DEF Flush, Flushes
  <2>2. flushes' = (flushes \ {f}) \cup {g}
    BY <1>4 DEF Failover
  <2>3. ASSUME NEW r \in 1..Requests
        PROVE  /\ rest = <<>> /\ r \in IdsOf(f.batch) => reply'[r] = Rejection(g)
               /\ ~(rest = <<>> /\ r \in IdsOf(f.batch)) => reply'[r] = reply[r]
    BY <1>4 DEF Failover
  <2>4. inflight' = IF rest = <<>> THEN Dec(inflight, Head(f.candidates))
                    ELSE Inc(Dec(inflight, Head(f.candidates)), Head(rest))
    BY <1>4 DEF Failover
  <2> HIDE DEF g
  <2>5. Rejection(g).status # "waiting"
    BY DEF Rejection
  <2>6. Moved(f, g)
    BY <2>1, <2>2, <2>3, <2>5 DEF Moved
  <2>7. Hopped(f, g)
    BY <2>1, <2>3, <2>4 DEF Hopped
  <2> QED
    BY <2>6, <2>7
<1> QED
  BY <1>3, <1>4 DEF CallEnds

\* Nobody is anywhere at the start.
LEMMA PlaceInit == Init => PlaceInv
<1> SUFFICES ASSUME Init PROVE PlaceInv
  OBVIOUS
<1>1. queue = <<>> /\ flushes = {} /\ submitted = 0 /\ reply = [r \in 1..Requests |-> Pending]
  BY DEF Init
<1>2. IdsOf(queue) = {} /\ Distinct(queue)
  BY <1>1 DEF IdsOf, Distinct
<1>3. Placed(queue, flushes, submitted)
  BY <1>1, <1>2 DEF Placed
<1>4. Settles(reply, queue, flushes, submitted)
  <2>1. \A r \in 1..Requests : reply[r].status = "waiting" /\ r > submitted
    BY <1>1, CoalescerAssumption DEF Pending
  <2> QED
    BY <2>1 DEF Settles, Unsettled
<1> QED
  BY <1>1, <1>3, <1>4, WakeupInit, CoalescerAssumption DEF PlaceInv

\* No step loses a request, and none settles one twice.
LEMMA PlaceNext ==
    ASSUME PlaceInv, [Next]_vars
    PROVE  /\ PlaceInv'
           /\ \A r \in 1..Requests : reply[r].status # "waiting" => reply'[r] = reply[r]
<1> DEFINE Once == \A r \in 1..Requests : reply[r].status # "waiting" => reply'[r] = reply[r]
<1>0. /\ WakeupInv' /\ submitted \in Nat /\ submitted <= Requests /\ Requests \in Nat
      /\ activeFlushes \in Int /\ activeFlushes <= Parallel /\ Parallel \in Nat
      /\ Placed(queue, flushes, submitted) /\ Settles(reply, queue, flushes, submitted)
  BY WakeupNext, CoalescerAssumption DEF PlaceInv, WakeupInv
<1>1. CASE Submit
  <2>1. PICK size \in 1..MaxTexts :
          LET q == Append(queue, [id |-> submitted + 1, size |-> size])
          IN  IF Len(AllTexts(q)) >= Target
              THEN timer' = FALSE /\ MaybeFlush(q, activeFlushes, flushes)
              ELSE /\ timer' = TRUE
                   /\ queue' = q
                   /\ UNCHANGED <<activeFlushes, flushes, reply, inflight>>
    BY <1>1 DEF Submit
  <2> DEFINE q == Append(queue, [id |-> submitted + 1, size |-> size])
  <2>2. submitted < Requests /\ submitted' = submitted + 1
    BY <1>1 DEF Submit
  <2>3. Placed(q, flushes, submitted') /\ Settles(reply, q, flushes, submitted')
    BY <2>2, Queued
  <2>4. submitted' \in Nat /\ submitted' <= Requests
    BY <1>0, <2>2
  <2> HIDE DEF q
  <2>5. CASE MaybeFlush(q, activeFlushes, flushes)
    BY <1>0, <2>3, <2>4, <2>5, FlushPlaces DEF PlaceInv
  <2>6. CASE queue' = q /\ UNCHANGED <<flushes, reply>>
    BY <1>0, <2>3, <2>4, <2>6 DEF PlaceInv
  <2> QED
    BY <2>1, <2>5, <2>6 DEF q
<1>2. CASE TimerFires
  <2>1. MaybeFlush(queue, activeFlushes, flushes) /\ submitted' = submitted
    BY <1>2 DEF TimerFires
  <2> QED
    BY <1>0, <2>1, FlushPlaces DEF PlaceInv
<1>3. ASSUME NEW f \in flushes, NEW kind \in Answers, CallEnds(f, kind) PROVE PlaceInv' /\ Once
  <2>1. PICK g : Moved(f, g)
    BY <1>3, CallMoves
  <2>2. queue' = queue /\ submitted' = submitted /\ f.candidates # <<>>
    BY <1>3 DEF CallEnds, Calling
  <2>3. \A h \in flushes : h # f => IdsOf(h.batch) \cap IdsOf(f.batch) = {}
    BY <1>0 DEF Placed
  <2>4. Placed(queue, flushes', submitted)
    BY <1>0, <2>1, <2>3 DEF Placed, Moved
  <2>5. ASSUME NEW r \in 1..Requests
        PROVE  /\ reply'[r].status = "waiting" <=> Unsettled(r, queue, flushes', submitted)
               /\ reply[r].status # "waiting" => reply'[r] = reply[r]
    <3>1. reply[r].status = "waiting" <=> Unsettled(r, queue, flushes, submitted)
      BY <1>0 DEF Settles
    <3>2. CASE r \in IdsOf(f.batch)
      <4>1. reply[r].status = "waiting"
        BY <2>2, <3>1, <3>2 DEF Unsettled
      <4>2. r \notin IdsOf(queue) /\ ~(r > submitted)
        BY <1>0, <3>2 DEF Placed
      <4>3. Unsettled(r, queue, flushes', submitted) <=> g.candidates # <<>>
        BY <2>1, <2>3, <3>2, <4>2 DEF Unsettled, Moved
      <4> QED
        BY <2>1, <3>2, <4>1, <4>3 DEF Moved
    <3>3. CASE r \notin IdsOf(f.batch)
      <4>1. reply'[r] = reply[r]
        BY <2>1, <3>3 DEF Moved
      <4>2. Unsettled(r, queue, flushes, submitted) <=> Unsettled(r, queue, flushes', submitted)
        BY <2>1, <3>3 DEF Unsettled, Moved
      <4> QED
        BY <3>1, <4>1, <4>2
    <3> QED
      BY <3>2, <3>3
  <2>6. Settles(reply', queue, flushes', submitted) /\ Once
    BY <2>5 DEF Settles
  <2> QED
    BY <1>0, <2>2, <2>4, <2>6 DEF PlaceInv
<1>4. ASSUME NEW f \in flushes, Finally(f) PROVE PlaceInv' /\ Once
  <2>1. /\ MaybeFlush(queue, activeFlushes - 1, flushes \ {f}) /\ submitted' = submitted
        /\ f.candidates = <<>>
    BY <1>4 DEF Finally, Over, Calling
  <2>2. activeFlushes - 1 \in Int /\ activeFlushes - 1 <= Parallel
    BY <1>0
  <2>3. Placed(queue, flushes \ {f}, submitted)
    BY <1>0 DEF Placed
  <2>4. Settles(reply, queue, flushes \ {f}, submitted)
    <3>1. \A r \in 1..Requests : Unsettled(r, queue, flushes, submitted)
                                 <=> Unsettled(r, queue, flushes \ {f}, submitted)
      BY <2>1 DEF Unsettled
    <3> QED
      BY <1>0, <3>1 DEF Settles
  <2> QED
    BY <1>0, <2>1, <2>2, <2>3, <2>4, FlushPlaces DEF PlaceInv
<1>5. CASE (HealthStep /\ UNCHANGED batchVars) \/ UNCHANGED vars
  BY <1>0, <1>5 DEF vars, batchVars, PlaceInv
<1> QED
  BY <1>1, <1>2, <1>3, <1>4, <1>5 DEF Next, Step

\* Being in one place, in numbers.
LEMMA PlaceImplies == PlaceInv => NoRequestLost
<1> SUFFICES ASSUME PlaceInv, NEW r \in 1..Requests
             PROVE  LET queued == {i \in DOMAIN queue : queue[i].id = r}
                        sending == {p \in Calling \X (1..Target) :
                                      p[2] \in DOMAIN p[1].batch /\ p[1].batch[p[2]].id = r}
                    IN  Cardinality(queued) + Cardinality(sending) =
                          IF r <= submitted /\ reply[r].status = "waiting" THEN 1 ELSE 0
  BY DEF NoRequestLost
<1> DEFINE queued == {i \in DOMAIN queue : queue[i].id = r}
           sending == {p \in Calling \X (1..Target) :
                         p[2] \in DOMAIN p[1].batch /\ p[1].batch[p[2]].id = r}
           sent == \E f \in Calling : r \in IdsOf(f.batch)
<1>1. /\ Placed(queue, flushes, submitted) /\ submitted \in Nat
      /\ reply[r].status = "waiting" <=> r > submitted \/ r \in IdsOf(queue) \/ sent
  BY DEF PlaceInv, WakeupInv, Settles, Unsettled, Calling
<1>2. /\ r \in IdsOf(queue) => Cardinality(queued) = 1
      /\ r \notin IdsOf(queue) => Cardinality(queued) = 0
  <2>1. CASE r \in IdsOf(queue)
    <3>1. PICK i \in DOMAIN queue : queue[i].id = r
      BY <2>1 DEF IdsOf
    <3>2. queued = {i}
      BY <1>1, <3>1 DEF Placed, Distinct
    <3> QED
      BY <2>1, <3>2, FS_Singleton
  <2>2. CASE r \notin IdsOf(queue)
    <3>1. queued = {}
      BY <2>2 DEF IdsOf
    <3> QED
      BY <2>2, <3>1, FS_EmptySet
  <2> QED
    BY <2>1, <2>2
<1>3. /\ sent => Cardinality(sending) = 1
      /\ ~sent => Cardinality(sending) = 0
  <2>1. CASE sent
    <3>1. PICK f \in Calling : r \in IdsOf(f.batch)
      BY <2>1
    <3>2. PICK k \in DOMAIN f.batch : f.batch[k].id = r
      BY <3>1 DEF IdsOf
    <3>3. f \in flushes /\ f.batch \in Seq(Waiting) /\ Len(f.batch) <= Target /\ Distinct(f.batch)
      BY <1>1, <3>1 DEF Placed, Calling, Flushes
    <3>4. k \in 1..Target
      <4>1. k \in 1..Len(f.batch) /\ Len(f.batch) \in Nat
        BY <3>2, <3>3
      <4> QED
        BY <3>3, <4>1, CoalescerAssumption
    <3>5. <<f, k>> \in sending
      BY <3>1, <3>2, <3>4
    <3>6. ASSUME NEW p \in sending PROVE p = <<f, k>>
      <4>1. p[1] \in Calling /\ r \in IdsOf(p[1].batch) /\ p = <<p[1], p[2]>>
        BY DEF IdsOf
      <4>2. p[1] = f
        BY <1>1, <3>1, <4>1 DEF Placed, Calling
      <4>3. p[2] = k
        BY <3>2, <3>3, <4>2 DEF Distinct
      <4> QED
        BY <4>1, <4>2, <4>3
    <3>7. sending = {<<f, k>>}
      <4> HIDE DEF sending
      <4> QED
        BY <3>5, <3>6
    <3> QED
      BY <2>1, <3>7, FS_Singleton
  <2>2. CASE ~sent
    <3>1. sending = {}
      BY <2>2 DEF IdsOf
    <3> QED
      BY <2>2, <3>1, FS_EmptySet
  <2> QED
    BY <2>1, <2>2
<1>4. /\ r \in IdsOf(queue) => r <= submitted /\ ~sent
      /\ sent => r <= submitted
  BY <1>1 DEF Placed, Calling
<1> HIDE DEF queued, sending, sent
<1>5. Cardinality(queued) + Cardinality(sending) =
        IF r <= submitted /\ reply[r].status = "waiting" THEN 1 ELSE 0
  BY <1>1, <1>2, <1>3, <1>4
<1> QED
  BY <1>5 DEF queued, sending

\* coalesceOrNull, maybeFlush, flushBatch: a queued request that is not settled is in
\* batchQueue or in one batch being sent, once; a settled one is nowhere.
THEOREM NoneLost == Spec => []NoRequestLost
<1>1. PlaceInv /\ [Next]_vars => PlaceInv'
  BY PlaceNext
<1> QED
  BY <1>1, PlaceInit, PlaceImplies, PTL DEF Spec

\* The promise of a queued request is settled once: no failover, miscounted answer or
\* later flush settles it again.
THEOREM SettledForGood == Spec => SettledOnce
<1>1. PlaceInv /\ [Next]_vars => PlaceInv'
  BY PlaceNext
<1>2. PlaceInv /\ [Next]_vars =>
        [\A r \in 1..Requests : reply[r].status # "waiting" => reply'[r] = reply[r]]_vars
  BY PlaceNext
<1> QED
  BY <1>1, <1>2, PlaceInit, PTL DEF Spec, SettledOnce

----------------------------------------------------------------------------
(* The counters *)

\* The flushes of fs that call n.
On(n, fs) == {f \in fs : f.candidates # <<>> /\ Head(f.candidates) = n}

Exact(active, fs, counts) ==
    /\ IsFiniteSet(fs) /\ active = Cardinality(fs)
    /\ counts \in [Ids -> Nat]
    /\ \A n \in Ids : counts[n] = Cardinality(On(n, fs))

CountInv == PlaceInv /\ Exact(activeFlushes, flushes, inflight)

\* Finitely many flushes call a backend.
LEMMA OnIsFinite ==
    ASSUME NEW fs, IsFiniteSet(fs), NEW n
    PROVE  IsFiniteSet(On(n, fs)) /\ Cardinality(On(n, fs)) \in Nat
BY FS_Subset, FS_CardinalityType DEF On

\* Two disjoint sets are counted separately.
LEMMA Disjoint ==
    ASSUME NEW A, NEW B, IsFiniteSet(A), IsFiniteSet(B), A \cap B = {}
    PROVE  /\ IsFiniteSet(A \cup B)
           /\ Cardinality(A \cup B) = Cardinality(A) + Cardinality(B)
<1>1. /\ IsFiniteSet(A \cup B)
      /\ Cardinality(A \cup B) = Cardinality(A) + Cardinality(B) - Cardinality(A \cap B)
  BY FS_Union
<1>2. Cardinality(A \cap B) = 0
  BY FS_EmptySet
<1> QED
  BY <1>1, <1>2, FS_CardinalityType

\* A batch with a request has an id.
LEMMA HasIds ==
    ASSUME NEW f \in Flushes, f.batch # <<>>
    PROVE  IdsOf(f.batch) # {}
<1>1. f.batch \in Seq(Waiting)
  BY DEF Flushes
<1>2. 1 \in DOMAIN f.batch
  BY <1>1
<1> QED
  BY <1>2 DEF IdsOf

\* The flushes maybeFlush() starts are new, and counted.
LEMMA FlushCounts ==
    ASSUME NEW q, NEW running, NEW last \in Nat, NEW active \in Int, active <= Parallel,
           Placed(q, running, last), Exact(active, running, inflight),
           MaybeFlush(q, active, running)
    PROVE  Exact(activeFlushes', flushes', inflight')
<1>1. q \in Seq(Waiting) /\ Distinct(q)
  BY DEF Placed
<1>2. PICK new : /\ NewFlushes(new, q)
                 /\ flushes' = running \cup new
                 /\ activeFlushes' = active + Cardinality(new)
                 /\ inflight' = [n \in Ids |-> inflight[n] +
                      Cardinality({f \in new : f.candidates # <<>> /\ Head(f.candidates) = n})]
  BY <1>1, MaybeFlushStarts
<1>3. IsFiniteSet(running) /\ IsFiniteSet(new)
  BY <1>2 DEF Exact, NewFlushes
<1>4. running \cap new = {}
  <2>1. ASSUME NEW f \in new PROVE f \notin running
    <3>1. IdsOf(f.batch) # {} /\ IdsOf(f.batch) \subseteq IdsOf(q)
      BY <1>2, HasIds DEF NewFlushes
    <3> QED
      BY <3>1 DEF Placed
  <2> QED
    BY <2>1
<1>5. IsFiniteSet(flushes') /\ Cardinality(flushes') = Cardinality(running) + Cardinality(new)
  BY <1>2, <1>3, <1>4, Disjoint
<1>6. ASSUME NEW n \in Ids
      PROVE  inflight'[n] \in Nat /\ inflight'[n] = Cardinality(On(n, flushes'))
  <2>1. /\ IsFiniteSet(On(n, running)) /\ IsFiniteSet(On(n, new))
        /\ Cardinality(On(n, running)) \in Nat /\ Cardinality(On(n, new)) \in Nat
    BY <1>3, OnIsFinite
  <2>2. On(n, flushes') = On(n, running) \cup On(n, new) /\ On(n, running) \cap On(n, new) = {}
    BY <1>2, <1>4 DEF On
  <2>3. Cardinality(On(n, flushes')) = Cardinality(On(n, running)) + Cardinality(On(n, new))
    BY <2>1, <2>2, Disjoint
  <2>4. inflight'[n] = inflight[n] + Cardinality(On(n, new))
    BY <1>2 DEF On
  <2> QED
    BY <2>1, <2>3, <2>4 DEF Exact
<1>7. inflight' = [n \in Ids |-> inflight'[n]]
  BY <1>2
<1> HIDE DEF Exact
<1>8. inflight' \in [Ids -> Nat]
  BY <1>6, <1>7
<1>9. activeFlushes' = Cardinality(flushes')
  BY <1>2, <1>5 DEF Exact
<1> QED
  BY <1>5, <1>6, <1>8, <1>9 DEF Exact

\* A flush that goes on to its next backend is still one flush.
LEMMA Replaced ==
    ASSUME NEW fs, IsFiniteSet(fs), NEW f \in fs, NEW g, g \notin fs \ {f}
    PROVE  /\ IsFiniteSet((fs \ {f}) \cup {g})
           /\ Cardinality((fs \ {f}) \cup {g}) = Cardinality(fs)
<1> DEFINE others == fs \ {f}
<1>1. IsFiniteSet(others) /\ Cardinality(others) \in Nat
  BY FS_Subset, FS_CardinalityType
<1>2. fs = others \cup {f} /\ f \notin others /\ g \notin others
  OBVIOUS
<1> HIDE DEF others
<1>3. Cardinality(others \cup {f}) = Cardinality(others) + 1
  BY <1>1, <1>2, FS_AddElement
<1>4. IsFiniteSet(others \cup {g}) /\ Cardinality(others \cup {g}) = Cardinality(others) + 1
  BY <1>1, <1>2, FS_AddElement
<1> QED
  BY <1>2, <1>3, <1>4 DEF others

\* A hop moves one request in flight from one node to the next, or ends it.
LEMMA CallCounts ==
    ASSUME CountInv, NEW f \in flushes, f.candidates # <<>>,
           NEW g, Moved(f, g), Hopped(f, g)
    PROVE  Exact(activeFlushes, flushes', inflight')
<1>1. /\ Placed(queue, flushes, submitted) /\ IsFiniteSet(flushes)
      /\ activeFlushes = Cardinality(flushes) /\ inflight \in [Ids -> Nat]
      /\ \A n \in Ids : inflight[n] = Cardinality(On(n, flushes))
  BY DEF CountInv, PlaceInv, Exact
<1>2. flushes' = (flushes \ {f}) \cup {g} /\ g \in Flushes /\ g.batch = f.batch
  BY DEF Moved
<1>3. g \notin flushes \ {f}
  <2>1. IdsOf(g.batch) # {}
    BY <1>1, <1>2, HasIds DEF Placed
  <2> QED
    BY <1>1, <1>2, <2>1 DEF Placed
<1>4. IsFiniteSet(flushes') /\ Cardinality(flushes') = activeFlushes
  BY <1>1, <1>2, <1>3, Replaced
<1>5. /\ Head(f.candidates) \in Ids
      /\ g.candidates # <<>> => Head(g.candidates) \in Ids
      /\ inflight' = IF g.candidates = <<>> THEN Dec(inflight, Head(f.candidates))
                     ELSE Inc(Dec(inflight, Head(f.candidates)), Head(g.candidates))
  <2>1. f.candidates \in Seq(Ids) /\ g.candidates \in Seq(Ids)
    BY <1>1, <1>2 DEF Placed, Flushes
  <2> QED
    BY <2>1 DEF Hopped
<1>6. inflight' \in [Ids -> Nat]
  BY <1>1, <1>5 DEF Dec, Inc
<1>7. ASSUME NEW n \in Ids PROVE inflight'[n] = Cardinality(On(n, flushes'))
  <2> DEFINE base == On(n, flushes \ {f})
  <2>1. IsFiniteSet(base) /\ Cardinality(base) \in Nat
    <3>1. IsFiniteSet(flushes \ {f})
      BY <1>1, FS_Subset
    <3> QED
      BY <3>1, OnIsFinite
  <2>2. f \notin base /\ g \notin base
    BY <1>3 DEF On
  <2>3. /\ Head(f.candidates) = n => On(n, flushes) = base \cup {f}
        /\ Head(f.candidates) # n => On(n, flushes) = base
    BY DEF On
  <2>4. /\ g.candidates # <<>> /\ Head(g.candidates) = n => On(n, flushes') = base \cup {g}
        /\ ~(g.candidates # <<>> /\ Head(g.candidates) = n) => On(n, flushes') = base
    BY <1>2 DEF On
  <2> HIDE DEF base
  <2>5. /\ Cardinality(base \cup {f}) = Cardinality(base) + 1
        /\ Cardinality(base \cup {g}) = Cardinality(base) + 1
    BY <2>1, <2>2, FS_AddElement
  <2>6. /\ inflight[n] = IF Head(f.candidates) = n THEN Cardinality(base) + 1 ELSE Cardinality(base)
        /\ Cardinality(On(n, flushes')) = IF g.candidates # <<>> /\ Head(g.candidates) = n
                                          THEN Cardinality(base) + 1 ELSE Cardinality(base)
    BY <1>1, <2>3, <2>4, <2>5
  <2>7. Dec(inflight, Head(f.candidates)) \in [Ids -> Nat]
        /\ Dec(inflight, Head(f.candidates))[n] = Cardinality(base)
    BY <1>1, <1>5, <2>1, <2>6 DEF Dec
  <2> QED
    BY <1>5, <2>1, <2>6, <2>7 DEF Inc
<1> QED
  BY <1>4, <1>6, <1>7 DEF Exact

\* Nothing is counted at the start.
LEMMA CountInit == Init => CountInv
<1> SUFFICES ASSUME Init PROVE Exact(activeFlushes, flushes, inflight)
  BY PlaceInit DEF CountInv
<1>1. flushes = {} /\ activeFlushes = 0 /\ inflight = [n \in Ids |-> 0]
  BY DEF Init
<1>2. \A n \in Ids : On(n, flushes) = {}
  BY <1>1 DEF On
<1>3. IsFiniteSet({}) /\ Cardinality({}) = 0
  BY FS_EmptySet
<1> QED
  BY <1>1, <1>2, <1>3 DEF Exact

\* The counters follow the flushes in every step.
LEMMA CountNext == CountInv /\ [Next]_vars => CountInv'
<1> SUFFICES ASSUME CountInv, [Next]_vars PROVE Exact(activeFlushes', flushes', inflight')
  BY PlaceNext DEF CountInv
<1>0. /\ submitted \in Nat /\ submitted <= Requests /\ Requests \in Nat
      /\ activeFlushes \in Int /\ activeFlushes <= Parallel /\ Parallel \in Nat
      /\ Placed(queue, flushes, submitted) /\ Exact(activeFlushes, flushes, inflight)
      /\ PlaceInv
  BY CoalescerAssumption DEF CountInv, PlaceInv, WakeupInv
<1>1. CASE Submit
  <2>1. PICK size \in 1..MaxTexts :
          LET q == Append(queue, [id |-> submitted + 1, size |-> size])
          IN  IF Len(AllTexts(q)) >= Target
              THEN timer' = FALSE /\ MaybeFlush(q, activeFlushes, flushes)
              ELSE /\ timer' = TRUE
                   /\ queue' = q
                   /\ UNCHANGED <<activeFlushes, flushes, reply, inflight>>
    BY <1>1 DEF Submit
  <2> DEFINE q == Append(queue, [id |-> submitted + 1, size |-> size])
  <2>2. submitted < Requests /\ submitted + 1 \in Nat
    BY <1>0, <1>1 DEF Submit
  <2>3. Placed(q, flushes, submitted + 1)
    BY <1>0, <2>2, Queued
  <2> HIDE DEF q
  <2>4. CASE MaybeFlush(q, activeFlushes, flushes)
    BY <1>0, <2>2, <2>3, <2>4, FlushCounts
  <2>5. CASE UNCHANGED <<activeFlushes, flushes, inflight>>
    BY <1>0, <2>5
  <2> QED
    BY <2>1, <2>4, <2>5 DEF q
<1>2. CASE TimerFires
  <2>1. MaybeFlush(queue, activeFlushes, flushes)
    BY <1>2 DEF TimerFires
  <2> QED
    BY <1>0, <2>1, FlushCounts
<1>3. ASSUME NEW f \in flushes, NEW kind \in Answers, CallEnds(f, kind)
      PROVE  Exact(activeFlushes', flushes', inflight')
  <2>1. PICK g : Moved(f, g) /\ Hopped(f, g)
    BY <1>0, <1>3, CallMoves
  <2>2. activeFlushes' = activeFlushes /\ f.candidates # <<>>
    BY <1>3 DEF CallEnds, Calling
  <2> QED
    BY <2>1, <2>2, CallCounts
<1>4. ASSUME NEW f \in flushes, Finally(f) PROVE Exact(activeFlushes', flushes', inflight')
  <2>1. /\ MaybeFlush(queue, activeFlushes - 1, flushes \ {f})
        /\ f.candidates = <<>>
    BY <1>4 DEF Finally, Over, Calling
  <2>2. activeFlushes - 1 \in Int /\ activeFlushes - 1 <= Parallel
    BY <1>0
  <2>3. Placed(queue, flushes \ {f}, submitted)
    BY <1>0 DEF Placed
  <2>4. IsFiniteSet(flushes \ {f}) /\ Cardinality(flushes \ {f}) = activeFlushes - 1
    BY <1>0, FS_RemoveElement DEF Exact
  <2>5. \A n \in Ids : On(n, flushes \ {f}) = On(n, flushes)
    BY <2>1 DEF On
  <2>6. Exact(activeFlushes - 1, flushes \ {f}, inflight)
    BY <1>0, <2>4, <2>5 DEF Exact
  <2> QED
    BY <1>0, <2>1, <2>2, <2>3, <2>6, FlushCounts
<1>5. CASE (HealthStep /\ UNCHANGED batchVars) \/ UNCHANGED vars
  BY <1>0, <1>5 DEF HealthStep, vars, routerVars, batchVars
<1> QED
  BY <1>1, <1>2, <1>3, <1>4, <1>5 DEF Next, Step

\* activeFlushes and the in-flight counter of every node are exact, whichever way the
\* calls of flushBatch end.
THEOREM CountersNeverLeak == Spec => []CountersExact
<1>1. CountInv => CountersExact
  <2>1. \A n : {f \in Calling : Head(f.candidates) = n} = On(n, flushes)
    BY DEF Calling, On
  <2> QED
    BY <2>1 DEF CountInv, Exact, CountersExact
<1> QED
  BY <1>1, CountInit, CountNext, PTL DEF Spec

----------------------------------------------------------------------------
(* Failover *)

\* A flush has tried none of the nodes it has left, and started with as many as it may.
OnItsWay(f) ==
    /\ IsInjective(f.candidates)
    /\ \A i \in DOMAIN f.candidates : f.candidates[i] \notin f.tried
    /\ IsFiniteSet(f.tried)
    /\ Cardinality(f.tried) + Len(f.candidates) = Least(MaxHops, Cardinality(f.seen))

HopInv ==
    /\ PlaceInv
    /\ \A f \in Calling : OnItsWay(f)
    /\ RejectedOnlyAfterFailover

\* A flush starts with all its hops before it.
LEMMA NewOnItsWay ==
    ASSUME NEW q, NEW new, NewFlushes(new, q), NEW f \in new
    PROVE  OnItsWay(f) /\ (f.candidates = <<>> => Rejection(f).tried = Least(MaxHops, Rejection(f).seen))
<1>1. /\ f \in Flushes /\ f.tried = {} /\ IsInjective(f.candidates)
      /\ Len(f.candidates) = Least(Cardinality(f.seen), MaxHops)
  BY DEF NewFlushes
<1>2. IsFiniteSet(f.seen) /\ f.candidates \in Seq(Ids)
  BY <1>1, FS_Subset, CoalescerAssumption DEF Flushes
<1>3. Cardinality(f.seen) \in Nat /\ MaxHops \in Nat /\ Len(f.candidates) \in Nat
  BY <1>2, FS_CardinalityType, CoalescerAssumption
<1>4. Least(Cardinality(f.seen), MaxHops) = Least(MaxHops, Cardinality(f.seen))
  BY <1>3 DEF Least
<1>5. IsFiniteSet(f.tried) /\ Cardinality(f.tried) = 0
  BY <1>1, FS_EmptySet
<1>6. OnItsWay(f)
  BY <1>1, <1>3, <1>4, <1>5 DEF OnItsWay
<1> QED
  BY <1>1, <1>4, <1>5, <1>6 DEF Rejection

\* maybeFlush starts flushes that have tried nobody, or rejects them for lack of anybody.
LEMMA FlushHops ==
    ASSUME NEW q, NEW running, NEW last, NEW active \in Int, active <= Parallel,
           Placed(q, running, last), MaybeFlush(q, active, running),
           \A f \in running : f.candidates # <<>> => OnItsWay(f),
           RejectedOnlyAfterFailover
    PROVE  /\ \A f \in Calling' : OnItsWay(f)
           /\ RejectedOnlyAfterFailover'
<1>1. q \in Seq(Waiting) /\ Distinct(q)
  BY DEF Placed
<1>2. PICK new : NewFlushes(new, q) /\ RejectedAtOnce(new) /\ flushes' = running \cup new
  BY <1>1, MaybeFlushStarts
<1>3. \A f \in new : OnItsWay(f) /\ (f.candidates = <<>> => Rejection(f).tried = Least(MaxHops, Rejection(f).seen))
  BY <1>2, NewOnItsWay
<1>4. \A f \in Calling' : OnItsWay(f)
  BY <1>2, <1>3 DEF Calling
<1>5. ASSUME NEW r \in 1..Requests, reply'[r].status = "rejected"
      PROVE  reply'[r].tried = Least(MaxHops, reply'[r].seen)
  BY <1>2, <1>3, <1>5 DEF RejectedAtOnce, RejectedOnlyAfterFailover
<1> QED
  BY <1>4, <1>5 DEF RejectedOnlyAfterFailover

\* A failed hop moves one node from the candidates to the tried ones.
LEMMA CallHops ==
    ASSUME HopInv, NEW f \in Calling, NEW g, Moved(f, g), Hopped(f, g)
    PROVE  /\ \A h \in Calling' : OnItsWay(h)
           /\ RejectedOnlyAfterFailover'
<1> DEFINE n == Head(f.candidates)
           rest == Tail(f.candidates)
           tried == f.tried \cup {n}
<1>1. /\ f.candidates \in Seq(Ids) /\ f.candidates # <<>> /\ f.tried \in SUBSET Ids
      /\ OnItsWay(f) /\ f \in flushes
  BY DEF HopInv, PlaceInv, Placed, Calling, Flushes
<1>2. /\ DOMAIN f.candidates = 1..Len(f.candidates) /\ Len(f.candidates) \in Nat
      /\ 1 \in DOMAIN f.candidates /\ n = f.candidates[1]
      /\ rest \in Seq(Ids) /\ Len(rest) = Len(f.candidates) - 1 /\ DOMAIN rest = 1..Len(rest)
      /\ \A i \in DOMAIN rest : i + 1 \in DOMAIN f.candidates /\ i + 1 # 1
                                /\ rest[i] = f.candidates[i + 1] /\ i \in Nat
  BY <1>1
<1>3. n \notin f.tried
  BY <1>1, <1>2 DEF OnItsWay
<1> HIDE DEF n, rest
<1>4. IsFiniteSet(tried) /\ Cardinality(tried) = Cardinality(f.tried) + 1
      /\ Cardinality(f.tried) \in Nat
  BY <1>1, <1>3, FS_AddElement, FS_CardinalityType DEF OnItsWay
<1>5. Cardinality(tried) + Len(rest) = Least(MaxHops, Cardinality(f.seen))
  BY <1>1, <1>2, <1>4 DEF OnItsWay
<1>6. IsInjective(rest)
  <2> SUFFICES ASSUME NEW i \in DOMAIN rest, NEW j \in DOMAIN rest, rest[i] = rest[j] PROVE i = j
    BY DEF IsInjective
  <2>1. i + 1 = j + 1
    BY <1>1, <1>2 DEF OnItsWay, IsInjective
  <2> QED
    BY <1>2, <2>1
<1>7. \A i \in DOMAIN rest : rest[i] \notin tried
  BY <1>1, <1>2 DEF OnItsWay, IsInjective
<1>8. g.candidates # <<>> => OnItsWay(g)
  <2> SUFFICES ASSUME g.candidates # <<>> PROVE OnItsWay(g)
    OBVIOUS
  <2>1. g.candidates = rest /\ g.tried = tried /\ g.seen = f.seen
    BY DEF Hopped, n, rest
  <2> HIDE DEF tried
  <2> QED
    BY <2>1, <1>4, <1>5, <1>6, <1>7 DEF OnItsWay
<1>9. \A h \in Calling' : OnItsWay(h)
  BY <1>8 DEF HopInv, Calling, Moved
<1>10. ASSUME NEW r \in 1..Requests, reply'[r].status = "rejected"
       PROVE  reply'[r].tried = Least(MaxHops, reply'[r].seen)
  <2>1. CASE reply'[r] = reply[r]
    BY <1>10, <2>1 DEF HopInv, RejectedOnlyAfterFailover
  <2>2. CASE reply'[r] = Rejection(g) /\ rest = <<>> /\ g.tried = tried
    <3>1. Cardinality(tried) = Least(MaxHops, Cardinality(f.seen))
      BY <1>4, <1>5, <2>2
    <3>2. g.seen = f.seen
      BY DEF Hopped
    <3> QED
      BY <2>2, <3>1, <3>2 DEF Rejection
  <2> QED
    BY <1>10, <2>1, <2>2 DEF Hopped, n, rest
<1> QED
  BY <1>9, <1>10 DEF RejectedOnlyAfterFailover

\* No flush is on its way at the start.
LEMMA HopInit == Init => HopInv
<1> SUFFICES ASSUME Init PROVE (\A f \in Calling : OnItsWay(f)) /\ RejectedOnlyAfterFailover
  BY PlaceInit DEF HopInv
<1>1. flushes = {} /\ reply = [r \in 1..Requests |-> Pending]
  BY DEF Init
<1> QED
  BY <1>1 DEF Calling, RejectedOnlyAfterFailover, Pending

\* A flush rejects its requests only at the end of its candidates.
LEMMA HopNext == HopInv /\ [Next]_vars => HopInv'
<1> SUFFICES ASSUME HopInv, [Next]_vars PROVE HopInv'
  OBVIOUS
<1> DEFINE Kept == (\A f \in Calling' : OnItsWay(f)) /\ RejectedOnlyAfterFailover'
<1>0. /\ submitted \in Nat /\ submitted <= Requests /\ Requests \in Nat
      /\ activeFlushes \in Int /\ activeFlushes <= Parallel /\ Parallel \in Nat
      /\ Placed(queue, flushes, submitted) /\ PlaceInv
      /\ RejectedOnlyAfterFailover
      /\ \A f \in flushes : f.candidates # <<>> => OnItsWay(f)
  BY CoalescerAssumption DEF HopInv, PlaceInv, WakeupInv, Calling
<1>1. ASSUME Submit PROVE Kept
  <2>1. PICK size \in 1..MaxTexts :
          LET q == Append(queue, [id |-> submitted + 1, size |-> size])
          IN  IF Len(AllTexts(q)) >= Target
              THEN timer' = FALSE /\ MaybeFlush(q, activeFlushes, flushes)
              ELSE /\ timer' = TRUE
                   /\ queue' = q
                   /\ UNCHANGED <<activeFlushes, flushes, reply, inflight>>
    BY <1>1 DEF Submit
  <2> DEFINE q == Append(queue, [id |-> submitted + 1, size |-> size])
  <2>2. submitted < Requests
    BY <1>0, <1>1 DEF Submit
  <2>3. Placed(q, flushes, submitted + 1)
    BY <1>0, <2>2, Queued
  <2> HIDE DEF q
  <2>4. CASE MaybeFlush(q, activeFlushes, flushes)
    BY <1>0, <2>3, <2>4, FlushHops
  <2>5. CASE UNCHANGED <<flushes, reply>>
    BY <1>0, <2>5 DEF Calling, RejectedOnlyAfterFailover
  <2> QED
    BY <2>1, <2>4, <2>5 DEF q
<1>2. ASSUME TimerFires PROVE Kept
  <2>1. MaybeFlush(queue, activeFlushes, flushes)
    BY <1>2 DEF TimerFires
  <2> QED
    BY <1>0, <2>1, FlushHops
<1>3. ASSUME NEW f \in flushes, NEW kind \in Answers, CallEnds(f, kind) PROVE Kept
  <2>1. PICK g : Moved(f, g) /\ Hopped(f, g)
    BY <1>0, <1>3, CallMoves
  <2>2. f \in Calling
    BY <1>3 DEF CallEnds
  <2> QED
    BY <2>1, <2>2, CallHops
<1>4. ASSUME NEW f \in flushes, Finally(f) PROVE Kept
  <2>1. MaybeFlush(queue, activeFlushes - 1, flushes \ {f})
    BY <1>4 DEF Finally
  <2>2. activeFlushes - 1 \in Int /\ activeFlushes - 1 <= Parallel
    BY <1>0
  <2>3. Placed(queue, flushes \ {f}, submitted)
    BY <1>0 DEF Placed
  <2> QED
    BY <1>0, <2>1, <2>2, <2>3, FlushHops
<1>5. ASSUME (HealthStep /\ UNCHANGED batchVars) \/ UNCHANGED vars PROVE Kept
  BY <1>0, <1>5 DEF vars, batchVars, Calling, RejectedOnlyAfterFailover
<1>6. Kept
  BY <1>1, <1>2, <1>3, <1>4, <1>5 DEF Next, Step
<1>7. PlaceInv'
  BY <1>0, PlaceNext
<1> QED
  BY <1>6, <1>7 DEF HopInv, OnItsWay

\* flushBatch rejects its callers only when as many different nodes failed as were
\* healthy when it started, up to POOL_BATCH_MAX_HOPS.
THEOREM FailoverBeforeRejection == Spec => []RejectedOnlyAfterFailover
<1>1. HopInv => RejectedOnlyAfterFailover
  BY DEF HopInv
<1> QED
  BY <1>1, HopInit, HopNext, PTL DEF Spec

----------------------------------------------------------------------------
(* The vectors *)

\* What callers were told comes from batches that were served.
OwnInv ==
    /\ PlaceInv
    /\ OwnVectors
    /\ \A r \in Answered : \A v \in ToSet(reply[r].vectors) : v # Stray => v[1] \in Answered

\* What flushBatch gives the callers of a batch that was served.
ServedTo(f) ==
    LET callers == 1..Requests \cap IdsOf(f.batch)
    IN  /\ \A r \in callers :
             /\ reply'[r].status = "ok"
             /\ reply'[r].complete => reply'[r].vectors = [k \in 1..reply'[r].size |-> <<r, k>>]
             /\ \A v \in ToSet(reply'[r].vectors) : v # Stray => v[1] \in IdsOf(f.batch)
        /\ \A r, s \in callers : r # s =>
             ToSet(reply'[r].vectors) \cap ToSet(reply'[s].vectors) \subseteq {Stray}
        /\ \A r \in 1..Requests \ callers : reply'[r] = reply[r]

\* What a caller is told.
LEMMA VectorsTell ==
    ASSUME NEW v, NEW item, NEW complete
    PROVE  /\ Vectors(v, item, complete).status = "ok" /\ Vectors(v, item, complete).vectors = v
           /\ Vectors(v, item, complete).size = item.size
           /\ Vectors(v, item, complete).complete = complete
BY DEF Vectors

\* However many vectors came back, nobody is given another caller's as well.
LEMMA ServedOwn ==
    ASSUME PlaceInv, NEW f \in flushes, NEW kind, f.candidates # <<>>, Serve(f, kind)
    PROVE  ServedTo(f)
<1> DEFINE texts == AllTexts(f.batch)
           i(r) == CHOOSE i \in DOMAIN f.batch : f.batch[i].id = r
<1>1. f.batch \in Seq(Waiting) /\ Distinct(f.batch)
  BY DEF PlaceInv, Placed, Flushes
<1>2. PICK array \in Arrays(texts, kind) :
        reply' = [r \in 1..Requests |->
                    IF r \in IdsOf(f.batch)
                    THEN Vectors(SliceOf(array, f.batch, i(r)), f.batch[i(r)],
                                 Len(array) = Len(texts))
                    ELSE reply[r]]
  BY DEF Serve
<1>3. ArrayOf(array, texts)
  BY <1>1, <1>2, TextsDiffer, ArraysAreOfTexts
<1>4. ASSUME NEW r \in 1..Requests \cap IdsOf(f.batch)
      PROVE  i(r) \in DOMAIN f.batch /\ f.batch[i(r)].id = r
  BY DEF IdsOf
<1> HIDE DEF i
<1>5. ASSUME NEW r \in 1..Requests \cap IdsOf(f.batch)
      PROVE  /\ reply'[r].status = "ok" /\ reply'[r].vectors = SliceOf(array, f.batch, i(r))
             /\ reply'[r].size = f.batch[i(r)].size
             /\ reply'[r].complete => Len(array) = Len(texts)
  <2> DEFINE slice == SliceOf(array, f.batch, i(r))
             same == Len(array) = Len(texts)
  <2>1. reply'[r] = Vectors(slice, f.batch[i(r)], same)
    BY <1>2 DEF i
  <2> HIDE DEF slice, same
  <2>2. /\ Vectors(slice, f.batch[i(r)], same).status = "ok"
        /\ Vectors(slice, f.batch[i(r)], same).vectors = slice
        /\ Vectors(slice, f.batch[i(r)], same).size = f.batch[i(r)].size
        /\ Vectors(slice, f.batch[i(r)], same).complete = same
    BY VectorsTell
  <2>3. reply'[r].complete = same
    BY <2>1, <2>2
  <2>4. reply'[r].status = "ok" /\ reply'[r].vectors = slice /\ reply'[r].size = f.batch[i(r)].size
    BY <2>1, <2>2
  <2> QED
    BY <2>3, <2>4 DEF slice, same
<1>6. ASSUME NEW r \in 1..Requests \cap IdsOf(f.batch), reply'[r].complete
      PROVE  reply'[r].vectors = [k \in 1..reply'[r].size |-> <<r, k>>]
  <2>1. array = texts
    BY <1>3, <1>5, <1>6 DEF ArrayOf
  <2>2. /\ i(r) \in DOMAIN f.batch /\ f.batch[i(r)].id = r
        /\ reply'[r].vectors = SliceOf(texts, f.batch, i(r))
        /\ reply'[r].size = f.batch[i(r)].size
    BY <1>4, <1>5, <2>1
  <2>3. SliceOf(texts, f.batch, i(r)) = [k \in 1..f.batch[i(r)].size |-> <<f.batch[i(r)].id, k>>]
    BY <1>1, <2>2, SliceIsOwn
  <2> QED
    BY <2>2, <2>3
<1>7. ASSUME NEW r \in 1..Requests \cap IdsOf(f.batch),
             NEW v \in ToSet(reply'[r].vectors), v # Stray
      PROVE  v[1] \in IdsOf(f.batch)
  <2> DEFINE slice == SliceOf(array, f.batch, i(r))
  <2>1. array \in Seq(AText) /\ v \in ToSet(slice)
    BY <1>3, <1>5, <1>7 DEF ArrayOf
  <2>2. /\ slice \in Seq(AText)
        /\ \A k \in 1..Len(slice) : Offset(f.batch, i(r)) + k \in 1..Len(array)
                                    /\ slice[k] = array[Offset(f.batch, i(r)) + k]
    BY <1>1, <1>4, <2>1, SliceLies
  <2>3. PICK k \in 1..Len(slice) : slice[k] = v
    BY <2>1, <2>2 DEF ToSet
  <2>4. PICK p \in 1..Len(array) : array[p] = v
    BY <2>2, <2>3
  <2>5. PICK x \in 1..Len(texts) : v = texts[x]
    BY <1>3, <1>7, <2>4 DEF ArrayOf
  <2> QED
    BY <1>1, <2>5, TextsDiffer
<1>8. ASSUME NEW r \in 1..Requests \cap IdsOf(f.batch), NEW s \in 1..Requests \cap IdsOf(f.batch),
             r # s
      PROVE  ToSet(reply'[r].vectors) \cap ToSet(reply'[s].vectors) \subseteq {Stray}
  <2>1. i(r) # i(s)
    BY <1>4, <1>8
  <2> QED
    BY <1>1, <1>3, <1>4, <1>5, <2>1, SlicesDisjoint
<1>9. \A r \in 1..Requests \ (1..Requests \cap IdsOf(f.batch)) : reply'[r] = reply[r]
  BY <1>2
<1> QED
  BY <1>5, <1>6, <1>7, <1>8, <1>9 DEF ServedTo

\* The callers of a batch had no vectors, so that theirs are nobody else's.
LEMMA ServedKeeps ==
    ASSUME OwnInv, NEW f \in flushes, f.candidates # <<>>, ServedTo(f)
    PROVE  /\ OwnVectors'
           /\ (\A r \in Answered : \A v \in ToSet(reply[r].vectors) : v # Stray => v[1] \in Answered)'
<1> DEFINE callers == 1..Requests \cap IdsOf(f.batch)
<1>1. /\ \A r \in callers :
           /\ reply'[r].status = "ok"
           /\ reply'[r].complete => reply'[r].vectors = [k \in 1..reply'[r].size |-> <<r, k>>]
           /\ \A v \in ToSet(reply'[r].vectors) : v # Stray => v[1] \in IdsOf(f.batch)
      /\ \A r, s \in callers : r # s =>
           ToSet(reply'[r].vectors) \cap ToSet(reply'[s].vectors) \subseteq {Stray}
      /\ \A r \in 1..Requests \ callers : reply'[r] = reply[r]
  BY DEF ServedTo
<1>2. \A r \in callers : reply[r].status # "ok"
  <2>1. \A r \in callers : reply[r].status = "waiting"
    BY DEF OwnInv, PlaceInv, Settles, Unsettled
  <2> QED
    BY <2>1
<1>3. IdsOf(f.batch) \subseteq 1..Requests
  <2>1. IdsOf(f.batch) \subseteq 1..submitted /\ submitted \in Nat /\ submitted <= Requests
    BY DEF OwnInv, PlaceInv, Placed, WakeupInv
  <2> QED
    BY <2>1, CoalescerAssumption
<1>4. Answered' = Answered \cup callers /\ Answered \cap callers = {}
  <2>1. Answered' = {r \in 1..Requests : reply'[r].status = "ok"}
    BY DEF Answered
  <2>2. \A r \in 1..Requests : reply'[r].status = "ok" <=> r \in callers \/ reply[r].status = "ok"
    BY <1>1
  <2> QED
    BY <1>2, <2>1, <2>2 DEF Answered
<1>5. \A r \in Answered : reply'[r] = reply[r]
  BY <1>1, <1>4 DEF Answered
<1>6. ASSUME NEW r \in Answered' PROVE reply'[r].complete =>
                                         reply'[r].vectors = [k \in 1..reply'[r].size |-> <<r, k>>]
  <2>1. CASE r \in callers
    BY <1>1, <2>1
  <2>2. CASE r \in Answered
    BY <1>5, <2>2 DEF OwnInv, OwnVectors, OwnTexts
  <2> QED
    BY <1>4, <2>1, <2>2
<1>7. ASSUME NEW r \in callers, NEW s \in Answered
      PROVE  ToSet(reply'[r].vectors) \cap ToSet(reply'[s].vectors) \subseteq {Stray}
  <2> SUFFICES ASSUME NEW v \in ToSet(reply'[r].vectors), v \in ToSet(reply'[s].vectors), v # Stray
               PROVE  FALSE
    OBVIOUS
  <2>1. v[1] \in callers
    BY <1>1, <1>3
  <2>2. v[1] \in Answered
    BY <1>5 DEF OwnInv
  <2> QED
    BY <1>4, <2>1, <2>2
<1>8. ASSUME NEW r \in Answered', NEW s \in Answered', r # s
      PROVE  ToSet(reply'[r].vectors) \cap ToSet(reply'[s].vectors) \subseteq {Stray}
  <2>1. CASE r \in callers /\ s \in callers
    BY <1>1, <1>8, <2>1
  <2>2. CASE r \in callers /\ s \in Answered
    BY <1>7, <2>2
  <2>3. CASE r \in Answered /\ s \in callers
    BY <1>7, <2>3
  <2>4. CASE r \in Answered /\ s \in Answered
    BY <1>5, <1>8, <2>4 DEF OwnInv, OwnVectors
  <2> QED
    BY <1>4, <2>1, <2>2, <2>3, <2>4
<1>9. ASSUME NEW r \in Answered', NEW v \in ToSet(reply'[r].vectors), v # Stray
      PROVE  v[1] \in Answered'
  <2>1. CASE r \in callers
    BY <1>1, <1>3, <1>4, <1>9, <2>1
  <2>2. CASE r \in Answered
    BY <1>4, <1>5, <1>9, <2>2 DEF OwnInv
  <2> QED
    BY <1>4, <2>1, <2>2
<1> HIDE DEF callers
<1>10. OwnVectors'
  BY <1>6, <1>8 DEF OwnVectors, OwnTexts
<1> QED
  BY <1>9, <1>10

\* A request is answered from its own slice of the vectors of its batch.
LEMMA OwnNext == OwnInv /\ [Next]_vars => OwnInv'
<1> SUFFICES ASSUME OwnInv, [Next]_vars PROVE OwnInv'
  OBVIOUS
<1>0. PlaceInv' /\ PlaceInv /\ \A r \in 1..Requests : reply[r].status # "waiting" => reply'[r] = reply[r]
  BY PlaceNext DEF OwnInv
<1> DEFINE Told == /\ OwnVectors'
                   /\ (\A r \in Answered : \A v \in ToSet(reply[r].vectors) :
                         v # Stray => v[1] \in Answered)'
           Same == \A r \in 1..Requests : reply'[r].status = "ok" => reply'[r] = reply[r]
<1>1. ASSUME Same PROVE Told
  <2>1. Answered' = Answered /\ \A r \in Answered : reply'[r] = reply[r]
    BY <1>0, <1>1 DEF Answered
  <2>2. OwnVectors'
    BY <2>1 DEF OwnInv, OwnVectors, OwnTexts
  <2> QED
    BY <2>1, <2>2 DEF OwnInv
<1> HIDE DEF Told
<1>2. ASSUME NEW q \in Seq(Waiting), Distinct(q), NEW active \in Int, active <= Parallel,
             NEW running, MaybeFlush(q, active, running)
      PROVE  Same
  <2>1. PICK new : RejectedAtOnce(new)
    BY <1>2, MaybeFlushStarts
  <2> QED
    BY <2>1 DEF RejectedAtOnce, Rejection
<1>3. /\ queue \in Seq(Waiting) /\ Distinct(queue) /\ activeFlushes \in Int
      /\ activeFlushes <= Parallel
      /\ activeFlushes - 1 \in Int /\ activeFlushes - 1 <= Parallel
  BY <1>0, CoalescerAssumption DEF PlaceInv, WakeupInv, Placed
<1>4. ASSUME Submit PROVE Same
  <2>1. PICK size \in 1..MaxTexts :
          LET q == Append(queue, [id |-> submitted + 1, size |-> size])
          IN  IF Len(AllTexts(q)) >= Target
              THEN timer' = FALSE /\ MaybeFlush(q, activeFlushes, flushes)
              ELSE /\ timer' = TRUE
                   /\ queue' = q
                   /\ UNCHANGED <<activeFlushes, flushes, reply, inflight>>
    BY <1>4 DEF Submit
  <2> DEFINE q == Append(queue, [id |-> submitted + 1, size |-> size])
  <2>2. submitted < Requests
    BY <1>4 DEF Submit
  <2>3. q \in Seq(Waiting) /\ Distinct(q)
    BY <1>0, <2>2, Queued DEF Placed
  <2> HIDE DEF q
  <2>4. MaybeFlush(q, activeFlushes, flushes) => Same
    BY <1>2, <1>3, <2>3
  <2> QED
    BY <2>1, <2>4 DEF q
<1>5. ASSUME TimerFires PROVE Same
  BY <1>2, <1>3, <1>5 DEF TimerFires
<1>6. ASSUME NEW f \in flushes, NEW kind \in Answers, CallEnds(f, kind) PROVE Told
  <2>1. f.candidates # <<>>
    BY <1>6 DEF CallEnds, Calling
  <2>2. CASE Serve(f, kind)
    BY <1>0, <2>1, <2>2, ServedOwn, ServedKeeps DEF Told
  <2>3. CASE Failover(f, kind)
    <3>1. Same
      BY <2>3 DEF Failover, Rejection
    <3> QED
      BY <1>1, <3>1
  <2> QED
    BY <1>6, <2>2, <2>3 DEF CallEnds
<1>7. ASSUME NEW f \in flushes, Finally(f) PROVE Same
  <2>1. MaybeFlush(queue, activeFlushes - 1, flushes \ {f})
    BY <1>7 DEF Finally
  <2> QED
    BY <1>2, <1>3, <2>1
<1>8. ASSUME (HealthStep /\ UNCHANGED batchVars) \/ UNCHANGED vars PROVE Same
  BY <1>8 DEF vars, batchVars
<1>9. Told
  BY <1>1, <1>4, <1>5, <1>6, <1>7, <1>8 DEF Next, Step
<1> QED
  BY <1>0, <1>9 DEF OwnInv, Told

\* Nobody has been answered at the start.
LEMMA OwnInit == Init => OwnInv
<1> SUFFICES ASSUME Init PROVE Answered = {}
  BY PlaceInit DEF OwnInv, OwnVectors
<1>1. reply = [r \in 1..Requests |-> Pending]
  BY DEF Init
<1> QED
  BY <1>1 DEF Answered, Pending

\* Cutting the array of a batch by running offsets gives every caller the vectors of its
\* own texts when there is one per text, and no vector to two callers when there is not.
THEOREM EveryoneGetsTheirOwn == Spec => []OwnVectors
<1>1. OwnInv => OwnVectors
  BY DEF OwnInv
<1> QED
  BY <1>1, OwnInit, OwnNext, PTL DEF Spec

----------------------------------------------------------------------------
(* What the breaker hears *)

\* The history adds nothing: whatever is true of Spec is true of HistorySpec.
THEOREM HistoryOnlyWatches == HistorySpec => Spec
<1>1. HistoryInit => Init
  BY DEF HistoryInit
<1>2. [HistoryNext]_historyVars => [Next]_vars
  BY DEF HistoryNext, RecordedCall, OtherStep, Next, Step, historyVars
<1> QED
  BY <1>1, <1>2, PTL DEF HistorySpec, Spec

Failures == {"failed", "thrown"}

\* A run of failures at the end of a history is no longer than the counter says.
Heard(calls, count) ==
    \A k \in 0..Len(calls) :
      (\A i \in (Len(calls) - k + 1)..Len(calls) : calls[i] \in Failures) => k <= count

HeardInv ==
    /\ targets \in SUBSET Ids /\ registered \in SUBSET Ids
    /\ nodes \in [Ids -> NodeStatus]
    /\ served \in [Ids -> Seq(Replies)]
    /\ \A n \in Ids : /\ Len(served[n]) <= TrafficEjectThreshold
                      /\ Heard(served[n], nodes[n].trafficFailures)

\* One more call of which the breaker hears.
LEMMA OneMoreHeard ==
    ASSUME NEW calls \in Seq(Replies), Len(calls) <= TrafficEjectThreshold,
           NEW count \in 0..TrafficEjectThreshold, Heard(calls, count), NEW kind \in Replies,
           NEW after \in Nat,
           kind \in Failures => after = Saturate(count, TrafficEjectThreshold)
    PROVE  LET longer == Append(calls, kind)
               kept == IF Len(longer) > TrafficEjectThreshold THEN Tail(longer) ELSE longer
           IN  /\ kept \in Seq(Replies) /\ Len(kept) <= TrafficEjectThreshold /\ kept # <<>>
               /\ kept[Len(kept)] = kind
               /\ Heard(kept, after)
<1> DEFINE T == TrafficEjectThreshold
           n == Len(calls)
           longer == Append(calls, kind)
           kept == IF Len(longer) > T THEN Tail(longer) ELSE longer
           cut == IF n = T THEN 1 ELSE 0
           m == n + 1 - cut
<1>1. T \in Nat /\ T # 0 /\ n \in Nat /\ n <= T /\ m \in Nat /\ m # 0 /\ m <= T /\ m <= n + 1
      /\ count \in Nat /\ count <= T /\ cut \in {0, 1}
  BY ThresholdAssumption
<1>2. /\ longer \in Seq(Replies) /\ Len(longer) = n + 1 /\ longer[n + 1] = kind
      /\ \A i \in 1..n : longer[i] = calls[i]
  OBVIOUS
<1> HIDE DEF longer
<1>3. /\ kept \in Seq(Replies) /\ Len(kept) = m
      /\ \A i \in 1..m : kept[i] = longer[i + cut]
  <2>1. CASE n = T
    <3>1. Len(longer) > T /\ longer # <<>> /\ cut = 1 /\ m = n
      BY <1>1, <1>2, <2>1
    <3>2. kept = Tail(longer)
      BY <3>1
    <3> HIDE DEF kept, cut, m, n
    <3>3. /\ Tail(longer) \in Seq(Replies) /\ Len(Tail(longer)) = n
          /\ \A i \in 1..n : Tail(longer)[i] = longer[i + 1]
      BY <1>1, <1>2, <3>1
    <3> QED
      BY <3>1, <3>2, <3>3
  <2>2. CASE n # T
    <3>1. ~(Len(longer) > T) /\ cut = 0 /\ m = n + 1
      BY <1>1, <1>2, <2>2
    <3>2. kept = longer
      BY <3>1
    <3> HIDE DEF kept, cut, m, n
    <3> QED
      BY <1>1, <1>2, <3>1, <3>2
  <2> QED
    BY <2>1, <2>2
<1>4. m + cut = n + 1
  BY <1>1
<1> HIDE DEF kept, cut, m
<1>5. kept[m] = kind
  BY <1>1, <1>2, <1>3, <1>4
<1>6. ASSUME NEW k \in 0..m, \A i \in (m - k + 1)..m : kept[i] \in Failures
      PROVE  k <= after
  <2>1. CASE k = 0
    BY <2>1
  <2>2. CASE k # 0
    <3>1. kind \in Failures
      <4>1. m \in (m - k + 1)..m
        BY <1>1, <2>2
      <4> QED
        BY <1>5, <1>6, <4>1
    <3>2. k - 1 \in 0..n /\ k <= T
      BY <1>1, <1>6, <2>2
    <3>3. ASSUME NEW i \in (n - (k - 1) + 1)..n PROVE calls[i] \in Failures
      <4>1. /\ i \in Int /\ i - cut \in (m - k + 1)..m /\ i - cut \in 1..m /\ i \in 1..n
            /\ (i - cut) + cut = i
        BY <1>1, <1>4, <1>6, <2>2
      <4>2. kept[i - cut] = calls[i]
        BY <1>2, <1>3, <4>1
      <4> QED
        BY <1>6, <4>1, <4>2
    <3>4. k - 1 <= count
      BY <3>2, <3>3 DEF Heard
    <3> QED
      BY <1>1, <3>1, <3>2, <3>4 DEF Saturate
  <2> QED
    BY <2>1, <2>2
<1>7. Heard(kept, after)
  BY <1>3, <1>6 DEF Heard
<1>8. kept # <<>>
  BY <1>1, <1>3
<1> QED
  BY <1>1, <1>3, <1>5, <1>7, <1>8 DEF kept, longer

\* At the start nothing has been heard.
LEMMA HeardInit == HistoryInit => HeardInv
<1> SUFFICES ASSUME HistoryInit PROVE HeardInv
  OBVIOUS
<1>1. targets \in SUBSET Ids /\ registered \in SUBSET Ids
  BY StaticAssumption DEF HistoryInit, Init, HealthInit
<1>2. nodes = [n \in Ids |-> Fresh] /\ served = [n \in Ids |-> <<>>]
  BY DEF HistoryInit, Init, HealthInit
<1>3. Fresh \in NodeStatus /\ Fresh.trafficFailures = 0
  BY ThresholdAssumption DEF Fresh, NodeStatus
<1>4. nodes \in [Ids -> NodeStatus] /\ served \in [Ids -> Seq(Replies)]
  BY <1>2, <1>3
<1>5. Len(<<>>) <= TrafficEjectThreshold /\ Heard(<<>>, 0)
  BY ThresholdAssumption DEF Heard
<1> QED
  BY <1>1, <1>2, <1>3, <1>4, <1>5 DEF HeardInv

\* Fields of the records.
LEMMA StatusOf ==
    ASSUME NEW status \in NodeStatus
    PROVE  /\ status.trafficFailures \in 0..TrafficEjectThreshold
           /\ status.ejected \in 0..Cooldown
           /\ \A ok \in BOOLEAN :
                /\ Outcome(status, ok) \in NodeStatus
                /\ Outcome(status, ok).trafficFailures =
                     IF ok THEN 0 ELSE Saturate(status.trafficFailures, TrafficEjectThreshold)
           /\ Saturate(status.trafficFailures, TrafficEjectThreshold) = TrafficEjectThreshold =>
                Outcome(status, FALSE).ejected > 0
<1>1. /\ status.healthy \in BOOLEAN /\ status.failures \in 0..UnhealthyThreshold
      /\ status.trafficFailures \in 0..TrafficEjectThreshold /\ status.ejected \in 0..Cooldown
      /\ status = [healthy |-> status.healthy, failures |-> status.failures,
                   trafficFailures |-> status.trafficFailures, ejected |-> status.ejected]
  BY DEF NodeStatus
<1> DEFINE count == Saturate(status.trafficFailures, TrafficEjectThreshold)
           ejected == IF count >= TrafficEjectThreshold /\ status.ejected = 0
                      THEN Cooldown ELSE status.ejected
<1>2. count \in 0..TrafficEjectThreshold /\ ejected \in 0..Cooldown
  BY <1>1, ThresholdAssumption DEF Saturate
<1>3. Outcome(status, TRUE) = [status EXCEPT !.trafficFailures = 0, !.ejected = 0]
  BY DEF Outcome
<1>4. Outcome(status, FALSE) = [status EXCEPT !.trafficFailures = count, !.ejected = ejected]
  BY DEF Outcome
<1>5. Outcome(status, TRUE) \in NodeStatus /\ Outcome(status, TRUE).trafficFailures = 0
  <2>1. 0 \in 0..TrafficEjectThreshold /\ 0 \in 0..Cooldown
    BY ThresholdAssumption
  <2> QED
    BY <1>1, <1>3, <2>1 DEF NodeStatus
<1>6. count = TrafficEjectThreshold => ejected > 0
  BY <1>1, ThresholdAssumption
<1> HIDE DEF count, ejected
<1>7. /\ Outcome(status, FALSE) \in NodeStatus /\ Outcome(status, FALSE).trafficFailures = count
      /\ Outcome(status, FALSE).ejected = ejected
  BY <1>1, <1>2, <1>4 DEF NodeStatus
<1> QED
  BY <1>1, <1>5, <1>6, <1>7 DEF count

\* What the breaker makes of the end of a call.
LEMMA BreakerHears ==
    ASSUME NEW status \in NodeStatus, NEW kind \in Replies
    PROVE  LET ok == kind \in {"ok", "miscounted"}
               after == IF kind = "garbled" THEN Outcome(Outcome(status, TRUE), FALSE)
                        ELSE Outcome(status, ok)
           IN  /\ after \in NodeStatus /\ after.trafficFailures \in Nat
               /\ kind \in Failures =>
                    /\ after.trafficFailures = Saturate(status.trafficFailures, TrafficEjectThreshold)
                    /\ after.trafficFailures = TrafficEjectThreshold => after.ejected > 0
<1> DEFINE ok == kind \in {"ok", "miscounted"}
<1>1. ok \in BOOLEAN /\ (kind \in Failures => kind # "garbled" /\ ok = FALSE)
  BY DEF Failures
<1>2. \A s \in NodeStatus : s.trafficFailures \in Nat
  <2>1. \A s \in NodeStatus : s.trafficFailures \in 0..TrafficEjectThreshold
    BY DEF NodeStatus
  <2> QED
    BY <2>1, ThresholdAssumption
<1>3. CASE kind = "garbled"
  <2>1. Outcome(status, TRUE) \in NodeStatus
    BY StatusOf
  <2>2. Outcome(Outcome(status, TRUE), FALSE) \in NodeStatus
    BY <2>1, StatusOf
  <2> QED
    BY <1>1, <1>2, <1>3, <2>2
<1>4. CASE kind # "garbled"
  <2> HIDE DEF ok
  <2>1. Outcome(status, ok) \in NodeStatus
    BY <1>1, StatusOf
  <2>2. ASSUME kind \in Failures
        PROVE  /\ Outcome(status, ok).trafficFailures =
                    Saturate(status.trafficFailures, TrafficEjectThreshold)
               /\ Outcome(status, ok).trafficFailures = TrafficEjectThreshold =>
                    Outcome(status, ok).ejected > 0
    <3>1. ok = FALSE
      BY <1>1, <2>2
    <3> QED
      BY <3>1, StatusOf
  <2> QED
    BY <1>2, <1>4, <2>1, <2>2 DEF ok
<1> QED
  BY <1>3, <1>4

\* A call ends, and the breaker hears of it.
LEMMA CallHeard ==
    ASSUME HeardInv, NEW f \in flushes, NEW kind \in Answers, RecordedCall(f, kind)
    PROVE  HeardInv' /\ EjectedAfter({"failed", "thrown"})
<1> DEFINE T == TrafficEjectThreshold
           node == Head(f.candidates)
           ok == kind \in {"ok", "miscounted"}
           Now(status) == IF kind = "garbled" THEN Outcome(Outcome(status, TRUE), FALSE)
                          ELSE Outcome(status, ok)
<1>1. /\ targets \in SUBSET Ids /\ registered \in SUBSET Ids
      /\ nodes \in [Ids -> NodeStatus] /\ served \in [Ids -> Seq(Replies)]
      /\ \A n \in Ids : Len(served[n]) <= T /\ Heard(served[n], nodes[n].trafficFailures)
  BY DEF HeardInv
<1>2. targets' = targets /\ registered' = registered
  BY DEF RecordedCall, CallEnds
<1>3. RecordBatchOutcome(node, kind)
  BY DEF RecordedCall, CallEnds, Serve, Failover
<1>4. nodes' = IF node \in registered THEN [nodes EXCEPT ![node] = Now(nodes[node])] ELSE nodes
  <2>1. CASE node \notin registered
    BY <1>3, <2>1 DEF RecordBatchOutcome, RecordTrafficOutcome
  <2>2. CASE node \in registered /\ kind = "garbled"
    BY <1>3, <2>2 DEF RecordBatchOutcome
  <2>3. CASE node \in registered /\ kind # "garbled"
    BY <1>3, <2>3 DEF RecordBatchOutcome, RecordTrafficOutcome
  <2> QED
    BY <2>1, <2>2, <2>3
<1>5. served' = IF node \notin registered THEN served
                ELSE [served EXCEPT ![node] =
                        IF Len(Append(@, kind)) > T THEN Tail(Append(@, kind))
                        ELSE Append(@, kind)]
  BY DEF RecordedCall, Remember
<1>6. kind \in Replies
  BY CoalescerAssumption DEF Replies
<1>7. \A status \in NodeStatus :
        /\ Now(status) \in NodeStatus /\ Now(status).trafficFailures \in Nat
        /\ kind \in Failures =>
             /\ Now(status).trafficFailures = Saturate(status.trafficFailures, T)
             /\ Now(status).trafficFailures = T => Now(status).ejected > 0
  BY <1>6, BreakerHears
<1> HIDE DEF node, Now
<1>8. CASE node \notin registered
  <2>1. nodes' = nodes /\ served' = served
    BY <1>4, <1>5, <1>8
  <2>2. HeardInv'
    BY <1>1, <1>2, <2>1 DEF HeardInv
  <2> QED
    BY <2>1, <2>2 DEF EjectedAfter
<1>9. CASE node \in registered
  <2> DEFINE calls == served[node]
             status == nodes[node]
             longer == Append(calls, kind)
             kept == IF Len(longer) > T THEN Tail(longer) ELSE longer
             now == Now(status)
  <2>1. node \in Ids /\ calls \in Seq(Replies) /\ status \in NodeStatus
        /\ Len(calls) <= T /\ Heard(calls, status.trafficFailures)
    BY <1>1, <1>9
  <2>2. nodes' = [nodes EXCEPT ![node] = now] /\ served' = [served EXCEPT ![node] = kept]
    BY <1>4, <1>5, <1>9
  <2>3. /\ status.trafficFailures \in 0..T /\ now \in NodeStatus /\ now.trafficFailures \in Nat
        /\ kind \in Failures =>
             /\ now.trafficFailures = Saturate(status.trafficFailures, T)
             /\ now.trafficFailures = T => now.ejected > 0
    BY <1>7, <2>1, StatusOf
  <2>4. /\ kept \in Seq(Replies) /\ Len(kept) <= T /\ kept # <<>>
        /\ kept[Len(kept)] = kind /\ Heard(kept, now.trafficFailures)
    <3>1. kind \in Failures => now.trafficFailures = Saturate(status.trafficFailures, T)
      BY <2>3
    <3> HIDE DEF now, calls, status
    <3> QED
      BY <1>6, <2>1, <2>3, <3>1, OneMoreHeard
  <2> HIDE DEF calls, status, kept, now
  <2>5. nodes' \in [Ids -> NodeStatus] /\ served' \in [Ids -> Seq(Replies)]
    BY <1>1, <2>1, <2>2, <2>3, <2>4
  <2>6. /\ nodes'[node] = now /\ served'[node] = kept
        /\ \A n \in Ids : n # node => nodes'[n] = nodes[n] /\ served'[n] = served[n]
    BY <1>1, <2>1, <2>2
  <2>7. ASSUME NEW n \in Ids
        PROVE  Len(served'[n]) <= T /\ Heard(served'[n], nodes'[n].trafficFailures)
    <3>1. CASE n = node
      BY <2>3, <2>4, <2>6, <3>1
    <3>2. CASE n # node
      BY <1>1, <2>6, <3>2
    <3> QED
      BY <3>1, <3>2
  <2>8. HeardInv'
    BY <1>1, <1>2, <2>5, <2>7 DEF HeardInv
  <2>9. ASSUME NEW n \in Ids, served'[n] # served[n], Streak(n, {"failed", "thrown"})'
        PROVE  nodes'[n].ejected > 0
    <3>1. n = node
      BY <2>6, <2>9
    <3>2. Len(kept) = T /\ ToSet(kept) \subseteq Failures
      BY <2>6, <2>9, <3>1 DEF Streak, Failures
    <3>3. T \in Nat /\ T # 0
      BY ThresholdAssumption
    <3>4. \A i \in 1..T : kept[i] \in Failures
      BY <2>4, <3>2 DEF ToSet
    <3>5. kind \in Failures
      BY <2>4, <3>2, <3>3, <3>4
    <3>6. T <= now.trafficFailures
      <4>1. T \in 0..Len(kept) /\ \A i \in (Len(kept) - T + 1)..Len(kept) : kept[i] \in Failures
        BY <3>2, <3>3, <3>4
      <4> QED
        BY <2>4, <4>1, <3>2 DEF Heard
    <3>7. now.trafficFailures = T
      BY <2>3, <3>3, <3>5, <3>6 DEF Saturate
    <3> QED
      BY <2>3, <2>6, <3>1, <3>5, <3>7
  <2> QED
    BY <2>8, <2>9 DEF EjectedAfter
<1> QED
  BY <1>8, <1>9

\* Health checks, discovery and time leave the streaks of the records they keep.
LEMMA HealthKeepsStreaks ==
    ASSUME targets \in SUBSET Ids, registered \in SUBSET Ids,
           nodes \in [Ids -> NodeStatus], HealthNext
    PROVE  /\ targets' \in SUBSET Ids /\ registered' \in SUBSET Ids
           /\ nodes' \in [Ids -> NodeStatus]
           /\ \A n \in registered' : nodes'[n].trafficFailures = nodes[n].trafficFailures
<1>1. \A s \in NodeStatus : /\ s.healthy \in BOOLEAN /\ s.failures \in 0..UnhealthyThreshold
                            /\ s.trafficFailures \in 0..TrafficEjectThreshold
                            /\ s.ejected \in 0..Cooldown
  BY DEF NodeStatus
<1>2. Fresh \in NodeStatus
  BY ThresholdAssumption DEF Fresh, NodeStatus
<1>3. CASE DiscoveryPoll
  BY <1>3, StaticAssumption DEF DiscoveryPoll
<1>4. CASE PollAll
  <2>1. registered' = targets /\ targets' = targets
        /\ nodes' = [n \in Ids |-> IF n \in targets THEN nodes[n] ELSE Fresh]
    BY <1>4 DEF PollAll
  <2> QED
    BY <1>2, <2>1
<1>5. CASE Tick
  <2>1. targets' = targets /\ registered' = registered
        /\ nodes' = [n \in Ids |-> IF nodes[n].ejected > 0
                                   THEN [nodes[n] EXCEPT !.ejected = @ - 1] ELSE nodes[n]]
    BY <1>5 DEF Tick
  <2>2. ASSUME NEW n \in Ids
        PROVE  nodes'[n] \in NodeStatus /\ nodes'[n].trafficFailures = nodes[n].trafficFailures
    <3>1. nodes[n] \in NodeStatus
      OBVIOUS
    <3>2. CASE nodes[n].ejected > 0
      <4>1. nodes'[n] = [nodes[n] EXCEPT !.ejected = nodes[n].ejected - 1]
        BY <2>1, <3>2
      <4>2. nodes[n].ejected - 1 \in 0..Cooldown
        BY <1>1, <3>1, <3>2, ThresholdAssumption
      <4> QED
        BY <3>1, <4>1, <4>2 DEF NodeStatus
    <3>3. CASE ~(nodes[n].ejected > 0)
      BY <2>1, <3>1, <3>3
    <3> QED
      BY <3>2, <3>3
  <2>3. nodes' \in [Ids -> NodeStatus]
    BY <2>1, <2>2
  <2> QED
    BY <2>1, <2>2, <2>3
<1>6. ASSUME NEW n \in Ids, CheckOk(n) \/ CheckFail(n)
      PROVE  /\ targets' \in SUBSET Ids /\ registered' \in SUBSET Ids
             /\ nodes' \in [Ids -> NodeStatus]
             /\ \A m \in registered' : nodes'[m].trafficFailures = nodes[m].trafficFailures
  <2>1. targets' = targets /\ registered' = registered
    BY <1>6 DEF CheckOk, CheckFail, EndCheck
  <2>2. PICK healthy \in BOOLEAN, failures \in 0..UnhealthyThreshold :
          nodes' = [nodes EXCEPT ![n] = [nodes[n] EXCEPT !.healthy = healthy, !.failures = failures]]
    <3>1. CASE CheckOk(n)
      <4>1. nodes' = [nodes EXCEPT ![n] = [nodes[n] EXCEPT !.healthy = TRUE, !.failures = 0]]
        BY <3>1 DEF CheckOk
      <4>2. 0 \in 0..UnhealthyThreshold
        BY ThresholdAssumption
      <4> QED
        BY <4>1, <4>2
    <3>2. CASE CheckFail(n)
      <4> DEFINE failures == Saturate(nodes[n].failures, UnhealthyThreshold)
                 healthy == nodes[n].healthy /\ failures < UnhealthyThreshold
      <4>1. nodes' = [nodes EXCEPT ![n] = [nodes[n] EXCEPT !.failures = failures, !.healthy = healthy]]
        BY <3>2 DEF CheckFail
      <4>2. failures \in 0..UnhealthyThreshold
        BY <1>1, ThresholdAssumption DEF Saturate
      <4>3. healthy \in BOOLEAN
        OBVIOUS
      <4> HIDE DEF failures, healthy
      <4>4. [nodes[n] EXCEPT !.failures = failures, !.healthy = healthy] =
              [nodes[n] EXCEPT !.healthy = healthy, !.failures = failures]
        OBVIOUS
      <4> QED
        BY <4>1, <4>2, <4>3, <4>4
    <3> QED
      BY <1>6, <3>1, <3>2
  <2>3. ASSUME NEW m \in Ids
        PROVE  nodes'[m] \in NodeStatus /\ nodes'[m].trafficFailures = nodes[m].trafficFailures
    <3>1. CASE m = n
      <4>1. nodes[n] \in NodeStatus
        OBVIOUS
      <4>2. nodes'[n] = [nodes[n] EXCEPT !.healthy = healthy, !.failures = failures]
        BY <2>2
      <4> QED
        BY <3>1, <4>1, <4>2 DEF NodeStatus
    <3>2. CASE m # n
      BY <2>2, <3>2
    <3> QED
      BY <3>1, <3>2
  <2>4. nodes' \in [Ids -> NodeStatus]
    BY <2>2, <2>3
  <2> QED
    BY <2>1, <2>3, <2>4
<1> QED
  BY <1>3, <1>4, <1>5, <1>6 DEF HealthNext

\* Any other step: what is forgotten of a backend leaves nothing to count.
LEMMA OthersHeard ==
    ASSUME HeardInv, OtherStep
    PROVE  /\ HeardInv'
           /\ \A n \in Ids :
                served'[n] # served[n] => ~Streak(n, {"failed", "thrown"})'
<1>1. /\ targets \in SUBSET Ids /\ registered \in SUBSET Ids
      /\ nodes \in [Ids -> NodeStatus] /\ served \in [Ids -> Seq(Replies)]
      /\ \A n \in Ids : /\ Len(served[n]) <= TrafficEjectThreshold
                        /\ Heard(served[n], nodes[n].trafficFailures)
  BY DEF HeardInv
<1>2. served' = [n \in Ids |-> IF n \in registered' THEN served[n] ELSE <<>>]
  BY DEF OtherStep
<1>3. /\ targets' \in SUBSET Ids /\ registered' \in SUBSET Ids
      /\ nodes' \in [Ids -> NodeStatus]
      /\ \A n \in registered' : nodes'[n].trafficFailures = nodes[n].trafficFailures
  <2>1. CASE HealthStep
    BY <1>1, <2>1, HealthKeepsStreaks DEF HealthStep
  <2>2. CASE ~HealthStep
    <3>1. UNCHANGED healthVars
      BY <2>2 DEF OtherStep, Submit, TimerFires, Finally
    <3> QED
      BY <1>1, <3>1 DEF healthVars
  <2> QED
    BY <2>1, <2>2
<1>4. Len(<<>>) <= TrafficEjectThreshold /\ Len(<<>>) # TrafficEjectThreshold
      /\ \A count \in Nat : Heard(<<>>, count)
  BY ThresholdAssumption DEF Heard
<1>5. ASSUME NEW n \in Ids
      PROVE  Len(served'[n]) <= TrafficEjectThreshold /\ Heard(served'[n], nodes'[n].trafficFailures)
  <2>1. CASE n \in registered'
    BY <1>1, <1>2, <1>3, <2>1
  <2>2. CASE n \notin registered'
    <3>1. nodes'[n].trafficFailures \in Nat
      <4>1. nodes'[n].trafficFailures \in 0..TrafficEjectThreshold
        BY <1>3, StatusOf
      <4> QED
        BY <4>1, ThresholdAssumption
    <3> QED
      BY <1>2, <1>4, <2>2, <3>1
  <2> QED
    BY <2>1, <2>2
<1>6. served' \in [Ids -> Seq(Replies)]
  BY <1>1, <1>2
<1>7. HeardInv'
  BY <1>3, <1>5, <1>6 DEF HeardInv
<1>8. ASSUME NEW n \in Ids, served'[n] # served[n], Streak(n, {"failed", "thrown"})' PROVE FALSE
  <2>1. served'[n] = <<>>
    BY <1>2, <1>8
  <2> QED
    BY <1>4, <1>8, <2>1 DEF Streak
<1> QED
  BY <1>7, <1>8

\* flushBatch reports every call it makes: a backend that fails TrafficEjectThreshold
\* batches in a row is ejected, whatever it answered before, garbled bodies included.
THEOREM FailuresEject == HistorySpec => FailingBackendEjected
<1> DEFINE Heeded == EjectedAfter({"failed", "thrown"})
<1>1. HeardInv /\ [HistoryNext]_historyVars => HeardInv' /\ [Heeded]_historyVars
  <2> SUFFICES ASSUME HeardInv, [HistoryNext]_historyVars
               PROVE  HeardInv' /\ [Heeded]_historyVars
    OBVIOUS
  <2>1. CASE \E f \in flushes, kind \in Answers : RecordedCall(f, kind)
    BY <2>1, CallHeard
  <2>2. CASE OtherStep
    BY <2>2, OthersHeard DEF EjectedAfter
  <2>3. CASE UNCHANGED historyVars
    BY <2>3 DEF historyVars, vars, routerVars, healthVars, HeardInv
  <2> QED
    BY <2>1, <2>2, <2>3 DEF HistoryNext
<1> HIDE DEF Heeded
<1>2. HistorySpec => [][Heeded]_historyVars
  BY <1>1, HeardInit, PTL DEF HistorySpec
<1> QED
  BY <1>2 DEF FailingBackendEjected, Heeded
=============================================================================
