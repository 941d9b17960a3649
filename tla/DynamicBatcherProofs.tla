------------------------- MODULE DynamicBatcherProofs -------------------------
(***************************************************************************)
(* For every number of requests, batch size, set of dimensions and steps:  *)
(* the event is exact, a request is in one place until its future is set   *)
(* and that happens once, a failure stays in its forward pass, everyone    *)
(* gets their own vectors, and one forward pass runs at a time.            *)
(*                                                                         *)
(* LockInv and EventInv stand for themselves; PlaceInv says where every    *)
(* request is, and OwnInv rests on it.                                     *)
(***************************************************************************)
EXTENDS DynamicBatcher, FiniteSetTheorems, SequenceTheorems, TLAPS

----------------------------------------------------------------------------
(* One forward pass at a time *)

\* Who holds _gpu_lock, and how many forward passes run.
LockInv ==
    /\ multi \in Nat /\ locked \in BOOLEAN
    /\ (locked => forwards = multi + 1) /\ (~locked => forwards = multi)
    /\ DOMAIN client = 1..Requests
    /\ worker = "encoding" => locked
    /\ \A r \in 1..Requests : client[r] = "encoding" =>
         /\ locked /\ worker # "encoding"
         /\ \A q \in 1..Requests : client[q] = "encoding" => q = r

\* Nothing runs at first.
LEMMA LockInit == Init => LockInv
<1> SUFFICES ASSUME Init PROVE LockInv
  OBVIOUS
<1>1. /\ multi = 0 /\ locked = FALSE /\ forwards = 0 /\ worker = "waiting"
      /\ client = [r \in 1..Requests |-> "none"]
  BY DEF Init
<1> QED
  BY <1>1 DEF LockInv

\* Whoever starts a forward pass of /embed takes the lock, and gives it back with its end.
LEMMA LockNext == LockInv /\ [Next]_vars => LockInv'
<1> SUFFICES ASSUME LockInv, [Next]_vars PROVE LockInv'
  OBVIOUS
<1>0. /\ multi \in Nat /\ locked \in BOOLEAN
      /\ (locked => forwards = multi + 1) /\ (~locked => forwards = multi)
      /\ DOMAIN client = 1..Requests
  BY DEF LockInv
<1>1. CASE Arrive
  <2>1. PICK item \in Items : Submit(item) \/ Direct(item)
    BY <1>1 DEF Arrive
  <2>2. UNCHANGED <<gpu, multi>>
    BY <1>1 DEF Arrive
  <2>3. worker' = worker
    BY <2>1 DEF Submit, Direct, batching
  <2>4. /\ DOMAIN client' = 1..Requests
        /\ \A r \in 1..Requests : client'[r] = "encoding" => client[r] = "encoding"
    BY <1>0, <2>1 DEF Submit, Direct
  <2> QED
    BY <2>2, <2>3, <2>4 DEF LockInv, gpu
<1>2. CASE Wake \/ Take \/ DemuxFails \/ Demux \/ Fail
  <2>1. UNCHANGED <<gpu, multi, client>>
    BY <1>2 DEF Wake, Take, DemuxFails, Demux, Fail, Settle
  <2>2. worker' # "encoding"
    BY <1>2 DEF Wake, Take, DemuxFails, Demux, Fail, Settle, NextGroup
  <2> QED
    BY <2>1, <2>2 DEF LockInv, gpu
<1>3. CASE Encode
  <2>1. /\ ~locked /\ locked' = TRUE /\ forwards' = forwards + 1 /\ UNCHANGED <<multi, client>>
    BY <1>3 DEF Encode
  <2> QED
    BY <1>0, <2>1 DEF LockInv
<1>4. CASE EncodeFails \/ EncodeEnds
  <2>1. /\ worker = "encoding" /\ locked' = FALSE /\ forwards' = forwards - 1
        /\ UNCHANGED <<multi, client>> /\ worker' # "encoding"
    BY <1>4 DEF EncodeFails, EncodeEnds
  <2>2. locked /\ \A r \in 1..Requests : client[r] # "encoding"
    BY <2>1 DEF LockInv
  <2>3. forwards' = multi
    BY <1>0, <2>1, <2>2
  <2> QED
    BY <1>0, <2>1, <2>2, <2>3 DEF LockInv
<1>5. ASSUME NEW r \in 1..Requests, Answer(r) \/ TimeOut(r) PROVE LockInv'
  <2>1. UNCHANGED <<gpu, multi>> /\ worker' = worker
    BY <1>5 DEF Answer, TimeOut, batching
  <2>2. /\ DOMAIN client' = 1..Requests
        /\ \A q \in 1..Requests : client'[q] = "encoding" => client[q] = "encoding"
    BY <1>0, <1>5 DEF Answer, TimeOut
  <2> QED
    BY <2>1, <2>2 DEF LockInv, gpu
<1>6. ASSUME NEW r \in 1..Requests, DirectStart(r) PROVE LockInv'
  <2>1. /\ ~locked /\ locked' = TRUE /\ forwards' = forwards + 1 /\ multi' = multi
        /\ worker' = worker /\ client' = [client EXCEPT ![r] = "encoding"]
    BY <1>6 DEF DirectStart, batching
  <2> QED
    BY <1>0, <2>1 DEF LockInv
<1>7. ASSUME NEW r \in 1..Requests, DirectEnd(r) PROVE LockInv'
  <2>1. /\ client[r] = "encoding" /\ locked' = FALSE /\ forwards' = forwards - 1 /\ multi' = multi
        /\ worker' = worker
        /\ \E answer \in {"200", "500"} : client' = [client EXCEPT ![r] = answer]
    BY <1>7 DEF DirectEnd, batching
  <2>2. /\ locked /\ worker # "encoding"
        /\ \A q \in 1..Requests : client[q] = "encoding" => q = r
    BY <2>1 DEF LockInv
  <2>3. forwards' = multi
    BY <1>0, <2>1, <2>2
  <2>4. DOMAIN client' = 1..Requests /\ \A q \in 1..Requests : client'[q] # "encoding"
    BY <1>0, <2>1, <2>2
  <2> QED
    BY <1>0, <2>1, <2>2, <2>3, <2>4 DEF LockInv
<1>8. CASE MultiStart \/ MultiEnd
  <2>1. UNCHANGED <<worker, locked, client>>
    BY <1>8 DEF MultiStart, MultiEnd, batching
  <2>2. \/ multi' = multi + 1 /\ forwards' = forwards + 1
        \/ multi > 0 /\ multi' = multi - 1 /\ forwards' = forwards - 1
    BY <1>8 DEF MultiStart, MultiEnd
  <2>3. multi' \in Nat /\ (locked => forwards' = multi' + 1) /\ (~locked => forwards' = multi')
    BY <1>0, <2>2
  <2> QED
    BY <2>1, <2>3 DEF LockInv
<1>9. CASE UNCHANGED vars
  BY <1>9 DEF vars, batching, gpu, LockInv
<1> QED
  BY <1>1, <1>2, <1>3, <1>4, <1>5, <1>6, <1>7, <1>8, <1>9 DEF Next, Worker, Thread

\* _gpu_lock (jina-server/server.py): the forward passes of /embed, of the worker and of
\* the threads that go past it, run one at a time.
THEOREM OnePassAtATime == Spec => []EmbedSerialised
<1>1. LockInv => EmbedSerialised
  BY DEF LockInv, EmbedSerialised
<1> QED
  BY <1>1, LockInit, LockNext, PTL DEF Spec

----------------------------------------------------------------------------
(* Counting inputs *)

IsNat(seq, sum) == sum \in Nat

Summed == INSTANCE SequenceFacts WITH Op <- LAMBDA sum, item : sum + item.size, Base <- 0,
                                  Items <- Items, Holds <- IsNat

\* Inputs in the terms of SequenceFacts.
LEMMA InputsIsFold == \A seq : Inputs(seq) = Summed!Fold(seq)
BY DEF Inputs, Summed!Fold, FoldLeft, Summed!FoldLeft, MapThenFoldSet, Summed!MapThenFoldSet,
       Max, Summed!Max

\* One more request adds its inputs.
LEMMA InputsOf ==
    /\ Inputs(<<>>) = 0
    /\ \A seq \in Seq(Items) :
         /\ Inputs(seq) \in Nat
         /\ \A item \in Items : Inputs(Append(seq, item)) = Inputs(seq) + item.size
<1>1. Inputs(<<>>) = 0
  BY Summed!FoldEmpty, InputsIsFold
<1>2. ASSUME NEW seq \in Seq(Items), NEW item \in Items
      PROVE  Inputs(Append(seq, item)) = Inputs(seq) + item.size
  BY Summed!FoldAppend, InputsIsFold
<1>3. ASSUME NEW item \in Items PROVE item.size \in Nat
  BY BatcherAssumption DEF Items
<1>4. \A seq \in Seq(Items) : IsNat(seq, Summed!Fold(seq))
  <2>1. IsNat(<<>>, 0)
    BY DEF IsNat
  <2>2. ASSUME NEW seq \in Seq(Items), NEW x \in Items, IsNat(seq, Summed!Fold(seq))
        PROVE  IsNat(Append(seq, x), Summed!Fold(seq) + x.size)
    BY <1>3, <2>2 DEF IsNat
  <2> QED
    BY <2>1, <2>2, Summed!FoldInduction
<1> QED
  BY <1>1, <1>2, <1>4, InputsIsFold DEF IsNat

EventInv == queue \in Seq(Items) /\ EventMeansFullBatch

\* The queue is empty and the event clear.
LEMMA EventInit == Init => EventInv
<1> SUFFICES ASSUME Init PROVE EventInv
  OBVIOUS
<1>1. queue = <<>> /\ event = FALSE
  BY DEF Init
<1>2. ~(0 >= MaxBatch)
  BY BatcherAssumption
<1> QED
  BY <1>1, <1>2, InputsOf DEF EventInv, EventMeansFullBatch

\* submit sets the event when the batch is full, and the worker clears both.
LEMMA EventNext == EventInv /\ [Next]_vars => EventInv'
<1> SUFFICES ASSUME EventInv, [Next]_vars PROVE EventInv'
  OBVIOUS
<1>1. ASSUME NEW item \in Items, Submit(item) PROVE EventInv'
  <2>1. queue' = Append(queue, item) /\ event' = (event \/ Inputs(queue') >= MaxBatch)
    BY <1>1 DEF Submit
  <2>2. queue \in Seq(Items) /\ (event <=> Inputs(queue) >= MaxBatch)
    BY DEF EventInv, EventMeansFullBatch
  <2>3. /\ Inputs(queue) \in Nat /\ item.size \in Nat /\ MaxBatch \in Nat
        /\ Inputs(queue') = Inputs(queue) + item.size
    <3>1. item.size \in Nat /\ MaxBatch \in Nat
      BY BatcherAssumption DEF Items
    <3> QED
      BY <2>1, <2>2, <3>1, InputsOf
  <2>4. Inputs(queue) >= MaxBatch => Inputs(queue') >= MaxBatch
    BY <2>3
  <2>5. event' <=> Inputs(queue') >= MaxBatch
    BY <2>1, <2>2, <2>4
  <2>6. queue' \in Seq(Items)
    BY <2>1, <2>2
  <2> QED
    BY <2>5, <2>6 DEF EventInv, EventMeansFullBatch
<1>2. CASE Take
  <2>1. queue' = <<>> /\ event' = FALSE
    BY <1>2 DEF Take
  <2>2. ~(0 >= MaxBatch)
    BY BatcherAssumption
  <2> QED
    BY <2>1, <2>2, InputsOf DEF EventInv, EventMeansFullBatch
<1>3. ASSUME UNCHANGED <<queue, event>> PROVE EventInv'
  BY <1>3 DEF EventInv, EventMeansFullBatch
<1>4. Take \/ (\E item \in Items : Submit(item)) \/ UNCHANGED <<queue, event>>
  <2>1. CASE Arrive
    BY <2>1 DEF Arrive, Direct, batching
  <2>2. CASE Worker
    BY <2>2 DEF Worker, Wake, Encode, EncodeFails, EncodeEnds, Demux, DemuxFails, Fail, Settle
  <2>3. ASSUME NEW r \in 1..Requests, Thread(r) PROVE UNCHANGED <<queue, event>>
    BY <2>3 DEF Thread, Answer, TimeOut, DirectStart, DirectEnd, batching
  <2>4. CASE MultiStart \/ MultiEnd \/ UNCHANGED vars
    BY <2>4 DEF MultiStart, MultiEnd, vars, batching
  <2> QED
    BY <2>1, <2>2, <2>3, <2>4 DEF Next
<1> QED
  BY <1>1, <1>2, <1>3, <1>4

\* DynamicBatcher.submit and _run: the event is set exactly while the queue holds a full
\* batch, so that a full batch is never left to the timer and an empty queue never wakes
\* the worker.
THEOREM EventIsExact == Spec => []EventMeansFullBatch
<1>1. EventInv => EventMeansFullBatch
  BY DEF EventInv
<1> QED
  BY <1>1, EventInit, EventNext, PTL DEF Spec

----------------------------------------------------------------------------
(* Groups *)

\* A group is not empty, and its requests go together.
OneKey(group) ==
    /\ group \in Seq(Items) /\ group # <<>>
    /\ \A k \in DOMAIN group : Key(group[k]) = Key(group[1])

\* No request is twice in a sequence, or in a sequence of groups.
Distinct(seq) == \A p, q \in DOMAIN seq : seq[p].id = seq[q].id => p = q
Apart(gs) == \A i, j \in DOMAIN gs : \A k \in DOMAIN gs[i], l \in DOMAIN gs[j] :
                gs[i][k].id = gs[j][l].id => i = j /\ k = l

Holding(gs, item) == \E i \in DOMAIN gs : \E k \in DOMAIN gs[i] : gs[i][k] = item

\* gs groups the requests of batch, all of them and no other.
Grouping(batch, gs) ==
    /\ gs \in Seq(Seq(Items))
    /\ \A i \in DOMAIN gs : OneKey(gs[i])
    /\ \A item \in Items : Holding(gs, item) <=> \E p \in DOMAIN batch : batch[p] = item
    /\ Distinct(batch) => Apart(gs)

\* longer is gs with item at one more place.
OneMore(gs, longer, item) ==
    \E a \in DOMAIN longer : \E b \in DOMAIN longer[a] :
      /\ longer[a][b] = item
      /\ \A i \in DOMAIN longer : \A k \in DOMAIN longer[i] : i # a \/ k # b =>
           i \in DOMAIN gs /\ k \in DOMAIN gs[i] /\ longer[i][k] = gs[i][k]
      /\ \A i \in DOMAIN gs : \A k \in DOMAIN gs[i] :
           /\ i \in DOMAIN longer /\ k \in DOMAIN longer[i] /\ longer[i][k] = gs[i][k]
           /\ i # a \/ k # b

GroupFold == INSTANCE SequenceFacts WITH Op <- WithItem, Base <- <<>>,
                                     Items <- Items, Holds <- Grouping

\* Grouped in the terms of SequenceFacts.
LEMMA GroupedIsFold == \A batch : Grouped(batch) = GroupFold!Fold(batch)
BY DEF Grouped, GroupFold!Fold, FoldLeft, GroupFold!FoldLeft, MapThenFoldSet,
       GroupFold!MapThenFoldSet, Max, GroupFold!Max

\* The request joins the first group that has its key, or makes a new one.
LEMMA JoinsOne ==
    ASSUME NEW gs \in Seq(Seq(Items)), \A i \in DOMAIN gs : OneKey(gs[i]), NEW item \in Items
    PROVE  \/ WithItem(gs, item) = Append(gs, <<item>>)
           \/ \E i \in DOMAIN gs : /\ Key(gs[i][1]) = Key(item)
                                   /\ WithItem(gs, item) = [gs EXCEPT ![i] = Append(@, item)]
<1> DEFINE SameKey(group) == Key(Head(group)) = Key(item)
           same == {i \in 1..Len(gs) : SameKey(gs[i])}
           first == SelectInSeq(gs, SameKey)
<1>1. first = IF same # {} THEN Min(same) ELSE 0
  BY DEF SelectInSeq
<1>2. WithItem(gs, item) = IF first = 0 THEN Append(gs, <<item>>)
                           ELSE [gs EXCEPT ![first] = Append(@, item)]
  BY DEF WithItem
<1>3. first = 0 \/ first \in same
  <2>1. CASE same # {}
    <3>0. same \in SUBSET Nat
      OBVIOUS
    <3>1. \E i \in same : \A j \in same : i <= j
      <4> HIDE DEF same
      <4> QED
        BY <2>1, <3>0, GroupFold!LeastNumber
    <3>2. Min(same) \in same
      BY <3>1 DEF Min
    <3> QED
      BY <1>1, <2>1, <3>2
  <2> QED
    BY <1>1, <2>1
<1> HIDE DEF first
<1>4. ASSUME first \in same PROVE first \in DOMAIN gs /\ Key(gs[first][1]) = Key(item)
  <2>1. first \in DOMAIN gs /\ Key(Head(gs[first])) = Key(item)
    BY <1>4
  <2>2. gs[first] \in Seq(Items) /\ gs[first] # <<>>
    BY <2>1 DEF OneKey
  <2>3. Head(gs[first]) = gs[first][1]
    BY <2>2
  <2> QED
    BY <2>1, <2>3
<1> QED
  BY <1>2, <1>3, <1>4

\* Either way, it is at one more place, and among its own.
LEMMA WithItemAdds ==
    ASSUME NEW gs \in Seq(Seq(Items)), \A i \in DOMAIN gs : OneKey(gs[i]), NEW item \in Items
    PROVE  /\ WithItem(gs, item) \in Seq(Seq(Items))
           /\ \A i \in DOMAIN WithItem(gs, item) : OneKey(WithItem(gs, item)[i])
           /\ OneMore(gs, WithItem(gs, item), item)
<1> DEFINE n == Len(gs)
<1>0. n \in Nat /\ DOMAIN gs = 1..n
  OBVIOUS
<1>1. CASE WithItem(gs, item) = Append(gs, <<item>>)
  <2> DEFINE longer == Append(gs, <<item>>)
             one == <<item>>
  <2>1. one \in Seq(Items) /\ DOMAIN one = {1} /\ one[1] = item /\ one # <<>>
    OBVIOUS
  <2> HIDE DEF one
  <2>2. /\ longer \in Seq(Seq(Items)) /\ DOMAIN longer = 1..(n + 1)
        /\ longer[n + 1] = one /\ \A i \in 1..n : longer[i] = gs[i]
    <3>1. longer = Append(gs, one)
      BY DEF one
    <3> HIDE DEF longer
    <3> QED
      BY <2>1, <3>1
  <2> HIDE DEF longer, n
  <2>3. /\ n + 1 \in 1..(n + 1) /\ n + 1 \notin 1..n /\ \A i \in 1..n : i \in 1..(n + 1)
        /\ \A i \in 1..(n + 1) : i # n + 1 => i \in 1..n
    BY <1>0
  <2>4. OneKey(one)
    BY <2>1 DEF OneKey
  <2>5. \A i \in DOMAIN longer : OneKey(longer[i])
    BY <1>0, <2>2, <2>3, <2>4
  <2>6. OneMore(gs, longer, item)
    <3>1. n + 1 \in DOMAIN longer /\ 1 \in DOMAIN longer[n + 1] /\ longer[n + 1][1] = item
      BY <2>1, <2>2, <2>3
    <3>2. ASSUME NEW i \in DOMAIN longer, NEW k \in DOMAIN longer[i], i # n + 1 \/ k # 1
          PROVE  i \in DOMAIN gs /\ k \in DOMAIN gs[i] /\ longer[i][k] = gs[i][k]
      <4>1. i # n + 1
        BY <2>1, <2>2, <3>2
      <4> QED
        BY <1>0, <2>2, <2>3, <4>1
    <3>3. ASSUME NEW i \in DOMAIN gs, NEW k \in DOMAIN gs[i]
          PROVE  /\ i \in DOMAIN longer /\ k \in DOMAIN longer[i] /\ longer[i][k] = gs[i][k]
                 /\ i # n + 1
      BY <1>0, <2>2, <2>3
    <3> QED
      BY <3>1, <3>2, <3>3 DEF OneMore
  <2> QED
    BY <1>1, <2>2, <2>5, <2>6 DEF longer
<1>2. ASSUME NEW a \in DOMAIN gs, Key(gs[a][1]) = Key(item),
             WithItem(gs, item) = [gs EXCEPT ![a] = Append(@, item)]
      PROVE  /\ WithItem(gs, item) \in Seq(Seq(Items))
             /\ \A i \in DOMAIN WithItem(gs, item) : OneKey(WithItem(gs, item)[i])
             /\ OneMore(gs, WithItem(gs, item), item)
  <2> DEFINE group == gs[a]
             joined == Append(group, item)
             m == Len(group)
             longer == [gs EXCEPT ![a] = joined]
  <2>1. WithItem(gs, item) = longer
    BY <1>2
  <2>2. group \in Seq(Items) /\ group # <<>> /\ OneKey(group)
    BY DEF OneKey
  <2>3. m \in Nat /\ m # 0 /\ DOMAIN group = 1..m
    BY <2>2
  <2>4. /\ joined \in Seq(Items) /\ DOMAIN joined = 1..(m + 1) /\ joined # <<>>
        /\ joined[m + 1] = item /\ \A k \in 1..m : joined[k] = group[k]
    <3>1. /\ joined \in Seq(Items) /\ joined # <<>> /\ Len(joined) = m + 1
          /\ joined[m + 1] = item /\ \A k \in 1..m : joined[k] = group[k]
      BY <2>2, AppendProperties
    <3> HIDE DEF joined
    <3> QED
      BY <3>1
  <2>5. /\ longer \in Seq(Seq(Items)) /\ DOMAIN longer = DOMAIN gs
        /\ longer[a] = joined /\ \A i \in DOMAIN gs : i # a => longer[i] = gs[i]
    <3> HIDE DEF joined
    <3> QED
      BY <2>4
  <2>6. /\ m + 1 \in 1..(m + 1) /\ m + 1 \notin 1..m /\ 1 \in 1..m
        /\ \A i \in 1..m : i \in 1..(m + 1)
        /\ \A i \in 1..(m + 1) : i # m + 1 => i \in 1..m
    BY <2>3
  <2>7. Key(group[1]) = Key(item)
    BY <1>2
  <2> HIDE DEF longer, joined, m
  <2>8. OneKey(joined)
    <3>1. joined[1] = group[1]
      BY <2>4, <2>6
    <3>2. \A k \in 1..m : Key(joined[k]) = Key(joined[1])
      BY <2>2, <2>3, <2>4, <3>1 DEF OneKey
    <3>3. Key(joined[m + 1]) = Key(joined[1])
      BY <2>4, <2>7, <3>1
    <3> QED
      BY <2>4, <2>6, <3>2, <3>3 DEF OneKey
  <2>9. \A i \in DOMAIN longer : OneKey(longer[i])
    BY <2>5, <2>8
  <2>10. OneMore(gs, longer, item)
    <3>1. a \in DOMAIN longer /\ m + 1 \in DOMAIN longer[a] /\ longer[a][m + 1] = item
      BY <2>4, <2>5, <2>6
    <3>2. ASSUME NEW i \in DOMAIN longer, NEW k \in DOMAIN longer[i], i # a \/ k # m + 1
          PROVE  i \in DOMAIN gs /\ k \in DOMAIN gs[i] /\ longer[i][k] = gs[i][k]
      <4>1. CASE i # a
        BY <2>5, <4>1
      <4>2. CASE i = a
        BY <2>3, <2>4, <2>5, <2>6, <3>2, <4>2
      <4> QED
        BY <4>1, <4>2
    <3>3. ASSUME NEW i \in DOMAIN gs, NEW k \in DOMAIN gs[i]
          PROVE  /\ i \in DOMAIN longer /\ k \in DOMAIN longer[i] /\ longer[i][k] = gs[i][k]
                 /\ i # a \/ k # m + 1
      <4>1. CASE i # a
        BY <2>5, <4>1
      <4>2. CASE i = a
        BY <2>3, <2>4, <2>5, <2>6, <4>2
      <4> QED
        BY <4>1, <4>2
    <3> QED
      BY <3>1, <3>2, <3>3 DEF OneMore
  <2> QED
    BY <2>1, <2>5, <2>9, <2>10
<1> QED
  BY <1>1, <1>2, JoinsOne

\* Grouping a batch neither loses nor repeats a request.
LEMMA GroupedIs ==
    ASSUME NEW batch \in Seq(Items)
    PROVE  Grouping(batch, Grouped(batch)) /\ (batch = <<>> <=> Grouped(batch) = <<>>)
<1>1. Grouping(<<>>, <<>>)
  BY DEF Grouping, Apart, Holding
<1>2. ASSUME NEW seq \in Seq(Items), NEW x \in Items, Grouping(seq, GroupFold!Fold(seq))
      PROVE  Grouping(Append(seq, x), WithItem(GroupFold!Fold(seq), x))
  <2> DEFINE n == Len(seq)
             after == Append(seq, x)
             gs == GroupFold!Fold(seq)
             longer == WithItem(gs, x)
  <2>1. /\ n \in Nat /\ DOMAIN seq = 1..n /\ DOMAIN after = 1..(n + 1)
        /\ after[n + 1] = x /\ \A i \in 1..n : after[i] = seq[i]
        /\ after \in Seq(Items)
    OBVIOUS
  <2>2. /\ n + 1 \in 1..(n + 1) /\ n + 1 \notin 1..n /\ \A i \in 1..n : i \in 1..(n + 1)
        /\ \A i \in 1..(n + 1) : i # n + 1 => i \in 1..n
    OBVIOUS
  <2> HIDE DEF n, after, gs
  <2>3. /\ gs \in Seq(Seq(Items)) /\ \A i \in DOMAIN gs : OneKey(gs[i])
        /\ \A item \in Items : Holding(gs, item) <=> \E p \in DOMAIN seq : seq[p] = item
        /\ Distinct(seq) => Apart(gs)
    BY <1>2 DEF Grouping, gs
  <2>4. /\ longer \in Seq(Seq(Items)) /\ \A i \in DOMAIN longer : OneKey(longer[i])
        /\ OneMore(gs, longer, x)
    BY <2>3, WithItemAdds
  <2> HIDE DEF longer
  <2>5. PICK a \in DOMAIN longer : \E b \in DOMAIN longer[a] :
          /\ longer[a][b] = x
          /\ \A i \in DOMAIN longer : \A k \in DOMAIN longer[i] : i # a \/ k # b =>
               i \in DOMAIN gs /\ k \in DOMAIN gs[i] /\ longer[i][k] = gs[i][k]
          /\ \A i \in DOMAIN gs : \A k \in DOMAIN gs[i] :
               /\ i \in DOMAIN longer /\ k \in DOMAIN longer[i] /\ longer[i][k] = gs[i][k]
               /\ i # a \/ k # b
    BY <2>4 DEF OneMore
  <2>6. PICK b \in DOMAIN longer[a] :
          /\ longer[a][b] = x
          /\ \A i \in DOMAIN longer : \A k \in DOMAIN longer[i] : i # a \/ k # b =>
               i \in DOMAIN gs /\ k \in DOMAIN gs[i] /\ longer[i][k] = gs[i][k]
          /\ \A i \in DOMAIN gs : \A k \in DOMAIN gs[i] :
               /\ i \in DOMAIN longer /\ k \in DOMAIN longer[i] /\ longer[i][k] = gs[i][k]
               /\ i # a \/ k # b
    BY <2>5
  <2>7. ASSUME NEW item \in Items
        PROVE  Holding(longer, item) <=> \E p \in DOMAIN after : after[p] = item
    <3>1. Holding(longer, item) <=> Holding(gs, item) \/ item = x
      BY <2>6 DEF Holding
    <3>2. (\E p \in DOMAIN after : after[p] = item)
            <=> (\E p \in DOMAIN seq : seq[p] = item) \/ item = x
      BY <2>1, <2>2
    <3> QED
      BY <2>3, <3>1, <3>2
  <2>8. ASSUME Distinct(after) PROVE Apart(longer)
    <3>1. Distinct(seq)
      BY <2>1, <2>2, <2>8 DEF Distinct
    <3>2. \A p \in DOMAIN seq : seq[p].id # x.id
      BY <2>1, <2>2, <2>8 DEF Distinct
    <3>3. ASSUME NEW i \in DOMAIN gs, NEW k \in DOMAIN gs[i] PROVE gs[i][k].id # x.id
      <4>1. gs[i][k] \in Items
        BY <2>3 DEF OneKey
      <4>2. Holding(gs, gs[i][k])
        BY DEF Holding
      <4> QED
        BY <2>3, <3>2, <4>1, <4>2
    <3>4. Apart(gs)
      BY <2>3, <3>1
    <3> SUFFICES ASSUME NEW i \in DOMAIN longer, NEW j \in DOMAIN longer,
                        NEW k \in DOMAIN longer[i], NEW l \in DOMAIN longer[j],
                        longer[i][k].id = longer[j][l].id
                 PROVE  i = j /\ k = l
      BY DEF Apart
    <3>5. CASE (i # a \/ k # b) /\ (j # a \/ l # b)
      BY <2>6, <3>4, <3>5 DEF Apart
    <3>6. CASE i = a /\ k = b
      BY <2>6, <3>3, <3>6
    <3>7. CASE j = a /\ l = b
      BY <2>6, <3>3, <3>7
    <3> QED
      BY <3>5, <3>6, <3>7
  <2>9. Grouping(after, longer)
    BY <2>4, <2>7, <2>8 DEF Grouping
  <2> QED
    BY <2>9 DEF after, longer, gs
<1>3. Grouping(batch, Grouped(batch))
  <2>1. \A seq \in Seq(Items) : Grouping(seq, GroupFold!Fold(seq))
    BY <1>1, <1>2, GroupFold!FoldInduction
  <2> QED
    BY <2>1, GroupedIsFold
<1>4. batch # <<>> => Grouped(batch) # <<>>
  <2> SUFFICES ASSUME batch # <<>>, Grouped(batch) = <<>> PROVE FALSE
    OBVIOUS
  <2>1. 1 \in DOMAIN batch /\ batch[1] \in Items
    OBVIOUS
  <2>2. Holding(Grouped(batch), batch[1])
    BY <1>3, <2>1 DEF Grouping
  <2> QED
    BY <2>2 DEF Holding
<1>5. Grouped(<<>>) = <<>>
  BY GroupedIsFold, GroupFold!FoldEmpty
<1> QED
  BY <1>3, <1>4, <1>5

----------------------------------------------------------------------------
(* Where the requests are *)

\* A request in line is as it was asked for.
Known(seq) == \A p \in DOMAIN seq : seq[p].id \in 1..Len(asked) /\ asked[seq[p].id] = seq[p]

AskedInv ==
    /\ asked \in Seq(Items) /\ Len(asked) <= Requests
    /\ \A r \in 1..Len(asked) : asked[r].id = r

QueueInv == queue \in Seq(Items) /\ Distinct(queue) /\ Known(queue)

GroupsInv ==
    /\ groups \in Seq(Seq(Items)) /\ Apart(groups)
    /\ \A i \in DOMAIN groups :
         /\ OneKey(groups[i]) /\ Known(groups[i])
         /\ \A k \in DOMAIN groups[i] : groups[i][k].id \notin IdsOf(queue)

\* The worker sets the futures of a group, to results or to an exception.
Settling == worker \in {"demuxing", "failing"}

\* The worker has groups except when it waits for some.
WorkerInv ==
    /\ worker \in {"waiting", "awake", "starting", "encoding", "demuxing", "failing"}
    /\ worker \in {"waiting", "awake"} <=> groups = <<>>

\* A request with a result is in no line, but for those of the group whose futures are
\* being set.
FutureInv ==
    /\ DOMAIN future = 1..Requests
    /\ \A r \in 1..Requests : future[r] # Pending =>
         /\ r <= Len(asked) /\ r \notin IdsOf(queue)
         /\ \A i \in DOMAIN groups : r \in IdsOf(groups[i]) => i = 1 /\ Settling

\* They are set in order.
DemuxInv ==
    Settling =>
      \E m \in Nat : /\ m < Len(groups[1])
                     /\ \A k \in DOMAIN groups[1] : future[groups[1][k].id] # Pending <=> k <= m

\* A request without a result is in line.
LineInv ==
    DynBatch => \A r \in 1..Len(asked) : future[r] = Pending =>
                  r \in IdsOf(queue) \/ \E i \in DOMAIN groups : r \in IdsOf(groups[i])

PlaceInv == AskedInv /\ QueueInv /\ GroupsInv /\ WorkerInv /\ FutureInv /\ DemuxInv /\ LineInv

\* Nothing was asked.
LEMMA PlaceInit == Init => PlaceInv
<1> SUFFICES ASSUME Init PROVE PlaceInv
  OBVIOUS
<1>1. /\ queue = <<>> /\ groups = <<>> /\ worker = "waiting" /\ asked = <<>>
      /\ future = [r \in 1..Requests |-> Pending]
  BY DEF Init
<1>2. /\ \A S : <<>> \in Seq(S)
      /\ Len(<<>>) = 0 /\ DOMAIN <<>> = {} /\ 1..0 = {}
  OBVIOUS
<1>3. AskedInv
  BY <1>1, <1>2, BatcherAssumption DEF AskedInv
<1>4. QueueInv /\ GroupsInv
  BY <1>1, <1>2 DEF QueueInv, GroupsInv, Distinct, Known, Apart
<1>5. WorkerInv /\ FutureInv /\ DemuxInv
  BY <1>1 DEF WorkerInv, FutureInv, DemuxInv, Settling
<1>6. LineInv
  BY <1>1, <1>2 DEF LineInv
<1> QED
  BY <1>3, <1>4, <1>5, <1>6 DEF PlaceInv

\* The first group is done: every request of it has a result.
LEMMA GroupEnds ==
    ASSUME PlaceInv, groups # <<>>, NextGroup, UNCHANGED <<DynBatch, queue, asked>>,
           DOMAIN future' = 1..Requests,
           \A r \in 1..Requests :
             IF r \in IdsOf(groups[1]) THEN future'[r] # Pending ELSE future'[r] = future[r]
    PROVE  PlaceInv'
<1> DEFINE n == Len(groups)
<1>0. /\ AskedInv /\ QueueInv /\ GroupsInv /\ FutureInv /\ LineInv
      /\ groups \in Seq(Seq(Items))
  BY DEF PlaceInv, GroupsInv
<1>1. /\ n \in Nat /\ n # 0 /\ DOMAIN groups = 1..n /\ 1 \in 1..n
      /\ groups' \in Seq(Seq(Items)) /\ DOMAIN groups' = 1..(n - 1)
      /\ \A i \in 1..(n - 1) : groups'[i] = groups[i + 1]
  <2>1. groups' = Tail(groups)
    BY DEF NextGroup
  <2>2. n \in Nat /\ n # 0 /\ DOMAIN groups = 1..n /\ 1 \in 1..n
    BY <1>0
  <2>3. /\ groups' \in Seq(Seq(Items)) /\ Len(groups') = n - 1
        /\ \A i \in 1..Len(groups') : groups'[i] = groups[i + 1]
    BY <1>0, <2>1, HeadTailProperties
  <2> QED
    BY <2>2, <2>3
<1>2. worker' = (IF n = 1 THEN "waiting" ELSE "starting")
  BY DEF NextGroup
<1> HIDE DEF n
<1>3. /\ \A i \in 1..(n - 1) : i + 1 \in 1..n /\ i + 1 # 1
      /\ \A i \in 1..n : i # 1 => i - 1 \in 1..(n - 1) /\ (i - 1) + 1 = i
      /\ \A i, j \in 1..(n - 1) : i + 1 = j + 1 => i = j
  BY <1>1
<1>4. /\ IdsOf(queue') = IdsOf(queue)
      /\ \A i \in 1..(n - 1) : /\ IdsOf(groups'[i]) = IdsOf(groups[i + 1])
                               /\ DOMAIN (groups'[i]) = DOMAIN (groups[i + 1])
  BY <1>1
<1>5. AskedInv' /\ QueueInv'
  BY <1>0 DEF AskedInv, QueueInv, Known, Distinct
<1>6. GroupsInv'
  <2>1. Apart(groups)'
    <3> SUFFICES ASSUME NEW i \in 1..(n - 1), NEW j \in 1..(n - 1),
                        NEW k \in DOMAIN (groups'[i]), NEW l \in DOMAIN (groups'[j]),
                        groups'[i][k].id = groups'[j][l].id
                 PROVE  i = j /\ k = l
      BY <1>1 DEF Apart
    <3> DEFINE a == i + 1
               b == j + 1
    <3>1. a \in DOMAIN groups /\ b \in DOMAIN groups /\ (a = b => i = j)
      BY <1>1, <1>3
    <3>2. groups'[i] = groups[a] /\ groups'[j] = groups[b]
      BY <1>1
    <3> HIDE DEF a, b
    <3> QED
      BY <1>0, <3>1, <3>2 DEF GroupsInv, Apart
  <2>2. ASSUME NEW i \in 1..(n - 1)
        PROVE  /\ OneKey(groups'[i]) /\ Known(groups[i])'
               /\ \A k \in DOMAIN (groups'[i]) : groups'[i][k].id \notin IdsOf(queue')
    <3> DEFINE a == i + 1
    <3>1. a \in DOMAIN groups /\ groups'[i] = groups[a]
      BY <1>1, <1>3
    <3> HIDE DEF a
    <3> QED
      BY <1>0, <1>4, <3>1 DEF GroupsInv, Known
  <2> QED
    BY <1>1, <2>1, <2>2 DEF GroupsInv
<1>7. WorkerInv'
  <2>1. groups' = <<>> <=> n = 1
    BY <1>1
  <2> QED
    BY <1>2, <2>1 DEF WorkerInv
<1>8. FutureInv'
  <2> SUFFICES ASSUME NEW r \in 1..Requests, future'[r] # Pending
               PROVE  /\ r <= Len(asked) /\ r \notin IdsOf(queue)
                      /\ \A i \in 1..(n - 1) : r \notin IdsOf(groups'[i])
    BY <1>1, <1>4 DEF FutureInv
  <2>1. CASE r \in IdsOf(groups[1])
    <3>1. PICK k \in DOMAIN groups[1] : groups[1][k].id = r
      BY <2>1 DEF IdsOf
    <3>2. r \in 1..Len(asked) /\ r \notin IdsOf(queue)
      BY <1>0, <1>1, <3>1 DEF GroupsInv, Known
    <3>3. ASSUME NEW i \in 1..(n - 1) PROVE r \notin IdsOf(groups'[i])
      <4> DEFINE a == i + 1
      <4>1. a \in DOMAIN groups /\ groups'[i] = groups[a] /\ a # 1
        BY <1>1, <1>3
      <4> HIDE DEF a
      <4>2. ASSUME NEW l \in DOMAIN groups[a] PROVE groups[a][l].id # r
        BY <1>0, <1>1, <3>1, <4>1 DEF GroupsInv, Apart
      <4> QED
        BY <4>1, <4>2 DEF IdsOf
    <3> QED
      BY <1>0, <3>2, <3>3 DEF AskedInv
  <2>2. CASE r \notin IdsOf(groups[1])
    <3>1. future[r] # Pending
      BY <2>2
    <3>2. ASSUME NEW i \in 1..(n - 1) PROVE r \notin IdsOf(groups'[i])
      <4>1. i + 1 \in DOMAIN groups /\ i + 1 # 1
        BY <1>1, <1>3
      <4> QED
        BY <1>0, <1>4, <3>1, <4>1 DEF FutureInv
    <3> QED
      BY <1>0, <3>1, <3>2 DEF FutureInv
  <2> QED
    BY <2>1, <2>2
<1>9. DemuxInv'
  BY <1>2 DEF DemuxInv, Settling
<1>10. LineInv'
  <2> SUFFICES ASSUME DynBatch, NEW r \in 1..Len(asked), future'[r] = Pending
               PROVE  r \in IdsOf(queue) \/ \E i \in 1..(n - 1) : r \in IdsOf(groups'[i])
    BY <1>1, <1>4 DEF LineInv
  <2>1. r \in 1..Requests
    BY <1>0, BatcherAssumption DEF AskedInv
  <2>2. r \notin IdsOf(groups[1]) /\ future[r] = Pending
    BY <2>1
  <2>3. r \in IdsOf(queue) \/ \E i \in 1..n : r \in IdsOf(groups[i])
    BY <1>0, <1>1, <2>2 DEF LineInv
  <2>4. ASSUME NEW i \in 1..n, r \in IdsOf(groups[i])
        PROVE  \E j \in 1..(n - 1) : r \in IdsOf(groups'[j])
    <3>1. i # 1
      BY <2>2, <2>4
    <3>2. i - 1 \in 1..(n - 1) /\ IdsOf(groups'[i - 1]) = IdsOf(groups[i])
      BY <1>3, <1>4, <3>1
    <3> QED
      BY <2>4, <3>2
  <2> QED
    BY <2>3, <2>4
<1> QED
  BY <1>5, <1>6, <1>7, <1>8, <1>9, <1>10 DEF PlaceInv

\* The group the worker is at.
LEMMA HeadGroup ==
    ASSUME PlaceInv, worker \in {"starting", "encoding", "demuxing", "failing"}
    PROVE  /\ groups # <<>> /\ 1 \in DOMAIN groups
           /\ Head(groups) = groups[1] /\ OneKey(groups[1]) /\ Known(groups[1])
<1>1. groups \in Seq(Seq(Items)) /\ groups # <<>>
  BY DEF PlaceInv, GroupsInv, WorkerInv
<1>2. 1 \in DOMAIN groups /\ Head(groups) = groups[1]
  BY <1>1
<1> QED
  BY <1>1, <1>2 DEF PlaceInv, GroupsInv

\* The next request of the group is the first without a result.
LEMMA NextOne ==
    ASSUME PlaceInv, Settling
    PROVE  /\ NextToServe \in DOMAIN groups[1] /\ NextToServe \in Nat \ {0}
           /\ \A k \in DOMAIN groups[1] : future[groups[1][k].id] # Pending <=> k < NextToServe
<1>1. Head(groups) = groups[1] /\ OneKey(groups[1])
  BY HeadGroup DEF Settling
<1> DEFINE group == groups[1]
           n == Len(group)
<1>2. n \in Nat /\ n # 0 /\ DOMAIN group = 1..n
  BY <1>1 DEF OneKey
<1>3. PICK m \in Nat : /\ m < n
                       /\ \A k \in DOMAIN group : future[group[k].id] # Pending <=> k <= m
  BY DEF PlaceInv, DemuxInv
<1> HIDE DEF n
<1>4. Served = 1..m
  <2>1. \A k \in 1..n : k <= m <=> k \in 1..m
    BY <1>2, <1>3
  <2>2. 1..m \subseteq 1..n
    BY <1>2, <1>3
  <2> QED
    BY <1>1, <1>2, <1>3, <2>1, <2>2 DEF Served
<1>5. Cardinality(1..m) = m
  <2>1. 1 \in Int /\ m \in Int
    BY <1>3
  <2>2. Cardinality(1..m) = IF 1 > m THEN 0 ELSE m - 1 + 1
    BY <2>1, FS_Interval
  <2> QED
    BY <1>3, <2>2
<1>6. NextToServe = m + 1
  BY <1>4, <1>5 DEF NextToServe
<1>7. m + 1 \in 1..n /\ m + 1 \in Nat \ {0} /\ \A k \in 1..n : k <= m <=> k < m + 1
  BY <1>2, <1>3
<1> QED
  BY <1>2, <1>3, <1>6, <1>7

\* The worker takes its next step, and no request moves.
LEMMA WorkerMoves ==
    ASSUME PlaceInv, UNCHANGED <<DynBatch, queue, groups, asked, future>>, WorkerInv',
           Settling => Settling', Settling' => Settling \/ worker = "encoding"
    PROVE  PlaceInv'
<1>1. AskedInv' /\ QueueInv' /\ GroupsInv' /\ LineInv' /\ FutureInv'
  BY DEF PlaceInv, AskedInv, QueueInv, GroupsInv, LineInv, FutureInv, Known, Distinct, IdsOf, Apart
<1>2. DemuxInv'
  <2> SUFFICES ASSUME worker = "encoding" PROVE DemuxInv'
    BY DEF PlaceInv, DemuxInv
  <2>1. /\ OneKey(groups[1]) /\ Known(groups[1]) /\ 1 \in DOMAIN groups
    BY HeadGroup
  <2>2. Len(groups[1]) \in Nat /\ 0 < Len(groups[1]) /\ DOMAIN groups[1] = 1..Len(groups[1])
    BY <2>1 DEF OneKey
  <2>3. ASSUME NEW k \in DOMAIN groups[1] PROVE future[groups[1][k].id] = Pending
    <3>1. groups[1][k].id \in 1..Requests
      <4>1. groups[1][k] \in Items
        BY <2>1 DEF OneKey
      <4> QED
        BY <4>1 DEF Items
    <3>2. groups[1][k].id \in IdsOf(groups[1])
      BY DEF IdsOf
    <3> QED
      BY <2>1, <3>1, <3>2 DEF PlaceInv, FutureInv, Settling
  <2>4. \A k \in DOMAIN groups[1] : ~(k <= 0)
    BY <2>2
  <2> QED
    BY <2>2, <2>3, <2>4 DEF DemuxInv
<1> QED
  BY <1>1, <1>2 DEF PlaceInv, WorkerInv

\* The worker takes the whole queue.
LEMMA TakePlaces ==
    ASSUME PlaceInv, Take
    PROVE  PlaceInv'
<1>1. /\ queue' = <<>> /\ groups' = Grouped(queue) /\ UNCHANGED <<DynBatch, asked, future>>
      /\ worker' = (IF queue = <<>> THEN "waiting" ELSE "starting") /\ worker = "awake"
  BY DEF Take
<1>2. /\ AskedInv /\ QueueInv /\ GroupsInv /\ FutureInv /\ LineInv
      /\ groups = <<>>
  BY <1>1 DEF PlaceInv, WorkerInv
<1>3. /\ groups' \in Seq(Seq(Items)) /\ (\A i \in DOMAIN groups' : OneKey(groups'[i]))
      /\ \A item \in Items : Holding(groups', item) <=> \E p \in DOMAIN queue : queue[p] = item
      /\ Apart(groups') /\ (queue = <<>> <=> groups' = <<>>)
  BY <1>1, <1>2, GroupedIs DEF QueueInv, Grouping
<1>4. IdsOf(queue') = {}
  BY <1>1 DEF IdsOf
<1>5. AskedInv' /\ QueueInv'
  <2>1. queue' \in Seq(Items) /\ DOMAIN queue' = {}
    BY <1>1
  <2> QED
    BY <1>1, <1>2, <2>1 DEF AskedInv, QueueInv, Known, Distinct
<1>6. ASSUME NEW i \in DOMAIN groups', NEW k \in DOMAIN (groups'[i])
      PROVE  \E p \in DOMAIN queue : queue[p] = groups'[i][k]
  <2>1. groups'[i][k] \in Items
    BY <1>3 DEF OneKey
  <2>2. Holding(groups', groups'[i][k])
    BY DEF Holding
  <2> QED
    BY <1>3, <2>1, <2>2
<1>7. GroupsInv'
  <2>1. ASSUME NEW i \in DOMAIN groups' PROVE Known(groups[i])'
    <3>1. ASSUME NEW k \in DOMAIN (groups'[i])
          PROVE  groups'[i][k].id \in 1..Len(asked) /\ asked[groups'[i][k].id] = groups'[i][k]
      BY <1>2, <1>6 DEF QueueInv, Known
    <3> QED
      BY <1>1, <3>1 DEF Known
  <2> QED
    BY <1>3, <1>4, <2>1 DEF GroupsInv
<1>8. WorkerInv'
  BY <1>1, <1>3 DEF WorkerInv
<1>9. FutureInv'
  <2>1. ASSUME NEW r \in 1..Requests, future[r] # Pending, NEW i \in DOMAIN groups'
        PROVE  r \notin IdsOf(groups'[i])
    <3>1. r \notin IdsOf(queue)
      BY <1>2, <2>1 DEF FutureInv
    <3>2. ASSUME NEW k \in DOMAIN (groups'[i]) PROVE groups'[i][k].id # r
      BY <1>6, <3>1 DEF IdsOf
    <3> QED
      BY <3>2 DEF IdsOf
  <2>2. DOMAIN future' = 1..Requests
    BY <1>1, <1>2 DEF FutureInv
  <2>3. \A r \in 1..Requests : future[r] # Pending => r <= Len(asked)
    BY <1>2 DEF FutureInv
  <2>4. \A r \in 1..Requests : future'[r] # Pending =>
          /\ r <= Len(asked') /\ r \notin IdsOf(queue')
          /\ \A i \in DOMAIN groups' : r \notin IdsOf(groups'[i])
    BY <1>1, <1>4, <2>1, <2>3
  <2> QED
    BY <2>2, <2>4 DEF FutureInv
<1>10. DemuxInv'
  BY <1>1 DEF DemuxInv, Settling
<1>11. LineInv'
  <2> SUFFICES ASSUME DynBatch, NEW r \in 1..Len(asked), future[r] = Pending
               PROVE  \E i \in DOMAIN groups' : r \in IdsOf(groups'[i])
    BY <1>1 DEF LineInv
  <2>1. r \in IdsOf(queue)
    BY <1>2 DEF LineInv
  <2>2. PICK p \in DOMAIN queue : queue[p].id = r
    BY <2>1 DEF IdsOf
  <2>3. queue[p] \in Items
    BY <1>2 DEF QueueInv
  <2>4. PICK i \in DOMAIN groups' : \E k \in DOMAIN (groups'[i]) : groups'[i][k] = queue[p]
    BY <1>3, <2>2, <2>3 DEF Holding
  <2> QED
    BY <2>2, <2>4 DEF IdsOf
<1> QED
  BY <1>5, <1>7, <1>8, <1>9, <1>10, <1>11 DEF PlaceInv

\* A request comes: with batching on, into the queue.
LEMMA ArrivePlaces ==
    ASSUME PlaceInv, Arrive
    PROVE  PlaceInv'
<1> DEFINE n == Len(asked)
<1>0. /\ AskedInv /\ QueueInv /\ GroupsInv /\ WorkerInv /\ FutureInv /\ DemuxInv /\ LineInv
      /\ asked \in Seq(Items) /\ queue \in Seq(Items)
  BY DEF PlaceInv, AskedInv, QueueInv
<1>1. PICK item \in Items : /\ item.id = n + 1 /\ asked' = Append(asked, item)
                            /\ Submit(item) \/ Direct(item)
  BY DEF Arrive
<1>2. UNCHANGED <<DynBatch, worker, groups, future>> /\ n < Requests
  BY <1>1 DEF Arrive, Submit, Direct, batching
<1>3. /\ n \in Nat /\ n + 1 <= Requests
      /\ asked' \in Seq(Items) /\ Len(asked') = n + 1
      /\ asked'[n + 1] = item /\ \A r \in 1..n : asked'[r] = asked[r]
  BY <1>0, <1>1, <1>2, BatcherAssumption
<1>4. /\ \A r \in 1..(n + 1) : r = n + 1 \/ r \in 1..n
      /\ \A r \in 1..n : r \in 1..(n + 1) /\ r # n + 1
      /\ n + 1 \in 1..(n + 1) /\ n + 1 \in 1..Requests
      /\ \A r \in 1..Requests : r <= n => r <= n + 1 /\ r # n + 1
  BY <1>3, BatcherAssumption
<1> HIDE DEF n
<1>5. AskedInv'
  BY <1>0, <1>1, <1>3, <1>4 DEF AskedInv, n
<1>6. ASSUME NEW seq, Known(seq) 
      PROVE  /\ \A p \in DOMAIN seq : seq[p].id \in 1..(n + 1) /\ asked'[seq[p].id] = seq[p]
             /\ n + 1 \notin IdsOf(seq)
  <2>1. \A p \in DOMAIN seq : seq[p].id \in 1..n /\ asked[seq[p].id] = seq[p]
    BY <1>6 DEF Known, n
  <2> QED
    BY <1>3, <1>4, <2>1 DEF IdsOf
<1>7. Known(queue) /\ \A i \in DOMAIN groups : Known(groups[i])
  BY <1>0 DEF QueueInv, GroupsInv
<1>8. /\ queue' \in Seq(Items) /\ Distinct(queue') /\ Known(queue)'
      /\ IdsOf(queue) \subseteq IdsOf(queue') /\ IdsOf(queue') \subseteq IdsOf(queue) \cup {n + 1}
      /\ DynBatch => n + 1 \in IdsOf(queue')
  <2>1. CASE Direct(item)
    <3>1. ~DynBatch /\ queue' = queue
      BY <2>1 DEF Direct, batching
    <3> QED
      BY <1>0, <1>3, <1>6, <1>7, <3>1 DEF QueueInv, Distinct, Known, IdsOf
  <2>2. CASE Submit(item)
    <3> DEFINE m == Len(queue)
    <3>1. queue' = Append(queue, item)
      BY <2>2 DEF Submit
    <3>2. /\ m \in Nat /\ DOMAIN queue = 1..m /\ DOMAIN queue' = 1..(m + 1)
          /\ queue'[m + 1] = item /\ \A p \in 1..m : queue'[p] = queue[p]
          /\ queue' \in Seq(Items)
      BY <1>0, <3>1
    <3>3. /\ \A p \in 1..(m + 1) : p = m + 1 \/ p \in 1..m
          /\ \A p \in 1..m : p \in 1..(m + 1)
          /\ m + 1 \in 1..(m + 1)
      BY <3>2
    <3> HIDE DEF m
    <3>4. \A p \in 1..m : queue[p].id # n + 1
      BY <1>6, <1>7, <3>2 DEF IdsOf
    <3>5. Distinct(queue')
      BY <1>0, <1>1, <3>2, <3>3, <3>4 DEF QueueInv, Distinct
    <3>6. \A p \in 1..(m + 1) : queue'[p].id \in 1..(n + 1) /\ asked'[queue'[p].id] = queue'[p]
      BY <1>1, <1>3, <1>4, <1>6, <1>7, <3>2, <3>3
    <3>7. /\ IdsOf(queue) \subseteq IdsOf(queue')
          /\ IdsOf(queue') \subseteq IdsOf(queue) \cup {n + 1}
          /\ n + 1 \in IdsOf(queue')
      BY <1>1, <3>2, <3>3 DEF IdsOf
    <3> QED
      BY <1>3, <3>2, <3>5, <3>6, <3>7 DEF Known
  <2> QED
    BY <1>1, <2>1, <2>2
<1>9. QueueInv'
  BY <1>8 DEF QueueInv
<1>10. GroupsInv'
  <2>1. ASSUME NEW i \in DOMAIN groups 
        PROVE  Known(groups[i])' /\ \A k \in DOMAIN groups[i] : groups[i][k].id \notin IdsOf(queue')
    <3>1. Known(groups[i])'
      BY <1>2, <1>3, <1>6, <1>7 DEF Known
    <3>2. \A k \in DOMAIN groups[i] : groups[i][k].id # n + 1 /\ groups[i][k].id \notin IdsOf(queue)
      BY <1>0, <1>6, <1>7 DEF GroupsInv, IdsOf
    <3> QED
      BY <1>8, <3>1, <3>2
  <2> QED
    BY <1>0, <1>2, <2>1 DEF GroupsInv, Apart
<1>11. WorkerInv' /\ DemuxInv' /\ (Settling <=> Settling')
  BY <1>0, <1>2 DEF WorkerInv, DemuxInv, Settling
<1>12. FutureInv'
  <2>1. \A i \in DOMAIN groups : IdsOf(groups'[i]) = IdsOf(groups[i])
    BY <1>2
  <2>2. ASSUME NEW r \in 1..Requests, future[r] # Pending
        PROVE  /\ r <= n + 1 /\ r \notin IdsOf(queue')
               /\ \A i \in DOMAIN groups : r \in IdsOf(groups[i]) => i = 1 /\ Settling
    <3>1. r <= n /\ r \notin IdsOf(queue)
      BY <1>0, <2>2 DEF FutureInv, n
    <3> QED
      BY <1>0, <1>4, <1>8, <2>2, <3>1 DEF FutureInv
  <2> QED
    BY <1>0, <1>2, <1>3, <1>11, <2>1, <2>2 DEF FutureInv
<1>13. LineInv'
  <2> SUFFICES ASSUME DynBatch, NEW r \in 1..(n + 1), future[r] = Pending
               PROVE  r \in IdsOf(queue') \/ \E i \in DOMAIN groups : r \in IdsOf(groups[i])
    BY <1>2, <1>3 DEF LineInv
  <2>1. CASE r = n + 1
    BY <1>8, <2>1
  <2>2. CASE r \in 1..n
    BY <1>0, <1>8, <2>2 DEF LineInv, n
  <2> QED
    BY <1>4, <2>1, <2>2
<1> QED
  BY <1>5, <1>9, <1>10, <1>11, <1>12, <1>13 DEF PlaceInv

\* The future of a request of the group is set.
LEMMA SettlePlaces ==
    ASSUME PlaceInv, Settling, NEW result, result # Pending, Settle(result)
    PROVE  PlaceInv'
<1> DEFINE group == groups[1]
           next == NextToServe
           id == group[next].id
           n == Len(group)
<1>0. /\ AskedInv /\ QueueInv /\ GroupsInv /\ WorkerInv /\ FutureInv /\ LineInv
  BY DEF PlaceInv
<1>1. /\ groups # <<>> /\ 1 \in DOMAIN groups /\ Head(groups) = group
      /\ OneKey(group) /\ Known(group)
  BY HeadGroup DEF Settling
<1>2. /\ next \in DOMAIN group /\ next \in Nat \ {0}
      /\ \A k \in DOMAIN group : future[group[k].id] # Pending <=> k < next
  BY NextOne
<1>3. /\ DOMAIN group = 1..n /\ n \in Nat /\ group[next] \in Items
      /\ \A k \in DOMAIN group : group[k].id \in 1..Requests
  <2>1. DOMAIN group = 1..n /\ n \in Nat /\ \A k \in DOMAIN group : group[k] \in Items
    BY <1>1 DEF OneKey
  <2> QED
    BY <1>2, <2>1 DEF Items
<1>4. future' = [future EXCEPT ![id] = result] /\ UNCHANGED <<DynBatch, queue, asked>>
  BY <1>1 DEF Settle
<1> HIDE DEF next, n
<1>6. /\ DOMAIN future' = 1..Requests /\ future'[id] # Pending
      /\ \A r \in 1..Requests : r # id => future'[r] = future[r]
  BY <1>0, <1>2, <1>3, <1>4 DEF FutureInv
<1>7. CASE next = n
  <2>1. NextGroup
    BY <1>1, <1>7 DEF Settle, next, n
  <2>2. ASSUME NEW r \in IdsOf(group) PROVE future'[r] # Pending
    <3>1. PICK k \in DOMAIN group : group[k].id = r
      BY DEF IdsOf
    <3>2. CASE k = next
      BY <1>6, <3>1, <3>2
    <3>3. CASE k # next
      <4>1. k < next
        BY <1>3, <1>7, <3>3
      <4>2. future[r] # Pending
        BY <1>2, <3>1, <4>1
      <4> QED
        BY <1>3, <1>6, <3>1, <4>2
    <3> QED
      BY <3>2, <3>3
  <2>3. id \in IdsOf(group)
    BY <1>2 DEF IdsOf
  <2> QED
    BY <1>1, <1>4, <1>6, <2>1, <2>2, <2>3, GroupEnds
<1>8. CASE next # n
  <2>1. UNCHANGED <<groups, worker>> /\ Settling'
    BY <1>1, <1>8 DEF Settle, Settling, next, n
  <2>2. next < n
    BY <1>2, <1>3, <1>8
  <2>3. AskedInv' /\ QueueInv' /\ GroupsInv' /\ WorkerInv'
    BY <1>0, <1>4, <2>1 DEF AskedInv, QueueInv, GroupsInv, WorkerInv, Known, Distinct, IdsOf, Apart
  <2>4. id \in 1..Len(asked) /\ id \notin IdsOf(queue) /\ id \in IdsOf(group)
    BY <1>0, <1>1, <1>2 DEF GroupsInv, Known, IdsOf
  <2>5. IdsOf(queue') = IdsOf(queue) /\ \A i \in DOMAIN groups : IdsOf(groups'[i]) = IdsOf(groups[i])
    BY <1>4, <2>1
  <2>6. FutureInv'
    <3>1. ASSUME NEW r \in 1..Requests, future'[r] # Pending
          PROVE  /\ r <= Len(asked) /\ r \notin IdsOf(queue)
                 /\ \A i \in DOMAIN groups : r \in IdsOf(groups[i]) => i = 1
      <4>1. CASE r = id
        <5>1. r <= Len(asked)
          BY <1>0, <2>4, <4>1 DEF AskedInv
        <5>2. ASSUME NEW i \in DOMAIN groups, NEW k \in DOMAIN groups[i], groups[i][k].id = id
              PROVE  i = 1
          BY <1>0, <1>1, <1>2, <5>2 DEF GroupsInv, Apart
        <5> QED
          BY <2>4, <4>1, <5>1, <5>2 DEF IdsOf
      <4>2. CASE r # id
        BY <1>0, <1>6, <3>1, <4>2 DEF FutureInv
      <4> QED
        BY <4>1, <4>2
    <3> QED
      BY <1>0, <1>4, <1>6, <2>1, <2>5, <3>1 DEF FutureInv
  <2>7. DemuxInv'
    <3>1. ASSUME NEW k \in DOMAIN group PROVE future'[group[k].id] # Pending <=> k <= next
      <4>1. CASE k = next
        BY <1>2, <1>6, <4>1
      <4>2. CASE k # next
        <5>1. group[k].id # id
          BY <1>0, <1>1, <1>2, <4>2 DEF GroupsInv, Apart
        <5>2. k < next <=> k <= next
          BY <1>2, <1>3, <4>2
        <5> QED
          BY <1>2, <1>3, <1>6, <5>1, <5>2
      <4> QED
        BY <4>1, <4>2
    <3> QED
      BY <1>2, <2>1, <2>2, <3>1 DEF DemuxInv, n
  <2>8. LineInv'
    <3>1. ASSUME NEW r \in 1..Len(asked), future'[r] = Pending PROVE future[r] = Pending
      <4>1. r \in 1..Requests
        BY <1>0, BatcherAssumption DEF AskedInv
      <4> QED
        BY <1>6, <3>1, <4>1
    <3> QED
      BY <1>0, <1>4, <2>1, <2>5, <3>1 DEF LineInv
  <2> QED
    BY <2>3, <2>6, <2>7, <2>8 DEF PlaceInv
<1> QED
  BY <1>7, <1>8

\* No step loses a request, repeats it or keeps it after its future is set.
LEMMA PlaceNext == PlaceInv /\ [Next]_vars => PlaceInv'
<1> SUFFICES ASSUME PlaceInv, [Next]_vars PROVE PlaceInv'
  OBVIOUS
<1>1. ASSUME UNCHANGED <<DynBatch, queue, groups, worker, asked, future>> PROVE PlaceInv'
  BY <1>1 DEF PlaceInv, AskedInv, QueueInv, GroupsInv, WorkerInv, FutureInv, DemuxInv, LineInv,
              Settling, Known, Distinct, IdsOf, Apart
<1>2. CASE Wake \/ Encode \/ EncodeEnds \/ EncodeFails \/ DemuxFails
  <2>1. /\ UNCHANGED <<DynBatch, queue, groups, asked, future>>
        /\ \/ worker = "waiting" /\ worker' = "awake"
           \/ worker = "starting" /\ worker' = "encoding"
           \/ worker = "encoding" /\ worker' \in {"demuxing", "failing"}
           \/ worker = "demuxing" /\ worker' = "failing"
    BY <1>2 DEF Wake, Encode, EncodeEnds, EncodeFails, DemuxFails, gpu
  <2>2. WorkerInv'
    BY <2>1 DEF PlaceInv, WorkerInv
  <2>3. (Settling => Settling') /\ (Settling' => Settling \/ worker = "encoding")
    BY <2>1 DEF Settling
  <2> QED
    BY <2>1, <2>2, <2>3, WorkerMoves
<1>5. CASE Demux \/ Fail
  <2>1. Settling /\ Failed # Pending /\ \A v : Result(v) # Pending
    BY <1>5 DEF Settling, Demux, Fail, Failed, Result, Pending
  <2>2. \/ Settle(Result(Slice(Head(groups), NextToServe)))
        \/ Settle(Failed)
    BY <1>5 DEF Demux, Fail
  <2> QED
    BY <2>1, <2>2, SettlePlaces
<1>3. ASSUME NEW r \in 1..Requests, Thread(r) PROVE PlaceInv'
  BY <1>1, <1>3 DEF Thread, Answer, TimeOut, DirectStart, DirectEnd, batching
<1>4. CASE MultiStart \/ MultiEnd \/ UNCHANGED vars
  BY <1>1, <1>4 DEF MultiStart, MultiEnd, vars, batching
<1> QED
  BY <1>2, <1>3, <1>4, <1>5, ArrivePlaces, TakePlaces DEF Next, Worker

\* Being in one place, in numbers.
LEMMA PlaceImplies == PlaceInv => OnePlace
<1> SUFFICES ASSUME PlaceInv, DynBatch, NEW r \in 1..Len(asked), future[r] = Pending
             PROVE  Cardinality({i \in DOMAIN queue : queue[i].id = r})
                      + Cardinality({i \in DOMAIN groups : r \in IdsOf(groups[i])}) = 1
  BY DEF OnePlace
<1> DEFINE inQueue == {i \in DOMAIN queue : queue[i].id = r}
           inGroups == {i \in DOMAIN groups : r \in IdsOf(groups[i])}
<1>0. Cardinality({}) = 0
  BY FS_EmptySet
<1>1. r \in IdsOf(queue) \/ \E i \in DOMAIN groups : r \in IdsOf(groups[i])
  BY DEF PlaceInv, LineInv
<1>2. ASSUME r \in IdsOf(queue) PROVE Cardinality(inQueue) + Cardinality(inGroups) = 1
  <2>1. PICK p \in DOMAIN queue : queue[p].id = r
    BY <1>2 DEF IdsOf
  <2>2. inQueue = {p}
    BY <2>1 DEF PlaceInv, QueueInv, Distinct
  <2>3. inGroups = {}
    <3>1. ASSUME NEW i \in DOMAIN groups, NEW k \in DOMAIN groups[i] PROVE groups[i][k].id # r
      BY <1>2 DEF PlaceInv, GroupsInv
    <3> QED
      BY <3>1 DEF IdsOf
  <2>5. Cardinality({p}) = 1
    BY FS_Singleton
  <2>6. Cardinality(inQueue) = 1 /\ Cardinality(inGroups) = 0
    BY <1>0, <2>2, <2>3, <2>5
  <2> HIDE DEF inQueue, inGroups
  <2> QED
    BY <2>6
<1>3. ASSUME r \notin IdsOf(queue), NEW i \in DOMAIN groups, r \in IdsOf(groups[i])
      PROVE  Cardinality(inQueue) + Cardinality(inGroups) = 1
  <2>1. PICK k \in DOMAIN groups[i] : groups[i][k].id = r
    BY <1>3 DEF IdsOf
  <2>2. inQueue = {}
    BY <1>3 DEF IdsOf
  <2>3. ASSUME NEW j \in DOMAIN groups, r \in IdsOf(groups[j]) PROVE j = i
    <3>1. PICK l \in DOMAIN groups[j] : groups[j][l].id = r
      BY <2>3 DEF IdsOf
    <3> QED
      BY <2>1, <3>1 DEF PlaceInv, GroupsInv, Apart
  <2>4. inGroups = {i}
    BY <1>3, <2>3
  <2>5. Cardinality({i}) = 1
    BY FS_Singleton
  <2>6. Cardinality(inGroups) = 1 /\ Cardinality(inQueue) = 0
    BY <1>0, <2>2, <2>4, <2>5
  <2> HIDE DEF inQueue, inGroups
  <2> QED
    BY <2>6
<1> QED
  BY <1>1, <1>2, <1>3

\* DynamicBatcher._run: until its future is set, a request is in the queue or in one
\* group of the worker's batch, once.
THEOREM InOnePlace == Spec => []OnePlace
BY PlaceImplies, PlaceInit, PlaceNext, PTL DEF Spec

\* What the steps of the worker do to the futures.
LEMMA FutureMoves ==
    ASSUME PlaceInv, [Next]_vars
    PROVE  \/ future' = future
           \/ /\ Settling /\ NextToServe \in DOMAIN groups[1]
              /\ future[groups[1][NextToServe].id] = Pending
              /\ \E result \in {Failed, Result(Slice(groups[1], NextToServe))} :
                   Settle(result) /\ future' = [future EXCEPT ![groups[1][NextToServe].id] = result]
<1>1. ASSUME Settling, NEW result, Settle(result)
      PROVE  /\ NextToServe \in DOMAIN groups[1]
             /\ future[groups[1][NextToServe].id] = Pending
             /\ future' = [future EXCEPT ![groups[1][NextToServe].id] = result]
  <2>1. Head(groups) = groups[1]
    BY <1>1, HeadGroup DEF Settling
  <2>2. /\ NextToServe \in DOMAIN groups[1] /\ NextToServe \in Nat
        /\ future[groups[1][NextToServe].id] # Pending <=> NextToServe < NextToServe
    BY <1>1, NextOne
  <2>3. ~(NextToServe < NextToServe)
    BY <2>2
  <2>4. future' = [future EXCEPT ![Head(groups)[NextToServe].id] = result]
    BY <1>1 DEF Settle
  <2> QED
    BY <2>1, <2>2, <2>3, <2>4
<1>2. CASE Fail
  <2>1. Settling /\ Settle(Failed)
    BY <1>2 DEF Fail, Settling
  <2> QED
    BY <1>1, <2>1
<1>3. CASE Demux
  <2>1. Settling /\ Settle(Result(Slice(Head(groups), NextToServe))) /\ Head(groups) = groups[1]
    BY <1>3, HeadGroup DEF Demux, Settling
  <2> QED
    BY <1>1, <2>1
<1>4. ASSUME NEW r \in 1..Requests, Thread(r) PROVE future' = future
  BY <1>4 DEF Thread, Answer, TimeOut, DirectStart, DirectEnd
<1>5. CASE \/ Arrive \/ Wake \/ Take \/ Encode \/ EncodeEnds \/ EncodeFails \/ DemuxFails
            \/ MultiStart \/ MultiEnd \/ UNCHANGED vars
  BY <1>5 DEF Arrive, Wake, Take, Encode, EncodeEnds, EncodeFails, DemuxFails,
              MultiStart, MultiEnd, vars
<1> QED
  BY <1>1, <1>2, <1>3, <1>4, <1>5 DEF Next, Worker

\* Future.set_result and set_exception (jina-server/server.py): the worker sets a future
\* that is already set neither when the model raises nor when a result cannot be cut.
THEOREM FuturesSetOnce == Spec => SetOnce
<1>1. PlaceInv /\ [Next]_vars =>
        \A r \in 1..Requests : future[r] # Pending => future'[r] = future[r]
  <2> SUFFICES ASSUME PlaceInv, [Next]_vars, NEW r \in 1..Requests, future[r] # Pending
               PROVE  future'[r] = future[r]
    OBVIOUS
  <2>1. r \in DOMAIN future
    BY DEF PlaceInv, FutureInv
  <2> QED
    BY <2>1, FutureMoves
<1> QED
  BY <1>1, PlaceInit, PlaceNext, PTL DEF Spec, SetOnce

\* DynamicBatcher._run: one forward pass per group, and one try around each, so that
\* a request with another key than the one that fails still waits for its own.
THEOREM FailureIsOneGroup == Spec => FailureStaysInGroup
<1>1. PlaceInv /\ PlaceInv' /\ [Next]_vars => FailureSpares
  <2> SUFFICES ASSUME PlaceInv, PlaceInv', [Next]_vars,
                      NEW r \in 1..Len(asked), NEW q \in 1..Len(asked),
                      future[r] = Pending, future'[r] = Failed, Key(asked[q]) # Key(asked[r]),
                      future[q] = Pending, NEW i \in DOMAIN groups, q \in IdsOf(groups[i])
               PROVE  StillToServe(q)'
    BY DEF FailureSpares, StillToServe
  <2> DEFINE id == groups[1][NextToServe].id
  <2>0. Failed # Pending
    BY DEF Failed, Pending
  <2>1. r \in 1..Requests /\ q \in 1..Requests /\ DOMAIN future = 1..Requests
    BY BatcherAssumption DEF PlaceInv, AskedInv, FutureInv
  <2>2. PICK result : /\ Settling /\ Settle(result) /\ NextToServe \in DOMAIN groups[1]
                      /\ future' = [future EXCEPT ![id] = result]
    BY <2>0, FutureMoves
  <2>3. r = id
    BY <2>0, <2>1, <2>2
  <2>4. OneKey(groups[1]) /\ Known(groups[1])
    BY <2>2, HeadGroup DEF Settling
  <2>5. i # 1
    <3>1. ASSUME NEW l \in DOMAIN groups[1], groups[1][l].id = q PROVE FALSE
      <4>1. asked[r] = groups[1][NextToServe] /\ asked[q] = groups[1][l]
        BY <2>2, <2>3, <2>4, <3>1 DEF Known
      <4>2. Key(groups[1][NextToServe]) = Key(groups[1][l])
        BY <2>2, <2>4 DEF OneKey
      <4> QED
        BY <4>1, <4>2
    <3> QED
      BY <3>1 DEF IdsOf
  <2>6. q # r
    OBVIOUS
  <2>7. future'[q] = Pending
    BY <2>1, <2>2, <2>3, <2>6
  <2>8. UNCHANGED groups \/ groups' = Tail(groups)
    BY <2>2 DEF Settle, NextGroup
  <2>9. groups \in Seq(Seq(Items)) /\ groups # <<>>
    BY DEF PlaceInv, GroupsInv
  <2>10. \E j \in DOMAIN groups' : groups'[j] = groups[i]
    <3>1. CASE groups' = Tail(groups)
      <4>1. /\ i \in 1..Len(groups) /\ Len(groups) \in Nat
            /\ i - 1 \in 1..(Len(groups) - 1) /\ (i - 1) + 1 = i
        BY <2>5, <2>9
      <4>2. /\ Len(Tail(groups)) = Len(groups) - 1 /\ Tail(groups) \in Seq(Seq(Items))
            /\ \A j \in 1..Len(Tail(groups)) : Tail(groups)[j] = groups[j + 1]
        BY <2>9, HeadTailProperties
      <4> QED
        BY <3>1, <4>1, <4>2
    <3> QED
      BY <2>8, <3>1
  <2> QED
    BY <2>7, <2>10 DEF StillToServe, IdsOf
<1> QED
  BY <1>1, PlaceInit, PlaceNext, PTL DEF Spec, FailureStaysInGroup

----------------------------------------------------------------------------
(* Everyone's own vectors *)

AText == Nat \X Nat
OffsetOf(group, i) == Inputs(SubSeq(group, 1, i - 1))

\* Where the texts of each request are in the texts of a group.
TextsInPlace(group, texts) ==
    /\ texts \in Seq(AText) /\ Len(texts) = Inputs(group)
    /\ \A i \in DOMAIN group :
         /\ OffsetOf(group, i) \in Nat
         /\ OffsetOf(group, i) + group[i].size <= Len(texts)
         /\ \A k \in 1..group[i].size : texts[OffsetOf(group, i) + k] = <<group[i].id, k>>

TextFold == INSTANCE SequenceFacts WITH Op <- WithTexts, Base <- <<>>,
                                    Items <- Items, Holds <- TextsInPlace

\* The texts of a group in the terms of SequenceFacts.
LEMMA TextsAreFold == \A group : FoldLeft(WithTexts, <<>>, group) = TextFold!Fold(group)
BY DEF TextFold!Fold, FoldLeft, TextFold!FoldLeft, MapThenFoldSet,
       TextFold!MapThenFoldSet, Max, TextFold!Max

\* The texts of a group are those of its requests, one request after the other.
LEMMA AllTextsInPlace ==
    ASSUME NEW group \in Seq(Items)
    PROVE  TextsInPlace(group, FoldLeft(WithTexts, <<>>, group))
<1>1. TextsInPlace(<<>>, <<>>)
  BY InputsOf DEF TextsInPlace
<1>2. ASSUME NEW seq \in Seq(Items), NEW x \in Items, TextsInPlace(seq, TextFold!Fold(seq))
      PROVE  TextsInPlace(Append(seq, x), WithTexts(TextFold!Fold(seq), x))
  <2> DEFINE n == Len(seq)
             longer == Append(seq, x)
             texts == TextFold!Fold(seq)
             more == [k \in 1..x.size |-> <<x.id, k>>]
             all == texts \o more
  <2>1. /\ n \in Nat /\ DOMAIN seq = 1..n /\ DOMAIN longer = 1..(n + 1)
        /\ longer[n + 1] = x /\ \A i \in 1..n : longer[i] = seq[i]
        /\ longer \in Seq(Items)
    OBVIOUS
  <2>2. ASSUME NEW i \in 1..(n + 1)
        PROVE  SubSeq(longer, 1, i - 1) = SubSeq(seq, 1, i - 1)
    <3>1. \A k \in 1..(i - 1) : k \in 1..n
      BY <2>1
    <3> HIDE DEF longer, n
    <3>2. /\ SubSeq(longer, 1, i - 1) \in Seq(Items) /\ Len(SubSeq(longer, 1, i - 1)) = i - 1
          /\ \A k \in 1..(i - 1) : SubSeq(longer, 1, i - 1)[k] = longer[k]
      BY <2>1
    <3>3. /\ SubSeq(seq, 1, i - 1) \in Seq(Items) /\ Len(SubSeq(seq, 1, i - 1)) = i - 1
          /\ \A k \in 1..(i - 1) : SubSeq(seq, 1, i - 1)[k] = seq[k]
      BY <2>1
    <3> QED
      BY <2>1, <3>1, <3>2, <3>3
  <2>3. SubSeq(seq, 1, (n + 1) - 1) = seq
    BY <2>1
  <2>4. \A i \in 1..n : OffsetOf(longer, i) = OffsetOf(seq, i)
    <3>1. \A i \in 1..n : i \in 1..(n + 1)
      BY <2>1
    <3> QED
      BY <2>2, <3>1 DEF OffsetOf
  <2>5. OffsetOf(longer, n + 1) = Len(texts)
    <3>1. n + 1 \in 1..(n + 1)
      BY <2>1
    <3>2. Len(texts) = Inputs(seq)
      BY <1>2 DEF TextsInPlace
    <3> QED
      BY <2>2, <2>3, <3>1, <3>2 DEF OffsetOf
  <2>6. texts \in Seq(AText) /\ Len(texts) \in Nat
    BY <1>2 DEF TextsInPlace
  <2>7. /\ more \in Seq(AText) /\ Len(more) = x.size /\ x.size \in Nat /\ x.id \in Nat
        /\ \A k \in 1..x.size : more[k] = <<x.id, k>>
    <3>1. x.size \in Nat /\ x.id \in Nat
      BY BatcherAssumption DEF Items
    <3>2. \A k \in 1..x.size : <<x.id, k>> \in AText
      BY <3>1 DEF AText
    <3>3. more = [k \in 1..x.size |-> <<x.id, k>>]
      OBVIOUS
    <3> HIDE DEF more
    <3>4. more \in [1..x.size -> AText]
      BY <3>2, <3>3
    <3>5. more \in Seq(AText) /\ Len(more) = x.size
      BY <3>1, <3>4
    <3> QED
      BY <3>1, <3>3, <3>5
  <2>8. WithTexts(texts, x) = all
    BY DEF WithTexts
  <2>9. Inputs(longer) = Len(texts) + x.size
    <3>1. Len(texts) = Inputs(seq)
      BY <1>2 DEF TextsInPlace
    <3> QED
      BY <3>1, InputsOf
  <2> HIDE DEF n, longer, texts, more
  <2>10. /\ all \in Seq(AText) /\ Len(all) = Len(texts) + x.size
         /\ \A k \in 1..Len(texts) : all[k] = texts[k]
         /\ \A k \in 1..x.size : all[Len(texts) + k] = <<x.id, k>>
    <3>1. /\ all \in Seq(AText) /\ Len(all) = Len(texts) + Len(more)
          /\ \A k \in 1..(Len(texts) + Len(more)) :
               all[k] = IF k <= Len(texts) THEN texts[k] ELSE more[k - Len(texts)]
      BY <2>6, <2>7, ConcatProperties
    <3>2. \A k \in 1..Len(texts) : all[k] = texts[k]
      BY <2>6, <2>7, <3>1
    <3>3. ASSUME NEW k \in 1..x.size PROVE all[Len(texts) + k] = <<x.id, k>>
      <4>1. /\ Len(texts) + k \in 1..(Len(texts) + Len(more)) /\ ~(Len(texts) + k <= Len(texts))
            /\ (Len(texts) + k) - Len(texts) = k
        BY <2>6, <2>7
      <4> QED
        BY <2>7, <3>1, <4>1
    <3> QED
      BY <2>7, <3>1, <3>2, <3>3
  <2> HIDE DEF all
  <2>11. ASSUME NEW i \in 1..(n + 1)
         PROVE  /\ OffsetOf(longer, i) \in Nat
                /\ OffsetOf(longer, i) + longer[i].size <= Len(all)
                /\ \A k \in 1..longer[i].size : all[OffsetOf(longer, i) + k] = <<longer[i].id, k>>
    <3>1. CASE i = n + 1
      <4>1. OffsetOf(longer, i) = Len(texts) /\ longer[i] = x
        BY <2>1, <2>5, <3>1
      <4>2. Len(texts) \in Nat /\ Len(texts) + x.size <= Len(all)
        BY <2>6, <2>7, <2>10
      <4> QED
        BY <2>10, <4>1, <4>2
    <3>2. CASE i \in 1..n
      <4> DEFINE lo == OffsetOf(longer, i)
                 size == longer[i].size
      <4>1. longer[i] = seq[i] /\ lo = OffsetOf(seq, i)
        BY <2>1, <2>4, <3>2
      <4>2. size \in Nat
        <5>1. seq[i] \in Items
          BY <2>1, <3>2
        <5> QED
          BY <4>1, <5>1, BatcherAssumption DEF Items
      <4>3. /\ lo \in Nat /\ lo + size <= Len(texts)
            /\ \A k \in 1..size : texts[lo + k] = <<longer[i].id, k>>
        BY <1>2, <2>1, <3>2, <4>1 DEF TextsInPlace, texts
      <4> HIDE DEF lo, size
      <4>4. ASSUME NEW k \in 1..size PROVE all[lo + k] = <<longer[i].id, k>>
        <5>1. lo + k \in 1..Len(texts)
          BY <2>6, <4>2, <4>3
        <5> QED
          BY <2>10, <4>3, <5>1
      <4>5. lo + size <= Len(all)
        BY <2>6, <2>7, <2>10, <4>2, <4>3
      <4> QED
        BY <4>3, <4>4, <4>5 DEF lo, size
    <3>3. i = n + 1 \/ i \in 1..n
      BY <2>1
    <3> QED
      BY <3>1, <3>2, <3>3
  <2>12. TextsInPlace(longer, all)
    BY <2>1, <2>9, <2>10, <2>11 DEF TextsInPlace
  <2> QED
    BY <2>8, <2>12 DEF longer, texts
<1>3. \A seq \in Seq(Items) : TextsInPlace(seq, TextFold!Fold(seq))
  BY <1>1, <1>2, TextFold!FoldInduction
<1> QED
  BY <1>3, TextsAreFold

\* snap_matryoshka never returns less than what was asked for.
LEMMA SnapIsEnough ==
    ASSUME NEW dim \in Dims
    PROVE  Snap(dim) \in Nat /\ dim \in Nat /\ dim <= Snap(dim)
<1> DEFINE steps == {step \in Steps : step >= dim}
<1>1. steps \in SUBSET Nat /\ steps # {} /\ dim \in Nat
  BY BatcherAssumption
<1>2. \E step \in steps : \A other \in steps : step <= other
  <2> HIDE DEF steps
  <2> QED
    BY <1>1, TextFold!LeastNumber
<1>3. /\ Snap(dim) \in Steps /\ Snap(dim) >= dim
  BY <1>2 DEF Snap
<1> QED
  BY <1>1, <1>3, BatcherAssumption

\* What a request asked for is what its slice holds.
Own(item) == [i \in 1..item.size |-> Vector(<<item.id, i>>, item.task, item.dim)]

\* The slice of a request is its own part of the forward pass.
LEMMA SliceIsOwn ==
    ASSUME NEW group, OneKey(group), NEW i \in DOMAIN group
    PROVE  Slice(group, i) = Own(group[i])
<1> DEFINE texts == FoldLeft(WithTexts, <<>>, group)
           item == group[i]
           lo == OffsetOf(group, i)
           wide == Snap(group[1].dim)
           task == group[1].task
           Cut(vector) == IF item.dim < vector.dim
                          THEN Vector(vector.text, vector.task, item.dim) ELSE vector
<1>1. group \in Seq(Items) /\ group # <<>> /\ Head(group) = group[1]
  BY DEF OneKey
<1>2. item \in Items /\ item.size \in Nat /\ item.dim \in Dims
  <2>1. item \in Items
    BY <1>1
  <2> QED
    BY <2>1, BatcherAssumption DEF Items
<1>3. TextsInPlace(group, texts)
  BY <1>1, AllTextsInPlace
<1>4. item.task = task /\ Snap(item.dim) = wide
  BY DEF OneKey, Key
<1>5. wide \in Nat /\ item.dim \in Nat /\ item.dim <= wide
  BY <1>2, <1>4, SnapIsEnough
<1>6. /\ lo \in Nat /\ lo + item.size <= Len(texts) /\ Len(texts) \in Nat
      /\ DOMAIN texts = 1..Len(texts)
      /\ \A k \in 1..item.size : texts[lo + k] = <<item.id, k>>
  BY <1>3 DEF TextsInPlace
<1>7. Embeddings(group) = [j \in DOMAIN texts |-> Vector(texts[j], task, wide)]
  BY <1>1 DEF Embeddings
<1>8. Slice(group, i) = [j \in 1..item.size |-> Cut(Embeddings(group)[lo + j])]
  BY DEF Slice, OffsetOf
<1> HIDE DEF texts, item, lo, wide, task
<1>9. ASSUME NEW j \in 1..item.size
      PROVE  Cut(Embeddings(group)[lo + j]) = Vector(<<item.id, j>>, item.task, item.dim)
  <2>1. lo + j \in DOMAIN texts
    BY <1>2, <1>6
  <2>2. Embeddings(group)[lo + j] = Vector(<<item.id, j>>, task, wide)
    BY <1>6, <1>7, <2>1
  <2>3. CASE item.dim < wide
    BY <1>4, <2>2, <2>3 DEF Vector
  <2>4. CASE ~(item.dim < wide)
    <3>1. item.dim = wide
      BY <1>5, <2>4
    <3> QED
      BY <1>4, <2>2, <2>4, <3>1 DEF Vector
  <2> QED
    BY <2>3, <2>4
<1> QED
  BY <1>8, <1>9 DEF Own, item

OwnInv == \A r \in 1..Len(asked) : future[r].status = "ok" => future[r].vectors = Own(asked[r])

\* DynamicBatcher._run and embed: a result is the slice of the forward pass that the
\* texts of the request make up, in their order, at the dimension it asked for, for any
\* batch and any grouping of it.
THEOREM EveryoneGetsTheirOwn == Spec => []OwnResults
<1>1. Init => OwnInv
  <2> SUFFICES ASSUME Init PROVE OwnInv
    OBVIOUS
  <2>1. asked = <<>>
    BY DEF Init
  <2>2. 1..Len(<<>>) = {}
    OBVIOUS
  <2> QED
    BY <2>1, <2>2 DEF OwnInv
<1>2. PlaceInv /\ OwnInv /\ [Next]_vars => OwnInv'
  <2> SUFFICES ASSUME PlaceInv, OwnInv, [Next]_vars PROVE OwnInv'
    OBVIOUS
  <2>0. /\ Failed.status # "ok" /\ Pending.status # "ok"
        /\ \A v : Result(v).vectors = v
    BY DEF Failed, Pending, Result
  <2>1. /\ AskedInv /\ DOMAIN future = 1..Requests /\ Len(asked) \in Nat
        /\ \A r \in 1..Len(asked) : r \in 1..Requests
    BY BatcherAssumption DEF PlaceInv, AskedInv, FutureInv
  <2>2. CASE Arrive
    <3>1. PICK item \in Items : asked' = Append(asked, item)
      BY <2>2 DEF Arrive
    <3>2. future' = future /\ Len(asked) < Requests
      BY <2>2 DEF Arrive
    <3> DEFINE n == Len(asked)
    <3>3. /\ Len(asked') = n + 1 /\ \A r \in 1..n : asked'[r] = asked[r]
      BY <2>1, <3>1 DEF AskedInv
    <3>4. /\ \A r \in 1..(n + 1) : r \in 1..n \/ r = n + 1
          /\ n + 1 \in 1..Requests /\ ~(n + 1 <= n)
      BY <2>1, <3>2, BatcherAssumption
    <3>5. future[n + 1] = Pending
      BY <3>4 DEF PlaceInv, FutureInv
    <3> HIDE DEF n
    <3> QED
      BY <2>0, <3>2, <3>3, <3>4, <3>5 DEF OwnInv, n
  <2>3. ASSUME UNCHANGED asked PROVE OwnInv'
    <3>1. CASE future' = future
      BY <2>3, <3>1 DEF OwnInv
    <3>2. ASSUME future' = [future EXCEPT ![groups[1][NextToServe].id] = Failed] PROVE OwnInv'
      <4>1. \A r \in 1..Requests : future'[r] = future[r] \/ future'[r] = Failed
        BY <2>1, <3>2
      <4> QED
        BY <2>0, <2>1, <2>3, <4>1 DEF OwnInv
    <3>3. ASSUME Settling, NextToServe \in DOMAIN groups[1],
                 future' = [future EXCEPT ![groups[1][NextToServe].id] =
                              Result(Slice(groups[1], NextToServe))]
          PROVE  OwnInv'
      <4> DEFINE item == groups[1][NextToServe]
      <4>1. OneKey(groups[1]) /\ Known(groups[1])
        BY <3>3, HeadGroup DEF Settling
      <4>2. Slice(groups[1], NextToServe) = Own(item) /\ asked[item.id] = item
        BY <3>3, <4>1, SliceIsOwn DEF Known
      <4>3. future' = [future EXCEPT ![item.id] = Result(Own(item))]
        BY <3>3, <4>2
      <4> HIDE DEF item
      <4>4. ASSUME NEW r \in 1..Len(asked), future'[r].status = "ok"
            PROVE  future'[r].vectors = Own(asked[r])
        <5>1. CASE r = item.id
          BY <2>0, <2>1, <4>2, <4>3, <5>1
        <5>2. CASE r # item.id
          BY <2>1, <4>3, <4>4, <5>2 DEF OwnInv
        <5> QED
          BY <5>1, <5>2
      <4> QED
        BY <2>3, <4>4 DEF OwnInv
    <3> QED
      BY <3>1, <3>2, <3>3, FutureMoves
  <2>4. Arrive \/ UNCHANGED asked
    <3>1. ASSUME NEW r \in 1..Requests, Thread(r) PROVE UNCHANGED asked
      BY <3>1 DEF Thread, Answer, TimeOut, DirectStart, DirectEnd
    <3>2. CASE Worker
      BY <3>2 DEF Worker, Wake, Take, Encode, EncodeFails, EncodeEnds, Demux, DemuxFails, Fail,
                  Settle
    <3>3. CASE MultiStart \/ MultiEnd \/ UNCHANGED vars
      BY <3>3 DEF MultiStart, MultiEnd, vars
    <3> QED
      BY <3>1, <3>2, <3>3 DEF Next
  <2> QED
    BY <2>2, <2>3, <2>4
<1>3. PlaceInv /\ OwnInv => OwnResults
  <2> SUFFICES ASSUME PlaceInv, OwnInv, NEW r \in 1..Len(asked), future[r].status = "ok"
               PROVE  future[r].vectors =
                        [i \in 1..asked[r].size |-> Vector(<<r, i>>, asked[r].task, asked[r].dim)]
    BY DEF OwnResults
  <2>1. asked[r].id = r
    BY DEF PlaceInv, AskedInv
  <2>2. future[r].vectors = Own(asked[r])
    BY DEF OwnInv
  <2> QED
    BY <2>1, <2>2 DEF Own
<1> QED
  BY <1>1, <1>2, <1>3, PlaceInit, PlaceNext, PTL DEF Spec
==============================================================================
