----------------------------- MODULE BundleProofs -----------------------------
(***************************************************************************)
(* For every finite pool, every latency and every number of inputs and     *)
(* hops: the shards of a bundle are a partition of its inputs, the vectors *)
(* are answered in input order, a bundle fails for a reason and is         *)
(* answered once, and the in-flight counters are exact.  And the loop of   *)
(* handleEmbedBundle computes these shards, and gives every node its share *)
(* of the inputs, give or take the rounding.                               *)
(*                                                                         *)
(* SplitPartitions is about Split itself.  GoodBundle is what holds of a   *)
(* bundle whatever happens, CountInv adds the counters, and LoopInv is the *)
(* invariant of the loop, which is the specification Loop here.            *)
(***************************************************************************)
EXTENDS Bundle, SplitLoop, FiniteSetTheorems, SequenceTheorems, TLAPS

----------------------------------------------------------------------------
(* Sums and products *)

Positive == Nat \ {0}

IsTotal(seq, sum) == sum \in Nat /\ \A k \in DOMAIN seq : seq[k] <= sum

Added == INSTANCE SequenceFacts WITH Op <- LAMBDA x, y : x + y, Base <- 0,
                                     Items <- Nat, Holds <- IsTotal

\* Total in the terms of SequenceFacts.
LEMMA TotalIsFold == \A seq : Total(seq) = Added!Fold(seq)
BY DEF Total, Added!Fold, FoldLeft, Added!FoldLeft, MapThenFoldSet, Added!MapThenFoldSet,
       Max, Added!Max

\* A sum of naturals is a natural, and none of them exceeds it.
LEMMA TotalOf ==
    /\ Total(<<>>) = 0
    /\ \A seq \in Seq(Nat) :
         /\ Total(seq) \in Nat
         /\ \A k \in DOMAIN seq : seq[k] <= Total(seq)
         /\ \A x \in Nat : Total(Append(seq, x)) = Total(seq) + x
<1>1. Total(<<>>) = 0
  BY Added!FoldEmpty, TotalIsFold
<1>2. ASSUME NEW seq \in Seq(Nat), NEW x \in Nat
      PROVE  Total(Append(seq, x)) = Total(seq) + x
  BY Added!FoldAppend, TotalIsFold
<1>3. \A seq \in Seq(Nat) : IsTotal(seq, Added!Fold(seq))
  <2>1. IsTotal(<<>>, 0)
    BY DEF IsTotal
  <2>2. ASSUME NEW seq \in Seq(Nat), NEW x \in Nat, IsTotal(seq, Added!Fold(seq))
        PROVE  IsTotal(Append(seq, x), Added!Fold(seq) + x)
    <3> DEFINE sum == Added!Fold(seq)
               n == Len(seq)
               longer == Append(seq, x)
    <3>1. sum \in Nat /\ \A k \in 1..n : seq[k] <= sum
      BY <2>2 DEF IsTotal
    <3>2. /\ n \in Nat /\ DOMAIN longer = 1..(n + 1) /\ longer[n + 1] = x
          /\ \A k \in 1..n : longer[k] = seq[k] /\ seq[k] \in Nat
      OBVIOUS
    <3> HIDE DEF sum, n, longer
    <3>3. ASSUME NEW k \in 1..(n + 1) PROVE longer[k] <= sum + x
      <4>1. CASE k = n + 1
        BY <3>1, <3>2, <4>1
      <4>2. CASE k \in 1..n
        <5>1. longer[k] \in Nat /\ longer[k] <= sum
          BY <3>1, <3>2, <4>2
        <5> QED
          BY <3>1, <5>1
      <4> QED
        BY <3>2, <4>1, <4>2
    <3> QED
      BY <3>1, <3>2, <3>3 DEF IsTotal, sum, longer
  <2> QED
    BY <2>1, <2>2, Added!FoldInduction
<1> QED
  BY <1>1, <1>2, <1>3, TotalIsFold DEF IsTotal

\* What is left when an element is removed.
LEMMA Removed ==
    ASSUME NEW S, NEW seq \in Seq(S), NEW i \in DOMAIN seq
    PROVE  RemoveAt(seq, i) \in Seq(S)
<1>1. SubSeq(seq, 1, i - 1) \in Seq(S) /\ SubSeq(seq, i + 1, Len(seq)) \in Seq(S)
  <2>1. /\ i \in Nat /\ Len(seq) \in Nat
        /\ \A k \in 1..(i - 1) : seq[k] \in S
        /\ \A k \in (i + 1)..Len(seq) : seq[k] \in S
    OBVIOUS
  <2>2. 1 \in Int /\ i - 1 \in Int /\ i + 1 \in Int /\ Len(seq) \in Int
    BY <2>1
  <2> QED
    BY <2>1, <2>2, SubSeqProperties
<1> QED
  BY <1>1, ConcatProperties DEF RemoveAt

\* An element of a longer sequence is removed from the sequence, or is the last.
LEMMA RemovedAppend ==
    ASSUME NEW S, NEW seq \in Seq(S), NEW x \in S
    PROVE  /\ \A i \in 1..Len(seq) : RemoveAt(Append(seq, x), i) = Append(RemoveAt(seq, i), x)
           /\ RemoveAt(Append(seq, x), Len(seq) + 1) = seq
<1> DEFINE n == Len(seq)
           longer == Append(seq, x)
<1>1. n \in Nat /\ longer \in Seq(S) /\ Len(longer) = n + 1
  OBVIOUS
<1>2. \A i \in 1..(n + 1) : SubSeq(longer, 1, i - 1) = SubSeq(seq, 1, i - 1)
  OBVIOUS
<1>3. ASSUME NEW i \in 1..n PROVE RemoveAt(longer, i) = Append(RemoveAt(seq, i), x)
  <2> DEFINE left == SubSeq(seq, 1, i - 1)
             right == SubSeq(seq, i + 1, n)
  <2>1. left \in Seq(S) /\ right \in Seq(S)
    <3>1. /\ i \in Int /\ n \in Int /\ i + 1 \in Int /\ i - 1 \in Int /\ 1 \in Int
          /\ \A k \in 1..(i - 1) : seq[k] \in S
          /\ \A k \in (i + 1)..n : seq[k] \in S
      BY <1>1
    <3> QED
      BY <3>1, SubSeqProperties
  <2>2. SubSeq(longer, i + 1, n + 1) = right \o <<x>>
    <3>1. i + 1 \in 1..(n + 1) /\ n + 1 \in 1..(n + 1) /\ i + 1 \in 1..Len(longer)
          /\ n + 1 \in 1..Len(longer) /\ longer[n + 1] = x /\ (n + 1) - 1 = n
      BY <1>1
    <3>2. i + 1 \in 1..Len(longer) /\ n + 1 \in (i + 1)..Len(longer)
      BY <1>1
    <3>3. SubSeq(longer, i + 1, n + 1) = SubSeq(longer, i + 1, n) \o <<x>>
      BY <1>1, <3>1, <3>2, SubSeqRecursiveSecond
    <3>4. SubSeq(longer, i + 1, n) = right
      OBVIOUS
    <3> QED
      BY <3>3, <3>4
  <2>3. SubSeq(longer, 1, i - 1) = left
    BY <1>1, <1>2
  <2>4. RemoveAt(longer, i) = left \o (right \o <<x>>)
    BY <1>1, <2>2, <2>3 DEF RemoveAt
  <2>5. RemoveAt(seq, i) = left \o right
    BY DEF RemoveAt
  <2> HIDE DEF left, right, longer, n
  <2>6. left \o (right \o <<x>>) = (left \o right) \o <<x>>
    <3>1. <<x>> \in Seq(S)
      OBVIOUS
    <3> QED
      BY <2>1, <3>1, ConcatAssociative
  <2>7. Append(left \o right, x) = (left \o right) \o <<x>>
    <3>1. left \o right \in Seq(S)
      BY <2>1, ConcatProperties
    <3> QED
      BY <3>1, AppendIsConcat
  <2> QED
    BY <2>4, <2>5, <2>6, <2>7
<1>4. RemoveAt(longer, n + 1) = seq
  <2>1. SubSeq(longer, 1, n) = seq /\ SubSeq(longer, n + 2, n + 1) = <<>>
    OBVIOUS
  <2>2. RemoveAt(longer, n + 1) = seq \o <<>>
    BY <1>1, <2>1 DEF RemoveAt
  <2>3. seq \o <<>> = seq
    OBVIOUS
  <2> QED
    BY <2>2, <2>3
<1> QED
  BY <1>3, <1>4 DEF n, longer

\* The product of the others, times an element, is the product of all.
WithoutOne(seq, product) ==
    /\ product \in Positive
    /\ \A i \in DOMAIN seq : /\ Product(RemoveAt(seq, i)) \in Positive
                             /\ Product(RemoveAt(seq, i)) * seq[i] = product

Multiplied == INSTANCE SequenceFacts WITH Op <- LAMBDA x, y : x * y, Base <- 1,
                                          Items <- Positive, Holds <- WithoutOne

\* Product in the terms of SequenceFacts.
LEMMA ProductIsFold == \A seq : Product(seq) = Multiplied!Fold(seq)
BY DEF Product, Multiplied!Fold, FoldLeft, Multiplied!FoldLeft, MapThenFoldSet,
       Multiplied!MapThenFoldSet, Max, Multiplied!Max

\* Products of three.
LEMMA Reorder == \A a, b, c \in Nat : (a * b) * c = (a * c) * b
OBVIOUS

\* It holds of every sequence of positive numbers.
LEMMA ProductOfOthers == \A seq \in Seq(Positive) : WithoutOne(seq, Product(seq))
<1>1. WithoutOne(<<>>, 1)
  BY DEF WithoutOne, Positive
<1>2. ASSUME NEW seq \in Seq(Positive), NEW x \in Positive, WithoutOne(seq, Multiplied!Fold(seq))
      PROVE  WithoutOne(Append(seq, x), Multiplied!Fold(seq) * x)
  <2> DEFINE n == Len(seq)
             longer == Append(seq, x)
             all == Multiplied!Fold(seq)
  <2>1. /\ n \in Nat /\ DOMAIN longer = 1..(n + 1) /\ DOMAIN seq = 1..n
        /\ longer[n + 1] = x /\ \A i \in 1..n : longer[i] = seq[i] /\ seq[i] \in Positive
    OBVIOUS
  <2>2. all \in Positive /\ Product(seq) = all
    BY <1>2, ProductIsFold DEF WithoutOne
  <2>3. all * x \in Positive
    <3>1. \A a, b \in Nat \ {0} : a * b \in Nat \ {0}
      OBVIOUS
    <3> QED
      BY <2>2, <3>1 DEF Positive
  <2>4. /\ \A i \in 1..n : RemoveAt(longer, i) = Append(RemoveAt(seq, i), x)
        /\ RemoveAt(longer, n + 1) = seq
    BY RemovedAppend
  <2> HIDE DEF n, longer, all
  <2>5. ASSUME NEW i \in 1..(n + 1)
        PROVE  Product(RemoveAt(longer, i)) \in Positive
               /\ Product(RemoveAt(longer, i)) * longer[i] = all * x
    <3>1. CASE i = n + 1
      BY <2>1, <2>2, <2>4, <3>1
    <3>2. CASE i \in 1..n
      <4> DEFINE rest == RemoveAt(seq, i)
                 less == Product(rest)
      <4>1. rest \in Seq(Positive)
        BY <2>1, <3>2, Removed
      <4>2. less \in Positive /\ less * seq[i] = all
        <5>1. i \in DOMAIN seq
          BY <2>1, <3>2
        <5> QED
          BY <1>2, <5>1 DEF WithoutOne, all
      <4>3. Product(Append(rest, x)) = less * x
        BY <4>1, Multiplied!FoldAppend, ProductIsFold
      <4>4. RemoveAt(longer, i) = Append(rest, x) /\ longer[i] = seq[i] /\ seq[i] \in Positive
        BY <2>1, <2>4, <3>2
      <4> HIDE DEF less, rest
      <4>5. (less * x) * seq[i] = (less * seq[i]) * x /\ less * x \in Positive
        <5>1. less \in Nat \ {0} /\ x \in Nat \ {0} /\ seq[i] \in Nat
          BY <4>2, <4>4 DEF Positive
        <5>2. less * x \in Nat \ {0}
          BY <5>1
        <5> QED
          BY <5>1, <5>2, Reorder DEF Positive
      <4> QED
        BY <4>2, <4>3, <4>4, <4>5
    <3> QED
      BY <2>1, <3>1, <3>2
  <2>6. WithoutOne(longer, all * x)
    BY <2>1, <2>3, <2>5 DEF WithoutOne
  <2> QED
    BY <2>6 DEF longer, all
<1> QED
  BY <1>1, <1>2, Multiplied!FoldInduction, ProductIsFold

\* A product of positive numbers is positive: a weight is never nothing.
LEMMA ProductOf == \A seq \in Seq(Positive) : Product(seq) \in Positive
BY ProductOfOthers DEF WithoutOne

\* Integer division is off by less than one.
LEMMA DivBounds ==
    ASSUME NEW n \in Nat, NEW d \in Nat \ {0}
    PROVE  n \div d \in Nat /\ d * (n \div d) <= n /\ n < d * (n \div d) + d
OBVIOUS

\* Integer division undoes multiplication.
LEMMA DivExact == \A a \in Nat, b \in Nat \ {0} : (a * b) \div b = a
OBVIOUS

\* Math.round of a quotient is off by at most a half.
LEMMA RoundOf ==
    ASSUME NEW num \in Nat, NEW den \in Positive
    PROVE  /\ Round(num, den) \in Nat
           /\ 2 * (den * Round(num, den)) <= 2 * num + den
           /\ 2 * num <= 2 * (den * Round(num, den)) + den
<1> DEFINE n == 2 * num + den
           d == 2 * den
           q == n \div d
<1>1. n \in Nat /\ d \in Nat \ {0}
  BY DEF Positive
<1>2. q \in Nat /\ d * q <= n /\ n < d * q + d
  BY <1>1, DivBounds
<1>3. Round(num, den) = q
  BY DEF Round
<1> HIDE DEF q
<1>4. d * q = 2 * (den * q) /\ den * q \in Nat
  BY <1>2 DEF Positive
<1> QED
  BY <1>2, <1>3, <1>4 DEF Positive

\* Products of sums.
LEMMA Distributes == \A a, b, c \in Nat : a * (b + c) = a * b + a * c
OBVIOUS

\* A product grows with its factors.
LEMMA Grows == \A a, b, c \in Nat : b <= c => a * b <= a * c
OBVIOUS

\* A product of naturals is one, in either order.
LEMMA Products == \A a, b \in Nat : a * b \in Nat /\ a * b = b * a
OBVIOUS

\* The sums of the first elements of a sequence.
LEMMA TotalOfFirst ==
    ASSUME NEW seq \in Seq(Nat)
    PROVE  /\ Total(SubSeq(seq, 1, 0)) = 0
           /\ Total(SubSeq(seq, 1, Len(seq))) = Total(seq)
           /\ \A i \in 0..Len(seq) : Total(SubSeq(seq, 1, i)) \in Nat
           /\ \A i \in 1..Len(seq) :
                Total(SubSeq(seq, 1, i)) = Total(SubSeq(seq, 1, i - 1)) + seq[i]
<1> DEFINE n == Len(seq)
           First(i) == SubSeq(seq, 1, i)
<1>1. n \in Nat /\ DOMAIN seq = 1..n /\ \A i \in 1..n : seq[i] \in Nat
  OBVIOUS
<1>2. First(0) = <<>>
  BY <1>1
<1>3. First(n) = seq
  BY SubSeqFull
<1>4. ASSUME NEW i \in 0..n PROVE First(i) \in Seq(Nat)
  <2>1. 1 \in Int /\ i \in Int /\ \A k \in 1..i : seq[k] \in Nat
    BY <1>1
  <2> QED
    BY <2>1, SubSeqProperties
<1>5. ASSUME NEW i \in 1..n PROVE First(i) = Append(First(i - 1), seq[i])
  <2>1. 1 \in 1..Len(seq) /\ i \in 1..Len(seq)
    BY <1>1
  <2>2. First(i) = First(i - 1) \o <<seq[i]>>
    BY <2>1, SubSeqRecursiveSecond
  <2>3. First(i - 1) \in Seq(Nat) /\ seq[i] \in Nat
    BY <1>1, <1>4
  <2> HIDE DEF First
  <2>4. Append(First(i - 1), seq[i]) = First(i - 1) \o <<seq[i]>>
    BY <2>3, AppendIsConcat
  <2> QED
    BY <2>2, <2>4
<1> HIDE DEF First
<1>6. ASSUME NEW i \in 1..n PROVE Total(First(i)) = Total(First(i - 1)) + seq[i]
  <2>1. i - 1 \in 0..n /\ seq[i] \in Nat
    BY <1>1
  <2> QED
    BY <1>4, <1>5, <2>1, TotalOf
<1>7. \A i \in 0..n : Total(First(i)) \in Nat
  BY <1>4, TotalOf
<1>8. Total(First(0)) = 0 /\ Total(First(n)) = Total(seq)
  BY <1>2, <1>3, TotalOf
<1> QED
  BY <1>6, <1>7, <1>8 DEF First, n

\* None of them exceeds the whole sum.
LEMMA FirstWithinTotal ==
    ASSUME NEW seq \in Seq(Nat)
    PROVE  \A i \in 0..Len(seq) : Total(SubSeq(seq, 1, i)) <= Total(seq)
<1> DEFINE n == Len(seq)
           Sum(i) == Total(SubSeq(seq, 1, i))
<1>1. n \in Nat /\ \A i \in 1..n : seq[i] \in Nat
  OBVIOUS
<1>2. /\ Sum(n) = Total(seq) /\ \A i \in 0..n : Sum(i) \in Nat
      /\ \A i \in 1..n : Sum(i) = Sum(i - 1) + seq[i]
  BY TotalOfFirst
<1> HIDE DEF n, Sum
<1> DEFINE Bad == {k \in 0..n : ~(Sum(n - k) <= Sum(n))}
<1>3. ASSUME Bad # {} PROVE FALSE
  <2>1. Bad \in SUBSET Nat
    OBVIOUS
  <2>2. PICK k \in Bad : \A m \in Bad : k <= m
    <3> HIDE DEF Bad
    <3> QED
      BY <1>3, <2>1, Added!LeastNumber
  <2>3. k \in 0..n /\ k # 0
    BY <1>1, <1>2, <2>2
  <2> DEFINE i == n - k
  <2>4. i \in 0..n /\ i + 1 \in 1..n /\ k - 1 \in 0..n /\ ~(k <= k - 1) /\ n - (k - 1) = i + 1
        /\ n \in 0..n /\ (i + 1) - 1 = i
    BY <1>1, <2>3
  <2>5. Sum(i + 1) <= Sum(n)
    BY <2>2, <2>4
  <2>6. Sum(i + 1) = Sum(i) + seq[i + 1] /\ seq[i + 1] \in Nat /\ Sum(i) \in Nat /\ Sum(n) \in Nat
    BY <1>1, <1>2, <2>4
  <2>7. Sum(i) <= Sum(n)
    BY <2>5, <2>6
  <2> QED
    BY <2>2, <2>7
<1>4. ASSUME NEW i \in 0..n PROVE Sum(i) <= Sum(n)
  <2>1. n - i \in 0..n /\ n - (n - i) = i
    BY <1>1
  <2> QED
    BY <1>3, <2>1
<1> QED
  BY <1>2, <1>4 DEF Sum, n

\* What the nodes want are numbers of inputs.
LEMMA WantOf ==
    ASSUME NEW inputs \in Nat, NEW S, NEW order \in Seq(S), order # <<>>,
           NEW latency, \A n \in S : latency[n] \in Nat
    PROVE  Want(inputs, order, latency) \in Seq(Nat)
           /\ Len(Want(inputs, order, latency)) = Len(order)
<1> DEFINE len == Len(order)
           slow == [j \in DOMAIN order |-> latency[order[j]] + 1]
           weight == Weight(order, latency)
           want == Want(inputs, order, latency)
<1>1. len \in Nat /\ len # 0 /\ DOMAIN order = 1..len /\ 1 \in 1..len
      /\ \A j \in 1..len : order[j] \in S
  OBVIOUS
<1>2. slow \in Seq(Positive) /\ DOMAIN slow = 1..len
  <2>1. slow = [j \in 1..len |-> latency[order[j]] + 1]
    BY <1>1
  <2>2. \A j \in 1..len : latency[order[j]] + 1 \in Positive
    <3>1. \A j \in 1..len : latency[order[j]] \in Nat
      BY <1>1
    <3> QED
      BY <3>1 DEF Positive
  <2> HIDE DEF slow, len
  <2>3. slow \in [1..len -> Positive]
    BY <2>1, <2>2
  <2> QED
    BY <1>1, <2>3
<1>3. weight = [i \in DOMAIN order |-> Product(RemoveAt(slow, i))]
  BY DEF Weight
<1> HIDE DEF slow, len, weight
<1>4. weight \in Seq(Nat) /\ DOMAIN weight = 1..len /\ \A i \in 1..len : weight[i] \in Positive
  <2>1. \A i \in 1..len : Product(RemoveAt(slow, i)) \in Positive
    BY <1>2, Removed, ProductOf
  <2>2. weight = [i \in 1..len |-> Product(RemoveAt(slow, i))]
    BY <1>1, <1>3
  <2>3. DOMAIN weight = 1..len /\ \A i \in 1..len : weight[i] \in Positive
    BY <2>1, <2>2
  <2>4. weight \in [1..len -> Nat]
    BY <2>1, <2>2 DEF Positive
  <2>5. weight \in Seq(Nat)
    BY <1>1, <2>4
  <2> QED
    BY <2>3, <2>5
<1>5. Total(weight) \in Positive
  <2>1. Total(weight) \in Nat /\ weight[1] <= Total(weight) /\ weight[1] \in Nat \ {0}
    BY <1>1, <1>4, TotalOf DEF Positive
  <2> QED
    BY <2>1 DEF Positive
<1>6. want = [i \in 1..len |-> Round(inputs * weight[i], Total(weight))]
  BY <1>1 DEF Want, weight
<1>7. \A i \in 1..len : Round(inputs * weight[i], Total(weight)) \in Nat
  <2> SUFFICES ASSUME NEW i \in 1..len PROVE Round(inputs * weight[i], Total(weight)) \in Nat
    OBVIOUS
  <2>1. weight[i] \in Nat
    BY <1>4 DEF Positive
  <2>2. inputs * weight[i] \in Nat
    BY <2>1
  <2> QED
    BY <1>5, <2>2, RoundOf
<1> HIDE DEF want
<1>8. want \in [1..len -> Nat]
  BY <1>6, <1>7
<1>9. want \in Seq(Nat) /\ Len(want) = len
  BY <1>1, <1>8
<1> QED
  BY <1>9 DEF want, len

----------------------------------------------------------------------------
(* Cutting the inputs *)

\* The nodes of Bundle, and those of SplitLoop, which are numbers.
Names == Ids \cup Nat
Slices == [node : Names, start : Nat, end : Nat]

EndsAt(seq) == IF seq = <<>> THEN 0 ELSE seq[Len(seq)].end

EndBefore(seq, k) == IF k = 1 THEN 0 ELSE seq[k - 1].end

\* Every slice starts where the one before it ends.
Chained(seq) ==
    \A k \in DOMAIN seq : /\ seq[k].start = EndBefore(seq, k) + 1
                          /\ seq[k].start <= seq[k].end + 1

\* shards are the slices of all that are not empty, and nothing of what all covers is
\* missing.
Covers(all, shards) ==
    /\ shards \in Seq(Slices) /\ Len(shards) <= Len(all)
    /\ \A s \in DOMAIN shards : \E k \in DOMAIN all : shards[s] = all[k]
    /\ Chained(all) =>
         /\ Chained(shards) /\ EndsAt(shards) = EndsAt(all)
         /\ \A s \in DOMAIN shards : shards[s].start <= shards[s].end
         /\ \A i \in 1..EndsAt(all) :
              \E s \in DOMAIN shards : shards[s].start <= i /\ i <= shards[s].end

Sliced == INSTANCE SequenceFacts WITH Op <- WithShard, Base <- <<>>,
                                      Items <- Slices, Holds <- Covers

\* The shards in the terms of SequenceFacts.
LEMMA ShardsAreFold == \A seq : FoldLeft(WithShard, <<>>, seq) = Sliced!Fold(seq)
BY DEF Sliced!Fold, FoldLeft, Sliced!FoldLeft, MapThenFoldSet, Sliced!MapThenFoldSet,
       Max, Sliced!Max

\* One more slice.
LEMMA ChainedAppend ==
    ASSUME NEW seq \in Seq(Slices), NEW x \in Slices
    PROVE  /\ EndsAt(seq) \in Nat
           /\ EndsAt(Append(seq, x)) = x.end
           /\ Chained(Append(seq, x)) <=>
                Chained(seq) /\ x.start = EndsAt(seq) + 1 /\ x.start <= x.end + 1
<1> DEFINE n == Len(seq)
           longer == Append(seq, x)
<1>1. /\ n \in Nat /\ DOMAIN seq = 1..n /\ DOMAIN longer = 1..(n + 1)
      /\ longer # <<>> /\ Len(longer) = n + 1 /\ (seq = <<>> <=> n = 0)
      /\ longer[n + 1] = x /\ \A k \in 1..n : longer[k] = seq[k]
  OBVIOUS
<1>2. \A k \in 1..n : seq[k] \in Slices
  OBVIOUS
<1> HIDE DEF n, longer
<1>3. EndsAt(seq) \in Nat
  <2>1. CASE n = 0
    BY <1>1, <2>1 DEF EndsAt
  <2>2. CASE n # 0
    <3>1. n \in 1..n
      BY <1>1, <2>2
    <3> QED
      BY <1>1, <1>2, <2>2, <3>1 DEF EndsAt, Slices, n
  <2> QED
    BY <2>1, <2>2
<1>4. EndsAt(longer) = x.end
  BY <1>1 DEF EndsAt
<1>5. /\ \A k \in 1..n : k \in 1..(n + 1) /\ k # n + 1 /\ (k # 1 => k - 1 \in 1..n)
      /\ \A k \in 1..(n + 1) : k = n + 1 \/ k \in 1..n
      /\ n + 1 \in 1..(n + 1) /\ (n + 1) - 1 = n
      /\ n # 0 => n + 1 # 1 /\ n \in 1..n
  BY <1>1
<1>6. \A k \in 1..n : EndBefore(longer, k) = EndBefore(seq, k)
  BY <1>1, <1>5 DEF EndBefore
<1>7. EndBefore(longer, n + 1) = EndsAt(seq)
  <2>1. CASE n = 0
    BY <1>1, <2>1 DEF EndsAt, EndBefore
  <2>2. CASE n # 0
    BY <1>1, <1>5, <2>2 DEF EndsAt, EndBefore, n
  <2> QED
    BY <2>1, <2>2
<1>8. ASSUME Chained(longer)
      PROVE  Chained(seq) /\ x.start = EndsAt(seq) + 1 /\ x.start <= x.end + 1
  <2>1. Chained(seq)
    BY <1>1, <1>5, <1>6, <1>8 DEF Chained
  <2>2. x.start = EndsAt(seq) + 1 /\ x.start <= x.end + 1
    <3>1. /\ longer[n + 1].start = EndBefore(longer, n + 1) + 1
          /\ longer[n + 1].start <= longer[n + 1].end + 1
      BY <1>1, <1>5, <1>8 DEF Chained
    <3> QED
      BY <1>1, <1>7, <3>1
  <2> QED
    BY <2>1, <2>2
<1>9. ASSUME Chained(seq), x.start = EndsAt(seq) + 1, x.start <= x.end + 1
      PROVE  Chained(longer)
  <2> SUFFICES ASSUME NEW k \in 1..(n + 1)
               PROVE  /\ longer[k].start = EndBefore(longer, k) + 1
                      /\ longer[k].start <= longer[k].end + 1
    BY <1>1 DEF Chained
  <2>1. CASE k = n + 1
    <3>1. longer[k] = x /\ EndBefore(longer, k) = EndsAt(seq)
      BY <1>1, <1>7, <2>1
    <3> QED
      BY <1>9, <3>1
  <2>2. CASE k \in 1..n
    BY <1>1, <1>6, <1>9, <2>2 DEF Chained
  <2> QED
    BY <1>5, <2>1, <2>2
<1> QED
  BY <1>3, <1>4, <1>8, <1>9 DEF longer

\* Leaving out empty slices leaves nothing out.
LEMMA ShardsCover ==
    ASSUME NEW all \in Seq(Slices)
    PROVE  Covers(all, FoldLeft(WithShard, <<>>, all))
<1>1. Covers(<<>>, <<>>)
  BY DEF Covers, Chained, EndsAt
<1>2. ASSUME NEW seq \in Seq(Slices), NEW x \in Slices, Covers(seq, Sliced!Fold(seq))
      PROVE  Covers(Append(seq, x), WithShard(Sliced!Fold(seq), x))
  <2> DEFINE kept == Sliced!Fold(seq)
             longer == Append(seq, x)
             after == WithShard(kept, x)
             m == Len(kept)
  <2>1. /\ kept \in Seq(Slices) /\ Len(kept) <= Len(seq)
        /\ \A s \in DOMAIN kept : \E k \in DOMAIN seq : kept[s] = seq[k]
    BY <1>2 DEF Covers
  <2>2. x.start \in Nat /\ x.end \in Nat
    BY DEF Slices
  <2>3. longer \in Seq(Slices) /\ Len(longer) = Len(seq) + 1 /\ Len(seq) \in Nat /\ m \in Nat
        /\ \A k \in DOMAIN seq : k \in DOMAIN longer /\ longer[k] = seq[k]
    BY <2>1
  <2>9. \E k \in DOMAIN longer : longer[k] = x
    <3>1. Len(seq) \in Nat /\ Len(seq) + 1 \in DOMAIN longer /\ longer[Len(seq) + 1] = x
      OBVIOUS
    <3> QED
      BY <3>1
  <2>4. /\ EndsAt(seq) \in Nat /\ EndsAt(kept) \in Nat /\ EndsAt(longer) = x.end
        /\ Chained(longer) => Chained(seq) /\ x.start = EndsAt(seq) + 1 /\ x.start <= x.end + 1
    BY <2>1, ChainedAppend
  <2>5. Chained(longer) =>
          /\ Chained(kept) /\ EndsAt(kept) = EndsAt(seq)
          /\ \A s \in DOMAIN kept : kept[s].start <= kept[s].end
          /\ \A i \in 1..EndsAt(seq) :
               \E s \in DOMAIN kept : kept[s].start <= i /\ i <= kept[s].end
    BY <1>2, <2>4 DEF Covers
  <2> HIDE DEF kept, longer
  <2>6. ASSUME x.start <= x.end PROVE Covers(longer, after)
    <3>1. after = Append(kept, x)
      BY <2>6 DEF WithShard
    <3>2. /\ after \in Seq(Slices) /\ Len(after) = m + 1 /\ DOMAIN after = 1..(m + 1)
          /\ DOMAIN kept = 1..m
          /\ after[m + 1] = x /\ \A s \in 1..m : after[s] = kept[s]
      BY <2>1, <3>1
    <3>3. /\ EndsAt(after) = x.end
          /\ Chained(kept) /\ x.start = EndsAt(kept) + 1 /\ x.start <= x.end + 1 => Chained(after)
      BY <2>1, <3>1, ChainedAppend
    <3> HIDE DEF after
    <3>4. /\ \A s \in 1..m : s \in 1..(m + 1)
          /\ m + 1 \in 1..(m + 1)
          /\ \A s \in 1..(m + 1) : s = m + 1 \/ s \in 1..m
      BY <2>3
    <3>5. ASSUME Chained(longer)
          PROVE  /\ Chained(after) /\ EndsAt(after) = EndsAt(longer)
                 /\ \A s \in 1..(m + 1) : after[s].start <= after[s].end
                 /\ \A i \in 1..EndsAt(longer) :
                      \E s \in 1..(m + 1) : after[s].start <= i /\ i <= after[s].end
      <4>1. Chained(after) /\ EndsAt(after) = EndsAt(longer)
        BY <2>4, <2>5, <3>3, <3>5
      <4>2. \A s \in 1..(m + 1) : after[s].start <= after[s].end
        BY <2>5, <2>6, <3>2, <3>4, <3>5
      <4>3. ASSUME NEW i \in 1..EndsAt(longer)
            PROVE  \E s \in 1..(m + 1) : after[s].start <= i /\ i <= after[s].end
        <5>1. CASE i \in 1..EndsAt(seq)
          BY <2>5, <3>2, <3>4, <3>5, <5>1
        <5>2. CASE i \notin 1..EndsAt(seq)
          <6>1. x.start <= i /\ i <= x.end
            BY <2>2, <2>4, <3>5, <5>2
          <6> QED
            BY <3>2, <3>4, <6>1
        <5> QED
          BY <5>1, <5>2
      <4> QED
        BY <4>1, <4>2, <4>3
    <3>6. Len(after) <= Len(longer)
      BY <2>1, <2>3, <3>2
    <3>7. ASSUME NEW s \in 1..(m + 1) PROVE \E k \in DOMAIN longer : after[s] = longer[k]
      <4>1. CASE s = m + 1
        <5>1. after[s] = x
          BY <3>2, <4>1
        <5> QED
          BY <2>9, <5>1
      <4>2. CASE s \in 1..m
        <5>1. after[s] = kept[s] /\ s \in DOMAIN kept
          BY <3>2, <4>2
        <5>2. PICK k \in DOMAIN seq : kept[s] = seq[k]
          BY <2>1, <5>1
        <5>3. k \in DOMAIN longer /\ longer[k] = seq[k]
          BY <2>3
        <5> QED
          BY <5>1, <5>2, <5>3
      <4> QED
        BY <3>4, <4>1, <4>2
    <3> QED
      BY <3>2, <3>5, <3>6, <3>7 DEF Covers
  <2>7. ASSUME ~(x.start <= x.end) PROVE Covers(longer, after)
    <3>1. after = kept
      BY <2>7 DEF WithShard
    <3>2. Chained(longer) => EndsAt(seq) = EndsAt(longer)
      BY <2>2, <2>4, <2>7
    <3>3. Len(kept) <= Len(longer) /\ \A s \in DOMAIN kept : \E k \in DOMAIN longer : kept[s] = longer[k]
      BY <2>1, <2>3
    <3> HIDE DEF after
    <3> QED
      BY <2>1, <2>5, <3>1, <3>2, <3>3 DEF Covers
  <2>8. Covers(longer, after)
    BY <2>6, <2>7
  <2> QED
    BY <2>8 DEF longer, kept
<1>3. \A seq \in Seq(Slices) : Covers(seq, Sliced!Fold(seq))
  BY <1>1, <1>2, Sliced!FoldInduction
<1> QED
  BY <1>3, ShardsAreFold

\* The nodes' shares follow each other, from nothing to everything.
LEMMA EndOfIs ==
    ASSUME NEW inputs \in Nat, NEW want \in Seq(Nat), want # <<>>
    PROVE  /\ EndOf(inputs, want, 0) = 0
           /\ EndOf(inputs, want, Len(want)) = inputs
           /\ \A i \in 1..Len(want) : /\ EndOf(inputs, want, i) \in Nat
                                      /\ EndOf(inputs, want, i - 1) \in Nat
                                      /\ EndOf(inputs, want, i - 1) <= EndOf(inputs, want, i)
                                      /\ EndOf(inputs, want, i) <= inputs
                                      /\ EndOf(inputs, want, i - 1) < inputs =>
                                           LET wanted == EndOf(inputs, want, i - 1) + want[i]
                                           IN  EndOf(inputs, want, i) =
                                                 IF i = Len(want) \/ wanted > inputs
                                                 THEN inputs ELSE wanted
<1> DEFINE n == Len(want)
           Wanted(i) == Total(SubSeq(want, 1, i))
<1>1. n \in Nat /\ n # 0 /\ DOMAIN want = 1..n /\ \A i \in 1..n : want[i] \in Nat
  OBVIOUS
<1>2. /\ Wanted(0) = 0 /\ \A i \in 0..n : Wanted(i) \in Nat
      /\ \A i \in 1..n : Wanted(i) = Wanted(i - 1) + want[i]
  BY TotalOfFirst
<1>3. \A i \in 0..n : EndOf(inputs, want, i) = IF i = n \/ Wanted(i) > inputs THEN inputs ELSE Wanted(i)
  BY DEF EndOf
<1> HIDE DEF Wanted, n
<1>4. 0 \in 0..n /\ n \in 0..n /\ \A i \in 1..n : i \in 0..n /\ i - 1 \in 0..n
  BY <1>1
<1>5. EndOf(inputs, want, 0) = 0
  BY <1>1, <1>2, <1>3, <1>4
<1>6. EndOf(inputs, want, n) = inputs
  BY <1>3, <1>4
<1>7. ASSUME NEW i \in 1..n
       PROVE  /\ EndOf(inputs, want, i) \in Nat
              /\ EndOf(inputs, want, i - 1) \in Nat
              /\ EndOf(inputs, want, i - 1) <= EndOf(inputs, want, i)
              /\ EndOf(inputs, want, i) <= inputs
              /\ EndOf(inputs, want, i - 1) < inputs =>
                   EndOf(inputs, want, i) =
                     IF i = n \/ EndOf(inputs, want, i - 1) + want[i] > inputs
                     THEN inputs ELSE EndOf(inputs, want, i - 1) + want[i]
  <2> DEFINE a == Wanted(i - 1)
             b == Wanted(i)
             k == i - 1
  <2>1. a \in Nat /\ b \in Nat /\ a <= b /\ b = a + want[i]
    <3>1. Wanted(i - 1) \in Nat /\ want[i] \in Nat /\ Wanted(i) = Wanted(i - 1) + want[i]
      BY <1>1, <1>2, <1>4
    <3> QED
      BY <3>1
  <2>2. k # n
    BY <1>1
  <2>3. /\ EndOf(inputs, want, i) = IF i = n \/ b > inputs THEN inputs ELSE b
        /\ EndOf(inputs, want, k) = IF k = n \/ a > inputs THEN inputs ELSE a
    BY <1>3, <1>4
  <2> HIDE DEF a, b
  <2>4. /\ EndOf(inputs, want, i) \in Nat /\ EndOf(inputs, want, k) \in Nat
        /\ EndOf(inputs, want, k) <= EndOf(inputs, want, i)
        /\ EndOf(inputs, want, i) <= inputs
        /\ EndOf(inputs, want, k) < inputs => a = EndOf(inputs, want, k)
    BY <2>1, <2>2, <2>3
  <2> QED
    BY <2>1, <2>3, <2>4
<1> QED
  BY <1>5, <1>6, <1>7 DEF n

\* The shards are in order, none is empty, and every input is in one.
Partition(shards, inputs) ==
    /\ shards \in Seq(Slices) /\ shards # <<>>
    /\ Chained(shards) /\ EndsAt(shards) = inputs
    /\ \A s \in DOMAIN shards : shards[s].start <= shards[s].end
    /\ \A i \in 1..inputs : \E s \in DOMAIN shards : shards[s].start <= i /\ i <= shards[s].end

\* What every node of order is to take, slices of nothing included.
Slice(inputs, order, want, i) ==
    [node |-> order[i], start |-> EndOf(inputs, want, i - 1) + 1, end |-> EndOf(inputs, want, i)]
SlicesFor(inputs, order, want) == [i \in DOMAIN order |-> Slice(inputs, order, want, i)]

\* They follow each other, from the first input to the last.
LEMMA SlicesAre ==
    ASSUME NEW inputs \in Nat, NEW order \in Seq(Names), order # <<>>,
           NEW want \in Seq(Nat), Len(want) = Len(order)
    PROVE  LET all == SlicesFor(inputs, order, want)
           IN  /\ all \in Seq(Slices) /\ Len(all) = Len(order)
               /\ \A i \in 1..Len(order) : all[i] = Slice(inputs, order, want, i)
               /\ Chained(all) /\ EndsAt(all) = inputs
<1> DEFINE n == Len(order)
           This(i) == Slice(inputs, order, want, i)
           all == SlicesFor(inputs, order, want)
<1>1. n \in Nat /\ n # 0 /\ DOMAIN order = 1..n /\ n \in 1..n /\ \A k \in 1..n : order[k] \in Names
  OBVIOUS
<1>2. want \in Seq(Nat) /\ Len(want) = n
  OBVIOUS
<1>3. want # <<>>
  BY <1>1, <1>2
<1> HIDE DEF n
<1>5. /\ EndOf(inputs, want, 0) = 0 /\ EndOf(inputs, want, n) = inputs
      /\ \A i \in 1..n : /\ EndOf(inputs, want, i) \in Nat
                         /\ EndOf(inputs, want, i - 1) \in Nat
                         /\ EndOf(inputs, want, i - 1) <= EndOf(inputs, want, i)
  BY <1>2, <1>3, EndOfIs
<1>6. all \in Seq(Slices) /\ DOMAIN all = 1..n /\ Len(all) = n
      /\ \A i \in 1..n : all[i] = This(i)
  <2>1. ASSUME NEW i \in 1..n PROVE This(i) \in Slices
    <3>1. \A a, b \in Nat : a + 1 \in Nat
      OBVIOUS
    <3>2. order[i] \in Names /\ EndOf(inputs, want, i - 1) + 1 \in Nat /\ EndOf(inputs, want, i) \in Nat
      BY <1>1, <1>5, <3>1
    <3> QED
      BY <3>2 DEF Slices, Slice
  <2>2. all = [i \in 1..n |-> This(i)]
    BY <1>1 DEF SlicesFor
  <2> HIDE DEF all, This
  <2>3. all \in [1..n -> Slices]
    BY <2>1, <2>2
  <2> QED
    BY <1>1, <2>2, <2>3
<1>7. Chained(all)
  <2> SUFFICES ASSUME NEW k \in 1..n
               PROVE  all[k].start = EndBefore(all, k) + 1 /\ all[k].start <= all[k].end + 1
    BY <1>6 DEF Chained
  <2>1. /\ all[k].start = EndOf(inputs, want, k - 1) + 1 /\ all[k].end = EndOf(inputs, want, k)
    BY <1>6 DEF Slice
  <2>2. EndBefore(all, k) = EndOf(inputs, want, k - 1)
    <3>1. CASE k = 1
      BY <1>5, <3>1 DEF EndBefore
    <3>2. CASE k # 1
      <4>1. k - 1 \in 1..n
        BY <1>1, <3>2
      <4>2. all[k - 1].end = EndOf(inputs, want, k - 1)
        BY <1>6, <4>1 DEF Slice
      <4> QED
        BY <3>2, <4>2 DEF EndBefore
    <3> QED
      BY <3>1, <3>2
  <2>3. EndOf(inputs, want, k - 1) + 1 <= EndOf(inputs, want, k) + 1
    BY <1>5
  <2> QED
    BY <2>1, <2>2, <2>3
<1>8. EndsAt(all) = inputs
  <2>1. all # <<>>
    <3>1. Len(all) # 0
      BY <1>1, <1>6
    <3> HIDE DEF all
    <3> QED
      BY <3>1
  <2>2. all[n].end = EndOf(inputs, want, n)
    BY <1>1, <1>6 DEF Slice
  <2> QED
    BY <1>5, <1>6, <2>1, <2>2 DEF EndsAt
<1> QED
  BY <1>6, <1>7, <1>8 DEF n

\* Split makes the shards of these slices.
LEMMA WantsAre ==
    ASSUME NEW inputs \in Nat, NEW order \in Seq(Names), order # <<>>,
           NEW latency, \A k \in DOMAIN order : latency[order[k]] \in Nat
    PROVE  LET want == Want(inputs, order, latency)
           IN  /\ want \in Seq(Nat) /\ Len(want) = Len(order)
               /\ Split(inputs, order, latency) =
                    FoldLeft(WithShard, <<>>, SlicesFor(inputs, order, want))
<1> DEFINE n == Len(order)
           want == Want(inputs, order, latency)
           used == {order[k] : k \in DOMAIN order}
<1>1. n \in Nat /\ DOMAIN order = 1..n
  OBVIOUS
<1>2. want \in Seq(Nat) /\ Len(want) = n
  <2>1. order \in [1..n -> used]
    BY <1>1
  <2>2. order \in Seq(used)
    BY <1>1, <2>1
  <2>3. \A m \in used : latency[m] \in Nat
    OBVIOUS
  <2> HIDE DEF used
  <2> QED
    BY <2>2, <2>3, WantOf
<1>3. Split(inputs, order, latency) = FoldLeft(WithShard, <<>>, SlicesFor(inputs, order, want))
  BY DEF Split, SlicesFor, Slice
<1> QED
  BY <1>2, <1>3

\* handleEmbedBundle: rounded shares, shares of nothing and shares that exceed what is
\* left included, the shards are a partition of the inputs.
THEOREM SplitPartitions ==
    ASSUME NEW inputs \in Nat \ {0}, NEW order \in Seq(Names), order # <<>>,
           NEW latency, \A k \in DOMAIN order : latency[order[k]] \in Nat
    PROVE  /\ Partition(Split(inputs, order, latency), inputs)
           /\ Len(Split(inputs, order, latency)) <= Len(order)
           /\ \A s \in DOMAIN Split(inputs, order, latency) :
                \E k \in DOMAIN order : Split(inputs, order, latency)[s].node = order[k]
<1> DEFINE n == Len(order)
           want == Want(inputs, order, latency)
           all == SlicesFor(inputs, order, want)
           shards == Split(inputs, order, latency)
<1>1. n \in Nat /\ DOMAIN order = 1..n
  OBVIOUS
<1>2. want \in Seq(Nat) /\ Len(want) = n /\ shards = FoldLeft(WithShard, <<>>, all)
  BY WantsAre
<1>3. all \in Seq(Slices) /\ Len(all) = n /\ Chained(all) /\ EndsAt(all) = inputs
  BY <1>2, SlicesAre
<1>7. \A i \in 1..n : all[i].node = order[i]
  <2> SUFFICES ASSUME NEW i \in 1..n PROVE all[i].node = order[i]
    OBVIOUS
  <2> HIDE DEF want
  <2>1. all[i] = Slice(inputs, order, want, i)
    BY <1>2, SlicesAre
  <2> QED
    BY <2>1 DEF Slice
<1>4. Covers(all, shards)
  BY <1>2, <1>3, ShardsCover
<1> HIDE DEF all, shards, n
<1>5. /\ shards \in Seq(Slices) /\ Len(shards) <= n
      /\ \A s \in DOMAIN shards : \E k \in 1..n : shards[s].node = order[k]
      /\ Chained(shards) /\ EndsAt(shards) = inputs
      /\ \A s \in DOMAIN shards : shards[s].start <= shards[s].end
      /\ \A i \in 1..inputs : \E s \in DOMAIN shards : shards[s].start <= i /\ i <= shards[s].end
  <2>1. ASSUME NEW s \in DOMAIN shards PROVE \E k \in 1..n : shards[s].node = order[k]
    <3>1. PICK k \in DOMAIN all : shards[s] = all[k]
      BY <1>4 DEF Covers
    <3>2. k \in 1..n
      BY <1>3
    <3> QED
      BY <1>7, <3>1, <3>2
  <2>2. /\ shards \in Seq(Slices) /\ Len(shards) <= Len(all)
        /\ Chained(shards) /\ EndsAt(shards) = EndsAt(all)
        /\ \A s \in DOMAIN shards : shards[s].start <= shards[s].end
        /\ \A i \in 1..EndsAt(all) :
             \E s \in DOMAIN shards : shards[s].start <= i /\ i <= shards[s].end
    <3>1. Chained(all)
      BY <1>3
    <3> QED
      BY <1>4, <3>1 DEF Covers
  <2>3. EndsAt(all) = inputs /\ Len(all) = n
    BY <1>3
  <2> QED
    BY <2>1, <2>2, <2>3
<1>6. shards # <<>>
  BY <1>5 DEF EndsAt
<1> QED
  BY <1>1, <1>5, <1>6 DEF Partition, shards, n

----------------------------------------------------------------------------
(* The candidates of a shard *)

\* getHealthyNodes() returns every healthy node once.
LEMMA PermutationTypes ==
    ASSUME NEW s \in ByLatency
    PROVE  /\ s \in Seq(Ids) /\ IsInjective(s)
           /\ Len(s) = Cardinality(HealthyNodes) /\ Len(s) <= Cardinality(Ids)
           /\ \A k \in DOMAIN s : s[k] \in HealthyNodes
<1>1. IsFiniteSet(HealthyNodes) /\ HealthyNodes \subseteq Ids
      /\ Cardinality(HealthyNodes) <= Cardinality(Ids)
  <2>1. HealthyNodes \subseteq Ids
    BY DEF HealthyNodes
  <2> QED
    BY <2>1, BundleAssumption, FS_Subset
<1>2. Cardinality(HealthyNodes) \in Nat
  BY <1>1, FS_CardinalityType
<1>3. /\ s \in [1..Cardinality(HealthyNodes) -> HealthyNodes]
      /\ \A i, j \in 1..Cardinality(HealthyNodes) : i # j => s[i] # s[j]
  BY DEF ByLatency, SetToSeqs
<1>4. s \in Seq(Ids) /\ Len(s) = Cardinality(HealthyNodes)
  BY <1>1, <1>2, <1>3
<1> QED
  BY <1>1, <1>3, <1>4 DEF IsInjective

\* The candidates of a shard are its own node and then others, all different, as many
\* as are healthy, up to MaxHops.
LEMMA CandidatesType ==
    ASSUME NEW order \in Seq(Ids), IsInjective(order), NEW node, NEW p \in DOMAIN order,
           order[p] = node
    PROVE  /\ Candidates(order, node) \in Seq(Ids)
           /\ IsInjective(Candidates(order, node))
           /\ Len(Candidates(order, node)) = Least(Len(order), MaxHops)
           /\ Candidates(order, node) # <<>>
           /\ Head(Candidates(order, node)) = node
<1> DEFINE Own(n) == n = node
           own == {i \in 1..Len(order) : Own(order[i])}
           first == SelectInSeq(order, Own)
           ordered == ToFront(order, first)
<1>1. Len(order) \in Nat /\ DOMAIN order = 1..Len(order) /\ p \in own
  OBVIOUS
<1>2. first = IF own # {} THEN Min(own) ELSE 0
  BY DEF SelectInSeq
<1>3. first \in own
  <2>1. own \in SUBSET Nat
    BY <1>1
  <2>2. \E i \in own : \A j \in own : i <= j
    <3> HIDE DEF own
    <3> QED
      BY <1>1, <2>1, Added!LeastNumber
  <2>3. Min(own) \in own
    BY <2>2 DEF Min
  <2> QED
    BY <1>1, <1>2, <2>3
<1>4. first \in DOMAIN order /\ order[first] = node /\ first # 0
  BY <1>1, <1>3
<1>5. Candidates(order, node) = SubSeq(ordered, 1, Least(Len(ordered), MaxHops))
  BY DEF Candidates
<1> HIDE DEF first, own
<1> DEFINE t == <<order[first]>> \o RemoveAt(order, first)
<1>6. t \in Seq(Ids) /\ Len(t) = Len(order) /\ IsInjective(t)
  BY <1>1, <1>4, Added!MovedToFront
  DEF RemoveAt, Added!RemoveAt, IsInjective, Added!IsInjective
<1>7. ordered = t
  BY <1>4 DEF ToFront
<1>8. t[1] = node
  <2>1. RemoveAt(order, first) \in Seq(Ids)
    BY <1>4, Removed
  <2>2. order[first] = node
    BY <1>4
  <2> HIDE DEF first
  <2> QED
    BY <2>1, <2>2
<1> HIDE DEF t, ordered
<1> DEFINE hops == Least(Len(t), MaxHops)
<1>9. /\ hops \in Nat /\ hops <= Len(t) /\ Len(t) \in Nat /\ hops # 0
      /\ hops = Least(Len(order), MaxHops)
  <2>1. Len(order) # 0
    BY <1>1, <1>4
  <2> QED
    BY <1>1, <1>6, <2>1, BundleAssumption DEF Least
<1>10. DOMAIN t = 1..Len(t)
  BY <1>6
<1>11. Candidates(order, node) = SubSeq(t, 1, hops)
  BY <1>5, <1>7
<1> HIDE DEF hops
<1> DEFINE c == SubSeq(t, 1, hops)
<1>12. /\ c \in Seq(Ids) /\ Len(c) = hops /\ DOMAIN c = 1..hops
       /\ \A k \in 1..hops : c[k] = t[k]
  BY <1>6, <1>9
<1> HIDE DEF c
<1>13. IsInjective(c)
  BY <1>6, <1>9, <1>10, <1>12 DEF IsInjective
<1>14. c # <<>> /\ Head(c) = node
  <2>1. c # <<>>
    BY <1>9, <1>12
  <2>2. c[1] = node
    BY <1>8, <1>9, <1>12
  <2> QED
    BY <1>12, <2>1, <2>2
<1> QED
  BY <1>9, <1>11, <1>12, <1>13, <1>14 DEF c

----------------------------------------------------------------------------
(* A bundle and its shards *)

Phases == {"idle", "refused", "embedding", "ok", "failed"}
Outcomes == {"pending", "served", "mismatch", "exhausted"}
ShardSet == [start : Nat, end : Nat, candidates : Seq(Ids), tried : SUBSET Ids,
             outcome : Outcomes]

\* A shard is pending while it has candidates, which it has not tried yet; together
\* they are as many as there were.  The vectors of a served shard are in their places.
GoodShard(shard, out, hops) ==
    /\ shard \in ShardSet
    /\ shard.candidates # <<>> <=> shard.outcome = "pending"
    /\ IsInjective(shard.candidates)
    /\ \A k \in DOMAIN shard.candidates : shard.candidates[k] \notin shard.tried
    /\ shard.outcome \in {"pending", "exhausted"} =>
         Cardinality(shard.tried) + Len(shard.candidates) = hops
    /\ shard.outcome = "served" =>
         \A i \in DOMAIN out : shard.start <= i /\ i <= shard.end => out[i] = i

\* The phase says how the shards are, and every input is in one of them.
GoodBundle(d) ==
    /\ d.phase \in Phases
    /\ d.shards \in Seq(ShardSet) /\ Len(d.shards) <= Cardinality(Ids)
    /\ \A s \in DOMAIN d.shards : GoodShard(d.shards[s], d.out, d.hops)
    /\ DOMAIN d.out \subseteq Nat
    /\ \A i \in DOMAIN d.out :
         \E s \in DOMAIN d.shards : d.shards[s].start <= i /\ i <= d.shards[s].end
    /\ d.phase \in {"idle", "refused"} => d.shards = <<>>
    /\ d.phase = "embedding" =>
         \A s \in DOMAIN d.shards : d.shards[s].outcome \in {"pending", "served"}
    /\ d.phase = "ok" => \A s \in DOMAIN d.shards : d.shards[s].outcome = "served"
    /\ d.phase = "failed" =>
         \E s \in DOMAIN d.shards : d.shards[s].outcome \in {"mismatch", "exhausted"}

\* When the call of a pending shard ends, a good bundle stays good.
LEMMA StaysGood ==
    ASSUME NEW old, GoodBundle(old), NEW s \in DOMAIN old.shards,
           old.shards[s].outcome = "pending",
           NEW out, DOMAIN out = DOMAIN old.out,
           \A i \in DOMAIN out : out[i] = old.out[i] \/ out[i] = i,
           NEW new, GoodShard(new, out, old.hops),
           new.start = old.shards[s].start, new.end = old.shards[s].end,
           NEW phase,
           phase = IF old.phase = "embedding"
                   THEN IF new.outcome = "pending" THEN "embedding"
                        ELSE IF new.outcome # "served" THEN "failed"
                        ELSE IF \A t \in DOMAIN old.shards :
                                   old.shards[t].candidates # <<>> => t = s
                        THEN "ok" ELSE "embedding"
                   ELSE old.phase
    PROVE  GoodBundle(BundleOf(phase, [old.shards EXCEPT ![s] = new], out, old.hops))
<1> DEFINE shards == old.shards
           after == [shards EXCEPT ![s] = new]
           m == Len(shards)
           d == BundleOf(phase, after, out, old.hops)
<1>1. d.phase = phase /\ d.shards = after /\ d.out = out /\ d.hops = old.hops
  BY DEF BundleOf
<1>2. shards \in Seq(ShardSet) /\ m \in Nat /\ DOMAIN shards = 1..m /\ s \in 1..m
      /\ m <= Cardinality(Ids)
  BY DEF GoodBundle
<1>3. new \in ShardSet /\ new.outcome \in Outcomes
  BY DEF GoodShard, ShardSet
<1>4. after \in Seq(ShardSet) /\ Len(after) = m /\ DOMAIN after = 1..m
      /\ after[s] = new /\ \A t \in 1..m : t # s => after[t] = shards[t]
  <2>1. after = [t \in 1..m |-> IF t = s THEN new ELSE shards[t]]
    BY <1>2
  <2>2. \A t \in 1..m : (IF t = s THEN new ELSE shards[t]) \in ShardSet
    BY <1>2, <1>3
  <2> HIDE DEF after, shards, m
  <2>3. after \in [1..m -> ShardSet]
    BY <2>1, <2>2
  <2>4. after \in Seq(ShardSet) /\ Len(after) = m
    BY <1>2, <2>3
  <2> QED
    BY <1>2, <2>1, <2>4
<1>5. /\ \A t \in 1..m : GoodShard(shards[t], old.out, old.hops)
      /\ \A i \in DOMAIN out : \E t \in 1..m : shards[t].start <= i /\ i <= shards[t].end
      /\ old.phase = "embedding" =>
           \A t \in 1..m : shards[t].outcome \in {"pending", "served"}
      /\ old.phase = "ok" => \A t \in 1..m : shards[t].outcome = "served"
      /\ old.phase = "failed" => \E t \in 1..m : shards[t].outcome \in {"mismatch", "exhausted"}
      /\ old.phase \in Phases
  BY <1>2 DEF GoodBundle
<1>6. old.phase \in {"embedding", "failed"}
  <2>1. old.phase \notin {"idle", "refused"}
    <3>1. shards # <<>>
      BY <1>2
    <3> QED
      BY <3>1 DEF GoodBundle
  <2>2. old.phase # "ok"
    BY <1>2, <1>5
  <2> QED
    BY <1>5, <2>1, <2>2 DEF Phases
<1>7. shards[s].outcome = "pending"
  OBVIOUS
<1>8. phase = IF old.phase = "embedding"
              THEN IF new.outcome = "pending" THEN "embedding"
                   ELSE IF new.outcome # "served" THEN "failed"
                   ELSE IF \A t \in 1..m : shards[t].candidates # <<>> => t = s
                   THEN "ok" ELSE "embedding"
              ELSE old.phase
  BY <1>2
<1> HIDE DEF shards, after, m
<1>9. \A t \in 1..m : GoodShard(after[t], out, old.hops)
  <2> SUFFICES ASSUME NEW t \in 1..m PROVE GoodShard(after[t], out, old.hops)
    OBVIOUS
  <2>1. CASE t = s
    BY <1>4, <2>1
  <2>2. CASE t # s
    <3>1. after[t] = shards[t] /\ GoodShard(shards[t], old.out, old.hops)
      BY <1>4, <1>5, <2>2
    <3> QED
      BY <3>1 DEF GoodShard
  <2> QED
    BY <2>1, <2>2
<1>10. \A i \in DOMAIN out : \E t \in 1..m : after[t].start <= i /\ i <= after[t].end
  <2>1. \A t \in 1..m : after[t].start = shards[t].start /\ after[t].end = shards[t].end
    BY <1>2, <1>4 DEF shards
  <2> QED
    BY <1>5, <2>1
<1>11. phase \in Phases /\ phase \notin {"idle", "refused"}
  BY <1>6, <1>8 DEF Phases
<1>12. ASSUME phase = "embedding"
       PROVE  \A t \in 1..m : after[t].outcome \in {"pending", "served"}
  <2>1. old.phase = "embedding" /\ new.outcome \in {"pending", "served"}
    BY <1>6, <1>8, <1>12
  <2> QED
    BY <1>4, <1>5, <2>1
<1>13. ASSUME phase = "ok" PROVE \A t \in 1..m : after[t].outcome = "served"
  <2>1. old.phase = "embedding" /\ new.outcome = "served"
        /\ \A t \in 1..m : shards[t].candidates # <<>> => t = s
    BY <1>6, <1>8, <1>13
  <2>2. ASSUME NEW t \in 1..m, t # s PROVE shards[t].outcome = "served"
    <3>1. shards[t].candidates = <<>> /\ shards[t].outcome \in {"pending", "served"}
      BY <1>5, <2>1, <2>2
    <3>2. shards[t].candidates # <<>> <=> shards[t].outcome = "pending"
      BY <1>5 DEF GoodShard
    <3> QED
      BY <3>1, <3>2
  <2> QED
    BY <1>4, <2>1, <2>2
<1>14. ASSUME phase = "failed"
       PROVE  \E t \in 1..m : after[t].outcome \in {"mismatch", "exhausted"}
  <2>1. CASE old.phase = "embedding"
    <3>1. new.outcome \in {"mismatch", "exhausted"}
      BY <1>3, <1>8, <1>14, <2>1 DEF Outcomes
    <3> QED
      BY <1>2, <1>4, <3>1
  <2>2. CASE old.phase = "failed"
    <3>1. PICK t \in 1..m : shards[t].outcome \in {"mismatch", "exhausted"}
      BY <1>5, <2>2
    <3>2. t # s
      BY <1>7, <3>1
    <3>3. after[t] = shards[t]
      BY <1>4, <3>2
    <3> QED
      BY <3>1, <3>3
  <2> QED
    BY <1>6, <2>1, <2>2
<1> HIDE DEF d
<1>15. GoodBundle(d)
  BY <1>1, <1>2, <1>4, <1>9, <1>10, <1>11, <1>12, <1>13, <1>14 DEF GoodBundle
<1> QED
  BY <1>15 DEF d, after, shards

\* Tail of distinct nodes.
LEMMA HeadAndTail ==
    ASSUME NEW c \in Seq(Ids), c # <<>>, IsInjective(c)
    PROVE  /\ Head(c) \in Ids /\ Head(c) = c[1] /\ 1 \in DOMAIN c
           /\ Tail(c) \in Seq(Ids) /\ IsInjective(Tail(c))
           /\ Len(c) \in Nat /\ Len(Tail(c)) + 1 = Len(c)
           /\ \A k \in DOMAIN Tail(c) : /\ Tail(c)[k] # Head(c)
                                        /\ \E j \in DOMAIN c : Tail(c)[k] = c[j]
<1> DEFINE n == Len(c)
           t == Tail(c)
<1>1. n \in Nat /\ n # 0 /\ DOMAIN c = 1..n /\ Head(c) = c[1]
      /\ t \in Seq(Ids) /\ DOMAIN t = 1..(n - 1) /\ Len(t) = n - 1
      /\ \A k \in 1..(n - 1) : t[k] = c[k + 1]
  OBVIOUS
<1>2. \A i, j \in 1..n : c[i] = c[j] => i = j
  BY <1>1 DEF IsInjective
<1>3. Head(c) \in Ids
  OBVIOUS
<1> HIDE DEF n, t
<1>4. 1 \in 1..n /\ \A k \in 1..(n - 1) : k + 1 \in 1..n /\ k + 1 # 1
  BY <1>1
<1>5. IsInjective(t)
  <2>1. \A i, j \in 1..(n - 1) : i + 1 = j + 1 => i = j
    BY <1>1
  <2>2. \A i, j \in 1..(n - 1) : t[i] = t[j] => i = j
    BY <1>1, <1>2, <1>4, <2>1
  <2> QED
    BY <1>1, <2>2 DEF IsInjective
<1>6. Len(t) + 1 = n
  BY <1>1
<1>7. \A k \in DOMAIN t : t[k] # Head(c) /\ \E j \in DOMAIN c : t[k] = c[j]
  BY <1>1, <1>2, <1>4
<1> QED
  BY <1>1, <1>3, <1>4, <1>5, <1>6, <1>7 DEF n, t

\* What the end of a call makes of its shard s, of its bundle b and of the counters.
Hopped(b, s, d, new) ==
    /\ bundle' = [bundle EXCEPT ![b] = d]
    /\ d.shards = [bundle[b].shards EXCEPT ![s] = new]
    /\ new.candidates \in Seq(Ids)
    /\ inflight' = LET left == Dec(inflight, Head(bundle[b].shards[s].candidates))
                   IN  IF new.candidates = <<>> THEN left
                       ELSE Inc(left, Head(new.candidates))
    /\ bundle[b].phase # "embedding" => d.phase = bundle[b].phase

\* A shard that waits for a node is pending.
LEMMA SendingIs ==
    ASSUME NEW b \in Bundles, GoodBundle(bundle[b]), NEW s \in Sending(b)
    PROVE  /\ s \in DOMAIN bundle[b].shards
           /\ GoodShard(bundle[b].shards[s], bundle[b].out, bundle[b].hops)
           /\ bundle[b].shards[s].candidates # <<>>
           /\ bundle[b].shards[s].outcome = "pending"
<1>1. s \in DOMAIN bundle[b].shards /\ bundle[b].shards[s].candidates # <<>>
  BY DEF Sending
<1>2. GoodShard(bundle[b].shards[s], bundle[b].out, bundle[b].hops)
  BY <1>1 DEF GoodBundle
<1> QED
  BY <1>1, <1>2 DEF GoodShard

\* The first shard to fail fails the bundle, the last to be served answers it.
LEMMA ServedStaysGood ==
    ASSUME NEW b \in Bundles, GoodBundle(bundle[b]), NEW s \in Sending(b), ShardServed(b, s)
    PROVE  \E d, new : GoodBundle(d) /\ Hopped(b, s, d, new)
<1> DEFINE old == bundle[b]
           shard == old.shards[s]
           new == ShardOf(shard, <<>>, shard.tried, "served")
           out == [i \in DOMAIN old.out |->
                     IF shard.start <= i /\ i <= shard.end
                     THEN ShardInputs(shard)[i - shard.start + 1] ELSE old.out[i]]
           d == BundleOf(PhaseServed(b, s), [old.shards EXCEPT ![s] = new], out, old.hops)
<1>1. /\ s \in DOMAIN old.shards /\ GoodShard(shard, old.out, old.hops)
      /\ shard.outcome = "pending"
  BY SendingIs
<1>2. /\ bundle' = [bundle EXCEPT ![b] = d]
      /\ inflight' = Dec(inflight, Head(shard.candidates))
  BY DEF ShardServed
<1>3. /\ new.start = shard.start /\ new.end = shard.end /\ new.candidates = <<>>
      /\ new.tried = shard.tried /\ new.outcome = "served"
  BY DEF ShardOf
<1>4. new \in ShardSet
  <2>1. shard \in ShardSet
    BY <1>1 DEF GoodShard
  <2>2. /\ shard.start \in Nat /\ shard.end \in Nat /\ shard.tried \in SUBSET Ids
    BY <2>1 DEF ShardSet
  <2> HIDE DEF shard
  <2> QED
    BY <2>2 DEF ShardOf, ShardSet, Outcomes
<1>0. DOMAIN out = DOMAIN old.out
      /\ \A i \in DOMAIN out : IF shard.start <= i /\ i <= shard.end THEN out[i] = i
                              ELSE out[i] = old.out[i]
  <2>1. shard.start \in Nat /\ shard.end \in Nat /\ DOMAIN old.out \subseteq Nat
    BY <1>1 DEF GoodShard, ShardSet, GoodBundle
  <2>2. ASSUME NEW i \in DOMAIN old.out, shard.start <= i, i <= shard.end
        PROVE  ShardInputs(shard)[i - shard.start + 1] = i
    <3>1. /\ i - shard.start + 1 \in 1..(shard.end + 1 - shard.start)
          /\ shard.start + (i - shard.start + 1) - 1 = i
      BY <2>1, <2>2
    <3> HIDE DEF shard
    <3> QED
      BY <3>1 DEF ShardInputs
  <2> QED
    BY <2>2
<1>5. GoodShard(new, out, old.hops)
  <2>1. IsInjective(<<>>) /\ DOMAIN <<>> = {}
    BY DEF IsInjective
  <2>2. \A i \in DOMAIN out : shard.start <= i /\ i <= shard.end => out[i] = i
    BY <1>0
  <2> HIDE DEF new, out, shard
  <2> QED
    BY <1>3, <1>4, <2>1, <2>2 DEF GoodShard
<1>6. PhaseServed(b, s) =
        IF old.phase = "embedding"
        THEN IF new.outcome = "pending" THEN "embedding"
             ELSE IF new.outcome # "served" THEN "failed"
             ELSE IF \A t \in DOMAIN old.shards : old.shards[t].candidates # <<>> => t = s
             THEN "ok" ELSE "embedding"
        ELSE old.phase
  <2>1. Sending(b) = {s} <=> \A t \in DOMAIN old.shards : old.shards[t].candidates # <<>> => t = s
    BY DEF Sending
  <2> HIDE DEF new
  <2> QED
    BY <1>3, <2>1 DEF PhaseServed
<1>7. DOMAIN out = DOMAIN old.out /\ \A i \in DOMAIN out : out[i] = old.out[i] \/ out[i] = i
  BY <1>0
<1> HIDE DEF new, out
<1>8. GoodBundle(d)
  BY <1>1, <1>3, <1>5, <1>6, <1>7, StaysGood
<1>9. d.shards = [old.shards EXCEPT ![s] = new] /\ d.phase = PhaseServed(b, s)
  BY DEF BundleOf
<1> HIDE DEF d
<1>10. Hopped(b, s, d, new)
  <2>1. old.phase # "embedding" => d.phase = old.phase
    BY <1>9 DEF PhaseServed
  <2>2. <<>> \in Seq(Ids)
    OBVIOUS
  <2> QED
    BY <1>2, <1>3, <1>9, <2>1, <2>2 DEF Hopped
<1> QED
  BY <1>8, <1>10

\* Failover leaves one candidate less and one node tried more.
LEMMA FailedStaysGood ==
    ASSUME NEW b \in Bundles, GoodBundle(bundle[b]), NEW s \in Sending(b),
           NEW kind, ShardFailed(b, s, kind)
    PROVE  \E d, new : GoodBundle(d) /\ Hopped(b, s, d, new)
<1> DEFINE old == bundle[b]
           shard == old.shards[s]
           n == Head(shard.candidates)
           rest == IF kind = "miscounted" THEN <<>> ELSE Tail(shard.candidates)
           outcome == IF kind = "miscounted" THEN "mismatch"
                      ELSE IF rest = <<>> THEN "exhausted" ELSE "pending"
           phase == IF old.phase = "embedding" /\ rest = <<>> THEN "failed" ELSE old.phase
           new == ShardOf(shard, rest, shard.tried \cup {n}, outcome)
           d == BundleOf(phase, [old.shards EXCEPT ![s] = new], old.out, old.hops)
<1>1. /\ s \in DOMAIN old.shards /\ GoodShard(shard, old.out, old.hops)
      /\ shard.outcome = "pending" /\ shard.candidates # <<>>
  BY SendingIs
<1>2. /\ bundle' = [bundle EXCEPT ![b] = d]
      /\ inflight' = IF rest = <<>> THEN Dec(inflight, n) ELSE Inc(Dec(inflight, n), Head(rest))
  BY DEF ShardFailed
<1>3. /\ shard.start \in Nat /\ shard.end \in Nat /\ shard.candidates \in Seq(Ids)
      /\ shard.tried \in SUBSET Ids
      /\ IsInjective(shard.candidates)
      /\ \A k \in DOMAIN shard.candidates : shard.candidates[k] \notin shard.tried
      /\ Cardinality(shard.tried) + Len(shard.candidates) = old.hops
  BY <1>1 DEF GoodShard, ShardSet
<1> HIDE DEF old, shard
<1>4. /\ n \in Ids /\ n \notin shard.tried
      /\ Tail(shard.candidates) \in Seq(Ids) /\ IsInjective(Tail(shard.candidates))
      /\ Len(shard.candidates) \in Nat
      /\ Len(Tail(shard.candidates)) + 1 = Len(shard.candidates)
      /\ \A k \in DOMAIN Tail(shard.candidates) :
           Tail(shard.candidates)[k] \notin shard.tried \cup {n}
  <2> DEFINE t == Tail(shard.candidates)
  <2>1. /\ Head(shard.candidates) \in Ids /\ Head(shard.candidates) = shard.candidates[1]
        /\ 1 \in DOMAIN shard.candidates
        /\ t \in Seq(Ids) /\ IsInjective(t)
        /\ Len(shard.candidates) \in Nat
        /\ Len(t) + 1 = Len(shard.candidates)
        /\ \A k \in DOMAIN t : /\ t[k] # Head(shard.candidates)
                               /\ \E j \in DOMAIN shard.candidates : t[k] = shard.candidates[j]
    BY <1>1, <1>3, HeadAndTail
  <2> HIDE DEF t
  <2>2. n \notin shard.tried
    BY <1>3, <2>1
  <2>3. ASSUME NEW k \in DOMAIN t PROVE t[k] \notin shard.tried \cup {n}
    BY <1>3, <2>1
  <2> QED
    BY <2>1, <2>2, <2>3 DEF t
<1> HIDE DEF n
<1>5. /\ rest \in Seq(Ids) /\ IsInjective(rest)
      /\ \A k \in DOMAIN rest : rest[k] \notin shard.tried \cup {n}
      /\ kind = "miscounted" => rest = <<>>
      /\ kind # "miscounted" => Len(rest) + 1 = Len(shard.candidates)
  <2>1. <<>> \in Seq(Ids) /\ IsInjective(<<>>) /\ DOMAIN <<>> = {}
    BY DEF IsInjective
  <2> QED
    BY <1>4, <2>1
<1> HIDE DEF rest
<1>6. /\ shard.tried \cup {n} \in SUBSET Ids
      /\ Cardinality(shard.tried \cup {n}) = Cardinality(shard.tried) + 1
      /\ Cardinality(shard.tried) \in Nat
  <2>1. IsFiniteSet(shard.tried)
    BY <1>3, BundleAssumption, FS_Subset
  <2> QED
    BY <1>3, <1>4, <2>1, FS_AddElement, FS_CardinalityType
<1>7. /\ new.start = shard.start /\ new.end = shard.end /\ new.candidates = rest
      /\ new.tried = shard.tried \cup {n} /\ new.outcome = outcome
  BY DEF ShardOf
<1>8. outcome \in Outcomes
  BY DEF Outcomes
<1>9. /\ rest # <<>> <=> outcome = "pending"
      /\ outcome # "served"
      /\ outcome \in {"pending", "exhausted"} => kind # "miscounted"
  BY <1>5
<1> HIDE DEF outcome
<1>10. new \in ShardSet
  BY <1>3, <1>5, <1>6, <1>8 DEF ShardOf, ShardSet
<1> HIDE DEF new
<1>11. GoodShard(new, old.out, old.hops)
  <2>1. outcome \in {"pending", "exhausted"} =>
          Cardinality(shard.tried \cup {n}) + Len(rest) = old.hops
    <3>1. ASSUME kind # "miscounted"
          PROVE  Cardinality(shard.tried \cup {n}) + Len(rest) = old.hops
      <4>1. Len(rest) \in Nat
        BY <1>5
      <4> QED
        BY <1>3, <1>4, <1>5, <1>6, <3>1, <4>1
    <3> QED
      BY <1>9, <3>1
  <2> QED
    BY <1>5, <1>7, <1>9, <1>10, <2>1 DEF GoodShard
<1>12. phase = IF old.phase = "embedding"
               THEN IF new.outcome = "pending" THEN "embedding"
                    ELSE IF new.outcome # "served" THEN "failed"
                    ELSE IF \A t \in DOMAIN old.shards :
                               old.shards[t].candidates # <<>> => t = s
                    THEN "ok" ELSE "embedding"
               ELSE old.phase
  BY <1>7, <1>9
<1>13. old.phase # "embedding" => phase = old.phase
  OBVIOUS
<1> HIDE DEF phase
<1>14. GoodBundle(d)
  BY <1>1, <1>7, <1>11, <1>12, StaysGood DEF old, shard
<1>15. d.shards = [old.shards EXCEPT ![s] = new] /\ d.phase = phase
  BY DEF BundleOf
<1> HIDE DEF d
<1>16. Hopped(b, s, d, new)
  BY <1>2, <1>5, <1>7, <1>13, <1>15 DEF Hopped, old, shard, n
<1> QED
  BY <1>14, <1>16

\* Either way the bundle stays good.
LEMMA CallStaysGood ==
    ASSUME NEW b \in Bundles, GoodBundle(bundle[b]), NEW s \in Sending(b),
           NEW kind, CallEnds(b, s, kind)
    PROVE  \E d, new : GoodBundle(d) /\ Hopped(b, s, d, new)
<1>1. CASE kind = "ok"
  BY <1>1, ServedStaysGood DEF CallEnds
<1>2. CASE kind # "ok"
  BY <1>2, FailedStaysGood DEF CallEnds
<1> QED
  BY <1>1, <1>2

----------------------------------------------------------------------------
(* The counters *)

\* Shard s of bundle d is at node n; the shards of d at n; all shards at n.
AtNode(d, s, n) ==
    s \in DOMAIN d.shards /\ d.shards[s].candidates # <<>> /\ Head(d.shards[s].candidates) = n
At(n, d) == {s \in 1..Cardinality(Ids) : AtNode(d, s, n)}
Work(n, bundles) == {p \in Bundles \X (1..Cardinality(Ids)) : AtNode(bundles[p[1]], p[2], n)}

IsMap == bundle = [b \in Bundles |-> bundle[b]]

CountInv ==
    /\ IsMap
    /\ \A b \in Bundles : GoodBundle(bundle[b])
    /\ inflight \in [Ids -> Nat]
    /\ \A n \in Ids : inflight[n] = Cardinality(Work(n, bundle))

\* The pool is finite.
LEMMA Nodes == IsFiniteSet(1..Cardinality(Ids)) /\ Cardinality(Ids) \in Nat
<1>1. Cardinality(Ids) \in Nat
  BY BundleAssumption, FS_CardinalityType
<1> QED
  BY <1>1, FS_Interval

\* So is what is at a node.
LEMMA AtIsFinite ==
    ASSUME NEW n, NEW d
    PROVE  IsFiniteSet(At(n, d)) /\ Cardinality(At(n, d)) \in Nat
<1>1. At(n, d) \subseteq 1..Cardinality(Ids)
  BY DEF At
<1> QED
  BY <1>1, Nodes, FS_Subset, FS_CardinalityType

\* The size of a disjoint union.
LEMMA Disjoint ==
    ASSUME NEW A, NEW B, IsFiniteSet(A), IsFiniteSet(B), A \cap B = {}
    PROVE  Cardinality(A \cup B) = Cardinality(A) + Cardinality(B)
<1>1. Cardinality(A \cup B) = Cardinality(A) + Cardinality(B) - Cardinality(A \cap B)
  BY FS_Union
<1>2. Cardinality(A \cap B) = 0
  BY FS_EmptySet
<1> QED
  BY <1>1, <1>2, FS_CardinalityType

\* What is at n is what one bundle has there and what the others have.
LEMMA WorkOf ==
    ASSUME NEW n, NEW b \in Bundles, NEW bundles
    PROVE  LET others == {p \in Work(n, bundles) : p[1] # b}
           IN  /\ Cardinality(others) \in Nat
               /\ Cardinality(Work(n, bundles)) = Cardinality(others) + Cardinality(At(n, bundles[b]))
<1> DEFINE all == Work(n, bundles)
           others == {p \in all : p[1] # b}
           at == At(n, bundles[b])
           mine == {b} \X at
<1>1. IsFiniteSet(all)
  <2>1. IsFiniteSet(Bundles \X (1..Cardinality(Ids)))
    BY Nodes, BundleAssumption, FS_Product
  <2>2. all \subseteq Bundles \X (1..Cardinality(Ids))
    BY DEF Work
  <2> QED
    BY <2>1, <2>2, FS_Subset
<1>2. IsFiniteSet(others) /\ Cardinality(others) \in Nat
  BY <1>1, FS_Subset, FS_CardinalityType
<1>3. IsFiniteSet(at) /\ Cardinality(at) \in Nat
  BY AtIsFinite
<1> HIDE DEF at
<1>4. IsFiniteSet(mine) /\ Cardinality(mine) = Cardinality(at)
  <2>1. IsFiniteSet({b}) /\ Cardinality({b}) = 1
    BY FS_Singleton
  <2>2. IsFiniteSet(mine) /\ Cardinality(mine) = Cardinality({b}) * Cardinality(at)
    BY <1>3, <2>1, FS_Product
  <2> QED
    BY <1>3, <2>1, <2>2
<1>5. all = others \cup mine
  <2>1. ASSUME NEW p \in all PROVE p \in others \cup mine
    <3>1. /\ p[1] \in Bundles /\ p[2] \in 1..Cardinality(Ids) /\ p = <<p[1], p[2]>>
          /\ AtNode(bundles[p[1]], p[2], n)
      BY DEF Work
    <3>2. CASE p[1] = b
      <4>1. p[2] \in at
        BY <3>1, <3>2 DEF At, at
      <4> QED
        BY <3>1, <3>2, <4>1
    <3>3. CASE p[1] # b
      BY <3>3
    <3> QED
      BY <3>2, <3>3
  <2>2. ASSUME NEW p \in mine PROVE p \in all
    <3>1. PICK s \in at : p = <<b, s>>
      OBVIOUS
    <3>2. s \in 1..Cardinality(Ids) /\ AtNode(bundles[b], s, n)
      BY DEF At, at
    <3>3. p \in Bundles \X (1..Cardinality(Ids)) /\ p[1] = b /\ p[2] = s
      BY <3>1, <3>2
    <3> QED
      BY <3>2, <3>3 DEF Work
  <2> QED
    BY <2>1, <2>2
<1>6. others \cap mine = {}
  OBVIOUS
<1> HIDE DEF all, others, mine
<1>7. Cardinality(all) = Cardinality(others) + Cardinality(mine)
  BY <1>2, <1>4, <1>5, <1>6, Disjoint
<1> QED
  BY <1>2, <1>4, <1>7 DEF all, others, at

\* A step that changes one bundle and counts its shards keeps the counters exact.
LEMMA OneChanges ==
    ASSUME CountInv, NEW b \in Bundles, NEW d, GoodBundle(d),
           bundle' = [bundle EXCEPT ![b] = d],
           inflight' \in [Ids -> Nat],
           \A n \in Ids : inflight'[n] + Cardinality(At(n, bundle[b]))
                             = inflight[n] + Cardinality(At(n, d))
    PROVE  CountInv'
<1>1. IsMap' /\ bundle'[b] = d /\ \A c \in Bundles : c # b => bundle'[c] = bundle[c]
  <2>1. bundle = [c \in Bundles |-> bundle[c]]
    BY DEF CountInv, IsMap
  <2>2. bundle' = [c \in Bundles |-> IF c = b THEN d ELSE bundle[c]]
    BY <2>1
  <2> QED
    BY <2>2 DEF IsMap
<1>2. \A c \in Bundles : GoodBundle(bundle'[c])
  BY <1>1 DEF CountInv
<1>3. ASSUME NEW n \in Ids PROVE inflight'[n] = Cardinality(Work(n, bundle'))
  <2> DEFINE before == {p \in Work(n, bundle) : p[1] # b}
             after == {p \in Work(n, bundle') : p[1] # b}
  <2>1. before = after
    <3>1. \A p \in Bundles \X (1..Cardinality(Ids)) :
            p[1] # b => bundle'[p[1]] = bundle[p[1]]
      BY <1>1
    <3> QED
      BY <3>1 DEF Work
  <2>2. /\ Cardinality(before) \in Nat
        /\ Cardinality(Work(n, bundle)) = Cardinality(before) + Cardinality(At(n, bundle[b]))
    BY WorkOf
  <2>3. Cardinality(Work(n, bundle')) = Cardinality(after) + Cardinality(At(n, bundle'[b]))
    BY WorkOf
  <2>4. Cardinality(At(n, bundle[b])) \in Nat /\ Cardinality(At(n, d)) \in Nat
    BY AtIsFinite
  <2>5. inflight[n] = Cardinality(Work(n, bundle)) /\ inflight'[n] \in Nat /\ inflight[n] \in Nat
    BY DEF CountInv
  <2> HIDE DEF before, after
  <2>6. Cardinality(Work(n, bundle')) = Cardinality(before) + Cardinality(At(n, d))
    BY <1>1, <2>1, <2>3
  <2>7. inflight'[n] + Cardinality(At(n, bundle[b])) = inflight[n] + Cardinality(At(n, d))
    OBVIOUS
  <2> QED
    BY <2>2, <2>4, <2>5, <2>6, <2>7
<1> QED
  BY <1>1, <1>2, <1>3 DEF CountInv

\* The end of a call takes its request off its node and adds it to the next.
LEMMA HopCounts ==
    ASSUME CountInv, NEW b \in Bundles, NEW s \in Sending(b), NEW d, NEW new,
           Hopped(b, s, d, new), NEW n \in Ids
    PROVE  /\ inflight' \in [Ids -> Nat]
           /\ inflight'[n] + Cardinality(At(n, bundle[b])) = inflight[n] + Cardinality(At(n, d))
<1> DEFINE old == bundle[b]
           shards == old.shards
           shard == shards[s]
           head == Head(shard.candidates)
           base == At(n, old) \ {s}
           moved == new.candidates # <<>> /\ Head(new.candidates) = n
<1>1. /\ inflight \in [Ids -> Nat] /\ GoodBundle(old)
      /\ inflight[n] = Cardinality(Work(n, bundle))
  BY DEF CountInv
<1>2. s \in DOMAIN shards /\ shard.candidates # <<>> /\ shard.candidates \in Seq(Ids)
  BY <1>1, SendingIs DEF GoodShard, ShardSet
<1>3. DOMAIN shards \subseteq 1..Cardinality(Ids)
  <2>1. shards \in Seq(ShardSet) /\ Len(shards) <= Cardinality(Ids)
    BY <1>1 DEF GoodBundle
  <2> HIDE DEF shards
  <2>2. Len(shards) \in Nat /\ DOMAIN shards = 1..Len(shards)
    BY <2>1
  <2> QED
    BY <2>1, <2>2, Nodes
<1>4. head \in Ids /\ (new.candidates # <<>> => Head(new.candidates) \in Ids)
  <2>1. new.candidates \in Seq(Ids)
    BY DEF Hopped
  <2> HIDE DEF shard
  <2> QED
    BY <1>2, <2>1
<1>5. inflight' = IF new.candidates = <<>> THEN Dec(inflight, head)
                  ELSE Inc(Dec(inflight, head), Head(new.candidates))
  BY DEF Hopped
<1>6. DOMAIN d.shards = DOMAIN shards /\ d.shards[s] = new
      /\ \A t \in DOMAIN shards : t # s => d.shards[t] = shards[t]
  BY <1>2 DEF Hopped
<1> HIDE DEF shards, shard, old
<1>7. At(n, old) = IF head = n THEN base \cup {s} ELSE base
  <2>1. s \in At(n, old) <=> head = n
    BY <1>2, <1>3 DEF At, AtNode, shards, shard
  <2> QED
    BY <2>1
<1>8. At(n, d) = IF moved THEN base \cup {s} ELSE base
  <2>1. s \in At(n, d) <=> moved
    BY <1>2, <1>3, <1>6 DEF At, AtNode
  <2>2. \A t \in 1..Cardinality(Ids) : t # s => (AtNode(d, t, n) <=> AtNode(old, t, n))
    BY <1>6 DEF AtNode, shards
  <2>3. \A t : t # s => (t \in At(n, d) <=> t \in At(n, old))
    BY <2>2 DEF At
  <2> QED
    BY <2>1, <2>3
<1>9. /\ Cardinality(base) \in Nat /\ Cardinality(base \cup {s}) = Cardinality(base) + 1
  <2>1. IsFiniteSet(base)
    BY AtIsFinite, FS_Subset
  <2>2. s \notin base
    OBVIOUS
  <2> HIDE DEF base
  <2> QED
    BY <2>1, <2>2, FS_AddElement, FS_CardinalityType
<1>10. inflight[n] \in Nat /\ Cardinality(At(n, old)) <= inflight[n]
  <2> DEFINE others == {p \in Work(n, bundle) : p[1] # b}
  <2>1. /\ Cardinality(others) \in Nat
        /\ Cardinality(Work(n, bundle)) = Cardinality(others) + Cardinality(At(n, old))
    BY WorkOf DEF old
  <2>2. Cardinality(At(n, old)) \in Nat
    BY AtIsFinite
  <2> HIDE DEF others
  <2> QED
    BY <1>1, <2>1, <2>2
<1> HIDE DEF base, moved, head
<1> DEFINE k == Cardinality(base)
<1>11. /\ head = n => Cardinality(At(n, old)) = k + 1
       /\ head # n => Cardinality(At(n, old)) = k
       /\ moved => Cardinality(At(n, d)) = k + 1
       /\ ~moved => Cardinality(At(n, d)) = k
       /\ k \in Nat
  BY <1>7, <1>8, <1>9
<1> HIDE DEF k
<1> DEFINE left == Dec(inflight, head)
<1>12. /\ left \in [Ids -> Nat]
       /\ head = n => left[n] + 1 = inflight[n]
       /\ head # n => left[n] = inflight[n]
  <2>1. left \in [Ids -> Nat]
    BY <1>1, <1>4 DEF Dec
  <2>2. ASSUME head = n PROVE left[n] + 1 = inflight[n]
    <3>1. inflight[n] \in Nat \ {0}
      BY <1>10, <1>11, <2>2
    <3>2. left[n] = IF inflight[n] <= 1 THEN 0 ELSE inflight[n] - 1
      BY <1>1, <2>2 DEF Dec
    <3> QED
      BY <3>1, <3>2
  <2>3. ASSUME head # n PROVE left[n] = inflight[n]
    BY <1>1, <2>3 DEF Dec
  <2> QED
    BY <2>1, <2>2, <2>3
<1> HIDE DEF left
<1>13. /\ inflight' \in [Ids -> Nat]
       /\ moved => inflight'[n] = left[n] + 1
       /\ ~moved => inflight'[n] = left[n]
  <2>1. CASE new.candidates = <<>>
    <3>1. inflight' = left /\ ~moved
      BY <1>5, <2>1 DEF left, moved
    <3> QED
      BY <1>12, <3>1
  <2>2. CASE new.candidates # <<>>
    <3>1. inflight' = Inc(left, Head(new.candidates)) /\ (moved <=> Head(new.candidates) = n)
      BY <1>5, <2>2 DEF left, moved
    <3>2. Head(new.candidates) \in Ids
      BY <1>4, <2>2
    <3> QED
      BY <1>12, <3>1, <3>2 DEF Inc
  <2> QED
    BY <2>1, <2>2
<1>14. left[n] \in Nat
  BY <1>12
<1> DEFINE x == inflight[n]
           y == left[n]
           z == inflight'[n]
           ca == Cardinality(At(n, old))
           cd == Cardinality(At(n, d))
<1>15. x \in Nat /\ y \in Nat
  BY <1>10, <1>14
<1>16. /\ head = n => y + 1 = x /\ ca = k + 1
       /\ head # n => y = x /\ ca = k
       /\ moved => z = y + 1 /\ cd = k + 1
       /\ ~moved => z = y /\ cd = k
  BY <1>11, <1>12, <1>13
<1> HIDE DEF x, y, z, ca, cd
<1>17. z + ca = x + cd
  BY <1>11, <1>15, <1>16
<1> QED
  BY <1>13, <1>17 DEF x, z, ca, cd, old

----------------------------------------------------------------------------
(* A bundle arrives *)

\* The shards of a new bundle have every input, and candidates to go through.
LEMMA SplitIsGood ==
    ASSUME HealthyNodes # {}, NEW inputs \in 1..MaxInputs, NEW order \in ByLatency,
           NEW latency \in [HealthyNodes -> Latencies]
    PROVE  LET split == Split(inputs, order, latency)
               hops == Least(Len(order), MaxHops)
               New(slice) == ShardOf(slice, Candidates(order, slice.node), {}, "pending")
               d == BundleOf("embedding", [s \in DOMAIN split |-> New(split[s])],
                             [i \in 1..inputs |-> 0], hops)
           IN  /\ GoodBundle(d)
               /\ \A n \in Ids : At(n, d) = {s \in DOMAIN split : split[s].node = n}
<1> DEFINE split == Split(inputs, order, latency)
           hops == Least(Len(order), MaxHops)
           New(slice) == ShardOf(slice, Candidates(order, slice.node), {}, "pending")
           shards == [s \in DOMAIN split |-> New(split[s])]
           out == [i \in 1..inputs |-> 0]
           d == BundleOf("embedding", shards, out, hops)
           m == Len(split)
<1>1. inputs \in Nat \ {0}
  BY BundleAssumption
<1>2. /\ order \in Seq(Ids) /\ IsInjective(order) /\ Len(order) <= Cardinality(Ids)
      /\ \A k \in DOMAIN order : order[k] \in HealthyNodes
      /\ order # <<>> /\ Len(order) \in Nat
  <2>1. /\ order \in Seq(Ids) /\ IsInjective(order)
        /\ Len(order) = Cardinality(HealthyNodes) /\ Len(order) <= Cardinality(Ids)
        /\ \A k \in DOMAIN order : order[k] \in HealthyNodes
    BY PermutationTypes
  <2>2. Cardinality(HealthyNodes) # 0
    <3>1. IsFiniteSet(HealthyNodes)
      BY BundleAssumption, FS_Subset DEF HealthyNodes
    <3> QED
      BY <3>1, FS_EmptySet
  <2> QED
    BY <2>1, <2>2
<1>3. \A k \in DOMAIN order : latency[order[k]] \in Nat
  BY <1>2, BundleAssumption
<1>4. /\ Partition(split, inputs) /\ Len(split) <= Len(order)
      /\ \A s \in DOMAIN split : \E k \in DOMAIN order : split[s].node = order[k]
  <2>1. order \in Seq(Names)
    BY <1>2 DEF Names
  <2> QED
    BY <1>1, <1>2, <1>3, <2>1, SplitPartitions
<1> HIDE DEF split
<1>5. split \in Seq(Slices) /\ m \in Nat /\ DOMAIN split = 1..m /\ m <= Cardinality(Ids)
      /\ \A s \in 1..m : split[s] \in Slices
  <2>1. split \in Seq(Slices)
    BY <1>4 DEF Partition
  <2>2. m \in Nat /\ DOMAIN split = 1..m /\ \A s \in 1..m : split[s] \in Slices
    BY <2>1
  <2>3. m <= Cardinality(Ids)
    BY <1>2, <1>4, <2>2, Nodes
  <2> QED
    BY <2>1, <2>2, <2>3
<1>13. \A i \in 1..inputs : \E s \in 1..m : split[s].start <= i /\ i <= split[s].end
  BY <1>4, <1>5 DEF Partition
<1>6. ASSUME NEW s \in 1..m
      PROVE  /\ GoodShard(New(split[s]), out, hops)
             /\ New(split[s]) \in ShardSet
             /\ New(split[s]).start = split[s].start /\ New(split[s]).end = split[s].end
             /\ New(split[s]).outcome = "pending"
             /\ New(split[s]).candidates # <<>>
             /\ Head(New(split[s]).candidates) = split[s].node
  <2> DEFINE slice == split[s]
             c == Candidates(order, slice.node)
             new == New(slice)
  <2>1. PICK k \in DOMAIN order : slice.node = order[k]
    BY <1>4, <1>5
  <2>2. /\ c \in Seq(Ids) /\ IsInjective(c) /\ Len(c) = hops
        /\ c # <<>> /\ Head(c) = slice.node
    BY <1>2, <2>1, CandidatesType
  <2>3. slice.start \in Nat /\ slice.end \in Nat
    BY <1>5 DEF Slices
  <2> HIDE DEF c, slice, hops, out
  <2>4. /\ new.start = slice.start /\ new.end = slice.end /\ new.candidates = c
        /\ new.tried = {} /\ new.outcome = "pending"
    BY DEF ShardOf, c
  <2>5. new \in ShardSet
    BY <2>2, <2>3 DEF ShardOf, ShardSet, Outcomes, c
  <2> HIDE DEF New
  <2>6. Cardinality({}) + Len(c) = hops
    <3>1. Cardinality({}) = 0 /\ Len(c) \in Nat
      BY <2>2, FS_EmptySet
    <3> QED
      BY <2>2, <3>1
  <2>7. GoodShard(new, out, hops)
    BY <2>2, <2>4, <2>5, <2>6 DEF GoodShard
  <2> QED
    BY <2>2, <2>4, <2>5, <2>7 DEF slice
<1>7. shards = [s \in 1..m |-> New(split[s])]
  BY <1>5
<1> HIDE DEF New, shards, m, hops
<1>8. /\ shards \in Seq(ShardSet) /\ Len(shards) = m /\ DOMAIN shards = 1..m
      /\ \A s \in 1..m : shards[s] = New(split[s])
  <2>1. shards \in [1..m -> ShardSet]
    BY <1>6, <1>7
  <2>2. shards \in Seq(ShardSet) /\ Len(shards) = m
    BY <1>5, <2>1
  <2> QED
    BY <1>7, <2>2
<1>9. d.phase = "embedding" /\ d.shards = shards /\ d.out = out /\ d.hops = hops
  BY DEF BundleOf
<1>10. DOMAIN out = 1..inputs
  OBVIOUS
<1> HIDE DEF d, out
<1>11. GoodBundle(d)
  <2>1. \A s \in 1..m : GoodShard(shards[s], out, hops)
    BY <1>6, <1>8
  <2>2. \A i \in 1..inputs : \E s \in 1..m : shards[s].start <= i /\ i <= shards[s].end
    <3>1. \A s \in 1..m : shards[s].start = split[s].start /\ shards[s].end = split[s].end
      BY <1>6, <1>8
    <3> QED
      BY <1>13, <3>1
  <2>3. \A s \in 1..m : shards[s].outcome = "pending"
    BY <1>6, <1>8
  <2>4. /\ d.phase \in Phases /\ d.shards \in Seq(ShardSet) /\ Len(d.shards) <= Cardinality(Ids)
        /\ d.phase \notin {"idle", "refused", "ok", "failed"}
    BY <1>5, <1>8, <1>9 DEF Phases
  <2>5. DOMAIN d.shards = 1..m /\ DOMAIN d.out = 1..inputs /\ DOMAIN d.out \subseteq Nat
    BY <1>8, <1>9, <1>10
  <2>6. /\ \A s \in DOMAIN d.shards : GoodShard(d.shards[s], d.out, d.hops)
        /\ \A s \in DOMAIN d.shards : d.shards[s].outcome \in {"pending", "served"}
    BY <1>9, <2>1, <2>3, <2>5
  <2>7. \A i \in DOMAIN d.out :
          \E s \in DOMAIN d.shards : d.shards[s].start <= i /\ i <= d.shards[s].end
    BY <1>9, <2>2, <2>5
  <2> QED
    BY <2>4, <2>5, <2>6, <2>7 DEF GoodBundle
<1>12. ASSUME NEW n \in Ids PROVE At(n, d) = {s \in DOMAIN split : split[s].node = n}
  <2>1. \A s \in 1..m : s \in 1..Cardinality(Ids)
    BY <1>5, Nodes
  <2>2. \A s : AtNode(d, s, n) <=> s \in 1..m /\ split[s].node = n
    BY <1>6, <1>8, <1>9 DEF AtNode
  <2> QED
    BY <1>5, <2>1, <2>2 DEF At
<1> QED
  BY <1>11, <1>12 DEF d, shards, New, split, out, hops

\* Nothing is at a node of a bundle without shards.
LEMMA NoShards ==
    ASSUME NEW d, d.shards = <<>>, NEW n
    PROVE  At(n, d) = {} /\ Cardinality(At(n, d)) = 0
<1>1. At(n, d) = {}
  BY DEF At, AtNode
<1> QED
  BY <1>1, FS_EmptySet

\* Slots that are free, and bundles that were refused.
LEMMA EmptyIsGood ==
    ASSUME NEW phase \in {"idle", "refused"}
    PROVE  GoodBundle(BundleOf(phase, <<>>, <<>>, 0))
<1> DEFINE d == BundleOf(phase, <<>>, <<>>, 0)
<1>1. d.phase = phase /\ d.shards = <<>> /\ d.out = <<>>
  BY DEF BundleOf
<1>2. <<>> \in Seq(ShardSet) /\ DOMAIN <<>> = {} /\ Len(<<>>) <= Cardinality(Ids)
  BY Nodes
<1> HIDE DEF d
<1>3. GoodBundle(d)
  BY <1>1, <1>2 DEF GoodBundle, Phases
<1> QED
  BY <1>3 DEF d

\* All shards of a new bundle are sent, and counted, at once.
LEMMA ArriveCounts ==
    ASSUME CountInv, NEW b \in Bundles, Arrive(b)
    PROVE  CountInv'
<1>1. bundle[b].shards = <<>>
  BY DEF CountInv, GoodBundle, Arrive
<1>2. \A n \in Ids : Cardinality(At(n, bundle[b])) = 0
  BY <1>1, NoShards
<1>3. inflight \in [Ids -> Nat]
  BY DEF CountInv
<1>4. CASE bundle' = [bundle EXCEPT ![b] = Refused] /\ UNCHANGED inflight
  <2>1. GoodBundle(Refused) /\ Refused.shards = <<>>
    BY EmptyIsGood DEF Refused, BundleOf
  <2>2. \A n \in Ids : Cardinality(At(n, Refused)) = 0
    BY <2>1, NoShards
  <2> HIDE DEF Refused
  <2> QED
    BY <1>2, <1>3, <1>4, <2>1, <2>2, OneChanges
<1>5. ASSUME HealthyNodes # {}, NEW inputs \in 1..MaxInputs, NEW order \in ByLatency,
             NEW latency \in [HealthyNodes -> Latencies],
             LET split == Split(inputs, order, latency)
                 New(slice) == ShardOf(slice, Candidates(order, slice.node), {}, "pending")
             IN /\ bundle' = [bundle EXCEPT ![b] =
                      BundleOf("embedding", [s \in DOMAIN split |-> New(split[s])],
                               [i \in 1..inputs |-> 0], Least(Len(order), MaxHops))]
                /\ inflight' = [n \in Ids |-> inflight[n] +
                      Cardinality({s \in DOMAIN split : split[s].node = n})]
      PROVE  CountInv'
  <2> DEFINE split == Split(inputs, order, latency)
             New(slice) == ShardOf(slice, Candidates(order, slice.node), {}, "pending")
             d == BundleOf("embedding", [s \in DOMAIN split |-> New(split[s])],
                           [i \in 1..inputs |-> 0], Least(Len(order), MaxHops))
  <2>1. /\ bundle' = [bundle EXCEPT ![b] = d]
        /\ inflight' = [n \in Ids |-> inflight[n] +
                          Cardinality({s \in DOMAIN split : split[s].node = n})]
    BY <1>5
  <2>2. /\ GoodBundle(d)
        /\ \A n \in Ids : At(n, d) = {s \in DOMAIN split : split[s].node = n}
    BY <1>5, SplitIsGood
  <2> HIDE DEF d, split
  <2>3. ASSUME NEW n \in Ids
        PROVE  /\ inflight'[n] \in Nat
               /\ inflight'[n] + Cardinality(At(n, bundle[b])) = inflight[n] + Cardinality(At(n, d))
    <3>1. inflight'[n] = inflight[n] + Cardinality(At(n, d))
      BY <2>1, <2>2
    <3>2. Cardinality(At(n, d)) \in Nat
      BY AtIsFinite
    <3> QED
      BY <1>2, <1>3, <3>1, <3>2
  <2>4. inflight' \in [Ids -> Nat]
    <3>1. inflight' = [n \in Ids |-> inflight'[n]]
      BY <2>1
    <3> QED
      BY <2>3, <3>1
  <2> QED
    BY <2>1, <2>2, <2>3, <2>4, OneChanges
<1> QED
  BY <1>4, <1>5 DEF Arrive

----------------------------------------------------------------------------
(* Every step *)

\* Nothing is in flight.
LEMMA CountInit == Init => CountInv
<1> SUFFICES ASSUME Init PROVE CountInv
  OBVIOUS
<1>1. /\ bundle = [b \in Bundles |-> Idle] /\ inflight = [n \in Ids |-> 0]
      /\ \A b \in Bundles : bundle[b] = Idle
  BY DEF Init
<1>2. GoodBundle(Idle) /\ Idle.shards = <<>>
  BY EmptyIsGood DEF Idle, BundleOf
<1> HIDE DEF Idle
<1>3. ASSUME NEW n \in Ids PROVE Work(n, bundle) = {}
  BY <1>1, <1>2 DEF Work, AtNode
<1>4. \A n \in Ids : Cardinality(Work(n, bundle)) = 0
  BY <1>3, FS_EmptySet
<1> QED
  BY <1>1, <1>2, <1>4 DEF CountInv, IsMap

\* A slot is free when its last shard is over.
LEMMA LeaveCounts ==
    ASSUME CountInv, NEW b \in Bundles, Leave(b)
    PROVE  CountInv'
<1>1. bundle' = [bundle EXCEPT ![b] = Idle] /\ UNCHANGED inflight /\ Sending(b) = {}
  BY DEF Leave, routerVars
<1>2. GoodBundle(Idle) /\ Idle.shards = <<>>
  BY EmptyIsGood DEF Idle, BundleOf
<1> HIDE DEF Idle
<1>3. ASSUME NEW n \in Ids
      PROVE  Cardinality(At(n, bundle[b])) = 0 /\ Cardinality(At(n, Idle)) = 0
  <2>1. At(n, bundle[b]) = {}
    BY <1>1 DEF Sending, At, AtNode
  <2> QED
    BY <1>2, <2>1, NoShards, FS_EmptySet
<1> QED
  BY <1>1, <1>2, <1>3, OneChanges DEF CountInv

\* No step loses a shard or counts it wrong.
LEMMA CountNext == CountInv /\ [Next]_vars => CountInv'
<1> SUFFICES ASSUME CountInv, [Next]_vars PROVE CountInv'
  OBVIOUS
<1>1. ASSUME NEW b \in Bundles, Arrive(b) PROVE CountInv'
  BY <1>1, ArriveCounts
<1>2. ASSUME NEW b \in Bundles, Progress(b) PROVE CountInv'
  <2>1. PICK s \in Sending(b), kind \in Answers : CallEnds(b, s, kind)
    BY <1>2 DEF Progress
  <2>2. PICK d, new : GoodBundle(d) /\ Hopped(b, s, d, new)
    BY <2>1, CallStaysGood DEF CountInv
  <2>3. \A n \in Ids :
          inflight'[n] + Cardinality(At(n, bundle[b])) = inflight[n] + Cardinality(At(n, d))
    BY <2>2, HopCounts
  <2>4. inflight' \in [Ids -> Nat]
    <3>1. PICK n \in Ids : TRUE
      <4>1. bundle[b].shards[s].candidates \in Seq(Ids) /\ bundle[b].shards[s].candidates # <<>>
        BY SendingIs DEF CountInv, GoodShard, ShardSet
      <4> QED
        BY <4>1
    <3> QED
      BY <2>2, <3>1, HopCounts
  <2> QED
    BY <2>2, <2>3, <2>4, OneChanges DEF Hopped
<1>3. ASSUME NEW b \in Bundles, Leave(b) PROVE CountInv'
  BY <1>3, LeaveCounts
<1>4. CASE (HealthStep /\ UNCHANGED bundle) \/ UNCHANGED vars
  BY <1>4 DEF HealthStep, vars, routerVars, CountInv, IsMap, Work
<1> QED
  BY <1>1, <1>2, <1>3, <1>4 DEF Next

\* handleEmbedBundle and embedShardWithFailover: the in-flight counter of every node
\* is the number of shards that are at it, shards of failed bundles included.
THEOREM ShardsAreCounted == Spec => []InflightExact
<1>1. CountInv => InflightExact
  <2> SUFFICES ASSUME CountInv, NEW n \in Ids
               PROVE  Work(n, bundle) =
                        {p \in Bundles \X (1..Cardinality(Ids)) :
                           /\ p[2] \in Sending(p[1])
                           /\ Head(bundle[p[1]].shards[p[2]].candidates) = n}
    BY DEF InflightExact, CountInv
  <2> QED
    BY DEF Work, AtNode, Sending
<1> QED
  BY <1>1, CountInit, CountNext, PTL DEF Spec

\* The response of POST /embed/bundle holds the vector of every input at its place,
\* whatever the split and in whichever order the shards end.
THEOREM VectorsInPlace == Spec => []ReassembledInOrder
<1>1. CountInv => ReassembledInOrder
  <2> SUFFICES ASSUME CountInv, NEW b \in Bundles, bundle[b].phase = "ok",
                      NEW i \in DOMAIN bundle[b].out
               PROVE  bundle[b].out[i] = i
    BY DEF ReassembledInOrder
  <2>1. GoodBundle(bundle[b])
    BY DEF CountInv
  <2>2. PICK s \in DOMAIN bundle[b].shards :
           bundle[b].shards[s].start <= i /\ i <= bundle[b].shards[s].end
    BY <2>1 DEF GoodBundle
  <2>3. bundle[b].shards[s].outcome = "served"
        /\ GoodShard(bundle[b].shards[s], bundle[b].out, bundle[b].hops)
    BY <2>1 DEF GoodBundle
  <2> QED
    BY <2>2, <2>3 DEF GoodShard
<1> QED
  BY <1>1, CountInit, CountNext, PTL DEF Spec

\* A bundle fails only when one of its shards used up the failover it is owed, on
\* different nodes, or was given the wrong number of vectors.
THEOREM FailsForAReason == Spec => []FailureJustified
<1>1. CountInv => FailureJustified
  <2> SUFFICES ASSUME CountInv, NEW b \in Bundles, bundle[b].phase = "failed"
               PROVE  \E s \in DOMAIN bundle[b].shards :
                        LET shard == bundle[b].shards[s]
                        IN  \/ shard.outcome = "mismatch"
                            \/ /\ shard.outcome = "exhausted"
                               /\ Cardinality(shard.tried) = bundle[b].hops
    BY DEF FailureJustified
  <2> DEFINE shards == bundle[b].shards
             hops == bundle[b].hops
  <2>1. GoodBundle(bundle[b])
    BY DEF CountInv
  <2>2. PICK s \in DOMAIN shards : shards[s].outcome \in {"mismatch", "exhausted"}
    BY <2>1 DEF GoodBundle
  <2>3. GoodShard(shards[s], bundle[b].out, hops)
    BY <2>1 DEF GoodBundle
  <2> HIDE DEF shards, hops
  <2>4. ASSUME shards[s].outcome = "exhausted" PROVE Cardinality(shards[s].tried) = hops
    <3>1. /\ shards[s].candidates = <<>> /\ shards[s].tried \in SUBSET Ids
          /\ Cardinality(shards[s].tried) + Len(shards[s].candidates) = hops
      BY <2>3, <2>4 DEF GoodShard, ShardSet
    <3>2. Cardinality(shards[s].tried) \in Nat
      BY <3>1, BundleAssumption, FS_Subset, FS_CardinalityType
    <3> QED
      BY <3>1, <3>2
  <2> QED
    BY <2>2, <2>4 DEF shards, hops
<1> QED
  BY <1>1, CountInit, CountNext, PTL DEF Spec

\* Promise.all settles once: what the other shards of a failed bundle still do does
\* not change what the client was told.
THEOREM AnswersOnce == Spec => AnsweredOnce
<1>1. CountInv /\ [Next]_vars =>
        [\A b \in Bundles :
           bundle[b].phase \in {"ok", "failed", "refused"} =>
              bundle'[b].phase \in {bundle[b].phase, "idle"}]_vars
  <2> SUFFICES ASSUME CountInv, [Next]_vars, NEW b \in Bundles,
                      bundle[b].phase \in {"ok", "failed", "refused"}
               PROVE  bundle'[b].phase \in {bundle[b].phase, "idle"}
    OBVIOUS
  <2>0. bundle = [c \in Bundles |-> bundle[c]]
    BY DEF CountInv, IsMap
  <2>1. ASSUME NEW c \in Bundles, Arrive(c) PROVE bundle'[b].phase = bundle[b].phase
    <3>1. c # b
      BY <2>1 DEF Arrive
    <3>2. \E d : bundle' = [bundle EXCEPT ![c] = d]
      BY <2>1 DEF Arrive
    <3>3. bundle'[b] = bundle[b]
      BY <2>0, <3>1, <3>2
    <3> QED
      BY <3>3
  <2>2. ASSUME NEW c \in Bundles, Progress(c) PROVE bundle'[b].phase = bundle[b].phase
    <3>1. PICK s \in Sending(c), kind \in Answers : CallEnds(c, s, kind)
      BY <2>2 DEF Progress
    <3>2. PICK d, new : Hopped(c, s, d, new)
      BY <3>1, CallStaysGood DEF CountInv
    <3>3. /\ bundle' = [bundle EXCEPT ![c] = d]
          /\ bundle[c].phase # "embedding" => d.phase = bundle[c].phase
      BY <3>2 DEF Hopped
    <3>4. bundle'[b] = IF c = b THEN d ELSE bundle[b]
      BY <2>0, <3>3
    <3> QED
      BY <3>3, <3>4
  <2>3. ASSUME NEW c \in Bundles, Leave(c) PROVE bundle'[b].phase \in {bundle[b].phase, "idle"}
    <3>1. bundle' = [bundle EXCEPT ![c] = Idle] /\ Idle.phase = "idle"
      BY <2>3 DEF Leave, Idle, BundleOf
    <3>2. bundle'[b] = IF c = b THEN Idle ELSE bundle[b]
      BY <2>0, <3>1
    <3> QED
      BY <3>1, <3>2
  <2>4. CASE (HealthStep /\ UNCHANGED bundle) \/ UNCHANGED vars
    BY <2>4 DEF vars
  <2> QED
    BY <2>1, <2>2, <2>3, <2>4 DEF Next
<1> QED
  BY <1>1, CountInit, CountNext, PTL DEF Spec, AnsweredOnce

----------------------------------------------------------------------------
(* The loop *)

\* When the slices after the k-th are empty, the first k make all the shards.
SkipsEmpty(all, shards) ==
    \A k \in 0..Len(all) :
      (\A j \in (k + 1)..Len(all) : ~(all[j].start <= all[j].end)) =>
         shards = FoldLeft(WithShard, <<>>, SubSeq(all, 1, k))

Skipped == INSTANCE SequenceFacts WITH Op <- WithShard, Base <- <<>>,
                                       Items <- Slices, Holds <- SkipsEmpty

\* The same fold, for another claim.
LEMMA SkippedIsFold == \A seq : FoldLeft(WithShard, <<>>, seq) = Skipped!Fold(seq)
BY DEF Skipped!Fold, FoldLeft, Skipped!FoldLeft, MapThenFoldSet, Skipped!MapThenFoldSet,
       Max, Skipped!Max

\* Empty slices at the end make no difference.
LEMMA EmptySkipped ==
    ASSUME NEW all \in Seq(Slices)
    PROVE  SkipsEmpty(all, FoldLeft(WithShard, <<>>, all))
<1>1. SkipsEmpty(<<>>, <<>>)
  <2>1. \A k \in 0..Len(<<>>) : SubSeq(<<>>, 1, k) = <<>>
    OBVIOUS
  <2>2. FoldLeft(WithShard, <<>>, <<>>) = <<>>
    BY Skipped!FoldEmpty, SkippedIsFold
  <2> QED
    BY <2>1, <2>2 DEF SkipsEmpty
<1>2. ASSUME NEW seq \in Seq(Slices), NEW x \in Slices, SkipsEmpty(seq, Skipped!Fold(seq))
      PROVE  SkipsEmpty(Append(seq, x), WithShard(Skipped!Fold(seq), x))
  <2> DEFINE longer == Append(seq, x)
             m == Len(seq)
             kept == Skipped!Fold(seq)
             after == WithShard(kept, x)
  <2>1. /\ m \in Nat /\ Len(longer) = m + 1 /\ longer[m + 1] = x
        /\ \A j \in 1..m : longer[j] = seq[j]
    OBVIOUS
  <2>2. \A k \in 0..m : SubSeq(longer, 1, k) = SubSeq(seq, 1, k)
    OBVIOUS
  <2>3. SubSeq(longer, 1, m + 1) = longer
    OBVIOUS
  <2>4. FoldLeft(WithShard, <<>>, longer) = after
    BY Skipped!FoldAppend, SkippedIsFold
  <2>5. \A k \in 0..m : (\A j \in (k + 1)..m : ~(seq[j].start <= seq[j].end)) =>
                           kept = FoldLeft(WithShard, <<>>, SubSeq(seq, 1, k))
    BY <1>2 DEF SkipsEmpty
  <2> HIDE DEF longer, m, kept, after
  <2>6. ASSUME NEW k \in 0..(m + 1),
               \A j \in (k + 1)..(m + 1) : ~(longer[j].start <= longer[j].end)
        PROVE  after = FoldLeft(WithShard, <<>>, SubSeq(longer, 1, k))
    <3>1. CASE k = m + 1
      BY <2>3, <2>4, <3>1
    <3>2. CASE k # m + 1
      <4>1. k \in 0..m /\ m + 1 \in (k + 1)..(m + 1)
        BY <2>1, <3>2
      <4>2. ~(x.start <= x.end)
        BY <2>1, <2>6, <4>1
      <4>3. after = kept
        BY <4>2 DEF WithShard, after
      <4>4. \A j \in (k + 1)..m : ~(seq[j].start <= seq[j].end)
        <5>1. \A j \in (k + 1)..m : j \in 1..m /\ j \in (k + 1)..(m + 1)
          BY <2>1, <4>1
        <5> QED
          BY <2>1, <2>6, <5>1
      <4> QED
        BY <2>2, <2>5, <4>1, <4>3, <4>4
    <3> QED
      BY <3>1, <3>2
  <2> QED
    BY <2>1, <2>6 DEF SkipsEmpty, longer, after, kept
<1>3. \A seq \in Seq(Slices) : SkipsEmpty(seq, Skipped!Fold(seq))
  BY <1>1, <1>2, Skipped!FoldInduction
<1> QED
  BY <1>3, SkippedIsFold

loopWant == Want(length, byPlace, avgLatencyMs)
loopSlices == SlicesFor(length, byPlace, loopWant)

\* Before node nextNode the cursor is where the nodes before it end, and the shards are
\* those of the slices of these nodes.
LoopInv ==
    /\ length \in Nat \ {0}
    /\ avgLatencyMs \in Seq(Nat) /\ avgLatencyMs # <<>>
    /\ nextNode \in 1..(Len(avgLatencyMs) + 1)
    /\ cursor = EndOf(length, loopWant, nextNode - 1)
    /\ settled \in BOOLEAN /\ (settled => ~Looping)
    /\ cutShards = IF settled THEN FoldLeft(WithShard, <<>>, loopSlices)
                    ELSE FoldLeft(WithShard, <<>>, SubSeq(loopSlices, 1, nextNode - 1))

\* What the loop divides is what the lemmas about Split are about.
LEMMA LoopTerms ==
    ASSUME length \in Nat \ {0}, avgLatencyMs \in Seq(Nat), avgLatencyMs # <<>>
    PROVE  /\ byPlace \in Seq(Names) /\ byPlace # <<>> /\ Len(byPlace) = Len(avgLatencyMs)
           /\ \A k \in DOMAIN byPlace : byPlace[k] = k /\ avgLatencyMs[byPlace[k]] \in Nat
           /\ loopWant \in Seq(Nat) /\ Len(loopWant) = Len(avgLatencyMs) /\ loopWant # <<>>
           /\ Split(length, byPlace, avgLatencyMs) = FoldLeft(WithShard, <<>>, loopSlices)
           /\ loopSlices \in Seq(Slices) /\ Len(loopSlices) = Len(avgLatencyMs)
           /\ \A i \in 1..Len(avgLatencyMs) :
                loopSlices[i] = Slice(length, byPlace, loopWant, i)
<1> DEFINE n == Len(avgLatencyMs)
<1>1. n \in Nat /\ n # 0 /\ DOMAIN avgLatencyMs = 1..n /\ \A k \in 1..n : avgLatencyMs[k] \in Nat
  OBVIOUS
<1>2. byPlace = [i \in 1..n |-> i] /\ \A i \in 1..n : i \in Names
  BY <1>1 DEF byPlace, Names
<1> HIDE DEF n
<1>3. byPlace \in Seq(Names) /\ Len(byPlace) = n /\ DOMAIN byPlace = 1..n
  <2>1. byPlace \in [1..n -> Names]
    BY <1>2
  <2> QED
    BY <1>1, <1>2, <2>1
<1>4. byPlace # <<>> /\ \A k \in 1..n : byPlace[k] = k /\ avgLatencyMs[byPlace[k]] \in Nat
  BY <1>1, <1>2, <1>3
<1>5. /\ loopWant \in Seq(Nat) /\ Len(loopWant) = n
      /\ Split(length, byPlace, avgLatencyMs) = FoldLeft(WithShard, <<>>, loopSlices)
  BY <1>3, <1>4, WantsAre DEF loopWant, loopSlices
<1>6. /\ loopSlices \in Seq(Slices) /\ Len(loopSlices) = n
      /\ \A i \in 1..n : loopSlices[i] = Slice(length, byPlace, loopWant, i)
  BY <1>3, <1>4, <1>5, SlicesAre DEF loopSlices
<1>7. loopWant # <<>>
  BY <1>1, <1>5
<1> QED
  BY <1>3, <1>4, <1>5, <1>6, <1>7 DEF n

\* The loop starts with nothing.
LEMMA LoopStarts == LoopInit => LoopInv
<1> SUFFICES ASSUME LoopInit PROVE LoopInv
  OBVIOUS
<1>1. /\ length \in 1..MaxLength /\ nextNode = 1 /\ cursor = 0
      /\ cutShards = <<>> /\ settled = FALSE
  BY DEF LoopInit
<1>2. PICK n \in 1..MaxNodes : avgLatencyMs \in [1..n -> 0..MaxLatency]
  BY DEF LoopInit
<1>3. avgLatencyMs \in Seq(Nat) /\ Len(avgLatencyMs) = n
  <2>1. avgLatencyMs \in [1..n -> Nat] /\ n \in Nat
    BY <1>2
  <2> QED
    BY <2>1
<1>4. length \in Nat \ {0}
  BY <1>1, SplitAssumption
<1>5. avgLatencyMs # <<>> /\ nextNode \in 1..(Len(avgLatencyMs) + 1)
  BY <1>1, <1>2, <1>3
<1>6. cursor = EndOf(length, loopWant, nextNode - 1)
  <2>1. nextNode - 1 = 0
    BY <1>1
  <2> QED
    BY <1>1, <1>3, <1>4, <1>5, <2>1, LoopTerms, EndOfIs
<1>7. cutShards = FoldLeft(WithShard, <<>>, SubSeq(loopSlices, 1, nextNode - 1))
  <2>1. SubSeq(loopSlices, 1, nextNode - 1) = <<>>
    BY <1>1, <1>3, <1>4, <1>5, LoopTerms
  <2> QED
    BY <1>1, <2>1, Sliced!FoldEmpty, ShardsAreFold
<1> QED
  BY <1>1, <1>3, <1>4, <1>5, <1>6, <1>7 DEF LoopInv

\* An iteration makes the shard of its slice.
LEMMA IterateGoesOn ==
    ASSUME LoopInv, Iterate, ~settled
    PROVE  LoopInv'
<1> DEFINE n == Len(avgLatencyMs)
           k == nextNode
           slice == loopSlices[k]
           before == SubSeq(loopSlices, 1, k - 1)
           end == EndOf(length, loopWant, k)
<1>1. /\ length \in Nat \ {0} /\ avgLatencyMs \in Seq(Nat) /\ avgLatencyMs # <<>>
      /\ n \in Nat /\ k \in 1..(n + 1)
      /\ cursor = EndOf(length, loopWant, k - 1)
      /\ cutShards = FoldLeft(WithShard, <<>>, before)
  BY DEF LoopInv
<1>2. k <= n /\ cursor < length
  BY DEF Iterate, Looping
<1>3. /\ UNCHANGED <<length, avgLatencyMs, settled>> /\ nextNode' = k + 1
  BY DEF Iterate
<1>4. UNCHANGED <<byPlace, loopWant, loopSlices>>
  BY <1>3 DEF byPlace, loopWant, loopSlices
<1>5. /\ loopWant \in Seq(Nat) /\ Len(loopWant) = n /\ loopWant # <<>>
      /\ loopSlices \in Seq(Slices) /\ Len(loopSlices) = n
      /\ \A i \in 1..n : loopSlices[i] = Slice(length, byPlace, loopWant, i)
      /\ \A i \in 1..n : byPlace[i] = i
  <2>1. /\ byPlace \in Seq(Names) /\ Len(byPlace) = n
        /\ \A i \in DOMAIN byPlace : byPlace[i] = i
    BY <1>1, LoopTerms
  <2>2. \A i \in 1..n : byPlace[i] = i
    BY <2>1
  <2> QED
    BY <1>1, <2>2, LoopTerms
<1> HIDE DEF n, k
<1>6. k \in 1..n /\ k \in Nat
  BY <1>1, <1>2
<1>7. /\ cursor \in Nat /\ end \in Nat
      /\ end = IF k = n \/ cursor + loopWant[k] > length
               THEN length ELSE cursor + loopWant[k]
  <2>1. length \in Nat
    BY <1>1
  <2>2. /\ end \in Nat /\ EndOf(length, loopWant, k - 1) \in Nat
        /\ EndOf(length, loopWant, k - 1) < length =>
             end = IF \/ k = Len(loopWant)
                      \/ EndOf(length, loopWant, k - 1) + loopWant[k] > length
                   THEN length ELSE EndOf(length, loopWant, k - 1) + loopWant[k]
    <3>1. k \in 1..Len(loopWant) /\ loopWant \in Seq(Nat) /\ loopWant # <<>>
      BY <1>5, <1>6
    <3> QED
      BY <2>1, <3>1, EndOfIs
  <2> HIDE DEF end
  <2> QED
    BY <1>1, <1>2, <1>5, <2>2
<1>8. cursor' = end
      /\ cutShards' = IF end > cursor
                       THEN Append(cutShards, [node |-> k, start |-> cursor + 1, end |-> end])
                       ELSE cutShards
  <2>1. Want(length, byPlace, avgLatencyMs) = loopWant
    BY DEF loopWant
  <2>2. End(cursor + loopWant[k]) = end
    BY <1>7 DEF End, n, k
  <2> HIDE DEF end
  <2> QED
    BY <2>1, <2>2 DEF Iterate, Shard, k
<1>9. slice = [node |-> k, start |-> cursor + 1, end |-> end]
  BY <1>1, <1>5, <1>6 DEF Slice
<1>10. cutShards' = WithShard(cutShards, slice)
  <2>1. slice.start = cursor + 1 /\ slice.end = end
    BY <1>9
  <2>2. slice.start <= slice.end <=> end > cursor
    BY <1>7, <2>1
  <2> QED
    BY <1>8, <1>9, <2>2 DEF WithShard
<1>11. /\ before \in Seq(Slices) /\ slice \in Slices
       /\ SubSeq(loopSlices, 1, k) = Append(before, slice)
  <2>1. slice \in Slices
    BY <1>5, <1>6
  <2>2. before \in Seq(Slices)
    BY <1>5, <1>6
  <2>3. SubSeq(loopSlices, 1, k) = before \o <<slice>>
    <3>1. 1 \in 1..Len(loopSlices) /\ k \in 1..Len(loopSlices)
      BY <1>5, <1>6
    <3> QED
      BY <1>5, <3>1, SubSeqRecursiveSecond
  <2> HIDE DEF before, slice
  <2>4. Append(before, slice) = before \o <<slice>>
    BY <2>1, <2>2, AppendIsConcat
  <2> QED
    BY <2>1, <2>2, <2>3, <2>4
<1> HIDE DEF before, slice
<1>12. cutShards' = FoldLeft(WithShard, <<>>, SubSeq(loopSlices, 1, k))
  BY <1>1, <1>10, <1>11, Sliced!FoldAppend, ShardsAreFold
<1>13. nextNode' - 1 = k /\ nextNode' \in 1..(n + 1)
  <2>1. nextNode' = k + 1
    BY <1>3
  <2> QED
    BY <1>1, <1>6, <2>1
<1>14. cutShards' = FoldLeft(WithShard, <<>>, SubSeq(loopSlices', 1, nextNode' - 1))
  BY <1>4, <1>12, <1>13
<1>15. cursor' = EndOf(length', loopWant', nextNode' - 1)
  BY <1>3, <1>4, <1>8, <1>13
<1>16. Len(avgLatencyMs') = n
  BY <1>3 DEF n
<1> QED
  BY <1>1, <1>3, <1>13, <1>14, <1>15, <1>16 DEF LoopInv

\* There never is a tail to give away: the last node takes what is left.
LEMMA FinishEnds ==
    ASSUME LoopInv, Finish
    PROVE  LoopInv'
<1> DEFINE n == Len(avgLatencyMs)
           k == nextNode - 1
<1>1. /\ length \in Nat \ {0} /\ avgLatencyMs \in Seq(Nat) /\ avgLatencyMs # <<>>
      /\ n \in Nat /\ nextNode \in 1..(n + 1)
      /\ cursor = EndOf(length, loopWant, k)
      /\ cutShards = FoldLeft(WithShard, <<>>, SubSeq(loopSlices, 1, k))
  BY DEF LoopInv, Finish
<1>2. settled' = TRUE /\ UNCHANGED <<length, avgLatencyMs, nextNode, cursor>>
  BY DEF Finish
<1>3. UNCHANGED <<byPlace, loopWant, loopSlices>>
  BY <1>2 DEF byPlace, loopWant, loopSlices
<1>4. /\ loopWant \in Seq(Nat) /\ Len(loopWant) = n /\ loopWant # <<>>
      /\ loopSlices \in Seq(Slices) /\ Len(loopSlices) = n
      /\ \A i \in 1..n : loopSlices[i] = Slice(length, byPlace, loopWant, i)
  BY <1>1, LoopTerms
<1>5. ~(nextNode <= n /\ cursor < length)
  BY DEF Finish, Looping
<1>6. cutShards' = IF cursor = length THEN cutShards ELSE cutShards'
  BY DEF Finish
<1> HIDE DEF n, k
<1>7. k \in 0..n /\ (nextNode <= n \/ k = n)
  BY <1>1 DEF k
<1> DEFINE EndAt(i) == EndOf(length, loopWant, i)
<1>8. /\ EndAt(0) = 0 /\ EndAt(n) = length
      /\ \A i \in 1..n : /\ EndAt(i) \in Nat /\ EndAt(i - 1) \in Nat
                         /\ EndAt(i - 1) <= EndAt(i) /\ EndAt(i) <= length
  BY <1>1, <1>4, EndOfIs
<1> HIDE DEF EndAt
<1>9. cursor = EndAt(k)
  BY <1>1 DEF EndAt
<1>10. cursor = length
  <2>1. CASE k = n
    BY <1>8, <1>9, <2>1
  <2>2. CASE k # n
    <3>1. ~(cursor < length)
      BY <1>5, <1>7, <2>2
    <3>2. cursor \in Nat /\ cursor <= length
      <4>1. CASE k = 0
        BY <1>1, <1>8, <1>9, <4>1
      <4>2. CASE k # 0
        <5>1. k \in 1..n
          BY <1>1, <1>7, <4>2
        <5> QED
          BY <1>8, <1>9, <5>1
      <4> QED
        BY <4>1, <4>2
    <3> QED
      BY <1>1, <3>1, <3>2
  <2> QED
    BY <2>1, <2>2
<1>11. ASSUME NEW i \in k..n PROVE EndAt(i) = length
  <2> DEFINE S == {j \in k..n : EndAt(j) # length}
  <2>1. S \in SUBSET Nat
    BY <1>1, <1>7
  <2>2. ASSUME S # {} PROVE FALSE
    <3>1. PICK j \in S : \A m \in S : j <= m
      <4> HIDE DEF S
      <4> QED
        BY <2>1, <2>2, Added!LeastNumber
    <3>2. j \in k..n /\ EndAt(j) # length /\ j # k
      BY <1>9, <1>10
    <3>3. j \in 1..n /\ j - 1 \in k..n /\ j - 1 < j
      BY <1>1, <1>7, <3>2
    <3>4. EndAt(j - 1) = length
      BY <2>1, <3>1, <3>3
    <3>5. EndAt(j) \in Nat /\ EndAt(j - 1) <= EndAt(j) /\ EndAt(j) <= length
      BY <1>8, <3>3
    <3> QED
      BY <1>1, <3>2, <3>4, <3>5
  <2> QED
    BY <2>2
<1>12. ASSUME NEW j \in (k + 1)..n PROVE ~(loopSlices[j].start <= loopSlices[j].end)
  <2>1. j \in 1..n /\ j \in k..n /\ j - 1 \in k..n
    BY <1>1, <1>7
  <2>2. loopSlices[j].start = EndAt(j - 1) + 1 /\ loopSlices[j].end = EndAt(j)
    BY <1>4, <2>1 DEF Slice, EndAt
  <2>3. EndAt(j - 1) = length /\ EndAt(j) = length
    BY <1>11, <2>1
  <2> QED
    BY <1>1, <2>2, <2>3
<1>13. FoldLeft(WithShard, <<>>, loopSlices) = cutShards
  <2>1. SkipsEmpty(loopSlices, FoldLeft(WithShard, <<>>, loopSlices))
    BY <1>4, EmptySkipped
  <2> QED
    BY <1>1, <1>4, <1>7, <1>12, <2>1 DEF SkipsEmpty
<1>14. cutShards' = FoldLeft(WithShard, <<>>, loopSlices')
  BY <1>3, <1>6, <1>10, <1>13
<1>15. Len(avgLatencyMs') = n /\ nextNode' = nextNode
  BY <1>2 DEF n
<1>16. cursor' = EndOf(length', loopWant', nextNode' - 1)
  BY <1>1, <1>2, <1>3 DEF k
<1>17. ~Looping'
  BY <1>2, <1>5 DEF Looping, n
<1> QED
  BY <1>1, <1>2, <1>14, <1>15, <1>16, <1>17 DEF LoopInv

\* Every step of the loop.
LEMMA LoopGoesOn == LoopInv /\ [LoopNext]_loopVars => LoopInv'
<1> SUFFICES ASSUME LoopInv, [LoopNext]_loopVars PROVE LoopInv'
  OBVIOUS
<1>1. CASE Iterate
  <2>1. ~settled
    BY <1>1 DEF Iterate, LoopInv
  <2> QED
    BY <1>1, <2>1, IterateGoesOn
<1>2. CASE Finish
  BY <1>2, FinishEnds
<1>3. CASE UNCHANGED loopVars
  BY <1>3 DEF loopVars, Looping, LoopInv, byPlace, loopWant, loopSlices
<1> QED
  BY <1>1, <1>2, <1>3 DEF LoopNext

\* The loop of handleEmbedBundle computes Split: leaving it early, when nothing is left,
\* leaves out nothing, and the code for a tail after it is never needed.
THEOREM LoopComputesSplit == LoopSpec => []LoopIsSplit
<1>1. LoopInv => LoopIsSplit
  <2> SUFFICES ASSUME LoopInv, settled
               PROVE  cutShards = Split(length, byPlace, avgLatencyMs)
    BY DEF LoopIsSplit
  <2>1. Split(length, byPlace, avgLatencyMs) = FoldLeft(WithShard, <<>>, loopSlices)
    BY LoopTerms DEF LoopInv
  <2> QED
    BY <2>1 DEF LoopInv
<1> QED
  BY <1>1, LoopStarts, LoopGoesOn, PTL DEF LoopSpec

\* The loop of handleEmbedBundle cuts the inputs into shards that are in order, none
\* empty, with every input in one of them.
THEOREM LoopPartitions == LoopSpec => []ShardsPartitionInputs
<1>1. LoopInv => ShardsPartitionInputs
  <2> SUFFICES ASSUME LoopInv, settled PROVE ShardsPartitionInputs
    BY DEF ShardsPartitionInputs
  <2>1. Partition(cutShards, length)
    <3>1. /\ byPlace \in Seq(Names) /\ byPlace # <<>>
          /\ \A k \in DOMAIN byPlace : avgLatencyMs[byPlace[k]] \in Nat
          /\ cutShards = Split(length, byPlace, avgLatencyMs)
      BY LoopTerms DEF LoopInv
    <3> QED
      BY <3>1, SplitPartitions DEF LoopInv
  <2>2. /\ cutShards \in Seq(Slices) /\ cutShards # <<>>
        /\ Chained(cutShards) /\ EndsAt(cutShards) = length
        /\ \A s \in DOMAIN cutShards : cutShards[s].start <= cutShards[s].end
    BY <2>1 DEF Partition
  <2> DEFINE n == Len(cutShards)
  <2>3. n \in Nat /\ n # 0 /\ DOMAIN cutShards = 1..n
    BY <2>2
  <2>4. cutShards[n].end = length
    BY <2>2 DEF EndsAt
  <2> HIDE DEF n
  <2>5. cutShards[1].start = 1
    <3>1. 1 \in 1..n
      BY <2>3
    <3>2. cutShards[1].start = EndBefore(cutShards, 1) + 1
      BY <2>2, <2>3, <3>1 DEF Chained
    <3> QED
      BY <3>2 DEF EndBefore
  <2>6. ASSUME NEW s \in 2..n PROVE cutShards[s].start = cutShards[s - 1].end + 1
    <3>1. s \in 1..n /\ s # 1
      BY <2>3
    <3>2. cutShards[s].start = EndBefore(cutShards, s) + 1
      BY <2>2, <2>3, <3>1 DEF Chained
    <3> QED
      BY <3>1, <3>2 DEF EndBefore
  <2> QED
    BY <2>2, <2>4, <2>5, <2>6 DEF ShardsPartitionInputs, n
<1> QED
  BY <1>1, LoopStarts, LoopGoesOn, PTL DEF LoopSpec

----------------------------------------------------------------------------
(* What a node is given *)

\* want[i] is weight[i] / total of the inputs, rounded.
Rounded(inputs, want, weight) ==
    /\ want \in Seq(Nat) /\ weight \in Seq(Nat) /\ Len(want) = Len(weight)
    /\ Total(weight) \in Positive
    /\ \A i \in DOMAIN want : LET total == Total(weight) IN
         /\ 2 * (total * want[i]) <= 2 * (inputs * weight[i]) + total
         /\ 2 * (inputs * weight[i]) <= 2 * (total * want[i]) + total

\* The errors of the first nodes add up.
LEMMA ErrorsAdd ==
    ASSUME NEW inputs \in Nat, NEW want, NEW weight, Rounded(inputs, want, weight)
    PROVE  \A i \in 0..Len(want) :
             LET wanted == Total(SubSeq(want, 1, i))
                 due == Total(SubSeq(weight, 1, i))
                 total == Total(weight)
             IN  /\ 2 * (total * wanted) <= 2 * (inputs * due) + i * total
                 /\ 2 * (inputs * due) <= 2 * (total * wanted) + i * total
<1> DEFINE n == Len(want)
           total == Total(weight)
           Wanted(i) == Total(SubSeq(want, 1, i))
           Due(i) == Total(SubSeq(weight, 1, i))
           Near(i) == /\ 2 * (total * Wanted(i)) <= 2 * (inputs * Due(i)) + i * total
                      /\ 2 * (inputs * Due(i)) <= 2 * (total * Wanted(i)) + i * total
<1>1. /\ n \in Nat /\ total \in Nat /\ Len(weight) = n
      /\ want \in Seq(Nat) /\ weight \in Seq(Nat)
      /\ \A i \in 1..n : /\ want[i] \in Nat /\ weight[i] \in Nat
                         /\ 2 * (total * want[i]) <= 2 * (inputs * weight[i]) + total
                         /\ 2 * (inputs * weight[i]) <= 2 * (total * want[i]) + total
  <2>1. /\ want \in Seq(Nat) /\ weight \in Seq(Nat) /\ Len(weight) = n /\ n \in Nat
        /\ DOMAIN want = 1..n
    BY DEF Rounded
  <2>2. total \in Nat
    BY DEF Rounded, Positive
  <2>3. ASSUME NEW i \in 1..n
        PROVE  /\ 2 * (total * want[i]) <= 2 * (inputs * weight[i]) + total
               /\ 2 * (inputs * weight[i]) <= 2 * (total * want[i]) + total
    BY <2>1 DEF Rounded
  <2>4. \A i \in 1..n : want[i] \in Nat /\ weight[i] \in Nat
    BY <2>1
  <2> HIDE DEF n, total
  <2> QED
    BY <2>1, <2>2, <2>3, <2>4
<1>2. /\ Wanted(0) = 0 /\ \A i \in 0..n : Wanted(i) \in Nat
      /\ \A i \in 1..n : Wanted(i) = Wanted(i - 1) + want[i]
  BY <1>1, TotalOfFirst
<1>3. /\ Due(0) = 0 /\ \A i \in 0..n : Due(i) \in Nat
      /\ \A i \in 1..n : Due(i) = Due(i - 1) + weight[i]
  BY <1>1, TotalOfFirst
<1> HIDE DEF n, total, Wanted, Due
<1>4. Near(0)
  BY <1>1, <1>2, <1>3
<1>5. ASSUME NEW i \in 1..n, Near(i - 1) PROVE Near(i)
  <2> DEFINE a == total * Wanted(i - 1)
             b == inputs * Due(i - 1)
             c == total * want[i]
             d == inputs * weight[i]
             e == (i - 1) * total
  <2>1. /\ i - 1 \in Nat /\ i = (i - 1) + 1 /\ Wanted(i - 1) \in Nat /\ want[i] \in Nat
        /\ Due(i - 1) \in Nat /\ weight[i] \in Nat
        /\ Wanted(i) = Wanted(i - 1) + want[i] /\ Due(i) = Due(i - 1) + weight[i]
    <3>1. i - 1 \in 0..n /\ i - 1 \in Nat /\ i = (i - 1) + 1
      BY <1>1
    <3>2. want[i] \in Nat /\ weight[i] \in Nat
      BY <1>1
    <3>3. Wanted(i - 1) \in Nat /\ Due(i - 1) \in Nat
      BY <1>2, <1>3, <3>1
    <3>4. Wanted(i) = Wanted(i - 1) + want[i] /\ Due(i) = Due(i - 1) + weight[i]
      BY <1>2, <1>3
    <3> QED
      BY <3>1, <3>2, <3>3, <3>4
  <2>2. total * Wanted(i) = a + c /\ inputs * Due(i) = b + d
    <3>1. total * (Wanted(i - 1) + want[i]) = a + c
      BY <1>1, <2>1, Distributes
    <3>2. inputs * (Due(i - 1) + weight[i]) = b + d
      BY <2>1, Distributes
    <3> QED
      BY <2>1, <3>1, <3>2
  <2>3. i * total = e + total
    <3>1. /\ total * ((i - 1) + 1) = total * (i - 1) + total * 1
          /\ total * (i - 1) = e /\ total * 1 = total /\ total * i = i * total
      BY <1>1, <2>1, Distributes, Products
    <3> QED
      BY <2>1, <3>1
  <2>4. 2 * c <= 2 * d + total /\ 2 * d <= 2 * c + total
    BY <1>1
  <2>5. 2 * a <= 2 * b + e /\ 2 * b <= 2 * a + e
    BY <1>5
  <2>6. a \in Nat /\ b \in Nat /\ c \in Nat /\ d \in Nat /\ e \in Nat
    BY <1>1, <2>1, Products
  <2> HIDE DEF a, b, c, d, e
  <2>7. /\ 2 * (a + c) <= 2 * (b + d) + (e + total)
        /\ 2 * (b + d) <= 2 * (a + c) + (e + total)
    BY <1>1, <2>4, <2>5, <2>6
  <2> QED
    BY <2>2, <2>3, <2>7
<1> HIDE DEF Near
<1> DEFINE Bad == {k \in 0..n : ~Near(k)}
<1>6. ASSUME Bad # {} PROVE FALSE
  <2>1. Bad \in SUBSET Nat
    OBVIOUS
  <2>2. PICK k \in Bad : \A m \in Bad : k <= m
    <3> HIDE DEF Bad
    <3> QED
      BY <1>6, <2>1, Added!LeastNumber
  <2>3. k \in 1..n
    BY <1>1, <1>4, <2>2
  <2>4. k - 1 \in 0..n /\ ~(k <= k - 1)
    BY <1>1, <2>3
  <2>5. Near(k - 1)
    BY <2>2, <2>4
  <2> QED
    BY <1>5, <2>2, <2>3, <2>5
<1>7. \A i \in 0..n : Near(i)
  BY <1>6
<1> QED
  BY <1>7 DEF Near, Wanted, Due, n, total

\* A node takes its share, give or take half an input per node up to it.
LEMMA ShareIsNear ==
    ASSUME NEW inputs \in Nat, NEW want, NEW weight, Rounded(inputs, want, weight),
           NEW i \in DOMAIN want
    PROVE  LET share == EndOf(inputs, want, i) - EndOf(inputs, want, i - 1)
               total == Total(weight)
           IN  /\ 2 * (total * share) <= 2 * (inputs * weight[i]) + i * total
               /\ 2 * (inputs * weight[i]) <= 2 * (total * share) + i * total
<1> DEFINE n == Len(want)
           total == Total(weight)
           j == i - 1
           Wanted(k) == Total(SubSeq(want, 1, k))
           Due(k) == Total(SubSeq(weight, 1, k))
           first == EndOf(inputs, want, j)
           last == EndOf(inputs, want, i)
           share == last - first
<1>1. /\ n \in Nat /\ total \in Positive /\ Len(weight) = n /\ DOMAIN want = 1..n
      /\ want \in Seq(Nat) /\ weight \in Seq(Nat)
      /\ want[i] \in Nat /\ weight[i] \in Nat
      /\ 2 * (total * want[i]) <= 2 * (inputs * weight[i]) + total
      /\ 2 * (inputs * weight[i]) <= 2 * (total * want[i]) + total
  BY DEF Rounded
<1>2. /\ i \in 1..n /\ i \in 0..n /\ j \in 0..n /\ j \in Nat /\ i = j + 1 /\ j # n
  BY <1>1
<1>3. /\ Wanted(j) \in Nat /\ Wanted(i) = Wanted(j) + want[i]
  BY <1>1, <1>2, TotalOfFirst
<1>4. /\ Due(j) \in Nat /\ Due(i) = Due(j) + weight[i] /\ Due(i) <= total
      /\ i = n => Due(i) = total
  BY <1>1, <1>2, TotalOfFirst, FirstWithinTotal
<1>5. /\ 2 * (total * Wanted(j)) <= 2 * (inputs * Due(j)) + j * total
      /\ 2 * (inputs * Due(j)) <= 2 * (total * Wanted(j)) + j * total
  BY <1>2, ErrorsAdd
<1>6. /\ first = IF Wanted(j) > inputs THEN inputs ELSE Wanted(j)
      /\ last = IF i = n \/ Wanted(i) > inputs THEN inputs ELSE Wanted(i)
  BY <1>2 DEF EndOf
<1> HIDE DEF n, total, j, Wanted, Due, first, last
<1> DEFINE a == total * Wanted(j)      \* what the nodes before i want
           b == total * want[i]
           c == inputs * Due(j)        \* what is their due
           d == inputs * weight[i]
           e == j * total
           all == total * inputs
<1>7. total \in Nat /\ total # 0
  BY <1>1 DEF Positive
<1>8. /\ a \in Nat /\ b \in Nat /\ c \in Nat /\ d \in Nat /\ e \in Nat /\ all \in Nat
  BY <1>1, <1>2, <1>3, <1>4, <1>7, Products
<1>9. total * Wanted(i) = a + b
  BY <1>1, <1>3, <1>7, Distributes
<1>10. c + d <= all /\ (i = n => c + d = all)
  <2>1. inputs * Due(i) = c + d
    BY <1>1, <1>4, Distributes
  <2>2. inputs * total = all
    BY <1>7, Products
  <2>3. inputs * Due(i) <= inputs * total
    BY <1>1, <1>4, <1>7, Grows
  <2> QED
    BY <1>4, <2>1, <2>2, <2>3
<1>11. i * total = e + total
  <2>1. /\ total * (j + 1) = total * j + total * 1
        /\ total * j = e /\ total * 1 = total /\ total * i = i * total
    BY <1>2, <1>7, Distributes, Products
  <2> QED
    BY <1>2, <2>1
<1>12. /\ Wanted(j) <= inputs => a <= all
       /\ inputs <= Wanted(j) => all <= a
       /\ Wanted(i) <= inputs => a + b <= all
       /\ inputs <= Wanted(i) => all <= a + b
  <2>1. Wanted(i) \in Nat
    BY <1>1, <1>3
  <2> QED
    BY <1>3, <1>7, <1>9, <2>1, Grows
<1>13. first \in Nat /\ last \in Nat /\ first <= last
  BY <1>1, <1>3, <1>6
<1>14. total * first + total * share = total * last /\ share \in Nat
  <2>1. share \in Nat /\ last = first + share
    BY <1>13
  <2> HIDE DEF share
  <2> QED
    BY <1>7, <1>13, <2>1, Distributes
<1>15. /\ total * first = IF Wanted(j) > inputs THEN all ELSE a
       /\ total * last = IF i = n \/ Wanted(i) > inputs THEN all ELSE a + b
  BY <1>6, <1>9
<1>16. /\ 2 * a <= 2 * c + e /\ 2 * c <= 2 * a + e
       /\ 2 * b <= 2 * d + total /\ 2 * d <= 2 * b + total
  BY <1>1, <1>5
<1> DEFINE s == total * share
<1>17. s \in Nat
  BY <1>7, <1>14, Products
<1> HIDE DEF a, b, c, d, e, all, share
<1>18. 2 * s <= 2 * d + (e + total) /\ 2 * d <= 2 * s + (e + total)
  <2>1. CASE Wanted(j) > inputs
    <3>1. Wanted(i) > inputs /\ inputs <= Wanted(j)
      BY <1>1, <1>3, <2>1
    <3>2. s = 0
      BY <1>8, <1>14, <1>15, <1>17, <2>1, <3>1
    <3> QED
      BY <1>7, <1>8, <1>10, <1>12, <1>16, <3>1, <3>2
  <2>2. CASE ~(Wanted(j) > inputs) /\ (i = n \/ Wanted(i) > inputs)
    <3>1. a + s = all
      BY <1>14, <1>15, <2>2
    <3>2. 2 * d <= 2 * s + (e + total)
      BY <1>7, <1>8, <1>10, <1>16, <1>17, <3>1
    <3>3. 2 * s <= 2 * d + (e + total)
      <4>1. CASE i = n
        BY <1>7, <1>8, <1>10, <1>16, <1>17, <3>1, <4>1
      <4>2. CASE Wanted(i) > inputs
        <5>1. inputs <= Wanted(i)
          BY <1>1, <1>3, <4>2
        <5>2. s <= b
          BY <1>8, <1>12, <1>17, <3>1, <5>1
        <5> QED
          BY <1>7, <1>8, <1>16, <1>17, <5>2
      <4> QED
        BY <2>2, <4>1, <4>2
    <3> QED
      BY <3>2, <3>3
  <2>3. CASE ~(Wanted(j) > inputs) /\ ~(i = n \/ Wanted(i) > inputs)
    <3>1. s = b
      BY <1>8, <1>14, <1>15, <1>17, <2>3
    <3> QED
      BY <1>7, <1>8, <1>16, <3>1
  <2> QED
    BY <2>1, <2>2, <2>3
<1> QED
  BY <1>11, <1>18 DEF d, share, first, last, total, j

\* The inputs a slice has, and those that the shards of a node have together.
Inputs(slice) == slice.end + 1 - slice.start
InputsFor(shards, i) == [s \in DOMAIN shards |-> IF shards[s].node = i THEN Inputs(shards[s]) ELSE 0]

\* When slice k is that of node k, a node is given what its slice has.
GivesSlices(seq, shards) ==
    /\ shards \in Seq(Slices)
    /\ (\A k \in DOMAIN seq : seq[k].node = k /\ seq[k].start <= seq[k].end + 1) =>
         /\ \A s \in DOMAIN shards : shards[s].start <= shards[s].end
         /\ \A i \in Nat : Total(InputsFor(shards, i)) = IF i \in DOMAIN seq THEN Inputs(seq[i]) ELSE 0

Given == INSTANCE SequenceFacts WITH Op <- WithShard, Base <- <<>>,
                                     Items <- Slices, Holds <- GivesSlices

\* The same fold, for a third claim.
LEMMA GivenIsFold == \A seq : FoldLeft(WithShard, <<>>, seq) = Given!Fold(seq)
BY DEF Given!Fold, FoldLeft, Given!FoldLeft, MapThenFoldSet, Given!MapThenFoldSet,
       Max, Given!Max

\* Nothing of a slice is lost or given twice.
LEMMA SlicesGiven ==
    ASSUME NEW all \in Seq(Slices)
    PROVE  GivesSlices(all, FoldLeft(WithShard, <<>>, all))
<1>1. GivesSlices(<<>>, <<>>)
  <2>1. \A i \in Nat : InputsFor(<<>>, i) = <<>>
    BY DEF InputsFor
  <2> QED
    BY <2>1, TotalOf DEF GivesSlices
<1>2. ASSUME NEW seq \in Seq(Slices), NEW x \in Slices, GivesSlices(seq, Given!Fold(seq))
      PROVE  GivesSlices(Append(seq, x), WithShard(Given!Fold(seq), x))
  <2> DEFINE n == Len(seq)
             longer == Append(seq, x)
             kept == Given!Fold(seq)
             after == WithShard(kept, x)
             m == Len(kept)
             Numbered(s) == \A k \in DOMAIN s : s[k].node = k /\ s[k].start <= s[k].end + 1
  <2>1. /\ n \in Nat /\ DOMAIN longer = 1..(n + 1) /\ DOMAIN seq = 1..n
        /\ longer[n + 1] = x /\ \A k \in 1..n : longer[k] = seq[k]
    OBVIOUS
  <2>2. kept \in Seq(Slices) /\ m \in Nat /\ DOMAIN kept = 1..m
    BY <1>2 DEF GivesSlices
  <2>3. x.start \in Nat /\ x.end \in Nat /\ after = IF x.start <= x.end THEN Append(kept, x) ELSE kept
    BY DEF Slices, WithShard
  <2>4. after \in Seq(Slices)
    BY <2>2, <2>3
  <2>5. Numbered(seq) =>
          /\ \A s \in 1..m : kept[s].start <= kept[s].end
          /\ \A i \in Nat : Total(InputsFor(kept, i)) = IF i \in 1..n THEN Inputs(seq[i]) ELSE 0
    BY <1>2, <2>1, <2>2 DEF GivesSlices
  <2> HIDE DEF n, longer, kept, after, m
  <2>6. ASSUME Numbered(longer)
        PROVE  /\ \A s \in DOMAIN after : after[s].start <= after[s].end
               /\ \A i \in Nat : Total(InputsFor(after, i)) =
                                   IF i \in DOMAIN longer THEN Inputs(longer[i]) ELSE 0
    <3>1. \A k \in 1..n : k \in 1..(n + 1) /\ longer[k].node = k /\ longer[k].start <= longer[k].end + 1
      <4>1. \A k \in 1..n : k \in 1..(n + 1)
        BY <2>1
      <4> QED
        BY <2>1, <2>6, <4>1
    <3>2. Numbered(seq)
      BY <2>1, <3>1
    <3>3. x.node = n + 1 /\ x.start <= x.end + 1
      <4>1. n + 1 \in 1..(n + 1)
        BY <2>1
      <4> QED
        BY <2>1, <2>6, <4>1
    <3>4. \A s \in 1..m : kept[s].start <= kept[s].end
      BY <2>5, <3>2
    <3> HIDE DEF Numbered
    <3>5. ASSUME NEW i \in Nat
          PROVE  LET size == IF x.node = i THEN Inputs(x) ELSE 0
                 IN  /\ Total(InputsFor(kept, i)) = IF i \in 1..n THEN Inputs(seq[i]) ELSE 0
                     /\ (IF i \in 1..(n + 1) THEN Inputs(longer[i]) ELSE 0) =
                           IF i = n + 1 THEN size ELSE Total(InputsFor(kept, i))
                     /\ i = n + 1 => Total(InputsFor(kept, i)) = 0 /\ size = Inputs(x)
                     /\ i # n + 1 => size = 0
      <4>1. Total(InputsFor(kept, i)) = IF i \in 1..n THEN Inputs(seq[i]) ELSE 0
        BY <2>5, <3>2
      <4>2. i \in 1..(n + 1) <=> i \in 1..n \/ i = n + 1
        BY <2>1
      <4>3. n + 1 \notin 1..n
        BY <2>1
      <4> QED
        BY <2>1, <3>3, <4>1, <4>2, <4>3
    <3>6. CASE x.start <= x.end
      <4>1. after = Append(kept, x)
        BY <2>3, <3>6
      <4>2. /\ DOMAIN after = 1..(m + 1) /\ after[m + 1] = x
            /\ \A s \in 1..m : after[s] = kept[s]
        BY <2>2, <4>1 DEF m
      <4>3. \A s \in 1..(m + 1) : after[s].start <= after[s].end
        <5>1. \A s \in 1..(m + 1) : s = m + 1 \/ s \in 1..m
          BY <2>2
        <5> QED
          BY <3>4, <3>6, <4>2, <5>1
      <4>4. ASSUME NEW i \in Nat
            PROVE  Total(InputsFor(after, i)) = IF i \in 1..(n + 1) THEN Inputs(longer[i]) ELSE 0
        <5> DEFINE size == IF x.node = i THEN Inputs(x) ELSE 0
                   sizes == InputsFor(kept, i)
        <5>1. size \in Nat
          BY <2>3, <3>6 DEF Inputs
        <5>2. sizes \in Seq(Nat) /\ Len(sizes) = m
          <6>1. ASSUME NEW s \in 1..m
                PROVE (IF kept[s].node = i THEN Inputs(kept[s]) ELSE 0) \in Nat
            <7>1. kept[s] \in Slices /\ kept[s].start <= kept[s].end
              BY <2>2, <3>4
            <7>2. kept[s].start \in Nat /\ kept[s].end \in Nat
              BY <7>1 DEF Slices
            <7> QED
              BY <7>1, <7>2 DEF Inputs
          <6>2. sizes = [s \in 1..m |-> IF kept[s].node = i THEN Inputs(kept[s]) ELSE 0]
            BY <2>2 DEF InputsFor
          <6> HIDE DEF sizes
          <6>3. sizes \in [1..m -> Nat]
            BY <6>1, <6>2
          <6> QED
            BY <2>2, <6>3
        <5>3. InputsFor(after, i) = Append(sizes, size)
          <6> DEFINE new == InputsFor(after, i)
          <6>1. new = [s \in 1..(m + 1) |-> IF after[s].node = i THEN Inputs(after[s]) ELSE 0]
            BY <4>2 DEF InputsFor
          <6>2. \A s \in 1..m : sizes[s] = IF kept[s].node = i THEN Inputs(kept[s]) ELSE 0
            BY <2>2 DEF InputsFor
          <6> HIDE DEF sizes, size, new
          <6>3. /\ Append(sizes, size) = [s \in 1..(m + 1) |-> Append(sizes, size)[s]]
                /\ Append(sizes, size)[m + 1] = size
                /\ \A s \in 1..m : Append(sizes, size)[s] = sizes[s]
            <7>1. sizes \in Seq(Nat) /\ size \in Nat /\ Len(sizes) = m /\ m \in Nat
              BY <2>2, <5>1, <5>2
            <7> DEFINE more == Append(sizes, size)
            <7>2. more \in Seq(Nat) /\ Len(more) = m + 1
              BY <7>1
            <7>3. more[m + 1] = size /\ \A s \in 1..m : more[s] = sizes[s]
              BY <7>1
            <7> HIDE DEF more
            <7>4. more = [s \in 1..(m + 1) |-> more[s]]
              BY <7>1, <7>2
            <7> QED
              BY <7>3, <7>4 DEF more
          <6>4. ASSUME NEW s \in 1..(m + 1)
                PROVE  (IF after[s].node = i THEN Inputs(after[s]) ELSE 0) = Append(sizes, size)[s]
            <7>1. CASE s = m + 1
              <8>1. after[s] = x /\ Append(sizes, size)[s] = size
                BY <4>2, <6>3, <7>1
              <8> QED
                BY <8>1 DEF size
            <7>2. CASE s \in 1..m
              BY <4>2, <6>2, <6>3, <7>2
            <7>3. s = m + 1 \/ s \in 1..m
              <8>1. m \in Nat
                BY <2>2
              <8> QED
                BY <8>1
            <7> QED
              BY <7>1, <7>2, <7>3
          <6>5. new = Append(sizes, size)
            BY <6>1, <6>3, <6>4
          <6> QED
            BY <6>5 DEF new
        <5>4. Total(InputsFor(after, i)) = Total(sizes) + size /\ Total(sizes) \in Nat
          <6> HIDE DEF sizes, size
          <6> QED
            BY <5>1, <5>2, <5>3, TotalOf
        <5>5. /\ (IF i \in 1..(n + 1) THEN Inputs(longer[i]) ELSE 0) =
                    IF i = n + 1 THEN size ELSE Total(sizes)
              /\ i = n + 1 => Total(sizes) = 0
              /\ i # n + 1 => size = 0
          BY <3>5
        <5> HIDE DEF sizes, size
        <5> QED
          BY <5>1, <5>4, <5>5
      <4> QED
        BY <2>1, <4>2, <4>3, <4>4
    <3>7. CASE ~(x.start <= x.end)
      <4>1. after = kept
        BY <2>3, <3>7
      <4>2. Inputs(x) = 0
        BY <2>3, <3>3, <3>7 DEF Inputs
      <4>3. \A i \in Nat : Total(InputsFor(kept, i)) = IF i \in 1..(n + 1) THEN Inputs(longer[i]) ELSE 0
        BY <3>5, <4>2
      <4> QED
        BY <2>1, <2>2, <3>4, <4>1, <4>3
    <3> QED
      BY <3>6, <3>7
  <2>7. GivesSlices(longer, after)
    BY <2>4, <2>6 DEF GivesSlices
  <2> QED
    BY <2>7 DEF longer, after, kept
<1> QED
  BY <1>1, <1>2, Given!FoldInduction, GivenIsFold

loopWeight == Weight(byPlace, avgLatencyMs)
slowness == [i \in DOMAIN avgLatencyMs |-> avgLatencyMs[i] + 1]

\* The weights of the nodes, by integer division.
LEMMA WeightsAre ==
    ASSUME avgLatencyMs \in Seq(Nat), avgLatencyMs # <<>>
    PROVE  /\ loopWeight = [i \in DOMAIN avgLatencyMs |-> Product(slowness) \div (avgLatencyMs[i] + 1)]
           /\ loopWeight \in Seq(Nat) /\ Len(loopWeight) = Len(avgLatencyMs)
           /\ Total(loopWeight) \in Positive
<1> DEFINE n == Len(avgLatencyMs)
<1>1. /\ n \in Nat /\ n # 0 /\ 1 \in 1..n /\ DOMAIN avgLatencyMs = 1..n
      /\ \A i \in 1..n : avgLatencyMs[i] \in Nat
  OBVIOUS
<1>2. DOMAIN byPlace = 1..n /\ \A i \in 1..n : byPlace[i] = i
  BY <1>1 DEF byPlace
<1> HIDE DEF n
<1>3. /\ slowness \in Seq(Positive) /\ DOMAIN slowness = 1..n
      /\ \A i \in 1..n : slowness[i] = avgLatencyMs[i] + 1
  <2>1. slowness = [i \in 1..n |-> avgLatencyMs[i] + 1]
    BY <1>1 DEF slowness
  <2>2. \A i \in 1..n : avgLatencyMs[i] + 1 \in Positive
    BY <1>1 DEF Positive
  <2>3. slowness \in [1..n -> Positive]
    BY <2>1, <2>2
  <2> QED
    BY <1>1, <2>1, <2>3
<1>4. loopWeight = [i \in 1..n |-> Product(RemoveAt(slowness, i))]
  <2>1. [j \in DOMAIN byPlace |-> avgLatencyMs[byPlace[j]] + 1] = slowness
    BY <1>1, <1>2 DEF slowness
  <2> QED
    BY <1>2, <2>1 DEF loopWeight, Weight
<1>5. WithoutOne(slowness, Product(slowness))
  BY <1>3, ProductOfOthers
<1>6. ASSUME NEW i \in 1..n
      PROVE  /\ Product(RemoveAt(slowness, i)) \in Positive
             /\ Product(RemoveAt(slowness, i)) = Product(slowness) \div (avgLatencyMs[i] + 1)
  <2> DEFINE all == Product(slowness)
             less == Product(RemoveAt(slowness, i))
             slow == avgLatencyMs[i] + 1
  <2>1. less \in Positive /\ less * slow = all
    BY <1>3, <1>5 DEF WithoutOne
  <2>2. slow \in Nat \ {0}
    BY <1>1
  <2> HIDE DEF all, less, slow
  <2>3. all \div slow = less
    BY <2>1, <2>2, DivExact DEF Positive
  <2> QED
    BY <2>1, <2>3 DEF all, less, slow
<1>7. loopWeight = [i \in 1..n |-> Product(slowness) \div (avgLatencyMs[i] + 1)]
  BY <1>4, <1>6
<1>8. \A i \in 1..n : loopWeight[i] \in Positive
  BY <1>4, <1>6
<1>9. loopWeight \in Seq(Nat) /\ Len(loopWeight) = n
  <2>1. loopWeight \in [1..n -> Nat]
    BY <1>4, <1>6 DEF Positive
  <2> QED
    BY <1>1, <2>1
<1>10. Total(loopWeight) \in Positive
  <2>1. loopWeight[1] <= Total(loopWeight) /\ Total(loopWeight) \in Nat
        /\ loopWeight[1] \in Nat \ {0}
    BY <1>1, <1>8, <1>9, TotalOf DEF Positive
  <2> QED
    BY <2>1 DEF Positive
<1> QED
  BY <1>1, <1>7, <1>9, <1>10 DEF n

\* The nodes want their shares, rounded.
LEMMA LoopRounds ==
    ASSUME length \in Nat \ {0}, avgLatencyMs \in Seq(Nat), avgLatencyMs # <<>>
    PROVE  Rounded(length, loopWant, loopWeight)
<1> DEFINE n == Len(avgLatencyMs)
           total == Total(loopWeight)
<1>1. /\ loopWeight \in Seq(Nat) /\ Len(loopWeight) = n /\ total \in Positive
      /\ loopWant \in Seq(Nat) /\ Len(loopWant) = n
      /\ byPlace \in Seq(Names) /\ Len(byPlace) = n
  BY WeightsAre, LoopTerms
<1>2. DOMAIN loopWant = 1..n /\ DOMAIN byPlace = 1..n /\ \A i \in 1..n : loopWeight[i] \in Nat
  BY <1>1
<1>3. \A i \in 1..n : loopWant[i] = Round(length * loopWeight[i], total)
  BY <1>2 DEF loopWant, Want, loopWeight
<1> HIDE DEF n, total
<1>4. ASSUME NEW i \in 1..n
      PROVE  /\ 2 * (total * loopWant[i]) <= 2 * (length * loopWeight[i]) + total
             /\ 2 * (length * loopWeight[i]) <= 2 * (total * loopWant[i]) + total
  <2>1. length * loopWeight[i] \in Nat
    BY <1>2, Products
  <2> QED
    BY <1>1, <1>3, <2>1, RoundOf
<1> QED
  BY <1>1, <1>2, <1>4 DEF Rounded, total

\* The loop of handleEmbedBundle gives every node its share of the inputs, in
\* proportion to 1 / (latency + 1), give or take half an input for each node up to it.
THEOREM LoopSharesFairly == LoopSpec => []SharesProportional
<1>1. LoopInv => SharesProportional
  <2> SUFFICES ASSUME LoopInv, settled PROVE SharesProportional
    BY DEF SharesProportional
  <2> DEFINE n == Len(avgLatencyMs)
             total == Total(loopWeight)
  <2>1. /\ length \in Nat \ {0} /\ avgLatencyMs \in Seq(Nat) /\ avgLatencyMs # <<>>
        /\ cutShards = FoldLeft(WithShard, <<>>, loopSlices)
    BY DEF LoopInv
  <2>2. n \in Nat /\ DOMAIN avgLatencyMs = 1..n
    BY <2>1
  <2>3. /\ loopWant \in Seq(Nat) /\ Len(loopWant) = n /\ loopWant # <<>>
        /\ loopSlices \in Seq(Slices) /\ Len(loopSlices) = n
        /\ \A i \in 1..n : loopSlices[i] = Slice(length, byPlace, loopWant, i)
    BY <2>1, LoopTerms
  <2>4. \A i \in 1..n : byPlace[i] = i
    BY <2>2 DEF byPlace
  <2>5. Rounded(length, loopWant, loopWeight) /\ total \in Nat
    BY <2>1, LoopRounds, WeightsAre DEF Positive
  <2>6. \A i \in 1..n : loopWeight[i] \in Nat
    BY <2>1, <2>2, WeightsAre
  <2> HIDE DEF n, total
  <2>7. ASSUME NEW i \in 1..n
        PROVE  /\ loopSlices[i].node = i
               /\ loopSlices[i].start = EndOf(length, loopWant, i - 1) + 1
               /\ loopSlices[i].end = EndOf(length, loopWant, i)
               /\ EndOf(length, loopWant, i) \in Nat
               /\ EndOf(length, loopWant, i - 1) \in Nat
               /\ EndOf(length, loopWant, i - 1) <= EndOf(length, loopWant, i)
    <3>1. loopSlices[i] = Slice(length, byPlace, loopWant, i) /\ byPlace[i] = i
      BY <2>3, <2>4
    <3>2. length \in Nat /\ i \in 1..Len(loopWant)
      BY <2>1, <2>3
    <3>3. /\ EndOf(length, loopWant, i) \in Nat
          /\ EndOf(length, loopWant, i - 1) \in Nat
          /\ EndOf(length, loopWant, i - 1) <= EndOf(length, loopWant, i)
      BY <2>3, <3>2, EndOfIs
    <3> QED
      BY <3>1, <3>3 DEF Slice
  <2>8. DOMAIN loopSlices = 1..n
    BY <2>3
  <2>9. ASSUME NEW i \in 1..n
        PROVE  Share(i) = EndOf(length, loopWant, i) - EndOf(length, loopWant, i - 1)
    <3>1. \A k \in DOMAIN loopSlices : /\ loopSlices[k].node = k
                                       /\ loopSlices[k].start <= loopSlices[k].end + 1
      <4> SUFFICES ASSUME NEW k \in 1..n
                   PROVE  loopSlices[k].node = k /\ loopSlices[k].start <= loopSlices[k].end + 1
        BY <2>8
      <4> QED
        BY <2>7
    <3>2. GivesSlices(loopSlices, cutShards)
      BY <2>1, <2>3, SlicesGiven
    <3>3. Total(InputsFor(cutShards, i)) = Inputs(loopSlices[i])
      <4>1. i \in Nat
        BY <2>2
      <4> QED
        BY <2>8, <3>1, <3>2, <4>1 DEF GivesSlices
    <3>4. Share(i) = Total(InputsFor(cutShards, i))
      BY DEF Share, InputsFor, Inputs
    <3>5. Inputs(loopSlices[i]) = EndOf(length, loopWant, i) - EndOf(length, loopWant, i - 1)
      BY <2>7 DEF Inputs
    <3> QED
      BY <3>3, <3>4, <3>5
  <2>10. ASSUME NEW i \in 1..n
         PROVE  /\ 2 * total * Share(i) <= 2 * length * loopWeight[i] + i * total
                /\ 2 * length * loopWeight[i] <= 2 * total * Share(i) + i * total
    <3> DEFINE share == Share(i)
               weight == loopWeight[i]
    <3>1. /\ 2 * (total * share) <= 2 * (length * weight) + i * total
          /\ 2 * (length * weight) <= 2 * (total * share) + i * total
      <4>1. i \in DOMAIN loopWant /\ length \in Nat
        BY <2>1, <2>3
      <4> QED
        BY <2>5, <2>9, <4>1, ShareIsNear DEF total
    <3>2. share \in Nat /\ weight \in Nat
      <4>1. /\ EndOf(length, loopWant, i) \in Nat
            /\ EndOf(length, loopWant, i - 1) \in Nat
            /\ EndOf(length, loopWant, i - 1) <= EndOf(length, loopWant, i)
        BY <2>7
      <4>2. share = EndOf(length, loopWant, i) - EndOf(length, loopWant, i - 1)
        BY <2>9
      <4>3. share \in Nat
        BY <4>1, <4>2
      <4> QED
        BY <2>6, <4>3
    <3> HIDE DEF share, weight
    <3>3. /\ 2 * total * share = 2 * (total * share)
          /\ 2 * length * weight = 2 * (length * weight)
      BY <2>1, <2>5, <3>2
    <3> QED
      BY <3>1, <3>3 DEF share, weight
  <2>11. loopWeight = [i \in DOMAIN avgLatencyMs |-> Product(slowness) \div (avgLatencyMs[i] + 1)]
    BY <2>1, WeightsAre
  <2> QED
    BY <2>2, <2>10, <2>11 DEF SharesProportional, total, slowness
<1> QED
  BY <1>1, LoopStarts, LoopGoesOn, PTL DEF LoopSpec
===============================================================================
