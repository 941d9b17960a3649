---------------------------- MODULE SequenceFacts ----------------------------
(***************************************************************************)
(* What FoldLeft computes, for every operator and every sequence, and      *)
(* other facts about sequences and numbers.  The operator, its base and    *)
(* what is claimed of the fold are constants of the module: a proof about  *)
(* a fold instantiates it with its own.                                    *)
(***************************************************************************)
EXTENDS Integers, SequencesExt, FiniteSetTheorems, SequenceTheorems, TLAPS

CONSTANTS Op(_, _),    \* what is folded
          Base,        \* the fold of the empty sequence
          Items,       \* the elements of the sequences
          Holds(_, _)  \* what is claimed of a sequence and its fold

Fold(seq) == FoldLeft(Op, Base, seq)

\* A set of numbers has a least one: induction, where the claim is a formula.
LEMMA LeastNumber ==
    ASSUME NEW S \in SUBSET Nat, S # {}
    PROVE  \E n \in S : \A m \in S : n <= m
<1>1. PICK top \in S : TRUE
  OBVIOUS
<1> DEFINE U == 0..top
           T == {0..n : n \in {n \in S : n <= top}}
           R == StrictSubsetOrdering(U)
<1>2. IsWellFoundedOn(R, FiniteSubsetsOf(U))
  BY FS_StrictSubsetOrderingWellFounded
<1>3. IsFiniteSet(U) /\ \A n \in Nat : IsFiniteSet(0..n)
  BY FS_Interval
<1>4. FiniteSubsetsOf(U) = SUBSET U
  BY <1>3, FS_FiniteSubsetsOfFinite
<1>5. T \subseteq SUBSET U /\ T # {}
  OBVIOUS
<1> HIDE DEF T, U, R
<1>6. PICK x \in T : \A y \in T : <<y, x>> \notin R
  BY <1>2, <1>4, <1>5, WFMin
<1> USE DEF T, U, R
<1>7. PICK n \in S : n <= top /\ x = 0..n
  BY <1>6
<1>8. ASSUME NEW m \in S, m < n PROVE FALSE
  <2>1. 0..m \in T /\ 0..m \subseteq x /\ 0..m # x
    BY <1>7, <1>8
  <2>2. 0..m \in SUBSET U /\ x \in SUBSET U
    BY <1>7, <1>8
  <2>3. <<0..m, x>> \in R
    BY <2>1, <2>2 DEF StrictSubsetOrdering
  <2> QED
    BY <1>6, <2>1, <2>3
<1> QED
  BY <1>8

----------------------------------------------------------------------------
(* The function FoldLeft is defined by *)

\* iter folds the elements of seq at any of the first n places.
Folds(iter, seq, n) ==
    iter = [t \in SUBSET (1..n) |->
              IF t = {} THEN Base ELSE Op(iter[t \ {Max(t)}], seq[Max(t)])]

\* A set of places that holds the last one has it as its maximum.
LEMMA MaxIsLast ==
    ASSUME NEW n \in Nat, NEW t \in SUBSET (1..(n + 1)), n + 1 \in t
    PROVE  Max(t) = n + 1 /\ t \ {n + 1} \in SUBSET (1..n)
<1>1. \A y \in t : y \in 1..(n + 1)
  OBVIOUS
<1>2. \A y \in t : n + 1 >= y
  BY <1>1
<1>3. Max(t) \in t /\ \A y \in t : Max(t) >= y
  BY <1>2 DEF Max
<1>4. Max(t) = n + 1
  <2>1. Max(t) \in 1..(n + 1) /\ Max(t) >= n + 1
    BY <1>1, <1>3
  <2> QED
    BY <2>1
<1>5. \A y \in t \ {n + 1} : y \in 1..n
  BY <1>1
<1> QED
  BY <1>4, <1>5

\* A set of places without the last one is a set of the places before it.
LEMMA NotLast ==
    ASSUME NEW n \in Nat, NEW t \in SUBSET (1..(n + 1)), n + 1 \notin t
    PROVE  t \in SUBSET (1..n)
OBVIOUS

\* The maximum of a nonempty set of places is one of them.
LEMMA MaxRemoved ==
    ASSUME NEW n \in Nat, NEW t \in SUBSET (1..n), t # {}
    PROVE  Max(t) \in t /\ t \ {Max(t)} \in SUBSET (1..n)
<1> DEFINE U == {k \in Nat : \A y \in t : y <= k}
<1>1. n \in U
  OBVIOUS
<1>2. U \in SUBSET Nat /\ U # {}
  BY <1>1
<1> HIDE DEF U
<1>3. PICK k \in U : \A m \in U : k <= m
  BY <1>2, LeastNumber
<1> USE DEF U
<1>4. k \in t
  <2> SUFFICES ASSUME k \notin t PROVE FALSE
    OBVIOUS
  <2>1. PICK y \in t : TRUE
    OBVIOUS
  <2>2. y \in Nat /\ y >= 1 /\ k \in Nat /\ k >= y
    OBVIOUS
  <2>3. k - 1 \in U
    <3>1. \A z \in t : z \in Nat /\ z <= k /\ z # k
      BY <1>3, <2>2
    <3> QED
      BY <2>2, <3>1
  <2> QED
    BY <1>3, <2>2, <2>3
<1>5. Max(t) \in t
  <2>1. \A y \in t : k >= y
    OBVIOUS
  <2> QED
    BY <1>4, <2>1 DEF Max
<1> QED
  BY <1>5

\* There is such a function for any number of places: the smallest number that had
\* none would follow one that has one.
LEMMA FoldsExist ==
    ASSUME NEW seq, NEW n \in Nat
    PROVE  \E iter : Folds(iter, seq, n)
<1> DEFINE Bad == {k \in Nat : ~\E iter : Folds(iter, seq, k)}
<1> SUFFICES ASSUME Bad # {} PROVE FALSE
  OBVIOUS
<1>1. Bad \in SUBSET Nat
  OBVIOUS
<1> HIDE DEF Bad
<1>2. PICK k \in Bad : \A m \in Bad : k <= m
  BY <1>1, LeastNumber
<1>3. k \in Nat /\ ~\E iter : Folds(iter, seq, k)
  BY DEF Bad
<1>4. CASE k = 0
  <2> DEFINE iter == [t \in SUBSET (1..0) |-> Base]
  <2>1. \A t \in SUBSET (1..0) : t = {}
    OBVIOUS
  <2>2. Folds(iter, seq, 0)
    BY <2>1 DEF Folds
  <2> QED
    BY <1>3, <1>4, <2>2
<1>5. CASE k # 0
  <2> DEFINE n0 == k - 1
  <2>1. n0 \in Nat /\ n0 + 1 = k /\ ~(k <= n0)
    BY <1>3, <1>5
  <2>2. n0 \notin Bad
    BY <1>2, <2>1
  <2>3. PICK g : Folds(g, seq, n0)
    BY <2>1, <2>2 DEF Bad
  <2> HIDE DEF n0
  <2> DEFINE h == [t \in SUBSET (1..(n0 + 1)) |->
                     IF n0 + 1 \in t THEN Op(g[t \ {n0 + 1}], seq[n0 + 1]) ELSE g[t]]
  <2>4. ASSUME NEW t \in SUBSET (1..(n0 + 1))
        PROVE  h[t] = IF t = {} THEN Base ELSE Op(h[t \ {Max(t)}], seq[Max(t)])
    <3>1. CASE n0 + 1 \in t
      <4>1. Max(t) = n0 + 1 /\ t \ {n0 + 1} \in SUBSET (1..n0)
        BY <2>1, <3>1, MaxIsLast
      <4>2. t \ {n0 + 1} \in SUBSET (1..(n0 + 1)) /\ n0 + 1 \notin t \ {n0 + 1}
        OBVIOUS
      <4>3. h[t \ {n0 + 1}] = g[t \ {n0 + 1}]
        BY <4>2
      <4> QED
        BY <3>1, <4>1, <4>3
    <3>2. CASE n0 + 1 \notin t
      <4>1. t \in SUBSET (1..n0)
        BY <2>1, <3>2, NotLast
      <4>2. h[t] = g[t]
        BY <3>2
      <4>3. CASE t = {}
        BY <2>3, <4>1, <4>2, <4>3 DEF Folds
      <4>4. CASE t # {}
        <5>1. Max(t) \in t /\ t \ {Max(t)} \in SUBSET (1..n0)
          BY <2>1, <4>1, <4>4, MaxRemoved
        <5>2. t \ {Max(t)} \in SUBSET (1..(n0 + 1)) /\ n0 + 1 \notin t \ {Max(t)}
          BY <3>2
        <5>3. h[t \ {Max(t)}] = g[t \ {Max(t)}]
          BY <5>2
        <5>4. g[t] = Op(g[t \ {Max(t)}], seq[Max(t)])
          BY <2>3, <4>1, <4>4 DEF Folds
        <5> QED
          BY <4>2, <4>4, <5>3, <5>4
      <4> QED
        BY <4>3, <4>4
    <3> QED
      BY <3>1, <3>2
  <2>5. h = [t \in SUBSET (1..(n0 + 1)) |-> h[t]]
    OBVIOUS
  <2> HIDE DEF h
  <2>6. Folds(h, seq, n0 + 1)
    BY <2>4, <2>5 DEF Folds
  <2> QED
    BY <1>3, <2>1, <2>6
<1> QED
  BY <1>4, <1>5

\* Two of them agree where the sequences do.
SameUpTo(s1, s2, n) == \A k \in 1..n : s1[k] = s2[k]

\* The smallest number of places at which two of them differ does not exist.
LEMMA FoldsAgree ==
    ASSUME NEW s1, NEW n1 \in Nat, NEW g1, NEW s2, NEW n2 \in Nat, NEW g2, NEW n \in Nat,
           Folds(g1, s1, n1), Folds(g2, s2, n2),
           n <= n1, n <= n2, SameUpTo(s1, s2, n)
    PROVE  \A t \in SUBSET (1..n) : g1[t] = g2[t]
<1> DEFINE Bad == {k \in 0..n : \E t \in SUBSET (1..k) : g1[t] # g2[t]}
<1> SUFFICES ASSUME Bad # {} PROVE FALSE
  OBVIOUS
<1>1. Bad \in SUBSET Nat
  OBVIOUS
<1> HIDE DEF Bad
<1>2. PICK k \in Bad : \A m \in Bad : k <= m
  BY <1>1, LeastNumber
<1>3. k \in 0..n
  BY DEF Bad
<1>4. PICK t \in SUBSET (1..k) : g1[t] # g2[t]
  BY <1>2 DEF Bad
<1>5. t \in SUBSET (1..n1) /\ t \in SUBSET (1..n2)
  BY <1>3
<1>6. /\ g1[t] = IF t = {} THEN Base ELSE Op(g1[t \ {Max(t)}], s1[Max(t)])
      /\ g2[t] = IF t = {} THEN Base ELSE Op(g2[t \ {Max(t)}], s2[Max(t)])
  BY <1>5 DEF Folds
<1>7. t # {} /\ k # 0
  <2>1. 1..0 = {}
    OBVIOUS
  <2> QED
    BY <1>4, <1>6, <2>1
<1> DEFINE m == k - 1
<1>8. m \in Nat /\ m \in 0..n /\ m + 1 = k /\ ~(k <= m)
  BY <1>3, <1>7
<1>9. m \notin Bad
  BY <1>2, <1>8
<1>10. \A u \in SUBSET (1..m) : g1[u] = g2[u]
  BY <1>8, <1>9 DEF Bad
<1> HIDE DEF m
<1>11. m + 1 \in t
  BY <1>4, <1>8, <1>10, NotLast
<1>12. Max(t) = m + 1 /\ t \ {m + 1} \in SUBSET (1..m)
  BY <1>8, <1>11, MaxIsLast
<1>13. s1[m + 1] = s2[m + 1]
  BY <1>3, <1>7, <1>8 DEF SameUpTo
<1>14. g1[t \ {m + 1}] = g2[t \ {m + 1}]
  BY <1>10, <1>12
<1> QED
  BY <1>4, <1>6, <1>7, <1>12, <1>13, <1>14

\* FoldLeft is the value of such a function at the set of all places.
LEMMA FoldIs ==
    ASSUME NEW S, NEW seq \in Seq(S)
    PROVE  \E iter : Folds(iter, seq, Len(seq)) /\ Fold(seq) = iter[1..Len(seq)]
<1>1. DOMAIN seq = 1..Len(seq) /\ Len(seq) \in Nat
  OBVIOUS
<1> DEFINE iter == CHOOSE iter : Folds(iter, seq, Len(seq))
<1>2. Folds(iter, seq, Len(seq))
  BY <1>1, FoldsExist
<1>3. Fold(seq) = iter[1..Len(seq)]
  BY <1>1 DEF Fold, FoldLeft, MapThenFoldSet, Folds
<1> QED
  BY <1>2, <1>3

----------------------------------------------------------------------------
(* Facts *)

\* The fold of the empty sequence.
LEMMA FoldEmpty == Fold(<<>>) = Base
<1>1. <<>> \in Seq({}) /\ Len(<<>>) = 0 /\ 1..0 = {}
  OBVIOUS
<1>2. PICK iter : Folds(iter, <<>>, 0) /\ Fold(<<>>) = iter[{}]
  BY <1>1, FoldIs
<1> QED
  BY <1>1, <1>2 DEF Folds

\* The fold of a longer one.
LEMMA FoldAppend ==
    ASSUME NEW S, NEW seq \in Seq(S), NEW x \in S
    PROVE  Fold(Append(seq, x)) = Op(Fold(seq), x)
<1> DEFINE n == Len(seq)
           longer == Append(seq, x)
<1>1. /\ n \in Nat /\ longer \in Seq(S) /\ Len(longer) = n + 1
      /\ longer[n + 1] = x /\ \A k \in 1..n : longer[k] = seq[k]
  OBVIOUS
<1> HIDE DEF n, longer
<1>2. PICK f : Folds(f, seq, n) /\ Fold(seq) = f[1..n]
  BY FoldIs DEF n
<1>3. PICK g : Folds(g, longer, n + 1) /\ Fold(longer) = g[1..(n + 1)]
  BY <1>1, FoldIs
<1>4. 1..n \in SUBSET (1..n) /\ n <= n + 1 /\ n <= n /\ n + 1 \in Nat
  BY <1>1
<1>5. \A t \in SUBSET (1..n) : f[t] = g[t]
  <2> DEFINE m == n + 1
  <2>1. SameUpTo(seq, longer, n)
    BY <1>1 DEF SameUpTo
  <2>2. n \in Nat /\ m \in Nat /\ n <= n /\ n <= m /\ Folds(f, seq, n) /\ Folds(g, longer, m)
    BY <1>1, <1>2, <1>3
  <2> HIDE DEF m
  <2> QED
    BY <2>1, <2>2, FoldsAgree
<1>6. 1..(n + 1) \in SUBSET (1..(n + 1)) /\ n + 1 \in 1..(n + 1) /\ (1..(n + 1)) \ {n + 1} = 1..n
  BY <1>1
<1>7. Max(1..(n + 1)) = n + 1
  BY <1>1, <1>6, MaxIsLast
<1>8. g[1..(n + 1)] = Op(g[1..n], longer[n + 1])
  BY <1>3, <1>6, <1>7 DEF Folds
<1> QED
  BY <1>1, <1>2, <1>3, <1>4, <1>5, <1>8 DEF longer

\* Induction: a claim that holds of the empty sequence, and of a longer one when it
\* holds of the sequence, holds of every sequence and its fold.
THEOREM FoldInduction ==
    ASSUME Holds(<<>>, Base),
           ASSUME NEW seq \in Seq(Items), NEW x \in Items, Holds(seq, Fold(seq))
           PROVE  Holds(Append(seq, x), Op(Fold(seq), x))
    PROVE  \A seq \in Seq(Items) : Holds(seq, Fold(seq))
<1> DEFINE Bad == {k \in Nat : \E seq \in Seq(Items) : Len(seq) = k /\ ~Holds(seq, Fold(seq))}
<1> SUFFICES ASSUME Bad # {} PROVE FALSE
  OBVIOUS
<1>1. Bad \in SUBSET Nat
  OBVIOUS
<1> HIDE DEF Bad
<1>2. PICK k \in Bad : \A m \in Bad : k <= m
  BY <1>1, LeastNumber
<1>3. PICK seq \in Seq(Items) : Len(seq) = k /\ ~Holds(seq, Fold(seq))
  BY <1>2 DEF Bad
<1>4. seq # <<>>
  BY <1>3, FoldEmpty
<1>5. PICK front \in Seq(Items), x \in Items : seq = Append(front, x)
  BY <1>4, SequenceEmptyOrAppend
<1>6. Len(front) \in Nat /\ Len(seq) = Len(front) + 1
  BY <1>5
<1>7. Len(front) \notin Bad
  BY <1>2, <1>3, <1>6
<1>8. Holds(front, Fold(front))
  BY <1>5, <1>6, <1>7 DEF Bad
<1>9. Fold(seq) = Op(Fold(front), x)
  BY <1>5, FoldAppend
<1> QED
  BY <1>3, <1>5, <1>8, <1>9

----------------------------------------------------------------------------
(* Other facts *)

\* Moving an element to the front makes no duplicate and loses none.
LEMMA MovedToFront ==
    ASSUME NEW S, NEW s \in Seq(S), IsInjective(s), NEW i \in DOMAIN s
    PROVE  LET t == <<s[i]>> \o RemoveAt(s, i)
           IN  t \in Seq(S) /\ Len(t) = Len(s) /\ IsInjective(t)
<1> DEFINE t == <<s[i]>> \o RemoveAt(s, i)
           Source(k) == IF k = 1 THEN i ELSE IF k <= i THEN k - 1 ELSE k
<1>1. DOMAIN s = 1..Len(s) /\ Len(s) \in Nat /\ i \in 1..Len(s)
  OBVIOUS
<1> DEFINE left == SubSeq(s, 1, i - 1)
           right == SubSeq(s, i + 1, Len(s))
<1>2. /\ left \in Seq(S) /\ Len(left) = i - 1
      /\ \A k \in 1..(i - 1) : left[k] = s[k]
  BY <1>1
<1>3. /\ right \in Seq(S) /\ Len(right) = Len(s) - i
      /\ \A k \in 1..(Len(s) - i) : right[k] = s[i + k]
  <2>1. i + 1 \in Nat /\ i + 1 <= Len(s) + 1 /\ \A k \in (i + 1)..Len(s) : s[k] \in S
    BY <1>1
  <2>2. right \in Seq(S)
    BY <1>1, <2>1
  <2>3. Len(right) = Len(s) - i
    BY <1>1, <2>1
  <2>4. ASSUME NEW k \in 1..(Len(s) - i) PROVE right[k] = s[i + k]
    BY <1>1, <2>1
  <2> QED
    BY <2>2, <2>3, <2>4
<1>4. t = <<s[i]>> \o (left \o right)
  BY DEF RemoveAt
<1> HIDE DEF left, right, t
<1>5. /\ left \o right \in Seq(S) /\ Len(left \o right) = Len(s) - 1
      /\ \A k \in 1..(i - 1) : (left \o right)[k] = left[k]
      /\ \A k \in i..(Len(s) - 1) : (left \o right)[k] = right[k - (i - 1)]
  <2>1. /\ left \o right \in Seq(S) /\ Len(left \o right) = Len(left) + Len(right)
        /\ \A k \in 1..(Len(left) + Len(right)) :
             (left \o right)[k] = IF k <= Len(left) THEN left[k] ELSE right[k - Len(left)]
    BY <1>2, <1>3, ConcatProperties
  <2> QED
    BY <1>1, <1>2, <1>3, <2>1
<1>6. /\ t \in Seq(S) /\ Len(t) = Len(s) /\ t[1] = s[i]
      /\ \A k \in 2..Len(s) : t[k] = (left \o right)[k - 1]
  <2>1. <<s[i]>> \in Seq(S) /\ Len(<<s[i]>>) = 1 /\ <<s[i]>>[1] = s[i]
    BY <1>1
  <2>2. /\ t \in Seq(S) /\ Len(t) = Len(<<s[i]>>) + Len(left \o right)
        /\ \A k \in 1..(Len(<<s[i]>>) + Len(left \o right)) :
             t[k] = IF k <= Len(<<s[i]>>) THEN <<s[i]>>[k] ELSE (left \o right)[k - Len(<<s[i]>>)]
    BY <1>4, <1>5, <2>1, ConcatProperties
  <2> QED
    BY <1>1, <1>5, <2>1, <2>2
<1>7. ASSUME NEW k \in 1..Len(s)
      PROVE  Source(k) \in 1..Len(s) /\ t[k] = s[Source(k)]
  <2>1. CASE k = 1
    BY <1>1, <1>6, <2>1
  <2>2. CASE k # 1 /\ k <= i
    <3>1. k - 1 \in 1..(i - 1) /\ k \in 2..Len(s)
      BY <1>1, <2>2
    <3>2. t[k] = s[k - 1]
      BY <1>2, <1>5, <1>6, <3>1
    <3> QED
      BY <1>1, <2>2, <3>1, <3>2
  <2>3. CASE k # 1 /\ k > i
    <3>1. /\ k \in 2..Len(s) /\ k - 1 \in i..(Len(s) - 1)
          /\ (k - 1) - (i - 1) = k - i /\ k - i \in 1..(Len(s) - i) /\ i + (k - i) = k
      BY <1>1, <2>3
    <3>2. t[k] = s[k]
      BY <1>3, <1>5, <1>6, <3>1
    <3> QED
      BY <1>1, <2>3, <3>2
  <2> QED
    BY <1>1, <2>1, <2>2, <2>3
<1>8. \A k, l \in 1..Len(s) : Source(k) = Source(l) => k = l
  BY <1>1
<1>9. \A k, l \in 1..Len(s) : s[k] = s[l] => k = l
  BY <1>1 DEF IsInjective
<1> HIDE DEF Source
<1>10. DOMAIN t = 1..Len(s)
  BY <1>6
<1>11. IsInjective(t)
  BY <1>7, <1>8, <1>9, <1>10 DEF IsInjective
<1> QED
  BY <1>6, <1>11 DEF t
=============================================================================
