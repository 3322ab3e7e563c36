--------------------------- MODULE SelectionProofs ---------------------------
(***************************************************************************)
(* What the proofs about texts need of sequences: induction over the       *)
(* numbers up to a bound, functions defined step by step, and the one      *)
(* operator by which Texts takes lines and names out of a sequence.        *)
(***************************************************************************)
EXTENDS Texts, FiniteSetTheorems, TLAPS

(* Sets of positions are finite.                                           *)
LEMMA PositionsFinite ==
  ASSUME NEW n \in Nat, NEW at \in SUBSET (1..n)
  PROVE  IsFiniteSet(at) /\ Cardinality(at) \in Nat
  <1>1. IsFiniteSet(1..n)
    BY FS_Interval
  <1>2. IsFiniteSet(at)
    BY <1>1, FS_Subset
  <1> QED BY <1>2, FS_CardinalityType

(* How many positions of a set there are up to one of them: between 1 and  *)
(* the size of the set, more the later the position is.                    *)
LEMMA RankGrows ==
  ASSUME NEW n \in Nat, NEW at \in SUBSET (1..n), NEW i \in at
  PROVE  /\ IsFiniteSet(at) /\ Cardinality(at) \in Nat
         /\ Rank(at, i) \in 1..Cardinality(at)
         /\ \A k \in at : i < k => Rank(at, i) < Rank(at, k)
  <1>1. IsFiniteSet(at) /\ Cardinality(at) \in Nat
    BY PositionsFinite
  <1> DEFINE upto(k) == {j \in at : j <= k}
  <1>2. ASSUME NEW k \in at
        PROVE  IsFiniteSet(upto(k)) /\ Cardinality(upto(k)) \in Nat
               /\ Cardinality(upto(k)) <= Cardinality(at)
    BY <1>1, FS_Subset, FS_CardinalityType
  <1>3. Cardinality(upto(i)) # 0
    <2>1. i \in upto(i)
      OBVIOUS
    <2> QED BY <1>2, <2>1, FS_EmptySet
  <1>4. ASSUME NEW k \in at, i < k
        PROVE  Cardinality(upto(i)) < Cardinality(upto(k))
    <2>1. upto(i) \in SUBSET upto(k) /\ k \in upto(k) /\ k \notin upto(i)
      <3>1. \A j \in at : j \in Int
        OBVIOUS
      <3>2. i \in Int /\ k \in Int /\ i < k
        BY <1>4, <3>1
      <3>3. (\A j \in at : j <= i => j <= k) /\ k <= k /\ ~(k <= i)
        BY <3>1, <3>2
      <3> QED BY <3>3, Zenon
    <2> HIDE DEF upto
    <2> QED BY <1>2, <2>1, FS_Subset
  <1> HIDE DEF upto
  <1>5. \A k \in at : Rank(at, k) = Cardinality(upto(k))
    BY DEF Rank, upto
  <1> QED BY <1>1, <1>2, <1>3, <1>4, <1>5

(* So the positions of a set are numbered from 1 on, in order.             *)
LEMMA PositionsInOrder ==
  ASSUME NEW n \in Nat, NEW at \in SUBSET (1..n)
  PROVE  /\ Cardinality(at) \in Nat
         /\ \A j \in 1..Cardinality(at) : Position(at, j) \in at /\ Rank(at, Position(at, j)) = j
         /\ \A i \in at : Rank(at, i) \in 1..Cardinality(at) /\ Position(at, Rank(at, i)) = i
         /\ \A j, k \in 1..Cardinality(at) : j < k <=> Position(at, j) < Position(at, k)
  <1>1. IsFiniteSet(at) /\ Cardinality(at) \in Nat
    BY PositionsFinite
  <1> DEFINE rank == [i \in at |-> Rank(at, i)]
  <1>2. \A i \in at : Rank(at, i) \in 1..Cardinality(at)
    BY RankGrows
  <1>3. ASSUME NEW i \in at, NEW k \in at, Rank(at, i) = Rank(at, k)
        PROVE  i = k
    <2>1. i < k => Rank(at, i) < Rank(at, k)
      BY RankGrows
    <2>2. k < i => Rank(at, k) < Rank(at, i)
      BY RankGrows
    <2>3. Rank(at, i) \in Int /\ ~(Rank(at, i) < Rank(at, i))
      BY <1>1, <1>2
    <2>4. i \in Int /\ k \in Int
      OBVIOUS
    <2> QED BY <1>3, <2>1, <2>2, <2>3, <2>4
  <1>4. rank \in Injection(at, 1..Cardinality(at))
    BY <1>3, RankGrows DEF Injection, IsInjective
  <1>5. IsFiniteSet(1..Cardinality(at)) /\ Cardinality(1..Cardinality(at)) = Cardinality(at)
    BY <1>1, FS_Interval
  <1>6. rank \in Surjection(at, 1..Cardinality(at))
    BY <1>4, <1>5, FS_Injection
  <1>7. ASSUME NEW j \in 1..Cardinality(at)
        PROVE  Position(at, j) \in at /\ Rank(at, Position(at, j)) = j
    <2>1. \E i \in at : Rank(at, i) = j
      BY <1>6 DEF Surjection
    <2> QED BY <2>1 DEF Position
  <1>8. ASSUME NEW i \in at
        PROVE  Rank(at, i) \in 1..Cardinality(at) /\ Position(at, Rank(at, i)) = i
    BY <1>3, <1>7, RankGrows
  <1>9. ASSUME NEW j \in 1..Cardinality(at), NEW k \in 1..Cardinality(at)
        PROVE  j < k <=> Position(at, j) < Position(at, k)
    <2> DEFINE p == Position(at, j)
               q == Position(at, k)
    <2>1. p \in at /\ q \in at /\ Rank(at, p) = j /\ Rank(at, q) = k
      BY <1>7
    <2> HIDE DEF p, q
    <2>2. p < q => j < k
      BY <2>1, RankGrows
    <2>3. q < p => k < j
      BY <2>1, RankGrows
    <2>4. p \in Int /\ q \in Int /\ (p = q => j = k)
      BY <2>1
    <2>5. j < k <=> p < q
      BY <2>2, <2>3, <2>4
    <2> QED BY <2>5 DEF p, q
  <1> QED BY <1>1, <1>7, <1>8, <1>9

(* A set of positions that is not empty has a first one.                   *)
LEMMA FirstPosition ==
  ASSUME NEW n \in Nat, NEW at \in SUBSET (1..n), at # {}
  PROVE  \E i \in at : \A k \in at : i <= k
  <1>1. 1 \in 1..Cardinality(at) /\ Cardinality(at) \in Nat
    <2>1. PICK i \in at : TRUE
      OBVIOUS
    <2>2. Rank(at, i) \in 1..Cardinality(at) /\ Cardinality(at) \in Nat
      BY PositionsInOrder
    <2> QED BY <2>2
  <1>2. Position(at, 1) \in at /\ \A k \in at : k \in Int
    BY <1>1, PositionsInOrder
  <1>3. ASSUME NEW k \in at PROVE Position(at, 1) <= k
    <2>1. Rank(at, k) \in 1..Cardinality(at) /\ Position(at, Rank(at, k)) = k
      BY PositionsInOrder
    <2>2. Rank(at, k) = 1 \/ 1 < Rank(at, k)
      BY <2>1
    <2>3. CASE Rank(at, k) = 1
      BY <2>1, <2>3
    <2>4. CASE 1 < Rank(at, k)
      <3>1. Position(at, 1) < k
        BY <1>1, <2>1, <2>4, PositionsInOrder
      <3>2. Position(at, 1) \in Int /\ k \in Int
        BY <1>2
      <3> QED BY <3>1, <3>2
    <2> QED BY <2>2, <2>3, <2>4
  <1> QED BY <1>2, <1>3

(* Induction up to a bound, for a property given as the set of the numbers *)
(* that have it.                                                           *)
LEMMA InductionUpTo ==
  ASSUME NEW n \in Nat, NEW T, 0 \in T, \A i \in 1..n : i - 1 \in T => i \in T
  PROVE  \A i \in 0..n : i \in T
  <1> DEFINE out == {i \in 1..n : i \notin T}
  <1>1. SUFFICES ASSUME out # {} PROVE FALSE
    OBVIOUS
  <1>2. PICK i \in out : \A k \in out : i <= k
    BY <1>1, FirstPosition
  <1>3. i - 1 \in T
    BY <1>2
  <1> QED BY <1>2, <1>3

-----------------------------------------------------------------------------
(* A function that numbers the members of a set in order numbers them as   *)
(* Position does.                                                          *)
LEMMA PositionsUnique ==
  ASSUME NEW n \in Nat, NEW at \in SUBSET (1..n), NEW m \in Nat, NEW q \in [1..m -> at],
         \A j, k \in 1..m : j < k => q[j] < q[k],
         \A i \in at : \E j \in 1..m : q[j] = i
  PROVE  m = Cardinality(at) /\ \A j \in 1..m : q[j] = Position(at, j)
  <1>0. \A i \in at : i \in Int
    OBVIOUS
  <1>1. \A j, k \in 1..m : q[j] <= q[k] <=> j <= k
    <2> TAKE j, k \in 1..m
    <2>1. j < k \/ j = k \/ k < j
      OBVIOUS
    <2>2. q[j] \in Int /\ q[k] \in Int
      BY <1>0
    <2> QED BY <2>1, <2>2
  <1>2. ASSUME NEW j \in 1..m PROVE Rank(at, q[j]) = j
    <2> DEFINE upto == {k \in at : k <= q[j]}
               front == [k \in 1..j |-> q[k]]
    <2>1. front \in [1..j -> upto]
      BY <1>1
    <2>2. \A k, l \in 1..j : front[k] = front[l] => k = l
      <3> TAKE k, l \in 1..j
      <3>1. k \in 1..m /\ l \in 1..m
        OBVIOUS
      <3>2. q[k] \in Int /\ q[l] \in Int
        BY <1>0, <3>1
      <3>3. q[k] = q[l] => k <= l /\ l <= k
        BY <1>1, <3>1, <3>2
      <3> QED BY <3>1, <3>3
    <2>3. \A i \in upto : \E k \in 1..j : front[k] = i
      <3> TAKE i \in upto
      <3>1. PICK k \in 1..m : q[k] = i
        OBVIOUS
      <3>2. k <= j
        BY <1>1, <3>1
      <3> QED BY <3>1, <3>2
    <2>4. front \in Bijection(1..j, upto)
      BY <2>1, <2>2, <2>3 DEF Bijection, Injection, Surjection, IsInjective
    <2> HIDE DEF front, upto
    <2>5. Cardinality(upto) = j
      BY <2>4, FS_CountingElements DEF ExistsBijection
    <2> QED BY <2>5 DEF Rank, upto
  <1>3. \A j \in 1..m : q[j] = Position(at, j)
    BY <1>2, PositionsInOrder
  <1>4. q \in Bijection(1..m, at)
    <2>1. \A j, k \in 1..m : q[j] = q[k] => j = k
      BY <1>2
    <2> QED BY <2>1 DEF Bijection, Injection, Surjection, IsInjective
  <1>5. Cardinality(at) = m
    BY <1>4, FS_CountingElements DEF ExistsBijection
  <1> QED BY <1>3, <1>5

(* What is selected is a sequence of the items at the positions, and of    *)
(* nothing else; it only depends on them.                                  *)
LEMMA SelectedItems ==
  ASSUME NEW S, NEW s \in Seq(S), NEW at \in SUBSET DOMAIN s
  PROVE  /\ Selected(s, at) \in Seq(S)
         /\ DOMAIN Selected(s, at) = 1..Cardinality(at)
         /\ Len(Selected(s, at)) = Cardinality(at) /\ Cardinality(at) \in Nat
         /\ \A j \in 1..Cardinality(at) : Position(at, j) \in at /\ Rank(at, Position(at, j)) = j
         /\ \A j \in 1..Cardinality(at) : Selected(s, at)[j] = s[Position(at, j)]
         /\ \A i \in at : /\ Rank(at, i) \in DOMAIN Selected(s, at)
                          /\ Position(at, Rank(at, i)) = i
                          /\ Selected(s, at)[Rank(at, i)] = s[i]
  <1>1. DOMAIN s = 1..Len(s) /\ Len(s) \in Nat /\ \A i \in DOMAIN s : s[i] \in S
    OBVIOUS
  <1>2. /\ Cardinality(at) \in Nat
        /\ \A j \in 1..Cardinality(at) : Position(at, j) \in at /\ Rank(at, Position(at, j)) = j
        /\ \A i \in at : Rank(at, i) \in 1..Cardinality(at) /\ Position(at, Rank(at, i)) = i
    BY <1>1, PositionsInOrder
  <1>3. DOMAIN Selected(s, at) = 1..Cardinality(at)
    BY DEF Selected
  <1>4. \A j \in 1..Cardinality(at) :
          Selected(s, at)[j] = s[Position(at, j)] /\ Selected(s, at)[j] \in S
    BY <1>1, <1>2 DEF Selected
  <1>5. Selected(s, at) \in Seq(S) /\ Len(Selected(s, at)) = Cardinality(at)
    <2>1. Selected(s, at) \in [1..Cardinality(at) -> S]
      BY <1>3, <1>4 DEF Selected
    <2> HIDE DEF Selected
    <2> QED BY <1>2, <2>1
  <1> QED BY <1>2, <1>3, <1>4, <1>5

LEMMA SelectedSame ==
  ASSUME NEW S, NEW s \in Seq(S), NEW t \in Seq(S), NEW at \in SUBSET DOMAIN s,
         at \subseteq DOMAIN t, \A i \in at : s[i] = t[i]
  PROVE  Selected(s, at) = Selected(t, at)
  <1>1. \A j \in 1..Cardinality(at) : s[Position(at, j)] = t[Position(at, j)]
    BY SelectedItems
  <1> QED BY <1>1 DEF Selected

(* Items that stand elsewhere, but in the same order, are selected as the  *)
(* same sequence.                                                          *)
LEMMA SelectedMoved ==
  ASSUME NEW S, NEW s \in Seq(S), NEW t \in Seq(S), NEW at \in SUBSET DOMAIN s,
         NEW to \in SUBSET DOMAIN t, NEW move \in [at -> to],
         \A j \in to : \E i \in at : move[i] = j,
         \A i, k \in at : i < k => move[i] < move[k],
         \A i \in at : t[move[i]] = s[i]
  PROVE  Selected(t, to) = Selected(s, at)
  <1> DEFINE m == Cardinality(at)
             q == [j \in 1..m |-> move[Position(at, j)]]
  <1>1. DOMAIN s = 1..Len(s) /\ Len(s) \in Nat /\ DOMAIN t = 1..Len(t) /\ Len(t) \in Nat
    OBVIOUS
  <1>2. /\ m \in Nat
        /\ \A j \in 1..m : Position(at, j) \in at
        /\ \A i \in at : Rank(at, i) \in 1..m /\ Position(at, Rank(at, i)) = i
        /\ \A j, k \in 1..m : j < k => Position(at, j) < Position(at, k)
    BY <1>1, PositionsInOrder
  <1>3. to \in SUBSET (1..Len(t))
    BY <1>1
  <1>4. q \in [1..m -> to]
    BY <1>2
  <1>5. \A j, k \in 1..m : j < k => q[j] < q[k]
    BY <1>2
  <1>6. \A i \in to : \E j \in 1..m : q[j] = i
    <2> TAKE i \in to
    <2>1. PICK k \in at : move[k] = i
      OBVIOUS
    <2>2. q[Rank(at, k)] = i /\ Rank(at, k) \in 1..m
      BY <1>2, <2>1
    <2> QED BY <2>2
  <1>7. \A j \in 1..m : q[j] = move[Position(at, j)] /\ t[q[j]] = s[Position(at, j)]
    BY <1>2
  <1> HIDE DEF q, m
  <1>8. m = Cardinality(to) /\ \A j \in 1..m : q[j] = Position(to, j)
    BY <1>1, <1>2, <1>3, <1>4, <1>5, <1>6, PositionsUnique
  <1> QED BY <1>7, <1>8 DEF Selected, m

(* All items make up the sequence again.                                   *)
LEMMA SelectedAll ==
  ASSUME NEW S, NEW s \in Seq(S)
  PROVE  Selected(s, DOMAIN s) = s
  <1> DEFINE q == [j \in 1..Len(s) |-> j]
  <1>1. DOMAIN s = 1..Len(s) /\ Len(s) \in Nat
    OBVIOUS
  <1>2. /\ q \in [1..Len(s) -> 1..Len(s)]
        /\ \A j, k \in 1..Len(s) : j < k => q[j] < q[k]
        /\ \A i \in 1..Len(s) : \E j \in 1..Len(s) : q[j] = i
    OBVIOUS
  <1>3. \A j \in 1..Len(s) : q[j] = j
    OBVIOUS
  <1> HIDE DEF q
  <1>4. /\ Len(s) = Cardinality(1..Len(s))
        /\ \A j \in 1..Len(s) : q[j] = Position(1..Len(s), j)
    BY <1>1, <1>2, PositionsUnique
  <1>5. Selected(s, 1..Len(s)) = [j \in 1..Len(s) |-> s[j]]
    BY <1>3, <1>4 DEF Selected
  <1> QED BY <1>1, <1>5

(* The items of two sequences one after the other.                         *)
LEMMA Appended ==
  ASSUME NEW S, NEW s \in Seq(S), NEW t \in Seq(S)
  PROVE  /\ s \o t \in Seq(S)
         /\ Len(s \o t) = Len(s) + Len(t)
         /\ \A k \in 1..Len(s) : (s \o t)[k] = s[k]
         /\ \A k \in 1..Len(t) : (s \o t)[Len(s) + k] = t[k]
  OBVIOUS

-----------------------------------------------------------------------------
(* The names left after some are dropped are the others, in the sequence   *)
(* the names were in; nothing is moved when none is dropped.               *)
LEMMA DroppingNames ==
  ASSUME NEW S, NEW s \in Seq(S), NEW D
  PROVE  /\ Dropping(s, D) \in Seq(S)
         /\ \A x : (\E j \in DOMAIN Dropping(s, D) : Dropping(s, D)[j] = x)
                  <=> (\E i \in DOMAIN s : s[i] = x) /\ x \notin D
         /\ (\A i \in DOMAIN s : s[i] \notin D) => Dropping(s, D) = s
  <1> DEFINE at == {i \in DOMAIN s : s[i] \notin D}
  <1>1. at \in SUBSET DOMAIN s /\ Dropping(s, D) = Selected(s, at)
    BY DEF Dropping
  <1>2. (\A i \in DOMAIN s : s[i] \notin D) => at = DOMAIN s
    OBVIOUS
  <1>3. \A i \in DOMAIN s : i \in at <=> s[i] \notin D
    OBVIOUS
  <1> HIDE DEF at
  <1>4. Selected(s, at) \in Seq(S)
    BY <1>1, SelectedItems
  <1>5. ASSUME NEW x
        PROVE  (\E j \in DOMAIN Selected(s, at) : Selected(s, at)[j] = x)
               <=> (\E i \in DOMAIN s : s[i] = x) /\ x \notin D
    <2>1. ASSUME NEW j \in DOMAIN Selected(s, at), Selected(s, at)[j] = x
          PROVE  (\E i \in DOMAIN s : s[i] = x) /\ x \notin D
      <3>1. Position(at, j) \in at /\ s[Position(at, j)] = x
        BY <1>1, <2>1, SelectedItems
      <3> QED BY <1>1, <1>3, <3>1
    <2>2. ASSUME NEW i \in DOMAIN s, s[i] = x, x \notin D
          PROVE  \E j \in DOMAIN Selected(s, at) : Selected(s, at)[j] = x
      <3>1. i \in at
        BY <1>3, <2>2
      <3> QED BY <1>1, <2>2, <3>1, SelectedItems
    <2> QED BY <2>1, <2>2
  <1>6. (\A i \in DOMAIN s : s[i] \notin D) => Selected(s, at) = s
    BY <1>2, SelectedAll
  <1> QED BY <1>1, <1>4, <1>5, <1>6

(* Dropping some names and then others is dropping all of them.            *)
LEMMA DroppingTwice ==
  ASSUME NEW S, NEW s \in Seq(S), NEW D, NEW E
  PROVE  Dropping(Dropping(s, D), E) = Dropping(s, D \cup E)
  <1> DEFINE once == {i \in DOMAIN s : s[i] \notin D}
             both == {i \in DOMAIN s : s[i] \notin D \cup E}
             t == Selected(s, once)
             left == {j \in DOMAIN t : t[j] \notin E}
             move == [i \in both |-> Rank(once, i)]
  <1>1. /\ once \in SUBSET DOMAIN s /\ both \in SUBSET DOMAIN s /\ both \subseteq once
        /\ \A i \in once : i \in both <=> s[i] \notin E
        /\ DOMAIN s = 1..Len(s) /\ Len(s) \in Nat
    OBVIOUS
  <1>2. Dropping(s, D) = t /\ Dropping(s, D \cup E) = Selected(s, both)
    BY DEF Dropping
  <1>3. Dropping(t, E) = Selected(t, left)
    BY DEF Dropping
  <1>4. /\ left \subseteq DOMAIN t
        /\ \A j \in DOMAIN t : j \in left <=> t[j] \notin E
        /\ \A i \in both : move[i] = Rank(once, i) /\ DOMAIN move = both
    OBVIOUS
  <1> HIDE DEF once, both
  <1>5. /\ t \in Seq(S)
        /\ \A i \in once : Rank(once, i) \in DOMAIN t /\ t[Rank(once, i)] = s[i]
        /\ \A j \in DOMAIN t : Position(once, j) \in once /\ t[j] = s[Position(once, j)]
                               /\ Rank(once, Position(once, j)) = j
    BY <1>1, SelectedItems
  <1>7. \A i, k \in both : i < k => move[i] < move[k]
    BY <1>1, RankGrows
  <1>8. \A i \in both : t[move[i]] = s[i]
    BY <1>1, <1>5
  <1>9. move \in [both -> left]
    BY <1>1, <1>4, <1>5
  <1>10. \A j \in left : \E i \in both : move[i] = j
    <2> TAKE j \in left
    <2>1. Position(once, j) \in both
      BY <1>1, <1>4, <1>5
    <2>2. move[Position(once, j)] = j
      BY <1>4, <1>5, <2>1
    <2> QED BY <2>1, <2>2
  <1> HIDE DEF t, left, move
  <1>11. Selected(t, left) = Selected(s, both)
    <2>1. t \in Seq(S) /\ both \in SUBSET DOMAIN s /\ left \in SUBSET DOMAIN t
      BY <1>1, <1>4, <1>5
    <2> QED BY <2>1, <1>7, <1>8, <1>9, <1>10, SelectedMoved
  <1> QED BY <1>2, <1>3, <1>11

(* A name that is dropped anyway may as well not have been appended.       *)
LEMMA DroppingAppended ==
  ASSUME NEW S, NEW s \in Seq(S), NEW D, NEW d \in S, d \in D
  PROVE  Dropping(Append(s, d), D) = Dropping(s, D)
  <1> DEFINE t == Append(s, d)
             at == {i \in DOMAIN s : s[i] \notin D}
  <1>1. /\ t \in Seq(S) /\ DOMAIN t = 1..(Len(s) + 1) /\ t[Len(s) + 1] = d
        /\ DOMAIN s = 1..Len(s) /\ \A i \in DOMAIN s : t[i] = s[i]
    OBVIOUS
  <1> HIDE DEF t
  <1>2. {i \in DOMAIN t : t[i] \notin D} = at /\ at \subseteq DOMAIN t
    BY <1>1
  <1>3. Selected(t, at) = Selected(s, at)
    BY <1>1, <1>2, SelectedSame
  <1> QED BY <1>2, <1>3 DEF Dropping, t

-----------------------------------------------------------------------------
(* A function given step by step, as a loop computes its variable, exists. *)
StepsIn(step, n, V) == \A i \in 1..n, v \in V : step[i][v] \in V
Stepwise(f, n, start, step) == f[0] = start /\ \A i \in 1..n : f[i] = step[i][f[i - 1]]

LEMMA StepwiseExists ==
  ASSUME NEW n \in Nat, NEW V, NEW start \in V, NEW step, StepsIn(step, n, V)
  PROVE  \E f \in [0..n -> V] : Stepwise(f, n, start, step)
  <1> DEFINE T == {m \in 0..n : \E f \in [0..n -> V] : Stepwise(f, m, start, step)}
  <1>1. 0 \in T
    <2> DEFINE f == [i \in 0..n |-> start]
    <2>1. f \in [0..n -> V] /\ f[0] = start /\ 0 \in 0..n /\ 1..0 = {}
      OBVIOUS
    <2> HIDE DEF f
    <2>2. Stepwise(f, 0, start, step)
      BY <2>1 DEF Stepwise
    <2> QED BY <2>1, <2>2
  <1>2. ASSUME NEW m \in 1..n, m - 1 \in T PROVE m \in T
    <2>1. PICK f \in [0..n -> V] : Stepwise(f, m - 1, start, step)
      BY <1>2
    <2> DEFINE g == [f EXCEPT ![m] = step[m][f[m - 1]]]
    <2>2. g \in [0..n -> V]
      <3>1. step[m][f[m - 1]] \in V
        BY DEF StepsIn
      <3> QED BY <3>1
    <2>3. ASSUME NEW i \in 1..m PROVE g[i] = step[i][g[i - 1]]
      <3>1. i \in 0..n /\ i - 1 \in 0..n /\ i - 1 # m
        OBVIOUS
      <3>2. g[i - 1] = f[i - 1]
        BY <3>1
      <3>3. CASE i = m
        BY <3>1, <3>2, <3>3
      <3>4. CASE i # m
        <4>1. i \in 1..(m - 1)
          BY <3>4
        <4>2. f[i] = step[i][f[i - 1]]
          BY <2>1, <4>1 DEF Stepwise
        <4> QED BY <3>1, <3>2, <3>4, <4>2
      <3> QED BY <3>3, <3>4
    <2>4. g[0] = start
      BY <2>1 DEF Stepwise
    <2> HIDE DEF g
    <2>5. Stepwise(g, m, start, step) /\ m \in 0..n
      BY <2>3, <2>4 DEF Stepwise
    <2> QED BY <2>2, <2>5
  <1> HIDE DEF T
  <1>3. n \in T
    <2>1. n \in 0..n /\ \A m \in 1..n : m - 1 \in T => m \in T
      BY <1>2
    <2> QED BY <1>1, <2>1, InductionUpTo
  <1> QED BY <1>3 DEF T
=============================================================================
