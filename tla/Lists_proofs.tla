---------------------------- MODULE Lists_proofs ----------------------------
(***************************************************************************)
(* What the proofs of the other modules need of lists: their elements, and *)
(* what is left of a list that a query filters.  Only is defined by        *)
(* recursion on the positions of the list, so that its facts are proved by *)
(* induction on them.                                                      *)
(***************************************************************************)
EXTENDS Lists, SequencesExt, SequenceTheorems, FiniteSetTheorems, WellFoundedInduction,
        TLAPS

(***************************************************************************)
(* Induction over the naturals, for sets in place of predicates.           *)
(***************************************************************************)

\* Every set of naturals that is not empty has a least element.
LEMMA LeastElement ==
  ASSUME NEW T, T \subseteq Nat, T # {}
  PROVE  \E n \in T : \A m \in T : n <= m
<1>1. IsWellFoundedOn(OpToRel(<, Nat), Nat)
  BY NatLessThanWellFounded
<1>2. PICK n \in T : \A m \in T : ~(<<m, n>> \in OpToRel(<, Nat))
  BY <1>1, WFMin
<1>3. ASSUME NEW m \in T PROVE n <= m
  <2>1. m \in Nat /\ n \in Nat
    OBVIOUS
  <2>2. ~(m < n)
    BY <1>2, <2>1 DEF OpToRel
  <2> QED
    BY <2>1, <2>2
<1> QED
  BY <1>3

\* A set that has zero and, up to N, the successor of each of its elements has
\* all numbers up to N.
LEMMA BoundedInduction ==
  ASSUME NEW N \in Nat, NEW S, 0 \in S,
         \A n \in 0..N : n # 0 /\ n - 1 \in S => n \in S
  PROVE  0..N \subseteq S
<1> SUFFICES ASSUME (0..N) \ S # {}
             PROVE  FALSE
  OBVIOUS
<1> DEFINE T == (0..N) \ S
<1>1. PICK n \in T : \A m \in T : n <= m
  <2>1. T \subseteq Nat /\ T # {}
    OBVIOUS
  <2> HIDE DEF T
  <2> QED
    BY <2>1, LeastElement
<1>2. n - 1 \in 0..N /\ ~(n <= n - 1)
  OBVIOUS
<1> QED
  BY <1>1, <1>2

\* The same over the subsets of a finite set: what has a set of which it has
\* every set with one element less, has all subsets.
LEMMA SubsetInduction ==
  ASSUME NEW S, IsFiniteSet(S), NEW C, {} \in C,
         \A T \in SUBSET S : T # {} /\ (\A x \in T : T \ {x} \in C) => T \in C
  PROVE  SUBSET S \subseteq C
<1> SUFFICES ASSUME NEW U \in SUBSET S, U \notin C PROVE FALSE
  OBVIOUS
<1> DEFINE Sizes == {Cardinality(T) : T \in (SUBSET S) \ C}
<1>1. \A T \in SUBSET S : IsFiniteSet(T) /\ Cardinality(T) \in Nat
  BY FS_Subset, FS_CardinalityType
<1>2. Sizes \subseteq Nat /\ Sizes # {}
  BY <1>1
<1>3. PICK n \in Sizes : \A m \in Sizes : n <= m
  <2> HIDE DEF Sizes
  <2> QED
    BY <1>2, LeastElement
<1>4. PICK T \in (SUBSET S) \ C : n = Cardinality(T)
  OBVIOUS
<1>5. PICK x \in T : T \ {x} \notin C
  BY <1>4
<1>6. T \ {x} \in (SUBSET S) \ C /\ Cardinality(T \ {x}) = n - 1 /\ n \in Nat
  BY <1>1, <1>4, <1>5, FS_RemoveElement
<1>7. n <= n - 1
  BY <1>3, <1>6
<1> QED
  BY <1>6, <1>7

(***************************************************************************)
(* The elements of a list.                                                 *)
(***************************************************************************)

\* The elements of a list are of the type of the list.
LEMMA ElementsTyped ==
  ASSUME NEW S, NEW s \in Seq(S)
  PROVE  ToSet(s) \subseteq S
BY DEF ToSet

\* The head of a list that is not empty is one of its elements.
LEMMA HeadIsElement ==
  ASSUME NEW S, NEW s \in Seq(S), s # <<>>
  PROVE  Head(s) \in ToSet(s)
<1>1. 1 \in DOMAIN s /\ Head(s) = s[1]
  OBVIOUS
<1> QED
  BY <1>1 DEF ToSet

\* Two lists put together have the elements of both.
LEMMA ElementsOfConcat ==
  ASSUME NEW S, NEW s \in Seq(S), NEW t \in Seq(S)
  PROVE  ToSet(s \o t) = ToSet(s) \cup ToSet(t)
<1>1. ASSUME NEW x \in ToSet(s \o t) PROVE x \in ToSet(s) \cup ToSet(t)
  <2>1. PICK i \in DOMAIN (s \o t) : (s \o t)[i] = x
    BY DEF ToSet
  <2>2. CASE i <= Len(s)
    BY <2>1, <2>2 DEF ToSet
  <2>3. CASE i > Len(s)
    <3>1. i - Len(s) \in DOMAIN t /\ t[i - Len(s)] = x
      BY <2>1, <2>3
    <3> QED
      BY <3>1 DEF ToSet
  <2> QED
    BY <2>2, <2>3
<1>2. ASSUME NEW x \in ToSet(s) PROVE x \in ToSet(s \o t)
  <2>1. PICK i \in DOMAIN s : s[i] = x
    BY DEF ToSet
  <2>2. i \in DOMAIN (s \o t) /\ (s \o t)[i] = x
    BY <2>1
  <2> QED
    BY <2>2 DEF ToSet
<1>3. ASSUME NEW x \in ToSet(t) PROVE x \in ToSet(s \o t)
  <2>1. PICK i \in DOMAIN t : t[i] = x
    BY DEF ToSet
  <2>2. Len(s) + i \in DOMAIN (s \o t) /\ (s \o t)[Len(s) + i] = x
    BY <2>1
  <2> QED
    BY <2>2 DEF ToSet
<1> QED
  BY <1>1, <1>2, <1>3

\* One more element.
LEMMA ElementsOfAppend ==
  ASSUME NEW S, NEW s \in Seq(S), NEW x \in S
  PROVE  ToSet(Append(s, x)) = ToSet(s) \cup {x}
<1>1. Append(s, x) = s \o <<x>> /\ <<x>> \in Seq(S)
  OBVIOUS
<1>2. ToSet(<<x>>) = {x}
  BY DEF ToSet
<1>3. ToSet(s \o <<x>>) = ToSet(s) \cup ToSet(<<x>>)
  BY <1>1, ElementsOfConcat
<1> QED
  BY <1>1, <1>2, <1>3

(***************************************************************************)
(* Lists without repetition.                                               *)
(***************************************************************************)

\* A list without repetition has as many elements as positions.
LEMMA ElementsCounted ==
  ASSUME NEW S, NEW s \in Seq(S), \A i, j \in DOMAIN s : i # j => s[i] # s[j]
  PROVE  IsFiniteSet(ToSet(s)) /\ Cardinality(ToSet(s)) = Len(s)
<1>1. Len(s) \in Nat /\ DOMAIN s = 1..Len(s)
  OBVIOUS
<1> DEFINE n == Len(s)
<1> HIDE DEF n
<1>2. IsFiniteSet(1..n) /\ Cardinality(1..n) = n
  <2>1. IsFiniteSet(1..n) /\ Cardinality(1..n) = IF 1 > n THEN 0 ELSE n - 1 + 1
    BY <1>1, FS_Interval DEF n
  <2> QED
    BY <1>1, <2>1 DEF n
<1>3. s \in Surjection(1..n, ToSet(s)) /\ s \in Injection(1..n, ToSet(s))
  <2>1. s \in [1..n -> ToSet(s)]
    BY <1>1 DEF ToSet, n
  <2>2. \A x \in ToSet(s) : \E i \in 1..n : s[i] = x
    BY <1>1 DEF ToSet, n
  <2>3. \A i, j \in 1..n : s[i] = s[j] => i = j
    BY <1>1 DEF n
  <2> QED
    BY <2>1, <2>2, <2>3 DEF Surjection, Injection, IsInjective
<1>4. IsFiniteSet(ToSet(s)) /\ Cardinality(ToSet(s)) = n
  BY <1>2, <1>3, FS_Surjection
<1> QED
  BY <1>4 DEF n

\* If it is as long as a set it is taken from, it has all of the set.
LEMMA ElementsComplete ==
  ASSUME NEW S, IsFiniteSet(S), NEW s \in Seq(S),
         \A i, j \in DOMAIN s : i # j => s[i] # s[j], Len(s) = Cardinality(S)
  PROVE  ToSet(s) = S
<1>1. ToSet(s) \in SUBSET S /\ Cardinality(ToSet(s)) = Len(s)
  BY ElementsTyped, ElementsCounted
<1> QED
  BY <1>1, FS_Subset

\* A list has its head and the elements of its tail.
LEMMA HeadAndTail ==
  ASSUME NEW S, NEW s \in Seq(S), s # <<>>
  PROVE  ToSet(s) = {Head(s)} \cup ToSet(Tail(s))
<1>1. <<Head(s)>> \in Seq(S) /\ Tail(s) \in Seq(S) /\ s = <<Head(s)>> \o Tail(s)
  OBVIOUS
<1>2. ToSet(<<Head(s)>>) = {Head(s)}
  BY DEF ToSet
<1>3. ToSet(<<Head(s)>> \o Tail(s)) = ToSet(<<Head(s)>>) \cup ToSet(Tail(s))
  BY <1>1, ElementsOfConcat
<1> QED
  BY <1>1, <1>2, <1>3

(***************************************************************************)
(* What Only keeps.                                                        *)
(***************************************************************************)

\* The function that Only computes: what is left of the beginnings of the list.
Beginnings(s, S) == CHOOSE kept : kept =
  [i \in 0..Len(s) |-> IF i = 0 THEN <<>>
                       ELSE IF s[i] \in S THEN Append(kept[i - 1], s[i])
                       ELSE kept[i - 1]]

\* It exists: it is built one element at a time.
LEMMA BeginningsExist ==
  ASSUME NEW S, NEW R, NEW s \in Seq(R)
  PROVE  Beginnings(s, S) =
           [i \in 0..Len(s) |-> IF i = 0 THEN <<>>
                                ELSE IF s[i] \in S THEN Append(Beginnings(s, S)[i - 1], s[i])
                                ELSE Beginnings(s, S)[i - 1]]
<1> DEFINE IsKept(f, k) ==
             f = [i \in 0..k |-> IF i = 0 THEN <<>>
                                 ELSE IF s[i] \in S THEN Append(f[i - 1], s[i])
                                 ELSE f[i - 1]]
           T == {k \in 0..Len(s) : \E f : IsKept(f, k)}
<1>1. 0 \in T
  <2>1. IsKept([i \in 0..0 |-> <<>>], 0)
    OBVIOUS
  <2>2. 0 \in 0..Len(s)
    OBVIOUS
  <2> HIDE DEF IsKept
  <2> QED
    BY <2>1, <2>2
<1>2. ASSUME NEW k \in 0..Len(s), k # 0, k - 1 \in T PROVE k \in T
  <2>1. PICK f : IsKept(f, k - 1)
    BY <1>2
  <2> DEFINE g == [i \in 0..k |-> IF i < k THEN f[i]
                                  ELSE IF s[k] \in S THEN Append(f[k - 1], s[k])
                                  ELSE f[k - 1]]
  <2>2. ASSUME NEW i \in 0..k
        PROVE  g[i] = IF i = 0 THEN <<>>
                      ELSE IF s[i] \in S THEN Append(g[i - 1], s[i]) ELSE g[i - 1]
    <3>1. CASE i = 0
      <4>1. g[0] = f[0] /\ 0 \in 0..(k - 1)
        BY <1>2
      <4>2. f[0] = <<>>
        BY <2>1, <4>1
      <4> QED
        BY <3>1, <4>1, <4>2
    <3>2. CASE i # 0 /\ i < k
      <4>1. i \in 0..(k - 1) /\ g[i] = f[i] /\ g[i - 1] = f[i - 1]
        BY <3>2
      <4>2. f[i] = IF s[i] \in S THEN Append(f[i - 1], s[i]) ELSE f[i - 1]
        BY <2>1, <3>2, <4>1
      <4> QED
        BY <3>2, <4>1, <4>2
    <3>3. CASE i = k
      <4>1. g[k - 1] = f[k - 1] /\ k # 0
        BY <1>2
      <4> QED
        BY <3>3, <4>1
    <3> QED
      BY <3>1, <3>2, <3>3
  <2>3. IsKept(g, k)
    <3> HIDE DEF g
    <3>1. g = [i \in 0..k |-> g[i]]
      BY DEF g
    <3> QED
      BY <2>2, <3>1
  <2> QED
    BY <2>3
<1>3. Len(s) \in T
  <2>1. Len(s) \in Nat
    OBVIOUS
  <2> HIDE DEF T
  <2>2. 0..Len(s) \subseteq T
    BY <1>1, <1>2, <2>1, BoundedInduction
  <2> QED
    BY <2>1, <2>2
<1>4. PICK f : IsKept(f, Len(s))
  BY <1>3
<1> QED
  BY <1>4 DEF Beginnings

\* Only keeps exactly the elements that are in the set, in a list that is no
\* longer.
LEMMA OnlyFacts ==
  ASSUME NEW S, NEW R, NEW s \in Seq(R)
  PROVE  /\ Only(s, S) \in Seq(R)
         /\ ToSet(Only(s, S)) = ToSet(s) \cap S
         /\ Len(Only(s, S)) <= Len(s)
<1> DEFINE f == Beginnings(s, S)
           N == Len(s)
           T == {k \in 0..N : /\ f[k] \in Seq(R) /\ Len(f[k]) <= k
                              /\ ToSet(f[k]) = {s[i] : i \in 1..k} \cap S}
<1>1. Only(s, S) = f[N]
  BY DEF Only, Beginnings
<1>2. \A i \in 0..N : f[i] = IF i = 0 THEN <<>>
                             ELSE IF s[i] \in S THEN Append(f[i - 1], s[i]) ELSE f[i - 1]
  <2>1. f = [i \in 0..N |-> IF i = 0 THEN <<>>
                            ELSE IF s[i] \in S THEN Append(f[i - 1], s[i]) ELSE f[i - 1]]
    BY BeginningsExist
  <2> HIDE DEF f, N
  <2> QED
    BY <2>1
<1> HIDE DEF f
<1>3. 0 \in T
  <2>1. N \in Nat /\ 0 \in 0..N
    OBVIOUS
  <2>2. f[0] = <<>>
    BY <1>2, <2>1
  <2>3. ToSet(<<>>) = {} /\ {s[i] : i \in 1..0} \cap S = {}
    BY DEF ToSet
  <2>4. <<>> \in Seq(R) /\ Len(<<>>) <= 0
    OBVIOUS
  <2> HIDE DEF N
  <2> QED
    BY <2>1, <2>2, <2>3, <2>4
<1>4. ASSUME NEW k \in 0..N, k # 0, k - 1 \in T PROVE k \in T
  <2>1. /\ f[k - 1] \in Seq(R) /\ Len(f[k - 1]) <= k - 1
        /\ ToSet(f[k - 1]) = {s[i] : i \in 1..(k - 1)} \cap S
    BY <1>4
  <2>2. s[k] \in R /\ {s[i] : i \in 1..k} = {s[i] : i \in 1..(k - 1)} \cup {s[k]}
    BY <1>4
  <2>3. CASE s[k] \notin S
    <3>1. f[k] = f[k - 1]
      BY <1>2, <1>4, <2>3
    <3> QED
      BY <2>1, <2>2, <2>3, <3>1
  <2>4. CASE s[k] \in S
    <3>1. f[k] = Append(f[k - 1], s[k])
      BY <1>2, <1>4, <2>4
    <3>2. ToSet(f[k]) = ToSet(f[k - 1]) \cup {s[k]}
      BY <2>1, <2>2, <3>1, ElementsOfAppend
    <3>3. f[k] \in Seq(R) /\ Len(f[k]) <= k
      BY <2>1, <2>2, <3>1
    <3> QED
      BY <2>1, <2>2, <2>4, <3>2, <3>3
  <2> QED
    BY <2>3, <2>4
<1>5. N \in T
  <2>1. N \in Nat
    OBVIOUS
  <2> HIDE DEF T, N
  <2>2. 0..N \subseteq T
    BY <1>3, <1>4, <2>1, BoundedInduction
  <2> QED
    BY <2>1, <2>2
<1>6. {s[i] : i \in 1..N} = ToSet(s)
  BY DEF ToSet
<1> QED
  BY <1>1, <1>5, <1>6
=============================================================================
