---------------------------- MODULE ListsProofs ----------------------------
(* What sorting and filtering a list keep.                                   *)
EXTENDS Lists, FunctionTheorems, FiniteSetTheorems, SequenceTheorems, WellFoundedInduction, TLAPS

\* R orders S strictly.
Orders(R, S) ==
  /\ \A x \in S : <<x, x>> \notin R
  /\ \A x, y, z \in S : <<x, y>> \in R /\ <<y, z>> \in R => <<x, z>> \in R
  /\ \A x, y \in S : x = y \/ <<x, y>> \in R \/ <<y, x>> \in R

\* The number of those that precede it grows along the order.
LEMMA RankGrows ==
  ASSUME NEW S, NEW R, IsFiniteSet(S), Orders(R, S),
         NEW x \in S, NEW y \in S, <<x, y>> \in R
  PROVE  /\ Cardinality(Preceding(x, S, R)) \in Nat
         /\ Cardinality(Preceding(y, S, R)) \in Nat
         /\ Cardinality(Preceding(x, S, R)) < Cardinality(Preceding(y, S, R))
<1>1. /\ IsFiniteSet(Preceding(x, S, R)) /\ IsFiniteSet(Preceding(y, S, R))
  BY FS_Subset DEF Preceding
<1>2. Preceding(x, S, R) \subseteq Preceding(y, S, R)
  BY DEF Preceding, Orders
<1>3. x \in Preceding(y, S, R) /\ x \notin Preceding(x, S, R)
  BY DEF Preceding, Orders
<1>4. Cardinality(Preceding(x, S, R)) <= Cardinality(Preceding(y, S, R))
  BY <1>1, <1>2, FS_Subset
<1>5. Cardinality(Preceding(x, S, R)) # Cardinality(Preceding(y, S, R))
  BY <1>1, <1>2, <1>3, FS_Subset
<1>6. Cardinality(Preceding(x, S, R)) \in Nat /\ Cardinality(Preceding(y, S, R)) \in Nat
  BY <1>1, FS_CardinalityType
<1> QED
  BY <1>4, <1>5, <1>6

\* The ranks of the members are 1 to their number, each once.
LEMMA RanksAreAll ==
  ASSUME NEW S, NEW R, IsFiniteSet(S), Orders(R, S)
  PROVE  LET rank == [x \in S |-> Cardinality(Preceding(x, S, R)) + 1]
         IN  rank \in Bijection(S, 1..Cardinality(S))
<1> DEFINE n == Cardinality(S)
           rank == [x \in S |-> Cardinality(Preceding(x, S, R)) + 1]
<1>1. n \in Nat
  BY FS_CardinalityType
<1>2. ASSUME NEW x \in S
      PROVE  Cardinality(Preceding(x, S, R)) \in 0..(n - 1)
  <2>1. Preceding(x, S, R) \in SUBSET (S \ {x})
    BY DEF Preceding, Orders
  <2>2. IsFiniteSet(S \ {x}) /\ Cardinality(S \ {x}) = n - 1
    BY FS_RemoveElement
  <2>3. IsFiniteSet(Preceding(x, S, R)) /\ Cardinality(Preceding(x, S, R)) <= n - 1
    BY <2>1, <2>2, FS_Subset
  <2>4. Cardinality(Preceding(x, S, R)) \in Nat
    BY <2>3, FS_CardinalityType
  <2> QED
    BY <1>1, <2>3, <2>4
<1>3. rank \in [S -> 1..n]
  BY <1>1, <1>2
<1>4. ASSUME NEW x \in S, NEW y \in S, rank[x] = rank[y] PROVE x = y
  <2>1. Cardinality(Preceding(x, S, R)) = Cardinality(Preceding(y, S, R))
    BY <1>2, <1>4
  <2>2. CASE <<x, y>> \in R
    BY <2>1, <2>2, RankGrows
  <2>3. CASE <<y, x>> \in R
    BY <2>1, <2>3, RankGrows
  <2> QED
    BY <2>2, <2>3 DEF Orders
<1> HIDE DEF rank
<1>5. rank \in Injection(S, 1..n)
  BY <1>3, <1>4 DEF Injection, IsInjective
<1>6. IsFiniteSet(1..n) /\ Cardinality(1..n) = n
  BY <1>1, FS_Interval
<1>7. rank \in Surjection(S, 1..n)
  BY <1>5, <1>6, FS_Injection
<1> QED
  BY <1>5, <1>7 DEF Bijection, rank

\* An enumeration has each member once, in the order.
THEOREM EnumerationIsOrdered ==
  ASSUME NEW S, NEW R, IsFiniteSet(S), Orders(R, S)
  PROVE  LET n == Cardinality(S)
             f == Enumeration(S, R)
         IN  /\ n \in Nat
             /\ f \in [1..n -> S]
             /\ \A x \in S : \E i \in 1..n : f[i] = x
             /\ \A i, j \in 1..n : i < j => <<f[i], f[j]>> \in R
<1> DEFINE n == Cardinality(S)
           f == Enumeration(S, R)
           rank == [x \in S |-> Cardinality(Preceding(x, S, R)) + 1]
<1>1. n \in Nat
  BY FS_CardinalityType
<1>2. rank \in Bijection(S, 1..n)
  BY RanksAreAll
<1>3. /\ rank \in [S -> 1..n]
      /\ \A i \in 1..n : \E x \in S : rank[x] = i
      /\ \A x, y \in S : rank[x] = rank[y] => x = y
  BY <1>2 DEF Bijection, Injection, IsInjective, Surjection
<1>4. ASSUME NEW i \in 1..n PROVE f[i] \in S /\ rank[f[i]] = i
  <2>1. f[i] = CHOOSE x \in S : Cardinality(Preceding(x, S, R)) + 1 = i
    BY DEF Enumeration
  <2>2. \E x \in S : Cardinality(Preceding(x, S, R)) + 1 = i
    BY <1>3
  <2>3. f[i] \in S /\ Cardinality(Preceding(f[i], S, R)) + 1 = i
    BY <2>1, <2>2
  <2> QED
    BY <2>3
<1>5. f \in [1..n -> S]
  BY <1>4 DEF Enumeration
<1>6. ASSUME NEW x \in S PROVE \E i \in 1..n : f[i] = x
  <2> HIDE DEF f, rank
  <2>1. rank[x] \in 1..n
    BY <1>3
  <2> QED
    BY <1>3, <1>4, <2>1
<1>7. ASSUME NEW i \in 1..n, NEW j \in 1..n, i < j PROVE <<f[i], f[j]>> \in R
  <2>1. f[i] \in S /\ f[j] \in S /\ rank[f[i]] < rank[f[j]]
    <3> HIDE DEF f, rank
    <3> QED BY <1>1, <1>4, <1>7
  <2>2. f[i] # f[j]
    <3> HIDE DEF f, rank
    <3> QED BY <1>1, <1>4, <1>7
  <2>3. CASE <<f[j], f[i]>> \in R
    <3>1. /\ Cardinality(Preceding(f[i], S, R)) \in Nat
          /\ Cardinality(Preceding(f[j], S, R)) \in Nat
          /\ Cardinality(Preceding(f[j], S, R)) < Cardinality(Preceding(f[i], S, R))
      BY <2>1, <2>3, RankGrows
    <3> QED
      BY <2>1, <3>1
  <2> QED
    BY <2>1, <2>2, <2>3 DEF Orders
<1> QED
  BY <1>1, <1>5, <1>6, <1>7

\* A function on 1 to n is a list of length n.
LEMMA FunctionIsList ==
  ASSUME NEW V, NEW n \in Nat, NEW f \in [1..n -> V]
  PROVE  f \in Seq(V) /\ Len(f) = n /\ DOMAIN f = 1..n
<1>1. f \in Seq(V)
  BY SeqDef
<1>2. Len(f) \in Nat /\ DOMAIN f = 1..Len(f)
  BY <1>1, LenProperties
<1>3. 1..Len(f) = 1..n
  BY <1>2
<1>4. Len(f) = n
  BY <1>2, <1>3
<1> QED
  BY <1>1, <1>3, <1>4

\* A list of members of a set is one of members of a larger set.
LEMMA ListOfMore ==
  ASSUME NEW S, NEW T, S \subseteq T, NEW list \in Seq(S)
  PROVE  list \in Seq(T)
<1>1. \A n \in Nat : \A f \in [1..n -> S] : f \in [1..n -> T]
  OBVIOUS
<1> QED BY <1>1, SeqDef

\* A list has finitely many positions, as many as its length.
LEMMA PositionsAreFinite ==
  ASSUME NEW V, NEW list \in Seq(V)
  PROVE  IsFiniteSet(1..Len(list)) /\ Cardinality(1..Len(list)) = Len(list)
<1>1. Len(list) \in Nat
  BY LenProperties
<1> QED
  BY <1>1, FS_Interval

\* The values of a function on a finite set are finitely many.
LEMMA ImageIsFinite ==
  ASSUME NEW S, IsFiniteSet(S), NEW f
  PROVE  IsFiniteSet({f[x] : x \in S})
<1> DEFINE T == {f[x] : x \in S}
           g == [x \in S |-> f[x]]
<1>1. g \in Surjection(S, T)
  BY DEF Surjection
<1> HIDE DEF g, T
<1> QED
  BY <1>1, FS_Surjection DEF T

\* A finite set of positions has a last one.
LEMMA LastPosition ==
  ASSUME NEW n \in Nat, NEW S \in SUBSET (1..n), S # {}
  PROVE  \E i \in S : \A j \in S : i >= j
<1> DEFINE R == ByPosition(S)
           c == Cardinality(S)
           f == Enumeration(S, R)
<1>1. IsFiniteSet(S)
  <2>1. IsFiniteSet(1..n)
    BY FS_Interval
  <2> QED
    BY <2>1, FS_Subset
<1>2. \A i, j \in S : i \in Nat /\ (<<i, j>> \in R <=> i < j)
  BY DEF ByPosition
<1> HIDE DEF R
<1>3. Orders(R, S)
  BY <1>2 DEF Orders
<1>4. /\ c \in Nat /\ f \in [1..c -> S]
      /\ \A x \in S : \E i \in 1..c : f[i] = x
      /\ \A i, j \in 1..c : i < j => <<f[i], f[j]>> \in R
  BY <1>1, <1>3, EnumerationIsOrdered
<1> HIDE DEF c, f
<1>5. c \in 1..c
  <2>1. PICK x \in S : TRUE
    OBVIOUS
  <2>2. PICK i \in 1..c : f[i] = x
    BY <1>4
  <2> QED
    BY <1>4, <2>2
<1>6. f[c] \in S
  BY <1>4, <1>5
<1>7. ASSUME NEW j \in S PROVE f[c] >= j
  <2>1. PICK i \in 1..c : f[i] = j
    BY <1>4
  <2>2. CASE i = c
    BY <1>2, <1>6, <2>1, <2>2
  <2>3. CASE i < c
    <3>1. <<f[i], f[c]>> \in R /\ f[i] \in S
      BY <1>4, <1>5, <2>3
    <3> QED
      <4>1. f[i] < f[c] /\ f[i] \in Nat /\ f[c] \in Nat
        BY <1>2, <1>6, <3>1
      <4> QED
        BY <2>1, <4>1
  <2> QED
    BY <1>4, <2>1, <2>2, <2>3
<1> QED
  BY <1>6, <1>7

\* A set of numbers that is not empty has a least one.
LEMMA FirstPosition ==
  ASSUME NEW S \in SUBSET Nat, S # {}
  PROVE  \E i \in S : \A j \in S : i <= j
<1>1. IsWellFoundedOn(OpToRel(<, Nat), Nat)
  BY NatLessThanWellFounded
<1>2. PICK i \in S : \A j \in S : <<j, i>> \notin OpToRel(<, Nat)
  BY <1>1, WFMin
<1>3. ASSUME NEW j \in S PROVE i <= j
  <2>1. i \in Nat /\ j \in Nat /\ ~(j < i)
    BY <1>2 DEF OpToRel
  <2> QED
    BY <2>1
<1> QED
  BY <1>3

\* Sorting keeps the length and the values, and leaves them in order.
THEOREM AscendingSorts ==
  ASSUME NEW V \in SUBSET Nat, NEW list \in Seq(V)
  PROVE  /\ Ascending(list) \in Seq(V)
         /\ Len(Ascending(list)) = Len(list)
         /\ {Ascending(list)[i] : i \in DOMAIN Ascending(list)} = {list[i] : i \in DOMAIN list}
         /\ \A i, j \in 1..Len(list) : i < j => Ascending(list)[i] <= Ascending(list)[j]
<1> DEFINE D == 1..Len(list)
           R == ByValue(list)
           order == Enumeration(D, R)
<1>1. Len(list) \in Nat /\ DOMAIN list = D /\ \A i \in D : list[i] \in V /\ list[i] \in Nat
  BY LenProperties, ElementOfSeq
<1>2. IsFiniteSet(D) /\ Cardinality(D) = Len(list)
  BY PositionsAreFinite
<1>3. \A i, j \in D : <<i, j>> \in R <=> list[i] < list[j] \/ (list[i] = list[j] /\ i < j)
  BY <1>1 DEF ByValue
<1> HIDE DEF R
<1>4. Orders(R, D)
  BY <1>1, <1>3 DEF Orders
<1>5. /\ order \in [D -> D]
      /\ \A x \in D : \E i \in D : order[i] = x
      /\ \A i, j \in D : i < j => <<order[i], order[j]>> \in R
  BY <1>2, <1>4, EnumerationIsOrdered
<1>6. Ascending(list) = [i \in D |-> list[order[i]]]
  BY <1>1 DEF Ascending, R
<1> HIDE DEF order
<1>7. Ascending(list) \in [1..Len(list) -> V]
  BY <1>1, <1>5, <1>6
<1>8. Ascending(list) \in Seq(V) /\ Len(Ascending(list)) = Len(list) /\ DOMAIN Ascending(list) = D
  BY <1>1, <1>7, FunctionIsList
<1>9. {Ascending(list)[i] : i \in D} = {list[i] : i \in D}
  <2> HIDE DEF D
  <2>1. ASSUME NEW i \in D PROVE Ascending(list)[i] \in {list[j] : j \in D}
    BY <1>5, <1>6
  <2>2. ASSUME NEW j \in D PROVE \E i \in D : Ascending(list)[i] = list[j]
    BY <1>5, <1>6
  <2> QED
    BY <2>1, <2>2
<1>10. ASSUME NEW i \in D, NEW j \in D, i < j PROVE Ascending(list)[i] <= Ascending(list)[j]
  <2> HIDE DEF D
  <2>1. /\ order[i] \in D /\ order[j] \in D /\ <<order[i], order[j]>> \in R
        /\ Ascending(list)[i] = list[order[i]] /\ Ascending(list)[j] = list[order[j]]
    BY <1>5, <1>6, <1>10
  <2>2. list[order[i]] \in Nat /\ list[order[j]] \in Nat
    BY <1>1, <2>1
  <2>3. list[order[i]] < list[order[j]] \/ list[order[i]] = list[order[j]]
    BY <1>3, <2>1
  <2> QED
    BY <2>1, <2>2, <2>3
<1> QED
  BY <1>1, <1>8, <1>9, <1>10

\* Filtering keeps the members that are in the set and nothing else, each where it
\* stood among the others.
THEOREM FilteredKeeps ==
  ASSUME NEW V, NEW list \in Seq(V), NEW S
  PROVE  /\ Filtered(list, S) \in Seq(V)
         /\ Len(Filtered(list, S)) <= Len(list)
         /\ {Filtered(list, S)[i] : i \in DOMAIN Filtered(list, S)} = {list[i] : i \in DOMAIN list} \cap S
         /\ \E at \in [DOMAIN Filtered(list, S) -> DOMAIN list] :
              /\ \A i \in DOMAIN at : Filtered(list, S)[i] = list[at[i]]
              /\ \A i, j \in DOMAIN at : i < j => at[i] < at[j]
<1> DEFINE D == 1..Len(list)
           kept == {i \in D : list[i] \in S}
           R == ByPosition(kept)
           n == Cardinality(kept)
           order == Enumeration(kept, R)
<1>1. Len(list) \in Nat /\ DOMAIN list = D /\ \A i \in D : list[i] \in V
  BY LenProperties, ElementOfSeq
<1>2. IsFiniteSet(kept) /\ n <= Len(list)
  <2>1. IsFiniteSet(D) /\ Cardinality(D) = Len(list)
    BY PositionsAreFinite
  <2>2. kept \in SUBSET D
    OBVIOUS
  <2> QED
    BY <2>1, <2>2, FS_Subset
<1>3. \A i, j \in kept : <<i, j>> \in R <=> i < j
  BY DEF ByPosition
<1> HIDE DEF R
<1>4. Orders(R, kept)
  <2>1. \A i \in kept : i \in Nat
    OBVIOUS
  <2> HIDE DEF kept
  <2> QED
    BY <1>3, <2>1 DEF Orders
<1>a. kept = {i \in DOMAIN list : list[i] \in S}
  BY <1>1
<1>k. kept \subseteq D /\ \A i \in kept : i \in Nat /\ list[i] \in S
  OBVIOUS
<1>l. \A i \in D : list[i] \in S => i \in kept
  OBVIOUS
<1> HIDE DEF kept
<1>5. /\ n \in Nat
      /\ order \in [1..n -> kept]
      /\ \A x \in kept : \E i \in 1..n : order[i] = x
      /\ \A i, j \in 1..n : i < j => <<order[i], order[j]>> \in R
  BY <1>2, <1>4, EnumerationIsOrdered
<1>6. Filtered(list, S) = [i \in 1..n |-> list[order[i]]]
  BY <1>a DEF Filtered, R
<1> HIDE DEF order, n
<1>7. Filtered(list, S) \in Seq(V) /\ Len(Filtered(list, S)) = n /\ DOMAIN Filtered(list, S) = 1..n
  <2>1. Filtered(list, S) \in [1..n -> V]
    BY <1>1, <1>5, <1>6, <1>k
  <2> QED
    BY <1>5, <2>1, FunctionIsList
<1>8. {Filtered(list, S)[i] : i \in 1..n} = {list[i] : i \in D} \cap S
  <2>1. ASSUME NEW i \in 1..n PROVE Filtered(list, S)[i] \in {list[j] : j \in D} \cap S
    <3>1. Filtered(list, S)[i] = list[order[i]] /\ order[i] \in kept
      BY <1>5, <1>6
    <3> QED
      BY <1>k, <3>1
  <2>2. ASSUME NEW j \in D, list[j] \in S PROVE \E i \in 1..n : Filtered(list, S)[i] = list[j]
    BY <1>5, <1>6, <1>l, <2>2
  <2> QED
    BY <2>1, <2>2
<1>9. /\ order \in [1..n -> D]
      /\ \A i \in 1..n : Filtered(list, S)[i] = list[order[i]]
      /\ \A i, j \in 1..n : i < j => order[i] < order[j]
  BY <1>3, <1>5, <1>6, <1>k
<1> QED
  BY <1>1, <1>2, <1>7, <1>8, <1>9
=============================================================================
