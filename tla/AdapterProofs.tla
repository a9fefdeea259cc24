------------------------------ MODULE AdapterProofs ------------------------------
(***************************************************************************)
(* What is read from the providers through their adapters, for any number *)
(* of items, page size and changes at the provider: listings are complete  *)
(* and their latest reading counts, retries back off, the status of a run  *)
(* follows the provider's; and, for any kinds and alerts, subscribers know *)
(* what is stored and are told only of news, after a silent baseline.      *)
(***************************************************************************)
EXTENDS SecurityAlertSync, ProviderListing, FiniteSetTheorems, TLAPS

USE BoundsAssumption, MissingAssumption

-----------------------------------------------------------------------------
(* Least and greatest. *)

\* Min and Max of two numbers.
LEMMA MinOfTwo ==
  ASSUME NEW a \in Int, NEW b \in Int
  PROVE  Min({a, b}) = IF a <= b THEN a ELSE b
<1>1. \E x \in {a, b} : \A y \in {a, b} : x <= y
  OBVIOUS
<1>2. Min({a, b}) \in {a, b} /\ \A y \in {a, b} : Min({a, b}) <= y
  BY <1>1 DEF Min
<1>. QED BY <1>2

LEMMA MaxOfTwo ==
  ASSUME NEW a \in Int, NEW b \in Int
  PROVE  Max({a, b}) = IF a >= b THEN a ELSE b
<1>1. \E x \in {a, b} : \A y \in {a, b} : x >= y
  OBVIOUS
<1>2. Max({a, b}) \in {a, b} /\ \A y \in {a, b} : Max({a, b}) >= y
  BY <1>1 DEF Max
<1>. QED BY <1>2

-----------------------------------------------------------------------------
(* Orders. *)

\* Of a set: which elements are before which.
IsOrder(S, before) ==
  /\ IsFiniteSet(S) /\ before \in [S -> SUBSET S]
  /\ \A x, y \in S : x # y <=> x \in before[y] \/ y \in before[x]
  /\ \A x, y \in S : x \in before[y] => before[x] \subseteq before[y]

\* The number of elements before it is the place of an element ...
LEMMA RanksDiffer ==
  ASSUME NEW S, NEW before, IsOrder(S, before), NEW x \in S, NEW y \in S
  PROVE  /\ Cardinality(before[x]) \in 0..(Cardinality(S) - 1)
         /\ x \in before[y] <=> Cardinality(before[x]) < Cardinality(before[y])
         /\ x # y => Cardinality(before[x]) # Cardinality(before[y])
<1>1. \A z \in S : /\ before[z] \in SUBSET S /\ z \notin before[z]
                   /\ IsFiniteSet(before[z]) /\ Cardinality(before[z]) \in Nat
  <2>. SUFFICES ASSUME NEW z \in S
                PROVE  /\ before[z] \in SUBSET S /\ z \notin before[z]
                       /\ IsFiniteSet(before[z]) /\ Cardinality(before[z]) \in Nat
    OBVIOUS
  <2>1. before[z] \in SUBSET S /\ z \notin before[z]
    BY DEF IsOrder
  <2>. QED BY <2>1, FS_Subset, FS_CardinalityType DEF IsOrder
<1>2. Cardinality(S) \in Nat /\ Cardinality(before[x]) < Cardinality(S)
  <2>. DEFINE b == before[x]
  <2>1. b \in SUBSET S /\ b # S /\ IsFiniteSet(S)
    BY <1>1 DEF IsOrder
  <2>. HIDE DEF b
  <2>2. Cardinality(b) <= Cardinality(S) /\ Cardinality(b) # Cardinality(S)
    BY <2>1, FS_Subset
  <2>. QED BY <1>1, <2>1, <2>2, FS_CardinalityType DEF b
<1>3. ASSUME NEW u \in S, NEW v \in S, u \in before[v]
      PROVE  Cardinality(before[u]) < Cardinality(before[v])
  <2>. DEFINE a == before[u]
              b == before[v]
  <2>1. a \in SUBSET b /\ a # b /\ IsFiniteSet(b)
    BY <1>1, <1>3 DEF IsOrder
  <2>2. Cardinality(a) \in Nat /\ Cardinality(b) \in Nat
    BY <1>1
  <2>. HIDE DEF a, b
  <2>3. Cardinality(a) <= Cardinality(b) /\ Cardinality(a) # Cardinality(b)
    BY <2>1, FS_Subset
  <2>4. Cardinality(a) < Cardinality(b)
    BY <2>2, <2>3
  <2>. QED BY <2>4 DEF a, b
<1>4. x # y => x \in before[y] \/ y \in before[x]
  BY DEF IsOrder
<1>. QED BY <1>1, <1>2, <1>3, <1>4

\* ... and there are no gaps.
LEMMA RanksFill ==
  ASSUME NEW S, NEW before, IsOrder(S, before)
  PROVE  \A r \in 0..(Cardinality(S) - 1) : \E x \in S : Cardinality(before[x]) = r
<1>. SUFFICES ASSUME NEW r \in 0..(Cardinality(S) - 1)
              PROVE  \E x \in S : Cardinality(before[x]) = r
  OBVIOUS
<1>. DEFINE N == Cardinality(S)
            R == (0 .. N - 1) \ {r}
            rank == [x \in S |-> Cardinality(before[x])]
<1>1. N \in Nat /\ N > 0 /\ IsFiniteSet(S)
  BY FS_CardinalityType DEF IsOrder
<1>. SUFFICES ASSUME \A x \in S : Cardinality(before[x]) # r
              PROVE  FALSE
  OBVIOUS
<1>2. \A x, y \in S : rank[x] \in 0 .. N - 1 /\ (x # y => rank[x] # rank[y])
  BY RanksDiffer
<1>3. rank \in [S -> R]
  BY <1>2
<1>. HIDE DEF N, rank
<1>4. IsFiniteSet(0 .. N - 1) /\ Cardinality(0 .. N - 1) = N
  <2>1. 0 \in Int /\ N - 1 \in Int /\ ~(0 > N - 1) /\ (N - 1) - 0 + 1 = N
    BY <1>1
  <2>. QED BY ONLY <2>1, FS_Interval
<1>5. IsFiniteSet(R) /\ Cardinality(R) = N - 1
  <2>1. r \in 0 .. N - 1
    BY DEF N
  <2>2. /\ IsFiniteSet((0 .. N - 1) \ {r})
        /\ Cardinality((0 .. N - 1) \ {r}) = Cardinality(0 .. N - 1) - 1
    BY <1>4, <2>1, FS_RemoveElement
  <2>. QED BY <1>4, <2>2
<1>6. Cardinality(R) < Cardinality(S)
  BY <1>1, <1>5 DEF N
<1>. HIDE DEF R
<1>. QED BY <1>1, <1>2, <1>3, <1>5, <1>6, FS_PigeonHole

\* Numbers are ordered by <, ...
LEMMA NumbersAreOrdered ==
  ASSUME NEW k \in Nat, NEW S, S \in SUBSET (1..k)
  PROVE  IsOrder(S, [x \in S |-> {y \in S : y < x}])
<1>. DEFINE before == [x \in S |-> {y \in S : y < x}]
<1>1. IsFiniteSet(1..k)
  BY FS_Interval
<1>2. IsFiniteSet(S)
  BY <1>1, FS_Subset
<1>3. S \subseteq Nat
  OBVIOUS
<1>4. \A x \in S : before[x] = {y \in S : y < x}
  OBVIOUS
<1>5. before \in [S -> SUBSET S]
  OBVIOUS
<1>. HIDE DEF before
<1>6. \A x, y \in S : x # y <=> x \in before[y] \/ y \in before[x]
  BY <1>3, <1>4
<1>7. \A x, y \in S : x \in before[y] => before[x] \subseteq before[y]
  <2>. SUFFICES ASSUME NEW x \in S, NEW y \in S, NEW z \in S, x < y, z < x
                PROVE  z < y
    BY <1>4
  <2>. QED BY <1>3
<1>8. IsOrder(S, before)
  BY <1>2, <1>5, <1>6, <1>7 DEF IsOrder
<1>. QED BY <1>8 DEF before

\* ... with a first and a last one, ...
LEMMA Extremes ==
  ASSUME NEW k \in Nat, NEW S, S \in SUBSET (1..k), S # {}
  PROVE  /\ \E x \in S : \A y \in S : x <= y
         /\ \E x \in S : \A y \in S : x >= y
<1>. DEFINE before == [x \in S |-> {y \in S : y < x}]
<1>1. IsOrder(S, before)
  BY NumbersAreOrdered
<1>2. \A x, y \in S : /\ x \in Nat
                     /\ x \in before[y] <=> x < y
  OBVIOUS
<1>. HIDE DEF before
<1>3. Cardinality(S) \in Nat \ {0}
  BY <1>1, FS_CardinalityType, FS_EmptySet DEF IsOrder
<1>. DEFINE first == 0
            last == Cardinality(S) - 1
<1>4. first \in 0..(Cardinality(S) - 1) /\ last \in 0..(Cardinality(S) - 1)
  BY <1>3
<1>. HIDE DEF first, last
<1>5. \A r \in 0..(Cardinality(S) - 1) : \E x \in S : Cardinality(before[x]) = r
  BY ONLY <1>1, RanksFill, SMT
<1>6. PICK x \in S : Cardinality(before[x]) = first
  BY <1>4, <1>5
<1>7. PICK z \in S : Cardinality(before[z]) = last
  BY <1>4, <1>5
<1>8. ASSUME NEW y \in S PROVE x <= y
  <2>1. x \in S /\ y \in S
    OBVIOUS
  <2>2. /\ Cardinality(before[y]) \in 0..(Cardinality(S) - 1) /\ Cardinality(before[x]) = 0
        /\ y \in before[x] <=> Cardinality(before[y]) < Cardinality(before[x])
    BY ONLY <1>1, <1>6, <2>1, RanksDiffer, SMT DEF first
  <2>3. ~(y \in before[x])
    BY ONLY <1>3, <2>2, SMT
  <2>. QED BY <1>2, <2>3
<1>9. ASSUME NEW y \in S PROVE z >= y
  <2>1. z \in S /\ y \in S
    OBVIOUS
  <2>2. /\ Cardinality(before[y]) \in 0..(Cardinality(S) - 1)
        /\ Cardinality(before[z]) = Cardinality(S) - 1
        /\ z \in before[y] <=> Cardinality(before[z]) < Cardinality(before[y])
    BY ONLY <1>1, <1>7, <2>1, RanksDiffer, SMT DEF last
  <2>3. ~(z \in before[y])
    BY ONLY <1>3, <2>2, SMT
  <2>. QED BY <1>2, <2>3
<1>. QED BY <1>8, <1>9

\* ... and a set of them is put in order.
LEMMA NumbersInOrder ==
  ASSUME NEW k \in Nat, NEW S, S \in SUBSET (1..k)
  PROVE  LET s == InOrder(S, <) IN
         /\ DOMAIN s = 1..Cardinality(S) /\ Cardinality(S) \in Nat
         /\ \A n \in DOMAIN s : s[n] \in S
         /\ \A x \in S : \E n \in DOMAIN s : s[n] = x
<1>. DEFINE before == [x \in S |-> {y \in S : y < x}]
            s == InOrder(S, <)
<1>1. IsOrder(S, before)
  BY NumbersAreOrdered
<1>2. s = [n \in 1..Cardinality(S) |->
             CHOOSE x \in S : Cardinality({y \in S : y < x}) = n - 1]
  BY DEF InOrder
<1>3. \A x \in S : before[x] = {y \in S : y < x}
  OBVIOUS
<1>. HIDE DEF s, before
<1>4. Cardinality(S) \in Nat
  BY <1>1, FS_CardinalityType DEF IsOrder
<1>5. \A r \in 0..(Cardinality(S) - 1) : \E x \in S : Cardinality(before[x]) = r
  BY ONLY <1>1, RanksFill, SMT
<1>6. \A n \in 1..Cardinality(S) : s[n] \in S /\ Cardinality(before[s[n]]) = n - 1
  <2>. SUFFICES ASSUME NEW n \in 1..Cardinality(S)
                PROVE  s[n] \in S /\ Cardinality(before[s[n]]) = n - 1
    OBVIOUS
  <2>. DEFINE r == n - 1
  <2>1. r \in 0..(Cardinality(S) - 1)
    BY <1>4
  <2>. HIDE DEF r
  <2>2. \E x \in S : Cardinality(before[x]) = r
    BY <1>5, <2>1
  <2>3. \E x \in S : Cardinality({y \in S : y < x}) = n - 1
    BY <1>3, <2>2 DEF r
  <2>4. s[n] = CHOOSE x \in S : Cardinality({y \in S : y < x}) = n - 1
    BY <1>2
  <2>5. s[n] \in S /\ Cardinality({y \in S : y < s[n]}) = n - 1
    BY <2>3, <2>4
  <2>. QED BY <1>3, <2>5
<1>7. ASSUME NEW x \in S
      PROVE  \E n \in 1..Cardinality(S) : s[n] = x
  <2>. DEFINE n == Cardinality(before[x]) + 1
  <2>1. n \in 1..Cardinality(S) /\ n - 1 = Cardinality(before[x])
    BY <1>1, <1>4, RanksDiffer
  <2>. HIDE DEF n
  <2>2. s[n] \in S /\ Cardinality(before[s[n]]) = Cardinality(before[x])
    BY <1>6, <2>1
  <2>. QED BY <1>1, <2>1, <2>2, RanksDiffer
<1>8. DOMAIN s = 1..Cardinality(S)
  BY <1>2
<1>. QED BY <1>4, <1>6, <1>7, <1>8 DEF s

-----------------------------------------------------------------------------
(* Sequences of items. *)

\* SelectLastInSeq of an id that is there.
LEMMA LastIs ==
  ASSUME NEW T, NEW items \in Seq(T), NEW i, \E n \in 1..Len(items) : items[n].id = i
  PROVE  LET last == SelectLastInSeq(items, LAMBDA r : r.id = i) IN
         /\ last \in 1..Len(items) /\ items[last].id = i
         /\ \A n \in 1..Len(items) : items[n].id = i => n <= last
<1>. DEFINE I == {n \in 1..Len(items) : items[n].id = i}
            last == SelectLastInSeq(items, LAMBDA r : r.id = i)
<1>1. I # {} /\ I \in SUBSET (1..Len(items)) /\ Len(items) \in Nat
  OBVIOUS
<1>2. last = Max(I)
  BY <1>1 DEF SelectLastInSeq
<1>3. \A n : n \in I <=> n \in 1..Len(items) /\ items[n].id = i
  OBVIOUS
<1>. HIDE DEF I, last
<1>4. \E x \in I : \A y \in I : x >= y
  BY <1>1, Extremes
<1>5. last \in I /\ \A y \in I : last >= y
  BY <1>2, <1>4 DEF Max
<1>6. /\ last \in 1..Len(items) /\ items[last].id = i
      /\ \A n \in 1..Len(items) : items[n].id = i => n <= last
  BY <1>3, <1>5
<1>. QED BY <1>6 DEF last

\* What uniqueById makes of a list.
LEMMA UniqueByIdIs ==
  ASSUME NEW T, NEW items \in Seq(T)
  PROVE  LET unique == UniqueById(items) IN
         /\ unique \in Seq(T)
         /\ \A n \in DOMAIN unique : \E l \in DOMAIN items :
              /\ unique[n] = items[l]
              /\ \A m \in DOMAIN items : items[m].id = unique[n].id => m <= l
         /\ \A m \in DOMAIN items : \E n \in DOMAIN unique : unique[n].id = items[m].id
<1>. DEFINE unique == UniqueById(items)
            S == {n \in DOMAIN items : \A m \in 1..(n - 1) : items[m].id # items[n].id}
            firsts == InOrder(S, <)
            LatestOf(i) == SelectLastInSeq(items, LAMBDA r : r.id = i)
<1>1. Len(items) \in Nat /\ S \in SUBSET (1..Len(items)) /\ DOMAIN items = 1..Len(items)
  OBVIOUS
<1>2. unique = [n \in DOMAIN firsts |-> items[LatestOf(items[firsts[n]].id)]]
  BY DEF UniqueById
<1>3. \A m \in DOMAIN items : \E l \in S : items[l].id = items[m].id
  <2>. SUFFICES ASSUME NEW m \in DOMAIN items
                PROVE  \E l \in S : items[l].id = items[m].id
    OBVIOUS
  <2>. DEFINE I == {n \in DOMAIN items : items[n].id = items[m].id}
  <2>1. I # {} /\ I \in SUBSET (1..Len(items))
    BY <1>1
  <2>2. PICK l \in I : \A y \in I : l <= y
    BY <1>1, <2>1, Extremes
  <2>3. l \in S
    BY <1>1, <2>2
  <2>. QED BY <2>2, <2>3
<1>4. \A n \in S : n \in DOMAIN items
  OBVIOUS
<1>. HIDE DEF S, unique, LatestOf
<1>5. /\ DOMAIN firsts = 1..Cardinality(S) /\ Cardinality(S) \in Nat
      /\ \A n \in DOMAIN firsts : firsts[n] \in S
      /\ \A x \in S : \E n \in DOMAIN firsts : firsts[n] = x
  <2>. DEFINE k == Len(items)
  <2>1. k \in Nat /\ S \in SUBSET (1..k)
    BY <1>1
  <2>. HIDE DEF k
  <2>. QED BY ONLY <2>1, NumbersInOrder, Zenon
<1>. HIDE DEF firsts
<1>6. \A m \in DOMAIN items :
        /\ LatestOf(items[m].id) \in DOMAIN items
        /\ items[LatestOf(items[m].id)].id = items[m].id
        /\ \A l \in DOMAIN items : items[l].id = items[m].id => l <= LatestOf(items[m].id)
  <2>. SUFFICES ASSUME NEW m \in DOMAIN items
                PROVE  LET last == LatestOf(items[m].id) IN
                       /\ last \in DOMAIN items /\ items[last].id = items[m].id
                       /\ \A l \in DOMAIN items : items[l].id = items[m].id => l <= last
    OBVIOUS
  <2>. DEFINE i == items[m].id
  <2>1. \E n \in 1..Len(items) : items[n].id = i
    BY <1>1
  <2>. HIDE DEF i
  <2>2. LET last == LatestOf(i) IN
        /\ last \in 1..Len(items) /\ items[last].id = i
        /\ \A n \in 1..Len(items) : items[n].id = i => n <= last
    BY <2>1, LastIs DEF LatestOf
  <2>. QED BY <1>1, <2>2 DEF i
<1>7. DOMAIN unique = DOMAIN firsts
      /\ \A n \in DOMAIN firsts :
           /\ firsts[n] \in DOMAIN items
           /\ unique[n] = items[LatestOf(items[firsts[n]].id)]
           /\ unique[n].id = items[firsts[n]].id
           /\ unique[n] \in T
  BY <1>2, <1>4, <1>5, <1>6
<1>8. unique \in Seq(T)
  BY <1>5, <1>7, <1>2
<1>9. \A n \in DOMAIN unique : \E l \in DOMAIN items :
        /\ unique[n] = items[l]
        /\ \A m \in DOMAIN items : items[m].id = unique[n].id => m <= l
  BY <1>6, <1>7
<1>10. \A m \in DOMAIN items : \E n \in DOMAIN unique : unique[n].id = items[m].id
  <2>. SUFFICES ASSUME NEW m \in DOMAIN items
                PROVE  \E n \in DOMAIN unique : unique[n].id = items[m].id
    OBVIOUS
  <2>1. PICK l \in S : items[l].id = items[m].id
    BY <1>3
  <2>2. PICK n \in DOMAIN firsts : firsts[n] = l
    BY <1>5
  <2>3. n \in DOMAIN unique /\ unique[n].id = items[l].id
    BY <1>7, <2>2
  <2>. QED BY <2>1, <2>3
<1>. QED BY <1>8, <1>9, <1>10 DEF unique

\* All the numbers in order are where they are.
LEMMA AllInOrder ==
  ASSUME NEW k \in Nat
  PROVE  InOrder(1..k, <) = [n \in 1..k |-> n]
<1>. DEFINE S == 1..k
            before == [x \in S |-> {y \in S : y < x}]
            s == InOrder(S, <)
<1>1. IsOrder(S, before) /\ (Cardinality(S) = k)
  <2>1. 1 \in Int /\ k \in Int
    OBVIOUS
  <2>2. Cardinality(1..k) = IF 1 > k THEN 0 ELSE k - 1 + 1
    BY ONLY <2>1, FS_Interval
  <2>3. Cardinality(S) = k
    BY <2>2
  <2>. QED BY <2>3, NumbersAreOrdered
<1>2. \A n \in S : before[n] = 1..(n - 1) /\ before[n] = {y \in S : y < n}
  OBVIOUS
<1>3. \A n \in S : Cardinality(before[n]) = n - 1
  <2>. SUFFICES ASSUME NEW n \in S
                PROVE  Cardinality(1..(n - 1)) = n - 1
    BY <1>2
  <2>1. Cardinality(1..(n - 1)) = IF 1 > n - 1 THEN 0 ELSE n - 1 - 1 + 1
    BY FS_Interval
  <2>. QED BY <2>1
<1>4. s = [n \in 1..Cardinality(S) |->
             CHOOSE x \in S : Cardinality({y \in S : y < x}) = n - 1]
  BY DEF InOrder
<1>. HIDE DEF before, S, s
<1>5. ASSUME NEW n \in S PROVE s[n] = n
  <2>1. s[n] = CHOOSE x \in S : Cardinality({y \in S : y < x}) = n - 1
    BY <1>1, <1>4 DEF S
  <2>2. s[n] \in S /\ Cardinality({y \in S : y < s[n]}) = n - 1
    BY <1>2, <1>3, <2>1
  <2>3. Cardinality(before[s[n]]) = Cardinality(before[n])
    BY <1>2, <1>3, <2>2
  <2>. QED BY <1>1, <2>2, <2>3, RanksDiffer
<1>6. s = [n \in S |-> n]
  BY <1>1, <1>4, <1>5 DEF S
<1>. QED BY <1>6 DEF S, s

\* Recent keeps what was updated since, in its order.
LEMMA RecentIs ==
  ASSUME NEW T, NEW items \in Seq(T), NEW since \in Int,
         \A n \in DOMAIN items : items[n].updated \in Int
  PROVE  LET kept == Recent(items, since) IN
         /\ kept \in Seq(T)
         /\ \A n \in DOMAIN kept : \E m \in DOMAIN items : kept[n] = items[m]
         /\ \A m \in DOMAIN items :
              items[m].updated >= since => \E n \in DOMAIN kept : kept[n] = items[m]
         /\ (\A m \in DOMAIN items : items[m].updated >= since) => kept = items
<1>. DEFINE S == {n \in DOMAIN items : items[n].updated >= since}
            places == InOrder(S, <)
            kept == Recent(items, since)
<1>1. Len(items) \in Nat /\ S \in SUBSET (1..Len(items)) /\ DOMAIN items = 1..Len(items)
  OBVIOUS
<1>2. kept = [n \in DOMAIN places |-> items[places[n]]]
  BY DEF Recent
<1>3. \A n : n \in S <=> n \in DOMAIN items /\ items[n].updated >= since
  OBVIOUS
<1>. HIDE DEF S, kept
<1>4. /\ DOMAIN places = 1..Cardinality(S) /\ Cardinality(S) \in Nat
      /\ \A n \in DOMAIN places : places[n] \in S
      /\ \A x \in S : \E n \in DOMAIN places : places[n] = x
  <2>. DEFINE k == Len(items)
  <2>1. k \in Nat /\ S \in SUBSET (1..k)
    BY <1>1
  <2>. HIDE DEF k
  <2>. QED BY ONLY <2>1, NumbersInOrder, Zenon
<1>5. ASSUME \A m \in DOMAIN items : items[m].updated >= since
      PROVE  kept = items
  <2>1. S = 1..Len(items)
    BY <1>1, <1>3, <1>5
  <2>2. places = [n \in 1..Len(items) |-> n]
    BY <1>1, <2>1, AllInOrder
  <2>. HIDE DEF places
  <2>3. kept = [n \in 1..Len(items) |-> items[n]]
    BY <1>2, <2>2
  <2>. QED BY <1>1, <2>3
<1>. HIDE DEF places
<1>6. kept \in Seq(T)
  BY <1>2, <1>3, <1>4
<1>7. \A n \in DOMAIN kept : \E m \in DOMAIN items : kept[n] = items[m]
  BY <1>2, <1>3, <1>4
<1>8. \A m \in DOMAIN items :
        items[m].updated >= since => \E n \in DOMAIN kept : kept[n] = items[m]
  BY <1>2, <1>3, <1>4
<1>. QED BY <1>5, <1>6, <1>7, <1>8 DEF kept

-----------------------------------------------------------------------------
(* The inductive invariant. *)

Item == [id: Int, created: Int, updated: Int, open: BOOLEAN]

ItemsOK ==
  /\ item \in [Ids -> Item \cup {Missing}]
  /\ \A i \in Ids : item[i] # Missing => item[i].id = i

\* The number of items before it in a listing.
Rank(part, i) == Cardinality({j \in Ids : Eligible(part, j) /\ Later(j, i)})

\* What has changed at the provider is the latest; what is old has been so since the
\* reading began.
EditsOK ==
  /\ edits \in 0..MaxEdits
  /\ \A i \in Ids : item[i] # Missing => item[i].updated <= 3 + edits
  /\ Old \subseteq outdated

ReadingOK ==
  /\ query \in Queries
  /\ next \in [Parts -> (Nat \ {0}) \cup {Missing}]
  /\ read \in [Parts -> Seq(Item)]
  /\ DOMAIN lastRead = Ids
  /\ ~query.includeAllOpen => next["open"] = Missing /\ read["open"] = <<>>

\* What was read is what was there, and still is unless it was touched.
ReadIsCurrent ==
  \A part \in Parts : \A n \in DOMAIN read[part] :
    LET i == read[part][n].id IN
    i \in Ids /\ (i \notin touched => read[part][n] = item[i])

\* What a listing is read for.
Owed(part, i) ==
  /\ item[i] # Missing
  /\ IF part = "open" THEN query.includeAllOpen /\ item[i].open
     ELSE IF SelectedBy(query.provider, query.kind) = "created"
     THEN item[i].created >= Since
     ELSE /\ item[i].updated >= Since
          /\ SortedByUpdate(query.provider, query.kind) \/ \A j \in outdated : j < i

\* Of what was not touched, all has been read that comes before the next page: changes
\* push it on, to the pages that are yet to be read.
ReadIsComplete ==
  ~left =>
    \A part \in Parts, i \in Ids \ touched :
      Owed(part, i) /\ (next[part] # Missing => Rank(part, i) < (next[part] - 1) * PageSize)
      => \E n \in DOMAIN read[part] : read[part][n] = item[i]

AllRead == read["recent"] \o read["open"]

\* The last reading of an item is the last of its id among all that was read.
InOrderOfReading ==
  ~Concurrent(query.provider) =>
    /\ next["recent"] # Missing => read["open"] = <<>>
    /\ \A i \in Ids : lastRead[i] # Missing =>
         \E n \in DOMAIN AllRead :
           /\ AllRead[n] = lastRead[i] /\ lastRead[i].id = i
           /\ \A m \in DOMAIN AllRead :
                m > n /\ AllRead[m].id = i => AllRead[m] = lastRead[i]

ListingInvariant ==
  ItemsOK /\ EditsOK /\ ReadingOK /\ ReadIsCurrent /\ ReadIsComplete /\ InOrderOfReading

-----------------------------------------------------------------------------
(* A listing and its pages. *)

\* The bounds make the ids a finite set.
LEMMA IdsAreFinite == IsFiniteSet(Ids)
<1>. DEFINE k == MaxItems + MaxEdits
<1>1. 1 \in Int /\ k \in Int
  OBVIOUS
<1>. HIDE DEF k
<1>2. IsFiniteSet(1..k)
  BY ONLY <1>1, FS_Interval
<1>. QED BY <1>2 DEF Ids, k

\* A listing holds each eligible item once, at the place of its rank, the latest first.
\* Only what is sorted by its update is ordered by it.
LEMMA SelectedIs ==
  ASSUME ItemsOK, NEW part \in Parts
  PROVE  LET listing == Selected(part) IN
         /\ listing \in Seq(Item)
         /\ \A n \in DOMAIN listing :
              /\ listing[n].id \in Ids /\ listing[n] = item[listing[n].id]
              /\ Eligible(part, listing[n].id)
              /\ Rank(part, listing[n].id) = n - 1
         /\ \A i \in Ids : Eligible(part, i) =>
              /\ Rank(part, i) + 1 \in DOMAIN listing
              /\ listing[Rank(part, i) + 1] = item[i]
         /\ \A m, n \in DOMAIN listing : m < n =>
              IF SortedByUpdate(query.provider, query.kind)
              THEN listing[m].updated >= listing[n].updated
              ELSE listing[m].id > listing[n].id
<1>. DEFINE S == {i \in Ids : Eligible(part, i)}
            before == [i \in S |-> {j \in S : Later(j, i)}]
            ids == InOrder(S, Later)
            listing == Selected(part)
<1>1. /\ S \in SUBSET Ids /\ S \subseteq Nat
      /\ \A i \in S : item[i] \in Item /\ item[i].id = i /\ item[i].updated \in Int
  BY DEF Eligible, Listed, ItemsOK, Item, Ids
<1>2. IsOrder(S, before)
  <2>1. IsFiniteSet(Ids)
    BY IdsAreFinite
  <2>2. IsFiniteSet(S)
    BY <1>1, <2>1, FS_Subset
  <2>3. before \in [S -> SUBSET S] /\ \A x, y \in S : x \in before[y] <=> Later(x, y)
    OBVIOUS
  <2>. HIDE DEF before, S
  <2>4. \A x, y \in S : x # y <=> Later(x, y) \/ Later(y, x)
    BY <1>1 DEF Later
  <2>5. \A x, y, z \in S : Later(x, y) /\ Later(z, x) => Later(z, y)
    BY <1>1 DEF Later
  <2>6. \A x, y \in S : x # y <=> x \in before[y] \/ y \in before[x]
    BY <2>3, <2>4
  <2>7. \A x, y \in S : x \in before[y] => before[x] \subseteq before[y]
    BY <2>3, <2>5
  <2>. QED BY <2>2, <2>3, <2>6, <2>7 DEF IsOrder
<1>3. \A i \in S : Rank(part, i) = Cardinality(before[i])
  <2>. SUFFICES ASSUME NEW i \in S PROVE Rank(part, i) = Cardinality(before[i])
    OBVIOUS
  <2>1. before[i] = {j \in Ids : Eligible(part, j) /\ Later(j, i)}
    OBVIOUS
  <2>. QED BY <2>1 DEF Rank
<1>4. ids = [n \in 1..Cardinality(S) |->
               CHOOSE x \in S : Cardinality({y \in S : Later(y, x)}) = n - 1]
  BY DEF InOrder
<1>5. \A x \in S : before[x] = {y \in S : Later(y, x)}
  OBVIOUS
<1>6. listing = [n \in DOMAIN ids |-> item[ids[n]]]
  BY DEF Selected
<1>7. \A i : i \in S <=> i \in Ids /\ Eligible(part, i)
  OBVIOUS
<1>. HIDE DEF S, before, ids, listing
<1>8. Cardinality(S) \in Nat
  BY <1>2, FS_CardinalityType DEF IsOrder
<1>9. \A r \in 0..(Cardinality(S) - 1) : \E x \in S : Cardinality(before[x]) = r
  BY <1>2, RanksFill
<1>10. \A n \in 1..Cardinality(S) : ids[n] \in S /\ Cardinality(before[ids[n]]) = n - 1
  <2>. SUFFICES ASSUME NEW n \in 1..Cardinality(S)
                PROVE  ids[n] \in S /\ Cardinality(before[ids[n]]) = n - 1
    OBVIOUS
  <2>. DEFINE r == n - 1
  <2>1. r \in 0..(Cardinality(S) - 1)
    BY <1>8
  <2>. HIDE DEF r
  <2>2. \E x \in S : Cardinality(before[x]) = r
    BY <1>9, <2>1
  <2>3. \E x \in S : Cardinality({y \in S : Later(y, x)}) = n - 1
    BY <1>5, <2>2 DEF r
  <2>4. ids[n] = CHOOSE x \in S : Cardinality({y \in S : Later(y, x)}) = n - 1
    BY <1>4
  <2>5. ids[n] \in S /\ Cardinality({y \in S : Later(y, ids[n])}) = n - 1
    BY <2>3, <2>4
  <2>. QED BY <1>5, <2>5
<1>11. /\ DOMAIN listing = 1..Cardinality(S)
       /\ \A n \in 1..Cardinality(S) : listing[n] = item[ids[n]]
  BY <1>4, <1>6
<1>12. listing \in Seq(Item)
  <2>. DEFINE k == Cardinality(S)
  <2>1. \A n \in 1..k : item[ids[n]] \in Item
    BY <1>1, <1>10
  <2>2. listing = [n \in 1..k |-> item[ids[n]]] /\ k \in Nat
    BY <1>4, <1>6, <1>8
  <2>. HIDE DEF k
  <2>. QED BY <2>1, <2>2
<1>13. \A n \in DOMAIN listing :
         /\ listing[n].id = ids[n] /\ ids[n] \in S
         /\ Rank(part, listing[n].id) = n - 1
  <2>. SUFFICES ASSUME NEW n \in DOMAIN listing
                PROVE  /\ listing[n].id = ids[n] /\ ids[n] \in S
                       /\ Rank(part, listing[n].id) = n - 1
    OBVIOUS
  <2>1. /\ ids[n] \in S /\ Cardinality(before[ids[n]]) = n - 1
        /\ listing[n] = item[ids[n]]
    BY <1>10, <1>11
  <2>2. listing[n].id = ids[n]
    BY <1>1, <2>1
  <2>. QED BY <1>3, <2>1, <2>2
<1>14. ASSUME NEW i \in S
       PROVE  /\ Rank(part, i) + 1 \in DOMAIN listing
              /\ listing[Rank(part, i) + 1] = item[i]
  <2>. DEFINE n == Rank(part, i) + 1
  <2>1. n \in DOMAIN listing /\ n - 1 = Cardinality(before[i])
    BY <1>2, <1>3, <1>8, <1>11, RanksDiffer
  <2>. HIDE DEF n
  <2>2. ids[n] = i
    BY <1>2, <1>10, <1>11, <2>1, RanksDiffer
  <2>3. n \in DOMAIN listing /\ listing[n] = item[i]
    BY <1>11, <2>1, <2>2
  <2>. QED BY <2>3 DEF n
<1>15. ASSUME NEW m \in DOMAIN listing, NEW n \in DOMAIN listing, m < n
       PROVE  IF SortedByUpdate(query.provider, query.kind)
              THEN listing[m].updated >= listing[n].updated
              ELSE listing[m].id > listing[n].id
  <2>. DEFINE i == ids[m]
              j == ids[n]
  <2>1. /\ i \in S /\ j \in S /\ listing[m] = item[i] /\ listing[n] = item[j]
        /\ Cardinality(before[i]) = m - 1 /\ Cardinality(before[j]) = n - 1
    BY <1>10, <1>11
  <2>. HIDE DEF i, j
  <2>2. Cardinality(before[i]) < Cardinality(before[j])
    BY <1>8, <1>11, <1>15, <2>1
  <2>3. i \in before[j]
    BY <1>2, <2>1, <2>2, RanksDiffer
  <2>4. Later(i, j)
    BY <1>5, <2>1, <2>3
  <2>. QED BY <1>1, <2>1, <2>4 DEF Later
<1>. QED BY <1>7, <1>11, <1>12, <1>13, <1>14, <1>15 DEF listing

\* A page is the part of the listing between two multiples of its size; one that is not
\* full is the last.
LEMMA PageIs ==
  ASSUME NEW T, NEW listing \in Seq(T), NEW p \in Nat \ {0}
  PROVE  LET page == Page(listing, PageSize, p)
             lo == (p - 1) * PageSize
             hi == p * PageSize
         IN  /\ lo \in Nat /\ hi = lo + PageSize
             /\ page \in Seq(T)
             /\ \A n \in DOMAIN page :
                  lo + n \in DOMAIN listing /\ lo + n <= hi /\ page[n] = listing[lo + n]
             /\ \A n \in DOMAIN listing :
                  lo < n /\ n <= hi => n - lo \in DOMAIN page /\ page[n - lo] = listing[n]
             /\ Len(page) < PageSize => Len(listing) < hi
<1>. DEFINE lo == (p - 1) * PageSize
            hi == p * PageSize
            end == Min({hi, Len(listing)})
            page == Page(listing, PageSize, p)
<1>1. lo \in Nat /\ hi = lo + PageSize
  OBVIOUS
<1>2. page = SubSeq(listing, lo + 1, end)
  BY DEF Page
<1>. HIDE DEF page
<1>. HIDE DEF lo, hi
<1>3. end = IF hi <= Len(listing) THEN hi ELSE Len(listing)
  <2>1. hi \in Int /\ Len(listing) \in Int
    BY <1>1
  <2>. QED BY <2>1, MinOfTwo
<1>. HIDE DEF end
<1>4. end \in Nat /\ end <= Len(listing) /\ end <= hi
  BY <1>1, <1>3
<1>5. /\ page \in Seq(T)
      /\ Len(page) = IF lo + 1 <= end THEN end - lo ELSE 0
      /\ \A n \in 1..Len(page) : page[n] = listing[lo + n]
  BY <1>1, <1>2, <1>4
<1>6. ASSUME NEW n \in DOMAIN page
      PROVE  lo + n \in DOMAIN listing /\ lo + n <= hi /\ page[n] = listing[lo + n]
  <2>1. n \in 1..Len(page) /\ DOMAIN listing = 1..Len(listing)
    BY <1>5
  <2>2. n \in Nat /\ n >= 1 /\ lo + n <= end
    BY <1>1, <1>4, <1>5, <2>1
  <2>. QED BY <1>1, <1>4, <1>5, <2>1, <2>2
<1>7. \A n \in DOMAIN listing :
        lo < n /\ n <= hi => n - lo \in DOMAIN page /\ page[n - lo] = listing[n]
  <2>. SUFFICES ASSUME NEW n \in DOMAIN listing, lo < n, n <= hi
                PROVE  n - lo \in DOMAIN page /\ page[n - lo] = listing[n]
    OBVIOUS
  <2>1. n <= end /\ n \in Nat
    BY <1>1, <1>3
  <2>2. n - lo \in 1..Len(page) /\ lo + (n - lo) = n
    BY <1>1, <1>4, <1>5, <2>1
  <2>. QED BY <1>5, <2>2
<1>8. Len(page) < PageSize => Len(listing) < hi
  BY <1>1, <1>3, <1>5
<1>. QED BY <1>1, <1>5, <1>6, <1>7, <1>8 DEF page, lo, hi

-----------------------------------------------------------------------------
(* What the steps do. *)

\* How ReadPage reads part.
HowRead(part) == IF part = "open" THEN "selected" ELSE Listing(query.provider, query.kind)
PageRead(part) == Page(Selected(part), PageSize, next[part])
Kept(part) ==
  IF HowRead(part) = "selected" THEN PageRead(part) ELSE Recent(PageRead(part), Since)
IsLast(part, total) ==
  LastPageRead(HowRead(part), PageRead(part), PageSize, next[part], Since, total)

\* ReadPage in these terms.
LEMMA ReadPageDoes ==
  ASSUME NEW part \in Parts, ReadPage(part)
  PROVE  /\ next[part] # Missing
         /\ part = "open" => next["recent"] = Missing \/ Concurrent(query.provider)
         /\ \E total \in {Missing, Len(Selected(part))} :
              next' = [next EXCEPT ![part] = IF IsLast(part, total) THEN Missing ELSE @ + 1]
         /\ read' = [read EXCEPT ![part] = @ \o Kept(part)]
         /\ lastRead' = [i \in Ids |-> IF \E k \in Range(Kept(part)) : k.id = i
                                       THEN item[i] ELSE lastRead[i]]
         /\ UNCHANGED <<query, item, edits, touched, left, outdated>>
BY DEF ReadPage, Ready, HowRead, PageRead, Kept, IsLast, remoteItems

\* The ids are finite: a rank is a number.
LEMMA RankIsNumber ==
  ASSUME NEW part, NEW i
  PROVE  Rank(part, i) \in Nat
<1>1. {j \in Ids : Eligible(part, j) /\ Later(j, i)} \in SUBSET Ids
  OBVIOUS
<1>. QED BY <1>1, IdsAreFinite, FS_Subset, FS_CardinalityType DEF Rank

\* The fields of an item of a sequence.
LEMMA ItemFields ==
  ASSUME NEW items \in Seq(Item), NEW n \in DOMAIN items
  PROVE  items[n] \in Item /\ items[n].updated \in Int /\ items[n].id \in Int
<1>1. items[n] \in Item
  OBVIOUS
<1>. QED BY <1>1 DEF Item

\* What is kept of a page is there, and holds what is owed of its ranks; the page
\* that is read last leaves none that is owed to the next.
LEMMA KeptIs ==
  ASSUME ItemsOK, EditsOK, NEW part \in Parts, next[part] \in Nat \ {0}
  PROVE  LET kept == Kept(part)
             lo == (next[part] - 1) * PageSize
             hi == next[part] * PageSize
         IN  /\ lo \in Nat /\ hi = lo + PageSize
             /\ kept \in Seq(Item)
             /\ \A n \in DOMAIN kept : kept[n].id \in Ids /\ kept[n] = item[kept[n].id]
             /\ \A i \in Ids : /\ Owed(part, i) /\ lo <= Rank(part, i) /\ Rank(part, i) < hi
                               => \E n \in DOMAIN kept : kept[n] = item[i]
             /\ \A total \in {Missing, Len(Selected(part))}, i \in Ids :
                  Owed(part, i) /\ IsLast(part, total) => Rank(part, i) < hi
<1>. DEFINE listing == Selected(part)
            page == PageRead(part)
            kept == Kept(part)
            p == next[part]
            lo == (p - 1) * PageSize
            hi == p * PageSize
<1>1. /\ listing \in Seq(Item)
      /\ \A n \in DOMAIN listing : listing[n].id \in Ids /\ listing[n] = item[listing[n].id]
      /\ \A i \in Ids : Eligible(part, i) =>
              /\ Rank(part, i) + 1 \in DOMAIN listing
              /\ listing[Rank(part, i) + 1] = item[i]
      /\ \A m, n \in DOMAIN listing : m < n =>
              IF SortedByUpdate(query.provider, query.kind)
              THEN listing[m].updated >= listing[n].updated
              ELSE listing[m].id > listing[n].id
  BY SelectedIs
<1>. HIDE DEF listing
<1>2. /\ lo \in Nat /\ hi = lo + PageSize
      /\ page \in Seq(Item)
      /\ \A n \in DOMAIN page :
           lo + n \in DOMAIN listing /\ lo + n <= hi /\ page[n] = listing[lo + n]
      /\ \A n \in DOMAIN listing :
           lo < n /\ n <= hi => n - lo \in DOMAIN page /\ page[n - lo] = listing[n]
      /\ Len(page) < PageSize => Len(listing) < hi
  BY <1>1, PageIs DEF PageRead, listing
<1>3. \A i \in Ids : Owed(part, i) =>
        /\ Eligible(part, i) /\ item[i] \in Item /\ item[i].id = i
        /\ part = "recent" /\ HowRead(part) # "selected" =>
             /\ item[i].updated >= Since
             /\ SortedByUpdate(query.provider, query.kind) \/ \A j \in outdated : j < i
  BY DEF Owed, Eligible, Listed, ItemsOK, Parts, HowRead, Listing, SelectedBy
<1>4. /\ Recent(page, Since) \in Seq(Item)
      /\ \A n \in DOMAIN Recent(page, Since) :
           \E m \in DOMAIN page : Recent(page, Since)[n] = page[m]
      /\ \A m \in DOMAIN page :
           page[m].updated >= Since =>
             \E n \in DOMAIN Recent(page, Since) : Recent(page, Since)[n] = page[m]
      /\ (\A m \in DOMAIN page : page[m].updated >= Since) => Recent(page, Since) = page
  <2>1. \A n \in DOMAIN page : page[n].updated \in Int
    BY <1>2, ItemFields
  <2>2. Since \in Int
    BY DEF Since
  <2>. HIDE DEF page
  <2>. QED BY <1>2, <2>1, <2>2, RecentIs
<1>5. kept = IF HowRead(part) = "selected" THEN page ELSE Recent(page, Since)
  BY DEF Kept
<1>6. part = "open" => HowRead(part) = "selected"
  BY DEF HowRead
<1>. DEFINE recent == Recent(page, Since)
<1>. HIDE DEF page, kept, lo, hi, recent
<1>7. /\ kept \in Seq(Item)
      /\ \A n \in DOMAIN kept : \E m \in DOMAIN page : kept[n] = page[m]
  BY <1>2, <1>4, <1>5 DEF recent
<1>8. \A n \in DOMAIN kept : kept[n].id \in Ids /\ kept[n] = item[kept[n].id]
  BY <1>1, <1>2, <1>7
<1>9. ASSUME NEW i \in Ids, Owed(part, i), lo <= Rank(part, i), Rank(part, i) < hi
      PROVE  \E n \in DOMAIN kept : kept[n] = item[i]
  <2>. DEFINE r == Rank(part, i) + 1
  <2>1. r \in DOMAIN listing /\ listing[r] = item[i] /\ lo < r /\ r <= hi
    <3>1. r \in DOMAIN listing /\ listing[r] = item[i]
      BY <1>1, <1>3, <1>9
    <3>2. Rank(part, i) \in Int
      BY RankIsNumber
    <3>. QED BY <1>2, <1>9, <3>1, <3>2
  <2>. HIDE DEF r
  <2>2. PICK m \in DOMAIN page : page[m] = item[i]
    BY <1>2, <2>1
  <2>3. CASE HowRead(part) = "selected"
    BY <1>5, <2>2, <2>3
  <2>4. CASE HowRead(part) # "selected"
    <3>1. page[m].updated >= Since
      BY <1>3, <1>6, <1>9, <2>2, <2>4 DEF Parts
    <3>. QED BY <1>4, <1>5, <2>2, <2>4, <3>1 DEF recent
  <2>. QED BY <2>3, <2>4
<1>10. ASSUME NEW total \in {Missing, Len(listing)}, NEW i \in Ids,
              Owed(part, i), IsLast(part, total), ~(Rank(part, i) < hi)
       PROVE  FALSE
  <2>. DEFINE r == Rank(part, i) + 1
  <2>1. r \in DOMAIN listing /\ listing[r] = item[i] /\ hi < r
    <3>1. r \in DOMAIN listing /\ listing[r] = item[i]
      BY <1>1, <1>3, <1>10
    <3>2. Rank(part, i) \in Int
      BY RankIsNumber
    <3>. QED BY <1>2, <1>10, <3>1, <3>2
  <2>. HIDE DEF r
  <2>2. hi < Len(listing) /\ ~(Len(page) < PageSize)
    BY <1>1, <1>2, <2>1
  <2>3. ASSUME NEW n \in DOMAIN page
        PROVE  /\ IF SortedByUpdate(query.provider, query.kind)
                  THEN page[n].updated >= item[i].updated ELSE page[n].id > i
               /\ page[n].id \in Ids /\ page[n] = item[page[n].id]
    <3>1. lo + n \in DOMAIN listing /\ lo + n < r /\ page[n] = listing[lo + n]
      BY <1>1, <1>2, <2>1
    <3>2. item[i].id = i
      BY <1>3, <1>10
    <3>. QED BY <1>1, <2>1, <3>1, <3>2
  <2>4. part = "recent" /\ HowRead(part) # "selected" =>
          \A n \in DOMAIN page : page[n].updated >= Since
    <3>. SUFFICES ASSUME part = "recent", HowRead(part) # "selected", NEW n \in DOMAIN page
                  PROVE  page[n].updated >= Since
      OBVIOUS
    <3>1. item[i].updated \in Int /\ page[n].updated \in Int
      <4>1. page[n].updated \in Int
        BY <1>2, ItemFields
      <4>. QED BY <1>3, <1>10, <4>1 DEF Item
    <3>2. CASE SortedByUpdate(query.provider, query.kind)
      BY <1>3, <1>10, <2>3, <3>1, <3>2 DEF Since
    <3>3. CASE ~SortedByUpdate(query.provider, query.kind)
      <4>. DEFINE j == page[n].id
      <4>1. j \in Ids /\ j > i /\ page[n] = item[j] /\ j \in Int /\ i \in Int
        BY <2>3, <3>3 DEF Ids
      <4>2. j \notin outdated
        BY <1>3, <1>10, <3>3, <4>1
      <4>3. item[j] # Missing
        <5>1. page[n] \in Item
          BY <1>2, ItemFields
        <5>. QED BY <4>1, <5>1 DEF Item
      <4>4. ~(item[j].updated < Since)
        BY <4>1, <4>2, <4>3 DEF EditsOK, Old
      <4>. QED BY <3>1, <4>1, <4>4 DEF Since
    <3>. QED BY <3>2, <3>3
  <2>5. LastPageRead(HowRead(part), page, PageSize, p, Since, total)
    BY <1>10 DEF IsLast, page
  <2>6. CASE HowRead(part) = "to the boundary" /\ BoundaryReached(page, Since)
    <3>1. part = "recent"
      BY <1>6, <2>6 DEF Parts
    <3>2. page # <<>> /\ page[Len(page)].updated < Since
      BY <2>6 DEF BoundaryReached
    <3>3. Len(page) \in DOMAIN page
      BY <1>2, <3>2
    <3>4. page[Len(page)].updated \in Int
      BY <1>2, <3>3, ItemFields
    <3>5. page[Len(page)].updated >= Since
      BY <2>4, <2>6, <3>1, <3>3
    <3>. QED BY <3>2, <3>4, <3>5 DEF Since
  <2>7. CASE HowRead(part) = "by page" /\ Recent(page, Since) # page
    <3>1. part = "recent"
      BY <1>6, <2>7 DEF Parts
    <3>. QED BY <1>4, <2>4, <2>7, <3>1
  <2>8. CASE total # Missing /\ hi >= total
    <3>1. Len(listing) \in Int /\ hi \in Int
      BY <1>1, <1>2
    <3>. QED BY <2>2, <2>8, <3>1
  <2>. QED BY <2>2, <2>5, <2>6, <2>7, <2>8 DEF LastPageRead, hi
<1>11. \A total \in {Missing, Len(Selected(part))}, i \in Ids :
         Owed(part, i) /\ IsLast(part, total) => Rank(part, i) < hi
  BY <1>10 DEF listing
<1>. QED BY <1>2, <1>7, <1>8, <1>9, <1>11 DEF kept, lo, hi

\* What is created or changed comes before everything else.
LEMMA ChangeItemDoes ==
  ASSUME ItemsOK, EditsOK, NEW i \in Ids, ChangeItem(i)
  PROVE  /\ \E open \in BOOLEAN :
              /\ item'[i].id = i /\ item'[i].updated = 4 + edits /\ item'[i].open = open
              /\ item'[i].created = IF item[i] = Missing THEN 4 + edits ELSE item[i].created
              /\ item' \in [Ids -> Item \cup {Missing}] /\ item'[i] \in Item
              /\ ~left' => ~left /\ (item[i] # Missing /\ item[i].open => open)
         /\ \A j \in Ids \ {i} : item'[j] = item[j]
         /\ edits' = edits + 1 /\ edits' \in 0..MaxEdits
         /\ touched' = touched \cup {i}
         /\ UNCHANGED <<query, outdated, next, read, lastRead>>
<1>. DEFINE new(open) == [id |-> i,
                          created |-> IF item[i] = Missing THEN 4 + edits ELSE item[i].created,
                          updated |-> 4 + edits, open |-> open]
<1>1. PICK open \in BOOLEAN :
        /\ item' = [item EXCEPT ![i] = new(open)]
        /\ left' = (left \/ (item[i] # Missing /\ item[i].open /\ ~open))
  BY DEF ChangeItem
<1>2. edits' = edits + 1 /\ edits' \in 0..MaxEdits
  BY DEF ChangeItem, EditsOK
<1>3. /\ new(open).id = i /\ new(open).updated = 4 + edits /\ new(open).open = open
      /\ new(open).created = IF item[i] = Missing THEN 4 + edits ELSE item[i].created
      /\ new(open) \in Item
  BY DEF EditsOK, Item, Ids, ItemsOK
<1>. HIDE DEF new
<1>4. DOMAIN item = Ids
  BY DEF ItemsOK
<1>5. item'[i] = new(open) /\ \A j \in Ids \ {i} : item'[j] = item[j]
  BY <1>1, <1>4
<1>6. item' \in [Ids -> Item \cup {Missing}]
  BY <1>1, <1>3 DEF ItemsOK
<1>7. ~left' => ~left /\ (item[i] # Missing /\ item[i].open => open)
  BY <1>1
<1>8. touched' = touched \cup {i} /\ UNCHANGED <<query, outdated, next, read, lastRead>>
  BY DEF ChangeItem
<1>. QED BY <1>2, <1>3, <1>5, <1>6, <1>7, <1>8

\* A deletion touches one item, and what listings hold moves up.
LEMMA DeleteItemDoes ==
  ASSUME ItemsOK, EditsOK, NEW i \in Ids, DeleteItem(i)
  PROVE  /\ item' = [item EXCEPT ![i] = Missing] /\ left' = TRUE
         /\ edits' = edits + 1 /\ edits' \in 0..MaxEdits
         /\ touched' = touched \cup {i}
         /\ UNCHANGED <<query, outdated, next, read, lastRead>>
BY DEF DeleteItem, EditsOK

\* A failure forgets what was read.
LEMMA FailStartsOver ==
  ASSUME Fail
  PROVE  /\ next' = Unread /\ read' = [p \in Parts |-> <<>>]
         /\ lastRead' = [i \in Ids |-> Missing]
         /\ edits' = MaxEdits /\ touched' = {} /\ left' = FALSE /\ outdated' = Old
         /\ UNCHANGED <<query, item>>
BY DEF Fail

\* The steps, as far as the listings see them.
LEMMA ListingCases ==
  ASSUME [ListingNext]_listingVars
  PROVE  \/ \E i \in Ids : ChangeItem(i)
         \/ \E i \in Ids : DeleteItem(i)
         \/ \E part \in Parts : ReadPage(part)
         \/ Fail
         \/ UNCHANGED <<query, item, edits, touched, left, outdated, next, read, lastRead>>
BY DEF ListingNext, listingVars, Refresh, remoteItems

\* Each listing that is asked for starts with its first page.
LEMMA UnreadIs ==
  /\ Unread \in [Parts -> (Nat \ {0}) \cup {Missing}]
  /\ Unread["recent"] = 1
  /\ Unread["open"] = IF query.includeAllOpen THEN 1 ELSE Missing
BY DEF Unread, Parts

\* Items, edits and the places of the readers keep their types.
LEMMA TypesKeep ==
  ASSUME ItemsOK, EditsOK, ReadingOK, [ListingNext]_listingVars
  PROVE  ItemsOK' /\ EditsOK' /\ ReadingOK'
<1>1. ASSUME NEW i \in Ids, ChangeItem(i)
      PROVE  ItemsOK' /\ EditsOK' /\ ReadingOK'
  <2>1. PICK open \in BOOLEAN :
              /\ item'[i].id = i /\ item'[i].updated = 4 + edits
              /\ item' \in [Ids -> Item \cup {Missing}]
    BY <1>1, ChangeItemDoes
  <2>2. /\ \A j \in Ids \ {i} : item'[j] = item[j]
        /\ edits' = edits + 1 /\ edits' \in 0..MaxEdits
        /\ UNCHANGED <<query, outdated, next, read, lastRead>>
    BY <1>1, ChangeItemDoes
  <2>4. ItemsOK'
    BY <2>1, <2>2 DEF ItemsOK
  <2>5. EditsOK'
    <3>1. \A j \in Ids \ {i} : item[j] # Missing => item[j].updated \in Int
      BY DEF ItemsOK, Item
    <3>2. i \notin Old' /\ \A j \in Ids \ {i} : j \in Old' => j \in Old
      BY <2>1, <2>2 DEF Old, EditsOK, Since
    <3>3. Old' \subseteq Ids
      BY DEF Old
    <3>. QED BY <2>1, <2>2, <3>1, <3>2, <3>3 DEF EditsOK
  <2>6. ReadingOK'
    BY <2>2 DEF ReadingOK
  <2>. QED BY <2>4, <2>5, <2>6
<1>2. ASSUME NEW i \in Ids, DeleteItem(i)
      PROVE  ItemsOK' /\ EditsOK' /\ ReadingOK'
  <2>1. /\ item' = [item EXCEPT ![i] = Missing]
        /\ edits' = edits + 1 /\ edits' \in 0..MaxEdits
        /\ UNCHANGED <<query, outdated, next, read, lastRead>>
    BY <1>2, DeleteItemDoes
  <2>2. ItemsOK'
    BY <2>1 DEF ItemsOK
  <2>3. EditsOK'
    <3>1. \A j \in Ids : item'[j] # Missing => item'[j] = item[j] /\ item[j].updated \in Int
      BY <2>1 DEF ItemsOK, Item
    <3>2. Old' \subseteq Old
      BY <2>1, <3>1 DEF Old
    <3>. QED BY <2>1, <3>1, <3>2 DEF EditsOK
  <2>. QED BY <2>1, <2>2, <2>3 DEF ReadingOK
<1>3. ASSUME NEW part \in Parts, ReadPage(part)
      PROVE  ItemsOK' /\ EditsOK' /\ ReadingOK'
  <2>1. /\ next[part] # Missing
        /\ \E total \in {Missing, Len(Selected(part))} :
              next' = [next EXCEPT ![part] = IF IsLast(part, total) THEN Missing ELSE @ + 1]
        /\ read' = [read EXCEPT ![part] = @ \o Kept(part)]
        /\ lastRead' = [i \in Ids |-> IF \E k \in Range(Kept(part)) : k.id = i
                                       THEN item[i] ELSE lastRead[i]]
        /\ UNCHANGED <<query, item, edits, touched, left, outdated>>
    BY <1>3, ReadPageDoes
  <2>2. Kept(part) \in Seq(Item)
    BY <2>1, KeptIs DEF ReadingOK
  <2>3. next' \in [Parts -> (Nat \ {0}) \cup {Missing}]
    BY <2>1 DEF ReadingOK
  <2>4. read' \in [Parts -> Seq(Item)]
    BY <2>1, <2>2 DEF ReadingOK
  <2>5. ~query.includeAllOpen => part = "recent"
    BY <2>1 DEF ReadingOK, Parts
  <2>6. part = "recent" => next'["open"] = next["open"] /\ read'["open"] = read["open"]
    BY <2>1 DEF ReadingOK, Parts
  <2>7. DOMAIN lastRead' = Ids
    BY <2>1
  <2>8. Old' = Old
    BY <2>1 DEF Old
  <2>. QED BY <2>1, <2>3, <2>4, <2>5, <2>6, <2>7, <2>8 DEF ItemsOK, EditsOK, ReadingOK
<1>4. CASE Fail
  <2>1. read' \in [Parts -> Seq(Item)] /\ read'["open"] = <<>>
    <3>1. read' = [p \in Parts |-> <<>>] /\ <<>> \in Seq(Item) /\ "open" \in Parts
      BY <1>4, FailStartsOver DEF Parts
    <3>. QED BY <3>1
  <2>2. /\ next' \in [Parts -> (Nat \ {0}) \cup {Missing}]
        /\ ~query.includeAllOpen => next'["open"] = Missing
    BY <1>4, FailStartsOver, UnreadIs
  <2>3. EditsOK'
    <3>1. \A j \in Ids : item[j] # Missing => item[j].updated \in Int
      BY DEF ItemsOK, Item
    <3>2. Old' = Old
      BY <1>4, FailStartsOver DEF Old
    <3>. QED BY <1>4, <3>1, <3>2, FailStartsOver DEF EditsOK
  <2>. QED BY <1>4, <2>1, <2>2, <2>3, FailStartsOver DEF ItemsOK, ReadingOK
<1>5. CASE UNCHANGED <<query, item, edits, touched, left, outdated, next, read, lastRead>>
  BY <1>5 DEF ItemsOK, EditsOK, ReadingOK, Old
<1>. QED BY <1>1, <1>2, <1>3, <1>4, <1>5, ListingCases

\* A page is appended to what was read of its listing.
LEMMA Appended ==
  ASSUME ItemsOK, EditsOK, ReadingOK, NEW part \in Parts, ReadPage(part)
  PROVE  LET kept == Kept(part)
             k == Len(read[part])
         IN  /\ kept \in Seq(Item) /\ k \in Nat
             /\ \A other \in Parts \ {part} : read'[other] = read[other]
             /\ Len(read'[part]) = k + Len(kept)
             /\ DOMAIN read'[part] = 1..(k + Len(kept))
             /\ \A n \in DOMAIN read[part] :
                  n \in DOMAIN read'[part] /\ read'[part][n] = read[part][n]
             /\ \A n \in DOMAIN kept :
                  k + n \in DOMAIN read'[part] /\ read'[part][k + n] = kept[n]
             /\ \A n \in DOMAIN read'[part] :
                  \/ n \in DOMAIN read[part] /\ read'[part][n] = read[part][n]
                  \/ n - k \in DOMAIN kept /\ read'[part][n] = kept[n - k]
<1>. DEFINE kept == Kept(part)
            old == read[part]
            new == read'[part]
<1>1. kept \in Seq(Item)
  BY ReadPageDoes, KeptIs DEF ReadingOK
<1>2. old \in Seq(Item)
  BY DEF ReadingOK
<1>3. new = old \o kept /\ \A other \in Parts \ {part} : read'[other] = read[other]
  BY ReadPageDoes DEF ReadingOK
<1>. HIDE DEF kept, old, new
<1>4. /\ kept \in Seq(Item) /\ Len(old) \in Nat
      /\ Len(new) = Len(old) + Len(kept)
      /\ DOMAIN new = 1..(Len(old) + Len(kept))
      /\ \A n \in DOMAIN old : n \in DOMAIN new /\ new[n] = old[n]
      /\ \A n \in DOMAIN kept : Len(old) + n \in DOMAIN new /\ new[Len(old) + n] = kept[n]
      /\ \A n \in DOMAIN new :
           \/ n \in DOMAIN old /\ new[n] = old[n]
           \/ n - Len(old) \in DOMAIN kept /\ new[n] = kept[n - Len(old)]
  BY <1>1, <1>2, <1>3
<1>. QED BY <1>3, <1>4 DEF kept, old, new

\* What was read stays as it is at the provider unless it is touched.
LEMMA ReadStaysCurrent ==
  ASSUME ItemsOK, EditsOK, ReadingOK, ReadIsCurrent, [ListingNext]_listingVars
  PROVE  ReadIsCurrent'
<1>1. ASSUME NEW i \in Ids, ChangeItem(i) \/ DeleteItem(i)
      PROVE  ReadIsCurrent'
  <2>1. /\ \A j \in Ids \ {i} : item'[j] = item[j]
        /\ touched' = touched \cup {i} /\ read' = read
    <3>1. CASE ChangeItem(i)
      BY <3>1, ChangeItemDoes
    <3>2. CASE DeleteItem(i)
      BY <3>2, DeleteItemDoes DEF ItemsOK
    <3>. QED BY <1>1, <3>1, <3>2
  <2>. QED BY <2>1 DEF ReadIsCurrent
<1>2. ASSUME NEW part \in Parts, ReadPage(part)
      PROVE  ReadIsCurrent'
  <2>1. UNCHANGED <<item, touched>> /\ next[part] \in Nat \ {0}
    BY <1>2, ReadPageDoes DEF ReadingOK
  <2>2. \A n \in DOMAIN Kept(part) :
          Kept(part)[n].id \in Ids /\ Kept(part)[n] = item[Kept(part)[n].id]
    BY <2>1, KeptIs
  <2>3. \A n \in DOMAIN read'[part] :
                  \/ n \in DOMAIN read[part] /\ read'[part][n] = read[part][n]
                  \/ \E m \in DOMAIN Kept(part) : read'[part][n] = Kept(part)[m]
    BY <1>2, Appended
  <2>4. \A other \in Parts \ {part} : read'[other] = read[other]
    BY <1>2, Appended
  <2>. QED BY <2>1, <2>2, <2>3, <2>4 DEF ReadIsCurrent
<1>3. CASE Fail
  BY <1>3, FailStartsOver DEF ReadIsCurrent
<1>4. CASE UNCHANGED <<query, item, edits, touched, left, outdated, next, read, lastRead>>
  BY <1>4 DEF ReadIsCurrent
<1>. QED BY <1>1, <1>2, <1>3, <1>4, ListingCases

\* Nothing owed is passed over: an untouched item never moves to a page already read
\* while none leaves the listings.
LEMMA ReadStaysComplete ==
  ASSUME ItemsOK, EditsOK, ReadingOK, ReadIsComplete, [ListingNext]_listingVars
  PROVE  ReadIsComplete'
<1>1. ASSUME NEW i0 \in Ids, ChangeItem(i0)
      PROVE  ReadIsComplete'
  <2>1. PICK open \in BOOLEAN :
              /\ item'[i0].id = i0 /\ item'[i0].updated = 4 + edits /\ item'[i0].open = open
              /\ item'[i0].created = IF item[i0] = Missing THEN 4 + edits ELSE item[i0].created
              /\ item'[i0] \in Item
              /\ ~left' => ~left /\ (item[i0] # Missing /\ item[i0].open => open)
    BY <1>1, ChangeItemDoes
  <2>2. /\ \A j \in Ids \ {i0} : item'[j] = item[j]
        /\ touched' = touched \cup {i0}
        /\ UNCHANGED <<query, outdated, next, read>>
    BY <1>1, ChangeItemDoes
  <2>3. item'[i0] # Missing
    BY <2>1 DEF Item
  <2>. SUFFICES ASSUME ~left', NEW part \in Parts, NEW i \in Ids \ touched', Owed(part, i)',
                       next'[part] # Missing => Rank(part, i)' < (next'[part] - 1) * PageSize
                PROVE  \E n \in DOMAIN read'[part] : read'[part][n] = item'[i]
    BY DEF ReadIsComplete
  <2>4. i \in Ids \ touched /\ i # i0 /\ item'[i] = item[i] /\ Owed(part, i)
    BY <2>2 DEF Owed
  <2>5. Rank(part, i) <= Rank(part, i)'
    <3>. DEFINE K == {j \in Ids : Eligible(part, j) /\ Later(j, i)}
                L == {j \in Ids : Eligible(part, j)' /\ Later(j, i)'}
    <3>1. ASSUME NEW j \in Ids \ {i0}
          PROVE  /\ Eligible(part, j)' <=> Eligible(part, j)
                 /\ Later(j, i)' <=> Later(j, i)
      BY <2>2, <2>4 DEF Eligible, Listed, Later
    <3>2. ASSUME Eligible(part, i0), Later(i0, i)
          PROVE  Eligible(part, i0)' /\ Later(i0, i)'
      <4>1. Eligible(part, i0)'
        <5>1. item[i0] # Missing /\ item'[i0].created = item[i0].created
          BY <2>1, <3>2 DEF Eligible, Listed
        <5>. QED BY <2>1, <2>2, <2>3, <3>2, <5>1 DEF Eligible, Listed, EditsOK, Since
      <4>2. item[i] # Missing /\ item[i].updated \in Int /\ item[i].updated <= 3 + edits
        BY <2>4 DEF Owed, EditsOK, ItemsOK, Item
      <4>3. item'[i0].updated > item'[i].updated
        BY <2>1, <2>4, <4>2 DEF EditsOK
      <4>. QED BY <2>2, <3>2, <4>1, <4>3 DEF Later
    <3>3. K \in SUBSET L /\ L \in SUBSET Ids
      BY <3>1, <3>2
    <3>4. IsFiniteSet(L)
      BY <3>3, IdsAreFinite, FS_Subset
    <3>5. Rank(part, i) = Cardinality(K) /\ Rank(part, i)' = Cardinality(L)
      BY DEF Rank
    <3>. HIDE DEF K, L
    <3>. QED BY <3>3, <3>4, <3>5, FS_Subset
  <2>6. Rank(part, i) \in Nat /\ Rank(part, i)' \in Nat
    <3>1. Rank(part, i) \in Nat
      BY RankIsNumber
    <3>2. IsFiniteSet(Ids)
      BY IdsAreFinite
    <3>3. {j \in Ids : Eligible(part, j)' /\ Later(j, i)'} \in SUBSET Ids
      OBVIOUS
    <3>4. Rank(part, i)' = Cardinality({j \in Ids : Eligible(part, j)' /\ Later(j, i)'})
      BY DEF Rank
    <3>5. Rank(part, i)' \in Nat
      BY <3>2, <3>3, <3>4, FS_Subset, FS_CardinalityType
    <3>. QED BY <3>1, <3>5
  <2>7. next[part] # Missing => Rank(part, i) < (next[part] - 1) * PageSize
    <3>. SUFFICES ASSUME next[part] # Missing
                  PROVE  Rank(part, i) < (next[part] - 1) * PageSize
      OBVIOUS
    <3>. DEFINE lo == (next[part] - 1) * PageSize
    <3>1. lo \in Int
      BY DEF ReadingOK
    <3>2. Rank(part, i)' < lo
      BY <2>2
    <3>. HIDE DEF lo
    <3>3. Rank(part, i) < lo
      BY <2>5, <2>6, <3>1, <3>2
    <3>. QED BY <3>3 DEF lo
  <2>8. ~left
    BY <2>1
  <2>. QED BY <2>2, <2>4, <2>7, <2>8 DEF ReadIsComplete
<1>2. ASSUME NEW i \in Ids, DeleteItem(i)
      PROVE  ReadIsComplete'
  BY <1>2, DeleteItemDoes DEF ReadIsComplete
<1>3. ASSUME NEW part \in Parts, ReadPage(part)
      PROVE  ReadIsComplete'
  <2>1. /\ next[part] \in Nat \ {0}
        /\ UNCHANGED <<query, item, edits, touched, left, outdated>>
    BY <1>3, ReadPageDoes DEF ReadingOK
  <2>2. PICK total \in {Missing, Len(Selected(part))} :
              next' = [next EXCEPT ![part] = IF IsLast(part, total) THEN Missing ELSE @ + 1]
    BY <1>3, ReadPageDoes
  <2>. DEFINE p == next[part]
              lo == (p - 1) * PageSize
              hi == p * PageSize
  <2>3. /\ lo \in Nat /\ hi = lo + PageSize
        /\ \A i \in Ids : /\ Owed(part, i) /\ lo <= Rank(part, i) /\ Rank(part, i) < hi
                          => \E n \in DOMAIN Kept(part) : Kept(part)[n] = item[i]
        /\ \A i \in Ids : Owed(part, i) /\ IsLast(part, total) => Rank(part, i) < hi
    BY <2>1, KeptIs
  <2>4. /\ \A n \in DOMAIN read[part] :
             n \in DOMAIN read'[part] /\ read'[part][n] = read[part][n]
        /\ \A n \in DOMAIN Kept(part) :
             \E m \in DOMAIN read'[part] : read'[part][m] = Kept(part)[n]
        /\ \A other \in Parts \ {part} :
             read'[other] = read[other] /\ next'[other] = next[other]
    <3>1. \A other \in Parts \ {part} : next'[other] = next[other]
      BY <2>2 DEF ReadingOK
    <3>2. \A other \in Parts \ {part} : read'[other] = read[other]
      BY <1>3, Appended
    <3>3. /\ \A n \in DOMAIN read[part] :
               n \in DOMAIN read'[part] /\ read'[part][n] = read[part][n]
          /\ \A n \in DOMAIN Kept(part) :
               \E m \in DOMAIN read'[part] : read'[part][m] = Kept(part)[n]
      BY <1>3, Appended
    <3>. QED BY <3>1, <3>2, <3>3
  <2>5. \A other, i : (Owed(other, i)' <=> Owed(other, i)) /\ Rank(other, i)' = Rank(other, i)
    BY <2>1 DEF Owed, Rank, Eligible, Listed, Later
  <2>6. ASSUME NEW i \in Ids \ touched, Owed(part, i), ~left,
               next'[part] # Missing => Rank(part, i) < (next'[part] - 1) * PageSize
        PROVE  \E n \in DOMAIN read'[part] : read'[part][n] = item[i]
    <3>. DEFINE r == Rank(part, i)
    <3>1. r \in Nat
      BY RankIsNumber
    <3>2. r < hi
      <4>1. CASE IsLast(part, total)
        BY <2>3, <2>6, <4>1
      <4>2. CASE ~IsLast(part, total)
        <5>1. next'[part] = p + 1 /\ (p + 1) - 1 = p /\ next'[part] # Missing
          BY <2>1, <2>2, <4>2 DEF ReadingOK
        <5>. QED BY <2>6, <5>1
      <4>. QED BY <4>1, <4>2
    <3>3. CASE r < lo
      <4>1. \E n \in DOMAIN read[part] : read[part][n] = item[i]
        BY <2>6, <3>3 DEF ReadIsComplete
      <4>. QED BY <2>4, <4>1
    <3>4. CASE lo <= r
      <4>1. \E n \in DOMAIN Kept(part) : Kept(part)[n] = item[i]
        BY <2>3, <2>6, <3>2, <3>4
      <4>. QED BY <2>4, <4>1
    <3>. HIDE DEF r, lo
    <3>. QED BY <2>3, <3>1, <3>3, <3>4
  <2>7. ASSUME NEW other \in Parts \ {part}, NEW i \in Ids \ touched, Owed(other, i), ~left,
               next'[other] # Missing => Rank(other, i) < (next'[other] - 1) * PageSize
        PROVE  \E n \in DOMAIN read'[other] : read'[other][n] = item[i]
    BY <2>4, <2>7 DEF ReadIsComplete
  <2>8. SUFFICES ASSUME ~left', NEW any \in Parts, NEW i \in Ids \ touched', Owed(any, i)',
                       next'[any] # Missing => Rank(any, i)' < (next'[any] - 1) * PageSize
                PROVE  \E n \in DOMAIN read'[any] : read'[any][n] = item'[i]
    BY DEF ReadIsComplete
  <2>. QED BY <2>1, <2>5, <2>6, <2>7, <2>8
<1>4. CASE Fail
  <2>1. /\ next' = Unread /\ UNCHANGED <<query, item>>
    BY <1>4, FailStartsOver
  <2>. SUFFICES ASSUME NEW part \in Parts, NEW i, Owed(part, i)',
                       next'[part] # Missing => Rank(part, i)' < (next'[part] - 1) * PageSize
                PROVE  FALSE
    BY DEF ReadIsComplete
  <2>2. next'[part] = 1
    BY <2>1, UnreadIs DEF Owed, Parts
  <2>3. Rank(part, i)' = Rank(part, i)
    BY <2>1 DEF Rank, Eligible, Listed, Later
  <2>4. (1 - 1) * PageSize = 0
    OBVIOUS
  <2>. QED BY <2>2, <2>3, <2>4, RankIsNumber
<1>5. CASE UNCHANGED <<query, item, edits, touched, left, outdated, next, read, lastRead>>
  <2>1. \A other, i : (Owed(other, i)' <=> Owed(other, i)) /\ Rank(other, i)' = Rank(other, i)
    BY <1>5 DEF Owed, Rank, Eligible, Listed, Later
  <2>. QED BY <1>5, <2>1 DEF ReadIsComplete
<1>. QED BY <1>1, <1>2, <1>3, <1>4, <1>5, ListingCases

\* Concatenation.
LEMMA Joins ==
  ASSUME NEW T, NEW a \in Seq(T), NEW b \in Seq(T), NEW c \in Seq(T)
  PROVE  /\ a \o <<>> = a
         /\ (a \o b) \o c = a \o (b \o c)
<1>1. a \o <<>> = a
  OBVIOUS
<1>2. (a \o b) \o c = a \o (b \o c)
  OBVIOUS
<1>. QED BY <1>1, <1>2

\* Of an adapter that reads one listing after the other.
LEMMA EverythingGrows ==
  ASSUME ItemsOK, EditsOK, ReadingOK, InOrderOfReading, ~Concurrent(query.provider),
         NEW part \in Parts, ReadPage(part)
  PROVE  /\ AllRead' = AllRead \o Kept(part)
         /\ next'["recent"] # Missing => read'["open"] = <<>>
<1>1. /\ next[part] # Missing
      /\ part = "open" => next["recent"] = Missing
      /\ \E total \in {Missing, Len(Selected(part))} :
           next' = [next EXCEPT ![part] = IF IsLast(part, total) THEN Missing ELSE @ + 1]
      /\ read' = [read EXCEPT ![part] = @ \o Kept(part)]
  BY ReadPageDoes
<1>2. /\ Kept(part) \in Seq(Item)
      /\ read["recent"] \in Seq(Item) /\ read["open"] \in Seq(Item)
  BY <1>1, KeptIs DEF ReadingOK, Parts
<1>3. next["recent"] # Missing => read["open"] = <<>>
  BY DEF InOrderOfReading
<1>4. CASE part = "recent"
  <2>1. /\ read'["recent"] = read["recent"] \o Kept(part) /\ read'["open"] = <<>>
        /\ read["open"] = <<>>
    BY <1>1, <1>3, <1>4 DEF ReadingOK, Parts
  <2>2. read["recent"] \o Kept(part) \in Seq(Item)
    BY <1>2
  <2>3. AllRead' = read["recent"] \o Kept(part) /\ AllRead = read["recent"]
    BY <1>2, <2>1, <2>2, Joins DEF AllRead
  <2>. QED BY <2>1, <2>3
<1>5. CASE part = "open"
  <2>1. /\ read'["open"] = read["open"] \o Kept(part) /\ read'["recent"] = read["recent"]
        /\ next'["recent"] = next["recent"] /\ next["recent"] = Missing
    BY <1>1, <1>5 DEF ReadingOK, Parts
  <2>2. (read["recent"] \o read["open"]) \o Kept(part)
          = read["recent"] \o (read["open"] \o Kept(part))
    <3>. DEFINE a == read["recent"]
                b == read["open"]
                c == Kept(part)
    <3>1. a \in Seq(Item) /\ b \in Seq(Item) /\ c \in Seq(Item)
      BY <1>2
    <3>. HIDE DEF a, b, c
    <3>2. (a \o b) \o c = a \o (b \o c)
      BY <3>1
    <3>. QED BY <3>2 DEF a, b, c
  <2>. QED BY <2>1, <2>2 DEF AllRead
<1>. QED BY <1>4, <1>5 DEF Parts

\* The latest reading of an item stays the last among all that was read.
LEMMA OrderKeeps ==
  ASSUME ItemsOK, EditsOK, ReadingOK, InOrderOfReading, [ListingNext]_listingVars
  PROVE  InOrderOfReading'
<1>1. CASE \E i \in Ids : ChangeItem(i) \/ DeleteItem(i)
  <2>1. UNCHANGED <<query, next, read, lastRead>>
    BY <1>1 DEF ChangeItem, DeleteItem
  <2>2. AllRead' = AllRead /\ query'.provider = query.provider
    BY <2>1 DEF AllRead
  <2>. QED BY <2>1, <2>2 DEF InOrderOfReading
<1>2. ASSUME NEW part \in Parts, ReadPage(part)
      PROVE  InOrderOfReading'
  <2>. SUFFICES ASSUME ~Concurrent(query.provider)
                PROVE  InOrderOfReading'
    <3>1. query' = query
      BY <1>2, ReadPageDoes
    <3>. QED BY <3>1 DEF InOrderOfReading
  <2>. DEFINE kept == Kept(part)
              old == AllRead
              new == AllRead'
  <2>1. new = old \o kept /\ (next'["recent"] # Missing => read'["open"] = <<>>)
    BY <1>2, EverythingGrows
  <2>2. /\ next[part] \in Nat \ {0} /\ query' = query
        /\ lastRead' = [i \in Ids |-> IF \E k \in Range(kept) : k.id = i
                                       THEN item[i] ELSE lastRead[i]]
    BY <1>2, ReadPageDoes DEF ReadingOK
  <2>3. /\ kept \in Seq(Item)
        /\ \A n \in DOMAIN kept : kept[n].id \in Ids /\ kept[n] = item[kept[n].id]
    BY <2>2, KeptIs
  <2>4. old \in Seq(Item)
    BY DEF ReadingOK, AllRead, Parts
  <2>5. \A i \in Ids : lastRead[i] # Missing =>
          \E n \in DOMAIN old :
           /\ old[n] = lastRead[i] /\ lastRead[i].id = i
           /\ \A m \in DOMAIN old :
                m > n /\ old[m].id = i => old[m] = lastRead[i]
    BY DEF InOrderOfReading
  <2>6. \A i \in Ids : lastRead'[i] = IF \E n \in DOMAIN kept : kept[n].id = i
                                      THEN item[i] ELSE lastRead[i]
    BY <2>2 DEF Range
  <2>. HIDE DEF kept, old, new
  <2>. DEFINE k == Len(old)
  <2>7. /\ k \in Nat /\ DOMAIN old = 1..k
        /\ DOMAIN new = 1..(k + Len(kept)) /\ DOMAIN kept = 1..Len(kept)
        /\ \A n \in DOMAIN old : n \in DOMAIN new /\ new[n] = old[n]
        /\ \A n \in DOMAIN kept : k + n \in DOMAIN new /\ new[k + n] = kept[n]
        /\ \A n \in DOMAIN new :
             \/ n \in DOMAIN old /\ new[n] = old[n]
             \/ n > k /\ n - k \in DOMAIN kept /\ new[n] = kept[n - k]
    BY <2>1, <2>3, <2>4
  <2>. HIDE DEF k
  <2>8. ASSUME NEW i \in Ids, lastRead'[i] # Missing
        PROVE  \E n \in DOMAIN new :
           /\ new[n] = lastRead'[i] /\ lastRead'[i].id = i
           /\ \A m \in DOMAIN new :
                m > n /\ new[m].id = i => new[m] = lastRead'[i]
    <3>1. CASE \E n \in DOMAIN kept : kept[n].id = i
      <4>1. PICK n \in DOMAIN kept : kept[n].id = i
        BY <3>1
      <4>2. lastRead'[i] = item[i] /\ kept[n] = item[i]
        BY <2>3, <2>6, <3>1, <4>1
      <4>3. k + n \in DOMAIN new /\ new[k + n] = item[i] /\ item[i].id = i
        BY <2>7, <4>1, <4>2
      <4>4. \A m \in DOMAIN new : m > k + n /\ new[m].id = i => new[m] = item[i]
        <5>. SUFFICES ASSUME NEW m \in DOMAIN new, m > k + n, new[m].id = i
                      PROVE  new[m] = item[i]
          OBVIOUS
        <5>1. m \notin DOMAIN old
          BY <2>7
        <5>2. m - k \in DOMAIN kept /\ new[m] = kept[m - k]
          BY <2>7, <5>1
        <5>. QED BY <2>3, <5>2
      <4>. QED BY <4>2, <4>3, <4>4
    <3>2. CASE ~ \E n \in DOMAIN kept : kept[n].id = i
      <4>1. lastRead'[i] = lastRead[i]
        BY <2>6, <3>2
      <4>2. PICK n \in DOMAIN old :
              /\ old[n] = lastRead[i] /\ lastRead[i].id = i
              /\ \A m \in DOMAIN old : m > n /\ old[m].id = i => old[m] = lastRead[i]
        BY <2>5, <2>8, <4>1
      <4>3. n \in DOMAIN new /\ new[n] = lastRead[i]
        BY <2>7, <4>2
      <4>4. \A m \in DOMAIN new : m > n /\ new[m].id = i => new[m] = lastRead[i]
        BY <2>7, <3>2, <4>2
      <4>. QED BY <4>1, <4>2, <4>3, <4>4
    <3>. QED BY <3>1, <3>2
  <2>. QED BY <2>1, <2>2, <2>8 DEF InOrderOfReading, new
<1>3. CASE Fail
  <2>1. /\ read' = [p \in Parts |-> <<>>] /\ lastRead' = [i \in Ids |-> Missing]
    BY <1>3, FailStartsOver
  <2>. QED BY <2>1 DEF InOrderOfReading, Parts
<1>4. CASE UNCHANGED <<query, item, edits, touched, left, outdated, next, read, lastRead>>
  <2>1. AllRead' = AllRead /\ query'.provider = query.provider
    BY <1>4 DEF AllRead
  <2>. QED BY <1>4, <2>1 DEF InOrderOfReading
<1>. QED BY <1>1, <1>2, <1>3, <1>4, ListingCases

\* At first nothing is read, and nothing is before the first page.
LEMMA ListingInits ==
  ASSUME ListingInit
  PROVE  ListingInvariant
<1>1. /\ next = Unread /\ read = [p \in Parts |-> <<>>] /\ lastRead = [i \in Ids |-> Missing]
      /\ query \in Queries /\ edits = 0 /\ touched = {} /\ left = FALSE /\ outdated = Old
  BY DEF ListingInit
<1>. DEFINE ItemOf(created, updated, open, i) ==
              [id |-> i, created |-> created[i], updated |-> updated[i], open |-> open[i]]
<1>2. PICK n \in 0..MaxItems :
        \E created, updated \in [1..n -> Updated], open \in [1..n -> BOOLEAN] :
          item = [i \in Ids |-> IF i \in 1..n THEN ItemOf(created, updated, open, i)
                                ELSE Missing]
  <2>1. \E n \in 0..MaxItems :
        \E created, updated \in [1..n -> Updated], open \in [1..n -> BOOLEAN] :
          /\ \A i \in 1..n : created[i] <= updated[i]
          /\ SortedByUpdate(query.provider, query.kind) =>
               \A i, j \in 1..n : i < j => updated[i] >= updated[j]
          /\ IF SelectedBy(query.provider, query.kind) = "created"
             THEN \A i, j \in 1..n : i < j => created[i] <= created[j]
             ELSE \A i \in 1..n : created[i] = 1
          /\ query.includeAllOpen \/ \A i \in 1..n : open[i]
          /\ item = [i \in Ids |-> IF i \in 1..n
                                   THEN ItemOf(created, updated, open, i)
                                   ELSE Missing]
    BY DEF ListingInit
  <2>. HIDE DEF ItemOf
  <2>. QED BY <2>1
<1>3. PICK created \in [1..n -> Updated], updated \in [1..n -> Updated],
           open \in [1..n -> BOOLEAN] :
        item = [i \in Ids |-> IF i \in 1..n THEN ItemOf(created, updated, open, i)
                              ELSE Missing]
  BY <1>2
<1>4. ASSUME NEW i \in 1..n
      PROVE  LET x == ItemOf(created, updated, open, i)
             IN  x \in Item /\ x.id = i /\ x.updated <= 3 /\ x.updated \in Int
  BY DEF Item, Updated
<1>. HIDE DEF ItemOf
<1>5. ItemsOK
  BY <1>3, <1>4 DEF ItemsOK
<1>6. EditsOK
  <2>1. \A i \in Ids : item[i] # Missing => item[i].updated <= 3 /\ item[i].updated \in Int
    BY <1>3, <1>4
  <2>. QED BY <1>1, <2>1 DEF EditsOK
<1>7. ReadingOK
  <2>1. read \in [Parts -> Seq(Item)] /\ read["open"] = <<>>
    <3>1. <<>> \in Seq(Item) /\ "open" \in Parts
      BY DEF Parts
    <3>. QED BY <1>1, <3>1
  <2>. QED BY <1>1, <2>1, UnreadIs DEF ReadingOK
<1>8. ReadIsCurrent
  BY <1>1 DEF ReadIsCurrent
<1>9. ReadIsComplete
  <2>. SUFFICES ASSUME NEW part \in Parts, NEW i, Owed(part, i),
                       next[part] # Missing => Rank(part, i) < (next[part] - 1) * PageSize
                PROVE  FALSE
    BY DEF ReadIsComplete
  <2>1. next[part] = 1
    BY <1>1, UnreadIs DEF Owed, Parts
  <2>2. (1 - 1) * PageSize = 0
    OBVIOUS
  <2>. QED BY <2>1, <2>2, RankIsNumber
<1>10. InOrderOfReading
  BY <1>1 DEF InOrderOfReading, Parts
<1>. QED BY <1>5, <1>6, <1>7, <1>8, <1>9, <1>10 DEF ListingInvariant

\* The invariant of the listings, for every page size and number of items and edits.
LEMMA ListingInvariantHolds == ListingSpec => []ListingInvariant
<1>1. ListingInvariant /\ [ListingNext]_listingVars => ListingInvariant'
  BY TypesKeep, ReadStaysCurrent, ReadStaysComplete, OrderKeeps DEF ListingInvariant
<1>. QED BY <1>1, ListingInits, PTL DEF ListingSpec

\* The result is all that was read, unique by id if it is of two listings.
LEMMA ResultIs ==
  ASSUME ReadingOK
  PROVE  /\ AllRead \in Seq(Item)
         /\ Result = AllRead \/ Result = UniqueById(AllRead)
         /\ next["recent"] = next.recent /\ next["open"] = next.open
<1>1. query \in Queries
  BY DEF ReadingOK
<1>2. read["recent"] \in Seq(Item) /\ read["open"] \in Seq(Item)
  BY DEF ReadingOK, Parts
<1>3. read.recent = read["recent"] /\ read.open = read["open"]
  BY DEF ReadingOK
<1>4. CASE query.includeAllOpen
  <2>1. query.kind # "runs"
    BY <1>1, <1>4 DEF Queries
  <2>. QED BY <1>2, <1>3, <1>4, <2>1 DEF Result, ListWorkItems, AllRead, ReadingOK
<1>5. CASE ~query.includeAllOpen
  <2>1. read["open"] = <<>>
    BY <1>5 DEF ReadingOK
  <2>2. AllRead = read["recent"] /\ read["recent"] \o <<>> = read["recent"]
    BY <1>2, <2>1, Joins DEF AllRead
  <2>. QED BY <1>2, <1>3, <1>5, <2>2 DEF Result, ListWorkItems, ReadingOK
<1>. QED BY <1>4, <1>5

\* What AllRead has of an id, the result has.
LEMMA AllIsReadFollows == ListingInvariant => AllIsRead
<1>. SUFFICES ASSUME ListingInvariant, Done, ~left, NEW i \in Ids \ touched, item[i] # Missing,
                     Promised(i)
              PROVE  item[i] \in Range(Result)
  BY DEF AllIsRead
<1>. DEFINE all == AllRead
<1>1. /\ all \in Seq(Item) /\ (Result = all \/ Result = UniqueById(all))
      /\ next["recent"] = Missing /\ next["open"] = Missing
  BY ResultIs DEF ListingInvariant, Done
<1>2. item[i].id = i
  BY DEF ListingInvariant, ItemsOK
<1>3. \E part \in Parts : Owed(part, i)
  BY DEF Owed, Promised, Parts
<1>4. \E part \in Parts : \E n \in DOMAIN read[part] : read[part][n] = item[i]
  BY <1>1, <1>3 DEF ListingInvariant, ReadIsComplete, Parts
<1>5. read["recent"] \in Seq(Item) /\ read["open"] \in Seq(Item)
  BY DEF ListingInvariant, ReadingOK, Parts
<1>6. /\ \A part \in Parts : \A n \in DOMAIN read[part] :
           \E m \in DOMAIN all : all[m] = read[part][n]
      /\ \A m \in DOMAIN all : \E part \in Parts : \E n \in DOMAIN read[part] :
           all[m] = read[part][n]
  <2>. DEFINE a == read["recent"]
              b == read["open"]
  <2>1. a \in Seq(Item) /\ b \in Seq(Item) /\ all = a \o b
    BY <1>5 DEF AllRead
  <2>. HIDE DEF a, b, all
  <2>2. /\ \A n \in DOMAIN a : n \in DOMAIN all /\ all[n] = a[n]
        /\ \A n \in DOMAIN b : Len(a) + n \in DOMAIN all /\ all[Len(a) + n] = b[n]
    BY <2>1
  <2>3. ASSUME NEW m \in DOMAIN all
        PROVE  \/ m \in DOMAIN a /\ all[m] = a[m]
               \/ m - Len(a) \in DOMAIN b /\ all[m] = b[m - Len(a)]
    <3>1. m \in 1..(Len(a) + Len(b)) /\ Len(a) \in Nat /\ Len(b) \in Nat
      BY <2>1
    <3>2. all[m] = IF m <= Len(a) THEN a[m] ELSE b[m - Len(a)]
      BY <2>1, <3>1
    <3>3. DOMAIN a = 1..Len(a) /\ DOMAIN b = 1..Len(b)
      BY <2>1
    <3>. QED BY <3>1, <3>2, <3>3
  <2>4. \A part \in Parts : read[part] = a \/ read[part] = b
    BY DEF Parts, a, b
  <2>5. "recent" \in Parts /\ "open" \in Parts /\ read["recent"] = a /\ read["open"] = b
    BY DEF Parts, a, b
  <2>. QED BY <2>2, <2>3, <2>4, <2>5
<1>7. PICK m \in DOMAIN all : all[m] = item[i]
  BY <1>4, <1>6
<1>8. \A n \in DOMAIN all : all[n].id = i => all[n] = item[i]
  BY <1>6 DEF ListingInvariant, ReadIsCurrent
<1>. HIDE DEF all
<1>9. CASE Result = all
  BY <1>7, <1>9 DEF Range
<1>10. CASE Result = UniqueById(all)
  <2>. DEFINE unique == UniqueById(all)
  <2>1. /\ \A n \in DOMAIN unique : \E l \in DOMAIN all : unique[n] = all[l]
        /\ \E n \in DOMAIN unique : unique[n].id = all[m].id
    BY <1>1, UniqueByIdIs
  <2>. HIDE DEF unique
  <2>2. PICK n \in DOMAIN unique : unique[n].id = i
    BY <1>2, <1>7, <2>1
  <2>3. unique[n] = item[i]
    BY <1>8, <2>1, <2>2
  <2>. QED BY <1>10, <2>3 DEF Range, unique
<1>. QED BY <1>1, <1>9, <1>10

\* The last reading of an id is the one UniqueById keeps.
LEMMA LatestReadingCountsFollows == ListingInvariant => LatestReadingCounts
<1>. SUFFICES ASSUME ListingInvariant, Done, ~Concurrent(query.provider),
                     NEW i \in Ids, lastRead[i] # Missing
              PROVE  lastRead[i] = Result[SelectLastInSeq(Result, LAMBDA r : r.id = i)]
  BY DEF LatestReadingCounts
<1>. DEFINE all == AllRead
            last == SelectLastInSeq(Result, LAMBDA r : r.id = i)
<1>1. all \in Seq(Item) /\ (Result = all \/ Result = UniqueById(all))
  BY ResultIs DEF ListingInvariant
<1>2. PICK n \in DOMAIN all :
           /\ all[n] = lastRead[i] /\ lastRead[i].id = i
           /\ \A m \in DOMAIN all : m > n /\ all[m].id = i => all[m] = lastRead[i]
  BY DEF ListingInvariant, InOrderOfReading
<1>. HIDE DEF all
<1>3. DOMAIN all = 1..Len(all) /\ Len(all) \in Nat
  BY <1>1
<1>4. CASE Result = all
  <2>1. Result \in Seq(Item) /\ \E m \in 1..Len(Result) : Result[m].id = i
    BY <1>1, <1>2, <1>3, <1>4
  <2>2. /\ last \in 1..Len(Result) /\ Result[last].id = i
        /\ \A m \in 1..Len(Result) : Result[m].id = i => m <= last
    BY <2>1, LastIs
  <2>. HIDE DEF last
  <2>3. n <= last /\ last \in DOMAIN all /\ all[last].id = i
    BY <1>2, <1>3, <1>4, <2>2
  <2>4. all[last] = lastRead[i]
    BY <1>2, <1>3, <2>3
  <2>. QED BY <1>4, <2>4 DEF last
<1>5. CASE Result = UniqueById(all)
  <2>. DEFINE unique == UniqueById(all)
  <2>1. /\ unique \in Seq(Item)
        /\ \A k \in DOMAIN unique : \E l \in DOMAIN all :
              /\ unique[k] = all[l]
              /\ \A m \in DOMAIN all : all[m].id = unique[k].id => m <= l
        /\ \E k \in DOMAIN unique : unique[k].id = all[n].id
    BY <1>1, UniqueByIdIs
  <2>2. Result = unique
    BY <1>5
  <2>. HIDE DEF unique
  <2>3. Result \in Seq(Item) /\ \E m \in 1..Len(Result) : Result[m].id = i
    BY <1>2, <2>1, <2>2
  <2>4. /\ last \in 1..Len(Result) /\ Result[last].id = i
    BY <2>3, LastIs
  <2>. HIDE DEF last
  <2>5. PICK l \in DOMAIN all :
              /\ Result[last] = all[l]
              /\ \A m \in DOMAIN all : all[m].id = Result[last].id => m <= l
    BY <2>1, <2>2, <2>4
  <2>6. n <= l /\ all[l].id = i
    BY <1>2, <2>4, <2>5
  <2>7. all[l] = lastRead[i]
    BY <1>2, <1>3, <2>6
  <2>. QED BY <2>5, <2>7 DEF last
<1>. QED BY <1>1, <1>4, <1>5

\* For every page size, number of items and number of changes, and however pages and
\* failures interleave: when listWorkflowRuns, listIssues or listPullRequests returns and no
\* item has left its listing, the result holds all that the listing is read for: of runs what
\* GitHub selects by creation and what Gitea and Forgejo list before the first outdated one.
THEOREM AllIsReadHolds == ListingSpec => []AllIsRead
BY ListingInvariantHolds, AllIsReadFollows, PTL

\* Of an item that was read on several pages or in both listings, one after the other, the
\* latest reading is the one that uniqueById and the synchronization store.
THEOREM LatestReadingCountsHolds == ListingSpec => []LatestReadingCounts
BY ListingInvariantHolds, LatestReadingCountsFollows, PTL

-----------------------------------------------------------------------------
(* Retries. *)

\* The delay before the random part is added.
Delay(base, n, maximum) ==
  IF base * 2 ^ (n - 1) <= maximum THEN base * 2 ^ (n - 1) ELSE maximum

\* The random part reaches the next delay at most.
LEMMA JitterIsBounded ==
  ASSUME NEW n \in 1..5, NEW tenths \in 0..10,
         NEW base \in Nat \ {0}, NEW maximum \in Nat, base <= maximum
  PROVE  LET delay == JitteredDelay(Clock, base, n, maximum, tenths) - Clock
         IN  /\ JitteredDelay(Clock, base, n, maximum, tenths) = Clock + delay
             /\ delay \in Nat \ {0} /\ delay <= maximum
             /\ Delay(base, n, maximum) <= delay
             /\ delay <= Delay(base, n + 1, maximum)
<1>. DEFINE x == base * 2 ^ (n - 1)
            e == Delay(base, n, maximum)
            jitter == (e * 2 * tenths) \div 100
            capped == IF e + jitter <= maximum THEN e + jitter ELSE maximum
<1>1. /\ 2 ^ (n - 1) \in Nat \ {0} /\ 2 ^ n = 2 * 2 ^ (n - 1)
      /\ (n + 1) - 1 = n
  <2>1. /\ 2 ^ 0 = 1 /\ 2 ^ 1 = 2 /\ 2 ^ 2 = 4 /\ 2 ^ 3 = 8 /\ 2 ^ 4 = 16 /\ 2 ^ 5 = 32
    OBVIOUS
  <2>2. ASSUME NEW m \in 0..4, n - 1 = m, 2 ^ m \in Nat \ {0}, 2 ^ (m + 1) = 2 * 2 ^ m
        PROVE  2 ^ (n - 1) \in Nat \ {0} /\ 2 ^ n = 2 * 2 ^ (n - 1)
    <3>1. n = m + 1
      BY <2>2
    <3>. QED BY <2>2, <3>1
  <2>3. 0 + 1 = 1 /\ 1 + 1 = 2 /\ 2 + 1 = 3 /\ 3 + 1 = 4 /\ 4 + 1 = 5
    OBVIOUS
  <2>4. n - 1 = 0 \/ n - 1 = 1 \/ n - 1 = 2 \/ n - 1 = 3 \/ n - 1 = 4
    OBVIOUS
  <2>. QED BY <2>1, <2>2, <2>3, <2>4
<1>2. x \in Nat \ {0} /\ base * 2 ^ n = 2 * x
  <2>. DEFINE power == 2 ^ (n - 1)
              double == 2 ^ n
  <2>1. power \in Nat \ {0} /\ double = 2 * power
    BY <1>1
  <2>. HIDE DEF power, double
  <2>2. base * power \in Nat \ {0} /\ base * double = 2 * (base * power)
    BY <2>1
  <2>. QED BY <2>2 DEF power, double
<1>3. /\ e = IF x <= maximum THEN x ELSE maximum
      /\ Delay(base, n + 1, maximum) = IF 2 * x <= maximum THEN 2 * x ELSE maximum
  BY <1>1, <1>2 DEF Delay
<1>4. JitteredDelay(Clock, base, n, maximum, tenths) = Clock + capped
  <2>1. Max({n - 1, 0}) = n - 1
    BY MaxOfTwo
  <2>2. Min({x, maximum}) = e
    BY <1>2, <1>3, MinOfTwo
  <2>3. e \in Nat
    BY <1>2, <1>3
  <2>4. jitter \in Nat
    BY <2>3
  <2>. HIDE DEF e
  <2>5. Min({e + jitter, maximum}) = capped
    BY <2>3, <2>4, MinOfTwo
  <2>. QED BY <2>1, <2>2, <2>5 DEF JitteredDelay
<1>. HIDE DEF x, e
<1>5. e \in Nat \ {0} /\ e <= maximum
  BY <1>2, <1>3
<1>6. jitter \in Nat /\ jitter <= e
  <2>1. e * 2 * tenths <= 20 * e /\ e * 2 * tenths \in Nat
    BY <1>5
  <2>. QED BY <1>5, <2>1
<1>. HIDE DEF jitter
<1>7. capped \in Nat \ {0} /\ capped <= maximum /\ e <= capped
  BY <1>5, <1>6
<1>8. capped <= IF 2 * x <= maximum THEN 2 * x ELSE maximum
  BY <1>2, <1>3, <1>5, <1>6
<1>9. (Clock + capped) - Clock = capped
  BY <1>7 DEF Clock
<1>. HIDE DEF capped
<1>. DEFINE delay == JitteredDelay(Clock, base, n, maximum, tenths) - Clock
<1>10. delay = capped
  BY ONLY <1>4, <1>9, Zenon
<1>11. /\ capped <= Delay(base, n + 1, maximum)
       /\ Delay(base, n, maximum) = e
  BY <1>3, <1>8 DEF e
<1>. HIDE DEF delay
<1>12. JitteredDelay(Clock, base, n, maximum, tenths) = Clock + delay
  BY ONLY <1>4, <1>10, Zenon
<1>13. /\ delay \in Nat \ {0} /\ delay <= maximum
       /\ Delay(base, n, maximum) <= delay
       /\ delay <= Delay(base, n + 1, maximum)
  BY <1>7, <1>10, <1>11
<1>. QED BY <1>12, <1>13 DEF delay

\* A time told by a response lies ahead, and within a day.
LEMMA RetryAtIsAhead ==
  ASSUME NEW r \in Responses
  PROVE  LET at == ProviderRetryAt(r.retryAfter, r.reset, Clock)
         IN  at # Missing => at \in Int /\ at > Clock /\ at <= Clock + Day
<1>1. /\ r.retryAfter \in {NoHeader, Header(7)}
      /\ r.reset \in {NoHeader} \cup {Header(v) : v \in {30, 990, 1030, 200000}}
  BY DEF Responses
<1>2. /\ NoHeader.kind = "none"
      /\ \A v : Header(v).kind = "number" /\ Header(v).value = v
  BY DEF NoHeader, Header
<1>. DEFINE a == ParseRetryAfter(r.retryAfter, Clock)
            b == ParseResetAt(r.reset, Clock)
            future == {t \in {a, b} \ {Missing} : t > Clock}
<1>3. a \in Int \cup {Missing}
  BY <1>1, <1>2 DEF ParseRetryAfter, Clock
<1>4. b \in Int \cup {Missing}
  <2>1. CASE r.reset = NoHeader
    BY <1>2, <2>1 DEF ParseResetAt
  <2>2. ASSUME NEW v \in {30, 990, 1030, 200000}, r.reset = Header(v)
        PROVE  b \in Int
    BY <1>2, <2>2 DEF ParseResetAt, Clock
  <2>. QED BY <1>1, <2>1, <2>2
<1>. HIDE DEF a, b
<1>5. ASSUME future # {}
      PROVE  Max(future) \in Int /\ Max(future) > Clock
  <2>1. \E x \in future : \A y \in future : x >= y
    BY <1>3, <1>4, <1>5
  <2>2. Max(future) \in future
    BY <2>1 DEF Max
  <2>. QED BY <1>3, <1>4, <2>2
<1>6. ProviderRetryAt(r.retryAfter, r.reset, Clock) =
        IF future = {} THEN Missing ELSE Min({Max(future), Clock + Day})
  BY DEF ProviderRetryAt, a, b
<1>. HIDE DEF future
<1>7. Clock \in Int /\ Day \in Int /\ Day > 0
  BY DEF Clock, Day
<1>8. ASSUME future # {}
      PROVE  LET at == Min({Max(future), Clock + Day})
             IN  at \in Int /\ at > Clock /\ at <= Clock + Day
  <2>. DEFINE m == Max(future)
  <2>1. m \in Int /\ m > Clock
    BY <1>5, <1>8
  <2>. HIDE DEF m
  <2>2. Min({m, Clock + Day}) = IF m <= Clock + Day THEN m ELSE Clock + Day
    BY <1>7, <2>1, MinOfTwo
  <2>3. /\ Min({m, Clock + Day}) \in Int /\ Min({m, Clock + Day}) > Clock
        /\ Min({m, Clock + Day}) <= Clock + Day
    BY <1>7, <2>1, <2>2
  <2>. QED BY <2>3 DEF m
<1>. QED BY <1>6, <1>8

\* What is thrown for a response.
LEMMA ErrorFields ==
  ASSUME NEW error \in Errors, error.kind = "request"
  PROVE  /\ error.rateLimited \in BOOLEAN
         /\ error.retryAt # Missing =>
              error.retryAt \in Int /\ error.retryAt > Clock /\ error.retryAt <= Clock + Day
<1>1. PICK r \in Responses :
        error = [kind |-> "request", status |-> r.status, rateLimited |-> RateLimited(r),
                 retryAt |-> ProviderRetryAt(r.retryAfter, r.reset, Clock)]
  BY DEF Errors
<1>2. RateLimited(r) \in BOOLEAN
  BY DEF RateLimited
<1>. QED BY <1>1, <1>2, RetryAtIsAhead

\* The two delays of providerRetryDecision.
LEMMA JitterOf ==
  ASSUME NEW n \in 1..5, NEW tenths \in 0..10
  PROVE  /\ LET delay == JitteredDelay(Clock, 60000, n, 15 * 60000, tenths) - Clock
             IN  /\ JitteredDelay(Clock, 60000, n, 15 * 60000, tenths) = Clock + delay
                 /\ delay \in Nat \ {0} /\ delay <= 15 * 60000
                 /\ Delay(60000, n, 15 * 60000) <= delay
                 /\ delay <= Delay(60000, n + 1, 15 * 60000)
         /\ LET delay == JitteredDelay(Clock, 1000, n, 60000, tenths) - Clock
             IN  /\ JitteredDelay(Clock, 1000, n, 60000, tenths) = Clock + delay
                 /\ delay \in Nat \ {0} /\ delay <= 60000
                 /\ Delay(1000, n, 60000) <= delay
                 /\ delay <= Delay(1000, n + 1, 60000)
<1>. DEFINE slow == 60000
            slowest == 15 * 60000
            fast == 1000
            fastest == 60000
<1>1. /\ slow \in Nat \ {0} /\ slowest \in Nat /\ slow <= slowest
      /\ fast \in Nat \ {0} /\ fastest \in Nat /\ fast <= fastest
  BY SMT
<1>. HIDE DEF slow, slowest, fast, fastest
<1>2. LET delay == JitteredDelay(Clock, slow, n, slowest, tenths) - Clock
      IN  /\ JitteredDelay(Clock, slow, n, slowest, tenths) = Clock + delay
          /\ delay \in Nat \ {0} /\ delay <= slowest
          /\ Delay(slow, n, slowest) <= delay
          /\ delay <= Delay(slow, n + 1, slowest)
  BY <1>1, JitterIsBounded
<1>3. LET delay == JitteredDelay(Clock, fast, n, fastest, tenths) - Clock
      IN  /\ JitteredDelay(Clock, fast, n, fastest, tenths) = Clock + delay
          /\ delay \in Nat \ {0} /\ delay <= fastest
          /\ Delay(fast, n, fastest) <= delay
          /\ delay <= Delay(fast, n + 1, fastest)
  BY <1>1, JitterIsBounded
<1>. QED BY <1>2, <1>3, SMT DEF slow, slowest, fast, fastest

\* providerRetryDecision takes error for a rate limit.
Limited(error) == error.kind = "request" /\ error.rateLimited

\* The class of a failure that is answered by a growing delay.
Jittered == {"limited", "transient"}

\* The least wait after attempt n.
DelayOf(class, n) ==
  IF class = "limited" THEN Delay(60000, n, 15 * 60000) ELSE Delay(1000, n, 60000)

\* Clock and Day.
LEMMA TimesAreNumbers == Clock \in Nat /\ Day \in Nat
  BY SMT DEF Clock, Day

\* A least wait is a number.
LEMMA DelayIsNumber ==
  ASSUME NEW class, NEW n \in 1..6
  PROVE  DelayOf(class, n) \in Int
<1>1. 2 ^ (n - 1) \in Int
  <2>1. n - 1 = 0 \/ n - 1 = 1 \/ n - 1 = 2 \/ n - 1 = 3 \/ n - 1 = 4 \/ n - 1 = 5
    OBVIOUS
  <2>2. /\ 2 ^ 0 \in Int /\ 2 ^ 1 \in Int /\ 2 ^ 2 \in Int /\ 2 ^ 3 \in Int /\ 2 ^ 4 \in Int
        /\ 2 ^ 5 \in Int
    OBVIOUS
  <2>. QED BY <2>1, <2>2
<1>. DEFINE power == 2 ^ (n - 1)
<1>2. power \in Int
  BY <1>1
<1>3. /\ Delay(60000, n, 15 * 60000) =
            IF 60000 * power <= 15 * 60000 THEN 60000 * power ELSE 15 * 60000
      /\ Delay(1000, n, 60000) = IF 1000 * power <= 60000 THEN 1000 * power ELSE 60000
  BY SMT DEF Delay
<1>. HIDE DEF power
<1>4. Delay(60000, n, 15 * 60000) \in Int /\ Delay(1000, n, 60000) \in Int
  BY <1>2, <1>3, SMT
<1>. QED BY <1>4, SMT DEF DelayOf

\* What providerRetryDecision answers at an attempt.
LEMMA Decided ==
  ASSUME NEW error \in Errors, NEW n \in 1..5, NEW tenths \in 0..10
  PROVE  LET d == RetryDecision(error, n, Clock, tenths) IN
         /\ d.retry \in BOOLEAN
         /\ d.retry => n < 5
         /\ \E delay \in 1..Day :
              /\ d.retry => d.runAfter = Clock + delay
              /\ d.rateLimitedUntil = IF Limited(error) THEN Clock + delay ELSE Missing
              /\ Limited(error) /\ error.retryAt = Missing =>
                   /\ DelayOf("limited", n) <= delay
                   /\ delay <= DelayOf("limited", n + 1)
              /\ ~Limited(error) =>
                   /\ DelayOf("transient", n) <= delay
                   /\ delay <= DelayOf("transient", n + 1)
<1>. DEFINE slow == JitteredDelay(Clock, 60000, n, 15 * 60000, tenths)
            fast == JitteredDelay(Clock, 1000, n, 60000, tenths)
            at == IF ~Limited(error) THEN fast
                  ELSE IF error.retryAt # Missing THEN error.retryAt ELSE slow
            delay == at - Clock
            d == RetryDecision(error, n, Clock, tenths)
            transient == \/ error.kind = "network"
                         \/ /\ error.kind = "request"
                            /\ error.status \in {408, 425, 500, 502, 503, 504}
            retry == n < MaximumProviderSyncAttempts /\ (Limited(error) \/ transient)
<1>1. d = [retry |-> retry, runAfter |-> IF retry THEN at ELSE Missing,
           rateLimitedUntil |-> IF Limited(error) THEN at ELSE Missing]
  BY SMT DEF RetryDecision, Limited
<1>2. /\ d.retry = retry /\ d.runAfter = (IF retry THEN at ELSE Missing)
      /\ d.rateLimitedUntil = IF Limited(error) THEN at ELSE Missing
  BY <1>1, SMT
<1>3. retry \in BOOLEAN /\ (retry => n < 5)
  BY SMT DEF MaximumProviderSyncAttempts
<1>. HIDE DEF d, retry
<1>4. /\ Day \in Nat /\ Clock \in Nat /\ 15 * 60000 <= Day /\ 60000 <= Day
  BY SMT DEF Day, Clock
<1>5. /\ slow = Clock + (slow - Clock)
      /\ slow - Clock \in Nat \ {0} /\ slow - Clock <= 15 * 60000
      /\ DelayOf("limited", n) <= slow - Clock
      /\ slow - Clock <= DelayOf("limited", n + 1)
  BY JitterOf, SMT DEF DelayOf
<1>6. /\ fast = Clock + (fast - Clock)
      /\ fast - Clock \in Nat \ {0} /\ fast - Clock <= 60000
      /\ DelayOf("transient", n) <= fast - Clock
      /\ fast - Clock <= DelayOf("transient", n + 1)
  BY JitterOf, SMT DEF DelayOf
<1>. HIDE DEF slow, fast
<1>7. Limited(error) /\ error.retryAt # Missing =>
        error.retryAt \in Int /\ error.retryAt > Clock /\ error.retryAt <= Clock + Day
  BY ErrorFields DEF Limited
<1>8. /\ at = Clock + delay /\ delay \in 1..Day
      /\ Limited(error) /\ error.retryAt = Missing => at = slow
      /\ ~Limited(error) => at = fast
  <2>1. CASE ~Limited(error)
    <3>1. at = fast
      BY <2>1
    <3>. HIDE DEF at
    <3>. QED BY <1>4, <1>6, <2>1, <3>1, SMT
  <2>2. CASE Limited(error) /\ error.retryAt # Missing
    <3>1. at = error.retryAt
      BY <2>2
    <3>. HIDE DEF at
    <3>. QED BY <1>4, <1>7, <2>2, <3>1, SMT
  <2>3. CASE Limited(error) /\ error.retryAt = Missing
    <3>1. at = slow
      BY <2>3
    <3>. HIDE DEF at
    <3>. QED BY <1>4, <1>5, <2>3, <3>1, SMT
  <2>. QED BY <2>1, <2>2, <2>3
<1>9. /\ Limited(error) /\ error.retryAt = Missing =>
           /\ DelayOf("limited", n) <= delay
           /\ delay <= DelayOf("limited", n + 1)
      /\ ~Limited(error) =>
           /\ DelayOf("transient", n) <= delay
           /\ delay <= DelayOf("transient", n + 1)
  BY <1>5, <1>6, <1>8, SMT
<1>. HIDE DEF at, delay
<1>. QED BY <1>2, <1>3, <1>8, <1>9 DEF d

\* The inductive invariant: the last wait reaches at most the delay of this attempt.
Waiting ==
  /\ attempt \in 1..5
  /\ failure # Missing /\ failure.retry /\ failure.class \in Jittered =>
       failure.wait \in Int /\ failure.wait <= DelayOf(failure.class, attempt)

\* What Fail decides.
LEMMA FailDecides ==
  ASSUME attempt \in 1..5, Fail
  PROVE  /\ failure'.retry \in BOOLEAN
         /\ attempt' \in 1..5
         /\ attempt' = IF failure'.retry THEN attempt + 1 ELSE attempt
         /\ failure'.retry => failure'.wait \in 1..Day
         /\ failure'.class \in {"limited", "told"} =>
              failure'.hold # Missing /\ failure'.hold > 0 /\ failure'.hold <= Day
         /\ failure'.retry /\ failure'.hold # Missing => failure'.hold = failure'.wait
         /\ failure'.retry /\ failure'.class \in Jittered =>
              /\ DelayOf(failure'.class, attempt) <= failure'.wait
              /\ failure'.wait <= DelayOf(failure'.class, attempt + 1)
<1>1. PICK error \in Errors, roll \in Rolls :
       LET decision == RetryDecision(error, attempt, Clock, roll) IN
       /\ failure' = [retry |-> decision.retry,
                      class |-> IF error.kind = "request" /\ error.rateLimited
                                THEN IF error.retryAt = Missing THEN "limited" ELSE "told"
                                ELSE IF decision.retry THEN "transient" ELSE "other",
                      wait  |-> IF decision.retry THEN decision.runAfter - Clock ELSE Missing,
                      hold  |-> IF decision.rateLimitedUntil = Missing THEN Missing
                                ELSE decision.rateLimitedUntil - Clock]
       /\ attempt' = IF decision.retry THEN attempt + 1 ELSE attempt
  BY DEF Fail, SMT
<1>. DEFINE d == RetryDecision(error, attempt, Clock, roll)
<1>2. /\ d.retry \in BOOLEAN
      /\ d.retry => attempt < 5
      /\ \E delay \in 1..Day :
              /\ d.retry => d.runAfter = Clock + delay
              /\ d.rateLimitedUntil = IF Limited(error) THEN Clock + delay ELSE Missing
              /\ Limited(error) /\ error.retryAt = Missing =>
                   /\ DelayOf("limited", attempt) <= delay
                   /\ delay <= DelayOf("limited", attempt + 1)
              /\ ~Limited(error) =>
                   /\ DelayOf("transient", attempt) <= delay
                   /\ delay <= DelayOf("transient", attempt + 1)
  <2>1. roll \in 0..10
    OBVIOUS
  <2>. QED BY <2>1, Decided, Zenon
<1>3. error.kind = "request" /\ error.rateLimited <=> Limited(error)
  BY DEF Limited
<1>4. /\ failure'.retry = d.retry
      /\ failure'.class = IF Limited(error)
                          THEN IF error.retryAt = Missing THEN "limited" ELSE "told"
                          ELSE IF d.retry THEN "transient" ELSE "other"
      /\ failure'.wait = IF d.retry THEN d.runAfter - Clock ELSE Missing
      /\ failure'.hold = IF d.rateLimitedUntil = Missing THEN Missing
                         ELSE d.rateLimitedUntil - Clock
      /\ attempt' = IF d.retry THEN attempt + 1 ELSE attempt
  BY <1>1, SMT DEF Limited
<1>. HIDE DEF d
<1>5. PICK delay \in 1..Day :
              /\ d.retry => d.runAfter = Clock + delay
              /\ d.rateLimitedUntil = IF Limited(error) THEN Clock + delay ELSE Missing
              /\ Limited(error) /\ error.retryAt = Missing =>
                   /\ DelayOf("limited", attempt) <= delay
                   /\ delay <= DelayOf("limited", attempt + 1)
              /\ ~Limited(error) =>
                   /\ DelayOf("transient", attempt) <= delay
                   /\ delay <= DelayOf("transient", attempt + 1)
  BY <1>2
<1>6. /\ delay \in Int /\ delay > 0 /\ delay <= Day /\ Clock + delay \in Int
      /\ (Clock + delay) - Clock = delay
  <2>1. Clock \in Int /\ Day \in Int
    BY ONLY TimesAreNumbers, SMT
  <2>2. delay \in 1..Day
    OBVIOUS
  <2>. QED BY ONLY <2>1, <2>2, SMT
<1>7. d.retry => failure'.wait = delay
  BY <1>5, <1>6, <1>4, SMT
<1>8. failure'.hold = IF Limited(error) THEN delay ELSE Missing
  BY <1>5, <1>6, <1>4, SMT
<1>9. /\ failure'.class = "limited" => Limited(error) /\ error.retryAt = Missing
      /\ failure'.class = "told" => Limited(error)
      /\ failure'.class = "transient" => ~Limited(error)
  BY <1>4, SMT
<1>10. d.retry /\ failure'.class \in Jittered =>
              /\ DelayOf(failure'.class, attempt) <= delay
              /\ delay <= DelayOf(failure'.class, attempt + 1)
  BY <1>5, <1>9, SMT DEF Jittered, DelayOf
<1>11. failure'.class \in {"limited", "told"} => failure'.hold = delay
  BY <1>8, <1>9, SMT
<1>12. attempt' \in 1..5
  <2>1. attempt \in 1..5 /\ (d.retry => attempt < 5)
    BY <1>2
  <2>2. attempt' = IF d.retry THEN attempt + 1 ELSE attempt
    BY <1>4
  <2>. QED BY ONLY <2>1, <2>2, SMT
<1>13. failure'.hold # Missing => failure'.hold = delay
  BY <1>8, SMT
<1>14. delay # Missing
  BY <1>6, SMT
<1>15. /\ failure'.retry \in BOOLEAN
       /\ attempt' = IF failure'.retry THEN attempt + 1 ELSE attempt
       /\ failure'.retry = d.retry
  <2>1. failure'.retry = d.retry
    BY <1>4
  <2>2. d.retry \in BOOLEAN
    BY <1>2
  <2>3. attempt' = IF d.retry THEN attempt + 1 ELSE attempt
    BY <1>4
  <2>. QED BY ONLY <2>1, <2>2, <2>3, SMT
<1>16. failure'.retry => failure'.wait \in 1..Day
  BY <1>7, <1>15
<1>17. failure'.class \in {"limited", "told"} =>
         failure'.hold # Missing /\ failure'.hold > 0 /\ failure'.hold <= Day
  BY <1>6, <1>11, <1>14
<1>18. failure'.retry /\ failure'.hold # Missing => failure'.hold = failure'.wait
  BY <1>7, <1>13, <1>15
<1>19. failure'.retry /\ failure'.class \in Jittered =>
         /\ DelayOf(failure'.class, attempt) <= failure'.wait
         /\ failure'.wait <= DelayOf(failure'.class, attempt + 1)
  BY <1>7, <1>10, <1>15
<1>. QED BY <1>12, <1>15, <1>16, <1>17, <1>18, <1>19

\* Fail repeats an attempt only.
LEMMA FailRepeats ==
  ASSUME Fail
  PROVE  failure # Missing => failure.retry
BY DEF Fail, Ready, GivenUp

\* Only Fail changes the attempt and the failure.
LEMMA WaitingKeeps ==
  ASSUME Waiting, [ListingNext]_listingVars
  PROVE  Waiting'
<1>1. CASE UNCHANGED <<attempt, failure>>
  BY <1>1 DEF Waiting
<1>2. CASE Fail
  BY <1>2, FailDecides DEF Waiting
<1>. QED BY <1>1, <1>2 DEF ListingNext, listingVars, ChangeItem, DeleteItem, ReadPage, Refresh

\* An attempt that fails like the one before waits at least as long.
LEMMA FailBacksOff ==
  ASSUME Waiting, Fail, failure # Missing, failure'.class = failure.class,
         failure'.retry, failure.class \in Jittered
  PROVE  failure'.wait >= failure.wait
<1>1. failure.wait \in Int /\ failure.wait <= DelayOf(failure.class, attempt)
  BY FailRepeats DEF Waiting
<1>2. /\ DelayOf(failure.class, attempt) <= failure'.wait /\ failure'.wait \in 1..Day
  BY FailDecides DEF Waiting
<1>3. DelayOf(failure.class, attempt) \in Int
  BY DelayIsNumber DEF Waiting
<1>4. Day \in Int
  BY TimesAreNumbers
<1>. QED BY <1>1, <1>2, <1>3, <1>4

\* For all Responses and whatever the random numbers: providerRetryDecision repeats
\* a synchronization within a day, holds the account back for a rate limit, and never
\* shortens the wait of attempts that fail alike.
THEOREM RetriesBackOffHolds == ListingSpec => RetriesBackOff
<1>1. ListingInit => Waiting
  BY DEF ListingInit, Waiting
<1>2. Waiting /\ [ListingNext]_listingVars => Waiting'
  BY WaitingKeeps
<1>3. Waiting /\ [ListingNext]_listingVars =>
      [ failure' # failure =>
        /\ failure'.retry => failure'.wait > 0 /\ failure'.wait <= Day
        /\ failure'.class \in {"limited", "told"} =>
             failure'.hold # Missing /\ failure'.hold > 0 /\ failure'.hold <= Day
        /\ failure'.retry /\ failure'.hold # Missing => failure'.hold = failure'.wait
        /\ /\ failure # Missing /\ failure'.class = failure.class
           /\ failure'.retry /\ failure.class \in {"limited", "transient"}
           => failure'.wait >= failure.wait ]_listingVars
  <2>. SUFFICES ASSUME Waiting, [ListingNext]_listingVars, failure' # failure
       PROVE
        /\ failure'.retry => failure'.wait > 0 /\ failure'.wait <= Day
        /\ failure'.class \in {"limited", "told"} =>
             failure'.hold # Missing /\ failure'.hold > 0 /\ failure'.hold <= Day
        /\ failure'.retry /\ failure'.hold # Missing => failure'.hold = failure'.wait
        /\ /\ failure # Missing /\ failure'.class = failure.class
           /\ failure'.retry /\ failure.class \in {"limited", "transient"}
           => failure'.wait >= failure.wait
    OBVIOUS
  <2>1. Fail
    BY DEF ListingNext, listingVars, ChangeItem, DeleteItem, ReadPage, Refresh
  <2>2. failure'.retry => failure'.wait > 0 /\ failure'.wait <= Day
    <3>1. failure'.retry => failure'.wait \in 1..Day
      BY <2>1, FailDecides DEF Waiting
    <3>2. Day \in Int
      BY TimesAreNumbers
    <3>. QED BY <3>1, <3>2
  <2>. QED BY <2>1, <2>2, FailDecides, FailBacksOff DEF Waiting, Jittered
<1>. QED BY <1>1, <1>2, <1>3, PTL DEF ListingSpec, RetriesBackOff

-----------------------------------------------------------------------------
(* Workflow runs. *)

\* StatusesFollowRuns of one run.
Follows(answer, run) ==
  LET active == run.status \in {"QUEUED", "RUNNING"} IN
  /\ run.awaitingApproval => run.status = "QUEUED"
  /\ answer \in Underway(query.provider) => active \/ answer.status \in Unknown
  /\ answer \in Over(query.provider) => ~active
  /\ run.completedAt # Missing => ~active \/ run.awaitingApproval

\* What decides it: the states and conclusions in which a run is under way, and those in
\* which it is over.
Ways(type) ==
  CASE type = "GITLAB" ->
         Unknown \cup {"created", "waiting_for_resource", "preparing", "pending", "scheduled",
                       "running", "manual"}
    [] type = "FORGEJO" -> {"waiting", "running", "blocked"}
    [] OTHER -> {"queued", "in_progress", "waiting", "requested", "pending"}

Ends(type) ==
  CASE type = "GITLAB" -> {"success", "failed", "canceled", "skipped"}
    [] type = "FORGEJO" -> Failures \cup Cancelations \cup {"success", "skipped"}
    [] OTHER -> {}

\* The fields of an answer.
LEMMA AnswerFields ==
  ASSUME NEW lifecycle, NEW outcome, NEW completed, NEW duration
  PROVE  LET a == Answer(lifecycle, outcome, completed, duration) IN
         /\ a.status = lifecycle /\ a.conclusion = outcome /\ a.completed = completed
         /\ ~a.needApproval
         /\ [a EXCEPT !.needApproval = TRUE].needApproval
         /\ [a EXCEPT !.needApproval = TRUE].status = lifecycle
         /\ [a EXCEPT !.needApproval = TRUE].conclusion = outcome
         /\ [a EXCEPT !.needApproval = TRUE].completed = completed
  BY DEF Answer, Plain

\* The fields of a normalized run.
LEMMA RunFields ==
  ASSUME NEW type, NEW answer, NEW awaiting, NEW completedAt, NEW duration, NEW number,
         NEW branch
  PROVE  LET run == WorkflowRun(type, answer, awaiting, completedAt, duration, number, branch)
         IN  /\ run.awaitingApproval = awaiting /\ run.completedAt = completedAt
             /\ run.status = NormalizeWorkflowRunStatus(type, answer.status, answer.conclusion)
  BY DEF WorkflowRun

\* What GitLab and Forgejo answer, by the state.
LEMMA AnswersOfStates ==
  ASSUME NEW type \in {"GITLAB", "FORGEJO"}, NEW answer
  PROVE  /\ answer \in Underway(type) =>
              /\ answer.status \in Ways(type) /\ answer.conclusion = Missing
              /\ answer.completed = Missing
              /\ answer.needApproval => answer.status = "blocked"
         /\ answer \in Over(type) =>
              /\ answer.status \in Ends(type) /\ answer.conclusion = Missing
              /\ ~answer.needApproval
<1>1. ASSUME answer \in Underway(type)
      PROVE  /\ answer.status \in Ways(type) /\ answer.conclusion = Missing
             /\ answer.completed = Missing
             /\ answer.needApproval => answer.status = "blocked"
  <2>1. \/ \E s \in Ways(type), d \in {Missing, 2000000000} :
             answer = Answer(s, Missing, Missing, d)
        \/ /\ "blocked" \in Ways(type)
           /\ answer = [Answer("blocked", Missing, Missing, Missing)
                         EXCEPT !.needApproval = TRUE]
    BY <1>1 DEF Underway, Ways
  <2>2. CASE \E s \in Ways(type), d \in {Missing, 2000000000} :
               answer = Answer(s, Missing, Missing, d)
    BY <2>2, AnswerFields
  <2>3. CASE /\ "blocked" \in Ways(type)
             /\ answer = [Answer("blocked", Missing, Missing, Missing)
                           EXCEPT !.needApproval = TRUE]
    BY <2>3, AnswerFields
  <2>. QED BY <2>1, <2>2, <2>3
<1>2. ASSUME answer \in Over(type)
      PROVE  /\ answer.status \in Ends(type) /\ answer.conclusion = Missing
             /\ ~answer.needApproval
  <2>1. \E s \in Ends(type), c \in {Missing, 3000}, d \in {Missing, 2, 2000000000} :
          answer = Answer(s, Missing, c, d)
    BY <1>2 DEF Over, Ends
  <2>. QED BY <2>1, AnswerFields
<1>. QED BY <1>1, <1>2

\* What GitHub and Gitea answer, by lifecycle and conclusion.
LEMMA AnswersOfConclusions ==
  ASSUME NEW type \in {"GITHUB", "GITEA"}, NEW answer
  PROVE  /\ answer \in Underway(type) =>
              /\ answer.completed = Missing
              /\ \/ answer.status \in Ways(type) /\ answer.conclusion = Missing
                 \/ answer.status = "completed" /\ answer.conclusion = "action_required"
         /\ answer \in Over(type) =>
              /\ answer.status = "completed"
              /\ answer.conclusion \in Conclusions \ {"action_required"}
<1>1. ASSUME answer \in Underway(type)
      PROVE  /\ answer.completed = Missing
             /\ \/ answer.status \in Ways(type) /\ answer.conclusion = Missing
                \/ answer.status = "completed" /\ answer.conclusion = "action_required"
  <2>1. \/ \E s \in Ways(type) : answer = Answer(s, Missing, Missing, Missing)
        \/ answer = Answer("completed", "action_required", Missing, Missing)
    BY <1>1 DEF Underway, Ways
  <2>. QED BY <2>1, AnswerFields
<1>2. ASSUME answer \in Over(type)
      PROVE  /\ answer.status = "completed"
             /\ answer.conclusion \in Conclusions \ {"action_required"}
  <2>1. \E o \in Conclusions \ {"action_required"}, c \in {Missing, 3000} :
          answer = Answer("completed", o, c, Missing)
    BY <1>2 DEF Over
  <2>. QED BY <2>1, AnswerFields
<1>. QED BY <1>1, <1>2

\* GitHub and Gitea: what is completed has settled unless it asks for action.
LEMMA ConclusionsDecide ==
  ASSUME NEW type \in {"GITHUB", "GITEA"}
  PROVE /\ \A s \in Ways(type) :
             /\ NormalizeWorkflowRunStatus(type, s, Missing) \in {"QUEUED", "RUNNING"}
             /\ IsWorkflowRunAwaitingApproval(type, s, Missing) =>
                  NormalizeWorkflowRunStatus(type, s, Missing) = "QUEUED"
             /\ s # "completed"
        /\ NormalizeWorkflowRunStatus(type, "completed", "action_required") = "QUEUED"
        /\ IsWorkflowRunAwaitingApproval(type, "completed", "action_required")
        /\ \A c \in Conclusions \ {"action_required"} :
             /\ NormalizeWorkflowRunStatus(type, "completed", c) \notin {"QUEUED", "RUNNING"}
             /\ ~IsWorkflowRunAwaitingApproval(type, "completed", c)
<1>1. Missing # "action_required"
  BY DEF Conclusions
<1>2. ASSUME NEW s \in Ways(type)
      PROVE  /\ NormalizeWorkflowRunStatus(type, s, Missing) \in {"QUEUED", "RUNNING"}
             /\ IsWorkflowRunAwaitingApproval(type, s, Missing) =>
                  NormalizeWorkflowRunStatus(type, s, Missing) = "QUEUED"
             /\ s # "completed"
  <2>1. s \in {"queued", "in_progress", "waiting", "requested", "pending"}
    BY DEF Ways
  <2>2. IsWorkflowRunAwaitingApproval(type, s, Missing) <=> s = "waiting"
    BY <1>1 DEF IsWorkflowRunAwaitingApproval
  <2>3. NormalizeWorkflowRunStatus(type, s, Missing) =
          IF s = "in_progress" THEN "RUNNING" ELSE "QUEUED"
    BY <2>1 DEF NormalizeWorkflowRunStatus, RunningStates, QueuedStates
  <2>. QED BY <2>1, <2>2, <2>3
<1>3. ASSUME NEW c \in Conclusions
      PROVE  /\ IsWorkflowRunAwaitingApproval(type, "completed", c) <=> c = "action_required"
             /\ NormalizeWorkflowRunStatus(type, "completed", c) \in {"QUEUED", "RUNNING"}
                  <=> c = "action_required"
             /\ c = "action_required" =>
                  NormalizeWorkflowRunStatus(type, "completed", c) = "QUEUED"
  <2>1. IsWorkflowRunAwaitingApproval(type, "completed", c) <=> c = "action_required"
    BY DEF IsWorkflowRunAwaitingApproval
  <2>2. NormalizeWorkflowRunStatus(type, "completed", c) =
          CASE c = "success"         -> "SUCCESS"
         [] c \in Failures        -> "FAILED"
         [] c \in Cancelations    -> "CANCELLED"
         [] c = "skipped"         -> "SKIPPED"
         [] c = "action_required" -> "QUEUED"
         [] OTHER -> "UNKNOWN"
    BY DEF NormalizeWorkflowRunStatus, RunningStates, QueuedStates
  <2>. QED BY <2>1, <2>2 DEF Conclusions, Failures, Cancelations
<1>4. "action_required" \in Conclusions
  BY DEF Conclusions
<1>. QED BY <1>2, <1>3, <1>4

\* toWorkflowRun of each provider.
LEMMA GitHubRunFollows ==
  ASSUME query.provider = "GITHUB", NEW answer \in Underway("GITHUB") \cup Over("GITHUB")
  PROVE  Follows(answer, GitHubRun(answer))
<1>. DEFINE run == GitHubRun(answer)
            awaiting == IsWorkflowRunAwaitingApproval("GITHUB", answer.status, answer.conclusion)
            status == NormalizeWorkflowRunStatus("GITHUB", answer.status, answer.conclusion)
<1>1. /\ run.awaitingApproval = awaiting /\ run.status = status
      /\ answer.status # "completed" => run.completedAt = Missing
  BY RunFields DEF GitHubRun
<1>2. /\ answer \in Underway("GITHUB") =>
           /\ status \in {"QUEUED", "RUNNING"} /\ (awaiting => status = "QUEUED")
           /\ answer.status = "completed" => awaiting
      /\ answer \in Over("GITHUB") => status \notin {"QUEUED", "RUNNING"} /\ ~awaiting
  BY AnswersOfConclusions, ConclusionsDecide
<1>. HIDE DEF run, awaiting, status
<1>3. Follows(answer, run)
  BY <1>1, <1>2 DEF Follows
<1>. QED BY <1>3 DEF run

LEMMA GiteaRunFollows ==
  ASSUME query.provider = "GITEA", NEW answer \in Underway("GITEA") \cup Over("GITEA")
  PROVE  Follows(answer, GiteaRun(answer))
<1>. DEFINE run == GiteaRun(answer)
            awaiting == IsWorkflowRunAwaitingApproval("GITEA", answer.status, answer.conclusion)
            status == NormalizeWorkflowRunStatus("GITEA", answer.status, answer.conclusion)
<1>1. /\ run.awaitingApproval = awaiting /\ run.status = status
      /\ answer.completed = Missing /\ answer.status # "completed" =>
           run.completedAt = Missing
  BY RunFields DEF GiteaRun
<1>2. /\ answer \in Underway("GITEA") =>
           /\ status \in {"QUEUED", "RUNNING"} /\ (awaiting => status = "QUEUED")
           /\ answer.completed = Missing
           /\ answer.status = "completed" => awaiting
      /\ answer \in Over("GITEA") => status \notin {"QUEUED", "RUNNING"} /\ ~awaiting
  BY AnswersOfConclusions, ConclusionsDecide
<1>. HIDE DEF run, awaiting, status
<1>3. Follows(answer, run)
  BY <1>1, <1>2 DEF Follows
<1>. QED BY <1>3 DEF run

LEMMA GitLabRunFollows ==
  ASSUME query.provider = "GITLAB", NEW answer \in Underway("GITLAB") \cup Over("GITLAB")
  PROVE  Follows(answer, GitLabRun(answer))
<1>. DEFINE run == GitLabRun(answer)
            awaiting == answer.status = "manual"
            status == NormalizeWorkflowRunStatus("GITLAB", answer.status, answer.conclusion)
<1>1. /\ run.awaitingApproval <=> awaiting
      /\ run.status = status /\ run.completedAt = answer.completed
  <2>1. /\ run.awaitingApproval =
             IsWorkflowRunAwaitingApproval("GITLAB", answer.status, Missing)
        /\ run.status = status /\ run.completedAt = answer.completed
    BY RunFields DEF GitLabRun
  <2>2. IsWorkflowRunAwaitingApproval("GITLAB", answer.status, Missing) <=> awaiting
    BY DEF IsWorkflowRunAwaitingApproval
  <2>. HIDE DEF run, awaiting, status
  <2>. QED BY <2>1, <2>2
<1>2. \A s \in Ways("GITLAB") :
        LET normal == NormalizeWorkflowRunStatus("GITLAB", s, Missing)
        IN  /\ normal \in {"QUEUED", "RUNNING"} \/ s \in Unknown
            /\ s = "manual" => normal = "QUEUED"
  BY DEF Ways, Unknown, NormalizeWorkflowRunStatus, QueuedStates, RunningStates, Failures,
         Cancelations
<1>3. \A s \in Ends("GITLAB") :
        /\ NormalizeWorkflowRunStatus("GITLAB", s, Missing) \notin {"QUEUED", "RUNNING"}
        /\ s # "manual"
  BY DEF Ends, NormalizeWorkflowRunStatus, QueuedStates, RunningStates, Failures, Cancelations
<1>4. /\ answer \in Underway("GITLAB") =>
           /\ status \in {"QUEUED", "RUNNING"} \/ answer.status \in Unknown
           /\ awaiting => status = "QUEUED"
           /\ answer.completed = Missing
      /\ answer \in Over("GITLAB") => status \notin {"QUEUED", "RUNNING"} /\ ~awaiting
  BY <1>2, <1>3, AnswersOfStates
<1>. HIDE DEF run, awaiting, status
<1>5. Follows(answer, run)
  BY <1>1, <1>4 DEF Follows
<1>. QED BY <1>5 DEF run

LEMMA ForgejoRunFollows ==
  ASSUME query.provider = "FORGEJO", NEW answer \in Underway("FORGEJO") \cup Over("FORGEJO")
  PROVE  Follows(answer, ForgejoRun(answer))
<1>. DEFINE run == ForgejoRun(answer)
            status == NormalizeWorkflowRunStatus("FORGEJO", answer.status, answer.conclusion)
<1>1. /\ run.awaitingApproval = answer.needApproval
      /\ run.status = status /\ run.completedAt = answer.completed
  BY RunFields DEF ForgejoRun
<1>2. \A s \in Ways("FORGEJO") :
        LET normal == NormalizeWorkflowRunStatus("FORGEJO", s, Missing)
        IN  normal \in {"QUEUED", "RUNNING"} /\ (s = "blocked" => normal = "QUEUED")
  BY DEF Ways, NormalizeWorkflowRunStatus, QueuedStates, RunningStates, Failures, Cancelations
<1>3. \A s \in Ends("FORGEJO") :
        NormalizeWorkflowRunStatus("FORGEJO", s, Missing) \notin {"QUEUED", "RUNNING"}
  BY DEF Ends, NormalizeWorkflowRunStatus, QueuedStates, RunningStates, Failures, Cancelations
<1>4. /\ answer \in Underway("FORGEJO") =>
           /\ status \in {"QUEUED", "RUNNING"}
           /\ answer.needApproval => status = "QUEUED"
           /\ answer.completed = Missing
      /\ answer \in Over("FORGEJO") =>
           status \notin {"QUEUED", "RUNNING"} /\ ~answer.needApproval
  BY <1>2, <1>3, AnswersOfStates
<1>. HIDE DEF run, status
<1>5. Follows(answer, run)
  BY <1>1, <1>4 DEF Follows
<1>. QED BY <1>5 DEF run

\* The inductive invariant.
Refreshed ==
  /\ query \in Queries
  /\ refreshed # Missing => Follows(refreshed.answer, refreshed.run)

\* toWorkflowRun of the provider that is asked.
LEMMA ToWorkflowRunFollows ==
  ASSUME query \in Queries,
         NEW answer \in Underway(query.provider) \cup Over(query.provider)
  PROVE  Follows(answer, ToWorkflowRun(answer))
<1>1. query.provider \in {"GITHUB", "GITEA", "GITLAB", "FORGEJO"}
  BY DEF Queries, Providers
<1>2. CASE query.provider = "GITHUB"
  BY <1>2, GitHubRunFollows DEF ToWorkflowRun
<1>3. CASE query.provider = "GITEA"
  BY <1>3, GiteaRunFollows DEF ToWorkflowRun
<1>4. CASE query.provider = "GITLAB"
  BY <1>4, GitLabRunFollows DEF ToWorkflowRun
<1>5. CASE query.provider = "FORGEJO"
  BY <1>5, ForgejoRunFollows DEF ToWorkflowRun
<1>. QED BY <1>1, <1>2, <1>3, <1>4, <1>5

\* Of every provider's answers for a run that is under way, over or waits for somebody,
\* toWorkflowRun makes a status by which it is refreshed again or not.
THEOREM StatusesFollowRunsHolds == ListingSpec => []StatusesFollowRuns
<1>1. ListingInit => Refreshed
  BY DEF ListingInit, Refreshed
<1>2. Refreshed /\ [ListingNext]_listingVars => Refreshed'
  <2>. SUFFICES ASSUME Refreshed, [ListingNext]_listingVars PROVE Refreshed'
    OBVIOUS
  <2>1. CASE UNCHANGED <<query, refreshed>>
    BY <2>1 DEF Refreshed, Follows
  <2>2. CASE Refresh
    <3>1. PICK answer \in Underway(query.provider) \cup Over(query.provider) :
            refreshed' = [answer |-> answer, run |-> ToWorkflowRun(answer)]
      BY <2>2 DEF Refresh
    <3>2. /\ query' = query /\ refreshed'.answer = answer
          /\ refreshed'.run = ToWorkflowRun(answer)
      BY <2>2, <3>1 DEF Refresh, remoteItems
    <3>3. Follows(answer, ToWorkflowRun(answer))
      BY ToWorkflowRunFollows DEF Refreshed
    <3>. QED BY <3>2, <3>3 DEF Refreshed, Follows
  <2>. QED BY <2>1, <2>2
           DEF ListingNext, listingVars, remoteItems, ChangeItem, DeleteItem, ReadPage, Fail
<1>3. Refreshed => StatusesFollowRuns
  BY DEF Refreshed, Follows, StatusesFollowRuns
<1>. QED BY <1>1, <1>2, <1>3, PTL DEF ListingSpec

-----------------------------------------------------------------------------
(* Security alerts. *)

HIDE MissingAssumption
HIDE BoundsAssumption
USE AlertConstants

\* The queue lets one worker synchronize a repository at a time (AccountExclusion
\* of SyncQueue).
OneSyncer == \A s, t \in Syncers : s = t

-----------------------------------------------------------------------------
(* The fields of a synchronization. *)

IsSync(v) ==
  \E results, rest, previousSync, alerts, alert, previous :
    v = [results |-> results, rest |-> rest, previousSync |-> previousSync,
         alerts |-> alerts, alert |-> alert, previous |-> previous]

\* The kind that v persists.
Kind(v) == Head(v.rest)

\* What an assignment to some of them leaves as it is.
LEMMA SetResults ==
  ASSUME NEW v, IsSync(v), NEW x
  PROVE  LET w == [v EXCEPT !.results = x] IN
         /\ IsSync(w)
         /\ w.results = x /\ w.rest = v.rest
<1>1. PICK results, rest, previousSync, alerts, alert, previous :
        v = [results |-> results, rest |-> rest, previousSync |-> previousSync,
             alerts |-> alerts, alert |-> alert, previous |-> previous]
  BY DEF IsSync
<1>. DEFINE w == [v EXCEPT !.results = x]
<1>2. w = [v EXCEPT !.results = x]
  OBVIOUS
<1>. HIDE DEF w
<1>3. /\ IsSync(w)
      /\ w.results = x /\ w.rest = v.rest
  BY <1>1, <1>2 DEF IsSync
<1>. QED BY <1>3 DEF w

LEMMA SetRest ==
  ASSUME NEW v, IsSync(v)
  PROVE  LET w == [v EXCEPT !.rest = AlertKinds] IN
         /\ IsSync(w)
         /\ w.rest = AlertKinds /\ w.results = v.results
<1>1. PICK results, rest, previousSync, alerts, alert, previous :
        v = [results |-> results, rest |-> rest, previousSync |-> previousSync,
             alerts |-> alerts, alert |-> alert, previous |-> previous]
  BY DEF IsSync
<1>. DEFINE w == [v EXCEPT !.rest = AlertKinds]
<1>2. w = [v EXCEPT !.rest = AlertKinds]
  OBVIOUS
<1>. HIDE DEF w
<1>3. /\ IsSync(w)
      /\ w.rest = AlertKinds /\ w.results = v.results
  BY <1>1, <1>2 DEF IsSync
<1>. QED BY <1>3 DEF w

LEMMA SetKinds ==
  ASSUME NEW v, IsSync(v)
  PROVE  LET w == [v EXCEPT !.rest = Tail(@), !.previousSync = None] IN
         /\ IsSync(w)
         /\ w.rest = Tail(v.rest) /\ w.results = v.results
<1>1. PICK results, rest, previousSync, alerts, alert, previous :
        v = [results |-> results, rest |-> rest, previousSync |-> previousSync,
             alerts |-> alerts, alert |-> alert, previous |-> previous]
  BY DEF IsSync
<1>. DEFINE w == [v EXCEPT !.rest = Tail(@), !.previousSync = None]
<1>2. w = [v EXCEPT !.rest = Tail(@), !.previousSync = None]
  OBVIOUS
<1>. HIDE DEF w
<1>3. /\ IsSync(w)
      /\ w.rest = Tail(v.rest) /\ w.results = v.results
  BY <1>1, <1>2, ZenonT(60) DEF IsSync
<1>. QED BY <1>3 DEF w

LEMMA SetState ==
  ASSUME NEW v, IsSync(v)
  PROVE  LET w == [v EXCEPT !.previousSync = syncState[Kind(v)],
                        !.alerts = DOMAIN v.results[Kind(v)].alerts] IN
         /\ IsSync(w)
         /\ w.results = v.results /\ w.rest = v.rest
         /\ w.previousSync = syncState[Kind(v)]
         /\ w.alerts = DOMAIN v.results[Kind(v)].alerts
<1>1. PICK results, rest, previousSync, alerts, alert, previous :
        v = [results |-> results, rest |-> rest, previousSync |-> previousSync,
             alerts |-> alerts, alert |-> alert, previous |-> previous]
  BY DEF IsSync
<1>. DEFINE w == [v EXCEPT !.previousSync = syncState[Kind(v)],
                        !.alerts = DOMAIN v.results[Kind(v)].alerts]
<1>2. w = [v EXCEPT !.previousSync = syncState[Kind(v)],
                        !.alerts = DOMAIN v.results[Kind(v)].alerts]
  OBVIOUS
<1>. HIDE DEF w
<1>3. /\ IsSync(w)
      /\ w.results = v.results /\ w.rest = v.rest
      /\ w.previousSync = syncState[Kind(v)]
      /\ w.alerts = DOMAIN v.results[Kind(v)].alerts
  BY <1>1, <1>2, ZenonT(60) DEF IsSync
<1>. QED BY <1>3 DEF w

LEMMA ClearAlert ==
  ASSUME NEW v, IsSync(v)
  PROVE  LET w == [v EXCEPT !.alert = None, !.previous = "ABSENT"] IN
         /\ IsSync(w)
         /\ w.results = v.results /\ w.rest = v.rest
         /\ w.previousSync = v.previousSync /\ w.alerts = v.alerts
<1>1. PICK results, rest, previousSync, alerts, alert, previous :
        v = [results |-> results, rest |-> rest, previousSync |-> previousSync,
             alerts |-> alerts, alert |-> alert, previous |-> previous]
  BY DEF IsSync
<1>. DEFINE w == [v EXCEPT !.alert = None, !.previous = "ABSENT"]
<1>2. w = [v EXCEPT !.alert = None, !.previous = "ABSENT"]
  OBVIOUS
<1>. HIDE DEF w
<1>3. /\ IsSync(w)
      /\ w.results = v.results /\ w.rest = v.rest
      /\ w.previousSync = v.previousSync /\ w.alerts = v.alerts
  BY <1>1, <1>2, ZenonT(60) DEF IsSync
<1>. QED BY <1>3 DEF w

-----------------------------------------------------------------------------
(* The inductive invariant. *)

AlertStates == {"OPEN", "DISMISSED", "RESOLVED"}
Row    == [state: AlertStates, updated: Nat]
Stages == {"idle", "listing", "kind", "alerts", "upserting", "emitting"}

\* The alerts of a result are of its kind.
IsResult(k, result) ==
  /\ DOMAIN result.alerts \subseteq {a \in Alerts : KindOf[a] = k}
  /\ \A a \in DOMAIN result.alerts : result.alerts[a] \in Row

IsResults(results) ==
  DOMAIN results = Kinds /\ \A k \in Kinds : IsResult(k, results[k])

\* What v makes of an alert.
Version(v, a) == v.results[KindOf[a]].alerts[a]

\* At stage p, v persists alerts of its kind, on the ground of the kind's state and of
\* the alert's state as they are stored; what it emits is stored, follows a baseline
\* and is news.
Persists(p, v) ==
  /\ IsSync(v) /\ IsResults(v.results)
  /\ p # "idle" => v.rest \in Seq(Kinds) /\ v.rest # <<>>
  /\ p \in {"alerts", "upserting", "emitting"} =>
       /\ v.previousSync = syncState[Kind(v)]
       /\ v.alerts \subseteq DOMAIN v.results[Kind(v)].alerts
  /\ p \in {"upserting", "emitting"} => v.alert \in DOMAIN v.results[Kind(v)].alerts
  /\ p = "upserting" => v.previous = StateOf(row[v.alert])
  /\ p = "emitting" =>
       /\ row[v.alert] = Version(v, v.alert)
       /\ ~baseline(v)
       /\ v.alert \in lost \/ told[v.alert] # Told(v)

Invariant ==
  /\ remote \in [Alerts -> {None} \cup [state: ProviderStates(provider), updated: Nat]]
  /\ row \in [Alerts -> {None} \cup Row]
  /\ DOMAIN told = Alerts
  /\ pc \in [Syncers -> Stages] /\ DOMAIN sync = Syncers
  /\ \A s \in Syncers : Persists(pc[s], sync[s])
  /\ SubscribersAreCurrent

\* An alert that is persisted is of the kind in progress.
LEMMA OfItsKind ==
  ASSUME NEW v, IsResults(v.results), v.rest \in Seq(Kinds), v.rest # <<>>,
         NEW a \in DOMAIN v.results[Kind(v)].alerts
  PROVE  /\ a \in Alerts /\ KindOf[a] = Kind(v)
         /\ Version(v, a) \in Row
<1>1. Kind(v) \in Kinds
  BY DEF Kind
<1>. QED BY <1>1 DEF IsResults, IsResult, Version

LEMMA Nothing ==
  /\ IsSync(NoSync) /\ IsResults(NoSync.results)
<1>1. IsSync(NoSync)
  BY DEF NoSync, IsSync
<1>2. NoSync.results = [k \in Kinds |-> Unlisted]
  BY DEF NoSync
<1>3. DOMAIN Unlisted.alerts = {}
  BY DEF Unlisted
<1>. QED BY <1>1, <1>2, <1>3 DEF IsResults, IsResult

\* What is read of a kind, or refused, is a result of it.
LEMMA ReadsResults ==
  ASSUME remote \in [Alerts -> {None} \cup [state: ProviderStates(provider), updated: Nat]],
         NEW k \in Kinds
  PROVE  /\ IsResult(k, ReadKind(k))
         /\ \A availability : IsResult(k, Refused(availability))
<1>1. \A availability : IsResult(k, Refused(availability))
  BY DEF Refused, IsResult
<1>2. \A a \in Alerts : remote[a] # None => Alert(a) \in Row
  <2>. SUFFICES ASSUME NEW a \in Alerts, remote[a] # None PROVE Alert(a) \in Row
    OBVIOUS
  <2>1. remote[a] \in [state: ProviderStates(provider), updated: Nat]
    OBVIOUS
  <2>2. \A x : AlertState(provider, x) \in AlertStates
    BY DEF AlertState, AlertStates
  <2>. QED BY <2>1, <2>2 DEF Alert, Row
<1>3. CASE k \in readable
  <2>. DEFINE listed == {b \in Alerts : KindOf[b] = k /\ remote[b] # None}
              alerts == [a \in listed |-> Alert(a)]
  <2>1. ReadKind(k) = [availability |-> "AVAILABLE", alerts |-> alerts]
    BY <1>3 DEF ReadKind
  <2>2. ReadKind(k).alerts = alerts
    BY <2>1
  <2>3. DOMAIN alerts = listed /\ \A a \in listed : alerts[a] = Alert(a)
    OBVIOUS
  <2>4. \A a \in listed : alerts[a] \in Row
    BY <1>2, <2>3
  <2>. HIDE DEF alerts
  <2>5. /\ DOMAIN ReadKind(k).alerts = listed
        /\ \A a \in listed : ReadKind(k).alerts[a] \in Row
    BY <2>2, <2>3, <2>4
  <2>. QED BY <1>1, <2>5 DEF IsResult
<1>. QED BY <1>1, <1>3 DEF ReadKind

\* With one synchronization, none but it matters to what is said of all.
LEMMA GoAlone ==
  ASSUME OneSyncer, Invariant, NEW s \in Syncers, NEW p \in Stages, NEW v, Go(s, p, v)
  PROVE  /\ \A t \in Syncers : t = s /\ pc'[t] = p /\ sync'[t] = v
         /\ pc' \in [Syncers -> Stages] /\ DOMAIN sync' = Syncers
<1>1. pc' = [pc EXCEPT ![s] = p] /\ sync' = [sync EXCEPT ![s] = v]
      /\ pc \in [Syncers -> Stages] /\ DOMAIN sync = Syncers
  BY DEF Go, Invariant
<1>. QED BY <1>1 DEF OneSyncer

\* A synchronization that goes on and tells nothing keeps the rest.
LEMMA GoKeeps ==
  ASSUME OneSyncer, Invariant, NEW s \in Syncers, NEW p \in Stages, NEW v, Go(s, p, v),
         UNCHANGED <<provider, remote, row, told, lost>>,
         pc[s] # "emitting", p # "emitting",
         p \in {"alerts", "upserting"} => syncState' = syncState,
         Persists(p, v)
  PROVE  Invariant'
<1>1. /\ \A t \in Syncers : t = s /\ pc'[t] = p /\ sync'[t] = v
      /\ pc' \in [Syncers -> Stages] /\ DOMAIN sync' = Syncers
  BY GoAlone
<1>2. Persists(p, v)'
  BY DEF Persists, Version, Kind, Told
<1>3. \A t \in Syncers : Persists(pc[t], sync[t])'
  BY <1>1, <1>2 DEF Persists, Version, Kind, Told, baseline
<1>4. SubscribersAreCurrent'
  BY <1>1 DEF Invariant, SubscribersAreCurrent, InProgress
<1>. QED BY <1>1, <1>3, <1>4 DEF Invariant

LEMMA InitInvariant == Init => Invariant
<1> SUFFICES ASSUME Init PROVE Invariant
  OBVIOUS
<1>1. \A s \in Syncers : Persists(pc[s], sync[s])
  BY Nothing DEF Init, Persists
<1>. QED BY <1>1 DEF Init, Invariant, Stages, SubscribersAreCurrent, StateOf

LEMMA StepInvariant ==
  ASSUME OneSyncer, Invariant, [Next]_vars
  PROVE  Invariant'
<1>a. \A s \in Syncers : IsSync(sync[s]) /\ IsResults(sync[s].results)
  BY DEF Invariant, Persists
<1>1. CASE UNCHANGED vars
  <2>1. UNCHANGED <<provider, remote, row, syncState, pc, sync, told, lost>>
    BY <1>1 DEF vars, outside, history
  <2>. QED BY <2>1 DEF Invariant, Persists, Version, Kind, Told, SubscribersAreCurrent,
                       InProgress
<1>2. CASE (\E a \in Alerts : Change(a)) \/ ChangeAccess
  <2>1. UNCHANGED <<provider, row, syncState, pc, sync, told, lost>>
    BY <1>2 DEF Change, ChangeAccess, history
  <2>2. remote' \in [Alerts -> {None} \cup [state: ProviderStates(provider), updated: Nat]]
    <3>1. ASSUME NEW a \in Alerts, Change(a)
          PROVE  remote' \in [Alerts -> {None} \cup [state: ProviderStates(provider),
                                                     updated: Nat]]
      <4>. DEFINE updated == IF remote[a] = None THEN 1 ELSE remote[a].updated + 1
      <4>1. updated \in Nat
        BY DEF Invariant
      <4>. HIDE DEF updated
      <4>2. \E s \in ProviderStates(provider) :
              remote' = [remote EXCEPT ![a] = [state |-> s, updated |-> updated]]
        BY <3>1 DEF Change, updated
      <4>. QED BY <4>1, <4>2 DEF Invariant
    <3>2. CASE ChangeAccess
      BY <3>2 DEF ChangeAccess, Invariant
    <3>. QED BY <1>2, <3>1, <3>2
  <2>. QED BY <2>1, <2>2 DEF Invariant, Persists, Version, Kind, Told,
                             SubscribersAreCurrent, InProgress
<1>3. ASSUME NEW s \in Syncers, Begin(s)
      PROVE  Invariant'
  <2>. DEFINE v == [NoSync EXCEPT !.rest = AlertKinds]
  <2>1. Persists("listing", v)
    <3>1. IsSync(v) /\ v.rest = AlertKinds /\ v.results = NoSync.results
      <4>1. IsSync(NoSync)
        BY Nothing
      <4>. QED BY ONLY <4>1, SetRest, Zenon
    <3>. HIDE DEF v
    <3>. QED BY <3>1, Nothing DEF Persists
  <2>2. Go(s, "listing", v)
    BY <1>3 DEF Begin
  <2>. QED BY <1>3, <2>1, <2>2, GoKeeps DEF Begin, Quiet, outside, history, Stages
<1>4. ASSUME NEW s \in Syncers, NEW results, IsResults(results), List(s, results),
             pc[s] = "listing", Quiet
      PROVE  Invariant'
  <2>. DEFINE v == [sync[s] EXCEPT !.results = results]
  <2>1. IsSync(v) /\ v.results = results /\ v.rest = sync[s].rest
    BY <1>a, SetResults
  <2>2. sync[s].rest \in Seq(Kinds) /\ sync[s].rest # <<>>
    BY <1>4 DEF Invariant, Persists
  <2>3. PICK p \in {"listing", "kind"} : Go(s, p, v)
    BY <1>4 DEF List
  <2>. HIDE DEF v
  <2>4. Persists(p, v)
    BY <1>4, <2>1, <2>2 DEF Persists
  <2>. QED BY <1>4, <2>3, <2>4, GoKeeps DEF Quiet, outside, history, Stages
<1>5. ASSUME NEW s \in Syncers, NEW k \in Kinds, ListKind(s, k)
      PROVE  Invariant'
  <2>1. IsResults([sync[s].results EXCEPT ![k] = ReadKind(k)])
    BY <1>a, ReadsResults DEF IsResults, Invariant
  <2>. QED BY <1>4, <1>5, <2>1 DEF ListKind
<1>6. ASSUME NEW s \in Syncers, ListAll(s)
      PROVE  Invariant'
  <2>1. IsResults([k \in Kinds |-> ReadKind(k)])
    BY ReadsResults DEF IsResults, Invariant
  <2>. QED BY <1>4, <1>6, <2>1 DEF ListAll
<1>7. ASSUME NEW s \in Syncers, ListNothing(s)
      PROVE  Invariant'
  <2>1. IsResults([k \in Kinds |-> Refused("UNSUPPORTED")])
    BY ReadsResults DEF IsResults, Invariant
  <2>. QED BY <1>4, <1>7, <2>1 DEF ListNothing
<1>8. ASSUME NEW s \in Syncers, ReadSyncState(s)
      PROVE  Invariant'
  <2>. DEFINE k == Kind(sync[s])
              alerts == DOMAIN sync[s].results[k].alerts
              v == [sync[s] EXCEPT !.previousSync = syncState[k], !.alerts = alerts]
  <2>1. /\ IsSync(v) /\ v.results = sync[s].results /\ v.rest = sync[s].rest
        /\ v.previousSync = syncState[k] /\ v.alerts = alerts
    <3>1. IsSync(sync[s])
      BY <1>a
    <3>. QED BY ONLY <3>1, SetState, Zenon
  <2>2. Go(s, "alerts", v) /\ pc[s] = "kind"
    BY <1>8 DEF ReadSyncState, Kind
  <2>. HIDE DEF v
  <2>3. sync[s].rest \in Seq(Kinds) /\ sync[s].rest # <<>>
    BY <2>2 DEF Invariant, Persists
  <2>4. Persists("alerts", v)
    BY <1>a, <2>1, <2>3 DEF Persists, Kind
  <2>. QED BY <1>8, <2>2, <2>4, GoKeeps DEF ReadSyncState, Quiet, outside, history, Stages
<1>9. ASSUME NEW s \in Syncers, ReadPrevious(s)
      PROVE  Invariant'
  <2>. DEFINE u == sync[s]
  <2>1. PICK a \in u.alerts :
          Go(s, "upserting", [u EXCEPT !.alert = a, !.alerts = @ \ {a},
                                       !.previous = StateOf(row[a])])
    BY <1>9 DEF ReadPrevious
  <2>. DEFINE v == [u EXCEPT !.alert = a, !.alerts = @ \ {a}, !.previous = StateOf(row[a])]
  <2>2. /\ IsSync(v) /\ v.results = u.results /\ v.rest = u.rest
        /\ v.previousSync = u.previousSync
        /\ v.alert = a /\ v.alerts = u.alerts \ {a} /\ v.previous = StateOf(row[a])
    <3>1. PICK results, rest, previousSync, alerts, alert, previous :
            u = [results |-> results, rest |-> rest, previousSync |-> previousSync,
                 alerts |-> alerts, alert |-> alert, previous |-> previous]
      BY <1>a DEF IsSync
    <3>. HIDE DEF u, v
    <3>2. v = [u EXCEPT !.alert = a, !.alerts = @ \ {a}, !.previous = StateOf(row[a])]
      BY DEF v
    <3>. QED BY <3>1, <3>2, ZenonT(60) DEF IsSync
  <2>3. Go(s, "upserting", v) /\ pc[s] = "alerts" /\ Persists("alerts", u)
    BY <1>9, <2>1 DEF ReadPrevious, Invariant
  <2>. HIDE DEF v
  <2>4. Persists("upserting", v)
    BY <2>2, <2>3 DEF Persists, Kind
  <2>. QED BY <1>9, <2>3, <2>4, GoKeeps DEF ReadPrevious, Quiet, outside, history, Stages
<1>10. ASSUME NEW s \in Syncers, Upsert(s)
       PROVE  Invariant'
  <2>. DEFINE v == sync[s]
              a == v.alert
              version == Version(v, a)
  <2>1. pc[s] = "upserting" /\ Persists("upserting", v)
    BY <1>10 DEF Upsert, Invariant
  <2>2. a \in Alerts /\ KindOf[a] = Kind(v) /\ version \in Row
    BY <2>1, OfItsKind DEF Persists
  <2>3. row' = [row EXCEPT ![a] = version] /\ UNCHANGED <<provider, remote, syncState>>
    BY <1>10 DEF Upsert, outside, Version
  <2>4. row' \in [Alerts -> {None} \cup Row] /\ StateOf(row'[a]) = version.state
    BY <2>2, <2>3 DEF Invariant, StateOf, Row, AlertStates
  <2>5. \A t \in Syncers : t = s
    BY DEF OneSyncer
  <2>6. \A b \in Alerts : b \in lost \/ told[b] = StateOf(row[b])
    BY <2>1, <2>5 DEF Invariant, SubscribersAreCurrent, InProgress
  <2>7. CASE IsSilent(v, version.state)
    <3>. DEFINE w == [v EXCEPT !.alert = None, !.previous = "ABSENT"]
    <3>1. /\ IsSync(w) /\ w.results = v.results /\ w.rest = v.rest
          /\ w.previousSync = v.previousSync /\ w.alerts = v.alerts
      <4>1. IsSync(sync[s])
        BY <1>a
      <4>. QED BY ONLY <4>1, ClearAlert, Zenon
    <3>2. /\ Go(s, "alerts", w)
          /\ told' = [told EXCEPT ![a] = IF @ = "ABSENT" \/ baseline(v)
                                         THEN version.state ELSE @]
          /\ lost' = lost \ (IF baseline(v) THEN {a} ELSE {})
      BY <1>10, <2>7 DEF Upsert, Version
    <3>. HIDE DEF w
    <3>3. /\ \A t \in Syncers : t = s /\ pc'[t] = "alerts" /\ sync'[t] = w
          /\ pc' \in [Syncers -> Stages] /\ DOMAIN sync' = Syncers
      BY <3>2, GoAlone DEF Stages
    <3>4. \A t \in Syncers : Persists(pc[t], sync[t])'
      BY <2>1, <2>3, <3>1, <3>3 DEF Persists, Kind
    <3>5. a \in lost' \/ told'[a] = version.state
      BY <2>1, <2>2, <2>6, <2>7, <3>2 DEF IsSilent, Persists, Invariant
    <3>6. \A b \in Alerts \ {a} : (b \in lost' <=> b \in lost) /\ told'[b] = told[b]
                                /\ row'[b] = row[b]
      BY <2>3, <3>2 DEF Invariant
    <3>7. SubscribersAreCurrent'
      BY <2>4, <2>6, <3>5, <3>6 DEF SubscribersAreCurrent, StateOf
    <3>. QED BY <2>3, <2>4, <3>2, <3>3, <3>4, <3>7 DEF Invariant
  <2>8. CASE ~IsSilent(v, version.state)
    <3>1. Go(s, "emitting", v) /\ UNCHANGED <<told, lost>>
      BY <1>10, <2>8 DEF Upsert, Version
    <3>2. /\ \A t \in Syncers : t = s /\ pc'[t] = "emitting" /\ sync'[t] = v
          /\ pc' \in [Syncers -> Stages] /\ DOMAIN sync' = Syncers
      BY <3>1, GoAlone DEF Stages
    <3>3. ~baseline(v) /\ v.previous # version.state
      BY <2>8 DEF IsSilent
    <3>4. a \in lost \/ told[a] # version.state
      BY <2>1, <2>2, <2>6, <3>3 DEF Persists
    <3>5. row'[a] = version
      BY <2>2, <2>3 DEF Invariant
    <3>6. \A t \in Syncers : Persists(pc[t], sync[t])'
      <4>1. Told(v) = version.state
        BY DEF Told, Version
      <4>. QED BY <2>1, <2>3, <3>1, <3>2, <3>3, <3>4, <3>5, <4>1
               DEF Persists, Kind, Version, baseline, Told
    <3>7. SubscribersAreCurrent'
      BY <2>2, <2>3, <2>6, <3>1, <3>2 DEF SubscribersAreCurrent, InProgress, Invariant
    <3>. QED BY <2>3, <2>4, <3>1, <3>2, <3>6, <3>7 DEF Invariant
  <2>. QED BY <2>7, <2>8
<1>11. ASSUME NEW s \in Syncers, Emit(s)
       PROVE  Invariant'
  <2>. DEFINE v == sync[s]
              a == v.alert
              w == [v EXCEPT !.alert = None, !.previous = "ABSENT"]
  <2>1. pc[s] = "emitting" /\ Persists("emitting", v)
    BY <1>11 DEF Emit, Invariant
  <2>2. a \in Alerts /\ KindOf[a] = Kind(v) /\ Version(v, a) \in Row
    BY <2>1, OfItsKind DEF Persists
  <2>3. /\ told' = [told EXCEPT ![a] = Told(v)] /\ lost' = lost \ {a}
        /\ Go(s, "alerts", w) /\ UNCHANGED <<provider, remote, row, syncState>>
    BY <1>11 DEF Emit, outside
  <2>4. /\ IsSync(w) /\ w.results = v.results /\ w.rest = v.rest
        /\ w.previousSync = v.previousSync /\ w.alerts = v.alerts
    <3>1. IsSync(sync[s])
      BY <1>a
    <3>. QED BY ONLY <3>1, ClearAlert, Zenon
  <2>. HIDE DEF w
  <2>5. /\ \A t \in Syncers : t = s /\ pc'[t] = "alerts" /\ sync'[t] = w
        /\ pc' \in [Syncers -> Stages] /\ DOMAIN sync' = Syncers
    BY <2>3, GoAlone DEF Stages
  <2>6. \A t \in Syncers : Persists(pc[t], sync[t])'
    BY <2>1, <2>3, <2>4, <2>5 DEF Persists, Kind
  <2>7. Told(v) = StateOf(row[a])
    BY <2>1, <2>2 DEF Persists, StateOf, Told, Version, Row, AlertStates
  <2>8. SubscribersAreCurrent'
    BY <2>2, <2>3, <2>5, <2>7 DEF SubscribersAreCurrent, InProgress, Invariant
  <2>. QED BY <2>3, <2>5, <2>6, <2>8 DEF Invariant
<1>12. ASSUME NEW s \in Syncers, StoreSyncState(s)
       PROVE  Invariant'
  <2>. DEFINE v == sync[s]
              w == [v EXCEPT !.rest = Tail(@), !.previousSync = None]
  <2>1. pc[s] = "alerts" /\ Persists("alerts", v)
        /\ UNCHANGED <<provider, remote, row, told, lost>>
    BY <1>12 DEF StoreSyncState, Invariant, outside, history
  <2>2. CASE Tail(v.rest) = <<>>
    <3>1. Go(s, "idle", NoSync)
      BY <1>12, <2>2 DEF StoreSyncState
    <3>2. Persists("idle", NoSync)
      BY Nothing DEF Persists
    <3>. QED BY <2>1, <3>1, <3>2, GoKeeps DEF Stages
  <2>3. CASE Tail(v.rest) # <<>>
    <3>1. Go(s, "kind", w)
      BY <1>12, <2>3 DEF StoreSyncState
    <3>2. IsSync(w) /\ w.rest = Tail(v.rest) /\ w.results = v.results
      <4>1. IsSync(sync[s])
        BY <1>a
      <4>. QED BY ONLY <4>1, SetKinds, Zenon
    <3>. HIDE DEF w
    <3>3. Tail(v.rest) \in Seq(Kinds)
      BY <2>1 DEF Persists
    <3>4. Persists("kind", w)
      BY <1>a, <2>3, <3>2, <3>3 DEF Persists
    <3>. QED BY <2>1, <3>1, <3>4, GoKeeps DEF Stages
  <2>. QED BY <2>2, <2>3
<1>13. ASSUME NEW s \in Syncers, Crash(s)
       PROVE  Invariant'
  <2>1. /\ \A t \in Syncers : t = s /\ pc'[t] = "idle" /\ sync'[t] = NoSync
        /\ pc' \in [Syncers -> Stages] /\ DOMAIN sync' = Syncers
    BY <1>13, GoAlone DEF Crash, Stages
  <2>2. /\ UNCHANGED <<provider, remote, row, syncState, told>>
        /\ lost' = IF pc[s] = "emitting" THEN lost \cup {sync[s].alert} ELSE lost
    BY <1>13 DEF Crash, outside
  <2>3. \A t \in Syncers : Persists(pc[t], sync[t])'
    BY <2>1, Nothing DEF Persists
  <2>4. SubscribersAreCurrent'
    BY <2>1, <2>2 DEF Invariant, SubscribersAreCurrent, InProgress
  <2>. QED BY <2>1, <2>2, <2>3, <2>4 DEF Invariant
<1>. QED BY <1>1, <1>2, <1>3, <1>5, <1>6, <1>7, <1>8, <1>9, <1>10, <1>11, <1>12, <1>13
         DEF Next, Step

-----------------------------------------------------------------------------
(* The theorems. *)

LEMMA InvariantHolds == OneSyncer /\ Spec => []Invariant
<1>1. OneSyncer /\ Invariant /\ [Next]_vars => Invariant'
  BY StepInvariant
<1>2. OneSyncer => OneSyncer'
  BY DEF OneSyncer
<1>. QED BY <1>1, <1>2, InitInvariant, PTL DEF Spec

\* Subscribers know the state of every alert that persistAlert has stored, unless a
\* synchronization died between the upsert and the event: for any kinds, alerts, changes
\* of access, refusals and retries.
THEOREM SubscribersAreCurrentHolds == OneSyncer /\ Spec => []SubscribersAreCurrent
<1>1. Invariant => SubscribersAreCurrent
  BY DEF Invariant
<1>. QED BY <1>1, InvariantHolds, PTL

\* emitSecurityAlertEvent tells only news, and only of a kind with a baseline, however
\* often the baseline was begun, refused or taken away.
THEOREM BaselineIsSilentHolds == OneSyncer /\ Spec => BaselineIsSilent
<1>1. ASSUME Invariant, NEW s \in Syncers, pc[s] = "emitting"
      PROVE  /\ Established(KindOf[sync[s].alert])
             /\ sync[s].alert \in lost \/ told[sync[s].alert] # Told(sync[s])
  <2>1. Persists("emitting", sync[s])
    BY <1>1 DEF Invariant
  <2>2. KindOf[sync[s].alert] = Kind(sync[s])
    BY <2>1, OfItsKind DEF Persists
  <2>. QED BY <2>1, <2>2 DEF Persists, baseline, Established
<1>2. Invariant =>
        [\A s \in Syncers :
           pc[s] = "emitting" /\ pc'[s] = "alerts" =>
             /\ Established(KindOf[sync[s].alert])
             /\ sync[s].alert \in lost \/ told[sync[s].alert] # Told(sync[s])]_vars
  BY <1>1
<1>. QED BY <1>2, InvariantHolds, PTL DEF BaselineIsSilent
==================================================================================
