------------------------------ MODULE LogProofs ------------------------------
(***************************************************************************)
(* Theorems about LogPaging: the pages of the log dialog follow each other *)
(* without gap or repetition, More is offered as long as entries remain,   *)
(* the details are those of the selected revisions, and Diff compares a    *)
(* revision with the one before.                                           *)
(***************************************************************************)
EXTENDS LogPaging, NumberFacts, SequenceTheorems, FiniteSetTheorems, TLAPS

LogSpec == LogInit /\ [][LogNext]_logVars

-----------------------------------------------------------------------------
(* Revisions in their order                                                *)

\* Finite sets of revisions.
Revs(S) == IsFiniteSet(S) /\ S \subseteq Nat

\* The next newer revision has one newer revision less; the older of two has more.
LEMMA AboveFacts ==
    ASSUME NEW S, Revs(S)
    PROVE  /\ Cardinality(S) \in Nat
           /\ \A r : Above(S, r) \in Nat
           /\ \A r \in S : Above(S, r) < Cardinality(S)
           /\ \A q, r \in S : r < q => Above(S, q) < Above(S, r)
           /\ \A q, r \in S : r < q /\ (\A x \in S : r < x => q <= x) => Above(S, r) = Above(S, q) + 1
<1>0. \A x \in S : x \in Nat
  BY DEF Revs
<1>1. Cardinality(S) \in Nat
  BY FS_CardinalityType DEF Revs
<1>2. ASSUME NEW r PROVE IsFiniteSet({q \in S : q > r}) /\ Above(S, r) \in Nat
  <2>1. {q \in S : q > r} \in SUBSET S
    OBVIOUS
  <2> QED
    BY <2>1, FS_Subset, FS_CardinalityType DEF Revs, Above
<1>6. \A r : Above(S, r) \in Nat
  BY <1>2
<1>3. ASSUME NEW r \in S PROVE Above(S, r) < Cardinality(S)
  <2> DEFINE T == {q \in S : q > r}
  <2>1. T \in SUBSET S /\ r \notin T
    BY DEF Revs
  <2>2. Above(S, r) = Cardinality(T)
    BY DEF Above
  <2> HIDE DEF T
  <2>3. Cardinality(T) <= Cardinality(S) /\ Cardinality(S) # Cardinality(T)
    BY <2>1, FS_Subset DEF Revs
  <2> QED
    BY <1>1, <1>6, <2>2, <2>3
<1>4. ASSUME NEW q \in S, NEW r \in S, r < q PROVE Above(S, q) < Above(S, r)
  <2> DEFINE T == {x \in S : x > q}
             U == {x \in S : x > r}
  <2>1. Above(S, q) = Cardinality(T) /\ Above(S, r) = Cardinality(U)
    BY DEF Above
  <2>2. T \in SUBSET U /\ q \in U /\ q \notin T
    BY <1>0, <1>4
  <2>3. IsFiniteSet(U)
    BY <1>2
  <2> HIDE DEF T, U
  <2>4. Cardinality(T) <= Cardinality(U) /\ Cardinality(U) # Cardinality(T)
    BY <2>2, <2>3, FS_Subset
  <2> QED
    BY <1>6, <2>1, <2>4
<1>5. ASSUME NEW q \in S, NEW r \in S, r < q, \A x \in S : r < x => q <= x
      PROVE  Above(S, r) = Above(S, q) + 1
  <2> DEFINE T == {x \in S : x > q}
             U == {x \in S : x > r}
  <2>1. Above(S, q) = Cardinality(T) /\ Above(S, r) = Cardinality(U)
    BY DEF Above
  <2>2. U = T \cup {q} /\ q \notin T
    BY <1>0, <1>5
  <2>3. IsFiniteSet(T)
    BY <1>2
  <2> HIDE DEF T, U
  <2> QED
    BY <2>1, <2>2, <2>3, FS_AddElement
<1> QED
  BY <1>1, <1>3, <1>4, <1>5, <1>6

\* Every number of newer revisions occurs.
LEMMA RankExists ==
    ASSUME NEW S, Revs(S), NEW n \in 0 .. Cardinality(S) - 1
    PROVE  \E r \in S : Above(S, r) = n
<1>1. /\ Cardinality(S) \in Nat /\ S \subseteq Nat
      /\ \A r : Above(S, r) \in Nat
      /\ \A q, r \in S : r < q /\ (\A x \in S : r < x => q <= x) => Above(S, r) = Above(S, q) + 1
  BY AboveFacts DEF Revs
<1> DEFINE ranks == {m \in Nat : n <= m /\ \E r \in S : Above(S, r) = m}
<1>2. ranks # {}
  <2>1. S # {}
    BY <1>1, FS_EmptySet
  <2>2. PICK r \in S : \A x \in S : r <= x
    BY <1>1, <2>1, Smallest
  <2>3. {x \in S : x > r} = S \ {r}
    <3>1. \A x \in S : x \in Nat
      BY <1>1
    <3> QED
      BY <2>2, <3>1
  <2>4. Above(S, r) = Cardinality(S) - 1
    BY <2>3, FS_RemoveElement DEF Above, Revs
  <2>5. Above(S, r) \in ranks
    BY <1>1, <2>4
  <2> QED
    BY <2>5
<1>3. PICK m \in ranks : \A x \in ranks : m <= x
  <2>1. ranks \in SUBSET Nat
    OBVIOUS
  <2> HIDE DEF ranks
  <2> QED
    BY <1>2, <2>1, Smallest
<1>4. PICK r \in S : Above(S, r) = m
  OBVIOUS
<1>5. CASE m = n
  BY <1>4, <1>5
<1>6. CASE m # n
  <2> DEFINE above == {x \in S : x > r}
  <2>1. m \in Nat /\ n < m
    BY <1>6
  <2>2. above # {}
    <3>1. Cardinality({}) = 0
      BY FS_EmptySet
    <3> QED
      BY <1>4, <2>1, <3>1 DEF Above
  <2>3. above \in SUBSET Nat
    BY <1>1
  <2>4. PICK q \in above : \A x \in above : q <= x
    <3> HIDE DEF above
    <3> QED
      BY <2>2, <2>3, Smallest
  <2>5. q \in S /\ r < q /\ \A x \in S : r < x => q <= x
    BY <1>1, <2>4
  <2>6. Above(S, r) = Above(S, q) + 1 /\ Above(S, q) \in Nat
    BY <1>1, <2>5
  <2>7. Above(S, q) \in ranks
    BY <1>4, <2>1, <2>5, <2>6
  <2>8. Above(S, q) >= m
    BY <1>3, <2>7
  <2> QED
    BY <1>4, <2>1, <2>6, <2>8
<1> QED
  BY <1>5, <1>6

\* The newest revision.
LEMMA MaxIsNewest ==
    ASSUME NEW S, Revs(S), S # {}
    PROVE  Max(S) \in S /\ \A x \in S : x <= Max(S)
<1>1. 0 \in 0 .. Cardinality(S) - 1
  <2>1. Cardinality(S) \in Nat /\ Cardinality(S) # 0
    BY AboveFacts, FS_EmptySet DEF Revs
  <2> QED
    BY <2>1
<1>2. PICK r \in S : Above(S, r) = 0
  BY <1>1, RankExists
<1>3. {q \in S : q > r} = {}
  <2>1. {q \in S : q > r} \in SUBSET S
    OBVIOUS
  <2>2. IsFiniteSet({q \in S : q > r})
    BY <2>1, FS_Subset DEF Revs
  <2> QED
    BY <1>2, <2>2, FS_EmptySet DEF Above
<1>4. \A x \in S : x <= r
  BY <1>3 DEF Revs
<1>5. \E x \in S : \A y \in S : x >= y
  BY <1>4 DEF Revs
<1>6. Max(S) \in S /\ \A y \in S : Max(S) >= y
  BY <1>5 DEF Max
<1> QED
  BY <1>6 DEF Revs

\* The list of all revisions from the newest on.
LEMMA DescendingFacts ==
    ASSUME NEW S, Revs(S)
    PROVE  LET d == Descending(S)
           IN  /\ d \in Seq(S) /\ Len(d) = Cardinality(S) /\ Cardinality(S) \in Nat
               /\ \A n \in 1 .. Len(d) : d[n] \in S /\ Above(S, d[n]) = n - 1
               /\ \A n \in 1 .. Len(d), r \in S : Above(S, r) = n - 1 => r = d[n]
               /\ \A m, n \in 1 .. Len(d) : m < n => d[n] < d[m]
<1> DEFINE N == Cardinality(S)
           d == Descending(S)
<1>1. N \in Nat /\ S \subseteq Nat
  BY AboveFacts DEF Revs
<1>2. d = [n \in 1 .. N |-> CHOOSE r \in S : Above(S, r) = n - 1]
  BY DEF Descending
<1>3. ASSUME NEW n \in 1 .. N PROVE d[n] \in S /\ Above(S, d[n]) = n - 1
  <2>1. n - 1 \in 0 .. N - 1
    BY <1>1
  <2>2. \E r \in S : Above(S, r) = n - 1
    BY <2>1, RankExists
  <2>3. d[n] = CHOOSE r \in S : Above(S, r) = n - 1
    BY <1>2
  <2> HIDE DEF d, N
  <2> QED
    BY <2>2, <2>3
<1> HIDE DEF d, N
<1>4. d \in Seq(S) /\ Len(d) = N
  <2>1. d \in [1 .. N -> S]
    BY <1>2, <1>3
  <2> QED
    BY <1>1, <2>1
<1>5. \A r, q \in S : Above(S, r) = Above(S, q) => r = q
  <2> SUFFICES ASSUME NEW r \in S, NEW q \in S, Above(S, r) = Above(S, q), r # q PROVE FALSE
    OBVIOUS
  <2>1. r \in Nat /\ q \in Nat
    BY <1>1
  <2>2. (r < q => Above(S, q) < Above(S, r)) /\ (q < r => Above(S, r) < Above(S, q)) /\ Above(S, r) \in Nat
    BY AboveFacts
  <2> QED
    BY <2>1, <2>2
<1>6. ASSUME NEW m \in 1 .. N, NEW n \in 1 .. N, m < n PROVE d[n] < d[m]
  <2>1. /\ d[m] \in S /\ d[n] \in S
        /\ Above(S, d[m]) = m - 1 /\ Above(S, d[n]) = n - 1
    BY <1>3
  <2>2. d[m] \in Nat /\ d[n] \in Nat
    BY <1>1, <2>1
  <2>4. d[m] # d[n]
    <3>1. m - 1 # n - 1
      BY <1>1, <1>6
    <3> QED
      BY <2>1, <3>1
  <2>3. d[m] < d[n] => Above(S, d[n]) < Above(S, d[m])
    BY <2>1, AboveFacts
  <2> QED
    BY <1>6, <2>1, <2>2, <2>3, <2>4
<1>7. \A n \in 1 .. N, r \in S : Above(S, r) = n - 1 => r = d[n]
  BY <1>3, <1>5
<1>8. /\ d \in Seq(S) /\ Len(d) = N /\ N \in Nat
      /\ \A n \in 1 .. Len(d) : d[n] \in S /\ Above(S, d[n]) = n - 1
      /\ \A n \in 1 .. Len(d), r \in S : Above(S, r) = n - 1 => r = d[n]
      /\ \A m, n \in 1 .. Len(d) : m < n => d[n] < d[m]
  BY <1>1, <1>3, <1>4, <1>6, <1>7
<1> QED
  BY <1>8 DEF d, N

\* The list of all revisions from the oldest on is that list backwards.
LEMMA AscendingFacts ==
    ASSUME NEW S, Revs(S)
    PROVE  /\ Len(Ascending(S)) = Cardinality(S)
           /\ \A n \in 1 .. Cardinality(S) :
                 Ascending(S)[n] = Descending(S)[Cardinality(S) - n + 1]
<1> DEFINE N == Cardinality(S)
           d == Descending(S)
           a == Ascending(S)
<1>1. a = [n \in 1 .. N |-> CHOOSE r \in S : Below(S, r) = n - 1]
  BY DEF Ascending
<1>2. /\ Len(d) = N /\ N \in Nat
      /\ \A n \in 1 .. N : d[n] \in S /\ Above(S, d[n]) = n - 1
      /\ \A n \in 1 .. N, r \in S : Above(S, r) = n - 1 => r = d[n]
  <2>1. /\ d \in Seq(S) /\ Len(d) = N /\ N \in Nat
        /\ \A n \in 1 .. Len(d) : d[n] \in S /\ Above(S, d[n]) = n - 1
        /\ \A n \in 1 .. Len(d), r \in S : Above(S, r) = n - 1 => r = d[n]
        /\ \A m, n \in 1 .. Len(d) : m < n => d[n] < d[m]
    BY DescendingFacts
  <2> HIDE DEF d, N
  <2> QED
    BY <2>1
<1>3. ASSUME NEW r \in S PROVE Below(S, r) = N - 1 - Above(S, r) /\ Above(S, r) \in Nat
  <2> DEFINE T == {q \in S : q > r}
             U == {q \in S : q < r}
             V == T \cup {r}
  <2>1. \A x \in S : x \in Nat
    BY DEF Revs
  <2>2. T \in SUBSET S /\ U \in SUBSET S /\ r \notin T /\ V \cap U = {} /\ S = V \cup U
    BY <2>1
  <2>3. Above(S, r) = Cardinality(T) /\ Below(S, r) = Cardinality(U)
    BY DEF Above, Below
  <2> HIDE DEF T, U, V
  <2>4. IsFiniteSet(T) /\ IsFiniteSet(U) /\ Cardinality(T) \in Nat /\ Cardinality(U) \in Nat
    BY <2>2, FS_Subset, FS_CardinalityType DEF Revs
  <2>5. IsFiniteSet(V) /\ Cardinality(V) = Cardinality(T) + 1
    BY <2>2, <2>4, FS_AddElement DEF V
  <2>6. Cardinality(V \cup U) = Cardinality(V) + Cardinality(U) - Cardinality(V \cap U)
    BY <2>4, <2>5, FS_Union
  <2>7. Cardinality(V \cap U) = 0
    BY <2>2, FS_EmptySet
  <2>8. N = Cardinality(V) + Cardinality(U)
    BY <2>2, <2>4, <2>5, <2>6, <2>7
  <2> HIDE DEF N
  <2> QED
    BY <2>3, <2>4, <2>5, <2>8
<1> HIDE DEF N, d, a
<1>4. ASSUME NEW n \in 1 .. N PROVE a[n] = d[N - n + 1]
  <2>1. N - n + 1 \in 1 .. N /\ n \in Nat
    BY <1>2
  <2>2. d[N - n + 1] \in S /\ Above(S, d[N - n + 1]) = (N - n + 1) - 1
    BY <1>2, <2>1
  <2>3. Below(S, d[N - n + 1]) = n - 1
    BY <1>2, <1>3, <2>1, <2>2
  <2>4. a[n] \in S /\ Below(S, a[n]) = n - 1
    <3>1. \E r \in S : Below(S, r) = n - 1
      BY <2>2, <2>3
    <3>2. a[n] = CHOOSE r \in S : Below(S, r) = n - 1
      BY <1>1
    <3> QED
      BY <3>1, <3>2
  <2>5. Above(S, a[n]) = (N - n + 1) - 1
    <3>1. Below(S, a[n]) = N - 1 - Above(S, a[n]) /\ Above(S, a[n]) \in Nat
      BY <1>3, <2>4
    <3> QED
      BY <1>2, <2>1, <2>4, <3>1
  <2> QED
    BY <1>2, <2>1, <2>4, <2>5
<1>5. Len(a) = N
  BY <1>1, <1>2
<1> QED
  BY <1>4, <1>5 DEF N, d, a

\* The list from a revision on is the rest of the list of all.
LEMMA RestIsRest ==
    ASSUME NEW S, Revs(S), NEW k \in 1 .. Cardinality(S)
    PROVE  LET S2 == {r \in S : r <= Descending(S)[k]}
               d2 == Descending(S2)
           IN  /\ Revs(S2) /\ Len(d2) = Cardinality(S) - k + 1
               /\ d2 \in Seq(S2)
               /\ \A n \in 1 .. Len(d2) : d2[n] = Descending(S)[n + k - 1]
<1> DEFINE N == Cardinality(S)
           d == Descending(S)
           S2 == {r \in S : r <= d[k]}
           S1 == {r \in S : r > d[k]}
           d2 == Descending(S2)
<1>1. /\ d \in Seq(S) /\ Len(d) = N /\ N \in Nat /\ k \in Nat
      /\ \A n \in 1 .. N : d[n] \in S /\ Above(S, d[n]) = n - 1
      /\ \A n \in 1 .. N, r \in S : Above(S, r) = n - 1 => r = d[n]
  <2>1. /\ d \in Seq(S) /\ Len(d) = N /\ N \in Nat
        /\ \A n \in 1 .. Len(d) : d[n] \in S /\ Above(S, d[n]) = n - 1
        /\ \A n \in 1 .. Len(d), r \in S : Above(S, r) = n - 1 => r = d[n]
    BY DescendingFacts
  <2> HIDE DEF d, N
  <2> QED
    BY <2>1
<1>2. S \subseteq Nat /\ IsFiniteSet(S)
  BY DEF Revs
<1>0. d[k] \in Nat /\ \A x \in S : x \in Nat
  BY <1>1, <1>2
<1>3. S1 \in SUBSET S /\ S2 \in SUBSET S /\ S1 \cap S2 = {} /\ S = S1 \cup S2
  BY <1>0
<1>4. IsFiniteSet(S1) /\ IsFiniteSet(S2) /\ Cardinality(S1) \in Nat /\ Cardinality(S2) \in Nat
  BY <1>2, <1>3, FS_Subset, FS_CardinalityType
<1>5. Cardinality(S1) = k - 1
  BY <1>1 DEF Above
<1>6. Revs(S2)
  BY <1>2, <1>4 DEF Revs
<1> HIDE DEF d, S1
<1>7. Cardinality(S2) = N - k + 1
  <2> HIDE DEF S2
  <2>1. Cardinality(S1 \cup S2) = Cardinality(S1) + Cardinality(S2) - Cardinality(S1 \cap S2)
    BY <1>4, FS_Union
  <2>2. Cardinality(S1 \cap S2) = 0
    BY <1>3, FS_EmptySet
  <2> QED
    BY <1>1, <1>3, <1>4, <1>5, <2>1, <2>2
<1>8. ASSUME NEW r \in S2 PROVE Above(S, r) = Above(S2, r) + (k - 1)
  <2> DEFINE T == {q \in S2 : q > r}
  <2>1. {q \in S : q > r} = S1 \cup T
    <3>1. r \in S /\ r \in Nat /\ r <= d[k]
      BY <1>0
    <3>2. \A q \in S : q > r <=> q > d[k] \/ (q <= d[k] /\ q > r)
      BY <1>0, <3>1
    <3> QED
      BY <3>2 DEF S1
  <2>2. T \in SUBSET S2 /\ S1 \cap T = {}
    BY <1>3
  <2>3. Above(S2, r) = Cardinality(T)
    BY DEF Above
  <2> HIDE DEF S2, T
  <2>4. IsFiniteSet(T) /\ Cardinality(T) \in Nat
    BY <1>4, <2>2, FS_Subset, FS_CardinalityType
  <2>5. Cardinality(S1 \cup T) = Cardinality(S1) + Cardinality(T) - Cardinality(S1 \cap T)
    BY <1>4, <2>4, FS_Union
  <2>6. Cardinality(S1 \cap T) = 0
    BY <2>2, FS_EmptySet
  <2>7. Above(S, r) = Cardinality(S1 \cup T)
    BY <2>1 DEF Above
  <2> QED
    BY <1>1, <1>5, <2>3, <2>4, <2>5, <2>6, <2>7
<1> HIDE DEF S2
<1>9. /\ d2 \in Seq(S2) /\ Len(d2) = N - k + 1
      /\ \A n \in 1 .. Len(d2) : d2[n] \in S2 /\ Above(S2, d2[n]) = n - 1
  <2>1. /\ d2 \in Seq(S2) /\ Len(d2) = Cardinality(S2)
        /\ \A n \in 1 .. Len(d2) : d2[n] \in S2 /\ Above(S2, d2[n]) = n - 1
    BY <1>6, DescendingFacts
  <2> QED
    BY <1>7, <2>1
<1> HIDE DEF d2, N
<1>10. ASSUME NEW n \in 1 .. Len(d2) PROVE d2[n] = d[n + k - 1]
  <2>1. n \in Nat /\ n + k - 1 \in 1 .. N
    BY <1>1, <1>9
  <2>2. d2[n] \in S2 /\ Above(S2, d2[n]) = n - 1 /\ d2[n] \in S
    BY <1>3, <1>9
  <2>3. Above(S, d2[n]) = (n + k - 1) - 1
    BY <1>1, <1>8, <2>1, <2>2
  <2> QED
    BY <1>1, <2>1, <2>2, <2>3
<1> QED
  BY <1>6, <1>9, <1>10 DEF d2, d, S2, N

-----------------------------------------------------------------------------
(* Pages                                                                   *)

\* A page: what Log returns from the k-th newest revision on.
LEMMA LogFacts ==
    ASSUME NEW h, Revs(h), NEW k \in 1 .. Cardinality(h)
    PROVE  LET N == Cardinality(h)
               page == Log(h, Descending(h)[k])
           IN  /\ page \in Seq(h)
               /\ Len(page) = IF N - k + 1 > LogLimit + 1 THEN LogLimit + 1 ELSE N - k + 1
               /\ \A n \in 1 .. Len(page) : page[n] = Descending(h)[n + k - 1]
<1> DEFINE N == Cardinality(h)
           start == Descending(h)[k]
           S2 == {r \in h : r <= start}
           found == Descending(S2)
           size == IF Len(found) > LogLimit + 1 THEN LogLimit + 1 ELSE Len(found)
           page == Log(h, start)
<1>1. /\ Len(found) = N - k + 1 /\ found \in Seq(S2)
      /\ \A n \in 1 .. Len(found) : found[n] = Descending(h)[n + k - 1]
  BY RestIsRest
<1>2. N \in Nat /\ k \in 1 .. N /\ LogLimit \in Nat /\ LogLimit > 0
  BY AboveFacts, LogAssumption
<1>3. page = SubSeq(found, 1, size)
  BY DEF Log
<1>4. S2 \subseteq h
  OBVIOUS
<1> HIDE DEF N, found, S2, page
<1>5. size \in Nat /\ size >= 1 /\ size <= Len(found) /\ Len(found) \in Nat
  BY <1>1, <1>2
<1>6. size = IF N - k + 1 > LogLimit + 1 THEN LogLimit + 1 ELSE N - k + 1
  BY <1>1
<1> HIDE DEF size
<1>7. \A i \in 1 .. size : found[i] \in h
  BY <1>1, <1>4, <1>5
<1>8. /\ page \in Seq(h) /\ Len(page) = size
      /\ \A i \in 1 .. size : page[i] = found[i]
  <2>1. /\ SubSeq(found, 1, size) \in Seq(h)
        /\ Len(SubSeq(found, 1, size)) = IF 1 <= size THEN size - 1 + 1 ELSE 0
        /\ \A i \in 1 .. size - 1 + 1 : SubSeq(found, 1, size)[i] = found[1 + i - 1]
    BY <1>5, <1>7, SubSeqProperties
  <2>2. size - 1 + 1 = size /\ \A i \in 1 .. size : 1 + i - 1 = i
    BY <1>5
  <2> QED
    BY <1>3, <1>5, <2>1, <2>2
<1>9. \A n \in 1 .. size : page[n] = Descending(h)[n + k - 1]
  BY <1>1, <1>5, <1>8
<1> QED
  BY <1>6, <1>8, <1>9 DEF page, start, N

\* What is kept of it, where the next page begins, and whether there is one.
LEMMA PageFacts ==
    ASSUME NEW h, Revs(h), NEW k \in 1 .. Cardinality(h),
           NEW page, page = Log(h, Descending(h)[k])
    PROVE  /\ Kept(page) \in Seq(h)
           /\ Len(Kept(page)) \in 1 .. Cardinality(h) - k + 1
           /\ \A n \in 1 .. Len(Kept(page)) : Kept(page)[n] = Descending(h)[n + k - 1]
           /\ NextOf(page) = IF k - 1 + Len(Kept(page)) < Cardinality(h)
                             THEN Descending(h)[k - 1 + Len(Kept(page)) + 1] ELSE INVALID
           /\ HasMore(page) <=> k - 1 + Len(Kept(page)) < Cardinality(h)
<1> DEFINE N == Cardinality(h)
           d == Descending(h)
           kept == Kept(page)
<1>1. /\ page \in Seq(h)
      /\ Len(page) = IF N - k + 1 > LogLimit + 1 THEN LogLimit + 1 ELSE N - k + 1
      /\ \A n \in 1 .. Len(page) : page[n] = d[n + k - 1]
  BY LogFacts
<1>2. N \in Nat /\ k \in 1 .. N /\ LogLimit \in Nat /\ LogLimit > 0
  BY AboveFacts, LogAssumption
<1>3. /\ kept = IF Len(page) > LogLimit THEN SubSeq(page, 1, Len(page) - 1) ELSE page
      /\ NextOf(page) = IF Len(page) > LogLimit THEN page[Len(page)] ELSE INVALID
      /\ HasMore(page) <=> Len(page) > LogLimit
  BY DEF Kept, NextOf, HasMore, Front, Last
<1> HIDE DEF N, d, kept
<1>4. CASE N - k + 1 > LogLimit
  <2> DEFINE m == Len(page) - 1
  <2>1. Len(page) = LogLimit + 1 /\ m = LogLimit /\ m \in Nat /\ m >= 1
    BY <1>1, <1>2, <1>4
  <2>2. kept = SubSeq(page, 1, m)
    BY <1>2, <1>3, <2>1
  <2>3. \A i \in 1 .. m : page[i] \in h
    BY <1>1, <1>2, <2>1
  <2> HIDE DEF m
  <2>4. /\ SubSeq(page, 1, m) \in Seq(h)
        /\ Len(SubSeq(page, 1, m)) = IF 1 <= m THEN m - 1 + 1 ELSE 0
        /\ \A i \in 1 .. m - 1 + 1 : SubSeq(page, 1, m)[i] = page[1 + i - 1]
    BY <2>1, <2>3, SubSeqProperties
  <2>5. m - 1 + 1 = m /\ \A i \in 1 .. m : 1 + i - 1 = i /\ i \in 1 .. Len(page)
    BY <1>2, <2>1
  <2>6. /\ kept \in Seq(h) /\ Len(kept) = LogLimit
        /\ \A n \in 1 .. LogLimit : kept[n] = d[n + k - 1]
    BY <1>1, <2>1, <2>2, <2>4, <2>5
  <2>7. page[LogLimit + 1] = d[LogLimit + 1 + k - 1] /\ LogLimit + 1 + k - 1 = (k - 1 + LogLimit) + 1
    <3>1. LogLimit + 1 \in 1 .. Len(page) /\ LogLimit + 1 + k - 1 = (k - 1 + LogLimit) + 1
      BY <1>2, <2>1
    <3> QED
      BY <1>1, <3>1
  <2>8. k - 1 + LogLimit < N /\ LogLimit \in 1 .. N - k + 1
    BY <1>2, <1>4
  <2>9. NextOf(page) = d[(k - 1 + LogLimit) + 1] /\ HasMore(page)
    BY <1>2, <1>3, <2>1, <2>7
  <2> QED
    BY <2>6, <2>8, <2>9 DEF N, d, kept
<1>5. CASE N - k + 1 <= LogLimit
  <2>1. Len(page) = N - k + 1 /\ Len(page) \in 1 .. N - k + 1 /\ ~(Len(page) > LogLimit)
    BY <1>1, <1>2, <1>5
  <2>2. kept = page /\ NextOf(page) = INVALID /\ ~HasMore(page)
    BY <1>3, <2>1
  <2>3. ~(k - 1 + Len(page) < N)
    BY <1>2, <2>1
  <2> QED
    BY <1>1, <2>1, <2>2, <2>3 DEF N, d, kept
<1> QED
  BY <1>2, <1>4, <1>5

-----------------------------------------------------------------------------
(* Requests                                                                *)

\* A sequence, of whatever.
Sequence(s) == s \in Seq(Range(s))

LEMMA SequenceAppend ==
    ASSUME NEW s, Sequence(s), NEW x
    PROVE  LET t == Append(s, x)
           IN  /\ Sequence(t) /\ Len(s) \in Nat /\ Len(t) = Len(s) + 1
               /\ \A i \in 1 .. Len(s) : t[i] = s[i]
               /\ t[Len(s) + 1] = x
               /\ DOMAIN t = 1 .. Len(t) /\ DOMAIN s = 1 .. Len(s)
<1> DEFINE t == Append(s, x)
           S == Range(s) \cup {x}
<1>1. s \in Seq(S)
  <2>1. s \in Seq(Range(s))
    BY DEF Sequence
  <2>2. Range(s) \subseteq S
    OBVIOUS
  <2> HIDE DEF S
  <2> QED
    BY <2>1, <2>2
<1> HIDE DEF S
<1>2. x \in S
  BY DEF S
<1>3. /\ t \in Seq(S) /\ Len(s) \in Nat /\ Len(t) = Len(s) + 1
      /\ \A i \in 1 .. Len(s) : t[i] = s[i]
      /\ t[Len(s) + 1] = x
  BY <1>1, <1>2, AppendProperties
<1> HIDE DEF t
<1>4. DOMAIN t = 1 .. Len(t) /\ Len(t) \in Nat /\ DOMAIN s = 1 .. Len(s)
  BY <1>1, <1>3
<1>5. t \in Seq(Range(t))
  <2>1. \A i \in 1 .. Len(t) : t[i] \in Range(t)
    BY <1>4 DEF Range
  <2>2. t = [i \in 1 .. Len(t) |-> t[i]]
    BY <1>3, <1>4
  <2>3. t \in [1 .. Len(t) -> Range(t)]
    BY <2>1, <2>2
  <2> QED
    BY <1>4, <2>3
<1> QED
  BY <1>3, <1>4, <1>5 DEF t, Sequence

LEMMA SequenceTail ==
    ASSUME NEW s, Sequence(s), s # << >>
    PROVE  /\ Sequence(Tail(s)) /\ Len(s) \in Nat /\ Len(s) >= 1
           /\ Len(Tail(s)) = Len(s) - 1
           /\ \A i \in 1 .. Len(s) - 1 : Tail(s)[i] = s[i + 1]
           /\ Head(s) = s[1]
           /\ DOMAIN Tail(s) = 1 .. Len(Tail(s)) /\ DOMAIN s = 1 .. Len(s)
<1> DEFINE S == Range(s)
           t == Tail(s)
<1>1. s \in Seq(S)
  BY DEF Sequence
<1> HIDE DEF S
<1>2. /\ t \in Seq(S) /\ Len(t) = Len(s) - 1 /\ Len(s) \in Nat /\ Len(s) >= 1
      /\ \A i \in 1 .. Len(s) - 1 : t[i] = s[i + 1]
      /\ Head(s) = s[1]
  BY <1>1
<1> HIDE DEF t
<1>3. DOMAIN t = 1 .. Len(t) /\ Len(t) \in Nat /\ DOMAIN s = 1 .. Len(s)
  BY <1>1, <1>2
<1>4. t \in Seq(Range(t))
  <2>1. \A i \in 1 .. Len(t) : t[i] \in Range(t)
    BY <1>3 DEF Range
  <2>2. t = [i \in 1 .. Len(t) |-> t[i]]
    BY <1>2, <1>3
  <2>3. t \in [1 .. Len(t) -> Range(t)]
    BY <2>1, <2>2
  <2> QED
    BY <1>3, <2>3
<1> QED
  BY <1>2, <1>3, <1>4 DEF t, Sequence

\* A request for the next page of the open dialog, or the answer to one.
Mine(j) == j.kind \in {"next", "answer"} /\ j.dlg = dlg
DoingMine == doing.kind = "next" /\ doing.dlg = dlg

\* What was committed since the dialog was opened is newer than all before.
Committed ==
    /\ Revs(history) /\ history # {} /\ Revs(newer)
    /\ \A r \in history, q \in newer : r < q

\* Each request names a dialog that there was.
JobInv ==
    /\ Committed
    /\ dlg \in Nat /\ logs \in Nat /\ dlg <= logs
    /\ Sequence(jobs)
    /\ \A i \in 1 .. Len(jobs) : jobs[i].kind \in {"next", "answer"} =>
          jobs[i].dlg \in Nat /\ 1 <= jobs[i].dlg /\ jobs[i].dlg <= logs
    /\ doing.kind = "next" => doing.dlg \in Nat /\ 1 <= doing.dlg /\ doing.dlg <= logs

\* The dialog shows the newest revisions and knows where to go on; at most one
\* request of it is under way, for that page, and meanwhile More is disabled.
Shown == Len(entries)
NewestShown ==
    /\ entries \in Seq(history) /\ 1 <= Shown /\ Shown <= Cardinality(history)
    /\ \A i \in 1 .. Shown : entries[i] = Descending(history)[i]
    /\ next = IF Shown < Cardinality(history) THEN Descending(history)[Shown + 1] ELSE INVALID
    /\ more \in BOOLEAN

OneRequest ==
    /\ more => Shown < Cardinality(history)
    /\ \A i \in 1 .. Len(jobs) : Mine(jobs[i]) =>
          /\ Shown < Cardinality(history) /\ ~more /\ ~DoingMine
          /\ \A j \in 1 .. Len(jobs) : Mine(jobs[j]) => j = i
          /\ jobs[i].kind = "next" => jobs[i].start = next
          /\ jobs[i].kind = "answer" => jobs[i].page = Log(history, next)
    /\ DoingMine => Shown < Cardinality(history) /\ ~more /\ doing.start = next
    /\ ~lost => more \/ ~(Shown < Cardinality(history)) \/ DoingMine \/ \E i \in 1 .. Len(jobs) : Mine(jobs[i])

PageInv == JobInv /\ (Open => NewestShown /\ OneRequest)

LEMMA FirstIsNewest ==
    ASSUME NEW h, Revs(h), h # {}
    PROVE  /\ Cardinality(h) \in Nat /\ Cardinality(h) >= 1
           /\ Max(h) = Descending(h)[1]
<1> DEFINE d == Descending(h)
           N == Cardinality(h)
<1>1. Revs(h) /\ h # {}
  OBVIOUS
<1>2. N \in Nat /\ N >= 1
  <2>1. N \in Nat /\ N # 0
    BY <1>1, AboveFacts, FS_EmptySet DEF Revs
  <2> QED
    BY <2>1
<1>3. Max(h) \in h /\ \A x \in h : x <= Max(h)
  BY <1>1, MaxIsNewest
<1>4. Len(d) = N /\ \A n \in 1 .. Len(d) : d[n] \in h /\ Above(h, d[n]) = n - 1
  BY <1>1, DescendingFacts
<1>5. d[1] \in h /\ Above(h, d[1]) = 0
  <2> HIDE DEF d, N
  <2> QED
    BY <1>2, <1>4
<1> DEFINE m == Max(h)
           f == d[1]
<1>6. m \in h /\ f \in h /\ f <= m
  BY <1>3, <1>5
<1> HIDE DEF m, f
<1>7. f < m => Above(h, m) < Above(h, f)
  BY <1>1, <1>6, AboveFacts
<1>8. Above(h, m) \in Nat
  BY <1>1, AboveFacts
<1>9. m \in Nat /\ f \in Nat
  BY <1>1, <1>6 DEF Revs
<1>10. m = f
  BY <1>5, <1>6, <1>7, <1>8, <1>9 DEF f
<1> QED
  BY <1>1, <1>2, <1>10 DEF m, f

LEMMA CommittedStays ==
    ASSUME Committed, UNCHANGED <<history, newer>>
    PROVE  Committed'
  BY DEF Committed

LEMMA HistoryFacts ==
    ASSUME Committed
    PROVE  Revs(history) /\ Cardinality(history) \in Nat /\ Cardinality(history) >= 1
  BY FirstIsNewest DEF Committed

\* What was committed since is not on the pages that follow.
LEMMA NewerAreAbove ==
    ASSUME Committed, NEW start \in history
    PROVE  Log(history \cup newer, start) = Log(history, start)
<1>1. \A q \in newer : ~(q <= start)
  BY DEF Committed, Revs
<1>2. {r \in history \cup newer : r <= start} = {r \in history : r <= start}
  BY <1>1
<1> QED
  BY <1>2 DEF Log

LEMMA PageInvInit == LogInit => PageInv
<1> SUFFICES ASSUME LogInit PROVE PageInv
  OBVIOUS
<1>1. /\ jobs = << >> /\ Sequence(<< >>) /\ Len(<< >>) = 0
      /\ doing.kind = "idle" /\ dlg = 0 /\ logs = 0 /\ history \in Histories /\ newer = {}
  BY DEF LogInit, Sequence, Idle
<1>2. Committed
  <2>1. Revs({})
    BY FS_EmptySet DEF Revs
  <2>2. Revs(history) /\ history # {}
    BY <1>1, LogAssumption DEF Revs
  <2> QED
    BY <1>1, <2>1, <2>2 DEF Committed
<1> QED
  BY <1>1, <1>2 DEF PageInv, JobInv, Open

\* The selection, the order of the rows and what is committed have no part in it.
LEMMA PagesStay ==
    ASSUME PageInv, Committed',
           UNCHANGED <<history, dlg, logs, entries, next, more, jobs, doing, lost, undefined>>
    PROVE  PageInv'
<1>1. Log(history, next)' = Log(history, next)
  BY DEF Log
<1>2. \A x : Mine(x)' <=> Mine(x)
  BY DEF Mine
<1>3. DoingMine' <=> DoingMine
  BY DEF DoingMine
<1>4. JobInv'
  BY DEF PageInv, JobInv
<1>5. NewestShown => NewestShown'
  BY DEF NewestShown, Shown
<1>6. OneRequest => OneRequest'
  BY <1>1, <1>2, <1>3 DEF OneRequest, Shown
<1> QED
  BY <1>4, <1>5, <1>6 DEF PageInv, Open

\* One more job, which the open dialog has nothing to do with.
LEMMA OtherJob ==
    ASSUME PageInv, NEW job, jobs' = Append(jobs, job), ~Mine(job),
           job.kind \in {"next", "answer"} =>
                job.dlg \in Nat /\ 1 <= job.dlg /\ job.dlg <= logs,
           UNCHANGED <<history, newer, dlg, logs, entries, next, more, lost, undefined>>,
           DoingMine' <=> DoingMine,
           doing'.kind = "next" => doing' = doing
    PROVE  PageInv'
<1>1. /\ Sequence(jobs') /\ Len(jobs) \in Nat /\ Len(jobs') = Len(jobs) + 1
      /\ \A i \in 1 .. Len(jobs) : jobs'[i] = jobs[i]
      /\ jobs'[Len(jobs) + 1] = job
  BY SequenceAppend DEF PageInv, JobInv
<1>2. Log(history, next)' = Log(history, next)
  BY DEF Log
<1>3. \A x : Mine(x)' <=> Mine(x)
  BY DEF Mine
<1>4. \A i \in 1 .. Len(jobs') : i \in 1 .. Len(jobs) \/ i = Len(jobs) + 1
  BY <1>1
<1>5. JobInv'
  BY <1>1, <1>4, CommittedStays DEF PageInv, JobInv
<1>6. NewestShown => NewestShown'
  BY DEF NewestShown, Shown
<1>7. ASSUME NEW i \in 1 .. Len(jobs'), Mine(jobs'[i]) PROVE i \in 1 .. Len(jobs) /\ jobs'[i] = jobs[i]
  BY <1>1, <1>4, <1>7
<1>8. ASSUME NEW i \in 1 .. Len(jobs), Mine(jobs[i]) PROVE i \in 1 .. Len(jobs') /\ Mine(jobs'[i])
  BY <1>1, <1>8
<1>9. ASSUME OneRequest PROVE OneRequest'
  <2>1. doing'.kind = "next" /\ doing'.dlg = dlg => doing.start = doing'.start
    OBVIOUS
  <2>2. DoingMine' => Shown < Cardinality(history) /\ ~more /\ doing'.start = next
    BY <1>9, <2>1 DEF OneRequest, DoingMine
  <2>3. ~lost => more \/ ~(Shown < Cardinality(history)) \/ DoingMine'
                   \/ \E i \in 1 .. Len(jobs') : Mine(jobs'[i])
    BY <1>8, <1>9 DEF OneRequest
  <2>4. ASSUME NEW i \in 1 .. Len(jobs'), Mine(jobs'[i])
        PROVE  /\ Shown < Cardinality(history) /\ ~more /\ ~DoingMine
               /\ \A j \in 1 .. Len(jobs') : Mine(jobs'[j]) => j = i
               /\ jobs'[i].kind = "next" => jobs'[i].start = next
               /\ jobs'[i].kind = "answer" => jobs'[i].page = Log(history, next)
    <3>1. i \in 1 .. Len(jobs) /\ jobs'[i] = jobs[i] /\ Mine(jobs[i])
      BY <1>7, <2>4
    <3>2. \A j \in 1 .. Len(jobs') : Mine(jobs'[j]) => j \in 1 .. Len(jobs) /\ Mine(jobs[j])
      BY <1>7
    <3> QED
      BY <1>9, <3>1, <3>2 DEF OneRequest
  <2>5. Shown' = Shown
    BY DEF Shown
  <2> QED
    BY <1>2, <1>3, <1>9, <2>2, <2>3, <2>4, <2>5 DEF OneRequest
<1> QED
  BY <1>5, <1>6, <1>9 DEF PageInv, Open

\* One more job, the only one of the open dialog that is under way.
LEMMA MyJob ==
    ASSUME PageInv, Open, NEW job, jobs' = Append(jobs, job), Mine(job), dlg # 0,
           UNCHANGED <<history, newer, dlg, logs, entries, next, undefined>>,
           more' = FALSE, Shown < Cardinality(history), ~DoingMine',
           \A i \in 1 .. Len(jobs) : ~Mine(jobs[i]),
           doing'.kind = "next" => doing' = doing,
           job.kind = "next" => job.start = next,
           job.kind = "answer" => job.page = Log(history, next)
    PROVE  PageInv'
<1>1. /\ Sequence(jobs') /\ Len(jobs) \in Nat /\ Len(jobs') = Len(jobs) + 1
      /\ \A i \in 1 .. Len(jobs) : jobs'[i] = jobs[i]
      /\ jobs'[Len(jobs) + 1] = job
  BY SequenceAppend DEF PageInv, JobInv
<1>2. Log(history, next)' = Log(history, next)
  BY DEF Log
<1>3. \A x : Mine(x)' <=> Mine(x)
  BY DEF Mine
<1>4. \A i \in 1 .. Len(jobs') : i \in 1 .. Len(jobs) \/ i = Len(jobs) + 1
  BY <1>1
<1>5. job.dlg = dlg /\ dlg \in Nat /\ dlg >= 1 /\ dlg <= logs
  BY DEF PageInv, JobInv, Mine
<1>6. JobInv'
  BY <1>1, <1>4, <1>5, CommittedStays DEF PageInv, JobInv
<1>7. NewestShown'
  BY DEF PageInv, NewestShown, Shown
<1>8. \A i \in 1 .. Len(jobs') : Mine(jobs'[i]) => i = Len(jobs) + 1 /\ jobs'[i] = job
  BY <1>1, <1>4
<1>9. Len(jobs) + 1 \in 1 .. Len(jobs') /\ Mine(jobs'[Len(jobs) + 1])
  BY <1>1
<1>10. Shown' = Shown
  BY DEF Shown
<1>11. OneRequest'
  BY <1>2, <1>3, <1>8, <1>9, <1>10 DEF OneRequest
<1> QED
  BY <1>6, <1>7, <1>11 DEF PageInv

LEMMA PageInvAppends ==
    ASSUME PageInv, OnMore \/ OnDiff \/ Answer
    PROVE  PageInv'
<1>1. CASE OnMore
  <2> DEFINE job == [kind |-> "next", start |-> next, dlg |-> dlg]
  <2>1. /\ Open /\ more /\ jobs' = Append(jobs, job) /\ more' = FALSE
        /\ UNCHANGED <<history, newer, dlg, logs, entries, next, doing, undefined>>
    BY <1>1 DEF OnMore
  <2>2. Mine(job) /\ job.kind = "next" /\ job.start = next
    BY DEF Mine
  <2>3. /\ Shown < Cardinality(history) /\ ~DoingMine
        /\ \A i \in 1 .. Len(jobs) : ~Mine(jobs[i])
    BY <2>1 DEF PageInv, OneRequest
  <2>4. ~DoingMine' /\ dlg # 0
    BY <2>1, <2>3 DEF DoingMine, Open
  <2> HIDE DEF job
  <2> QED
    BY <2>1, <2>2, <2>3, <2>4, MyJob
<1>2. CASE OnDiff
  <2>1. PICK pair : jobs' = Append(jobs, [kind |-> "diff", with |-> pair])
    BY <1>2 DEF OnDiff
  <2> DEFINE job == [kind |-> "diff", with |-> pair]
  <2>2. UNCHANGED <<history, newer, dlg, logs, entries, next, more, lost, undefined, doing>>
    BY <1>2 DEF OnDiff
  <2>3. job.kind = "diff" /\ ~Mine(job)
    BY DEF Mine
  <2>4. jobs' = Append(jobs, job)
    BY <2>1
  <2>5. DoingMine' <=> DoingMine
    BY <2>2 DEF DoingMine
  <2> HIDE DEF job
  <2> QED
    BY <2>2, <2>3, <2>4, <2>5, OtherJob
<1>3. CASE Answer
  <2> DEFINE job == [kind |-> "answer", page |-> Log(history \cup newer, doing.start), dlg |-> doing.dlg]
  <2>1. /\ doing.kind = "next" /\ jobs' = Append(jobs, job) /\ doing' = [kind |-> "other"]
        /\ UNCHANGED <<history, newer, dlg, logs, entries, next, more, lost, undefined>>
    BY <1>3 DEF Answer
  <2>2. job.kind = "answer" /\ job.dlg = doing.dlg /\ job.page = Log(history \cup newer, doing.start)
    OBVIOUS
  <2>3. doing.dlg \in Nat /\ 1 <= doing.dlg /\ doing.dlg <= logs
    BY <2>1 DEF PageInv, JobInv
  <2>4. doing'.kind = "other" /\ ~DoingMine'
    BY <2>1 DEF DoingMine
  <2> HIDE DEF job
  <2>5. CASE DoingMine /\ Open
    <3>1. Shown < Cardinality(history) /\ ~more /\ doing.start = next
      BY <2>5 DEF PageInv, OneRequest
    <3>5. Log(history \cup newer, next) = Log(history, next)
      <4>1. NewestShown /\ Committed
        BY <2>5 DEF PageInv, JobInv
      <4>2. Revs(history) /\ Cardinality(history) \in Nat
        BY <4>1, HistoryFacts
      <4>3. next = Descending(history)[Shown + 1] /\ Shown \in Nat
        BY <3>1, <4>1 DEF NewestShown, Shown
      <4>4. Shown + 1 \in 1 .. Cardinality(history)
        BY <3>1, <4>2, <4>3
      <4>5. \A n \in 1 .. Cardinality(history) : Descending(history)[n] \in history
        BY <4>2, DescendingFacts
      <4>6. next \in history
        BY <4>3, <4>4, <4>5
      <4> QED
        BY <4>1, <4>6, NewerAreAbove
    <3>2. \A i \in 1 .. Len(jobs) : ~Mine(jobs[i])
      BY <2>5 DEF PageInv, OneRequest
    <3>3. more' = FALSE
      BY <2>1, <2>5, <3>1 DEF PageInv, NewestShown
    <3>4. Mine(job) /\ job.page = Log(history, next) /\ dlg # 0
      BY <2>2, <2>5, <3>1, <3>5 DEF Mine, DoingMine, Open
    <3> QED
      BY <2>1, <2>2, <2>4, <2>5, <3>1, <3>2, <3>3, <3>4, MyJob
  <2>6. CASE ~DoingMine
    <3>1. ~Mine(job)
      BY <2>1, <2>2, <2>6 DEF Mine, DoingMine
    <3> QED
      BY <2>1, <2>2, <2>3, <2>4, <2>6, <3>1, OtherJob
  <2>7. CASE ~Open
    <3>1. ~Open'
      BY <2>1, <2>7 DEF Open
    <3>2. /\ Sequence(jobs') /\ Len(jobs) \in Nat /\ Len(jobs') = Len(jobs) + 1
          /\ \A i \in 1 .. Len(jobs) : jobs'[i] = jobs[i]
          /\ jobs'[Len(jobs) + 1] = job
      BY <2>1, SequenceAppend DEF PageInv, JobInv
    <3>3. \A i \in 1 .. Len(jobs') : i \in 1 .. Len(jobs) \/ i = Len(jobs) + 1
      BY <3>2
    <3>4. JobInv'
      BY <2>1, <2>2, <2>3, <2>4, <3>2, <3>3, CommittedStays DEF PageInv, JobInv
    <3> QED
      BY <3>1, <3>4 DEF PageInv
  <2> QED
    BY <2>5, <2>6, <2>7
<1> QED
  BY <1>1, <1>2, <1>3

\* A page is put below those that are shown.
LEMMA AddPage ==
    ASSUME JobInv, NewestShown, Shown < Cardinality(history),
           NEW page, page = Log(history, next),
           entries' = entries \o Kept(page), next' = NextOf(page), more' = HasMore(page),
           history' = history
    PROVE  /\ NewestShown'
           /\ more' <=> Shown' < Cardinality(history)
<1> DEFINE N == Cardinality(history)
           d == Descending(history)
           k == Shown + 1
           kept == Kept(page)
           n == Len(kept)
<1>1. Revs(history) /\ N \in Nat
  BY HistoryFacts DEF JobInv
<1>2. entries \in Seq(history) /\ Shown = Len(entries) /\ Shown \in Nat /\ 1 <= Shown
      /\ \A i \in 1 .. Shown : entries[i] = d[i]
  BY DEF NewestShown, Shown
<1>3. k \in 1 .. N /\ page = Log(history, d[k])
  BY <1>1, <1>2 DEF NewestShown
<1>4. /\ kept \in Seq(history)
      /\ n \in 1 .. N - k + 1
      /\ \A i \in 1 .. n : kept[i] = d[i + k - 1]
      /\ NextOf(page) = IF k - 1 + n < N THEN d[(k - 1 + n) + 1] ELSE INVALID
      /\ HasMore(page) <=> k - 1 + n < N
  <2> HIDE DEF k
  <2> QED
    BY <1>1, <1>3, PageFacts
<1> HIDE DEF N, d, kept, n
<1>5. k - 1 = Shown /\ k - 1 + n = Shown + n /\ n \in Nat /\ n >= 1 /\ Shown + n <= N
  BY <1>1, <1>2, <1>3, <1>4
<1>6. /\ entries' \in Seq(history) /\ Len(entries') = Shown + n
      /\ \A i \in 1 .. Shown + n : entries'[i] = IF i <= Shown THEN entries[i] ELSE kept[i - Shown]
  <2>1. /\ entries \o kept \in Seq(history)
        /\ Len(entries \o kept) = Len(entries) + Len(kept)
        /\ \A i \in 1 .. Len(entries) + Len(kept) : (entries \o kept)[i] =
              IF i <= Len(entries) THEN entries[i] ELSE kept[i - Len(entries)]
    BY <1>2, <1>4, ConcatProperties
  <2> QED
    BY <1>2, <2>1 DEF kept, n
<1>7. ASSUME NEW i \in 1 .. Shown + n PROVE entries'[i] = d[i]
  <2>1. CASE i <= Shown
    BY <1>2, <1>5, <1>6, <2>1
  <2>2. CASE i > Shown
    <3>1. i - Shown \in 1 .. n /\ (i - Shown) + k - 1 = i
      BY <1>2, <1>5, <2>2
    <3>2. entries'[i] = kept[i - Shown]
      BY <1>2, <1>5, <1>6, <2>2
    <3> QED
      BY <1>4, <3>1, <3>2
  <2>3. i \in Int /\ Shown \in Int
    BY <1>2, <1>5
  <2>4. i <= Shown \/ i > Shown
    BY <2>3
  <2> QED
    BY <2>1, <2>2, <2>4
<1>8. Shown' = Shown + n
  BY <1>6 DEF Shown
<1>9. next' = IF Shown + n < N THEN d[(Shown + n) + 1] ELSE INVALID
  BY <1>4, <1>5
<1>10. (more' <=> Shown + n < N) /\ more' \in BOOLEAN
  <2>1. more' \in BOOLEAN
    BY DEF HasMore
  <2> QED
    BY <1>4, <1>5, <2>1
<1>11. d = Descending(history) /\ N = Cardinality(history)
  BY DEF d, N
<1> HIDE DEF k
<1>12. Shown + n \in Nat /\ 1 <= Shown + n
  BY <1>2, <1>5
<1> DEFINE m == Shown + n
<1>13. /\ entries' \in Seq(history) /\ 1 <= m /\ m <= N /\ Shown' = m
       /\ \A i \in 1 .. m : entries'[i] = d[i]
       /\ next' = IF m < N THEN d[m + 1] ELSE INVALID
       /\ more' \in BOOLEAN /\ (more' <=> m < N)
  BY <1>5, <1>6, <1>7, <1>8, <1>9, <1>10, <1>12
<1> HIDE DEF m
<1> QED
  BY <1>11, <1>13 DEF NewestShown

LEMMA PageInvDispatch ==
    ASSUME PageInv, Dispatch
    PROVE  PageInv'
<1> DEFINE h == Head(jobs)
<1>1. /\ jobs # << >> /\ ~undefined /\ jobs' = Tail(jobs)
      /\ UNCHANGED <<history, newer, dlg, logs>>
  BY DEF Dispatch
<1>2. /\ Sequence(jobs') /\ Len(jobs) \in Nat /\ Len(jobs) >= 1
      /\ Len(jobs') = Len(jobs) - 1
      /\ \A i \in 1 .. Len(jobs') : jobs'[i] = jobs[i + 1]
      /\ h = jobs[1]
  BY <1>1, SequenceTail DEF PageInv, JobInv
<1> HIDE DEF h
<1>3. 1 \in 1 .. Len(jobs) /\ \A i \in 1 .. Len(jobs') : i + 1 \in 1 .. Len(jobs) /\ i + 1 # 1
  BY <1>2
<1>4. \A i \in 1 .. Len(jobs) : i = 1 \/ (i - 1 \in 1 .. Len(jobs') /\ (i - 1) + 1 = i)
  BY <1>2
<1>5. \A x : Mine(x)' <=> Mine(x)
  BY <1>1 DEF Mine
<1>6. ASSUME doing' = doing \/ doing' = h PROVE JobInv'
  <2>1. doing'.kind = "next" => doing'.dlg \in Nat /\ 1 <= doing'.dlg /\ doing'.dlg <= logs
    BY <1>2, <1>3, <1>6 DEF PageInv, JobInv
  <2> QED
    BY <1>1, <1>2, <1>3, <2>1, CommittedStays DEF PageInv, JobInv
<1>7. \A i \in 1 .. Len(jobs') : Mine(jobs'[i]) => Mine(jobs[i + 1])
  BY <1>2
<1>8. ASSUME Mine(h), Open PROVE \A i \in 1 .. Len(jobs') : ~Mine(jobs'[i])
  BY <1>2, <1>3, <1>7, <1>8 DEF PageInv, OneRequest
<1>9. CASE h.kind = "answer"
  <2>1. NextLogEntriesCallback(h) /\ UNCHANGED <<doing, lost>>
    BY <1>9 DEF Dispatch, h
  <2>2. JobInv'
    BY <1>6, <2>1
  <2>3. CASE h.dlg # dlg
    BY <2>1, <2>2, <2>3 DEF NextLogEntriesCallback, PageInv, Open
  <2>4. CASE h.dlg = dlg
    <3>1. Mine(h)
      BY <1>9, <2>4 DEF Mine
    <3>2. Open
      BY <1>1, <1>2, <1>3, <1>9, <2>4 DEF PageInv, JobInv, Open
    <3>3. /\ NewestShown /\ OneRequest /\ JobInv
          /\ Shown < Cardinality(history) /\ ~more /\ ~DoingMine /\ h.page = Log(history, next)
      BY <1>2, <1>3, <1>9, <3>1, <3>2 DEF PageInv, OneRequest
    <3>4. /\ entries' = entries \o Kept(h.page) /\ next' = NextOf(h.page) /\ more' = HasMore(h.page)
          /\ UNCHANGED undefined
      BY <2>1, <2>4 DEF NextLogEntriesCallback
    <3>5. NewestShown' /\ (more' <=> Shown' < Cardinality(history))
      BY <1>1, <3>3, <3>4, AddPage
    <3>6. ~DoingMine' /\ \A i \in 1 .. Len(jobs') : ~Mine(jobs'[i])
      BY <1>1, <1>8, <2>1, <3>1, <3>2, <3>3 DEF DoingMine
    <3>7. OneRequest'
      BY <1>1, <1>5, <3>5, <3>6 DEF OneRequest
    <3> QED
      BY <2>2, <3>5, <3>7 DEF PageInv
  <2> QED
    BY <2>3, <2>4
<1>10. CASE h.kind # "answer"
  <2>1. /\ Accept(h)
        /\ UNCHANGED <<entries, next, more, undefined>>
    BY <1>10 DEF Dispatch, Accept, h
  <2>2. JobInv'
    BY <1>6, <2>1 DEF Accept
  <2>3. Log(history, next)' = Log(history, next)
    BY <1>1, <2>1 DEF Log
  <2>4. Shown' = Shown /\ (NewestShown => NewestShown')
    BY <1>1, <2>1 DEF NewestShown, Shown
  <2>5. Mine(h) => h.kind = "next" /\ h.dlg = dlg
    BY <1>10 DEF Mine
  <2>6. SUFFICES ASSUME Open, NewestShown, OneRequest PROVE OneRequest'
    BY <1>1, <2>1, <2>2, <2>4 DEF PageInv, Open
  <2>7. CASE Mine(h)
    <3>1. /\ Shown < Cardinality(history) /\ ~more /\ ~DoingMine /\ h.start = next
          /\ h.kind = "next" /\ h.dlg = dlg
      BY <1>2, <1>3, <2>5, <2>6, <2>7 DEF OneRequest
    <3>2. \A i \in 1 .. Len(jobs') : ~Mine(jobs'[i])
      BY <1>8, <2>6, <2>7
    <3>3. (doing' = h) \/ (doing' = doing /\ lost')
      BY <2>1, <3>1 DEF Accept
    <3>4. DoingMine' => doing'.start = next
      BY <1>1, <3>1, <3>3 DEF DoingMine
    <3>5. ~lost' => DoingMine'
      BY <1>1, <3>1, <3>3 DEF DoingMine
    <3> QED
      BY <1>1, <1>5, <2>1, <2>4, <3>1, <3>2, <3>4, <3>5 DEF OneRequest
  <2>8. CASE ~Mine(h)
    <3>1. DoingMine' <=> DoingMine
      <4>1. CASE doing = Idle
        <5>1. doing' = h /\ ~DoingMine
          BY <2>1, <4>1 DEF Accept, DoingMine, Idle
        <5> QED
          BY <1>1, <2>8, <5>1 DEF DoingMine, Mine
      <4>2. CASE doing # Idle
        BY <1>1, <2>1, <4>2 DEF Accept, DoingMine
      <4> QED
        BY <4>1, <4>2
    <3>2. DoingMine' => doing' = doing
      <4>1. doing = Idle => ~DoingMine
        BY DEF DoingMine, Idle
      <4> QED
        BY <2>1, <3>1, <4>1 DEF Accept
    <3>3. lost' <=> lost
      BY <2>1, <2>8 DEF Accept, Mine
    <3>4. ASSUME NEW i \in 1 .. Len(jobs), Mine(jobs[i]) PROVE \E j \in 1 .. Len(jobs') : Mine(jobs'[j])
      <4>1. i # 1
        BY <1>2, <2>8, <3>4
      <4>2. i - 1 \in 1 .. Len(jobs') /\ (i - 1) + 1 = i
        BY <1>4, <4>1
      <4> QED
        BY <1>2, <3>4, <4>2
    <3>5. ASSUME NEW i \in 1 .. Len(jobs'), Mine(jobs'[i])
          PROVE  /\ Shown < Cardinality(history) /\ ~more /\ ~DoingMine
                 /\ \A j \in 1 .. Len(jobs') : Mine(jobs'[j]) => j = i
                 /\ jobs'[i].kind = "next" => jobs'[i].start = next
                 /\ jobs'[i].kind = "answer" => jobs'[i].page = Log(history, next)
      <4>1. i + 1 \in 1 .. Len(jobs) /\ Mine(jobs[i + 1]) /\ jobs'[i] = jobs[i + 1]
        BY <1>2, <1>3, <3>5
      <4>2. \A j \in 1 .. Len(jobs') : Mine(jobs'[j]) => j + 1 = i + 1
        BY <1>3, <1>7, <2>6, <4>1 DEF OneRequest
      <4>3. \A j \in 1 .. Len(jobs') : j + 1 = i + 1 => j = i
        OBVIOUS
      <4> QED
        BY <2>6, <4>1, <4>2, <4>3 DEF OneRequest
    <3>6. DoingMine' => Shown < Cardinality(history) /\ ~more /\ doing'.start = next
      BY <2>6, <3>1, <3>2 DEF OneRequest
    <3>7. ~lost => more \/ ~(Shown < Cardinality(history)) \/ DoingMine'
                     \/ \E i \in 1 .. Len(jobs') : Mine(jobs'[i])
      BY <2>6, <3>1, <3>4 DEF OneRequest
    <3> QED
      BY <1>1, <1>5, <2>1, <2>3, <2>4, <2>6, <3>1, <3>3, <3>5, <3>6, <3>7 DEF OneRequest
  <2> QED
    BY <2>7, <2>8
<1> QED
  BY <1>9, <1>10

LEMMA PageInvOpens ==
    ASSUME PageInv, OpenLog
    PROVE  PageInv'
<1> DEFINE N == Cardinality(history')
           d == Descending(history')
           page == Log(history', Max(history'))
           kept == Kept(page)
           n == Len(kept)
<1>1. /\ entries' = kept /\ next' = NextOf(page) /\ more' = HasMore(page)
      /\ dlg = 0 /\ dlg' = logs + 1 /\ logs' = logs + 1
      /\ doing' = [kind |-> "other"] /\ lost' = FALSE
      /\ UNCHANGED <<jobs, undefined>>
  BY DEF OpenLog
<1>14. Committed'
  <2>1. history' = history \cup newer /\ newer' = {}
    BY DEF OpenLog
  <2>2. /\ IsFiniteSet(history) /\ IsFiniteSet(newer) /\ history # {}
        /\ history \subseteq Nat /\ newer \subseteq Nat
    BY DEF PageInv, JobInv, Committed, Revs
  <2>3. IsFiniteSet(history \cup newer) /\ IsFiniteSet({})
    BY <2>2, FS_Union, FS_EmptySet
  <2>4. Revs(history \cup newer) /\ Revs({}) /\ history \cup newer # {}
    BY <2>2, <2>3 DEF Revs
  <2> QED
    BY <2>1, <2>4 DEF Committed
<1>2. Revs(history') /\ N \in Nat /\ N >= 1 /\ page = Log(history', d[1])
  <2>1. Revs(history') /\ history' # {}
    BY <1>14 DEF Committed
  <2> QED
    BY <2>1, FirstIsNewest
<1>3. /\ kept \in Seq(history')
      /\ n \in 1 .. N - 1 + 1
      /\ \A i \in 1 .. n : kept[i] = d[i + 1 - 1]
      /\ NextOf(page) = IF 1 - 1 + n < N THEN d[(1 - 1 + n) + 1] ELSE INVALID
      /\ HasMore(page) <=> 1 - 1 + n < N
  <2>1. 1 \in 1 .. N
    BY <1>2
  <2> QED
    BY <1>2, <2>1, PageFacts
<1>0. d = Descending(history') /\ N = Cardinality(history') /\ n = Len(kept)
  OBVIOUS
<1> HIDE DEF N, d, kept, n
<1>4. 1 - 1 + n = n /\ n \in Nat /\ 1 <= n /\ n <= N /\ \A i \in 1 .. n : i + 1 - 1 = i
  BY <1>2, <1>3
<1>5. Shown' = n
  BY <1>0, <1>1 DEF Shown
<1>6. more' \in BOOLEAN /\ (more' <=> n < N)
  <2>1. more' \in BOOLEAN
    BY <1>1 DEF HasMore
  <2> QED
    BY <1>1, <1>3, <1>4, <2>1
<1>7. NewestShown'
  BY <1>0, <1>1, <1>3, <1>4, <1>5, <1>6 DEF NewestShown
<1>8. ~DoingMine' /\ doing'.kind = "other"
  BY <1>1 DEF DoingMine
<1>9. \A i \in 1 .. Len(jobs) : ~(jobs[i].kind \in {"next", "answer"} /\ jobs[i].dlg = logs + 1)
  BY DEF PageInv, JobInv
<1>10. \A i \in 1 .. Len(jobs') : ~Mine(jobs[i])'
  BY <1>1, <1>9 DEF Mine
<1>11. OneRequest'
  BY <1>0, <1>1, <1>5, <1>6, <1>8, <1>10 DEF OneRequest
<1>12. JobInv'
  BY <1>1, <1>8, <1>14 DEF PageInv, JobInv
<1> QED
  BY <1>7, <1>11, <1>12 DEF PageInv

LEMMA PageInvWorker ==
    ASSUME PageInv, Fail \/ Done
    PROVE  PageInv'
<1>1. /\ UNCHANGED <<history, newer, dlg, logs, entries, next, more, jobs, undefined>>
      /\ doing'.kind \in {"other", "idle"}
      /\ (lost' <=> lost \/ DoingMine)
  <2>1. CASE Fail
    <3>1. doing.kind = "next" /\ lost' = (lost \/ doing.dlg = dlg) /\ doing' = [kind |-> "other"]
      BY <2>1 DEF Fail
    <3>2. UNCHANGED <<history, newer, dlg, logs, entries, next, more, jobs, undefined>>
      BY <2>1 DEF Fail
    <3> QED
      BY <3>1, <3>2 DEF DoingMine
  <2>2. CASE Done
    <3>1. doing.kind # "next" /\ lost' = lost /\ doing' = [kind |-> "idle"]
      BY <2>2 DEF Done, Idle
    <3>2. UNCHANGED <<history, newer, dlg, logs, entries, next, more, jobs, undefined>>
      BY <2>2 DEF Done
    <3> QED
      BY <3>1, <3>2 DEF DoingMine
  <2> QED
    BY <2>1, <2>2
<1>2. ~DoingMine' /\ \A x : Mine(x)' <=> Mine(x)
  BY <1>1 DEF DoingMine, Mine
<1>3. Log(history, next)' = Log(history, next)
  BY <1>1 DEF Log
<1>4. JobInv'
  BY <1>1, CommittedStays DEF PageInv, JobInv
<1>5. NewestShown => NewestShown'
  BY <1>1 DEF NewestShown, Shown
<1>6. OneRequest => OneRequest'
  BY <1>1, <1>2, <1>3 DEF OneRequest, Shown
<1> QED
  BY <1>1, <1>4, <1>5, <1>6 DEF PageInv, Open

LEMMA PageInvStep == PageInv /\ [LogNext]_logVars => PageInv'
<1> SUFFICES ASSUME PageInv, [LogNext]_logVars PROVE PageInv'
  OBVIOUS
<1>1. CASE OpenLog
  BY <1>1, PageInvOpens
<1>2. CASE Close
  <2>1. UNCHANGED <<history, newer, logs, jobs, doing, undefined>> /\ dlg' = 0
    BY <1>2 DEF Close
  <2> QED
    BY <2>1, CommittedStays DEF PageInv, JobInv, Open
<1>3. CASE OnMore \/ OnDiff \/ Answer
  BY <1>3, PageInvAppends
<1>0. Committed
  BY DEF PageInv, JobInv
<1>4. CASE OnColClick
  BY <1>0, <1>4, PagesStay, CommittedStays DEF OnColClick
<1>5. ASSUME NEW row \in DOMAIN rows, Click(row) \/ CtrlClick(row) PROVE PageInv'
  BY <1>0, <1>5, PagesStay, CommittedStays DEF Click, CtrlClick
<1>6. CASE Dispatch
  BY <1>6, PageInvDispatch
<1>7. CASE Fail \/ Done
  BY <1>7, PageInvWorker
<1>8. ASSUME NEW r \in DOMAIN Touches, OthersCommit(r) PROVE PageInv'
  <2>1. /\ newer' = newer \cup {r} /\ r \in Nat /\ \A q \in history \cup newer : q < r
        /\ UNCHANGED <<history, dlg, logs, entries, next, more, jobs, doing, lost, undefined>>
    BY <1>8, LogAssumption DEF OthersCommit
  <2>2. IsFiniteSet(newer \cup {r}) /\ newer \cup {r} \subseteq Nat
    BY <1>0, <2>1, FS_AddElement DEF Committed, Revs
  <2>3. Committed'
    BY <1>0, <2>1, <2>2 DEF Committed, Revs
  <2> QED
    BY <2>1, <2>3, PagesStay
<1>9. CASE UNCHANGED logVars
  BY <1>0, <1>9, PagesStay, CommittedStays DEF logVars
<1> QED
  BY <1>1, <1>2, <1>3, <1>4, <1>5, <1>6, <1>7, <1>8, <1>9 DEF LogNext

\* LogDlg::AddLogEntries: the pages put together are the newest part of the
\* history, without gap or repetition.
THEOREM PagesAreContiguous == LogSpec => []PagesContiguous
<1>1. PageInv => PagesContiguous
  <2> SUFFICES ASSUME PageInv, Open PROVE IsPrefix(entries, Descending(history))
    BY DEF PagesContiguous
  <2> DEFINE d == Descending(history)
             e == Len(entries)
  <2>1. Revs(history)
    BY HistoryFacts DEF PageInv, JobInv
  <2>2. d \in Seq(history) /\ Len(d) = Cardinality(history) /\ Cardinality(history) \in Nat
    BY <2>1, DescendingFacts
  <2>3. /\ entries \in Seq(history) /\ 1 <= e /\ e <= Len(d) /\ e \in Nat
        /\ \A i \in 1 .. e : entries[i] = d[i]
    BY <2>2 DEF PageInv, NewestShown, Shown
  <2> HIDE DEF d, e
  <2>4. \A i \in 1 .. e : entries[i] \in history /\ d[i] \in history
    BY <2>2, <2>3 DEF e
  <2>5. /\ SubSeq(entries, 1, e) \in Seq(history)
        /\ Len(SubSeq(entries, 1, e)) = IF 1 <= e THEN e - 1 + 1 ELSE 0
        /\ \A i \in 1 .. e - 1 + 1 : SubSeq(entries, 1, e)[i] = entries[1 + i - 1]
    BY <2>3, <2>4, SubSeqProperties
  <2>6. /\ SubSeq(d, 1, e) \in Seq(history)
        /\ Len(SubSeq(d, 1, e)) = IF 1 <= e THEN e - 1 + 1 ELSE 0
        /\ \A i \in 1 .. e - 1 + 1 : SubSeq(d, 1, e)[i] = d[1 + i - 1]
    BY <2>3, <2>4, SubSeqProperties
  <2> DEFINE a == SubSeq(entries, 1, e)
             b == SubSeq(d, 1, e)
  <2>7. e - 1 + 1 = e /\ \A i \in 1 .. e : 1 + i - 1 = i
    BY <2>3
  <2>8. /\ a \in Seq(history) /\ b \in Seq(history) /\ Len(a) = e /\ Len(b) = e
        /\ \A i \in 1 .. e : a[i] = b[i]
    BY <2>3, <2>5, <2>6, <2>7
  <2> HIDE DEF a, b
  <2>9. a = b
    BY <2>3, <2>8
  <2> QED
    BY <2>3, <2>9 DEF IsPrefix, a, b, d, e
<1> QED
  BY <1>1, PageInvInit, PageInvStep, PTL DEF LogSpec

\* LogDlg::OnMore, NextLogEntriesCallback: More is offered exactly as long as
\* there are entries to come, unless a request was refused or failed.
THEOREM MoreIsRight == LogSpec => []MoreIfEntriesRemain
<1>1. PageInv => MoreIfEntriesRemain
  <2> SUFFICES ASSUME PageInv, Open, ~Outstanding, ~lost
               PROVE  more <=> Len(entries) < Cardinality(history)
    BY DEF MoreIfEntriesRemain
  <2>1. DOMAIN jobs = 1 .. Len(jobs)
    BY DEF PageInv, JobInv, Sequence
  <2>2. ~DoingMine /\ \A i \in 1 .. Len(jobs) : ~Mine(jobs[i])
    BY <2>1 DEF Outstanding, DoingMine, Mine
  <2>3. OneRequest
    BY DEF PageInv
  <2> QED
    BY <2>2, <2>3 DEF OneRequest, Shown
<1> QED
  BY <1>1, PageInvInit, PageInvStep, PTL DEF LogSpec

-----------------------------------------------------------------------------
(* The selection                                                           *)

\* Rows that are selected at once: at most two, and one more while the event
\* of a click is handled.
Few(S, n) == Revs(S) /\ NoRow \notin S /\ Cardinality(S) <= n

\* GetNextSelected finds a selected row further down, if there is one.
LEMMA FollowingFacts ==
    ASSUME NEW S \in SUBSET Nat, NoRow \notin S, NEW r \in Nat
    PROVE  \/ Following(S, r) = NoRow /\ \A x \in S : x <= r
           \/ Following(S, r) \in S /\ Following(S, r) > r
<1> DEFINE later == {x \in S : x > r}
<1>1. Following(S, r) = IF later = {} THEN NoRow ELSE Min(later)
  BY DEF Following
<1>2. later \in SUBSET Nat /\ \A x \in S : x \in Nat
  OBVIOUS
<1>3. CASE later = {}
  BY <1>1, <1>2, <1>3
<1>4. CASE later # {}
  <2>1. Min(later) \in later
    <3> HIDE DEF later
    <3> QED
      BY <1>2, <1>4, MinIsSmallest
  <2> QED
    BY <1>1, <1>4, <2>1
<1> QED
  BY <1>3, <1>4

\* Of three rows and fewer the handler of a deselection leaves the others alone.
LEMMA DeselectIs ==
    ASSUME NEW all, Few(all, 3), NEW sel \in SUBSET all, NEW rest, NEW row
    PROVE  Deselect(rest, sel, row) = sel \ {row}
<1>1. CASE row \notin sel
  BY <1>1 DEF Deselect
<1>2. CASE row \in sel
  <2>1. IsFiniteSet(sel) /\ Cardinality(sel) \in Nat /\ Cardinality(sel) <= Cardinality(all)
        /\ Cardinality(all) \in Nat
    BY FS_Subset, FS_CardinalityType DEF Few, Revs
  <2>2. Cardinality(sel \ {row}) = Cardinality(sel) - 1
    BY <1>2, <2>1, FS_RemoveElement
  <2>3. Cardinality(sel \ {row}) <= 2
    BY <2>1, <2>2 DEF Few
  <2> QED
    BY <1>2, <2>3 DEF Deselect, Reduced
<1> QED
  BY <1>1, <1>2

Loops(all) == [sel : SUBSET all, previous : all, focusedWasSelected : BOOLEAN]

\* Where a turn of the loop goes on.
Onward(focus, at) ==
    At(IF at.previous = focus THEN at.sel ELSE at.sel \ {at.previous},
       Following(at.sel, at.previous), at.focusedWasSelected \/ at.previous = focus)

Ends(focus, at) ==
    /\ Following(at.sel, at.previous) = NoRow
    /\ \A rest : ReduceFrom(rest, focus, at) =
          IF at.focusedWasSelected THEN at.sel \ {at.previous} ELSE at.sel

GoesOn(all, focus, at) ==
    /\ Onward(focus, at) \in Loops(all)
    /\ Above(all, Onward(focus, at).previous) < Above(all, at.previous)
    /\ \A rest : ReduceFrom(rest, focus, at) = rest[Onward(focus, at)]

\* A turn of the loop ends it or goes on from a row further down.
LEMMA TurnFacts ==
    ASSUME NEW all, Few(all, 3), NEW focus, NEW at \in Loops(all)
    PROVE  Ends(focus, at) \/ GoesOn(all, focus, at)
<1> DEFINE current == Following(at.sel, at.previous)
           left == IF at.previous = focus THEN at.sel ELSE at.sel \ {at.previous}
           seen == at.focusedWasSelected \/ at.previous = focus
           goesOn == At(left, current, seen)
<1>1. at.sel \in SUBSET all /\ at.previous \in all /\ at.focusedWasSelected \in BOOLEAN
  BY DEF Loops
<1>2. at.sel \in SUBSET Nat /\ NoRow \notin at.sel /\ at.previous \in Nat
  BY <1>1 DEF Few, Revs
<1>3. \/ current = NoRow
      \/ current \in at.sel /\ current > at.previous
  BY <1>2, FollowingFacts
<1>4. \A rest : Deselect(rest, at.sel, at.previous) = at.sel \ {at.previous}
  BY <1>1, DeselectIs
<1>5. \A rest : ReduceFrom(rest, focus, at) =
          IF current = NoRow
          THEN IF at.focusedWasSelected THEN at.sel \ {at.previous} ELSE at.sel
          ELSE rest[goesOn]
  BY <1>4 DEF ReduceFrom
<1>6. left \in SUBSET all /\ seen \in BOOLEAN
  BY <1>1
<1>7. CASE current = NoRow
  BY <1>5, <1>7 DEF Ends
<1>8. CASE current \in at.sel /\ current > at.previous
  <2>1. current \in all /\ current # NoRow
    BY <1>1, <1>2, <1>8
  <2>2. goesOn = [sel |-> left, previous |-> current, focusedWasSelected |-> seen]
    BY DEF At
  <2> DEFINE c == current
             l == left
             s == seen
  <2>3. c \in all /\ l \in SUBSET all /\ s \in BOOLEAN
    BY <1>6, <2>1
  <2>4. goesOn = [sel |-> l, previous |-> c, focusedWasSelected |-> s]
    BY <2>2
  <2> HIDE DEF c, l, s, goesOn
  <2>5. goesOn \in Loops(all) /\ goesOn.previous = c
    BY <2>3, <2>4 DEF Loops
  <2>6. Above(all, c) < Above(all, at.previous)
    <3>1. c > at.previous
      BY <1>8 DEF c
    <3> QED
      BY <1>1, <2>3, <3>1, AboveFacts DEF Few
  <2>7. Onward(focus, at) = goesOn
    BY DEF Onward, goesOn
  <2>8. \A rest : ReduceFrom(rest, focus, at) = rest[goesOn]
    BY <1>5, <2>1 DEF goesOn
  <2> QED
    BY <2>5, <2>6, <2>7, <2>8 DEF GoesOn
<1> QED
  BY <1>3, <1>7, <1>8

LEMMA ReduceLoopExists ==
    ASSUME NEW all, Few(all, 3), NEW focus
    PROVE  \E g : g = [at \in Loops(all) |-> ReduceFrom(g, focus, at)]
<1> DEFINE N == Cardinality(all)
           height(at) == Above(all, at.previous)
           T == {n \in 0 .. N : \E g : \A at \in Loops(all) :
                    height(at) < n => g[at] = ReduceFrom(g, focus, at)}
<1>1. N \in Nat /\ \A at \in Loops(all) : height(at) \in Nat /\ height(at) < N
  <2>1. \A at \in Loops(all) : at.previous \in all
    BY DEF Loops
  <2> QED
    BY <2>1, AboveFacts DEF Few
<1>2. 0 \in T
  BY <1>1
<1>3. ASSUME NEW n \in 0 .. N - 1, n \in T PROVE n + 1 \in T
  <2>1. PICK g : \A at \in Loops(all) : height(at) < n => g[at] = ReduceFrom(g, focus, at)
    BY <1>3
  <2> DEFINE h == [at \in Loops(all) |-> IF height(at) < n THEN g[at] ELSE ReduceFrom(g, focus, at)]
  <2>2. \A at \in Loops(all) : h[at] = IF height(at) < n THEN g[at] ELSE ReduceFrom(g, focus, at)
    OBVIOUS
  <2> HIDE DEF h
  <2>3. ASSUME NEW at \in Loops(all), height(at) < n + 1 PROVE h[at] = ReduceFrom(h, focus, at)
    <3>1. h[at] = ReduceFrom(g, focus, at)
      BY <2>1, <2>2
    <3>2. ReduceFrom(h, focus, at) = ReduceFrom(g, focus, at)
      <4>1. CASE Ends(focus, at)
        BY <4>1 DEF Ends
      <4>2. CASE GoesOn(all, focus, at)
        <5> DEFINE on == Onward(focus, at)
        <5>1. on \in Loops(all) /\ height(on) < height(at)
          BY <4>2 DEF GoesOn
        <5>2. \A rest : ReduceFrom(rest, focus, at) = rest[on]
          BY <4>2 DEF GoesOn
        <5> HIDE DEF on
        <5>3. height(on) \in Nat /\ height(at) \in Nat
          BY <1>1, <5>1
        <5>4. height(on) < n
          <6>1. n \in Nat
            BY <1>1
          <6> HIDE DEF height
          <6> QED
            BY <2>3, <5>1, <5>3, <6>1
        <5>5. h[on] = g[on]
          BY <2>2, <5>1, <5>4
        <5> QED
          BY <5>2, <5>5
      <4> QED
        BY <4>1, <4>2, TurnFacts
    <3> QED
      BY <3>1, <3>2
  <2>4. n + 1 \in 0 .. N
    BY <1>1
  <2> QED
    BY <2>3, <2>4
<1>4. T = 0 .. N
  <2>1. T \in SUBSET (0 .. N)
    OBVIOUS
  <2> HIDE DEF T, N
  <2> QED
    BY <1>1, <1>2, <1>3, <2>1, Induction
<1>5. PICK g : \A at \in Loops(all) : g[at] = ReduceFrom(g, focus, at)
  <2>1. N \in T
    BY <1>1, <1>4
  <2>2. \E g : \A at \in Loops(all) : height(at) < N => g[at] = ReduceFrom(g, focus, at)
    BY <2>1
  <2> QED
    BY <1>1, <2>2
<1> DEFINE h == [at \in Loops(all) |-> g[at]]
<1>6. \A at \in Loops(all) : h[at] = g[at]
  OBVIOUS
<1>7. h = [at \in Loops(all) |-> h[at]]
  OBVIOUS
<1> HIDE DEF h
<1>8. ASSUME NEW at \in Loops(all) PROVE h[at] = ReduceFrom(h, focus, at)
  <2>1. CASE Ends(focus, at)
    BY <1>5, <1>6, <2>1 DEF Ends
  <2>2. CASE GoesOn(all, focus, at)
    BY <1>5, <1>6, <2>2 DEF GoesOn
  <2> QED
    BY <2>1, <2>2, TurnFacts
<1>9. h = [at \in Loops(all) |-> ReduceFrom(h, focus, at)]
  BY <1>7, <1>8
<1> QED
  BY <1>9

\* ReduceSelectionToOnlyTwoItems leaves at most two of the selected rows.
LEMMA ReduceFacts ==
    ASSUME NEW all, Few(all, 3), NEW focus
    PROVE  /\ Reduce(all, focus) \subseteq all
           /\ Few(Reduce(all, focus), 2)
           /\ Cardinality(all) <= 2 => Reduce(all, focus) = all
<1> DEFINE rest == CHOOSE g : g = [at \in Loops(all) |-> ReduceFrom(g, focus, at)]
<1>1. Reduce(all, focus) = Reduced(rest, all)
  BY DEF Reduce, Loops
<1>2. rest = [at \in Loops(all) |-> ReduceFrom(rest, focus, at)]
  BY ReduceLoopExists
<1> HIDE DEF rest
<1>3. \A at \in Loops(all) : rest[at] = ReduceFrom(rest, focus, at)
  BY <1>2
<1>4. IsFiniteSet(all) /\ all \in SUBSET Nat /\ NoRow \notin all
      /\ Cardinality(all) \in Nat /\ Cardinality(all) <= 3
  BY FS_CardinalityType DEF Few, Revs
<1>5. CASE Cardinality(all) <= 2
  BY <1>1, <1>4, <1>5 DEF Reduced, Few, Revs
<1>6. CASE Cardinality(all) > 2
  <2> DEFINE a == Min(all)
             b == Following(all, a)
             c == Following(all, b)
             two == IF b = focus THEN all \ {c} ELSE all \ {b}
  <2>1. all # {}
    BY <1>6, FS_EmptySet
  <2>2. a \in all /\ a \in Nat /\ \A x \in all : a <= x
    BY <1>4, <2>1, MinIsSmallest
  <2>3. b \in all /\ b > a
    <3>1. b = NoRow => all = {a}
      <4>1. b = NoRow => \A x \in all : x <= a
        BY <1>4, <2>2, FollowingFacts
      <4> HIDE DEF a, b
      <4>2. \A x \in all : x \in Nat
        BY <1>4
      <4>3. b = NoRow => \A x \in all : x = a
        BY <2>2, <4>1, <4>2
      <4> QED
        BY <2>2, <4>3
    <3>2. Cardinality({a}) = 1
      BY FS_Singleton
    <3>3. b # NoRow
      BY <1>6, <3>1, <3>2
    <3> QED
      BY <1>4, <2>2, <3>3, FollowingFacts
  <2>4. \A x \in all : x > a => b <= x
    <3> DEFINE later == {x \in all : x > a}
    <3>1. b = IF later = {} THEN NoRow ELSE Min(later)
      BY DEF Following
    <3>2. later # {} /\ later \in SUBSET Nat
      BY <1>4, <2>3
    <3>3. \A x \in later : Min(later) <= x
      <4> HIDE DEF later
      <4> QED
        BY <3>2, MinIsSmallest
    <3> QED
      BY <3>1, <3>2, <3>3
  <2> HIDE DEF a
  <2>5. c \in all /\ c > b
    <3>1. b \in Nat
      BY <1>4, <2>3
    <3>2. \/ c = NoRow /\ \A x \in all : x <= b
          \/ c \in all /\ c > b
      <4> HIDE DEF b
      <4>1. \/ Following(all, b) = NoRow /\ \A x \in all : x <= b
            \/ Following(all, b) \in all /\ Following(all, b) > b
        BY <1>4, <3>1, FollowingFacts
      <4> QED
        BY <4>1
    <3> HIDE DEF b, c
    <3>3. c = NoRow => all = {a, b}
      <4>1. \A x \in all : x \in Nat
        BY <1>4
      <4>2. c = NoRow => \A x \in all : x = a \/ x = b
        BY <1>4, <2>2, <2>3, <2>4, <3>1, <3>2, <4>1
      <4> QED
        BY <2>2, <2>3, <4>2
    <3>4. Cardinality({a, b}) <= 2
      <4>1. IsFiniteSet({a}) /\ Cardinality({a}) = 1
        BY FS_Singleton
      <4>2. {a, b} = {a} \cup {b}
        OBVIOUS
      <4>3. /\ IsFiniteSet({a} \cup {b})
            /\ \/ Cardinality({a} \cup {b}) = Cardinality({a})
               \/ Cardinality({a} \cup {b}) = Cardinality({a}) + 1
        BY <4>1, FS_AddElement
      <4>4. Cardinality({a} \cup {b}) <= 2
        BY <4>1, <4>3
      <4> QED
        BY <4>2, <4>4
    <3>5. c # NoRow
      <4> SUFFICES ASSUME c = NoRow PROVE FALSE
        OBVIOUS
      <4>1. Cardinality(all) <= 2
        BY <3>3, <3>4
      <4> HIDE DEF a
      <4> QED
        BY <1>4, <1>6, <4>1
    <3> QED
      BY <3>2, <3>5
  <2> HIDE DEF b, c
  <2>6. all = {a, b, c}
    <3> DEFINE S == {a, b, c}
    <3>1. S \in SUBSET all
      BY <2>2, <2>3, <2>5
    <3>2. Cardinality(S) = 3
      <4>1. IsFiniteSet({a}) /\ Cardinality({a}) = 1
        BY FS_Singleton
      <4>2. a \in Nat /\ b \in Nat /\ c \in Nat /\ a < b /\ b < c
        BY <1>4, <2>2, <2>3, <2>5
      <4>3. IsFiniteSet({a} \cup {b}) /\ Cardinality({a} \cup {b}) = 2
        BY <4>1, <4>2, FS_AddElement
      <4>4. c \notin {a} \cup {b} /\ S = ({a} \cup {b}) \cup {c}
        BY <4>2
      <4> QED
        BY <4>3, <4>4, FS_AddElement
    <3> HIDE DEF S
    <3>3. Cardinality(S) <= Cardinality(all) /\ (Cardinality(all) = Cardinality(S) => all = S)
      BY <1>4, <3>1, FS_Subset
    <3>4. all = S
      BY <1>4, <3>2, <3>3
    <3> QED
      BY <3>4 DEF S
  <2> DEFINE x == At(all, b, FALSE)
             left == IF b = focus THEN all ELSE all \ {b}
             seen == b = focus
             y == At(left, c, seen)
  <2>7. x \in Loops(all) /\ x.sel = all /\ x.previous = b /\ x.focusedWasSelected = FALSE
    BY <2>3 DEF At, Loops
  <2>8. y \in Loops(all) /\ y.sel = left /\ y.previous = c /\ y.focusedWasSelected = seen
    <3>1. left \in SUBSET all /\ seen \in BOOLEAN
      OBVIOUS
    <3> HIDE DEF left, seen
    <3> QED
      BY <2>5, <3>1 DEF At, Loops
  <2>9. Reduce(all, focus) = rest[x]
    <3>1. ~(Cardinality(all) <= 2)
      BY <1>4, <1>6
    <3>2. Reduced(rest, all) = rest[At(all, Following(all, Min(all)), FALSE)]
      BY <3>1 DEF Reduced
    <3> QED
      BY <1>1, <3>2 DEF a, b
  <2>10. rest[x] = rest[y]
    <3> HIDE DEF x
    <3>1. rest[x] = ReduceFrom(rest, focus, x)
      BY <1>3, <2>7
    <3>2. Following(x.sel, x.previous) = c
      BY <2>7 DEF c
    <3>3. c # NoRow
      BY <1>4, <2>5
    <3>4. Deselect(rest, all, b) = all \ {b}
      BY DeselectIs
    <3>5. (x.focusedWasSelected \/ x.previous = focus) = seen
      BY <2>7
    <3>6. ReduceFrom(rest, focus, x) = rest[At(left, c, x.focusedWasSelected \/ x.previous = focus)]
      BY <2>7, <3>2, <3>3, <3>4 DEF ReduceFrom
    <3> QED
      BY <3>1, <3>5, <3>6
  <2>11. rest[y] = IF seen THEN all \ {c} ELSE all \ {b}
    <3> HIDE DEF x, y
    <3>1. rest[y] = ReduceFrom(rest, focus, y)
      BY <1>3, <2>8
    <3>2. left \subseteq all
      OBVIOUS
    <3>3. Following(left, c) = NoRow
      <4>1. left \in SUBSET Nat /\ NoRow \notin left /\ c \in Nat
        BY <1>4, <2>5, <3>2
      <4>2. \A z \in left : z <= c
        <5>1. a \in Nat /\ b \in Nat /\ c \in Nat /\ a < b /\ b < c
          BY <1>4, <2>2, <2>3, <2>5
        <5> QED
          BY <2>6, <3>2, <5>1
      <4> HIDE DEF left
      <4>3. ASSUME Following(left, c) \in left, Following(left, c) > c PROVE FALSE
        <5>1. Following(left, c) <= c /\ Following(left, c) \in Nat
          BY <4>1, <4>2, <4>3
        <5> QED
          BY <4>1, <4>3, <5>1
      <4> QED
        BY <4>1, <4>3, FollowingFacts
    <3>4. left \in SUBSET all
      BY <3>2
    <3>5. Deselect(rest, left, c) = left \ {c}
      <4> HIDE DEF left
      <4> QED
        BY <3>4, DeselectIs
    <3>6. ReduceFrom(rest, focus, y) = IF seen THEN left \ {c} ELSE left
      <4> HIDE DEF left, seen
      <4> QED
        BY <2>8, <3>3, <3>5 DEF ReduceFrom
    <3> QED
      BY <3>1, <3>6
  <2>12. Reduce(all, focus) = all \ {c} \/ Reduce(all, focus) = all \ {b}
    BY <2>9, <2>10, <2>11
  <2>14. ASSUME NEW r \in all PROVE Few(all \ {r}, 2)
    <3>1. IsFiniteSet(all \ {r}) /\ Cardinality(all \ {r}) = Cardinality(all) - 1
      BY <1>4, FS_RemoveElement
    <3> QED
      BY <1>4, <3>1 DEF Few, Revs
  <2> QED
    BY <1>4, <1>6, <2>3, <2>5, <2>12, <2>14
<1> QED
  BY <1>4, <1>5, <1>6

-----------------------------------------------------------------------------
(* The rows, and the details of those that are selected                    *)

\* Each entry has a row and each row an entry, in whatever order.
RowsInv ==
    /\ rows \in [1 .. Shown -> 1 .. Shown]
    /\ \A i, j \in 1 .. Shown : rows[i] = rows[j] => i = j
    /\ \A i \in 1 .. Shown : \E n \in 1 .. Shown : rows[n] = i

Revisions(sel) == {RevisionAt(r) : r \in sel}

\* What the dialog says of some revisions.
DetailsShow(revs) ==
    /\ details.message = IF Cardinality(revs) = 1 THEN CHOOSE r \in revs : TRUE ELSE INVALID
    /\ details.files = IF revs = {} THEN {}
                       ELSE {p \in UNION {Touches[r] : r \in revs} : \A r \in revs : p \in Touches[r]}

SelectionInv ==
    Open => /\ RowsInv
            /\ selected \subseteq 1 .. Shown
            /\ Cardinality(selected) <= 2
            /\ ~misread => DetailsShow(Revisions(selected))

\* No entry twice.
LEMMA EntriesFacts ==
    ASSUME PageInv, Open
    PROVE  /\ Shown \in Nat /\ 1 <= Shown /\ Len(entries) = Shown /\ DOMAIN entries = 1 .. Shown
           /\ \A i \in 1 .. Shown : entries[i] \in history /\ entries[i] \in Nat
           /\ \A i, j \in 1 .. Shown : entries[i] = entries[j] => i = j
           /\ \A i, j \in 1 .. Shown : i < j => entries[j] < entries[i]
           /\ Revs(history)
<1> DEFINE d == Descending(history)
<1>1. Revs(history) /\ NewestShown /\ Cardinality(history) \in Nat
  BY HistoryFacts DEF PageInv, JobInv
<1>2. Len(d) = Cardinality(history) /\ \A m, n \in 1 .. Len(d) : m < n => d[n] < d[m]
  BY <1>1, DescendingFacts
<1> HIDE DEF d
<1>3. /\ entries \in Seq(history) /\ Len(entries) = Shown /\ Shown \in Nat
      /\ 1 <= Shown /\ Shown <= Len(d)
      /\ \A i \in 1 .. Shown : entries[i] = d[i]
  BY <1>1, <1>2 DEF NewestShown, Shown, d
<1>4. DOMAIN entries = 1 .. Shown /\ \A i \in 1 .. Shown : entries[i] \in history /\ entries[i] \in Nat
  <2>1. DOMAIN entries = 1 .. Shown /\ \A i \in 1 .. Shown : entries[i] \in history
    BY <1>3
  <2>2. \A r \in history : r \in Nat
    BY <1>1 DEF Revs
  <2> QED
    BY <2>1, <2>2
<1>5. \A i, j \in 1 .. Shown : i < j => entries[j] < entries[i]
  BY <1>1, <1>2, <1>3
<1>6. \A i, j \in 1 .. Shown : entries[i] = entries[j] => i = j
  <2> SUFFICES ASSUME NEW i \in 1 .. Shown, NEW j \in 1 .. Shown, entries[i] = entries[j], i # j
               PROVE  FALSE
    OBVIOUS
  <2>1. i < j \/ j < i
    BY <1>3
  <2> QED
    BY <1>4, <1>5, <2>1
<1> QED
  BY <1>1, <1>3, <1>4, <1>5, <1>6

LEMMA SmallSets ==
    ASSUME NEW n \in Nat, NEW S \in SUBSET (1 .. n)
    PROVE  IsFiniteSet(S) /\ Cardinality(S) \in Nat /\ Revs(S) /\ NoRow \notin S
<1>1. IsFiniteSet(1 .. n)
  BY FS_Interval
<1>2. IsFiniteSet(S) /\ Cardinality(S) \in Nat
  BY <1>1, FS_Subset, FS_CardinalityType
<1>3. S \subseteq Nat /\ 0 \notin S
  OBVIOUS
<1> QED
  BY <1>2, <1>3 DEF Revs, NoRow

\* The image of an injection has as many elements.
LEMMA SameSize ==
    ASSUME NEW S, IsFiniteSet(S), NEW T, NEW f \in [S -> T],
           \A x, y \in S : f[x] = f[y] => x = y,
           \A z \in T : \E x \in S : f[x] = z
    PROVE  IsFiniteSet(T) /\ Cardinality(T) = Cardinality(S)
<1>1. f \in Injection(S, T)
  BY DEF Injection, IsInjective
<1>2. f \in Surjection(S, T)
  BY DEF Surjection
<1>3. ExistsBijection(S, T)
  BY <1>1, <1>2 DEF Bijection, ExistsBijection
<1> QED
  BY <1>3, FS_Bijection

\* As many revisions as rows.
LEMMA RevisionsCount ==
    ASSUME PageInv, Open, RowsInv, NEW S \in SUBSET (1 .. Shown)
    PROVE  /\ Cardinality(Revisions(S)) = Cardinality(S)
           /\ Revisions(S) \subseteq history
<1> DEFINE T == Revisions(S)
           f == [r \in S |-> RevisionAt(r)]
<1>1. /\ Shown \in Nat
      /\ \A i \in 1 .. Shown : entries[i] \in history
      /\ \A i, j \in 1 .. Shown : entries[i] = entries[j] => i = j
  BY EntriesFacts
<1>2. \A r \in 1 .. Shown : rows[r] \in 1 .. Shown /\ RevisionAt(r) = entries[rows[r]]
  BY DEF RowsInv, RevisionAt
<1>3. \A r \in S : RevisionAt(r) \in T /\ RevisionAt(r) \in history
  BY <1>1, <1>2 DEF Revisions
<1>4. ASSUME NEW q \in S, NEW r \in S, RevisionAt(q) = RevisionAt(r) PROVE q = r
  <2>1. q \in 1 .. Shown /\ r \in 1 .. Shown
    OBVIOUS
  <2>2. rows[q] = rows[r]
    BY <1>1, <1>2, <1>4, <2>1
  <2> QED
    BY <2>1, <2>2 DEF RowsInv
<1>5. \A t \in T : \E r \in S : RevisionAt(r) = t
  BY DEF Revisions
<1>6. T \subseteq history
  BY <1>3, <1>5
<1> HIDE DEF T
<1>7. f \in [S -> T] /\ \A r \in S : f[r] = RevisionAt(r)
  BY <1>3
<1> HIDE DEF f
<1>8. f \in [S -> T] /\ IsFiniteSet(S)
  BY <1>1, <1>7, SmallSets
<1>9. ASSUME NEW q \in S, NEW r \in S, f[q] = f[r] PROVE q = r
  <2>1. RevisionAt(q) = RevisionAt(r)
    BY <1>7, <1>9
  <2> QED
    BY <1>4, <2>1
<1>10. ASSUME NEW t \in T PROVE \E r \in S : f[r] = t
  BY <1>5, <1>7
<1>11. Cardinality(T) = Cardinality(S)
  BY <1>8, <1>9, <1>10, SameSize
<1> QED
  BY <1>6, <1>11 DEF T

LEMMA Lone ==
    ASSUME NEW S, IsFiniteSet(S), Cardinality(S) = 1, NEW x \in S
    PROVE  S = {x}
<1>1. IsFiniteSet(S \ {x}) /\ Cardinality(S \ {x}) = Cardinality(S) - 1
  BY FS_RemoveElement
<1>2. S \ {x} = {}
  BY <1>1, FS_EmptySet
<1> QED
  BY <1>2

\* UpdateSelection: the text and the files are those of what is selected.
LEMMA DetailsOfSelection ==
    ASSUME PageInv, Open, RowsInv, InOrder, NEW S \in SUBSET (1 .. Shown),
           details' = DetailsOf(S), UNCHANGED <<entries, rows>>
    PROVE  DetailsShow(Revisions(S))'
<1> DEFINE revs == Revisions(S)
<1>1. Shown \in Nat /\ IsFiniteSet(S) /\ S \in SUBSET Nat /\ Cardinality(revs) = Cardinality(S)
  BY EntriesFacts, RevisionsCount, SmallSets DEF Revs
<1>2. \A r \in S : RevisionAt(r) = entries[r]
  BY DEF RowsInv, InOrder, RevisionAt
<1>3. revs' = revs
  BY DEF Revisions, RevisionAt
<1>4. /\ \A r \in S : entries[r] \in revs
      /\ \A x \in revs : \E r \in S : x = entries[r]
  BY <1>2 DEF Revisions
<1> HIDE DEF revs
<1>5. SUFFICES /\ details'.message = IF Cardinality(revs) = 1 THEN CHOOSE r \in revs : TRUE ELSE INVALID
               /\ details'.files = IF revs = {} THEN {}
                       ELSE {p \in UNION {Touches[r] : r \in revs} : \A r \in revs : p \in Touches[r]}
  BY <1>3 DEF DetailsShow, revs
<1>6. CASE S = {}
  <2>1. details' = NoDetails /\ revs = {}
    BY <1>4, <1>6 DEF DetailsOf
  <2>2. Cardinality(revs) # 1
    BY <2>1, FS_EmptySet
  <2> QED
    BY <2>1, <2>2 DEF NoDetails
<1>7. CASE S # {}
  <2>1. Min(S) \in S
    BY <1>1, <1>7, MinIsSmallest
  <2>2. /\ details'.message = IF Cardinality(S) = 1 THEN entries[Min(S)] ELSE INVALID
        /\ details'.files = AffectedFiles(S)
    BY <1>7 DEF DetailsOf
  <2> DEFINE m == Min(S)
  <2>3. m \in S /\ entries[m] \in revs
    BY <1>4, <2>1
  <2>4. AffectedFiles(S) = {p \in Touches[entries[m]] : \A r \in S : p \in Touches[entries[r]]}
    BY DEF AffectedFiles, PathsOf
  <2> HIDE DEF m
  <2>5. Cardinality(S) = 1 => entries[m] = CHOOSE r \in revs : TRUE
    <3> SUFFICES ASSUME Cardinality(S) = 1 PROVE entries[m] = CHOOSE r \in revs : TRUE
      OBVIOUS
    <3>1. S = {m}
      BY <1>1, <2>3, Lone
    <3>2. revs = {entries[m]}
      BY <1>4, <2>3, <3>1
    <3>3. (CHOOSE r \in revs : TRUE) \in revs
      BY <2>3
    <3> QED
      BY <3>2, <3>3
  <2>6. AffectedFiles(S) =
            {p \in UNION {Touches[r] : r \in revs} : \A r \in revs : p \in Touches[r]}
    <3> DEFINE A == {p \in Touches[entries[m]] : \A r \in S : p \in Touches[entries[r]]}
               B == {p \in UNION {Touches[r] : r \in revs} : \A r \in revs : p \in Touches[r]}
    <3>1. \A p : p \in A <=> \A r \in S : p \in Touches[entries[r]]
      BY <2>3
    <3>2. \A p : p \in B <=> \A r \in revs : p \in Touches[r]
      BY <2>3
    <3>3. \A p : (\A r \in S : p \in Touches[entries[r]]) <=> \A r \in revs : p \in Touches[r]
      BY <1>4
    <3> HIDE DEF A, B
    <3>4. A = B
      BY <3>1, <3>2, <3>3
    <3> QED
      BY <2>4, <3>4 DEF A, B
  <2>7. revs # {}
    BY <2>3
  <2> QED
    BY <1>1, <2>2, <2>5, <2>6, <2>7 DEF m
<1> QED
  BY <1>6, <1>7

\* Click, CtrlClick: what is selected is reduced to two.
LEMMA SelectionChanges ==
    ASSUME PageInv, SelectionInv, Open, NEW S \in SUBSET (1 .. Shown), Cardinality(S) <= 3,
           NEW row, UpdateSelection(S, row),
           UNCHANGED <<entries, rows, history, dlg, undefined>>
    PROVE  SelectionInv'
<1> DEFINE left == Reduce(S, row)
<1>1. Shown \in Nat /\ RowsInv
  BY EntriesFacts DEF SelectionInv
<1>2. Few(S, 3)
  BY <1>1, SmallSets DEF Few
<1>3. left \in SUBSET S /\ Few(left, 2)
  BY <1>2, ReduceFacts
<1>4. /\ selected' = left /\ details' = DetailsOf(left) /\ misread' = ~InOrder
  BY DEF UpdateSelection
<1> HIDE DEF left
<1>5. left \in SUBSET (1 .. Shown) /\ Cardinality(left) <= 2
  BY <1>3 DEF Few
<1>6. Shown' = Shown /\ RowsInv'
  BY <1>1 DEF Shown, RowsInv
<1>7. ASSUME InOrder PROVE DetailsShow(Revisions(left))'
  BY <1>1, <1>4, <1>5, <1>7, DetailsOfSelection
<1>8. ~misread' => DetailsShow(Revisions(selected))'
  <2>1. DetailsShow(Revisions(left))' <=> DetailsShow(Revisions(selected))'
    BY <1>4 DEF DetailsShow, Revisions, RevisionAt
  <2> QED
    BY <1>4, <1>7, <2>1
<1> QED
  BY <1>4, <1>5, <1>6, <1>8 DEF SelectionInv

\* SortItems: each entry keeps one row.
LEMMA SortedRowsFacts ==
    ASSUME PageInv, Open, NEW up \in BOOLEAN
    PROVE  /\ SortedRows(up) \in [1 .. Shown -> 1 .. Shown]
           /\ \A i, j \in 1 .. Shown : SortedRows(up)[i] = SortedRows(up)[j] => i = j
           /\ \A i \in 1 .. Shown : \E n \in 1 .. Shown : SortedRows(up)[n] = i
<1> DEFINE S == Range(entries)
           d == Descending(S)
           revs == IF up THEN Ascending(S) ELSE d
           sorted == SortedRows(up)
           e == [i \in 1 .. Shown |-> entries[i]]
<1>1. /\ Shown \in Nat /\ 1 <= Shown /\ DOMAIN entries = 1 .. Shown
      /\ \A i \in 1 .. Shown : entries[i] \in Nat
      /\ \A i, j \in 1 .. Shown : entries[i] = entries[j] => i = j
  BY EntriesFacts
<1>2. /\ \A i \in 1 .. Shown : entries[i] \in S
      /\ \A r \in S : \E i \in 1 .. Shown : entries[i] = r
  BY <1>1 DEF Range
<1>3. sorted = [n \in 1 .. Shown |-> CHOOSE i \in 1 .. Shown : entries[i] = revs[n]]
  BY <1>1 DEF SortedRows
<1> HIDE DEF S
<1>4. Revs(S) /\ Cardinality(S) = Shown
  <2>1. e \in [1 .. Shown -> S] /\ \A i \in 1 .. Shown : e[i] = entries[i]
    BY <1>2
  <2> HIDE DEF e
  <2>2. ASSUME NEW i \in 1 .. Shown, NEW j \in 1 .. Shown, e[i] = e[j] PROVE i = j
    BY <1>1, <2>1, <2>2
  <2>3. \A r \in S : \E i \in 1 .. Shown : e[i] = r
    BY <1>2, <2>1
  <2>4. IsFiniteSet(1 .. Shown) /\ Cardinality(1 .. Shown) = Shown
    BY <1>1, FS_Interval
  <2>5. IsFiniteSet(S) /\ Cardinality(S) = Cardinality(1 .. Shown)
    <3> DEFINE I == 1 .. Shown
    <3>1. /\ IsFiniteSet(I) /\ e \in [I -> S]
          /\ \A x, y \in I : e[x] = e[y] => x = y
          /\ \A z \in S : \E x \in I : e[x] = z
      BY <2>1, <2>2, <2>3, <2>4
    <3> HIDE DEF I
    <3>2. IsFiniteSet(S) /\ Cardinality(S) = Cardinality(I)
      BY <3>1, SameSize
    <3> QED
      BY <3>2 DEF I
  <2>6. S \subseteq Nat
    BY <1>1, <1>2
  <2> QED
    BY <2>4, <2>5, <2>6 DEF Revs
<1> HIDE DEF d
<1>5. /\ \A n \in 1 .. Shown : d[n] \in S
      /\ \A i, j \in 1 .. Shown : d[i] = d[j] => i = j
      /\ \A r \in S : \E n \in 1 .. Shown : d[n] = r
  <2>1. /\ Len(d) = Shown
        /\ \A n \in 1 .. Len(d) : d[n] \in S /\ Above(S, d[n]) = n - 1
        /\ \A n \in 1 .. Len(d), r \in S : Above(S, r) = n - 1 => r = d[n]
    BY <1>4, DescendingFacts DEF d
  <2>2. ASSUME NEW i \in 1 .. Shown, NEW j \in 1 .. Shown, d[i] = d[j] PROVE i = j
    <3>1. i - 1 = j - 1
      BY <2>1, <2>2
    <3> QED
      BY <1>1, <3>1
  <2>3. ASSUME NEW r \in S PROVE \E n \in 1 .. Shown : d[n] = r
    <3>1. Above(S, r) \in Nat /\ Above(S, r) < Shown
      BY <1>4, AboveFacts
    <3> DEFINE n == Above(S, r) + 1
    <3>2. n \in 1 .. Shown /\ Above(S, r) = n - 1
      BY <1>1, <3>1
    <3> HIDE DEF n
    <3> QED
      BY <2>1, <3>2
  <2> QED
    BY <2>1, <2>2, <2>3
<1>6. /\ \A n \in 1 .. Shown : revs[n] \in S
      /\ \A i, j \in 1 .. Shown : revs[i] = revs[j] => i = j
      /\ \A r \in S : \E n \in 1 .. Shown : revs[n] = r
  <2>1. CASE ~up
    BY <1>5, <2>1
  <2>2. CASE up
    <3>1. \A n \in 1 .. Shown : revs[n] = d[Shown - n + 1]
      BY <1>4, <2>2, AscendingFacts DEF d
    <3>2. \A n \in 1 .. Shown : Shown - n + 1 \in 1 .. Shown /\ Shown - (Shown - n + 1) + 1 = n
      BY <1>1
    <3> HIDE DEF revs
    <3>3. ASSUME NEW i \in 1 .. Shown, NEW j \in 1 .. Shown, revs[i] = revs[j] PROVE i = j
      <4>1. Shown - i + 1 = Shown - j + 1
        BY <1>5, <3>1, <3>2, <3>3
      <4> QED
        BY <1>1, <4>1
    <3>4. ASSUME NEW r \in S PROVE \E n \in 1 .. Shown : revs[n] = r
      <4>1. PICK m \in 1 .. Shown : d[m] = r
        BY <1>5
      <4>2. revs[Shown - m + 1] = d[Shown - (Shown - m + 1) + 1]
        BY <3>1, <3>2
      <4> QED
        BY <3>2, <4>1, <4>2
    <3> QED
      BY <1>5, <3>1, <3>2, <3>3, <3>4
  <2> QED
    BY <2>1, <2>2
<1> HIDE DEF revs, sorted
<1>7. ASSUME NEW n \in 1 .. Shown PROVE sorted[n] \in 1 .. Shown /\ entries[sorted[n]] = revs[n]
  <2>1. \E i \in 1 .. Shown : entries[i] = revs[n]
    BY <1>2, <1>6
  <2>2. sorted[n] = CHOOSE i \in 1 .. Shown : entries[i] = revs[n]
    BY <1>3
  <2> QED
    BY <2>1, <2>2
<1>8. sorted \in [1 .. Shown -> 1 .. Shown]
  BY <1>3, <1>7
<1>9. ASSUME NEW i \in 1 .. Shown, NEW j \in 1 .. Shown, sorted[i] = sorted[j] PROVE i = j
  <2>1. revs[i] = revs[j]
    BY <1>7, <1>9
  <2> QED
    BY <1>6, <2>1
<1>10. ASSUME NEW i \in 1 .. Shown PROVE \E n \in 1 .. Shown : sorted[n] = i
  <2>1. PICK n \in 1 .. Shown : revs[n] = entries[i]
    BY <1>2, <1>6
  <2>2. entries[sorted[n]] = entries[i] /\ sorted[n] \in 1 .. Shown
    BY <1>7, <2>1
  <2> QED
    BY <1>1, <2>2
<1> QED
  BY <1>8, <1>9, <1>10 DEF sorted

\* OnColClick: the rows that stay selected show the same revisions.
LEMMA SelectionSorted ==
    ASSUME PageInv, SelectionInv, OnColClick
    PROVE  SelectionInv'
<1>1. /\ Open /\ ascending' = ~ascending /\ rows' = SortedRows(ascending')
      /\ UNCHANGED <<entries, dlg, undefined>>
      /\ \/ /\ selected' = {n \in DOMAIN rows' : \E r \in selected : rows[r] = rows'[n]}
            /\ UNCHANGED <<details, misread>>
         \/ selected' = {} /\ details' = NoDetails /\ misread' = FALSE
  BY DEF OnColClick
<1>2. /\ RowsInv /\ Shown \in Nat /\ selected \subseteq 1 .. Shown /\ Cardinality(selected) <= 2
      /\ ~misread => DetailsShow(Revisions(selected))
  BY <1>1, EntriesFacts DEF SelectionInv
<1>3. Shown' = Shown
  BY <1>1 DEF Shown
<1> DEFINE up == ascending'
           new == rows'
           sel == selected'
<1>4. up \in BOOLEAN
  BY <1>1
<1> HIDE DEF up
<1>5. /\ new \in [1 .. Shown -> 1 .. Shown]
      /\ \A i, j \in 1 .. Shown : new[i] = new[j] => i = j
      /\ \A i \in 1 .. Shown : \E n \in 1 .. Shown : new[n] = i
  <2>1. /\ SortedRows(up) \in [1 .. Shown -> 1 .. Shown]
        /\ \A i, j \in 1 .. Shown : SortedRows(up)[i] = SortedRows(up)[j] => i = j
        /\ \A i \in 1 .. Shown : \E n \in 1 .. Shown : SortedRows(up)[n] = i
    BY <1>1, <1>4, SortedRowsFacts
  <2>2. new = SortedRows(up)
    BY <1>1 DEF up
  <2> QED
    BY <2>1, <2>2
<1>6. RowsInv'
  BY <1>3, <1>5 DEF RowsInv
<1>7. CASE selected' = {} /\ details' = NoDetails
  <2>1. Revisions(selected)' = {}
    BY <1>7 DEF Revisions
  <2>2. DetailsShow(Revisions(selected))'
    BY <1>7, <2>1, FS_EmptySet DEF DetailsShow, NoDetails
  <2>3. Cardinality(selected') <= 2 /\ selected' \subseteq 1 .. Shown
    BY <1>7, FS_EmptySet
  <2> QED
    BY <1>3, <1>6, <2>2, <2>3 DEF SelectionInv
<1>8. CASE /\ selected' = {n \in DOMAIN rows' : \E r \in selected : rows[r] = rows'[n]}
           /\ UNCHANGED <<details, misread>>
  <2>1. sel = {n \in 1 .. Shown : \E r \in selected : rows[r] = new[n]}
    BY <1>5, <1>8
  <2>2. \A r \in 1 .. Shown : RevisionAt(r) = entries[rows[r]] /\ rows[r] \in 1 .. Shown
    BY <1>2 DEF RevisionAt, RowsInv
  <2>3. \A r : RevisionAt(r)' = entries[new[r]]
    BY <1>1 DEF RevisionAt
  <2>4. Revisions(selected)' = {entries[new[n]] : n \in sel}
    BY <1>1 DEF Revisions, RevisionAt
  <2> HIDE DEF new, sel
  <2>5. {entries[new[n]] : n \in sel} = Revisions(selected)
    <3>1. ASSUME NEW n \in sel PROVE entries[new[n]] \in Revisions(selected)
      <4>1. PICK r \in selected : rows[r] = new[n]
        BY <2>1
      <4>2. entries[new[n]] = RevisionAt(r)
        BY <1>2, <2>2, <4>1
      <4> QED
        BY <4>2 DEF Revisions
    <3>2. ASSUME NEW r \in selected PROVE \E n \in sel : RevisionAt(r) = entries[new[n]]
      <4>1. rows[r] \in 1 .. Shown /\ RevisionAt(r) = entries[rows[r]]
        BY <1>2, <2>2
      <4>2. PICK n \in 1 .. Shown : new[n] = rows[r]
        BY <1>5, <4>1
      <4>3. n \in sel
        BY <2>1, <4>2
      <4> QED
        BY <4>1, <4>2, <4>3
    <3> QED
      BY <3>1, <3>2 DEF Revisions
  <2>6. Revisions(selected)' = Revisions(selected)
    BY <2>4, <2>5
  <2>7. Cardinality(sel) <= 2
    <3>1. Cardinality(Revisions(selected)) = Cardinality(selected)
      BY <1>1, <1>2, RevisionsCount
    <3> DEFINE f == [n \in sel |-> entries[new[n]]]
    <3>2. /\ sel \in SUBSET (1 .. Shown)
          /\ \A n \in sel : new[n] \in 1 .. Shown /\ entries[new[n]] \in Revisions(selected)
      BY <1>5, <2>1, <2>5
    <3>3. f \in [sel -> Revisions(selected)] /\ \A n \in sel : f[n] = entries[new[n]]
      BY <3>2
    <3> HIDE DEF f
    <3>4. ASSUME NEW m \in sel, NEW n \in sel, f[m] = f[n] PROVE m = n
      <4>1. m \in 1 .. Shown /\ n \in 1 .. Shown /\ new[m] \in 1 .. Shown /\ new[n] \in 1 .. Shown
        BY <3>2
      <4>2. new[m] = new[n]
        <5>1. entries[new[m]] = entries[new[n]]
          BY <3>3, <3>4
        <5> QED
          BY <1>1, <4>1, <5>1, EntriesFacts
      <4> QED
        BY <1>5, <4>1, <4>2
    <3>5. ASSUME NEW x \in Revisions(selected) PROVE \E n \in sel : f[n] = x
      BY <2>5, <3>3
    <3>6. IsFiniteSet(sel)
      BY <1>2, <3>2, SmallSets
    <3>7. Cardinality(Revisions(selected)) = Cardinality(sel)
      BY <3>3, <3>4, <3>5, <3>6, SameSize
    <3> QED
      BY <1>2, <3>1, <3>7
  <2>8. selected' \subseteq 1 .. Shown /\ Cardinality(selected') <= 2
    BY <2>1, <2>7 DEF sel
  <2>9. DetailsShow(Revisions(selected))' <=> DetailsShow(Revisions(selected))
    <3>1. \A revs : DetailsShow(revs)' <=> DetailsShow(revs)
      BY <1>8 DEF DetailsShow
    <3> QED
      BY <1>8, <2>6 DEF DetailsShow
  <2> QED
    BY <1>2, <1>3, <1>6, <1>8, <2>8, <2>9 DEF SelectionInv
<1> QED
  BY <1>1, <1>7, <1>8

\* A page adds its rows below the others.
LEMMA SelectionKept ==
    ASSUME PageInv, SelectionInv, Open, Open', NEW kept, NEW T, kept \in Seq(T),
           entries' = entries \o kept,
           rows' = rows \o [i \in DOMAIN kept |-> Len(rows) + i],
           UNCHANGED <<selected, details, misread>>
    PROVE  SelectionInv'
<1> DEFINE k == Len(kept)
           n == Shown + k
           added == [i \in DOMAIN kept |-> Len(rows) + i]
<1>1. /\ Shown \in Nat /\ Len(entries) = Shown /\ DOMAIN entries = 1 .. Shown
      /\ entries \in Seq(history)
  BY EntriesFacts DEF PageInv, NewestShown
<1>2. /\ rows \in [1 .. Shown -> 1 .. Shown]
      /\ \A i, j \in 1 .. Shown : rows[i] = rows[j] => i = j
      /\ \A i \in 1 .. Shown : \E r \in 1 .. Shown : rows[r] = i
      /\ selected \subseteq 1 .. Shown /\ Cardinality(selected) <= 2
      /\ ~misread => DetailsShow(Revisions(selected))
  BY DEF SelectionInv, RowsInv
<1>3. DOMAIN kept = 1 .. k /\ k \in Nat
  OBVIOUS
<1> HIDE DEF k
<1>4. rows \in Seq(Nat) /\ Len(rows) = Shown
  <2>1. rows \in [1 .. Shown -> Nat]
    BY <1>2
  <2> QED
    BY <1>1, <2>1
<1>5. added \in Seq(Nat) /\ Len(added) = k /\ \A i \in 1 .. k : added[i] = Shown + i
  <2>1. added = [i \in 1 .. k |-> Shown + i]
    BY <1>3, <1>4
  <2>2. added \in [1 .. k -> Nat]
    BY <1>1, <1>3, <2>1
  <2> QED
    BY <1>3, <2>1, <2>2
<1> HIDE DEF added
<1>6. /\ rows' \in Seq(Nat) /\ Len(rows') = n
      /\ \A i \in 1 .. n : rows'[i] = IF i <= Shown THEN rows[i] ELSE added[i - Shown]
  <2>1. rows' = rows \o added
    BY DEF added
  <2>2. /\ rows \o added \in Seq(Nat)
        /\ Len(rows \o added) = Len(rows) + Len(added)
        /\ \A i \in 1 .. Len(rows) + Len(added) : (rows \o added)[i] =
              IF i <= Len(rows) THEN rows[i] ELSE added[i - Len(rows)]
    BY <1>4, <1>5, ConcatProperties
  <2> QED
    BY <1>4, <1>5, <2>1, <2>2
<1>7. ASSUME NEW i \in 1 .. n
      PROVE  \/ i \in 1 .. Shown /\ rows'[i] = rows[i] /\ rows[i] \in 1 .. Shown
             \/ i \in Shown + 1 .. n /\ rows'[i] = i
  <2>0. Shown \in Nat /\ k \in Nat /\ i \in Nat /\ 1 <= i /\ i <= Shown + k
    BY <1>1, <1>3
  <2>1. CASE i <= Shown
    <3>1. i \in 1 .. Shown
      BY <2>0, <2>1
    <3>2. rows'[i] = rows[i]
      BY <1>6, <2>1
    <3> QED
      BY <1>2, <3>1, <3>2
  <2>2. CASE i > Shown
    <3>1. i - Shown \in 1 .. k /\ Shown + (i - Shown) = i /\ i \in Shown + 1 .. n /\ ~(i <= Shown)
      BY <2>0, <2>2
    <3>2. rows'[i] = added[i - Shown]
      BY <1>6, <3>1
    <3>3. added[i - Shown] = Shown + (i - Shown)
      BY <1>5, <3>1
    <3> QED
      BY <3>1, <3>2, <3>3
  <2>3. i <= Shown \/ i > Shown
    BY <2>0
  <2> QED
    BY <2>1, <2>2, <2>3
<1>8. /\ Shown' = n
      /\ \A i \in 1 .. Shown : entries'[i] = entries[i]
  <2> DEFINE S == history \cup T
  <2>1. entries \in Seq(S) /\ kept \in Seq(S)
    <3>1. history \subseteq S /\ T \subseteq S
      OBVIOUS
    <3> HIDE DEF S
    <3> QED
      BY <1>1, <3>1
  <2> HIDE DEF S
  <2>2. /\ Len(entries \o kept) = Len(entries) + Len(kept)
        /\ \A i \in 1 .. Len(entries) + Len(kept) : (entries \o kept)[i] =
              IF i <= Len(entries) THEN entries[i] ELSE kept[i - Len(entries)]
    BY <2>1, ConcatProperties
  <2>3. Len(entries \o kept) = n
    BY <1>1, <2>2 DEF k
  <2>4. Len(kept) \in Nat
    BY <1>3 DEF k
  <2>5. \A i \in 1 .. Shown : (entries \o kept)[i] = entries[i]
    BY <1>1, <2>2, <2>4
  <2> QED
    BY <2>3, <2>5 DEF Shown
<1>9. RowsInv'
  <2>1. ASSUME NEW i \in 1 .. n PROVE rows'[i] \in 1 .. n
    <3>1. \A x : x \in 1 .. Shown \/ x \in Shown + 1 .. n => x \in 1 .. n
      BY <1>1, <1>3
    <3> HIDE DEF n
    <3> QED
      BY <1>7, <3>1
  <2>2. rows' \in [1 .. n -> 1 .. n]
    <3>1. DOMAIN rows' = 1 .. n /\ rows' = [i \in 1 .. n |-> rows'[i]]
      BY <1>6
    <3> QED
      BY <2>1, <3>1
  <2>3. ASSUME NEW i \in 1 .. n, NEW j \in 1 .. n, rows'[i] = rows'[j] PROVE i = j
    <3>1. \/ i \in 1 .. Shown /\ rows'[i] = rows[i] /\ rows[i] \in 1 .. Shown
          \/ i \in Shown + 1 .. n /\ rows'[i] = i
      BY <1>7
    <3>2. \/ j \in 1 .. Shown /\ rows'[j] = rows[j] /\ rows[j] \in 1 .. Shown
          \/ j \in Shown + 1 .. n /\ rows'[j] = j
      BY <1>7
    <3>3. \A x : ~(x \in 1 .. Shown /\ x \in Shown + 1 .. n)
      BY <1>1, <1>3
    <3>4. i \in 1 .. Shown /\ j \in 1 .. Shown => i = j
      BY <1>2, <2>3, <3>1, <3>2, <3>3
    <3> HIDE DEF n
    <3> QED
      BY <2>3, <3>1, <3>2, <3>3, <3>4
  <2>4. ASSUME NEW i \in 1 .. n PROVE \E r \in 1 .. n : rows'[r] = i
    <3>1. CASE i \in 1 .. Shown
      <4>1. PICK r \in 1 .. Shown : rows[r] = i
        BY <1>2, <3>1
      <4>2. r \in 1 .. n /\ r \notin Shown + 1 .. n
        BY <1>1, <1>3
      <4> HIDE DEF n
      <4> QED
        BY <1>7, <4>1, <4>2
    <3>2. CASE i \notin 1 .. Shown
      BY <1>7, <3>2
    <3> QED
      BY <3>1, <3>2
  <2> HIDE DEF n
  <2> QED
    BY <1>8, <2>2, <2>3, <2>4 DEF RowsInv
<1>10. Revisions(selected)' = Revisions(selected)
  <2>1. ASSUME NEW r \in selected PROVE RevisionAt(r)' = RevisionAt(r)
    <3>1. r \in 1 .. Shown /\ r \in 1 .. n /\ r \notin Shown + 1 .. n
      BY <1>1, <1>2, <1>3
    <3> HIDE DEF n
    <3>2. rows'[r] = rows[r] /\ rows[r] \in 1 .. Shown
      BY <1>7, <3>1
    <3> QED
      BY <1>8, <3>2 DEF RevisionAt
  <2> QED
    BY <2>1 DEF Revisions
<1>11. DetailsShow(Revisions(selected))' <=> DetailsShow(Revisions(selected))
  BY <1>10 DEF DetailsShow
<1>12. selected' \subseteq 1 .. n
  BY <1>1, <1>2, <1>3
<1> HIDE DEF n
<1> QED
  BY <1>2, <1>8, <1>9, <1>11, <1>12 DEF SelectionInv

\* What leaves the dialog as it is, or closes it.
LEMMA SelectionStays ==
    ASSUME SelectionInv, UNCHANGED <<dlg, entries, rows, selected, details, misread, undefined>>
    PROVE  SelectionInv'
<1>1. Revisions(selected)' = Revisions(selected)
  BY DEF Revisions, RevisionAt
<1>2. DetailsShow(Revisions(selected))' <=> DetailsShow(Revisions(selected))
  BY <1>1 DEF DetailsShow
<1> QED
  BY <1>2 DEF SelectionInv, RowsInv, Open, Shown

LEMMA SelectionOpens ==
    ASSUME PageInv, PageInv', OpenLog
    PROVE  SelectionInv'
<1> DEFINE kept == Kept(Log(history', Max(history')))
<1>1. /\ entries' = kept /\ rows' = [i \in DOMAIN kept |-> i]
      /\ selected' = {} /\ details' = NoDetails
  BY DEF OpenLog
<1> HIDE DEF kept
<1>2. SUFFICES ASSUME Open' PROVE SelectionInv'
  BY DEF SelectionInv
<1>3. DOMAIN kept = 1 .. Shown'
  BY <1>1, <1>2 DEF PageInv, NewestShown, Shown
<1>4. RowsInv'
  BY <1>1, <1>3 DEF RowsInv
<1>5. Revisions(selected)' = {}
  BY <1>1 DEF Revisions
<1>6. DetailsShow(Revisions(selected))'
  BY <1>1, <1>5, FS_EmptySet DEF DetailsShow, NoDetails
<1>7. Cardinality(selected') <= 2 /\ selected' \subseteq 1 .. Shown'
  BY <1>1, FS_EmptySet
<1> QED
  BY <1>4, <1>6, <1>7 DEF SelectionInv

LogInv == PageInv /\ SelectionInv

LEMMA LogInvStep == LogInv /\ [LogNext]_logVars => LogInv'
<1> SUFFICES ASSUME LogInv, [LogNext]_logVars PROVE SelectionInv'
  BY PageInvStep DEF LogInv
<1>0. PageInv /\ PageInv' /\ SelectionInv
  BY PageInvStep DEF LogInv
<1>1. CASE OpenLog
  BY <1>0, <1>1, SelectionOpens
<1>2. CASE Close
  BY <1>2 DEF Close, SelectionInv, Open
<1>3. CASE OnMore \/ OnDiff \/ Answer \/ Fail \/ Done \/ \E r \in DOMAIN Touches : OthersCommit(r)
  <2>1. UNCHANGED <<dlg, entries, rows, selected, details, misread, undefined>>
    BY <1>3 DEF OnMore, OnDiff, Answer, Fail, Done, OthersCommit
  <2> QED
    BY <1>0, <2>1, SelectionStays
<1>4. CASE OnColClick
  BY <1>0, <1>4, SelectionSorted
<1>5. ASSUME NEW row \in DOMAIN rows, Click(row) \/ CtrlClick(row) PROVE SelectionInv'
  <2>1. Open /\ UNCHANGED <<entries, rows, history, dlg, undefined>>
    BY <1>5 DEF Click, CtrlClick
  <2>2. /\ Shown \in Nat /\ row \in 1 .. Shown
        /\ selected \in SUBSET (1 .. Shown) /\ Cardinality(selected) <= 2
    BY <1>0, <2>1, EntriesFacts DEF SelectionInv, RowsInv
  <2>3. IsFiniteSet(selected) /\ Cardinality(selected) \in Nat /\ Cardinality({row}) = 1
    BY <2>2, SmallSets, FS_Singleton
  <2>4. CASE Click(row)
    <3>1. {row} \in SUBSET (1 .. Shown) /\ Cardinality({row}) <= 3
      BY <2>2, <2>3
    <3> QED
      BY <1>0, <2>1, <2>4, <3>1, SelectionChanges DEF Click
  <2>5. CASE CtrlClick(row)
    <3> DEFINE S == (selected \ {row}) \cup ({row} \ selected)
    <3>1. S \in SUBSET (1 .. Shown)
      BY <2>2
    <3>2. Cardinality(S) <= 3
      <4>1. CASE row \in selected
        <5>1. S = selected \ {row}
          BY <4>1
        <5>2. Cardinality(selected \ {row}) = Cardinality(selected) - 1
          BY <2>3, <4>1, FS_RemoveElement
        <5>3. Cardinality(selected \ {row}) <= 3
          BY <2>2, <2>3, <5>2
        <5> QED
          BY <5>1, <5>3
      <4>2. CASE row \notin selected
        <5>1. S = selected \cup {row}
          BY <4>2
        <5>2. Cardinality(selected \cup {row}) = Cardinality(selected) + 1
          BY <2>3, <4>2, FS_AddElement
        <5> QED
          BY <2>2, <2>3, <5>1, <5>2
      <4> QED
        BY <4>1, <4>2
    <3>3. UpdateSelection(S, row)
      BY <2>5 DEF CtrlClick
    <3> HIDE DEF S
    <3> QED
      BY <1>0, <2>1, <3>1, <3>2, <3>3, SelectionChanges
  <2> QED
    BY <1>5, <2>4, <2>5
<1>6. CASE Dispatch
  <2> DEFINE h == Head(jobs)
             kept == Kept(h.page)
  <2>1. UNCHANGED <<history, newer, dlg, selected, details, misread>> /\ ~undefined /\ jobs # << >>
    BY <1>6 DEF Dispatch
  <2>2. CASE h.kind = "answer" /\ h.dlg = dlg
    <3>1. /\ entries' = entries \o kept
          /\ rows' = rows \o [i \in DOMAIN kept |-> Len(rows) + i]
          /\ UNCHANGED undefined
      BY <1>6, <2>2 DEF Dispatch, NextLogEntriesCallback
    <3>2. 1 \in 1 .. Len(jobs) /\ h = jobs[1]
      <4>1. Len(jobs) \in Nat /\ Len(jobs) >= 1 /\ Head(jobs) = jobs[1]
        BY <1>0, <2>1, SequenceTail DEF PageInv, JobInv
      <4> QED
        BY <4>1
    <3>3. Mine(h)
      BY <2>2 DEF Mine
    <3> HIDE DEF h
    <3>4. Open /\ Open'
      BY <1>0, <2>1, <2>2, <3>1, <3>2 DEF PageInv, JobInv, Open
    <3>5. NewestShown /\ Shown < Cardinality(history) /\ h.page = Log(history, next)
      BY <1>0, <2>2, <3>2, <3>3, <3>4 DEF PageInv, OneRequest
    <3>6. kept \in Seq(history)
      <4> DEFINE k == Shown + 1
      <4>1. Revs(history) /\ Cardinality(history) \in Nat
        BY <1>0, HistoryFacts DEF PageInv, JobInv
      <4>2. Shown \in Nat
        BY <1>0, <3>4, EntriesFacts
      <4>3. k \in 1 .. Cardinality(history) /\ h.page = Log(history, Descending(history)[k])
        BY <3>5, <4>1, <4>2 DEF NewestShown
      <4> HIDE DEF k
      <4>4. Kept(Log(history, Descending(history)[k])) \in Seq(history)
        BY <4>1, <4>3, PageFacts
      <4> QED
        BY <4>3, <4>4
    <3> HIDE DEF kept
    <3> QED
      BY <1>0, <2>1, <3>1, <3>4, <3>6, SelectionKept
  <2>3. CASE h.kind = "answer" /\ h.dlg # dlg
    <3>1. ~Open'
      BY <1>6, <2>3 DEF Dispatch, NextLogEntriesCallback, Open
    <3> QED
      BY <3>1 DEF SelectionInv
  <2>4. CASE h.kind # "answer"
    <3>1. UNCHANGED <<entries, rows, undefined>>
      BY <1>6, <2>4 DEF Dispatch, Accept
    <3> QED
      BY <1>0, <2>1, <3>1, SelectionStays
  <2> QED
    BY <2>2, <2>3, <2>4
<1>7. CASE UNCHANGED logVars
  BY <1>0, <1>7, SelectionStays DEF logVars
<1> QED
  BY <1>1, <1>2, <1>3, <1>4, <1>5, <1>6, <1>7 DEF LogNext

LEMMA LogInvInit == LogInit => LogInv
BY PageInvInit DEF LogInit, LogInv, SelectionInv, Open

\* LogRevList::ReduceSelectionToOnlyTwoItems, LogDlg::UpdateSelection: at most
\* two revisions are selected, and the text and the files shown are theirs.
THEOREM DetailsAreOfSelection == LogSpec => []DetailsMatchSelection
<1>1. LogInv => DetailsMatchSelection
  <2> SUFFICES ASSUME LogInv, Open, ~misread PROVE DetailsMatchSelection
    BY DEF DetailsMatchSelection
  <2>1. /\ PageInv /\ RowsInv /\ selected \in SUBSET (1 .. Shown) /\ Cardinality(selected) <= 2
        /\ DetailsShow(Revisions(selected))
    BY DEF LogInv, SelectionInv
  <2>2. Cardinality(Revisions(selected)) <= 2
    BY <2>1, RevisionsCount
  <2> QED
    BY <2>1, <2>2 DEF DetailsMatchSelection, DetailsShow, Revisions
<1> QED
  BY <1>1, LogInvInit, LogInvStep, PTL DEF LogSpec

\* LogDlg::OnDiff: of the rows in the order of the history the one below is the
\* revision before.
LEMMA DiffIsOfPrior ==
    ASSUME LogInv, OnDiff, InOrder, Cardinality(selected) = 1
    PROVE  \E with : /\ jobs' = Append(jobs, [kind |-> "diff", with |-> with])
                     /\ with[2] # INVALID =>
                           /\ with[2] < with[1]
                           /\ \A r \in history \cup newer : r < with[1] => r <= with[2]
<1>1. /\ Open /\ selected # {} /\ PageInv /\ RowsInv /\ selected \in SUBSET (1 .. Shown)
      /\ Shown \in Nat
  BY EntriesFacts DEF OnDiff, LogInv, SelectionInv
<1>2. PICK row \in 1 .. Shown : selected = {row}
  <2>1. PICK row \in selected : TRUE
    BY <1>1
  <2>2. IsFiniteSet(selected)
    BY <1>1, SmallSets
  <2> QED
    BY <1>1, <2>1, <2>2, Lone
<1>3. Len(SelectedRows) = 1 /\ SelectedRows[1] = row
  <2>1. Revs({row}) /\ Cardinality({row}) = 1
    BY <1>1, <1>2, SmallSets
  <2>2. /\ Len(Descending({row})) = 1
        /\ \A n \in 1 .. Len(Descending({row})) : Descending({row})[n] \in {row}
    BY <2>1, DescendingFacts
  <2>3. /\ Len(Ascending({row})) = 1
        /\ \A n \in 1 .. 1 : Ascending({row})[n] = Descending({row})[1 - n + 1]
    BY <2>1, AscendingFacts
  <2>4. Ascending({row})[1] = Descending({row})[1 - 1 + 1]
    BY <2>3
  <2>5. Ascending({row})[1] = Descending({row})[1] /\ Descending({row})[1] \in {row}
    <3>1. 1 \in 1 .. 1 /\ 1 - 1 + 1 = 1
      OBVIOUS
    <3> QED
      BY <2>2, <2>4, <3>1
  <2>6. SelectedRows = Ascending({row})
    BY <1>2 DEF SelectedRows
  <2> QED
    BY <2>3, <2>5, <2>6
<1> DEFINE revs == SelectedRevisions
           second == PriorRevision(row)
           with == << entries[row], second >>
<1>4. RevisionAt(row) = entries[row] /\ Len(rows) = Shown
      /\ \A i \in 1 .. Shown : RevisionAt(i) = entries[i]
  BY <1>1 DEF RowsInv, InOrder, RevisionAt
<1>5. Len(revs) = 1 /\ revs[1] = entries[row]
  <2>1. DOMAIN SelectedRows = 1 .. 1
    <3>1. SelectedRows = [n \in 1 .. Cardinality(selected) |->
                              CHOOSE r \in selected : Below(selected, r) = n - 1]
      BY DEF SelectedRows, Ascending
    <3> QED
      BY <3>1
  <2>2. revs = [i \in 1 .. 1 |-> RevisionAt(SelectedRows[i])]
    BY <2>1 DEF SelectedRevisions
  <2> HIDE DEF revs
  <2> QED
    BY <1>3, <1>4, <2>2
<1>6. jobs' = Append(jobs, [kind |-> "diff", with |-> with])
  <2>1. jobs' = Append(jobs, [kind |-> "diff", with |-> << revs[1],
              IF Len(revs) = 2 THEN revs[2] ELSE PriorRevision(SelectedRows[1]) >>])
    BY DEF OnDiff
  <2> HIDE DEF revs
  <2> QED
    BY <1>3, <1>5, <2>1
<1>7. ASSUME second # INVALID
      PROVE  /\ second < entries[row]
             /\ \A r \in history \cup newer : r < entries[row] => r <= second
  <2>1. row + 1 \in 1 .. Shown /\ second = entries[row + 1]
    BY <1>1, <1>4, <1>7 DEF PriorRevision
  <2> DEFINE d == Descending(history)
  <2>2. Revs(history) /\ entries[row] = d[row] /\ entries[row + 1] = d[row + 1]
        /\ Cardinality(history) \in Nat /\ Shown <= Cardinality(history)
    BY <1>1, <2>1, HistoryFacts DEF PageInv, JobInv, NewestShown
  <2>3. /\ Len(d) = Cardinality(history)
        /\ \A n \in 1 .. Len(d) : d[n] \in history /\ Above(history, d[n]) = n - 1
        /\ \A n \in 1 .. Len(d), r \in history : Above(history, r) = n - 1 => r = d[n]
        /\ \A m, n \in 1 .. Len(d) : m < n => d[n] < d[m]
    BY <2>2, DescendingFacts
  <2> HIDE DEF d
  <2>4. row \in 1 .. Len(d) /\ row + 1 \in 1 .. Len(d)
    BY <1>1, <2>1, <2>2, <2>3
  <2>5. second < entries[row]
    BY <2>1, <2>2, <2>3, <2>4
  <2>6. ASSUME NEW r \in history, r < entries[row] PROVE r <= second
    <3> DEFINE n == Above(history, r) + 1
    <3>1. n \in 1 .. Len(d) /\ Above(history, r) = n - 1
      BY <2>2, <2>3, AboveFacts
    <3>2. Above(history, d[row]) < Above(history, r)
      BY <2>2, <2>3, <2>4, <2>6, AboveFacts
    <3>3. Above(history, d[row]) = row - 1
      BY <2>3, <2>4
    <3> HIDE DEF n
    <3>4. r = d[n]
      BY <2>3, <3>1
    <3>5. n >= row + 1
      BY <3>1, <3>2, <3>3
    <3>6. d[n] \in Nat /\ d[row + 1] \in Nat
      BY <2>2, <2>3, <2>4, <3>1 DEF Revs
    <3>7. n = row + 1 \/ n > row + 1
      BY <3>1, <3>5
    <3>8. n > row + 1 => d[n] < d[row + 1]
      BY <2>3, <2>4, <3>1
    <3> QED
      BY <2>1, <2>2, <3>4, <3>6, <3>7, <3>8
  <2>7. ASSUME NEW r \in newer PROVE ~(r < entries[row])
    <3>1. entries[row] \in history /\ Committed
      BY <1>1, EntriesFacts DEF PageInv, JobInv
    <3>2. entries[row] \in Nat /\ r \in Nat /\ entries[row] < r
      BY <3>1 DEF Committed, Revs
    <3> QED
      BY <3>2
  <2> QED
    BY <2>5, <2>6, <2>7
<1>8. with[1] = entries[row] /\ with[2] = second
  OBVIOUS
<1> HIDE DEF with
<1>9. with[2] # INVALID => /\ with[2] < with[1]
                           /\ \A r \in history \cup newer : r < with[1] => r <= with[2]
  BY <1>7, <1>8
<1> QED
  BY <1>6, <1>9

\* LogDlg::OnDiff, GetPriorRevision: Diff of one revision compares it with the
\* one before, also across the border of two pages.
THEOREM DiffIsOfTheChange == LogSpec => DiffShowsTheChange
<1> DEFINE Right == \A d \in Range(jobs') \ Range(jobs) :
                d.kind = "diff" /\ Cardinality(selected) = 1 /\ InOrder /\ d.with[2] # INVALID =>
                    /\ d.with[2] < d.with[1]
                    /\ \A r \in history \cup newer : r < d.with[1] => r <= d.with[2]
<1>1. LogInv /\ [LogNext]_logVars => [Right]_logVars
  <2> SUFFICES ASSUME LogInv, [LogNext]_logVars,
                      NEW d \in Range(jobs') \ Range(jobs),
                      d.kind = "diff", Cardinality(selected) = 1, InOrder, d.with[2] # INVALID
               PROVE  /\ d.with[2] < d.with[1]
                      /\ \A r \in history \cup newer : r < d.with[1] => r <= d.with[2]
    OBVIOUS
  <2>0. Sequence(jobs)
    BY DEF LogInv, PageInv, JobInv
  <2>1. ASSUME NEW job, jobs' = Append(jobs, job) PROVE d = job
    <3>1. /\ Len(jobs) \in Nat /\ Len(jobs') = Len(jobs) + 1
          /\ \A i \in 1 .. Len(jobs) : jobs'[i] = jobs[i]
          /\ jobs'[Len(jobs) + 1] = job
          /\ DOMAIN jobs' = 1 .. Len(jobs') /\ DOMAIN jobs = 1 .. Len(jobs)
      BY <2>0, <2>1, SequenceAppend
    <3>2. PICK i \in 1 .. Len(jobs') : d = jobs'[i]
      BY <3>1 DEF Range
    <3>3. i \notin 1 .. Len(jobs)
      BY <3>1, <3>2 DEF Range
    <3>4. i = Len(jobs) + 1
      BY <3>1, <3>3
    <3> QED
      BY <3>1, <3>2, <3>4
  <2>2. CASE OnDiff
    <3>1. PICK with : /\ jobs' = Append(jobs, [kind |-> "diff", with |-> with])
                      /\ with[2] # INVALID =>
                           /\ with[2] < with[1]
                           /\ \A r \in history \cup newer : r < with[1] => r <= with[2]
      BY <2>2, DiffIsOfPrior
    <3>2. d.with = with
      BY <2>1, <3>1
    <3> QED
      BY <3>1, <3>2
  <2>3. CASE OnMore
    <3>1. jobs' = Append(jobs, [kind |-> "next", start |-> next, dlg |-> dlg])
      BY <2>3 DEF OnMore
    <3>2. d.kind = "next"
      BY <2>1, <3>1
    <3> QED
      BY <3>2
  <2>4. CASE Answer
    <3>1. jobs' = Append(jobs, [kind |-> "answer", page |-> Log(history \cup newer, doing.start), dlg |-> doing.dlg])
      BY <2>4 DEF Answer
    <3>2. d.kind = "answer"
      BY <2>1, <3>1
    <3> QED
      BY <3>2
  <2>5. CASE Dispatch
    <3>1. jobs # << >> /\ jobs' = Tail(jobs)
      BY <2>5 DEF Dispatch
    <3>2. /\ Len(jobs) \in Nat /\ Len(Tail(jobs)) = Len(jobs) - 1
          /\ \A i \in 1 .. Len(jobs) - 1 : Tail(jobs)[i] = jobs[i + 1]
          /\ DOMAIN Tail(jobs) = 1 .. Len(Tail(jobs)) /\ DOMAIN jobs = 1 .. Len(jobs)
      BY <2>0, <3>1, SequenceTail
    <3>3. PICK i \in 1 .. Len(jobs) - 1 : d = jobs[i + 1]
      BY <3>1, <3>2 DEF Range
    <3>4. i + 1 \in DOMAIN jobs
      BY <3>2
    <3> QED
      BY <3>3, <3>4 DEF Range
  <2>6. CASE UNCHANGED jobs
    BY <2>6
  <2>7. OpenLog \/ Close \/ OnColClick \/ (\E row \in DOMAIN rows : Click(row) \/ CtrlClick(row))
            \/ Fail \/ Done \/ (\E r \in DOMAIN Touches : OthersCommit(r)) \/ UNCHANGED logVars
        => UNCHANGED jobs
    BY DEF OpenLog, Close, OnColClick, Click, CtrlClick, Fail, Done, OthersCommit, logVars
  <2> QED
    BY <2>2, <2>3, <2>4, <2>5, <2>6, <2>7 DEF LogNext
<1>2. LogSpec => [][Right]_logVars
  BY <1>1, LogInvInit, LogInvStep, PTL DEF LogSpec
<1> QED
  BY <1>2 DEF DiffShowsTheChange
=============================================================================
