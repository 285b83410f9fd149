------------------------------- MODULE ListLemmas -------------------------------
(***************************************************************************)
(* What the operators of Lists do, entry by entry, for lists of any length. *)
(***************************************************************************)
EXTENDS Lists, SequenceTheorems, FiniteSetTheorems, TLAPS

Entries(s) == {s[i] : i \in DOMAIN s}

(* A non-empty set of natural numbers has a least element. *)
LEMMA LeastElement ==
  ASSUME NEW P \in SUBSET Nat, P # {}
  PROVE  \E i \in P : \A j \in P : i <= j
  <1>1. PICK i \in P : \A j \in P : ~(<<j, i>> \in OpToRel(<, Nat))
    <2>1. IsWellFoundedOn(OpToRel(<, Nat), Nat) /\ P \subseteq Nat
      BY NatLessThanWellFounded
    <2> HIDE DEF OpToRel
    <2> QED
      BY <2>1, WFMin, Zenon
  <1>2. i \in Nat /\ \A j \in P : j \in Nat /\ ~(j < i)
    BY <1>1 DEF OpToRel
  <1> QED
    BY <1>2

(* A function on 1 .. n is a list of n entries. *)
LEMMA FunctionIsSeq ==
  ASSUME NEW S, NEW n \in Nat, NEW f \in [1 .. n -> S]
  PROVE  f \in Seq(S) /\ Len(f) = n
  <1>1. f \in UNION {[1 .. m -> S] : m \in Nat}
    OBVIOUS
  <1>2. f \in Seq(S)
    BY ONLY <1>1, SeqDef
  <1>3. DOMAIN f = 1 .. n /\ DOMAIN f = 1 .. Len(f) /\ Len(f) \in Nat
    BY <1>2, LenProperties
  <1> QED
    BY <1>2, <1>3

(* The piece of a list between two positions. *)
LEMMA Piece ==
  ASSUME NEW S, NEW s \in Seq(S), NEW m \in 1 .. Len(s) + 1, NEW n \in m - 1 .. Len(s)
  PROVE  /\ SubSeq(s, m, n) \in Seq(S)
         /\ Len(SubSeq(s, m, n)) = n - m + 1
         /\ \A i \in 1 .. n - m + 1 : SubSeq(s, m, n)[i] = s[m + i - 1]
  <1>1. Len(s) \in Nat
    BY LenProperties
  <1>2. \A i \in m .. n : i \in 1 .. Len(s)
    BY <1>1
  <1>3. \A i \in m .. n : s[i] \in S
    BY <1>2, ElementOfSeq
  <1>4. m \in Int /\ n \in Int /\ m <= n + 1
    BY <1>1
  <1>5. /\ SubSeq(s, m, n) \in Seq(S)
        /\ Len(SubSeq(s, m, n)) = IF m <= n THEN n - m + 1 ELSE 0
        /\ \A i \in 1 .. n - m + 1 : SubSeq(s, m, n)[i] = s[m + i - 1]
    BY ONLY <1>3, <1>4, SubSeqProperties
  <1> QED
    BY <1>4, <1>5

(* A list without its entry i: what is before it and what is behind it. *)
LEMMA EntryCutOut ==
  ASSUME NEW S, NEW s \in Seq(S), NEW i \in 1 .. Len(s)
  PROVE  /\ SubSeq(s, 1, i - 1) \o SubSeq(s, i + 1, Len(s)) \in Seq(S)
         /\ Len(SubSeq(s, 1, i - 1) \o SubSeq(s, i + 1, Len(s))) = Len(s) - 1
         /\ \A k \in 1 .. Len(s) - 1 :
              (SubSeq(s, 1, i - 1) \o SubSeq(s, i + 1, Len(s)))[k] = s[IF k < i THEN k ELSE k + 1]
  <1> DEFINE a == SubSeq(s, 1, i - 1)
             b == SubSeq(s, i + 1, Len(s))
  <1>1. Len(s) \in Nat /\ i \in Nat \ {0} /\ i <= Len(s)
    BY LenProperties
  <1>2. /\ a \in Seq(S) /\ Len(a) = i - 1
        /\ \A k \in 1 .. i - 1 : a[k] = s[k]
    <2>1. 1 \in 1 .. Len(s) + 1 /\ i - 1 \in 1 - 1 .. Len(s)
      BY <1>1
    <2>2. /\ a \in Seq(S) /\ Len(a) = i - 1 - 1 + 1
          /\ \A k \in 1 .. i - 1 - 1 + 1 : a[k] = s[1 + k - 1]
      BY <2>1, Piece
    <2> QED
      BY <1>1, <2>2
  <1>3. /\ b \in Seq(S) /\ Len(b) = Len(s) - i
        /\ \A k \in 1 .. Len(s) - i : b[k] = s[i + k]
    <2>1. i + 1 \in 1 .. Len(s) + 1 /\ Len(s) \in i + 1 - 1 .. Len(s)
      BY <1>1
    <2>2. /\ b \in Seq(S) /\ Len(b) = Len(s) - (i + 1) + 1
          /\ \A k \in 1 .. Len(s) - (i + 1) + 1 : b[k] = s[i + 1 + k - 1]
      BY <2>1, Piece
    <2> QED
      BY <1>1, <2>2
  <1> HIDE DEF a, b
  <1>4. /\ a \o b \in Seq(S) /\ Len(a \o b) = Len(a) + Len(b)
        /\ \A k \in 1 .. Len(a) + Len(b) : (a \o b)[k] = IF k <= Len(a) THEN a[k] ELSE b[k - Len(a)]
    BY <1>2, <1>3, ConcatProperties
  <1>5. ASSUME NEW k \in 1 .. Len(s) - 1
        PROVE  (a \o b)[k] = s[IF k < i THEN k ELSE k + 1]
    <2>1. CASE k < i
      BY <1>1, <1>2, <1>3, <1>4, <2>1
    <2>2. CASE ~(k < i)
      <3>1. k - (i - 1) \in 1 .. Len(s) - i /\ i + (k - (i - 1)) = k + 1 /\ ~(k <= i - 1)
        BY <1>1, <2>2
      <3>2. (a \o b)[k] = b[k - (i - 1)]
        BY <1>1, <1>2, <1>3, <1>4, <3>1
      <3> QED
        BY <1>3, <2>2, <3>1, <3>2
    <2> QED
      BY <2>1, <2>2
  <1>6. Len(a) + Len(b) = Len(s) - 1
    BY <1>1, <1>2, <1>3
  <1>7. /\ a \o b \in Seq(S) /\ Len(a \o b) = Len(s) - 1
        /\ \A k \in 1 .. Len(s) - 1 : (a \o b)[k] = s[IF k < i THEN k ELSE k + 1]
    BY ONLY <1>4, <1>5, <1>6
  <1> QED
    BY <1>7 DEF a, b

(* A list with one entry more, at k. *)
LEMMA WithOneMore ==
  ASSUME NEW S, NEW s \in Seq(S), NEW k \in 1 .. Len(s) + 1, NEW x \in S
  PROVE  /\ InsertedAt(s, k, x) \in Seq(S)
         /\ Len(InsertedAt(s, k, x)) = Len(s) + 1
         /\ \A i \in 1 .. k - 1 : InsertedAt(s, k, x)[i] = s[i]
         /\ InsertedAt(s, k, x)[k] = x
         /\ \A i \in k .. Len(s) : InsertedAt(s, k, x)[i + 1] = s[i]
  <1> DEFINE r == InsertedAt(s, k, x)
             a == SubSeq(s, 1, k - 1)
             ax == a \o <<x>>
             b == SubSeq(s, k, Len(s))
  <1>0. Len(s) \in Nat /\ k \in Nat \ {0}
    BY LenProperties
  <1>1. /\ a \in Seq(S) /\ Len(a) = k - 1
        /\ \A i \in 1 .. k - 1 : a[i] = s[i]
    BY <1>0, Piece
  <1>2. /\ b \in Seq(S) /\ Len(b) = Len(s) - k + 1
        /\ \A i \in 1 .. Len(s) - k + 1 : b[i] = s[k + i - 1]
    BY <1>0, Piece
  <1>3. <<x>> \in Seq(S) /\ Len(<<x>>) = 1 /\ <<x>>[1] = x
    OBVIOUS
  <1>4. r = ax \o b
    BY DEF InsertedAt
  <1> HIDE DEF r, a, b
  <1>5. /\ ax \in Seq(S) /\ Len(ax) = k
        /\ \A i \in 1 .. k - 1 : ax[i] = a[i]
        /\ ax[k] = x
    <2>1. /\ ax \in Seq(S) /\ Len(ax) = k - 1 + 1
          /\ \A i \in 1 .. k - 1 + 1 : ax[i] = IF i <= k - 1 THEN a[i] ELSE <<x>>[i - (k - 1)]
      BY <1>0, <1>1, <1>3, ConcatProperties
    <2>2. k \in 1 .. k - 1 + 1 /\ ~(k <= k - 1) /\ k - (k - 1) = 1
      BY <1>0
    <2>3. \A i \in 1 .. k - 1 : i \in 1 .. k - 1 + 1 /\ i <= k - 1
      BY <1>0
    <2> HIDE DEF ax
    <2>4. ax[k] = x
      BY <1>3, <2>1, <2>2
    <2>5. \A i \in 1 .. k - 1 : ax[i] = a[i]
      BY <2>1, <2>3
    <2> QED
      BY <1>0, <2>1, <2>4, <2>5
  <1> HIDE DEF ax
  <1>6. /\ r \in Seq(S) /\ Len(r) = Len(s) + 1
        /\ \A i \in 1 .. k : r[i] = ax[i]
        /\ \A i \in k .. Len(s) : r[i + 1] = b[i + 1 - k]
    <2>0. /\ ax \o b \in Seq(S) /\ Len(ax \o b) = k + Len(b)
          /\ \A i \in 1 .. k + Len(b) : (ax \o b)[i] = IF i <= k THEN ax[i] ELSE b[i - k]
      BY <1>2, <1>5, ConcatProperties
    <2>1. /\ r \in Seq(S) /\ Len(r) = k + Len(b)
          /\ \A i \in 1 .. k + Len(b) : r[i] = IF i <= k THEN ax[i] ELSE b[i - k]
      BY <1>4, <2>0
    <2>2. k + Len(b) = Len(s) + 1
      BY <1>0, <1>2
    <2>3. \A i \in 1 .. k : i \in 1 .. k + Len(b) /\ i <= k
      BY <1>0, <2>2
    <2>4. \A i \in k .. Len(s) : i + 1 \in 1 .. k + Len(b) /\ ~(i + 1 <= k)
      BY <1>0, <2>2
    <2>5. ASSUME NEW i \in k .. Len(s) PROVE r[i + 1] = b[i + 1 - k]
      <3> DEFINE j == i + 1
      <3>0. j = i + 1 /\ j - k = i + 1 - k
        OBVIOUS
      <3>1. j \in 1 .. k + Len(b) /\ ~(j <= k)
        BY <2>4
      <3> HIDE DEF j
      <3>2. r[j] = b[j - k]
        BY <2>1, <3>1
      <3> QED
        BY <3>0, <3>2
    <2>6. \A i \in 1 .. k : r[i] = ax[i]
      BY <2>1, <2>3
    <2> QED
      BY <2>1, <2>2, <2>5, <2>6
  <1>7. ASSUME NEW i \in k .. Len(s) PROVE b[i + 1 - k] = s[i]
    <2>1. i + 1 - k \in 1 .. Len(s) - k + 1 /\ k + (i + 1 - k) - 1 = i
      BY <1>0
    <2> QED
      BY <1>2, <2>1
  <1>8. \A i \in 1 .. k - 1 : r[i] = s[i]
    <2>1. \A i \in 1 .. k - 1 : i \in 1 .. k
      BY <1>0
    <2> QED
      BY <1>1, <1>5, <1>6, <2>1
  <1>9. r[k] = x
    <2>1. k \in 1 .. k
      BY <1>0
    <2> QED
      BY <1>5, <1>6, <2>1
  <1> QED
    BY <1>6, <1>7, <1>8, <1>9 DEF r

(* Insertion puts x behind every position before the first of P. *)
LEMMA InsertedBeforeProperties ==
  ASSUME NEW S, NEW s \in Seq(S), NEW P \in SUBSET DOMAIN s, NEW x \in S
  PROVE  \E k \in 1 .. Len(s) + 1 :
           /\ InsertedBefore(s, P, x) = InsertedAt(s, k, x)
           /\ \A i \in P : k <= i
           /\ k <= Len(s) => k \in P
  <1> DEFINE k == IF P = {} THEN Len(s) + 1 ELSE CHOOSE i \in P : \A j \in P : i <= j
  <1>1. Len(s) \in Nat /\ DOMAIN s = 1 .. Len(s) /\ P \in SUBSET Nat
    BY LenProperties
  <1>2. /\ k \in 1 .. Len(s) + 1
        /\ \A i \in P : k <= i
        /\ k <= Len(s) => k \in P
    <2>1. CASE P = {}
      BY <1>1, <2>1
    <2>2. CASE P # {}
      <3>1. \E i \in P : \A j \in P : i <= j
        BY <1>1, <2>2, LeastElement
      <3>2. k \in P /\ \A j \in P : k <= j
        BY <2>2, <3>1
      <3>3. k \in 1 .. Len(s) /\ k \in 1 .. Len(s) + 1
        <4> HIDE DEF k
        <4> QED
          BY <1>1, <3>2
      <3> HIDE DEF k
      <3> QED
        BY <3>2, <3>3
    <2> QED
      BY <2>1, <2>2
  <1>3. InsertedBefore(s, P, x) = InsertedAt(s, k, x)
    BY DEF InsertedBefore
  <1> HIDE DEF k
  <1> QED
    BY <1>2, <1>3

(* What is left of a list without x, which is there once, at p. *)
LEMMA WithoutOnce ==
  ASSUME NEW S, NEW s \in Seq(S), NEW p \in 1 .. Len(s),
         \A i \in 1 .. Len(s) : s[i] = s[p] => i = p
  PROVE  /\ Without(s, s[p]) \in Seq(S)
         /\ Len(Without(s, s[p])) = Len(s) - 1
         /\ \A i \in 1 .. p - 1 : Without(s, s[p])[i] = s[i]
         /\ \A i \in p .. Len(s) - 1 : Without(s, s[p])[i] = s[i + 1]
  <1> DEFINE n == Len(s)
             kept == {i \in DOMAIN s : s[i] # s[p]}
             rank(i) == Cardinality({k \in kept : k <= i})
             at(j) == IF j < p THEN j ELSE j + 1
  <1>1. n \in Nat /\ DOMAIN s = 1 .. n /\ p \in 1 .. n
    BY LenProperties
  <1>2. kept = (1 .. n) \ {p}
    BY <1>1
  <1> HIDE DEF n, kept
  <1>3. ASSUME NEW i \in kept PROVE rank(i) = IF i < p THEN i ELSE i - 1
    <2>1. i \in 1 .. n /\ i # p /\ i \in Int
      BY <1>1, <1>2
    <2>2. IsFiniteSet(1 .. i) /\ Cardinality(1 .. i) = i
      BY <2>1, FS_Interval
    <2>3. CASE i < p
      <3>1. {k \in kept : k <= i} = 1 .. i
        BY <1>1, <1>2, <2>1, <2>3
      <3> QED
        BY <2>2, <2>3, <3>1
    <2>4. CASE ~(i < p)
      <3>1. {k \in kept : k <= i} = (1 .. i) \ {p} /\ p \in 1 .. i
        BY <1>1, <1>2, <2>1, <2>4
      <3>2. Cardinality((1 .. i) \ {p}) = i - 1
        BY <2>2, <3>1, FS_RemoveElement
      <3> QED
        BY <2>4, <3>1, <3>2
    <2> QED
      BY <2>3, <2>4
  <1>4. Cardinality(kept) = n - 1
    <2>1. IsFiniteSet(1 .. n) /\ Cardinality(1 .. n) = n
      BY <1>1, FS_Interval
    <2> QED
      BY <1>1, <1>2, <2>1, FS_RemoveElement
  <1>5. ASSUME NEW j \in 1 .. n - 1
        PROVE  (CHOOSE i \in kept : rank(i) = j) = at(j)
    <2>1. at(j) \in kept
      BY <1>1, <1>2
    <2>2. rank(at(j)) = j
      BY <1>1, <1>2, <1>3, <2>1
    <2>3. ASSUME NEW i \in kept, rank(i) = j PROVE i = at(j)
      <3>1. i \in 1 .. n /\ i # p
        BY <1>1, <1>2
      <3>2. j = IF i < p THEN i ELSE i - 1
        BY <1>3, <2>3
      <3> QED
        BY <1>1, <3>1, <3>2
    <2> HIDE DEF rank, at
    <2> QED
      BY <2>1, <2>2, <2>3
  <1>6. Without(s, s[p]) = [j \in 1 .. n - 1 |-> s[at(j)]]
    <2>1. Without(s, s[p]) = [j \in 1 .. Cardinality(kept) |-> s[CHOOSE i \in kept : rank(i) = j]]
      BY DEF Without, EntriesAt, kept
    <2> HIDE DEF rank, at
    <2> QED
      BY <1>4, <1>5, <2>1
  <1>7. \A j \in 1 .. n - 1 : s[at(j)] \in S
    <2>1. \A j \in 1 .. n - 1 : at(j) \in 1 .. n
      BY <1>1
    <2> HIDE DEF at
    <2> QED
      BY <2>1, ElementOfSeq DEF n
  <1>8. [j \in 1 .. n - 1 |-> s[at(j)]] \in Seq(S) /\ n - 1 \in Nat
    <2>1. n - 1 \in Nat
      BY <1>1
    <2>2. [j \in 1 .. n - 1 |-> s[at(j)]] \in [1 .. n - 1 -> S]
      BY <1>7
    <2> QED
      BY ONLY <2>1, <2>2, FunctionIsSeq
  <1>9. Len(Without(s, s[p])) = n - 1
    BY <1>6, <1>8, LenProperties
  <1> QED
    BY <1>1, <1>6, <1>8, <1>9 DEF n

(* The entries at some positions, in the order of those. *)
LEMMA EntriesAtKept ==
  ASSUME NEW S, NEW s \in Seq(S), NEW kept \in SUBSET (DOMAIN s)
  PROVE  /\ EntriesAt(s, kept) \in Seq(S)
         /\ Entries(EntriesAt(s, kept)) = {s[i] : i \in kept}
         /\ \A i, j \in DOMAIN EntriesAt(s, kept) : i < j =>
              \E u, v \in kept :
                u < v /\ EntriesAt(s, kept)[i] = s[u] /\ EntriesAt(s, kept)[j] = s[v]
  <1> DEFINE n == Len(s)
             upto(i) == {k \in kept : k <= i}
             rank(i) == Cardinality(upto(i))
             m == Cardinality(kept)
             nth(j) == CHOOSE i \in kept : rank(i) = j
             r == EntriesAt(s, kept)
  <1>1. n \in Nat /\ DOMAIN s = 1 .. n /\ kept \subseteq 1 .. n
    BY LenProperties
  <1>2. IsFiniteSet(kept) /\ m \in Nat /\ m <= n
    <2> HIDE DEF n
    <2>1. IsFiniteSet(1 .. n) /\ Cardinality(1 .. n) = n
      BY <1>1, FS_Interval
    <2>2. IsFiniteSet(kept) /\ Cardinality(kept) <= n
      <3>1. kept \in SUBSET (1 .. n)
        BY <1>1
      <3>2. IsFiniteSet(kept) /\ Cardinality(kept) <= Cardinality(1 .. n)
        BY <2>1, <3>1, FS_Subset, Zenon
      <3> QED
        BY <2>1, <3>2
    <2> QED
      BY <2>2, FS_CardinalityType
  <1>5. r = [j \in 1 .. m |-> s[nth(j)]]
    BY DEF EntriesAt
  <1> HIDE DEF n, m, r
  <1>0. \A i \in kept : i \in Int /\ 1 <= i /\ i <= n
    BY <1>1
  <1>6. ASSUME NEW i \in Int PROVE IsFiniteSet(upto(i)) /\ rank(i) \in Nat
    BY <1>2, FS_Subset, FS_CardinalityType
  <1>7. ASSUME NEW i \in Int, NEW j \in Int, i <= j PROVE rank(i) <= rank(j)
    <2>1. upto(i) \subseteq upto(j)
      BY <1>0, <1>7
    <2> HIDE DEF upto
    <2> QED
      BY <1>6, <2>1, FS_Subset
  <1>8. ASSUME NEW i \in kept PROVE rank(i) = rank(i - 1) + 1
    <2>1. i \in Int /\ i - 1 \in Int
      BY <1>1
    <2>2. upto(i) = upto(i - 1) \cup {i} /\ i \notin upto(i - 1)
      <3>1. \A k \in kept : k <= i <=> k <= i - 1 \/ k = i
        BY <1>0, <2>1
      <3>2. ~(i <= i - 1)
        BY <2>1
      <3> QED
        BY <3>1, <3>2
    <2> HIDE DEF upto
    <2> QED
      BY <1>6, <2>1, <2>2, FS_AddElement
  <1>9. ASSUME NEW i \in kept, NEW j \in kept, i < j PROVE rank(i) < rank(j)
    <2>1. i \in Int /\ j \in Int /\ j - 1 \in Int /\ i <= j - 1
      BY <1>1, <1>9
    <2>2. rank(i) <= rank(j - 1) /\ rank(i) \in Nat /\ rank(j - 1) \in Nat
      BY <1>6, <1>7, <2>1
    <2>3. rank(j) = rank(j - 1) + 1
      BY <1>8
    <2> HIDE DEF rank
    <2> QED
      BY <2>2, <2>3
  <1>10. ASSUME NEW j \in 1 .. m PROVE \E i \in kept : rank(i) = j
    <2> DEFINE P == {i \in 1 .. n : rank(i) >= j}
    <2>1. n \in 1 .. n
      BY <1>1, <1>2
    <2>2. rank(n) = m
      <3>1. upto(n) = kept
        BY <1>0
      <3> QED
        BY <3>1 DEF m
    <2>3. n \in P /\ P \in SUBSET Nat
      <3> HIDE DEF rank
      <3> QED
        BY <1>1, <1>2, <2>1, <2>2
    <2>4. PICK i \in P : \A k \in P : i <= k
      <3> HIDE DEF P
      <3> QED
        BY <2>3, LeastElement
    <2>5. i \in 1 .. n /\ rank(i) >= j /\ i - 1 \in Int /\ i \in Int
      BY <1>1, <2>4
    <2>6. rank(i - 1) < j
      <3>1. CASE i = 1
        <4>1. upto(0) = {} /\ i - 1 = 0
          BY <1>0, <3>1
        <4>2. rank(i - 1) = 0
          BY <4>1, FS_EmptySet
        <4> HIDE DEF rank
        <4> QED
          BY <4>2
      <3>2. CASE i # 1
        <4>1. i - 1 \in 1 .. n /\ i - 1 \notin P
          <5> HIDE DEF P
          <5> QED
            BY <1>1, <2>4, <2>5, <3>2
        <4>2. rank(i - 1) \in Nat
          BY <1>6, <2>5
        <4> HIDE DEF rank
        <4> QED
          BY <4>1, <4>2
      <3> QED
        BY <3>1, <3>2
    <2>7. i \in kept
      <3> SUFFICES ASSUME i \notin kept PROVE FALSE
        OBVIOUS
      <3>1. upto(i) = upto(i - 1)
        BY <1>0, <2>5
      <3>2. rank(i) = rank(i - 1) /\ rank(i) \in Nat
        BY <1>6, <2>5, <3>1
      <3> HIDE DEF rank
      <3> QED
        BY <2>5, <2>6, <3>2
    <2>8. rank(i) = j
      <3>1. rank(i) = rank(i - 1) + 1 /\ rank(i) \in Nat /\ rank(i - 1) \in Nat
        BY <1>6, <1>8, <2>5, <2>7
      <3> HIDE DEF rank
      <3> QED
        BY <2>5, <2>6, <3>1
    <2> QED
      BY <2>7, <2>8
  <1>11. ASSUME NEW j \in 1 .. m PROVE nth(j) \in kept /\ rank(nth(j)) = j
    <2> HIDE DEF rank
    <2> QED
      BY <1>10
  <1>12. ASSUME NEW i \in kept
         PROVE  rank(i) \in 1 .. m /\ nth(rank(i)) = i
    <2>1. i \in Int /\ i - 1 \in Int
      BY <1>1
    <2>2. rank(i) <= m
      <3>1. upto(i) \subseteq kept
        OBVIOUS
      <3> HIDE DEF upto
      <3> QED
        BY <1>2, <3>1, FS_Subset DEF m
    <2>3. rank(i) \in 1 .. m
      <3>1. rank(i) = rank(i - 1) + 1 /\ rank(i) \in Nat /\ rank(i - 1) \in Nat
        BY <1>6, <1>8, <2>1
      <3> HIDE DEF rank
      <3> QED
        BY <1>2, <2>2, <3>1
    <2>4. nth(rank(i)) \in kept /\ rank(nth(rank(i))) = rank(i)
      <3> HIDE DEF rank, nth
      <3> QED
        BY <1>11, <2>3
    <2>5. \A k \in kept : rank(k) = rank(i) => k = i
      <3> SUFFICES ASSUME NEW k \in kept, rank(k) = rank(i), k # i PROVE FALSE
        OBVIOUS
      <3>1. k \in Int /\ (k < i \/ i < k)
        BY <1>0, <2>1
      <3>2. rank(k) \in Nat
        BY <1>6, <3>1
      <3> HIDE DEF rank
      <3> QED
        BY <1>9, <3>1, <3>2
    <2> HIDE DEF rank, nth
    <2> QED
      BY <2>3, <2>4, <2>5
  <1>13. r \in Seq(S) /\ DOMAIN r = 1 .. m /\ \A j \in 1 .. m : r[j] = s[nth(j)]
    <2>1. \A j \in 1 .. m : s[nth(j)] \in S
      <3> HIDE DEF nth
      <3> QED
        BY <1>1, <1>11, ElementOfSeq DEF n
    <2>2. [j \in 1 .. m |-> s[nth(j)]] \in [1 .. m -> S]
      BY <2>1
    <2>3. [j \in 1 .. m |-> s[nth(j)]] \in Seq(S)
      BY <1>2, <2>2, SeqDef
    <2> QED
      BY <1>5, <2>3
  <1> HIDE DEF nth, rank
  <1>14. Entries(r) = {s[i] : i \in kept}
    <2>1. ASSUME NEW j \in DOMAIN r PROVE \E i \in kept : r[j] = s[i]
      BY <1>11, <1>13
    <2>2. ASSUME NEW i \in kept PROVE \E j \in DOMAIN r : r[j] = s[i]
      BY <1>12, <1>13
    <2> QED
      BY <2>1, <2>2 DEF Entries
  <1>15. ASSUME NEW i \in DOMAIN r, NEW j \in DOMAIN r, i < j
         PROVE  \E u, v \in kept : u < v /\ r[i] = s[u] /\ r[j] = s[v]
    <2>1. /\ nth(i) \in kept /\ nth(j) \in kept /\ rank(nth(i)) = i /\ rank(nth(j)) = j
          /\ i \in Int /\ j \in Int
      BY <1>11, <1>13
    <2>2. nth(i) \in Int /\ nth(j) \in Int
      BY <1>0, <2>1
    <2>3. nth(i) < nth(j)
      BY <1>7, <1>15, <2>1, <2>2
    <2> QED
      BY <1>13, <2>1, <2>3
  <1> QED
    BY <1>13, <1>14, <1>15 DEF r

(* A list without x has its other entries, in the order they had. *)
LEMMA WithoutKeeps ==
  ASSUME NEW S, NEW s \in Seq(S), NEW x
  PROVE  /\ Without(s, x) \in Seq(S)
         /\ Entries(Without(s, x)) = Entries(s) \ {x}
         /\ \A i, j \in DOMAIN Without(s, x) : i < j =>
              \E u, v \in DOMAIN s : u < v /\ Without(s, x)[i] = s[u] /\ Without(s, x)[j] = s[v]
  <1> DEFINE kept == {i \in DOMAIN s : s[i] # x}
  <1>1. kept \in SUBSET (DOMAIN s)
    OBVIOUS
  <1>2. Without(s, x) = EntriesAt(s, kept)
    BY DEF Without
  <1>3. {s[i] : i \in kept} = Entries(s) \ {x}
    BY DEF Entries
  <1> HIDE DEF kept
  <1> QED
    BY <1>1, <1>2, <1>3, EntriesAtKept

(* A list with x at position k has x besides its entries, which keep their  *)
(* order.                                                                   *)
LEMMA InsertedKeeps ==
  ASSUME NEW S, NEW s \in Seq(S), NEW k \in 1 .. Len(s) + 1, NEW x \in S
  PROVE  /\ Entries(InsertedAt(s, k, x)) = Entries(s) \cup {x}
         /\ \A i, j \in DOMAIN InsertedAt(s, k, x) : i < j =>
              \/ \E u, v \in DOMAIN s :
                   u < v /\ InsertedAt(s, k, x)[i] = s[u] /\ InsertedAt(s, k, x)[j] = s[v]
              \/ \E u \in DOMAIN s :
                   u < k /\ InsertedAt(s, k, x)[i] = s[u] /\ InsertedAt(s, k, x)[j] = x
              \/ \E v \in DOMAIN s :
                   k <= v /\ InsertedAt(s, k, x)[i] = x /\ InsertedAt(s, k, x)[j] = s[v]
  <1> DEFINE n == Len(s)
             r == InsertedAt(s, k, x)
  <1>1. n \in Nat /\ DOMAIN s = 1 .. n /\ k \in 1 .. n + 1
    BY LenProperties
  <1>2. /\ r \in Seq(S) /\ Len(r) = n + 1
        /\ \A i \in 1 .. k - 1 : r[i] = s[i]
        /\ r[k] = x
        /\ \A i \in k .. n : r[i + 1] = s[i]
    BY WithOneMore
  <1>3. DOMAIN r = 1 .. n + 1
    BY <1>2, LenProperties
  <1> HIDE DEF n, r
  <1>4. ASSUME NEW i \in 1 .. n + 1
        PROVE  \/ i < k /\ i \in 1 .. n /\ r[i] = s[i]
               \/ i = k /\ r[i] = x
               \/ i > k /\ i - 1 \in k .. n /\ i - 1 \in 1 .. n /\ r[i] = s[i - 1]
    <2>1. CASE i < k
      BY <1>1, <1>2, <2>1
    <2>2. CASE i > k
      <3>1. i - 1 \in k .. n /\ i - 1 \in 1 .. n /\ (i - 1) + 1 = i
        BY <1>1, <2>2
      <3> QED
        BY <1>2, <2>2, <3>1
    <2> QED
      BY <1>1, <1>2, <2>1, <2>2
  <1>5. Entries(r) = Entries(s) \cup {x}
    <2>1. ASSUME NEW i \in 1 .. n + 1 PROVE r[i] \in Entries(s) \cup {x}
      BY <1>1, <1>4 DEF Entries
    <2>2. ASSUME NEW i \in 1 .. n PROVE s[i] \in Entries(r)
      <3>1. CASE i < k
        <4>1. i \in 1 .. k - 1 /\ i \in 1 .. n + 1
          BY <1>1, <3>1
        <4> QED
          BY <1>2, <1>3, <4>1 DEF Entries
      <3>2. CASE i >= k
        <4>1. i \in k .. n /\ i + 1 \in 1 .. n + 1
          BY <1>1, <3>2
        <4> QED
          BY <1>2, <1>3, <4>1 DEF Entries
      <3> QED
        BY <1>1, <3>1, <3>2
    <2>3. x \in Entries(r)
      BY <1>1, <1>2, <1>3 DEF Entries
    <2> QED
      BY <1>1, <1>3, <2>1, <2>2, <2>3 DEF Entries
  <1>6. ASSUME NEW i \in 1 .. n + 1, NEW j \in 1 .. n + 1, i < j
        PROVE  \/ \E u, v \in DOMAIN s : u < v /\ r[i] = s[u] /\ r[j] = s[v]
               \/ \E u \in DOMAIN s : u < k /\ r[i] = s[u] /\ r[j] = x
               \/ \E v \in DOMAIN s : k <= v /\ r[i] = x /\ r[j] = s[v]
    <2>1. CASE j < k
      BY <1>1, <1>4, <1>6, <2>1
    <2>2. CASE j = k
      BY <1>1, <1>4, <1>6, <2>2
    <2>3. CASE j > k /\ i < k
      <3>1. i \in 1 .. n /\ j - 1 \in 1 .. n /\ i < j - 1 /\ r[i] = s[i] /\ r[j] = s[j - 1]
        BY <1>1, <1>4, <2>3
      <3> QED
        BY <1>1, <3>1
    <2>4. CASE j > k /\ i = k
      <3>1. j - 1 \in 1 .. n /\ k <= j - 1 /\ r[i] = x /\ r[j] = s[j - 1]
        BY <1>1, <1>4, <2>4
      <3> QED
        BY <1>1, <3>1
    <2>5. CASE j > k /\ i > k
      <3>1. /\ i - 1 \in 1 .. n /\ j - 1 \in 1 .. n /\ i - 1 < j - 1
            /\ r[i] = s[i - 1] /\ r[j] = s[j - 1]
        BY <1>1, <1>4, <1>6, <2>5
      <3> QED
        BY <1>1, <3>1
    <2> QED
      BY <1>1, <2>1, <2>2, <2>3, <2>4, <2>5
  <1> QED
    BY <1>3, <1>5, <1>6 DEF r
================================================================================
