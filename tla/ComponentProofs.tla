---------------------------- MODULE ComponentProofs ----------------------------
(***************************************************************************)
(* Theorems about the components that MCComponents checks together, each    *)
(* by itself.                                                               *)
(***************************************************************************)
EXTENDS PriorityMutex, Transfer, Socket, Addresses, AppLog, Files, Containers, OptionParser,
        Streams, MultipartResponse, ListLemmas

(* A stack without its top. *)
LEMMA Popped ==
  ASSUME NEW S, NEW s \in Seq(S), s # <<>>
  PROVE  /\ Front(s) \in Seq(S) /\ Len(s) \in Nat \ {0} /\ Len(Front(s)) = Len(s) - 1
         /\ \A i \in DOMAIN Front(s) : i \in DOMAIN s /\ i < Len(s) /\ Front(s)[i] = s[i]
         /\ \A i \in DOMAIN s : i # Len(s) => i \in DOMAIN Front(s)
  <1>1. Len(s) \in Nat \ {0}
    BY EmptySeq, LenProperties
  <1>2. 1 \in 1 .. Len(s) + 1 /\ Len(s) - 1 \in 1 - 1 .. Len(s)
    BY <1>1
  <1>3. /\ Front(s) \in Seq(S) /\ Len(Front(s)) = Len(s) - 1 - 1 + 1
        /\ \A i \in 1 .. Len(s) - 1 - 1 + 1 : Front(s)[i] = s[1 + i - 1]
    BY <1>2, Piece DEF Front
  <1>4. DOMAIN Front(s) = 1 .. Len(s) - 1 /\ DOMAIN s = 1 .. Len(s)
    BY <1>1, <1>3, LenProperties
  <1>5. ASSUME NEW i \in DOMAIN Front(s) PROVE Front(s)[i] = s[i]
    BY <1>1, <1>3, <1>4
  <1> QED
    BY <1>1, <1>3, <1>4, <1>5

--------------------------------------------------------------------------------
(* PriorityMutex. *)

(* A list without repetitions keeps its first entry when another is removed. *)
LEMMA HeadStays ==
  ASSUME NEW S, NEW s \in Seq(S), NEW x, \A i, j \in DOMAIN s : i < j => s[i] # s[j],
         s # <<>>, s[1] # x
  PROVE  Without(s, x) # <<>> /\ Without(s, x)[1] = s[1]
  <1> DEFINE r == Without(s, x)
  <1>1. /\ r \in Seq(S) /\ Entries(r) = Entries(s) \ {x}
        /\ \A i, j \in DOMAIN r : i < j => \E u, v \in DOMAIN s : u < v /\ r[i] = s[u] /\ r[j] = s[v]
    BY WithoutKeeps
  <1>2. /\ Len(s) \in Nat \ {0} /\ Len(r) \in Nat
        /\ DOMAIN s = 1 .. Len(s) /\ DOMAIN r = 1 .. Len(r)
    BY <1>1, EmptySeq, LenProperties
  <1> HIDE DEF r
  <1>3. 1 \in DOMAIN s
    BY <1>2
  <1>4. PICK j \in DOMAIN r : r[j] = s[1]
    <2>1. s[1] \in Entries(s)
      BY <1>3 DEF Entries
    <2>2. s[1] \in Entries(r)
      BY <1>1, <2>1
    <2> QED
      BY <2>2 DEF Entries
  <1>5. j \in Nat /\ 1 <= j /\ 1 \in DOMAIN r
    BY <1>2, <1>4
  <1>6. ASSUME 1 < j PROVE FALSE
    <2>1. PICK u, v \in DOMAIN s : u < v /\ r[1] = s[u] /\ r[j] = s[v]
      BY <1>1, <1>4, <1>5, <1>6
    <2>2. u \in Nat /\ v \in Nat /\ 1 <= u /\ 1 < v
      BY <1>2, <2>1
    <2> QED
      BY <1>3, <1>4, <2>1, <2>2
  <1>7. j = 1
    BY <1>5, <1>6
  <1> QED
    BY <1>4, <1>5, <1>7 DEF r

(* What is left in line when l is removed. *)
LEMMA Removal ==
  ASSUME PriorityTypeOK, InLine, NEW l \in Locks
  PROVE  /\ Without(locks, l) \in Seq(Locks)
         /\ ToSet(Without(locks, l)) = ToSet(locks) \ {l}
         /\ \A i, j \in DOMAIN Without(locks, l) : i < j =>
              /\ priority[Without(locks, l)[i]] >= priority[Without(locks, l)[j]]
              /\ Without(locks, l)[i] # Without(locks, l)[j]
         /\ ~Locked(l) => Owner(Without(locks, l)) = Owner(locks)
  <1>1. locks \in Seq(Locks)
    BY DEF PriorityTypeOK
  <1>2. /\ Without(locks, l) \in Seq(Locks)
        /\ Entries(Without(locks, l)) = Entries(locks) \ {l}
        /\ \A i, j \in DOMAIN Without(locks, l) : i < j =>
             \E u, v \in DOMAIN locks :
               u < v /\ Without(locks, l)[i] = locks[u] /\ Without(locks, l)[j] = locks[v]
    BY <1>1, WithoutKeeps
  <1>3. ASSUME ~Locked(l) PROVE Owner(Without(locks, l)) = Owner(locks)
    <2>1. CASE locks = <<>>
      <3>1. Entries(Without(locks, l)) = {}
        BY <1>2, <2>1 DEF Entries
      <3>2. Without(locks, l) = <<>>
        <4>1. Len(Without(locks, l)) \in Nat
              /\ DOMAIN Without(locks, l) = 1 .. Len(Without(locks, l))
          BY <1>2, LenProperties
        <4>2. ASSUME Len(Without(locks, l)) # 0 PROVE FALSE
          <5>1. 1 \in DOMAIN Without(locks, l)
            BY <4>1, <4>2
          <5>2. Without(locks, l)[1] \in Entries(Without(locks, l))
            BY <5>1 DEF Entries
          <5> QED
            BY <3>1, <5>2
        <4> QED
          BY <1>2, <4>2, EmptySeq
      <3> QED
        BY <2>1, <3>2
    <2>2. CASE locks # <<>>
      <3>1. locks[1] # l
        BY <1>3, <2>2 DEF Locked, Owner
      <3>2. Without(locks, l) # <<>> /\ Without(locks, l)[1] = locks[1]
        BY <1>1, <2>2, <3>1, HeadStays DEF InLine
      <3> QED
        BY <2>2, <3>2 DEF Owner
    <2> QED
      BY <2>1, <2>2
  <1>4. ASSUME NEW i \in DOMAIN Without(locks, l), NEW j \in DOMAIN Without(locks, l), i < j
        PROVE  /\ priority[Without(locks, l)[i]] >= priority[Without(locks, l)[j]]
               /\ Without(locks, l)[i] # Without(locks, l)[j]
    <2>1. PICK u, v \in DOMAIN locks :
            u < v /\ Without(locks, l)[i] = locks[u] /\ Without(locks, l)[j] = locks[v]
      BY <1>2, <1>4
    <2> QED
      BY <2>1 DEF InLine
  <1>5. ToSet(Without(locks, l)) = ToSet(locks) \ {l}
    BY <1>2 DEF ToSet, Entries
  <1> QED
    BY <1>2, <1>3, <1>4, <1>5

(* Where l comes to stand when it is inserted. *)
LEMMA Insertion ==
  ASSUME PriorityTypeOK, InLine, NEW l \in Locks, l \notin ToSet(locks)
  PROVE  /\ Inserted(locks, l) \in Seq(Locks)
         /\ ToSet(Inserted(locks, l)) = ToSet(locks) \cup {l}
         /\ \A i, j \in DOMAIN Inserted(locks, l) : i < j =>
              /\ priority[Inserted(locks, l)[i]] >= priority[Inserted(locks, l)[j]]
              /\ Inserted(locks, l)[i] # Inserted(locks, l)[j]
         /\ Owner(Inserted(locks, l)) = {l} \/ Owner(Inserted(locks, l)) = Owner(locks)
         /\ locks = <<>> => Owner(Inserted(locks, l)) = {l}
         /\ \A i, j \in DOMAIN Inserted(locks, l) :
              /\ Inserted(locks, l)[i] \in ToSet(locks) /\ Inserted(locks, l)[j] = l
              /\ priority[Inserted(locks, l)[i]] >= priority[l]
              => i < j
  <1> DEFINE r == Inserted(locks, l)
             P == {i \in DOMAIN locks : priority[locks[i]] < priority[l]}
  <1>1. locks \in Seq(Locks) /\ P \in SUBSET DOMAIN locks
    BY DEF PriorityTypeOK
  <1>2. PICK k \in 1 .. Len(locks) + 1 :
          /\ r = InsertedAt(locks, k, l)
          /\ \A i \in P : k <= i
          /\ k <= Len(locks) => k \in P
    <2>1. r = InsertedBefore(locks, P, l) /\ l \in Locks
      BY DEF Inserted
    <2> HIDE DEF P, r
    <2> QED
      BY ONLY <1>1, <2>1, InsertedBeforeProperties
  <1>3. /\ r \in Seq(Locks) /\ Len(r) = Len(locks) + 1
    BY <1>1, <1>2, WithOneMore
  <1>4. /\ Entries(r) = Entries(locks) \cup {l}
        /\ \A i, j \in DOMAIN r : i < j =>
             \/ \E u, v \in DOMAIN locks : u < v /\ r[i] = locks[u] /\ r[j] = locks[v]
             \/ \E u \in DOMAIN locks : u < k /\ r[i] = locks[u] /\ r[j] = l
             \/ \E v \in DOMAIN locks : k <= v /\ r[i] = l /\ r[j] = locks[v]
    BY <1>1, <1>2, InsertedKeeps
  <1>5. /\ Len(locks) \in Nat /\ DOMAIN locks = 1 .. Len(locks) /\ DOMAIN r = 1 .. Len(r)
        /\ \A i \in DOMAIN locks : locks[i] \in Locks /\ locks[i] # l
    BY <1>1, <1>3, LenProperties, ElementOfSeq DEF ToSet
  <1>6. \A m \in Locks : priority[m] \in Nat
    BY PriorityMutexAssumption DEF PriorityTypeOK
  <1> HIDE DEF r
  <1>7. \A u \in DOMAIN locks : u < k => priority[locks[u]] >= priority[l]
    BY <1>2, <1>5, <1>6
  <1>8. \A v \in DOMAIN locks : k <= v => priority[locks[v]] < priority[l]
    <2> SUFFICES ASSUME NEW v \in DOMAIN locks, k <= v PROVE priority[locks[v]] < priority[l]
      OBVIOUS
    <2>1. k \in P
      BY <1>2, <1>5
    <2>2. k = v \/ priority[locks[k]] >= priority[locks[v]]
      BY <1>5, <2>1 DEF InLine
    <2> QED
      BY <1>5, <1>6, <2>1, <2>2
  <1>9. ASSUME NEW i \in DOMAIN r, NEW j \in DOMAIN r, i < j
        PROVE  priority[r[i]] >= priority[r[j]] /\ r[i] # r[j]
    <2>1. CASE \E u, v \in DOMAIN locks : u < v /\ r[i] = locks[u] /\ r[j] = locks[v]
      BY <2>1 DEF InLine
    <2>2. CASE \E u \in DOMAIN locks : u < k /\ r[i] = locks[u] /\ r[j] = l
      BY <1>5, <1>7, <2>2
    <2>3. CASE \E v \in DOMAIN locks : k <= v /\ r[i] = l /\ r[j] = locks[v]
      BY <1>5, <1>6, <1>8, <2>3
    <2> QED
      BY <1>4, <1>9, <2>1, <2>2, <2>3
  <1>10. ASSUME NEW i \in DOMAIN r, NEW j \in DOMAIN r, r[i] \in ToSet(locks), r[j] = l,
                priority[r[i]] >= priority[l]
         PROVE  i < j
    <2>1. i \in Nat /\ j \in Nat /\ r[i] # l
      BY <1>3, <1>5, <1>10
    <2>2. ASSUME j < i PROVE FALSE
      <3>1. PICK v \in DOMAIN locks : k <= v /\ r[i] = locks[v]
        BY <1>4, <1>5, <1>10, <2>1, <2>2
      <3> QED
        BY <1>5, <1>6, <1>8, <1>10, <3>1
    <2> QED
      BY <1>10, <2>1, <2>2
  <1>11. 1 \in DOMAIN r /\ Owner(r) = {r[1]}
    BY <1>3, <1>5 DEF Owner
  <1>12. r[1] = l \/ (locks # <<>> /\ r[1] = locks[1])
    <2>1. ASSUME r[1] # l PROVE locks # <<>> /\ r[1] = locks[1]
      <3>1. PICK u \in DOMAIN locks : r[1] = locks[u]
        BY <1>4, <1>11, <2>1 DEF Entries
      <3>2. 1 \in DOMAIN locks /\ u \in Nat /\ 1 <= u
        BY <1>5
      <3>3. PICK j \in DOMAIN r : r[j] = locks[1]
        BY <1>4, <3>2 DEF Entries
      <3>4. j \in Nat /\ 1 <= j
        BY <1>3, <1>5
      <3>5. ASSUME 1 < j PROVE FALSE
        <4>1. PICK a, b \in DOMAIN locks : a < b /\ r[1] = locks[a] /\ r[j] = locks[b]
          BY <1>4, <1>5, <1>11, <2>1, <3>2, <3>3, <3>5
        <4>2. a \in Nat /\ b \in Nat /\ 1 <= a /\ 1 < b
          BY <1>5, <4>1
        <4> QED
          BY <3>2, <3>3, <4>1, <4>2 DEF InLine
      <3>6. locks # <<>>
        BY <1>5, <3>2
      <3> QED
        BY <3>3, <3>4, <3>5, <3>6
    <2> QED
      BY <2>1
  <1>13. ToSet(r) = ToSet(locks) \cup {l}
    BY <1>4 DEF ToSet, Entries
  <1>14. Owner(r) = {l} \/ Owner(r) = Owner(locks)
    BY <1>11, <1>12 DEF Owner
  <1>15. locks = <<>> => Owner(r) = {l}
    BY <1>11, <1>12
  <1> QED
    BY <1>3, <1>9, <1>10, <1>13, <1>14, <1>15 DEF r

LEMMA FramesOfLocks ==
  ASSUME PriorityTypeOK, NEW i \in DOMAIN calls PROVE calls[i] \in Frames /\ calls[i].lock \in Locks
  <1>1. calls[i] \in Frames
    BY ElementOfSeq, LenProperties DEF PriorityTypeOK
  <1> QED
    BY <1>1 DEF Frames

(* A new frame for a lock that is not being unlocked goes on top. *)
LEMMA Pushed ==
  ASSUME PriorityTypeOK, UnlocksInv, NEW f, calls' = Append(calls, f),
         f \in Frames,
         MayUse(f.lock), f.op = "unlock" => NoOwnerLeaving
  PROVE  /\ calls' \in Seq(Frames)
         /\ \A i \in DOMAIN calls : i \in DOMAIN calls' /\ calls'[i] = calls[i]
         /\ \E i \in DOMAIN calls' : calls'[i] = f
         /\ \A i \in DOMAIN calls' : i \in DOMAIN calls \/ calls'[i] = f
         /\ \A i, j \in DOMAIN calls' : i < j /\ Unlocking(i)' =>
              /\ calls'[j].lock # calls'[i].lock
              /\ Unlocking(j)' => calls'[i].at = "gain"
  <1> DEFINE n == Len(calls)
  <1>1. calls \in Seq(Frames) /\ f \in Frames
    BY DEF PriorityTypeOK
  <1>2. n \in Nat /\ DOMAIN calls = 1 .. n
    BY <1>1, LenProperties
  <1>3. /\ calls' \in Seq(Frames) /\ Len(calls') = n + 1 /\ DOMAIN calls' = 1 .. n + 1
        /\ \A i \in 1 .. n : calls'[i] = calls[i]
        /\ calls'[n + 1] = f
    BY <1>1, <1>2, AppendProperties, LenProperties
  <1> HIDE DEF n
  <1>4. \A i \in DOMAIN calls' : i \in DOMAIN calls \/ (i = n + 1 /\ calls'[i] = f)
    BY <1>2, <1>3
  <1>5. ASSUME NEW i \in DOMAIN calls', NEW j \in DOMAIN calls', i < j, Unlocking(i)'
        PROVE  calls'[j].lock # calls'[i].lock /\ (Unlocking(j)' => calls'[i].at = "gain")
    <2>1. i \in DOMAIN calls /\ calls'[i] = calls[i] /\ Unlocking(i)
      BY <1>2, <1>3, <1>5 DEF Unlocking
    <2>2. CASE j \in DOMAIN calls
      <3>1. calls'[j] = calls[j] /\ (Unlocking(j)' => Unlocking(j))
        BY <1>2, <1>3, <2>2 DEF Unlocking
      <3> QED
        BY <1>5, <2>1, <2>2, <3>1 DEF UnlocksInv
    <2>3. CASE calls'[j] = f
      BY <2>1, <2>3 DEF MayUse, NoOwnerLeaving, Unlocking
    <2> QED
      BY <1>4, <2>2, <2>3
  <1>6. n + 1 \in DOMAIN calls' /\ \A i \in DOMAIN calls : i \in DOMAIN calls'
    BY <1>2, <1>3
  <1> QED
    BY <1>2, <1>3, <1>4, <1>5, <1>6

LEMMA HeadIsListed ==
  ASSUME NEW S, NEW s \in Seq(S), s # <<>> PROVE s[1] \in ToSet(s)
  <1>1. 1 \in DOMAIN s
    BY EmptySeq, LenProperties
  <1> QED
    BY <1>1 DEF ToSet

LEMMA OwnerIsListed ==
  ASSUME PriorityTypeOK, NEW m \in Locks, Locked(m) PROVE m \in ToSet(locks)
  <1>1. locks \in Seq(Locks) /\ locks # <<>> /\ m = locks[1]
    BY DEF PriorityTypeOK, Locked, Owner
  <1> QED
    BY <1>1, HeadIsListed

LEMMA CallLockStep ==
  ASSUME PriorityIInv, NEW l \in Locks, CallLock(l) PROVE PriorityIInv'
  <1> DEFINE s == IF l \in ToSet(locks) THEN locks ELSE Inserted(locks, l)
             lost == Owner(locks) \ Owner(s)
  <1> USE DEF PriorityIInv
  <1>1. UNCHANGED <<priority, attached>> /\ MayUse(l)
    BY DEF CallLock
  <1>2. /\ s \in Seq(Locks) /\ ToSet(s) = ToSet(locks) \cup {l}
        /\ \A i, j \in DOMAIN s : i < j => priority[s[i]] >= priority[s[j]] /\ s[i] # s[j]
        /\ Owner(s) = {l} \/ Owner(s) = Owner(locks)
        /\ locks = <<>> => Owner(s) = {l}
    <2>1. CASE l \in ToSet(locks)
      <3>1. locks # <<>>
        BY <2>1 DEF ToSet
      <3> QED
        BY <2>1, <3>1 DEF PriorityTypeOK, InLine
    <2>2. CASE l \notin ToSet(locks)
      BY <2>2, Insertion
    <2> QED
      BY <2>1, <2>2
  <1>3. \A m \in Locks : Locked(m) => m \in ToSet(locks)
    BY OwnerIsListed
  <1>4. \/ /\ ~attached[l] /\ locks' = locks /\ calls' = calls
           /\ knows' = [knows EXCEPT ![l] = FALSE]
        \/ /\ attached[l] /\ lost = {} /\ locks' = s /\ calls' = calls
           /\ knows' = [knows EXCEPT ![l] = l \in Owner(s)]
        \/ /\ attached[l] /\ lost # {} /\ locks' = s
           /\ knows' = [k \in Locks |-> knows[k] /\ k \notin lost]
           /\ calls' = Append(calls, Frame("lock", l, priority[l], TRUE))
    BY DEF CallLock
  <1>5. CASE ~attached[l] /\ locks' = locks /\ calls' = calls
             /\ knows' = [knows EXCEPT ![l] = FALSE]
    <2>1. PriorityTypeOK' /\ InLine'
      BY <1>1, <1>5 DEF PriorityTypeOK, InLine
    <2>2. l \notin ToSet(locks) /\ ~Locked(l)
      BY <1>3, <1>5 DEF InLine
    <2>3. \A m \in Locks : knows'[m] <=> knows[m] /\ m # l
      BY <1>5 DEF PriorityTypeOK
    <2>4. UnlocksInv'
      <3>1. \A i \in DOMAIN calls : calls[i].lock \in Locks
        BY FramesOfLocks
      <3> QED
        BY <1>5, <2>3, <3>1 DEF UnlocksInv, Unlocking
    <2>5. ToldInv'
      BY <1>5, <2>2, <2>3 DEF ToldInv, Locked
    <2> QED
      BY <2>1, <2>4, <2>5
  <1> HIDE DEF s
  <1>6. ASSUME attached[l], locks' = s
        PROVE  InLine' /\ (PriorityTypeOK => locks' \in Seq(Locks))
    BY <1>1, <1>2, <1>6 DEF InLine
  <1>7. ASSUME locks' = s, NEW i \in DOMAIN calls, Unlocking(i)
        PROVE  /\ ~knows[calls[i].lock] /\ calls[i].lock # l /\ calls[i].lock \in Locks
               /\ calls[i].at = "gain" => calls[i].lock \notin ToSet(locks')
    <2>1. calls[i].lock \in Locks
      BY FramesOfLocks
    <2>2. calls[i].lock # l
      BY <1>1, <1>7 DEF MayUse, Unlocking
    <2> QED
      BY <1>2, <1>7, <2>1, <2>2 DEF UnlocksInv
  <1>8. CASE attached[l] /\ lost = {} /\ locks' = s /\ calls' = calls
             /\ knows' = [knows EXCEPT ![l] = l \in Owner(s)]
    <2>1. \A m \in Locks : knows'[m] <=> IF m = l THEN l \in Owner(s) ELSE knows[m]
      BY <1>8 DEF PriorityTypeOK
    <2>2. PriorityTypeOK' /\ InLine'
      <3>1. knows' \in [Locks -> BOOLEAN]
        BY <1>8 DEF PriorityTypeOK
      <3> QED
        BY <1>1, <1>6, <1>8, <3>1 DEF PriorityTypeOK
    <2>3. UnlocksInv'
      <3>1. \A i \in DOMAIN calls : Unlocking(i)' <=> Unlocking(i)
        BY <1>8 DEF Unlocking
      <3> QED
        BY <1>7, <1>8, <2>1, <3>1 DEF UnlocksInv
    <2>4. \A m \in Locks : m # l => (Locked(m)' <=> Locked(m))
      <3>1. CASE locks = <<>>
        BY <1>2, <1>8, <3>1 DEF Locked, Owner
      <3>2. CASE locks # <<>>
        BY <1>2, <1>8, <3>2 DEF Locked, Owner
      <3> QED
        BY <3>1, <3>2
    <2>5. Locked(l)' <=> knows'[l]
      BY <1>8, <2>1 DEF Locked
    <2> QED
      BY <1>8, <2>1, <2>2, <2>3, <2>4, <2>5 DEF ToldInv
  <1>9. CASE attached[l] /\ lost # {} /\ locks' = s
             /\ knows' = [k \in Locks |-> knows[k] /\ k \notin lost]
             /\ calls' = Append(calls, Frame("lock", l, priority[l], TRUE))
    <2> DEFINE f == Frame("lock", l, priority[l], TRUE)
    <2>0. f \in Frames
      BY DEF Frame, Frames, PriorityTypeOK
    <2>1. f.op = "lock" /\ f.lock = l /\ f.at = "lose"
      BY DEF Frame
    <2> HIDE DEF f
    <2>2. /\ calls' \in Seq(Frames)
          /\ \A i \in DOMAIN calls : i \in DOMAIN calls' /\ calls'[i] = calls[i]
          /\ \E i \in DOMAIN calls' : calls'[i] = f
          /\ \A i \in DOMAIN calls' : i \in DOMAIN calls \/ calls'[i] = f
          /\ \A i, j \in DOMAIN calls' : i < j /\ Unlocking(i)' =>
               /\ calls'[j].lock # calls'[i].lock
               /\ Unlocking(j)' => calls'[i].at = "gain"
      BY <1>1, <1>9, <2>0, <2>1, Pushed DEF f
    <2>3. \A m \in Locks : knows'[m] <=> knows[m] /\ m \notin lost
      BY <1>9
    <2>4. PriorityTypeOK' /\ InLine'
      <3>1. knows' \in [Locks -> BOOLEAN]
        BY <1>9 DEF PriorityTypeOK
      <3> QED
        BY <1>1, <1>6, <1>9, <2>2, <3>1 DEF PriorityTypeOK
    <2>5. UnlocksInv'
      <3>1. \A i \in DOMAIN calls' :
              Unlocking(i)' => i \in DOMAIN calls /\ Unlocking(i) /\ calls'[i] = calls[i]
        BY <2>1, <2>2 DEF Unlocking
      <3>2. locks' = s
        BY <1>9
      <3>3. \A i \in DOMAIN calls' : Unlocking(i)' =>
              ~knows'[calls'[i].lock] /\ (calls'[i].at = "gain" => calls'[i].lock \notin ToSet(locks'))
        BY <1>7, <2>3, <3>1, <3>2
      <3> QED
        BY ONLY <2>2, <3>3 DEF UnlocksInv
    <2>6. Owner(locks') = {l} /\ \A m \in Locks : Locked(m) => m \in lost
      BY <1>2, <1>9 DEF Locked, Owner
    <2>7. \A m \in Locks : ~knows'[m]
      BY <2>3, <2>6 DEF ToldInv
    <2>8. ToldInv'
      BY <2>1, <2>2, <2>6, <2>7 DEF ToldInv, Locked
    <2> QED
      BY <2>4, <2>5, <2>8
  <1> QED
    BY <1>4, <1>5, <1>8, <1>9

LEMMA CallUnlockStep ==
  ASSUME PriorityIInv, NEW l \in Locks, CallUnlock(l) PROVE PriorityIInv'
  <1> USE DEF PriorityIInv
  <1>1. PICK p \in Priorities, on \in BOOLEAN :
          /\ MayUse(l) /\ NoOwnerLeaving
          /\ IF attached[l] /\ Locked(l)
               THEN /\ calls' = Append(calls, Frame("unlock", l, p, on))
                    /\ knows' = [knows EXCEPT ![l] = FALSE]
                    /\ UNCHANGED <<locks, priority, attached>>
               ELSE /\ locks' = IF attached[l] THEN Without(locks, l) ELSE locks
                    /\ priority' = [priority EXCEPT ![l] = p]
                    /\ attached' = [attached EXCEPT ![l] = on]
                    /\ UNCHANGED <<calls, knows>>
    BY DEF CallUnlock
  <1>2. CASE attached[l] /\ Locked(l)
    <2> DEFINE f == Frame("unlock", l, p, on)
    <2>0. f \in Frames /\ f.op = "unlock" /\ f.lock = l /\ f.at = "lose"
      BY DEF Frame, Frames
    <2>1. /\ calls' = Append(calls, f) /\ UNCHANGED <<locks, priority, attached>>
          /\ knows' \in [Locks -> BOOLEAN] /\ \A m \in Locks : knows'[m] <=> knows[m] /\ m # l
      BY <1>1, <1>2 DEF PriorityTypeOK
    <2> HIDE DEF f
    <2>2. /\ calls' \in Seq(Frames)
          /\ \A i \in DOMAIN calls : i \in DOMAIN calls' /\ calls'[i] = calls[i]
          /\ \E i \in DOMAIN calls' : calls'[i] = f
          /\ \A i \in DOMAIN calls' : i \in DOMAIN calls \/ calls'[i] = f
          /\ \A i, j \in DOMAIN calls' : i < j /\ Unlocking(i)' =>
               /\ calls'[j].lock # calls'[i].lock
               /\ Unlocking(j)' => calls'[i].at = "gain"
      BY <1>1, <2>0, <2>1, Pushed
    <2>3. PriorityTypeOK' /\ InLine'
      BY <2>1, <2>2 DEF PriorityTypeOK, InLine
    <2>4. ASSUME NEW i \in DOMAIN calls', Unlocking(i)'
          PROVE  ~knows'[calls'[i].lock]
                 /\ (calls'[i].at = "gain" => calls'[i].lock \notin ToSet(locks'))
      <3>1. CASE calls'[i] = f
        BY <2>0, <2>1, <3>1
      <3>2. CASE i \in DOMAIN calls
        <4>1. calls'[i] = calls[i] /\ Unlocking(i) /\ calls[i].lock \in Locks
          BY <2>2, <2>4, <3>2, FramesOfLocks DEF Unlocking
        <4> QED
          BY <2>1, <3>2, <4>1 DEF UnlocksInv
      <3> QED
        BY <2>2, <2>4, <3>1, <3>2
    <2>5. UnlocksInv'
      BY <2>2, <2>4 DEF UnlocksInv
    <2>6. ToldInv'
      <3>1. \A m \in Locks : Locked(m)' <=> Locked(m)
        BY <2>1 DEF Locked
      <3>2. \A m \in Locks : Locked(m) => m = l
        BY <1>2 DEF Locked, Owner
      <3> QED
        BY <2>0, <2>1, <2>2, <3>1, <3>2 DEF ToldInv
    <2> QED
      BY <2>3, <2>5, <2>6
  <1>3. CASE ~(attached[l] /\ Locked(l))
    <2>1. /\ locks' = (IF attached[l] THEN Without(locks, l) ELSE locks)
          /\ priority' = [priority EXCEPT ![l] = p]
          /\ attached' = [attached EXCEPT ![l] = on]
          /\ UNCHANGED <<calls, knows>>
      BY <1>1, <1>3
    <2>2. /\ locks' \in Seq(Locks) /\ ToSet(locks') = ToSet(locks) \ {l}
          /\ \A i, j \in DOMAIN locks' : i < j =>
               /\ priority[locks'[i]] >= priority[locks'[j]] /\ locks'[i] # locks'[j]
          /\ Owner(locks') = Owner(locks)
      <3>1. CASE attached[l]
        BY <1>3, <2>1, <3>1, Removal
      <3>2. CASE ~attached[l]
        <4>1. l \notin ToSet(locks)
          BY <3>2 DEF InLine
        <4> QED
          BY <2>1, <3>2, <4>1 DEF PriorityTypeOK, InLine
      <3> QED
        BY <3>1, <3>2
    <2>3. /\ priority' \in [Locks -> Priorities] /\ \A m \in Locks : m # l => priority'[m] = priority[m]
      BY <2>1 DEF PriorityTypeOK
    <2>4. /\ attached' \in [Locks -> BOOLEAN] /\ \A m \in Locks : m # l => attached'[m] = attached[m]
      BY <2>1 DEF PriorityTypeOK
    <2>5. \A i \in DOMAIN locks' : locks'[i] \in Locks /\ locks'[i] # l /\ locks'[i] \in ToSet(locks')
      BY <2>2, ElementOfSeq, LenProperties DEF ToSet
    <2>6. PriorityTypeOK'
      BY <2>1, <2>2, <2>3, <2>4 DEF PriorityTypeOK
    <2>7. InLine'
      <3>1. \A i, j \in DOMAIN locks' : i < j =>
               priority'[locks'[i]] >= priority'[locks'[j]] /\ locks'[i] # locks'[j]
        BY <2>2, <2>3, <2>5
      <3>2. \A m \in ToSet(locks') : attached'[m]
        <4>1. \A m \in ToSet(locks') : m \in ToSet(locks) /\ m # l
          BY <2>2
        <4>2. \A m \in ToSet(locks') : m \in Locks
          BY <2>5 DEF ToSet
        <4> QED
          BY <2>4, <4>1, <4>2 DEF InLine
      <3> QED
        BY <3>1, <3>2 DEF InLine
    <2>8. UnlocksInv'
      BY <2>1, <2>2 DEF UnlocksInv, Unlocking
    <2>9. ToldInv'
      BY <2>1, <2>2 DEF ToldInv, Locked
    <2> QED
      BY <2>6, <2>7, <2>8, <2>9
  <1> QED
    BY <1>2, <1>3

LEMMA LockReturnsStep ==
  ASSUME PriorityIInv, LockReturns PROVE PriorityIInv'
  <1> DEFINE n == Len(calls)
             l == Last(calls).lock
  <1> USE DEF PriorityIInv
  <1>1. /\ calls # <<>> /\ Last(calls).op = "lock" /\ calls' = Front(calls)
        /\ knows' = [knows EXCEPT ![l] = attached[l] /\ Locked(l)]
        /\ UNCHANGED <<locks, priority, attached>>
    BY DEF LockReturns
  <1>2. /\ calls' \in Seq(Frames) /\ n \in Nat \ {0}
        /\ \A i \in DOMAIN calls' : i \in DOMAIN calls /\ i < n /\ calls'[i] = calls[i]
        /\ \A i \in DOMAIN calls : i # n => i \in DOMAIN calls'
    BY <1>1, Popped DEF PriorityTypeOK
  <1>3. n \in DOMAIN calls /\ Last(calls) = calls[n] /\ l = calls[n].lock /\ l \in Locks
    <2>1. n \in DOMAIN calls
      BY <1>2, LenProperties DEF PriorityTypeOK
    <2> QED
      BY <2>1, FramesOfLocks DEF Last
  <1> HIDE DEF l, n
  <1>4. \A m \in Locks : knows'[m] <=> IF m = l THEN attached[l] /\ Locked(l) ELSE knows[m]
    BY <1>1, <1>3 DEF PriorityTypeOK
  <1>5. PriorityTypeOK' /\ InLine'
    <2>1. knows' \in [Locks -> BOOLEAN]
      BY <1>1 DEF PriorityTypeOK
    <2> QED
      BY <1>1, <1>2, <2>1 DEF PriorityTypeOK, InLine
  <1>6. UnlocksInv'
    <2>1. ASSUME NEW i \in DOMAIN calls', Unlocking(i)'
          PROVE  /\ i \in DOMAIN calls /\ calls'[i] = calls[i] /\ Unlocking(i)
                 /\ calls[i].lock \in Locks /\ calls[i].lock # l
      <3>1. i \in DOMAIN calls /\ i < n /\ calls'[i] = calls[i] /\ Unlocking(i)
        BY <1>2, <2>1 DEF Unlocking
      <3> QED
        BY <1>3, <3>1, FramesOfLocks DEF UnlocksInv
    <2>2. \A i \in DOMAIN calls' : Unlocking(i)' =>
            /\ ~knows'[calls'[i].lock]
            /\ calls'[i].at = "gain" => calls'[i].lock \notin ToSet(locks')
      BY <1>1, <1>4, <2>1 DEF UnlocksInv
    <2>3. \A i, j \in DOMAIN calls' : i < j /\ Unlocking(i)' =>
            /\ calls'[j].lock # calls'[i].lock
            /\ Unlocking(j)' => calls'[i].at = "gain"
      BY <1>2, <2>1 DEF UnlocksInv
    <2> QED
      BY <2>2, <2>3 DEF UnlocksInv
  <1>7. ToldInv'
    <2>1. \A m \in Locks : Locked(m)' <=> Locked(m)
      BY <1>1 DEF Locked
    <2>2. Locked(l) => attached[l]
      BY OwnerIsListed, <1>3 DEF InLine
    <2>3. \A m \in Locks : Locked(m) /\ ~knows'[m] => m # l /\ ~knows[m]
      BY <1>4, <2>2
    <2>4. \A m \in Locks : Locked(m) /\ ~knows'[m] =>
            \E i \in DOMAIN calls' : calls'[i].lock = m /\ calls'[i].at = "lose"
      BY <1>2, <1>3, <2>3 DEF ToldInv
    <2> QED
      BY <1>4, <2>1, <2>4 DEF ToldInv
  <1> QED
    BY <1>5, <1>6, <1>7

LEMMA RemoveOwnerStep ==
  ASSUME PriorityIInv, RemoveOwner PROVE PriorityIInv'
  <1> DEFINE n == Len(calls)
             l == Last(calls).lock
  <1> USE DEF PriorityIInv
  <1>1. /\ calls # <<>> /\ Last(calls).op = "unlock" /\ Last(calls).at = "lose"
        /\ locks' = Without(locks, l)
        /\ knows' = [k \in Locks |-> knows[k] \/ k \in Owner(locks')]
        /\ calls' = [calls EXCEPT ![n].at = "gain"]
        /\ UNCHANGED <<priority, attached>>
    BY DEF RemoveOwner
  <1>2. n \in DOMAIN calls /\ n \in Nat /\ DOMAIN calls = 1 .. n
    BY <1>1, EmptySeq, LenProperties DEF PriorityTypeOK
  <1>3. Last(calls) = calls[n] /\ l = calls[n].lock /\ l \in Locks /\ Unlocking(n)
    BY <1>1, <1>2, FramesOfLocks DEF Last, Unlocking
  <1>4. /\ calls' \in Seq(Frames) /\ DOMAIN calls' = DOMAIN calls
        /\ \A i \in DOMAIN calls : i # n => calls'[i] = calls[i]
        /\ calls'[n].op = "unlock" /\ calls'[n].lock = l /\ calls'[n].at = "gain"
    <2>1. calls' = [calls EXCEPT ![n] = [calls[n] EXCEPT !.at = "gain"]]
      BY <1>1
    <2>2. calls[n] \in Frames
      BY <1>2, FramesOfLocks
    <2>3. [calls[n] EXCEPT !.at = "gain"] \in Frames
      BY <2>2 DEF Frames
    <2>4. calls \in Seq(Frames)
      BY DEF PriorityTypeOK
    <2>5. calls' \in Seq(Frames)
      BY <1>2, <2>1, <2>3, <2>4, ExceptSeq
    <2>6. calls'[n] = [calls[n] EXCEPT !.at = "gain"]
      BY <1>2, <2>1, <2>4
    <2>7. calls'[n].op = "unlock" /\ calls'[n].lock = l /\ calls'[n].at = "gain"
      BY <1>3, <2>2, <2>6 DEF Frames, Unlocking
    <2> QED
      BY <1>2, <2>1, <2>4, <2>5, <2>7
  <1>5. /\ locks' \in Seq(Locks) /\ ToSet(locks') = ToSet(locks) \ {l}
        /\ \A i, j \in DOMAIN locks' : i < j =>
             /\ priority[locks'[i]] >= priority[locks'[j]] /\ locks'[i] # locks'[j]
        /\ ~Locked(l) => Owner(locks') = Owner(locks)
    BY <1>1, <1>3, Removal
  <1> HIDE DEF l, n
  <1>6. \A m \in Locks : knows'[m] <=> knows[m] \/ m \in Owner(locks')
    BY <1>1
  <1>7. PriorityTypeOK' /\ InLine'
    <2>1. knows' \in [Locks -> BOOLEAN]
      BY <1>1, <1>6 DEF PriorityTypeOK
    <2> QED
      BY <1>1, <1>4, <1>5, <2>1 DEF PriorityTypeOK, InLine
  <1>8. \A m \in Owner(locks') : m \in ToSet(locks')
    BY <1>5, HeadIsListed DEF Owner
  <1>9. UnlocksInv'
    <2>1. \A i \in DOMAIN calls : (Unlocking(i)' <=> Unlocking(i)) /\ calls'[i].lock = calls[i].lock
      BY <1>3, <1>4 DEF Unlocking
    <2>2. ASSUME NEW i \in DOMAIN calls, Unlocking(i), i # n
          PROVE  calls[i].at = "gain" /\ calls[i].lock \notin ToSet(locks)
      <3>1. i < n
        BY <1>2, <2>2
      <3> QED
        BY <1>2, <1>3, <2>2, <3>1 DEF UnlocksInv
    <2>3. ASSUME NEW i \in DOMAIN calls', Unlocking(i)'
          PROVE  ~knows'[calls'[i].lock] /\ calls'[i].lock \notin ToSet(locks')
      <3>1. /\ calls'[i].lock = calls[i].lock /\ calls[i].lock \in Locks
            /\ Unlocking(i) /\ i \in DOMAIN calls
        BY <1>4, <2>1, <2>3, FramesOfLocks
      <3>2. ~knows[calls[i].lock]
        BY <3>1 DEF UnlocksInv
      <3>3. calls[i].lock \notin ToSet(locks')
        BY <1>3, <1>5, <2>2, <3>1
      <3> QED
        BY <1>6, <1>8, <3>1, <3>2, <3>3
    <2>4. ASSUME NEW i \in DOMAIN calls', NEW j \in DOMAIN calls', i < j, Unlocking(i)'
          PROVE  /\ calls'[j].lock # calls'[i].lock
                 /\ Unlocking(j)' => calls'[i].at = "gain"
      <3>1. i \in DOMAIN calls /\ j \in DOMAIN calls /\ Unlocking(i) /\ i # n
        BY <1>2, <1>4, <2>1, <2>4
      <3> QED
        BY <1>4, <2>1, <2>4, <3>1 DEF UnlocksInv
    <2> QED
      BY <2>3, <2>4 DEF UnlocksInv
  <1>10. ToldInv'
    <2>1. ASSUME NEW m \in Locks, knows[m] PROVE m \in Owner(locks')
      <3>1. m # l /\ Locked(m)
        BY <1>2, <1>3, <2>1 DEF UnlocksInv, ToldInv
      <3>2. ~Locked(l)
        BY <3>1 DEF Locked, Owner
      <3> QED
        BY <1>5, <3>1, <3>2 DEF Locked
    <2> QED
      BY <1>6, <2>1 DEF ToldInv, Locked
  <1> QED
    BY <1>7, <1>9, <1>10

LEMMA UnlockReturnsStep ==
  ASSUME PriorityIInv, UnlockReturns PROVE PriorityIInv'
  <1> DEFINE n == Len(calls)
             f == Last(calls)
  <1> USE DEF PriorityIInv
  <1>1. /\ calls # <<>> /\ f.op = "unlock" /\ f.at = "gain" /\ calls' = Front(calls)
        /\ priority' = [priority EXCEPT ![f.lock] = f.priority]
        /\ attached' = [attached EXCEPT ![f.lock] = f.attached]
        /\ UNCHANGED <<locks, knows>>
    BY DEF UnlockReturns
  <1>2. /\ calls' \in Seq(Frames) /\ n \in Nat \ {0}
        /\ \A i \in DOMAIN calls' : i \in DOMAIN calls /\ i < n /\ calls'[i] = calls[i]
        /\ \A i \in DOMAIN calls : i # n => i \in DOMAIN calls'
    BY <1>1, Popped DEF PriorityTypeOK
  <1>3. n \in DOMAIN calls /\ f = calls[n]
    <2>1. n \in DOMAIN calls
      BY <1>2, LenProperties DEF PriorityTypeOK
    <2> QED
      BY <2>1 DEF Last
  <1>4. f.lock \in Locks /\ f.priority \in Priorities /\ f.attached \in BOOLEAN
    <2>1. f \in Frames
      BY <1>3, FramesOfLocks
    <2> QED
      BY <2>1 DEF Frames
  <1>5. f.lock \notin ToSet(locks)
    BY <1>1, <1>3 DEF UnlocksInv, Unlocking
  <1> HIDE DEF n, f
  <1>6. /\ priority' \in [Locks -> Priorities]
        /\ \A m \in Locks : m # f.lock => priority'[m] = priority[m]
    BY <1>1, <1>4 DEF PriorityTypeOK
  <1>7. /\ attached' \in [Locks -> BOOLEAN]
        /\ \A m \in Locks : m # f.lock => attached'[m] = attached[m]
    BY <1>1, <1>4 DEF PriorityTypeOK
  <1>8. PriorityTypeOK'
    BY <1>1, <1>2, <1>6, <1>7 DEF PriorityTypeOK
  <1>9. InLine'
    <2>1. \A i \in DOMAIN locks : locks[i] \in Locks /\ locks[i] # f.lock
      BY <1>5, ElementOfSeq, LenProperties DEF PriorityTypeOK, ToSet
    <2>2. \A m \in ToSet(locks) : m \in Locks /\ m # f.lock
      BY <2>1 DEF ToSet
    <2> QED
      BY <1>1, <1>6, <1>7, <2>1, <2>2 DEF InLine
  <1>10. UnlocksInv'
    <2>1. \A i \in DOMAIN calls' : Unlocking(i)' <=> Unlocking(i)
      BY <1>2 DEF Unlocking
    <2>2. \A i \in DOMAIN calls' : Unlocking(i)' =>
            /\ ~knows'[calls'[i].lock]
            /\ calls'[i].at = "gain" => calls'[i].lock \notin ToSet(locks')
      BY <1>1, <1>2, <2>1 DEF UnlocksInv
    <2>3. \A i, j \in DOMAIN calls' : i < j /\ Unlocking(i)' =>
            /\ calls'[j].lock # calls'[i].lock
            /\ Unlocking(j)' => calls'[i].at = "gain"
      BY <1>2, <2>1 DEF UnlocksInv
    <2> QED
      BY <2>2, <2>3 DEF UnlocksInv
  <1>11. ToldInv'
    BY <1>1, <1>2, <1>3 DEF ToldInv, Locked
  <1> QED
    BY <1>8, <1>9, <1>10, <1>11

LEMMA PriorityStep ==
  ASSUME PriorityIInv, [PriorityNext]_priorityVars PROVE PriorityIInv'
  <1>1. CASE UNCHANGED priorityVars
    BY <1>1 DEF priorityVars, PriorityIInv, PriorityTypeOK, InLine, UnlocksInv, Unlocking, ToldInv,
       Locked
  <1> QED
    BY <1>1, CallLockStep, CallUnlockStep, LockReturnsStep, RemoveOwnerStep, UnlockReturnsStep
    DEF PriorityNext

LEMMA PriorityStart == PriorityInit => PriorityIInv
  <1> SUFFICES ASSUME PriorityInit PROVE PriorityIInv
    OBVIOUS
  <1>1. locks = <<>> /\ calls = <<>> /\ ToSet(locks) = {} /\ DOMAIN locks = {} /\ DOMAIN calls = {}
    BY DEF PriorityInit, ToSet
  <1>2. PriorityTypeOK
    <2>1. priority \in [Locks -> Priorities]
      BY DEF PriorityInit
    <2>2. attached \in [Locks -> BOOLEAN] /\ knows \in [Locks -> BOOLEAN]
      BY DEF PriorityInit
    <2> QED
      BY <1>1, <2>1, <2>2, EmptySeq DEF PriorityTypeOK
  <1>3. \A m \in Locks : ~Locked(m) /\ ~knows[m]
    BY <1>1 DEF PriorityInit, Locked, Owner
  <1> QED
    BY <1>1, <1>2, <1>3 DEF PriorityIInv, InLine, UnlocksInv, ToldInv

(* However handlers call back, at most one lock has been told that it owns   *)
(* the mutex, and it is the owner when the last call has returned; the list  *)
(* is ordered by priority.  For any locks, priorities and depth of calls.    *)
THEOREM PriorityOwnerKnows == PrioritySpec => []OwnerKnows
  <1>1. PriorityIInv => OwnerKnows
    <2> SUFFICES ASSUME PriorityIInv PROVE OwnerKnows
      OBVIOUS
    <2>1. \A k, l \in Locks : Locked(k) /\ Locked(l) => k = l
      BY DEF Locked, Owner
    <2>2. calls = <<>> => \A l \in Locks : knows[l] <=> Locked(l)
      BY DEF PriorityIInv, ToldInv
    <2>3. \A i \in 2 .. Len(locks) : priority[locks[i - 1]] >= priority[locks[i]]
      <3>1. Len(locks) \in Nat /\ DOMAIN locks = 1 .. Len(locks)
        BY LenProperties DEF PriorityIInv, PriorityTypeOK
      <3>2. \A i \in 2 .. Len(locks) : i - 1 \in DOMAIN locks /\ i \in DOMAIN locks /\ i - 1 < i
        BY <3>1
      <3> QED
        BY <3>2 DEF PriorityIInv, InLine
    <2> QED
      BY <2>1, <2>2, <2>3 DEF PriorityIInv, ToldInv, OwnerKnows
  <1> QED
    BY <1>1, PriorityStart, PriorityStep, PTL DEF PrioritySpec

(* A lock goes behind those of its own priority, and no other call moves     *)
(* one in front of another.                                                  *)
LEMMA NoStepOvertakes ==
  ASSUME PriorityIInv, PriorityNext,
         NEW i \in DOMAIN locks', NEW j \in DOMAIN locks',
         locks'[i] \in ToSet(locks), locks'[j] \notin ToSet(locks),
         priority[locks'[i]] >= priority[locks'[j]]
  PROVE  i < j
  <1> USE DEF PriorityIInv
  <1>1. ASSUME NEW l \in Locks, CallLock(l) PROVE i < j
    <2>1. l \notin ToSet(locks) /\ locks' = Inserted(locks, l)
      <3>1. locks' # locks
        BY DEF ToSet
      <3> QED
        BY <1>1, <3>1 DEF CallLock
    <2>2. locks'[j] \in ToSet(locks')
      BY DEF ToSet
    <2>3. ToSet(locks') = ToSet(locks) \cup {l}
      BY <2>1, Insertion
    <2>4. locks'[j] = l
      BY <2>2, <2>3
    <2> QED
      BY <2>1, <2>4, Insertion
  <1>2. ASSUME NEW l \in Locks, locks' = Without(locks, l) PROVE FALSE
    <2>1. locks'[j] \in ToSet(locks')
      BY DEF ToSet
    <2> QED
      BY <1>2, <2>1, Removal
  <1>3. ASSUME locks' = locks PROVE FALSE
    BY <1>3 DEF ToSet
  <1>4. ASSUME RemoveOwner PROVE \E l \in Locks : locks' = Without(locks, l)
    <2>1. Len(calls) \in DOMAIN calls
      BY <1>4, EmptySeq, LenProperties DEF PriorityTypeOK, RemoveOwner
    <2>2. Last(calls).lock \in Locks
      BY <2>1, FramesOfLocks DEF Last
    <2> QED
      BY <1>4, <2>2 DEF RemoveOwner
  <1> QED
    BY <1>1, <1>2, <1>3, <1>4 DEF PriorityNext, CallUnlock, LockReturns, UnlockReturns

(* No lock is ever put in front of one of its own or a higher priority that *)
(* waited before it.                                                         *)
THEOREM PriorityNoOvertaking == PrioritySpec => NoOvertaking
  <1>1. PriorityIInv /\ [PriorityNext]_priorityVars =>
          [\A i, j \in DOMAIN locks' :
             /\ locks'[i] \in ToSet(locks) /\ locks'[j] \notin ToSet(locks)
             /\ priority[locks'[i]] >= priority[locks'[j]]
             => i < j]_priorityVars
    BY NoStepOvertakes
  <1> QED
    BY <1>1, PriorityStart, PriorityStep, PTL DEF PrioritySpec, NoOvertaking

--------------------------------------------------------------------------------
(* Transfer. *)

(* One request hears h, in sequence, and the others hear nothing new. *)
LEMMA SequenceKept ==
  ASSUME NEW r \in Requests, NEW h,
         \A q \in Requests : InSequence(q),
         \A q \in Requests : heard'[q] = IF q = r THEN h ELSE heard[q],
         \A i \in DOMAIN h : /\ h[i] = "start" => i = 1
                             /\ h[i] = "frag" => i > 1
                             /\ h[i] = "done" => i = Len(h)
  PROVE  \A q \in Requests : InSequence(q)'
  <1> SUFFICES ASSUME NEW q \in Requests PROVE InSequence(q)'
    OBVIOUS
  <1>1. CASE q = r
    <2>1. heard'[q] = h
      BY <1>1
    <2> QED
      BY <2>1 DEF InSequence
  <1>2. CASE q # r
    <2>1. heard'[q] = heard[q] /\ InSequence(q)
      BY <1>2
    <2> QED
      BY ONLY <2>1 DEF InSequence
  <1> QED
    BY <1>1, <1>2

(* A signal more, which is none of the end but in the last place. *)
LEMMA HeardMore ==
  ASSUME NEW s \in Seq({"start", "frag", "done"}), NEW x \in {"start", "frag", "done"}
  PROVE  /\ Append(s, x) \in Seq({"start", "frag", "done"})
         /\ Len(Append(s, x)) = Len(s) + 1 /\ Len(s) \in Nat
         /\ \A i \in DOMAIN Append(s, x) :
              \/ i \in DOMAIN s /\ i \in 1 .. Len(s) /\ Append(s, x)[i] = s[i]
              \/ i = Len(s) + 1 /\ Append(s, x)[i] = x
  <1>1. Len(s) \in Nat /\ DOMAIN s = 1 .. Len(s)
    BY LenProperties
  <1>2. /\ Append(s, x) \in Seq({"start", "frag", "done"})
        /\ Len(Append(s, x)) = Len(s) + 1
        /\ \A i \in 1 .. Len(s) : Append(s, x)[i] = s[i]
        /\ Append(s, x)[Len(s) + 1] = x
    BY AppendProperties
  <1>3. DOMAIN Append(s, x) = 1 .. Len(s) + 1
    BY <1>2, LenProperties
  <1> QED
    BY <1>1, <1>2, <1>3

LEMMA TransferStep ==
  ASSUME TransferIInv, [TransferNext]_transferVars PROVE TransferIInv'
  <1> USE DEF TransferIInv
  <1>0. \A r \in Requests : heard' = heard => (InSequence(r)' <=> InSequence(r))
    BY DEF InSequence
  <1>1. CASE PerformReturns \/ HandlerReturns \/ SelectTransfers
    BY <1>0, <1>1 DEF PerformReturns, HandlerReturns, SelectTransfers
  <1>2. CASE SelectReturns
    BY <1>0, <1>2 DEF SelectReturns
  <1>3. ASSUME NEW r \in Requests, NewRequest(r) PROVE TransferIInv'
    BY <1>0, <1>3 DEF NewRequest
  <1>4. ASSUME NEW r \in Requests, PerformRequest(r) PROVE TransferIInv'
    BY <1>0, <1>4 DEF PerformRequest, Pending
  <1>5. ASSUME NEW r \in Requests, DestroyRequest(r) PROVE TransferIInv'
    BY <1>0, <1>5 DEF DestroyRequest, RemoveRequest, Pending
  <1>6. ASSUME NEW r \in Requests, End(r), heard' = heard, easy[r] = "active",
               UNCHANGED <<alive, reqMap, selecting, wild>>
        PROVE  TransferIInv'
    BY <1>0, <1>6 DEF End, Pending
  <1>7. ASSUME NEW r \in Requests, EndTransfer(r) PROVE TransferIInv'
    BY <1>6, <1>7 DEF EndTransfer
  <1>8. ASSUME NEW r \in Requests, Fragment(r) PROVE TransferIInv'
    <2> DEFINE first == IF heard[r] = <<>> THEN <<"start">> ELSE heard[r]
    <2>0. heard[r] \in Seq({"start", "frag", "done"})
      OBVIOUS
    <2>1. /\ first \in Seq({"start", "frag", "done"})
          /\ \A i \in DOMAIN first :
               /\ first[i] = "start" => i = 1
               /\ first[i] = "frag" => i > 1
               /\ first[i] # "done"
          /\ Len(first) \in Nat /\ Len(first) >= 1
      <3>1. CASE heard[r] = <<>>
        BY <3>1
      <3>2. CASE heard[r] # <<>>
        <4>1. Len(heard[r]) \in Nat /\ Len(heard[r]) # 0
          BY <2>0, <3>2, EmptySeq, LenProperties
        <4> QED
          BY <1>8, <2>0, <3>2, <4>1 DEF Fragment, InSequence, Pending
      <3> QED
        BY <3>1, <3>2
    <2> HIDE DEF first
    <2>2. CASE r \in Unsaved
      <3>1. heard' = [heard EXCEPT ![r] = first] /\ End(r)
        BY <1>8, <2>2 DEF Fragment, first
      <3>2. UNCHANGED <<alive, reqMap, selecting, wild>> /\ easy[r] = "active"
        BY <1>8 DEF Fragment
      <3>3. /\ easy' \in [Requests -> {"new", "active", "done", "read", "gone"}]
            /\ \A q \in Requests : easy'[q] = IF q = r THEN "done" ELSE easy[q]
            /\ late \subseteq late' /\ (r \in late' \/ selecting)
        BY <3>1 DEF End
      <3>4. /\ heard' \in [Requests -> Seq({"start", "frag", "done"})]
            /\ \A q \in Requests : heard'[q] = IF q = r THEN first ELSE heard[q]
        BY <2>1, <3>1
      <3>5. \A q \in Requests : InSequence(q)'
        BY <2>1, <3>4, SequenceKept
      <3> QED
        BY <2>1, <3>2, <3>3, <3>4, <3>5 DEF Pending
    <2>3. CASE r \notin Unsaved
      <3>1. heard' = [heard EXCEPT ![r] = Append(first, "frag")] /\ UNCHANGED <<easy, late>>
        BY <1>8, <2>3 DEF Fragment, first
      <3>2. UNCHANGED <<alive, reqMap, selecting, wild>> /\ easy[r] = "active"
        BY <1>8 DEF Fragment
      <3>3. /\ Append(first, "frag") \in Seq({"start", "frag", "done"})
            /\ \A i \in DOMAIN Append(first, "frag") :
                 /\ Append(first, "frag")[i] = "start" => i = 1
                 /\ Append(first, "frag")[i] = "frag" => i > 1
                 /\ Append(first, "frag")[i] # "done"
        BY <2>1, HeardMore
      <3>4. /\ heard' \in [Requests -> Seq({"start", "frag", "done"})]
            /\ \A q \in Requests : heard'[q] = IF q = r THEN Append(first, "frag") ELSE heard[q]
        BY <3>1, <3>3
      <3>5. \A q \in Requests : InSequence(q)'
        BY <3>3, <3>4, SequenceKept
      <3> QED
        BY <3>1, <3>2, <3>3, <3>4, <3>5 DEF Pending
    <2> QED
      BY <2>2, <2>3
  <1>9. ASSUME NEW r \in Requests, ReadMessage(r) PROVE TransferIInv'
    <2>1. /\ easy' = [easy EXCEPT ![r] = "read"] /\ easy[r] = "done"
          /\ r \in reqMap /\ heard' = [heard EXCEPT ![r] = Append(@, "done")]
          /\ UNCHANGED <<alive, reqMap, selecting, late>>
      BY <1>9 DEF ReadMessage, Pending
    <2>6. ~wild'
      BY <1>9, <2>1 DEF ReadMessage
    <2>2. heard[r] \in Seq({"start", "frag", "done"})
      OBVIOUS
    <2>3. /\ Append(heard[r], "done") \in Seq({"start", "frag", "done"})
          /\ \A i \in DOMAIN Append(heard[r], "done") :
               /\ Append(heard[r], "done")[i] = "start" => i = 1
               /\ Append(heard[r], "done")[i] = "frag" => i > 1
               /\ Append(heard[r], "done")[i] = "done" => i = Len(Append(heard[r], "done"))
      BY <2>1, <2>2, HeardMore DEF InSequence, Pending
    <2>4. /\ heard' \in [Requests -> Seq({"start", "frag", "done"})]
          /\ \A q \in Requests : heard'[q] = IF q = r THEN Append(heard[r], "done") ELSE heard[q]
      BY <2>1, <2>3
    <2>5. \A q \in Requests : InSequence(q)'
      BY <2>3, <2>4, SequenceKept
    <2> QED
      BY <2>1, <2>4, <2>5, <2>6 DEF Pending
  <1>10. CASE UNCHANGED transferVars
    BY <1>0, <1>10 DEF transferVars
  <1> QED
    BY <1>1, <1>2, <1>3, <1>4, <1>5, <1>7, <1>8, <1>9, <1>10 DEF TransferNext

(* Whatever handlers start and destroy, no destroyed request is told of      *)
(* anything, and each one hears its body in sequence and of its end once,    *)
(* for any number of requests and fragments.                                 *)
THEOREM TransfersAreTold == TransferSpec => []EndsAreTold
  <1>1. TransferInit => TransferIInv
    BY DEF TransferInit, TransferIInv, InSequence, Pending
  <1>2. TransferIInv => EndsAreTold
    BY DEF TransferIInv, EndsAreTold
  <1> QED
    BY <1>1, <1>2, TransferStep, PTL DEF TransferSpec

--------------------------------------------------------------------------------
(* Socket. *)

(* An entry more at the end, and two ways to group three lists. *)
LEMMA Appended ==
  ASSUME NEW s \in Seq(Nat), NEW x \in Nat
  PROVE  /\ <<x>> \in Seq(Nat) /\ Append(s, x) \in Seq(Nat) /\ Append(s, x) = s \o <<x>>
  <1>1. <<x>> \in Seq(Nat)
    OBVIOUS
  <1>2. Append(s, x) \in Seq(Nat)
    BY AppendProperties
  <1>3. Append(s, x) = s \o <<x>>
    BY AppendIsConcat
  <1> QED
    BY <1>1, <1>2, <1>3

LEMMA Regrouped ==
  ASSUME NEW s \in Seq(Nat), NEW t \in Seq(Nat), NEW u \in Seq(Nat)
  PROVE  s \o (t \o u) = (s \o t) \o u /\ s \o t \in Seq(Nat)
  <1> DEFINE cat(x, y) == x \o y
  <1>1. \A S : \A x, y, z \in Seq(S) : cat(cat(x, y), z) = cat(x, cat(y, z))
    BY ConcatAssociative, Zenon
  <1>2. s \o t \in Seq(Nat)
    BY ConcatProperties
  <1> HIDE DEF cat
  <1>3. cat(cat(s, t), u) = cat(s, cat(t, u))
    BY ONLY <1>1, s \in Seq(Nat), t \in Seq(Nat), u \in Seq(Nat)
  <1> QED
    BY <1>2, <1>3 DEF cat

LEMMA FirstBytesMore ==
  ASSUME NEW n \in Nat
  PROVE  FirstBytes(n) \in Seq(Nat) /\ FirstBytes(n) \o <<n + 1>> = FirstBytes(n + 1)
  <1>1. \A m \in Nat : FirstBytes(m) \in Seq(Nat) /\ Len(FirstBytes(m)) = m
    <2> SUFFICES ASSUME NEW m \in Nat PROVE FirstBytes(m) \in Seq(Nat) /\ Len(FirstBytes(m)) = m
      OBVIOUS
    <2>1. FirstBytes(m) \in [1 .. m -> Nat]
      BY DEF FirstBytes
    <2>2. FirstBytes(m) \in Seq(Nat)
      BY <2>1, SeqDef
    <2>3. DOMAIN FirstBytes(m) = 1 .. m
      BY DEF FirstBytes
    <2>4. Len(FirstBytes(m)) \in Nat /\ 1 .. Len(FirstBytes(m)) = 1 .. m
      BY <2>2, <2>3, LenProperties
    <2> QED
      BY <2>2, <2>4
  <1> DEFINE b == FirstBytes(n)
             s == Append(b, n + 1)
             t == FirstBytes(n + 1)
  <1>2. n + 1 \in Nat /\ b \in Seq(Nat) /\ Len(b) = n /\ t \in Seq(Nat) /\ Len(t) = n + 1
    BY <1>1
  <1>3. (\A i \in 1 .. n : b[i] = i) /\ (\A i \in 1 .. n + 1 : t[i] = i)
    BY DEF FirstBytes
  <1> HIDE DEF b, t
  <1>4. /\ s \in Seq(Nat) /\ Len(s) = n + 1
        /\ \A i \in 1 .. n : s[i] = b[i]
        /\ s[n + 1] = n + 1
    BY <1>2, AppendProperties
  <1>5. s = b \o <<n + 1>>
    BY <1>2, Appended
  <1> HIDE DEF s
  <1>6. \A i \in 1 .. Len(s) : s[i] = t[i]
    BY <1>3, <1>4
  <1>7. s = t
    BY <1>2, <1>4, <1>6, SeqEqual
  <1> QED
    BY <1>2, <1>5, <1>7 DEF b, t

(* The first k entries of a list and the others. *)
LEMMA Split ==
  ASSUME NEW s \in Seq(Nat), NEW k \in 0 .. Len(s)
  PROVE  /\ SubSeq(s, 1, k) \in Seq(Nat) /\ SubSeq(s, k + 1, Len(s)) \in Seq(Nat)
         /\ SubSeq(s, 1, k) \o SubSeq(s, k + 1, Len(s)) = s
  <1>1. Len(s) \in Nat
    BY LenProperties
  <1>2. 1 \in 1 .. Len(s) + 1 /\ k \in 1 - 1 .. Len(s) /\ Len(s) \in k .. Len(s)
        /\ k + 1 \in 1 .. Len(s) + 1 /\ Len(s) \in (k + 1) - 1 .. Len(s)
    BY <1>1
  <1>3. SubSeq(s, 1, k) \in Seq(Nat) /\ SubSeq(s, k + 1, Len(s)) \in Seq(Nat)
    BY <1>2, Piece
  <1>4. SubSeq(s, 1, k) \o SubSeq(s, k + 1, Len(s)) = SubSeq(s, 1, Len(s))
    BY <1>2, ConcatAdjacentSubSeq
  <1>5. SubSeq(s, 1, Len(s)) = s
    BY SubSeqFull
  <1> QED
    BY <1>3, <1>4, <1>5

(* The output side.  What sync() sends moves from the buffer to the kernel.  *)
LEMMA Sent ==
  ASSUME SocketTypeOK, StreamsInOrder, NEW k \in 0 .. Len(out), SyncSends(k)
  PROVE  /\ wire' \in Seq(Nat) /\ Unsent(k) \in Seq(Nat)
         /\ sock = "connected" => wire' \o Unsent(k) = wire \o out
  <1>1. /\ SubSeq(out, 1, k) \in Seq(Nat) /\ Unsent(k) \in Seq(Nat)
        /\ SubSeq(out, 1, k) \o Unsent(k) = out
    BY Split DEF Unsent, SocketTypeOK
  <1>2. wire \in Seq(Nat)
    BY DEF SocketTypeOK
  <1>3. CASE sock = "connected"
    <2>1. wire' = wire \o SubSeq(out, 1, k)
      BY <1>3 DEF SyncSends
    <2>2. /\ wire \o (SubSeq(out, 1, k) \o Unsent(k)) = (wire \o SubSeq(out, 1, k)) \o Unsent(k)
          /\ wire \o SubSeq(out, 1, k) \in Seq(Nat)
      BY <1>1, <1>2, Regrouped
    <2> QED
      BY <1>1, <2>1, <2>2
  <1>4. CASE sock # "connected"
    BY <1>1, <1>2, <1>4 DEF SyncSends
  <1> QED
    BY <1>3, <1>4

LEMMA SocketStep ==
  ASSUME SocketTypeOK, StreamsInOrder, [SocketNext]_socketVars
  PROVE  SocketTypeOK' /\ StreamsInOrder'
  <1> DEFINE Goal == SocketTypeOK' /\ StreamsInOrder'
  <1>0. <<>> \in Seq(Nat) /\ 0 \in Nat /\ <<>> \o <<>> = <<>> /\ FirstBytes(0) = <<>>
    BY ConcatEmptySeq, EmptySeq DEF FirstBytes
  <1>1. CASE MakeSocket \/ Disconnect \/ Listen \/ PeerCloses
    BY <1>1 DEF MakeSocket, Disconnect, Listen, PeerCloses, SocketTypeOK, StreamsInOrder, streamVars
  <1>2. CASE Connect
    <2>1. SocketTypeOK'
      BY <1>0, <1>2 DEF Connect, NewBuffers, NewStream, SocketTypeOK, streamVars
    <2>2. StreamsInOrder'
      BY <1>0, <1>2 DEF Connect, NewBuffers, NewStream, StreamsInOrder
    <2> QED
      BY <2>1, <2>2
  <1> USE DEF SocketTypeOK
  <1>3. ASSUME NEW k \in 0 .. Len(out), SyncFails(k),
               UNCHANGED <<written, unread, arriving, inbox, got>>
        PROVE  Goal
    <2>1. out' = Unsent(k) /\ SyncSends(k) /\ (sock' = sock \/ sock' = "none")
      BY <1>3 DEF SyncFails
    <2>2. wire' \in Seq(Nat) /\ out' \in Seq(Nat) /\ (sock = "connected" => wire' \o out' = wire \o out)
      BY <2>1, Sent
    <2> QED
      BY <1>3, <2>1, <2>2 DEF StreamsInOrder
  <1>4. ASSUME SyncSends(Len(out))
        PROVE  /\ wire' \in Seq(Nat)
               /\ sock = "connected" => wire' = FirstBytes(written)
    <2>1. Len(out) \in 0 .. Len(out) /\ Unsent(Len(out)) = <<>>
      <3>1. Len(out) \in Nat
        BY LenProperties
      <3> QED
        BY <3>1, SubSeqEmpty DEF Unsent
    <2>2. /\ wire' \in Seq(Nat)
          /\ sock = "connected" => wire' \o Unsent(Len(out)) = wire \o out
      BY ONLY <1>4, <2>1, SocketTypeOK, StreamsInOrder, Sent
    <2> QED
      BY <2>1, <2>2, ConcatEmptySeq DEF StreamsInOrder
  <1>5. CASE Flush
    <2>1. CASE SyncSends(Len(out)) /\ out' = <<>> /\ sock' = sock
      <3>1. /\ wire' \in Seq(Nat) /\ out' = <<>>
            /\ sock = "connected" => wire' \o out' = FirstBytes(written)
        BY <1>4, <2>1, ConcatEmptySeq
      <3> QED
        BY <1>0, <1>5, <2>1, <3>1 DEF Flush, StreamsInOrder
    <2> QED
      BY <1>3, <1>5, <2>1 DEF Flush
  <1>6. CASE Put
    <2>1. UNCHANGED <<unread, arriving, inbox, got>>
      BY <1>6 DEF Put
    <2>2. CASE out' = Append(out, written + 1) /\ written' = written + 1 /\ UNCHANGED <<sock, wire>>
      <3>1. /\ out' = out \o <<written + 1>> /\ out' \in Seq(Nat) /\ <<written + 1>> \in Seq(Nat)
            /\ written' \in Nat
        BY <2>2, Appended
      <3>2. wire' \o out' = (wire \o out) \o <<written + 1>>
        BY <2>2, <3>1, Regrouped
      <3>3. sock = "connected" => wire' \o out' = FirstBytes(written')
        BY <2>2, <3>2, FirstBytesMore DEF StreamsInOrder
      <3> QED
        BY <2>1, <2>2, <3>1, <3>3 DEF StreamsInOrder
    <2>3. CASE SyncSends(Len(out)) /\ out' = <<written + 1>> /\ written' = written + 1 /\ sock' = sock
      <3>1. out' \in Seq(Nat) /\ written' \in Nat
        BY <2>3
      <3>2. wire' \in Seq(Nat) /\ (sock = "connected" => wire' \o out' = FirstBytes(written'))
        BY <1>4, <2>3, FirstBytesMore
      <3> QED
        BY <2>1, <2>3, <3>1, <3>2 DEF StreamsInOrder
    <2>4. CASE sock' = "none" /\ UNCHANGED <<out, written, wire>>
      BY <2>1, <2>4 DEF StreamsInOrder
    <2> QED
      BY <1>3, <1>6, <2>2, <2>3, <2>4 DEF Put
  <1>7. CASE PeerSends
    <2>1. inbox' = inbox \o <<arriving + 1>> /\ inbox' \in Seq(Nat) /\ <<arriving + 1>> \in Seq(Nat)
      BY <1>7, Appended DEF PeerSends
    <2>2. got \o unread \in Seq(Nat)
      BY ConcatProperties
    <2>3. (got \o unread) \o inbox' = ((got \o unread) \o inbox) \o <<arriving + 1>>
      BY <2>1, <2>2, Regrouped
    <2>4. sock = "connected" => (got \o unread) \o inbox' = FirstBytes(arriving + 1)
      BY <2>3, FirstBytesMore DEF StreamsInOrder
    <2>5. /\ arriving' = arriving + 1 /\ arriving' \in Nat
          /\ UNCHANGED <<sock, out, unread, written, wire, got>>
      BY <1>7 DEF PeerSends
    <2>6. SocketTypeOK'
      BY ONLY <2>1, <2>5, SocketTypeOK DEF SocketTypeOK
    <2>7. StreamsInOrder'
      <3>1. sock' = "connected" => (got' \o unread') \o inbox' = FirstBytes(arriving')
        BY ONLY <2>4, <2>5
      <3> QED
        BY ONLY <2>5, <3>1, StreamsInOrder DEF StreamsInOrder
    <2> QED
      BY <2>6, <2>7
  <1>8. CASE Get
    <2>0. UNCHANGED <<out, written, wire, arriving>>
      BY <1>8 DEF Get
    <2>1. CASE unread # <<>> /\ got' = Append(got, Head(unread)) /\ unread' = Tail(unread)
               /\ UNCHANGED <<sock, inbox>>
      <3>1. /\ Head(unread) \in Nat /\ Tail(unread) \in Seq(Nat)
            /\ unread = <<Head(unread)>> \o Tail(unread) /\ <<Head(unread)>> \in Seq(Nat)
        <4>1. Len(unread) \in Nat \ {0}
          BY <2>1, EmptySeq
        <4>2. 1 \in 1 .. Len(unread) /\ Len(unread) \in 1 .. Len(unread)
          BY <4>1
        <4>3. SubSeq(unread, 1, Len(unread)) = <<unread[1]>> \o SubSeq(unread, 1 + 1, Len(unread))
          BY <4>2, SubSeqRecursiveFirst
        <4>4. Tail(unread) = SubSeq(unread, 2, Len(unread)) /\ Head(unread) = unread[1]
          BY <2>1, TailIsSubSeq
        <4> QED
          BY <2>1, <4>3, <4>4, SubSeqFull, HeadTailProperties
      <3>2. got' = got \o <<Head(unread)>> /\ got' \in Seq(Nat)
        BY <2>1, <3>1, Appended
      <3>3. got' \o unread' = got \o unread
        <4>1. got \o (<<Head(unread)>> \o Tail(unread)) = (got \o <<Head(unread)>>) \o Tail(unread)
          BY <3>1, Regrouped
        <4> QED
          BY <2>1, <3>1, <3>2, <4>1
      <3> QED
        BY <2>0, <2>1, <3>1, <3>2, <3>3 DEF StreamsInOrder
    <2>2. ASSUME NEW n \in 1 .. Len(inbox), unread = <<>>, inbox # <<>>,
                 got' = Append(got, Head(inbox)), unread' = SubSeq(inbox, 2, n),
                 inbox' = SubSeq(inbox, n + 1, Len(inbox)), sock' = sock
          PROVE  Goal
      <3>0. Len(inbox) \in Nat \ {0}
        BY <2>2, EmptySeq
      <3>1. 1 \in 1 .. Len(inbox) /\ n \in 1 .. Len(inbox) /\ n \in 0 .. Len(inbox)
        BY <3>0
      <3>2. /\ SubSeq(inbox, 1, n) = <<Head(inbox)>> \o unread'
            /\ <<Head(inbox)>> \in Seq(Nat) /\ Head(inbox) \in Nat /\ unread' \in Seq(Nat)
        <4>1. SubSeq(inbox, 1, n) = <<inbox[1]>> \o SubSeq(inbox, 1 + 1, n)
          BY <3>1, SubSeqRecursiveFirst
        <4>2. Head(inbox) = inbox[1] /\ Head(inbox) \in Nat
          BY <2>2, HeadTailProperties
        <4>3. 2 \in 1 .. Len(inbox) + 1 /\ n \in 2 - 1 .. Len(inbox)
          BY <3>0
        <4>4. SubSeq(inbox, 2, n) \in Seq(Nat)
          BY <4>3, Piece
        <4> QED
          BY <2>2, <4>1, <4>2, <4>4
      <3>3. SubSeq(inbox, 1, n) \in Seq(Nat) /\ inbox' \in Seq(Nat) /\ SubSeq(inbox, 1, n) \o inbox' = inbox
        BY <2>2, <3>1, Split
      <3>4. got' = got \o <<Head(inbox)>> /\ got' \in Seq(Nat)
        BY <2>2, <3>2, Appended
      <3>5. got' \o unread' = got \o SubSeq(inbox, 1, n)
        <4>1. got \o (<<Head(inbox)>> \o unread') = (got \o <<Head(inbox)>>) \o unread'
          BY <3>2, Regrouped
        <4> QED
          BY <3>2, <3>4, <4>1
      <3>6. (got' \o unread') \o inbox' = got \o inbox
        <4>1. got \o (SubSeq(inbox, 1, n) \o inbox') = (got \o SubSeq(inbox, 1, n)) \o inbox'
          BY <3>3, Regrouped
        <4> QED
          BY <3>3, <3>5, <4>1
      <3>7. (got \o unread) \o inbox = got \o inbox
        BY <2>2, ConcatEmptySeq
      <3> QED
        BY <2>0, <2>2, <3>2, <3>3, <3>4, <3>6, <3>7 DEF StreamsInOrder
    <2>3. CASE sock' = "none" /\ UNCHANGED <<unread, inbox, got>>
      BY <2>0, <2>3 DEF StreamsInOrder
    <2> QED
      BY <1>8, <2>1, <2>2, <2>3 DEF Get
  <1>9. CASE UNCHANGED socketVars
    BY <1>9 DEF socketVars, streamVars, StreamsInOrder
  <1> QED
    BY <1>1, <1>2, <1>5, <1>6, <1>7, <1>8, <1>9 DEF SocketNext

(* However much the kernel takes or holds at a time and whichever call       *)
(* fails, the bytes of a connection are neither lost, repeated nor           *)
(* reordered, in both directions and for any size of the buffer.             *)
THEOREM SocketStreamsInOrder == SocketSpec => []StreamsInOrder
  <1>1. SocketInit => SocketTypeOK /\ StreamsInOrder
    BY EmptySeq DEF SocketInit, SocketTypeOK, StreamsInOrder
  <1> QED
    BY <1>1, SocketStep, PTL DEF SocketSpec

--------------------------------------------------------------------------------
(* Addresses. *)

LEMMA AddressesStep ==
  ASSUME AddressesIInv, [AddressesNext]_addressVars PROVE AddressesIInv'
  <1> USE DEF AddressesIInv, Now, Composed
  <1>1. CASE Request
    BY <1>1 DEF Request, Requested, hostVars
  <1>2. CASE Convert
    BY <1>2 DEF Convert, Requested, Converted, hostVars
  <1>3. ASSUME NEW f \in Fields, SetHost(f) \/ SetPath(f) \/ AddParam(f) PROVE AddressesIInv'
    BY <1>3 DEF SetHost, Host, SetPath, AddParam, hostVars
  <1>4. ASSUME NEW a \in IPs \cup {0}, GetIP(a) PROVE AddressesIInv'
    BY <1>4 DEF GetIP, Unknown, urlVars
  <1>5. ASSUME NEW h \in Hosts \cup {Nobody}, GetName(h) PROVE AddressesIInv'
    BY <1>5 DEF GetName, Unknown, urlVars
  <1>6. CASE UNCHANGED addressVars
    BY <1>6 DEF addressVars, urlVars
  <1> QED
    BY <1>1, <1>2, <1>3, <1>4, <1>5, <1>6 DEF AddressesNext

(* Whatever a URL and an address are set to and asked, and in whatever       *)
(* order, what they answer is of the fields as they are, for any hosts,      *)
(* fields and numbers.                                                       *)
THEOREM AddressesAnswerCurrently == AddressesSpec => []AnswersAreCurrent
  <1>1. AddressesInit => AddressesIInv
    <2> SUFFICES ASSUME AddressesInit PROVE AddressesIInv
      OBVIOUS
    <2>1. given \in [name : Hosts \cup {Nobody}, ip : IPs \cup {0}]
      BY DEF AddressesInit
    <2> QED
      BY <2>1 DEF AddressesInit, AddressesIInv
  <1>2. AddressesIInv => AnswersAreCurrent
    BY DEF AddressesIInv, AnswersAreCurrent, Requested, Converted, Now, Composed
  <1> QED
    BY <1>1, <1>2, AddressesStep, PTL DEF AddressesSpec

--------------------------------------------------------------------------------
(* Files. *)

(* A temporary name is nobody's but its file's. *)
LEMMA CopyNames ==
  /\ \A n \in Names : <<n>> \in Plain /\ Source(<<n>>) = src[n] /\ Source(<<n>>)' = src'[n]
  /\ \A d \in Plain : d \in DestNames /\ TempOf(d) \in DestNames \ Plain
                      /\ \E n \in Names : d = <<n>>
  /\ \A d \in DestNames \ Plain : Source(d) = Absent /\ Source(d)' = Absent
  <1>1. \A n \in Names : <<n>>[1] = n /\ <<n>> \in Plain
    BY DEF Plain
  <1>2. \A n \in Names : Source(<<n>>) = src[n] /\ Source(<<n>>)' = src'[n]
    BY <1>1 DEF Source
  <1>3. \A d \in Plain : \E n \in Names : d = <<n>>
    BY DEF Plain
  <1>4. \A n, m \in Names : <<n, "tmp">> # <<m>>
    OBVIOUS
  <1>5. \A n \in Names : TempOf(<<n>>) = <<n, "tmp">>
    BY <1>1 DEF TempOf
  <1>6. \A d \in Plain : d \in DestNames /\ TempOf(d) \in DestNames
    BY <1>3 DEF DestNames, Plain
  <1>7. \A d \in Plain : TempOf(d) \notin Plain
    BY <1>3, <1>4, <1>5
  <1>8. \A d \in DestNames \ Plain : Source(d) = Absent /\ Source(d)' = Absent
    BY DEF Source, Plain
  <1> QED
    BY <1>1, <1>2, <1>3, <1>6, <1>7, <1>8

LEMMA SourceStays == ASSUME src' = src PROVE \A d : Source(d)' = Source(d)
  BY DEF Source

LEMMA Texts ==
  /\ \A v \in Nat : Full(v) \in Seq(Nat) /\ Len(Full(v)) = Chunks /\ Full(v) # <<>>
                    /\ \A i \in 1 .. Chunks : Full(v)[i] \in Nat
  /\ <<>> \in Seq(Nat)
  /\ \A s \in Seq(Nat), x \in Nat : Append(s, x) \in Seq(Nat)
  /\ \A s \in Seq(Nat) : Len(s) = Chunks => SubSeq(s, 1, Chunks - 1) \in Seq(Nat)
  <1>1. ASSUME NEW v \in Nat
        PROVE  /\ Full(v) \in Seq(Nat) /\ Len(Full(v)) = Chunks /\ Full(v) # <<>>
               /\ \A i \in 1 .. Chunks : Full(v)[i] \in Nat
    <2>1. Full(v) \in [1 .. 2 -> Nat] /\ 2 \in Nat
      BY DEF Full, Chunks
    <2>2. Full(v) \in Seq(Nat)
      BY <2>1, SeqDef
    <2>3. Len(Full(v)) = 2
      <3>1. DOMAIN Full(v) = 1 .. 2
        BY <2>1
      <3>2. Len(Full(v)) \in Nat /\ DOMAIN Full(v) = 1 .. Len(Full(v))
        BY <2>2, LenProperties
      <3>3. 1 .. 2 = 1 .. Len(Full(v))
        BY <3>1, <3>2
      <3> QED
        BY <3>2, <3>3
    <2>4. Full(v) # <<>>
      <3>1. Len(<<>>) = 0
        BY EmptySeq
      <3> QED
        BY <2>3, <3>1
    <2>5. \A i \in 1 .. 2 : Full(v)[i] \in Nat
      BY <2>1
    <2> QED
      BY <2>2, <2>3, <2>4, <2>5 DEF Chunks
  <1>2. ASSUME NEW s \in Seq(Nat), Len(s) = Chunks
        PROVE  SubSeq(s, 1, Chunks - 1) \in Seq(Nat)
    <2>1. 1 \in 1 .. Len(s)
      BY <1>2 DEF Chunks
    <2>2. s[1] \in Nat
      BY <2>1, ElementOfSeq
    <2>3. 1 \in Int /\ \A i \in 1 .. 1 : s[i] \in Nat
      BY <2>2
    <2>4. SubSeq(s, 1, 1) \in Seq(Nat)
      BY <2>3, SubSeqProperties
    <2> QED
      BY <2>4 DEF Chunks
  <1> QED
    BY <1>1, <1>2, EmptySeq, AppendProperties

(* The entries that are written have the type, and time does not go back. *)
LEMMA FilesTypeStep ==
  ASSUME FilesIInv, [FilesNext]_filesVars PROVE FilesTypeOK' /\ clock <= clock'
  <1> DEFINE Typed ==
        /\ src \in [Names -> FileEntries] /\ dst \in [DestNames -> FileEntries]
        /\ clock \in Nat /\ versions \in Nat
        /\ phase \in {"idle", "purge", "sync", "copy", "erase", "rename"}
        /\ todo \subseteq DestNames /\ cur \in Plain /\ excused \subseteq DestNames
  <1> DEFINE Goal == Typed' /\ clock <= clock'
  <1>0. Typed /\ synced \in BOOLEAN /\ TextsInv /\ ProgressInv
    BY DEF FilesIInv, FilesTypeOK
  <1>synced. synced' \in BOOLEAN
    BY <1>0 DEF FilesNext, filesVars, Tick, Modify, Sync, ListingFails, Purge, Purged, SyncDir,
                SyncFile, CopyChunk, CloseTemp, EraseDest, Rename, SyncReturns, Crash, EndSync, Next
  <1>shortened. shortened' \subseteq Plain
    <2>1. shortened \subseteq Plain /\ cur \in Plain
      BY <1>0 DEF FilesIInv, FilesTypeOK
    <2> QED
      BY <2>1 DEF FilesNext, filesVars, Tick, Modify, Sync, ListingFails, Purge, Purged, SyncDir,
                  SyncFile, CopyChunk, CloseTemp, EraseDest, Rename, SyncReturns, Crash
  <1> SUFFICES Goal
    BY <1>synced, <1>shortened DEF FilesTypeOK
  <1>1. Absent \in FileEntries /\ Directory \in FileEntries
    <2>1. clock \in Nat /\ <<>> \in Seq(Nat) /\ 0 \in Nat
      BY <1>0, EmptySeq
    <2> QED
      BY ONLY <2>1 DEF Absent, Directory, FileEntries
  <1>2. ASSUME NEW s \in Seq(Nat) PROVE File(s) \in FileEntries
    <2>1. clock \in Nat
      BY <1>0
    <2> QED
      BY ONLY <2>1, s \in Seq(Nat) DEF File, FileEntries
  <1>3. ASSUME NEW d \in DestNames
        PROVE  dst[d] \in FileEntries /\ dst[d].text \in Seq(Nat) /\ dst[d].time \in Nat
    BY <1>0 DEF FileEntries
  <1>4. cur \in DestNames /\ TempOf(cur) \in DestNames /\ Temp \in FileEntries
        /\ Temp.text \in Seq(Nat)
    BY <1>0, <1>3, CopyNames DEF Temp
  <1>5. CASE Tick
    BY <1>0, <1>5 DEF Tick
  <1>6. ASSUME NEW n \in Names, Modify(n) PROVE Goal
    <2>1. File(Full(versions + 1)) \in FileEntries
      BY <1>0, <1>2, Texts
    <2>2. PICK entry \in {Absent, Directory, File(Full(versions + 1))} :
            src' = [src EXCEPT ![n] = entry]
      BY <1>0, <1>6 DEF Modify
    <2>3. src' \in [Names -> FileEntries]
      BY <1>0, <1>1, <2>1, <2>2
    <2>4. <<n>> \in DestNames
      BY <1>0, CopyNames
    <2> QED
      BY <1>0, <1>6, <2>3, <2>4 DEF Modify
  <1>7. CASE Sync \/ Purged \/ SyncReturns \/ Crash
    <2>1. todo' \subseteq DestNames
      <3>1. CASE Purged
        <4>1. todo' \subseteq Plain
          BY <3>1 DEF Purged, Plain
        <4> QED
          BY <4>1, CopyNames
      <3> QED
        BY <1>0, <1>7, <3>1 DEF Sync, SyncReturns, Crash, EndSync
    <2> QED
      BY <1>0, <1>7, <2>1 DEF Sync, Purged, SyncReturns, Crash, EndSync
  <1>8. ASSUME NEW d \in DestNames, Purge(d) \/ SyncDir(d) PROVE Goal
    <2>1. CASE PassOver({d})
      BY <1>0, <1>1, <1>8, <2>1 DEF Purge, SyncDir, EndSync, Next, PassOver
    <2>2. CASE excused' \subseteq excused
      BY <1>0, <1>1, <1>8, <2>2 DEF Purge, SyncDir, EndSync, Next
    <2> QED
      BY <1>8, <2>1, <2>2 DEF Purge, SyncDir
  <1>listing. CASE ListingFails
    BY <1>0, <1>listing DEF ListingFails, PassOver
  <1>9. ASSUME NEW d \in DestNames, SyncFile(d) PROVE Goal
    <2>1. d \in Plain /\ File(<<>>) \in FileEntries
      <3>1. Source(d).kind = "file"
        BY <1>0, <1>9 DEF SyncFile
      <3>2. Absent.kind # "file"
        BY DEF Absent
      <3> QED
        BY <1>0, <1>2, <3>1, <3>2, CopyNames, Texts
    <2>2. dst' \in [DestNames -> FileEntries]
      BY <1>0, <1>9, <2>1 DEF SyncFile
    <2> QED
      BY <1>0, <1>9, <2>1, <2>2 DEF SyncFile, EndSync, Next, PassOver
  <1>10. CASE CopyChunk
    <2>1. PICK n \in Names : cur = <<n>> /\ Source(cur) = src[n]
      BY <1>0, CopyNames
    <2>2. Len(Temp.text) + 1 \in 1 .. Chunks /\ src[n].kind = "file"
      <3>1. Len(Temp.text) \in Nat
        BY <1>4, LenProperties
      <3>2. InCopy # {}
        BY <1>0, <1>10 DEF CopyChunk, InCopy
      <3> QED
        BY <1>0, <1>10, <2>1, <3>1, <3>2 DEF CopyChunk, ProgressInv, Chunks
    <2>3. Source(cur).text[Len(Temp.text) + 1] \in Nat
      <3>1. PICK v \in 0 .. versions : src[n].text = Full(v)
        BY <1>0, <2>2 DEF TextsInv, Whole
      <3>2. v \in Nat
        BY <1>0
      <3> QED
        BY <2>1, <2>2, <3>1, <3>2, Texts
    <2>4. dst' \in [DestNames -> FileEntries]
      BY <1>0, <1>1, <1>2, <1>4, <1>10, <2>3, Texts DEF CopyChunk, Write
    <2> QED
      BY <1>0, <1>10, <2>4 DEF CopyChunk, EndSync
  <1>11. CASE CloseTemp
    <2>1. dst' \in [DestNames -> FileEntries]
      BY <1>0, <1>2, <1>4, <1>11, Texts DEF CloseTemp, Write
    <2> QED
      BY <1>0, <1>11, <2>1 DEF CloseTemp
  <1>12. CASE EraseDest
    BY <1>0, <1>1, <1>12 DEF EraseDest
  <1>13. CASE Rename
    BY <1>0, <1>1, <1>4, <1>13 DEF Rename, EndSync
  <1>14. CASE UNCHANGED filesVars
    BY <1>0, <1>14 DEF filesVars
  <1> QED
    BY <1>0, <1>5, <1>6, <1>7, <1>8, <1>listing, <1>9, <1>10, <1>11, <1>12, <1>13, <1>14 DEF FilesNext

(* A sync() keeps the texts when every entry it changes ends as no file, or  *)
(* excused and shortened, or with what the source has.                       *)
Lapsed(d) == d \in excused' /\ d \in shortened'
Untouched(d) ==
  /\ dst'[d] = dst[d]
  /\ d \in excused => d \in excused'
  /\ d \in shortened => d \in shortened'
Rewritten(d) ==
  /\ dst'[d].time <= clock
  /\ dst'[d].kind # "file" => dst'[d].text = <<>>
  /\ d \in Plain /\ ~Lapsed(d) /\ dst'[d].kind = "file" =>
       dst'[d].text = Source(d).text /\ Source(d).kind = "file"

LEMMA TextsKept ==
  ASSUME FilesTypeOK, TextsInv, clock <= clock', clock' \in Nat, UNCHANGED <<src, versions>>,
         \A d \in DestNames : Untouched(d) \/ Rewritten(d),
         \A d \in DestNames : dst'[d] \in FileEntries
  PROVE  TextsInv'
  <1> USE DEF FilesTypeOK
  <1>1. \A d : Source(d)' = Source(d)
    BY SourceStays
  <1>2. \A e : Whole(e)' <=> Whole(e)
    BY DEF Whole
  <1>3. ASSUME NEW n \in Names
        PROVE  /\ src'[n].time <= clock'
               /\ IF src'[n].kind = "file" THEN Whole(src[n])' ELSE src'[n].text = <<>>
    BY <1>2 DEF TextsInv, FileEntries
  <1>4. ASSUME NEW d \in DestNames
        PROVE  dst'[d].time <= clock' /\ (dst'[d].kind # "file" => dst'[d].text = <<>>)
    <2>1. dst[d].time \in Nat /\ dst'[d].time \in Nat
      BY DEF FileEntries
    <2> QED
      BY <2>1 DEF TextsInv, Untouched, Rewritten
  <1>5. ASSUME NEW d \in Plain, dst'[d].kind = "file"
        PROVE  /\ d \notin shortened' => Whole(dst'[d])
               /\ d \notin excused' /\ Source(d).kind = "file" /\ Source(d).time <= dst'[d].time =>
                    dst'[d].text = Source(d).text
    <2>1. PICK n \in Names : d = <<n>> /\ d \in DestNames /\ Source(d) = src[n]
      BY CopyNames
    <2>2. CASE Untouched(d)
      BY <1>5, <2>1, <2>2 DEF TextsInv, Untouched
    <2>3. CASE Rewritten(d) /\ ~Lapsed(d)
      <3>1. dst'[d].text = Source(d).text /\ Source(d).kind = "file"
        BY <1>5, <2>3 DEF Rewritten
      <3>2. Whole(Source(d))
        BY <2>1, <3>1 DEF TextsInv
      <3> QED
        BY <3>1, <3>2 DEF Whole
    <2> QED
      BY <2>1, <2>2, <2>3 DEF Lapsed
  <1> QED
    BY <1>1, <1>2, <1>3, <1>4, <1>5 DEF TextsInv

LEMMA TextsStep ==
  ASSUME FilesIInv, FilesTypeOK', clock <= clock', [FilesNext]_filesVars PROVE TextsInv'
  <1>0. FilesTypeOK /\ TextsInv /\ ProgressInv
    BY DEF FilesIInv
  <1>1. /\ clock \in Nat /\ clock' \in Nat /\ versions \in Nat /\ cur \in Plain
        /\ \A d \in DestNames : dst[d] \in FileEntries /\ dst'[d] \in FileEntries
        /\ DOMAIN dst = DestNames
    BY <1>0 DEF FilesTypeOK
  <1>2. cur \in DestNames /\ TempOf(cur) \in DestNames \ Plain
    BY <1>1, CopyNames
  <1>3. ASSUME UNCHANGED <<src, versions>>,
               \A d \in DestNames : Untouched(d) \/ Rewritten(d)
        PROVE  TextsInv'
    BY <1>0, <1>1, <1>3, TextsKept
  <1>4. CASE Tick \/ Sync \/ Purged \/ SyncReturns \/ Crash \/ UNCHANGED filesVars
    BY <1>3, <1>4 DEF Tick, Sync, Purged, SyncReturns, Crash, filesVars, Untouched
  <1>listing. CASE ListingFails
    BY <1>3, <1>listing DEF ListingFails, PassOver, Untouched
  <1>5. /\ Absent.kind = "none" /\ Absent.text = <<>> /\ Absent.time = 0 /\ 0 <= clock
        /\ Directory.kind = "dir" /\ Directory.text = <<>> /\ Directory.time = clock
        /\ \A s : File(s).kind = "file" /\ File(s).time = clock /\ File(s).text = s
    BY <1>1 DEF Absent, Directory, File
  <1>6. ASSUME NEW n \in Names, Modify(n) PROVE TextsInv'
    <2>1. PICK entry \in {Absent, Directory, File(Full(versions + 1))} :
            src' = [src EXCEPT ![n] = entry]
      BY <1>6 DEF Modify
    <2>2. /\ clock' = clock /\ dst' = dst /\ versions' = versions + 1
          /\ excused \subseteq excused' /\ shortened' = shortened
          /\ dst[<<n>>].kind = "file" /\ dst[<<n>>].time = clock => <<n>> \in excused'
      BY <1>6 DEF Modify
    <2>3. \A e : Whole(e) => Whole(e)'
      BY <1>1, <2>2 DEF Whole
    <2>4. entry.time <= clock /\ (entry.kind = "file" => entry.time = clock)
          /\ IF entry.kind = "file" THEN Whole(entry)' ELSE entry.text = <<>>
      BY <1>1, <1>5, <2>2 DEF Whole
    <2>5. \A m \in Names : src'[m] = IF m = n THEN entry ELSE src[m]
      BY <1>0, <2>1 DEF FilesTypeOK
    <2>6. \A m \in Names :
            /\ src'[m].time <= clock'
            /\ IF src'[m].kind = "file" THEN Whole(src[m])' ELSE src'[m].text = <<>>
      BY <1>0, <2>2, <2>3, <2>4, <2>5 DEF TextsInv
    <2>7. ASSUME NEW d \in Plain \ shortened', dst[d].kind = "file" PROVE Whole(dst[d])'
      BY <1>0, <2>2, <2>3, <2>7 DEF TextsInv
    <2>8. ASSUME NEW d \in Plain \ excused', dst[d].kind = "file"
          PROVE  Source(d)'.kind = "file" /\ Source(d)'.time <= dst[d].time =>
                   dst[d].text = Source(d)'.text
      <3>1. PICK m \in Names : d = <<m>> /\ d \in DestNames /\ Source(d) = src[m] /\ Source(d)' = src'[m]
        BY CopyNames
      <3>2. Source(d).kind = "file" /\ Source(d).time <= dst[d].time => dst[d].text = Source(d).text
        BY <1>0, <2>2, <2>8 DEF TextsInv
      <3>3. CASE m = n
        <4>1. dst[d].time \in Nat /\ dst[d].time <= clock /\ dst[d].time # clock
          BY <1>0, <1>1, <2>2, <2>8, <3>1, <3>3 DEF TextsInv, FileEntries
        <4> QED
          BY <1>1, <2>4, <2>5, <3>1, <3>2, <3>3, <4>1
      <3>4. CASE m # n
        BY <2>5, <3>1, <3>2, <3>4
      <3> QED
        BY <3>3, <3>4
    <2> QED
      BY <1>0, <2>2, <2>6, <2>7, <2>8 DEF TextsInv
  <1>7. ASSUME NEW d \in DestNames, Purge(d) \/ SyncDir(d) PROVE TextsInv'
    <2>1. UNCHANGED <<src, versions>>
      BY <1>7 DEF Purge, SyncDir
    <2>2. CASE dst' = dst /\ excused \subseteq excused' /\ shortened' = shortened
      BY <1>3, <2>1, <2>2 DEF Untouched
    <2>3. ASSUME NEW e \in {Absent, Directory}, dst' = [dst EXCEPT ![d] = e],
                 excused' = excused \ {d}, shortened' \in {shortened, shortened \ {d}}
          PROVE  TextsInv'
      <3>1. Rewritten(d)
        BY <1>1, <1>5, <2>3 DEF Rewritten
      <3>2. \A c \in DestNames : c # d => Untouched(c)
        BY <1>1, <2>3 DEF Untouched
      <3> QED
        BY <1>3, <2>1, <3>1, <3>2
    <2>4. ASSUME PassOver({d}) PROVE excused \subseteq excused'
      BY <2>4 DEF PassOver
    <2> QED
      BY <1>7, <2>2, <2>3, <2>4 DEF Purge, SyncDir
  <1>8. ASSUME NEW s, UNCHANGED <<src, versions, excused, shortened>>, NEW d \in DestNames \ Plain,
               dst' = [dst EXCEPT ![d] = File(s)] \/ dst' = [dst EXCEPT ![d] = Absent]
        PROVE  TextsInv'
    <2>1. Rewritten(d)
      BY <1>1, <1>5, <1>8 DEF Rewritten
    <2> QED
      BY <1>1, <1>3, <1>8, <2>1 DEF Untouched
  <1>9. ASSUME NEW d \in DestNames, SyncFile(d) PROVE TextsInv'
    <2>1. d \in Plain
      <3>1. Source(d).kind = "file"
        BY <1>9 DEF SyncFile
      <3> QED
        BY <1>5, <3>1, CopyNames
    <2>2. CASE dst' = dst
      BY <1>3, <1>9, <2>2 DEF SyncFile, PassOver, Untouched
    <2>3. CASE dst' = [dst EXCEPT ![TempOf(d)] = File(<<>>)] /\ UNCHANGED excused
      BY <1>8, <1>9, <2>1, <2>3, CopyNames DEF SyncFile
    <2> QED
      BY <1>9, <2>2, <2>3 DEF SyncFile
  <1>10. CASE CopyChunk
    BY <1>2, <1>8, <1>10 DEF CopyChunk, Write
  <1>11. CASE CloseTemp
    <2>1. CASE UNCHANGED dst
      BY <1>3, <1>11, <2>1 DEF CloseTemp, Untouched
    <2>2. CASE Write(SubSeq(Temp.text, 1, Chunks - 1))
      BY <1>2, <1>8, <1>11, <2>2 DEF CloseTemp, Write
    <2> QED
      BY <1>11, <2>1, <2>2 DEF CloseTemp
  <1>12. CASE EraseDest
    <2>1. CASE dst' = [dst EXCEPT ![cur] = Absent]
      <3>1. Rewritten(cur)
        BY <1>1, <1>2, <1>5, <2>1 DEF Rewritten
      <3> QED
        BY <1>1, <1>3, <1>12, <2>1, <3>1 DEF EraseDest, Untouched
    <2>2. CASE dst' = dst
      BY <1>3, <1>12, <2>2 DEF EraseDest, Untouched
    <2> QED
      BY <1>12, <2>1, <2>2 DEF EraseDest
  <1>13. CASE Rename
    <2>1. UNCHANGED <<src, versions, clock>>
      BY <1>13 DEF Rename
    <2>2. CASE UNCHANGED <<dst, excused, shortened>>
      BY <1>3, <2>1, <2>2 DEF Untouched
    <2> DEFINE amiss == {d \in {cur} : Temp.text # Source(cur).text}
    <2>3. CASE /\ dst' = [dst EXCEPT ![TempOf(cur)] = Absent, ![cur] = Temp]
               /\ excused' = (excused \ {cur}) \cup amiss
               /\ shortened' = (shortened \ {cur}) \cup amiss
      <3>1. Temp.kind = "file" /\ Source(cur).kind = "file" /\ Temp.time <= clock
        <4>1. InCopy # {}
          BY <1>13 DEF Rename, InCopy
        <4> QED
          BY <1>0, <1>2, <4>1 DEF ProgressInv, TextsInv, Temp
      <3>2. dst'[cur] = Temp /\ dst'[TempOf(cur)] = Absent
            /\ \A d \in DestNames : d # cur /\ d # TempOf(cur) => dst'[d] = dst[d]
        BY <1>1, <1>2, <2>3
      <3>3. Rewritten(cur)
        BY <2>3, <3>1, <3>2 DEF Rewritten, Lapsed
      <3>4. Rewritten(TempOf(cur))
        BY <1>2, <1>5, <3>2 DEF Rewritten
      <3>5. \A d \in DestNames : d # cur /\ d # TempOf(cur) => Untouched(d)
        BY <2>3, <3>2 DEF Untouched
      <3> QED
        BY <1>3, <2>1, <3>3, <3>4, <3>5
    <2> QED
      BY <1>13, <2>2, <2>3 DEF Rename
  <1> QED
    BY <1>4, <1>listing, <1>6, <1>7, <1>9, <1>10, <1>11, <1>12, <1>13 DEF FilesNext

LEMMA ProgressStep ==
  ASSUME FilesIInv, FilesTypeOK', [FilesNext]_filesVars PROVE ProgressInv'
  <1>0. FilesTypeOK /\ TextsInv /\ ProgressInv
    BY DEF FilesIInv
  <1>1. /\ cur \in Plain /\ todo \subseteq DestNames /\ DOMAIN dst = DestNames
        /\ \A d \in DestNames : dst[d] \in FileEntries
        /\ phase \in {"idle", "purge", "sync", "copy", "erase", "rename"}
    BY <1>0 DEF FilesTypeOK
  <1>2. cur \in DestNames /\ TempOf(cur) \in DestNames \ Plain /\ TempOf(cur) # cur
    BY <1>1, CopyNames
  <1>3. /\ Absent.kind = "none" /\ Absent.text = <<>>
        /\ Directory.kind = "dir" /\ Directory.text = <<>>
        /\ \A s : File(s).kind = "file"
    BY DEF Absent, Directory, File
  <1>4. phase # "idle" => ~synced
    BY <1>0 DEF ProgressInv
  <1>5. ASSUME phase' = "idle", ~synced' PROVE ProgressInv'
    BY <1>5 DEF ProgressInv, InCopy
  <1>6. CASE Tick \/ UNCHANGED filesVars
    <2>1. UNCHANGED <<src, dst, phase, todo, cur, synced, excused>>
      BY <1>6 DEF Tick, filesVars
    <2> QED
      BY <1>0, <2>1 DEF ProgressInv, InCopy, Same, Source, Temp
  <1>7. CASE Crash \/ \E n \in Names : Modify(n)
    BY <1>5, <1>7 DEF Crash, Modify, EndSync
  <1>8. CASE Sync
    <2>1. phase' = "purge" /\ ~synced' /\ dst' = dst
          /\ todo' = {d \in DestNames : dst[d].kind # "none"}
      BY <1>8 DEF Sync
    <2> QED
      BY <2>1 DEF ProgressInv, InCopy
  <1>9. ASSUME NEW d \in DestNames, Purge(d) PROVE ProgressInv'
    <2>1. phase = "purge" /\ ~synced /\ src' = src
      BY <1>4, <1>9 DEF Purge
    <2>2. CASE phase' = phase
      <3>1. todo' = todo \ {d} /\ synced' = synced
            /\ \A c \in DestNames : c # d => dst'[c] = dst[c] /\ (c \in excused => c \in excused')
        BY <1>1, <1>9, <2>1, <2>2 DEF Purge, Next, EndSync, PassOver
      <3>4. dst'[d].kind \in {"none", Source(d).kind} \/ d \in excused'
        <4>1. CASE PassOver({d}) /\ dst' = dst
          BY <2>1, <4>1 DEF PassOver
        <4>2. CASE dst' = [dst EXCEPT ![d] = Absent]
          BY <1>1, <1>3, <4>2
        <4> QED
          BY <1>9, <2>1, <2>2, <4>1, <4>2 DEF Purge, EndSync
      <3>2. \A c \in DestNames \ todo' :
              dst'[c].kind \in {"none", Source(c).kind} \/ c \in excused'
        BY <1>0, <2>1, <3>1, <3>4 DEF ProgressInv
      <3>3. phase' = "purge" /\ ~synced' /\ \A c : Source(c)' = Source(c)
        BY <2>1, <2>2, <3>1, SourceStays
      <3> QED
        BY <3>2, <3>3 DEF ProgressInv, InCopy
    <2>3. CASE EndSync(FALSE)
      BY <1>5, <2>3 DEF EndSync
    <2> QED
      BY <1>9, <2>2, <2>3 DEF Purge
  <1>10. CASE Purged
    <2>1. /\ phase = "purge" /\ todo = {} /\ phase' = "sync" /\ ~synced /\ ~synced'
          /\ UNCHANGED <<src, dst, excused>>
          /\ todo' = {<<n>> : n \in {m \in Names : src[m].kind # "none"}}
      BY <1>4, <1>10 DEF Purged
    <2>2. todo' \subseteq Plain
      BY <2>1 DEF Plain
    <2>3. ASSUME NEW d \in DestNames \ excused PROVE d \in todo' \/ Same(d)
      <3>1. dst[d].kind \in {"none", Source(d).kind}
        BY <1>0, <2>1, <2>3 DEF ProgressInv
      <3>2. CASE d \in Plain
        <4>1. PICK n \in Names : d = <<n>> /\ Source(d) = src[n]
          BY <3>2, CopyNames
        <4>2. CASE src[n].kind = "none"
          <5>1. src[n].text = <<>> /\ dst[d].text = <<>>
            BY <1>0, <2>3, <3>1, <4>1, <4>2 DEF TextsInv
          <5> QED
            BY <3>1, <4>1, <4>2, <5>1 DEF Same
        <4>3. CASE src[n].kind # "none"
          BY <2>1, <3>1, <4>1, <4>3
        <4> QED
          BY <4>2, <4>3
      <3>3. CASE d \notin Plain
        <4>1. Source(d) = Absent
          BY <2>3, <3>3, CopyNames
        <4> QED
          BY <1>0, <1>3, <2>3, <3>1, <4>1 DEF TextsInv, Same
      <3> QED
        BY <3>2, <3>3
    <2>4. \A d \in DestNames : (Same(d)' <=> Same(d)) /\ Source(d)' = Source(d)
      BY <2>1 DEF Same, Source
    <2> QED
      BY <2>1, <2>2, <2>3, <2>4 DEF ProgressInv, InCopy
  <1>listing. CASE ListingFails
    <2>1. /\ phase \in {"purge", "sync"} /\ todo' = {} /\ PassOver(todo) /\ ~synced
          /\ UNCHANGED <<src, dst, phase, cur, synced>>
      BY <1>4, <1>listing DEF ListingFails
    <2>2. \A c : Source(c)' = Source(c) /\ (Same(c)' <=> Same(c))
      BY <2>1 DEF Same, Source
    <2>3. InCopy = {} /\ InCopy' = {}
      BY <2>1 DEF InCopy
    <2>4. CASE phase = "purge"
      <3>1. \A c \in DestNames : dst[c].kind \in {"none", Source(c).kind} \/ c \in excused'
        BY <1>0, <2>1, <2>4 DEF ProgressInv, PassOver
      <3> QED
        BY <2>1, <2>2, <2>3, <2>4, <3>1 DEF ProgressInv
    <2>5. CASE phase = "sync"
      <3>1. \A c \in DestNames : c \in excused' \/ Same(c)
        BY <1>0, <2>1, <2>3, <2>5 DEF ProgressInv, PassOver
      <3> QED
        BY <2>1, <2>2, <2>3, <2>5, <3>1 DEF ProgressInv
    <2> QED
      BY <2>1, <2>4, <2>5
  <1>next. ASSUME phase = "sync", phase' = "sync", ~synced, ~synced', src' = src, NEW d \in todo,
                  todo' = todo \ {d}, d \in excused' \/ Same(d)',
                  \A c \in DestNames : c # d => dst'[c] = dst[c] /\ (c \in excused => c \in excused')
           PROVE  ProgressInv'
    <2>1. \A c : Source(c)' = Source(c)
      BY <1>next, SourceStays
    <2>2. \A c \in DestNames : c # d => (Same(c)' <=> Same(c))
      BY <1>next, <2>1 DEF Same
    <2>3. InCopy = {} /\ InCopy' = {}
      BY <1>next DEF InCopy
    <2>4. \A c \in DestNames : c \in todo' \/ c \in excused' \/ Same(c)'
      BY <1>0, <1>next, <2>2, <2>3 DEF ProgressInv
    <2> QED
      BY <1>0, <1>next, <2>3, <2>4 DEF ProgressInv
  <1>11. ASSUME NEW d \in DestNames, SyncDir(d) PROVE ProgressInv'
    <2>1. CASE EndSync(FALSE)
      BY <1>5, <2>1 DEF EndSync
    <2>2. CASE ~EndSync(FALSE)
      <3>1. /\ phase = "sync" /\ phase' = "sync" /\ ~synced /\ ~synced' /\ src' = src /\ d \in todo
            /\ todo' = todo \ {d} /\ Source(d).kind = "dir"
        <4>1. phase = "sync" /\ d \in todo /\ Source(d).kind = "dir" /\ src' = src
              /\ Next(d) /\ phase' = phase
          BY <1>11, <2>2 DEF SyncDir
        <4>2. ~synced /\ synced' = synced
          BY <1>4, <4>1 DEF Next
        <4> QED
          BY <4>1, <4>2 DEF Next
      <3>2. \A c \in DestNames : c # d => dst'[c] = dst[c] /\ (c \in excused => c \in excused')
        BY <1>1, <1>11 DEF SyncDir, PassOver
      <3>3. \A c : Source(c)' = Source(c)
        BY <3>1, SourceStays
      <3>4. CASE dst' = [dst EXCEPT ![d] = Directory]
        <4>1. d \in Plain
          BY <1>3, <3>1, CopyNames
        <4>2. Source(d).text = <<>> /\ dst'[d] = Directory
          BY <1>0, <1>1, <3>1, <3>4, <4>1, CopyNames DEF TextsInv
        <4>3. Same(d)'
          BY <1>3, <3>1, <3>3, <4>2 DEF Same
        <4> QED
          BY <1>next, <3>1, <3>2, <4>3
      <3>5. CASE PassOver({d}) /\ dst' = dst
        <4>1. d \in excused' \/ Same(d)'
          BY <3>1, <3>3, <3>5 DEF PassOver, Same
        <4> QED
          BY <1>next, <3>1, <3>2, <4>1
      <3> QED
        BY <1>11, <2>2, <3>4, <3>5 DEF SyncDir
    <2> QED
      BY <2>1, <2>2
  <1>12. ASSUME NEW d \in DestNames, SyncFile(d) PROVE ProgressInv'
    <2>1. /\ phase = "sync" /\ ~synced /\ src' = src /\ d \in todo
          /\ Source(d).kind = "file" /\ InCopy = {}
      BY <1>4, <1>12 DEF SyncFile, InCopy
    <2>2. d \in Plain
      BY <1>3, <2>1, CopyNames
    <2>3. \A c : Source(c)' = Source(c)
      BY <2>1, SourceStays
    <2>4. \A c \in DestNames : c \in todo \/ c \in excused \/ Same(c)
      BY <1>0, <2>1 DEF ProgressInv
    <2>5. CASE UpToDate(d) /\ Next(d) /\ UNCHANGED <<dst, phase, cur, excused>>
      <3>1. Same(d) \/ d \in excused
        <4>1. PICK n \in Names : Source(d) = src[n]
          BY <2>2, CopyNames
        <4>2. PICK v \in 0 .. versions : src[n].text = Full(v)
          BY <1>0, <2>1, <4>1 DEF TextsInv, Whole
        <4>3. Len(Full(v)) = Chunks /\ Len(<<>>) = 0
          BY <1>0, Texts, EmptySeq DEF FilesTypeOK
        <4>4. dst[d].kind = "file"
          BY <1>0, <2>5, <4>1, <4>2, <4>3 DEF UpToDate, TextsInv, Chunks
        <4>5. Source(d).time <= dst[d].time
          <5>1. Source(d).time \in Nat /\ dst[d].time \in Nat
            BY <1>0, <1>1, <4>1 DEF FilesTypeOK, FileEntries
          <5> QED
            BY <2>5, <5>1 DEF UpToDate
        <4> QED
          BY <1>0, <2>1, <2>2, <4>4, <4>5 DEF TextsInv, Same
      <3>2. d \in excused' \/ Same(d)'
        BY <2>3, <2>5, <3>1 DEF Same
      <3> QED
        BY <1>next, <2>1, <2>5, <3>2 DEF Next
    <2>8. CASE PassOver({d}) /\ Next(d) /\ UNCHANGED <<dst, phase, cur>>
      <3>1. d \in excused' \/ Same(d)'
        BY <2>1, <2>3, <2>8 DEF PassOver, Same
      <3>2. excused \subseteq excused'
        BY <2>8 DEF PassOver
      <3> QED
        BY <1>next, <2>1, <2>8, <3>1, <3>2 DEF Next
    <2>6. CASE /\ cur' = d /\ phase' = "copy" /\ Next(d)
               /\ dst' = [dst EXCEPT ![TempOf(d)] = File(<<>>)] /\ UNCHANGED excused
      <3>1. TempOf(d) \in DestNames \ Plain /\ TempOf(d) # d
        BY <2>2, CopyNames
      <3>2. InCopy' = {d, TempOf(d)} /\ Temp' = File(<<>>)
            /\ \A c \in DestNames : c # TempOf(d) => dst'[c] = dst[c]
        BY <1>1, <2>6, <3>1 DEF InCopy, Temp, TempOf
      <3>3. todo' = todo \ {d} /\ ~synced' /\ todo \subseteq Plain
        BY <1>0, <2>1, <2>6 DEF Next, ProgressInv
      <3>4. ASSUME NEW c \in DestNames \ InCopy'
            PROVE  c \in todo' \/ c \in excused' \/ Same(c)'
        BY <2>1, <2>3, <2>4, <2>6, <3>2, <3>3, <3>4 DEF Same
      <3>5. Source(cur').kind = "file" /\ Temp'.kind = "file"
        BY <1>3, <2>1, <2>6, <3>2
      <3>6. todo' \subseteq Plain /\ todo' \cap InCopy' = {}
        BY <3>1, <3>2, <3>3
      <3>7. Source(cur)' = Source(cur')
        BY <2>1 DEF Source
      <3> QED
        BY <2>3, <2>6, <3>3, <3>4, <3>5, <3>6, <3>7 DEF ProgressInv
    <2>7. CASE EndSync(FALSE)
      BY <1>5, <2>7 DEF EndSync
    <2> QED
      BY <1>12, <2>5, <2>6, <2>7, <2>8 DEF SyncFile
  <1>13. ASSUME phase \in {"copy", "erase", "rename"}, phase' \in {"copy", "erase", "rename"},
                UNCHANGED <<src, todo, cur, synced, excused>>,
                \A d \in DestNames \ {cur, TempOf(cur)} : dst'[d] = dst[d],
                dst'[TempOf(cur)].kind = "file"
         PROVE  ProgressInv'
    <2>1. InCopy = {cur, TempOf(cur)} /\ InCopy' = {cur, TempOf(cur)} /\ ~synced
      BY <1>4, <1>13 DEF InCopy, TempOf
    <2>2. \A d : Source(d)' = Source(d)
      BY <1>13, SourceStays
    <2>3. ~synced' /\ Temp' = dst'[TempOf(cur)] /\ Source(cur)' = Source(cur)
      BY <1>13, <2>1, <2>2 DEF Temp, TempOf
    <2>4. /\ todo' \subseteq Plain /\ todo' \cap InCopy' = {} /\ Source(cur).kind = "file"
          /\ \A d \in DestNames \ InCopy : d \in todo \/ d \in excused \/ Same(d)
      BY <1>0, <1>13, <2>1 DEF ProgressInv
    <2>5. \A d \in DestNames \ InCopy' : Same(d)' <=> Same(d)
      BY <1>13, <2>1, <2>2 DEF Same
    <2>6. \A d \in DestNames \ InCopy' : d \in todo' \/ d \in excused' \/ Same(d)'
      BY <1>13, <2>1, <2>2, <2>4, <2>5
    <2> QED
      BY <1>13, <2>3, <2>4, <2>6 DEF ProgressInv
  <1>14. phase \in {"copy", "erase", "rename"} =>
           Temp.kind = "file" /\ Source(cur).kind = "file"
    BY <1>0, <1>2 DEF ProgressInv, InCopy
  <1>15. CASE CopyChunk
    <2>1. phase = "copy"
      BY <1>15 DEF CopyChunk
    <2>2. ASSUME NEW s, dst' = [dst EXCEPT ![TempOf(cur)] = File(s)],
                 UNCHANGED <<src, phase, todo, cur, synced, excused>>
          PROVE  ProgressInv'
      BY <1>1, <1>2, <1>3, <1>13, <1>14, <2>1, <2>2
    <2>3. CASE EndSync(FALSE)
      BY <1>5, <2>3 DEF EndSync
    <2> QED
      BY <1>15, <2>2, <2>3 DEF CopyChunk, Write
  <1>16. CASE CloseTemp
    <2>1. phase = "copy" /\ phase' = "erase" /\ UNCHANGED <<src, todo, cur, synced, excused>>
      BY <1>16 DEF CloseTemp
    <2>2. ASSUME NEW s, dst' = [dst EXCEPT ![TempOf(cur)] = File(s)]
          PROVE  ProgressInv'
      BY <1>1, <1>2, <1>3, <1>13, <1>14, <2>1, <2>2
    <2>3. CASE dst' = dst
      BY <1>13, <1>14, <2>1, <2>3 DEF Temp
    <2> QED
      BY <1>16, <2>2, <2>3 DEF CloseTemp, Write
  <1>17. CASE EraseDest
    <2>1. /\ phase = "erase" /\ phase' = "rename" /\ UNCHANGED <<src, todo, cur, synced, excused>>
          /\ dst' = [dst EXCEPT ![cur] = Absent] \/ dst' = dst
      BY <1>17 DEF EraseDest
    <2>2. /\ \A d \in DestNames \ {cur, TempOf(cur)} : dst'[d] = dst[d]
          /\ dst'[TempOf(cur)].kind = "file"
      BY <1>1, <1>2, <1>3, <1>14, <2>1 DEF Temp
    <2> QED
      BY <1>13, <2>1, <2>2
  <1>18. CASE Rename
    <2>1. phase = "rename" /\ ~synced /\ UNCHANGED <<src, cur>> /\ InCopy = {cur, TempOf(cur)}
      BY <1>4, <1>18 DEF Rename, InCopy
    <2>2. CASE EndSync(FALSE)
      BY <1>5, <2>2 DEF EndSync
    <2>3. CASE /\ dst' = [dst EXCEPT ![TempOf(cur)] = Absent, ![cur] = Temp]
               /\ excused' = (excused \ {cur}) \cup {d \in {cur} : Temp.text # Source(cur).text}
               /\ phase' = "sync" /\ UNCHANGED <<todo, synced>>
      <3>1. \A d : Source(d)' = Source(d)
        BY <2>1, SourceStays
      <3>2. dst'[cur] = Temp /\ dst'[TempOf(cur)] = Absent
            /\ \A d \in DestNames : d # cur /\ d # TempOf(cur) => dst'[d] = dst[d]
        BY <1>1, <1>2, <2>3
      <3>3. ~synced' /\ InCopy' = {} /\ todo' \subseteq Plain
        BY <1>0, <2>1, <2>3 DEF InCopy, ProgressInv
      <3>4. ASSUME NEW d \in DestNames \ InCopy
            PROVE  d \in todo' \/ d \in excused' \/ Same(d)'
        <4>1. dst'[d] = dst[d] /\ (Same(d)' <=> Same(d)) /\ (d \in excused => d \in excused')
          BY <2>1, <2>3, <3>1, <3>2, <3>4 DEF Same
        <4> QED
          BY <1>0, <2>1, <2>3, <3>4, <4>1 DEF ProgressInv
      <3>5. cur \in excused' \/ Same(cur)'
        BY <1>14, <2>1, <2>3, <3>1, <3>2 DEF Same
      <3>6. \A d \in InCopy \ {cur} : dst'[d].kind = "none" /\ Same(d)'
        BY <1>2, <1>3, <2>1, <3>1, <3>2, CopyNames DEF Same
      <3>7. \A d \in DestNames : d \in todo' \/ d \in excused' \/ Same(d)'
        BY <2>1, <3>1, <3>4, <3>5, <3>6
      <3> QED
        BY <2>3, <3>3, <3>7 DEF ProgressInv
    <2> QED
      BY <1>18, <2>2, <2>3 DEF Rename
  <1>19. CASE SyncReturns
    <2>1. /\ phase = "sync" /\ todo = {} /\ phase' = "idle" /\ UNCHANGED <<src, dst, excused>>
          /\ InCopy = {} /\ InCopy' = {}
      BY <1>19 DEF SyncReturns, EndSync, InCopy
    <2>2. \A d \in DestNames \ excused : Same(d)
      BY <1>0, <2>1 DEF ProgressInv
    <2>3. \A d : Same(d)' <=> Same(d)
      BY <2>1 DEF Same, Source
    <2> QED
      BY <2>1, <2>2, <2>3 DEF ProgressInv
  <1> QED
    BY <1>6, <1>7, <1>8, <1>9, <1>10, <1>listing, <1>11, <1>12, <1>15, <1>16, <1>17, <1>18, <1>19 DEF FilesNext

(* However often a sync() fails, noticed or not, or is killed between any    *)
(* two of its calls, and however the source changes in between, no file of   *)
(* the destination is a part or a mixture but one that lost its end when it  *)
(* was closed, and after a sync() that returned true it is as the source but *)
(* for what that sync() passed over, for any names and number of changes.    *)
THEOREM FilesSyncKeepsWhole == FilesSpec => []SyncKeepsWhole
  <1>1. FilesInit => FilesIInv
    <2> SUFFICES ASSUME FilesInit PROVE FilesIInv
      OBVIOUS
    <2>1. /\ src \in [Names -> {Absent, [kind |-> "file", text |-> Full(0), time |-> 0]}]
          /\ dst = [d \in DestNames |-> Absent] /\ clock = 0 /\ versions = 0
          /\ phase = "idle" /\ todo = {} /\ cur \in Plain /\ synced = FALSE /\ excused = {}
          /\ shortened = {}
      BY DEF FilesInit, Plain
    <2>2. Full(0) \in Seq(Nat) /\ <<>> \in Seq(Nat)
      BY Texts
    <2>3. {Absent, [kind |-> "file", text |-> Full(0), time |-> 0]} \subseteq FileEntries
      BY ONLY <2>2 DEF Absent, FileEntries
    <2>4. src \in [Names -> FileEntries] /\ dst \in [DestNames -> FileEntries]
      BY <2>1, <2>3
    <2>5. synced \in BOOLEAN
      BY <2>1
    <2>6. FilesTypeOK
      BY ONLY <2>1, <2>4, <2>5 DEF FilesTypeOK
    <2>7. TextsInv
      <3>1. \A n \in Names : /\ src[n].time <= clock
                             /\ IF src[n].kind = "file" THEN Whole(src[n]) ELSE src[n].text = <<>>
        BY <2>1 DEF Absent, Whole
      <3>2. \A d \in DestNames : dst[d].kind = "none" /\ dst[d].text = <<>> /\ dst[d].time = 0
        BY <2>1 DEF Absent
      <3>3. Plain \subseteq DestNames
        BY CopyNames
      <3> QED
        BY <2>1, <3>1, <3>2, <3>3 DEF TextsInv
    <2>8. ProgressInv
      BY <2>1 DEF ProgressInv, InCopy
    <2> QED
      BY <2>6, <2>7, <2>8 DEF FilesIInv
  <1>2. FilesIInv /\ [FilesNext]_filesVars => FilesIInv'
    BY FilesTypeStep, TextsStep, ProgressStep DEF FilesIInv
  <1>3. FilesIInv => SyncKeepsWhole
    BY DEF FilesIInv, TextsInv, ProgressInv, SyncKeepsWhole, Plain, Whole, Same
  <1> QED
    BY <1>1, <1>2, <1>3, PTL DEF FilesSpec

--------------------------------------------------------------------------------
(* AppLog. *)

(* The calls of a thread. *)
LEMMA CallsOf ==
  ASSUME LogTypeOK, NEW t \in Writers
  PROVE  /\ logging[t] \in Seq(Calls) /\ Len(logging[t]) \in Nat
         /\ DOMAIN logging[t] = 1 .. Len(logging[t])
         /\ \A i \in DOMAIN logging[t] : logging[t][i] \in Calls
         /\ logging[t] # <<>> => /\ Len(logging[t]) \in DOMAIN logging[t]
                                 /\ Latest(t) = logging[t][Len(logging[t])]
  <1>1. logging[t] \in Seq(Calls)
    BY DEF LogTypeOK
  <1>2. Len(logging[t]) \in Nat /\ DOMAIN logging[t] = 1 .. Len(logging[t])
    BY <1>1, LenProperties
  <1>3. \A i \in DOMAIN logging[t] : logging[t][i] \in Calls
    BY <1>1, <1>2, ElementOfSeq
  <1>4. logging[t] # <<>> => Len(logging[t]) # 0
    BY <1>1, EmptySeq
  <1> QED
    BY <1>1, <1>2, <1>3, <1>4 DEF Latest

LEMMA LogTypeStep ==
  ASSUME LogTypeOK, CallsInv, [LogNext]_logVars PROVE LogTypeOK'
  <1> USE DEF LogTypeOK
  <1>1. Guard!Free \in Guard!MutexStates
    BY DEF Guard!Free, Guard!MutexStates
  <1>2. ASSUME NEW l \in Loggers, NewLogger(l) PROVE LogTypeOK'
    BY <1>2, AppendProperties DEF NewLogger, outVars
  <1>3. ASSUME NEW l \in FileLoggers, NEW b \in SUBSET FileLoggers, SetBase(l, b) PROVE LogTypeOK'
    BY <1>3 DEF SetBase
  <1>4. ASSUME NEW t \in Writers, NEW debug \in BOOLEAN, CallLog(t, debug) PROVE LogTypeOK'
    <2>1. NewEntry(debug) \in Calls
      BY DEF NewEntry, Calls
    <2>2. guard' \in Guard!MutexStates
      BY <1>4 DEF CallLog, Guard!Locked, Guard!MutexStates
    <2>3. Append(logging[t], NewEntry(debug)) \in Seq(Calls)
      BY <2>1, AppendProperties
    <2>4. logging' \in [Writers -> Seq(Calls)]
      BY <1>4, <2>3 DEF CallLog
    <2> QED
      BY <1>4, <2>2, <2>4 DEF CallLog, outVars
  <1>5. ASSUME NEW t \in Writers, logging[t] # <<>>, NextLogger(t)
        PROVE  logging' \in [Writers -> Seq(Calls)]
    <2>1. Latest(t) \in Calls /\ Len(logging[t]) \in 1 .. Len(logging[t])
      BY <1>5, CallsOf
    <2>2. [logging[t] EXCEPT ![Len(logging[t])].at = @ + 1] \in Seq(Calls)
      <3>1. [logging[t][Len(logging[t])] EXCEPT !.at = @ + 1] \in Calls
        <4>1. \A c \in Calls : [c EXCEPT !.at = @ + 1] \in Calls
          <5>1. ASSUME NEW c \in Calls PROVE [c EXCEPT !.at = @ + 1] \in Calls
            <6>1. c.msg \in Nat /\ c.debug \in BOOLEAN /\ c.at + 1 \in Nat
              BY <5>1 DEF Calls
            <6> QED
              BY ONLY <5>1, <6>1 DEF Calls
          <5> QED
            BY <5>1
        <4> QED
          BY ONLY <2>1, <4>1 DEF Latest
      <3>2. [logging[t] EXCEPT ![Len(logging[t])] = [logging[t][Len(logging[t])] EXCEPT !.at = @ + 1]]
              \in Seq(Calls)
        BY <2>1, <3>1, ExceptSeq
      <3> QED
        BY <3>2
    <2>3. logging' = [logging EXCEPT ![t] = [logging[t] EXCEPT ![Len(logging[t])].at = @ + 1]]
      BY <1>5 DEF NextLogger
    <2> QED
      BY <2>2, <2>3
  <1>6. ASSUME NEW t \in Writers, HandlersReturn(t) PROVE LogTypeOK'
    BY <1>5, <1>6 DEF HandlersReturn, outVars
  <1>7. ASSUME NEW t \in Writers, OnMsg(t) PROVE LogTypeOK'
    <2>1. loggers[Latest(t).at] \in Loggers
      BY <1>7, LenProperties, ElementOfSeq DEF OnMsg
    <2>2. Latest(t).msg \in Nat
      BY <1>7, CallsOf DEF OnMsg, Calls
    <2>3. logging' \in [Writers -> Seq(Calls)]
      BY <1>5, <1>7 DEF OnMsg
    <2>4. \A l \in Loggers : Append(log[l], Latest(t).msg) \in Seq(Nat)
      BY <2>2, AppendProperties
    <2>5. ASSUME NEW l \in Loggers, WritesTo(t, l)
          PROVE  log' \in [Loggers -> Seq(Nat)] /\ failed' \subseteq Loggers
      BY <2>4, <2>5 DEF WritesTo
    <2>6. log' \in [Loggers -> Seq(Nat)] /\ failed' \subseteq Loggers /\ open' \subseteq FileLoggers
      BY <1>7, <2>1, <2>5 DEF OnMsg
    <2> QED
      BY <1>7, <2>3, <2>6 DEF OnMsg
  <1>8. ASSUME NEW t \in Writers, NEW n \in 0 .. Len(logging[t]) PROVE SubSeq(logging[t], 1, n) \in Seq(Calls)
    <2>1. 1 \in 1 .. Len(logging[t]) + 1 /\ n \in 1 - 1 .. Len(logging[t])
      BY CallsOf
    <2> QED
      BY <2>1, CallsOf, Piece
  <1>9. ASSUME NEW t \in Writers, OpenFails(t) PROVE LogTypeOK'
    <2>1. PICK n \in 0 .. (Len(logging[t]) - 1) :
            /\ logging' = [logging EXCEPT ![t] = SubSeq(@, 1, n)]
            /\ guard' = IF n = 0 THEN Guard!Free ELSE [guard EXCEPT !.depth = n]
      BY <1>9 DEF OpenFails
    <2>2. n \in 0 .. Len(logging[t])
      BY <2>1, CallsOf
    <2>3. logging' \in [Writers -> Seq(Calls)]
      BY <1>8, <2>1, <2>2
    <2>4. guard' \in Guard!MutexStates
      <3>1. n \in Nat
        BY <2>2, CallsOf
      <3>2. [guard EXCEPT !.depth = n] \in Guard!MutexStates
        BY <3>1 DEF Guard!MutexStates
      <3> QED
        BY <1>1, <2>1, <3>2
    <2> QED
      BY <1>9, <2>3, <2>4 DEF OpenFails
  <1>10. ASSUME NEW t \in Writers, LogReturns(t) PROVE LogTypeOK'
    <2>1. logging' = [logging EXCEPT ![t] = SubSeq(@, 1, Len(@) - 1)] /\ logging[t] # <<>>
      BY <1>10 DEF LogReturns
    <2>2. Len(logging[t]) - 1 \in 0 .. Len(logging[t])
      BY <2>1, CallsOf
    <2>3. logging' \in [Writers -> Seq(Calls)]
      BY <1>8, <2>1, <2>2
    <2>4. guard' \in Guard!MutexStates
      <3>1. guard.depth > 1 => [guard EXCEPT !.depth = @ - 1] \in Guard!MutexStates
        <4>1. guard \in Guard!MutexStates /\ guard.depth \in Nat
          BY DEF Guard!MutexStates
        <4>2. guard.depth > 1 => guard.depth - 1 \in Nat
          BY ONLY <4>1
        <4>3. \A n \in Nat : [guard EXCEPT !.depth = n] \in Guard!MutexStates
          BY ONLY <4>1 DEF Guard!MutexStates
        <4> QED
          BY <4>2, <4>3
      <3> QED
        BY <1>1, <1>10, <3>1 DEF LogReturns, Guard!Unlocked
    <2> QED
      BY <1>10, <2>3, <2>4 DEF LogReturns, outVars
  <1>11. CASE UNCHANGED logVars
    BY <1>11 DEF logVars, outVars
  <1> QED
    BY <1>2, <1>3, <1>4, <1>6, <1>7, <1>9, <1>10, <1>11 DEF LogNext

(* What the steps that write nothing leave of a message on its way. *)
LEMMA WayKept ==
  ASSUME UNCHANGED <<loggers, log>>, failed \subseteq failed'
  PROVE  /\ \A l, m : PositionIn(l, m)' = PositionIn(l, m) /\ (Has(l, m)' <=> Has(l, m))
         /\ \A frame : OnItsWay(frame) => OnItsWay(frame)'
  <1>1. \A l, m : PositionIn(l, m)' = PositionIn(l, m)
    BY DEF PositionIn
  <1>2. \A l, m : Has(l, m)' <=> Has(l, m)
    BY <1>1 DEF Has
  <1>3. ASSUME NEW frame, OnItsWay(frame) PROVE OnItsWay(frame)'
    BY <1>1, <1>2, <1>3 DEF OnItsWay
  <1> QED
    BY <1>1, <1>2, <1>3

LEMMA AgreementKept ==
  ASSUME LogsAgree, UNCHANGED <<log, told>>, failed \subseteq failed'
  PROVE  LogsAgree'
  <1>1. \A l, m : PositionIn(l, m)' = PositionIn(l, m)
    BY DEF PositionIn
  <1> QED
    BY <1>1 DEF LogsAgree

(* The guard and the calls: a step moves the calls of one thread, which has   *)
(* the guard or takes it.                                                     *)
LEMMA CallsKept ==
  ASSUME LogTypeOK, LogTypeOK', CallsInv, UNCHANGED loggers, messages <= messages',
         NEW t \in Writers,
         \A u \in Writers \ {t} : logging'[u] = logging[u],
         \/ guard'.owner = t /\ guard'.depth = Len(logging'[t]) /\ guard'.depth > 0
         \/ guard' = Guard!Free /\ logging'[t] = <<>>,
         guard.owner \in {NoWriter, t},
         \A i \in DOMAIN logging'[t] :
           /\ logging'[t][i].msg <= messages' /\ logging'[t][i].at <= Len(loggers) + 1
           /\ i < Len(logging'[t]) => logging'[t][i].at = 0
           /\ \A j \in DOMAIN logging'[t] : logging'[t][i].msg = logging'[t][j].msg => i = j
  PROVE  CallsInv'
  <1>1. NoWriter \notin Writers
    BY AppLogAssumption
  <1>2. \A u \in Writers \ {t} : logging[u] = <<>> /\ logging'[u] = <<>>
    BY <1>1 DEF CallsInv
  <1>3. DOMAIN <<>> = {}
    OBVIOUS
  <1>4. Guard!Free.owner = NoWriter /\ Guard!Free.depth = 0
    BY DEF Guard!Free
  <1>5. /\ guard'.owner = NoWriter => guard'.depth = 0
        /\ \A u \in Writers : IF guard'.owner = u THEN guard'.depth = Len(logging'[u]) /\ guard'.depth > 0
                                                  ELSE logging'[u] = <<>>
    BY <1>1, <1>2, <1>4
  <1>6. ASSUME NEW u \in Writers
        PROVE  \A i \in DOMAIN logging'[u] :
                 /\ logging'[u][i].msg <= messages' /\ logging'[u][i].at <= Len(loggers) + 1
                 /\ i < Len(logging'[u]) => logging'[u][i].at = 0
                 /\ \A j \in DOMAIN logging'[u] : logging'[u][i].msg = logging'[u][j].msg => i = j
    BY <1>2, <1>3
  <1> QED
    BY <1>5, <1>6 DEF CallsInv

(* The thread that has calls is the one that has the guard. *)
LEMMA GuardHeld ==
  ASSUME LogTypeOK, CallsInv, NEW t \in Writers, logging[t] # <<>>
  PROVE  guard.owner = t /\ guard.depth = Len(logging[t]) /\ \A u \in Writers \ {t} : logging[u] = <<>>
  BY DEF CallsInv

LEMMA Ways ==
  ASSUME \A u \in Writers : \A i \in DOMAIN logging'[u] :
           \E frame : frame = logging'[u][i] /\ OnItsWay(frame)'
  PROVE  (\A u \in Writers : \A i \in DOMAIN logging[u] : OnItsWay(logging[u][i]))'
  BY DEF OnItsWay

(* Steps while nothing is logged. *)
LEMMA AtRestStep ==
  ASSUME LogIInv, LogTypeOK', guard = Guard!Free,
         (\E l \in Loggers : NewLogger(l))
           \/ (\E l \in FileLoggers, b \in SUBSET FileLoggers : SetBase(l, b))
  PROVE  LogIInv'
  <1>0. LogTypeOK /\ CallsInv /\ LogsAgree
    BY DEF LogIInv
  <1>1. /\ UNCHANGED <<guard, logging, messages, log, failed, told>>
        /\ \/ loggers' = loggers
           \/ \E l \in Loggers : l \notin Attached /\ loggers' = Append(loggers, l)
    BY DEF NewLogger, SetBase, outVars
  <1>2. \A t \in Writers : logging[t] = <<>> /\ logging'[t] = <<>>
    <2>1. guard.owner = NoWriter /\ NoWriter \notin Writers
      BY AppLogAssumption DEF Guard!Free
    <2> QED
      BY <1>0, <1>1, <2>1 DEF CallsInv
  <1>3. \A i, j \in DOMAIN loggers' : loggers'[i] = loggers'[j] => i = j
    <2>1. CASE loggers' = loggers
      BY <1>0, <2>1 DEF CallsInv
    <2>2. ASSUME NEW l \in Loggers, l \notin Attached, loggers' = Append(loggers, l)
          PROVE  \A i, j \in DOMAIN loggers' : loggers'[i] = loggers'[j] => i = j
      <3>1. loggers \in Seq(Loggers) /\ Len(loggers) \in Nat /\ DOMAIN loggers = 1 .. Len(loggers)
        BY <1>0, LenProperties DEF LogTypeOK
      <3>2. /\ loggers' \in Seq(Loggers) /\ Len(loggers') = Len(loggers) + 1
            /\ \A i \in 1 .. Len(loggers) : loggers'[i] = loggers[i]
            /\ loggers'[Len(loggers) + 1] = l
        BY <2>2, <3>1, AppendProperties
      <3>3. DOMAIN loggers' = 1 .. Len(loggers) + 1
        BY <3>2, LenProperties
      <3>4. \A i \in DOMAIN loggers : loggers[i] # l
        BY <2>2 DEF Attached
      <3> QED
        BY <1>0, <3>1, <3>2, <3>3, <3>4 DEF CallsInv
    <2> QED
      BY <1>1, <2>1, <2>2
  <1>4. DOMAIN <<>> = {}
    OBVIOUS
  <1>5. CallsInv'
    BY <1>0, <1>1, <1>2, <1>3, <1>4 DEF CallsInv
  <1>6. LogsAgree'
    BY <1>0, <1>1, AgreementKept
  <1> QED
    BY <1>1, <1>2, <1>4, <1>5, <1>6 DEF LogIInv

LEMMA CallLogStep ==
  ASSUME LogIInv, LogTypeOK', NEW t \in Writers, NEW debug \in BOOLEAN, CallLog(t, debug)
  PROVE  LogIInv'
  <1> DEFINE e == NewEntry(debug)
             n == Len(logging[t])
  <1>0. /\ LogTypeOK /\ CallsInv /\ LogsAgree /\ messages \in Nat
        /\ \A l \in Loggers : \A i \in DOMAIN log[l] : log[l][i] <= messages
        /\ \A u \in Writers : \A i \in DOMAIN logging[u] : OnItsWay(logging[u][i])
    BY DEF LogIInv, LogTypeOK
  <1>1. /\ UNCHANGED <<loggers, failed, log, told>> /\ messages' = messages + 1
        /\ guard.owner \in {NoWriter, t} /\ guard' = Guard!Locked(guard, t)
        /\ logging[t] # <<>> => Latest(t).at = 0
        /\ logging' = [logging EXCEPT ![t] = Append(@, NewEntry(debug))]
    BY DEF CallLog, MayEnter, Guard!CanLock, outVars
  <1>2. e.msg = messages + 1 /\ e.at = 0 /\ e \in Calls
    <2>1. e \in Calls
      BY <1>0 DEF NewEntry, Calls
    <2> QED
      BY <2>1 DEF NewEntry
  <1> HIDE DEF e
  <1>3. /\ logging[t] \in Seq(Calls) /\ n \in Nat /\ DOMAIN logging[t] = 1 .. n
        /\ \A i \in 1 .. n : logging[t][i] \in Calls
        /\ logging[t] # <<>> => n \in 1 .. n /\ Latest(t) = logging[t][n]
    BY <1>0, CallsOf
  <1>4. logging'[t] = Append(logging[t], e) /\ \A u \in Writers \ {t} : logging'[u] = logging[u]
    BY <1>0, <1>1 DEF e, LogTypeOK
  <1>5. /\ Len(logging'[t]) = n + 1 /\ DOMAIN logging'[t] = 1 .. n + 1
        /\ \A i \in 1 .. n : logging'[t][i] = logging[t][i]
        /\ logging'[t][n + 1] = e
    <2>1. /\ Append(logging[t], e) \in Seq(Calls) /\ Len(Append(logging[t], e)) = n + 1
          /\ \A i \in 1 .. n : Append(logging[t], e)[i] = logging[t][i]
          /\ Append(logging[t], e)[n + 1] = e
      BY <1>2, <1>3, AppendProperties
    <2>2. DOMAIN Append(logging[t], e) = 1 .. n + 1
      BY <2>1, LenProperties
    <2> QED
      BY <1>4, <2>1, <2>2
  <1> HIDE DEF n
  <1>6. CallsInv'
    <2>1. guard.depth = n
      <3>1. Len(<<>>) = 0
        BY EmptySeq
      <3>2. guard.owner = t \/ (guard.owner = NoWriter /\ guard.depth = 0 /\ logging[t] = <<>>)
        BY <1>0, <1>1, AppLogAssumption DEF CallsInv
      <3> QED
        BY <1>0, <3>1, <3>2 DEF CallsInv, n
    <2>2. guard'.owner = t /\ guard'.depth = Len(logging'[t]) /\ guard'.depth > 0
      BY <1>1, <1>3, <1>5, <2>1 DEF Guard!Locked
    <2>3. \A i \in 1 .. n : logging[t][i].at = 0
      <3>1. \A i \in 1 .. n : i < n => logging[t][i].at = 0
        BY <1>0, <1>3 DEF CallsInv, n
      <3>2. n > 0 => logging[t][n].at = 0
        <4>1. Len(<<>>) = 0
          BY EmptySeq
        <4> QED
          BY <1>1, <1>3, <4>1 DEF n
      <3> QED
        BY <1>3, <3>1, <3>2
    <2>4. Len(loggers) \in Nat
      BY <1>0, LenProperties DEF LogTypeOK
    <2>5. \A i \in 1 .. n : logging[t][i].msg <= messages /\ logging[t][i].msg \in Nat
      BY <1>0, <1>3 DEF CallsInv, Calls
    <2>6. ASSUME NEW i \in DOMAIN logging'[t]
          PROVE  /\ logging'[t][i].msg <= messages' /\ logging'[t][i].at <= Len(loggers) + 1
                 /\ i < Len(logging'[t]) => logging'[t][i].at = 0
                 /\ \A j \in DOMAIN logging'[t] : logging'[t][i].msg = logging'[t][j].msg => i = j
      <3>1. \A j \in 1 .. n : logging[t][i].msg = logging[t][j].msg /\ i \in 1 .. n => i = j
        BY <1>0, <1>3 DEF CallsInv
      <3>2. CASE i \in 1 .. n
        <4>1. i \in DOMAIN logging[t] /\ logging'[t][i] = logging[t][i] /\ i <= n
          BY <1>3, <1>5, <3>2
        <4>2. logging'[t][i].msg <= messages' /\ logging[t][i].msg # messages + 1
          BY <1>0, <1>1, <2>5, <3>2, <4>1
        <4>3. logging'[t][i].at = 0 /\ logging'[t][i].at <= Len(loggers) + 1
          BY <2>3, <2>4, <3>2, <4>1
        <4>4. ASSUME NEW j \in DOMAIN logging'[t], logging'[t][i].msg = logging'[t][j].msg PROVE i = j
          <5>1. CASE j \in 1 .. n
            <6>1. logging'[t][j] = logging[t][j]
              BY <1>5, <5>1
            <6> QED
              BY <3>1, <3>2, <4>1, <4>4, <5>1, <6>1
          <5>2. CASE j = n + 1
            BY <1>2, <1>5, <4>1, <4>2, <4>4, <5>2
          <5> QED
            BY <1>3, <1>5, <5>1, <5>2
        <4> QED
          BY <4>2, <4>3, <4>4
      <3>3. CASE i = n + 1
        BY <1>0, <1>1, <1>2, <1>3, <1>5, <2>4, <2>5, <3>3
      <3> QED
        BY <1>3, <1>5, <3>2, <3>3
    <2> QED
      BY <1>0, <1>1, <1>4, <2>2, <2>6, CallsKept
  <1>7. LogsAgree'
    BY <1>0, <1>1, AgreementKept
  <1>8. \A l \in Loggers : \A i \in DOMAIN log'[l] : log'[l][i] <= messages'
    <2>1. ASSUME NEW l \in Loggers, NEW i \in DOMAIN log[l] PROVE log[l][i] <= messages + 1
      <3>1. log[l][i] \in Nat
        BY <1>0, LenProperties, ElementOfSeq DEF LogTypeOK
      <3> QED
        BY <1>0, <3>1
    <2> QED
      BY <1>1, <2>1
  <1>9. OnItsWay(e)
    <2>1. \A l \in Loggers : PositionIn(l, e.msg) = {}
      <3>1. ASSUME NEW l \in Loggers, NEW i \in DOMAIN log[l] PROVE log[l][i] # messages + 1
        <4>1. log[l][i] \in Nat /\ log[l][i] <= messages
          BY <1>0, LenProperties, ElementOfSeq DEF LogTypeOK
        <4> QED
          BY <1>0, <4>1
      <3> QED
        BY <1>2, <3>1 DEF PositionIn
    <2>2. \A j \in DOMAIN loggers : ~(j < e.at)
      BY <1>0, <1>2, LenProperties DEF LogTypeOK
    <2> QED
      BY <2>1, <2>2 DEF OnItsWay
  <1>10. ASSUME NEW u \in Writers, NEW i \in DOMAIN logging'[u]
         PROVE  \E frame : frame = logging'[u][i] /\ OnItsWay(frame)'
    <2>1. \A frame : OnItsWay(frame) => OnItsWay(frame)'
      BY <1>1, WayKept
    <2>2. OnItsWay(logging'[u][i])
      BY <1>0, <1>3, <1>4, <1>5, <1>9, <1>10
    <2> QED
      BY <2>1, <2>2
  <1>11. (\A u \in Writers : \A i \in DOMAIN logging[u] : OnItsWay(logging[u][i]))'
    BY <1>10, Ways
  <1> QED
    BY <1>6, <1>7, <1>8, <1>11 DEF LogIInv

(* The innermost call goes on to the next logger. *)
LEMMA GivenToNext ==
  ASSUME LogIInv, LogTypeOK', NEW t \in Writers, logging[t] # <<>>, NextLogger(t),
         UNCHANGED <<guard, loggers, messages>>, Latest(t).at <= Len(loggers)
  PROVE  /\ CallsInv'
         /\ \A u \in Writers \ {t} : logging[u] = <<>> /\ logging'[u] = <<>>
         /\ Len(logging[t]) \in Nat \ {0} /\ DOMAIN logging'[t] = 1 .. Len(logging[t])
         /\ DOMAIN logging[t] = 1 .. Len(logging[t])
         /\ \A i \in 1 .. Len(logging[t]) - 1 : logging'[t][i] = logging[t][i] /\ logging[t][i].at = 0
         /\ logging'[t][Len(logging[t])] = [Latest(t) EXCEPT !.at = @ + 1]
         /\ Latest(t) \in Calls /\ Latest(t) = logging[t][Len(logging[t])]
  <1> DEFINE n == Len(logging[t])
             advanced == [Latest(t) EXCEPT !.at = @ + 1]
  <1>1. LogTypeOK /\ CallsInv /\ messages \in Nat
    BY DEF LogIInv, LogTypeOK
  <1>2. /\ logging[t] \in Seq(Calls) /\ n \in Nat /\ DOMAIN logging[t] = 1 .. n
        /\ \A i \in 1 .. n : logging[t][i] \in Calls
        /\ n \in 1 .. n /\ Latest(t) = logging[t][n]
    BY <1>1, CallsOf
  <1>3. logging'[t] = [logging[t] EXCEPT ![n] = advanced]
    BY <1>1, <1>2 DEF NextLogger, LogTypeOK
  <1>4. \A u \in Writers \ {t} : logging'[u] = logging[u]
    BY <1>1 DEF NextLogger, LogTypeOK
  <1>5. /\ advanced.msg = Latest(t).msg /\ advanced.debug = Latest(t).debug /\ advanced.at = Latest(t).at + 1
        /\ Latest(t) \in Calls /\ Latest(t).at \in Nat
    <2>1. Latest(t) \in Calls
      <3>1. logging[t][n] \in Calls
        BY ONLY <1>2
      <3> QED
        BY ONLY <1>2, <3>1
    <2> QED
      BY ONLY <2>1 DEF Calls
  <1>6. /\ DOMAIN logging'[t] = 1 .. n /\ logging'[t][n] = advanced
        /\ \A i \in 1 .. n : i # n => logging'[t][i] = logging[t][i]
    BY <1>2, <1>3
  <1>7. logging'[t] \in Seq(Calls) /\ Len(logging'[t]) = n
    <2>1. logging'[t] \in Seq(Calls)
      BY DEF LogTypeOK
    <2>2. Len(logging'[t]) \in Nat /\ 1 .. Len(logging'[t]) = 1 .. n
      BY <1>6, <2>1, LenProperties
    <2> QED
      BY <1>2, <2>1, <2>2
  <1> HIDE DEF advanced
  <1>8. /\ \A i \in 1 .. n : /\ logging[t][i].msg <= messages
                             /\ logging[t][i].at <= Len(loggers) + 1
                             /\ i < n => logging[t][i].at = 0
        /\ \A i, j \in 1 .. n : logging[t][i].msg = logging[t][j].msg => i = j
    BY <1>1, <1>2 DEF CallsInv, n
  <1>9. guard.owner = t /\ guard.depth = n /\ \A u \in Writers \ {t} : logging[u] = <<>>
    BY <1>1, GuardHeld
  <1> HIDE DEF n
  <1>10. Len(loggers) \in Nat
    BY <1>1, LenProperties DEF LogTypeOK
  <1>11. \A i \in 1 .. n : logging'[t][i].msg = logging[t][i].msg
    BY <1>2, <1>5, <1>6
  <1>12. ASSUME NEW i \in DOMAIN logging'[t]
         PROVE  /\ logging'[t][i].msg <= messages' /\ logging'[t][i].at <= Len(loggers) + 1
                /\ i < Len(logging'[t]) => logging'[t][i].at = 0
                /\ \A j \in DOMAIN logging'[t] : logging'[t][i].msg = logging'[t][j].msg => i = j
    <2>1. logging'[t][i].msg <= messages'
      BY <1>6, <1>8, <1>11
    <2>2. logging'[t][i].at <= Len(loggers) + 1
      BY <1>2, <1>5, <1>6, <1>8, <1>10
    <2>3. i < Len(logging'[t]) => logging'[t][i].at = 0
      BY <1>2, <1>6, <1>7, <1>8
    <2>4. \A j \in DOMAIN logging'[t] : logging'[t][i].msg = logging'[t][j].msg => i = j
      BY <1>6, <1>8, <1>11
    <2> QED
      BY <2>1, <2>2, <2>3, <2>4
  <1>13. CallsInv'
    <2>1. guard'.owner = t /\ guard'.depth = Len(logging'[t]) /\ guard'.depth > 0
      BY <1>2, <1>7, <1>9
    <2> QED
      BY <1>1, <1>4, <1>9, <1>12, <2>1, CallsKept
  <1> QED
    BY <1>2, <1>4, <1>5, <1>6, <1>8, <1>9, <1>13 DEF n, advanced

LEMMA HandlersReturnStep ==
  ASSUME LogIInv, LogTypeOK', NEW t \in Writers, HandlersReturn(t) PROVE LogIInv'
  <1> DEFINE n == Len(logging[t])
  <1>0. /\ LogTypeOK /\ LogsAgree
        /\ \A l \in Loggers : \A i \in DOMAIN log[l] : log[l][i] <= messages
        /\ \A u \in Writers : \A i \in DOMAIN logging[u] : OnItsWay(logging[u][i])
    BY DEF LogIInv
  <1>1. /\ logging[t] # <<>> /\ Latest(t).at = 0 /\ NextLogger(t)
        /\ UNCHANGED <<guard, loggers, messages, failed, log, told>>
    BY DEF HandlersReturn, outVars
  <1>2. DOMAIN loggers = 1 .. Len(loggers) /\ Len(loggers) \in Nat
    BY <1>0, LenProperties DEF LogTypeOK
  <1>3. /\ CallsInv'
        /\ \A u \in Writers \ {t} : logging[u] = <<>> /\ logging'[u] = <<>>
        /\ n \in Nat \ {0} /\ DOMAIN logging'[t] = 1 .. n /\ DOMAIN logging[t] = 1 .. n
        /\ \A i \in 1 .. n - 1 : logging'[t][i] = logging[t][i] /\ logging[t][i].at = 0
        /\ logging'[t][n] = [Latest(t) EXCEPT !.at = @ + 1]
        /\ Latest(t) \in Calls /\ Latest(t) = logging[t][n]
    BY <1>1, <1>2, GivenToNext
  <1> HIDE DEF n
  <1>4. OnItsWay(logging'[t][n])
    <2>1. OnItsWay(Latest(t))
      BY <1>0, <1>3
    <2>2. \A l \in Loggers : PositionIn(l, Latest(t).msg) = {}
      BY <1>1, <1>2, <2>1 DEF OnItsWay
    <2>3. logging'[t][n].msg = Latest(t).msg /\ logging'[t][n].at = 1
      <3>1. [Latest(t) EXCEPT !.at = @ + 1].msg = Latest(t).msg
            /\ [Latest(t) EXCEPT !.at = @ + 1].at = Latest(t).at + 1
        <4>1. Latest(t) \in Calls
          BY <1>3
        <4> QED
          BY ONLY <4>1 DEF Calls
      <3> QED
        BY <1>1, <1>3, <3>1
    <2>4. \A j \in DOMAIN loggers : ~(j < 1)
      BY <1>2
    <2> QED
      BY <2>2, <2>3, <2>4 DEF OnItsWay
  <1>5. ASSUME NEW u \in Writers, NEW i \in DOMAIN logging'[u]
        PROVE  \E frame : frame = logging'[u][i] /\ OnItsWay(frame)'
    <2>1. \A frame : OnItsWay(frame) => OnItsWay(frame)'
      BY <1>1, WayKept
    <2>2. OnItsWay(logging'[u][i])
      <3>1. u = t
        <4>1. DOMAIN <<>> = {}
          OBVIOUS
        <4> QED
          BY <1>3, <1>5, <4>1
      <3> QED
        BY <1>0, <1>3, <1>4, <1>5, <3>1
    <2> QED
      BY <2>1, <2>2
  <1>6. (\A u \in Writers : \A i \in DOMAIN logging[u] : OnItsWay(logging[u][i]))'
    BY <1>5, Ways
  <1>7. LogsAgree'
    BY <1>0, <1>1, AgreementKept
  <1> QED
    BY <1>0, <1>1, <1>3, <1>6, <1>7 DEF LogIInv

(* The innermost calls end: LogReturns, and OpenEx. *)
LEMMA CallsEnd ==
  ASSUME LogIInv, LogTypeOK', NEW t \in Writers, logging[t] # <<>>,
         NEW n \in 0 .. Len(logging[t]) - 1,
         logging' = [logging EXCEPT ![t] = SubSeq(@, 1, n)],
         guard' = IF n = 0 THEN Guard!Free ELSE [guard EXCEPT !.depth = n],
         UNCHANGED <<loggers, messages, failed, log>>, LogsAgree'
  PROVE  LogIInv'
  <1>0. /\ LogTypeOK /\ CallsInv
        /\ \A l \in Loggers : \A i \in DOMAIN log[l] : log[l][i] <= messages
        /\ \A u \in Writers : \A i \in DOMAIN logging[u] : OnItsWay(logging[u][i])
    BY DEF LogIInv
  <1>1. /\ logging[t] \in Seq(Calls) /\ Len(logging[t]) \in Nat
        /\ DOMAIN logging[t] = 1 .. Len(logging[t])
    BY <1>0, CallsOf
  <1>2. logging'[t] = SubSeq(logging[t], 1, n) /\ \A u \in Writers \ {t} : logging'[u] = logging[u]
    BY <1>0 DEF LogTypeOK
  <1>3. /\ Len(logging'[t]) = n /\ DOMAIN logging'[t] = 1 .. n
        /\ \A i \in 1 .. n : logging'[t][i] = logging[t][i] /\ i \in DOMAIN logging[t] /\ i < Len(logging[t])
    <2>1. 1 \in 1 .. Len(logging[t]) + 1 /\ n \in 1 - 1 .. Len(logging[t])
      BY <1>1
    <2>2. /\ SubSeq(logging[t], 1, n) \in Seq(Calls)
          /\ Len(SubSeq(logging[t], 1, n)) = n - 1 + 1
          /\ \A i \in 1 .. n - 1 + 1 : SubSeq(logging[t], 1, n)[i] = logging[t][1 + i - 1]
      BY <1>1, <2>1, Piece
    <2>3. n \in Nat /\ n - 1 + 1 = n /\ \A i \in 1 .. n : 1 + i - 1 = i /\ i \in 1 .. Len(logging[t]) /\ i < Len(logging[t])
      BY <1>1
    <2>4. DOMAIN SubSeq(logging[t], 1, n) = 1 .. Len(SubSeq(logging[t], 1, n))
      BY <2>2, LenProperties
    <2> QED
      BY <1>1, <1>2, <2>2, <2>3, <2>4
  <1>4. guard.owner = t /\ \A u \in Writers \ {t} : logging[u] = <<>>
    BY <1>0, GuardHeld
  <1>5. \/ guard'.owner = t /\ guard'.depth = Len(logging'[t]) /\ guard'.depth > 0
        \/ guard' = Guard!Free /\ logging'[t] = <<>>
    <2>1. CASE n = 0
      BY <1>1, <1>2, <1>3, <2>1, EmptySeq, SubSeqEmpty
    <2>2. CASE n # 0
      <3>1. guard \in Guard!MutexStates
        BY <1>0 DEF LogTypeOK
      <3> QED
        BY <1>3, <1>4, <2>2, <3>1 DEF Guard!MutexStates
    <2> QED
      BY <2>1, <2>2
  <1>6. \A i \in DOMAIN logging'[t] :
          /\ logging'[t][i].msg <= messages' /\ logging'[t][i].at <= Len(loggers) + 1
          /\ i < Len(logging'[t]) => logging'[t][i].at = 0
          /\ \A j \in DOMAIN logging'[t] : logging'[t][i].msg = logging'[t][j].msg => i = j
    BY <1>0, <1>1, <1>3 DEF CallsInv
  <1>7. CallsInv'
    <2>1. messages \in Nat
      BY <1>0 DEF LogTypeOK
    <2> QED
      BY <1>0, <1>2, <1>4, <1>5, <1>6, <2>1, CallsKept
  <1>8. ASSUME NEW u \in Writers, NEW i \in DOMAIN logging'[u]
        PROVE  \E frame : frame = logging'[u][i] /\ OnItsWay(frame)'
    <2>1. \A frame : OnItsWay(frame) => OnItsWay(frame)'
      BY WayKept
    <2>2. OnItsWay(logging'[u][i])
      BY <1>0, <1>2, <1>3, <1>8
    <2> QED
      BY <2>1, <2>2
  <1>9. (\A u \in Writers : \A i \in DOMAIN logging[u] : OnItsWay(logging[u][i]))'
    BY <1>8, Ways
  <1> QED
    BY <1>0, <1>7, <1>9 DEF LogIInv

(* A message is written behind all others, and to a logger that has it not. *)
LEMMA WrittenAgree ==
  ASSUME LogTypeOK, LogsAgree, UNCHANGED <<failed, told>>, NEW k \in Loggers, NEW m \in Nat,
         log' = [log EXCEPT ![k] = Append(@, m)], PositionIn(k, m) = {},
         \A l \in Loggers : \A p \in PositionIn(l, m) : p = Len(log[l])
  PROVE  /\ LogsAgree'
         /\ \A l \in Loggers : l # k => log'[l] = log[l]
         /\ \A i \in DOMAIN log[k] : i \in DOMAIN log'[k] /\ log'[k][i] = log[k][i]
         /\ Len(log'[k]) \in DOMAIN log'[k] /\ log'[k][Len(log'[k])] = m
         /\ \A i \in DOMAIN log'[k] :
              \/ i = Len(log'[k])
              \/ i \in DOMAIN log[k] /\ log'[k][i] = log[k][i] /\ log[k][i] # m
  <1> DEFINE Was(l, i, x) == i \in DOMAIN log[l] /\ log[l][i] = x
             Is(l, i, x)  == i \in DOMAIN log'[l] /\ log'[l][i] = x
  <1>1. \A l \in Loggers : /\ log[l] \in Seq(Nat) /\ Len(log[l]) \in Nat
                           /\ DOMAIN log[l] = 1 .. Len(log[l])
    BY LenProperties DEF LogTypeOK
  <1>2. log'[k] = Append(log[k], m) /\ \A l \in Loggers : l # k => log'[l] = log[l]
    BY DEF LogTypeOK
  <1>3. /\ Len(log'[k]) = Len(log[k]) + 1 /\ DOMAIN log'[k] = 1 .. Len(log[k]) + 1
        /\ \A i \in 1 .. Len(log[k]) : log'[k][i] = log[k][i]
        /\ log'[k][Len(log[k]) + 1] = m
    <2>1. /\ Append(log[k], m) \in Seq(Nat) /\ Len(Append(log[k], m)) = Len(log[k]) + 1
          /\ \A i \in 1 .. Len(log[k]) : Append(log[k], m)[i] = log[k][i]
          /\ Append(log[k], m)[Len(log[k]) + 1] = m
      BY <1>1, AppendProperties
    <2>2. DOMAIN Append(log[k], m) = 1 .. Len(log[k]) + 1
      BY <2>1, LenProperties
    <2> QED
      BY <1>2, <2>1, <2>2
  <1>4. /\ \A l \in Loggers : \A i : Was(l, i, m) => i = Len(log[l]) /\ l # k
        /\ \A l \in Loggers, h \in Loggers : \A i, j \in DOMAIN log[l] : \A p, q :
             i < j /\ Was(h, p, log[l][i]) /\ Was(h, q, log[l][j]) => p < q
    BY DEF LogsAgree, PositionIn
  <1>5. \A i : Is(k, i, m) <=> i = Len(log'[k])
    BY <1>1, <1>3, <1>4
  <1>6. \A l \in Loggers : /\ Len(log'[l]) \in Nat /\ DOMAIN log'[l] = 1 .. Len(log'[l])
                           /\ \A i \in DOMAIN log'[l] : i < Len(log'[l]) =>
                                i \in DOMAIN log[l] /\ log'[l][i] = log[l][i]
    BY <1>1, <1>2, <1>3
  <1>7. \A l \in Loggers : \A i : Is(l, i, m) => i = Len(log'[l])
    BY <1>2, <1>4, <1>5
  <1>8. \A l \in Loggers : \A i \in DOMAIN log'[l] :
          log'[l][i] # m => i \in DOMAIN log[l] /\ log'[l][i] = log[l][i]
    BY <1>1, <1>2, <1>3
  <1>9. ASSUME NEW l \in Loggers, NEW h \in Loggers, NEW i \in DOMAIN log'[l], NEW j \in DOMAIN log'[l],
               i < j, NEW p, Is(h, p, log'[l][i]), NEW q, Is(h, q, log'[l][j])
        PROVE  p < q
    <2>1. i < Len(log'[l]) /\ Len(log'[l]) # i
      BY <1>6, <1>9
    <2>2. log'[l][i] # m
      BY <1>7, <1>9, <2>1
    <2>3. Was(h, p, log[l][i]) /\ i \in DOMAIN log[l]
      BY <1>8, <1>9, <2>2
    <2>4. CASE log'[l][j] = m
      <3>1. q = Len(log'[h]) /\ q # p
        BY <1>7, <1>9, <2>2, <2>4
      <3> QED
        BY <1>6, <1>9, <3>1
    <2>5. CASE log'[l][j] # m
      <3>1. Was(h, q, log[l][j]) /\ j \in DOMAIN log[l]
        BY <1>8, <1>9, <2>5
      <3> QED
        BY <1>4, <1>9, <2>3, <3>1
    <2> QED
      BY <2>4, <2>5
  <1>10. \A l \in Loggers : \A x, i : Was(l, i, x) => Is(l, i, x)
    BY <1>1, <1>2, <1>3
  <1>11. LogsAgree'
    <2>1. \A x \in told' : \A l \in (x.loggers \cap Streams) \ failed' :
            (x.debug => l \in Debug) => \E i : Is(l, i, x.msg)
      <3>1. \A x \in told : \A l \in (x.loggers \cap Streams) \ failed :
              (x.debug => l \in Debug) => l \in Loggers /\ \E i : Was(l, i, x.msg)
        BY DEF LogsAgree, Loggers, PositionIn
      <3> QED
        BY <1>10, <3>1
    <2>2. \A l, h \in Loggers : \A i, j \in DOMAIN log'[l] : i < j =>
            \A p, q : Is(h, p, log'[l][i]) /\ Is(h, q, log'[l][j]) => p < q
      BY <1>9
    <2>3. (\A l, h \in Loggers : \A i, j \in DOMAIN log[l] :
             i < j => \A p \in PositionIn(h, log[l][i]), q \in PositionIn(h, log[l][j]) : p < q)'
      <3>1. \A l, x : \A i \in PositionIn(l, x)' : Is(l, i, x)
        BY DEF PositionIn
      <3> HIDE DEF Is
      <3> QED
        BY <2>2, <3>1
    <2>4. \A l, x : (\E i : Is(l, i, x)) => PositionIn(l, x)' # {}
      BY DEF PositionIn
    <2> HIDE DEF Is
    <2>5. \A x \in told' : \A l \in (x.loggers \cap Streams) \ failed' :
            (x.debug => l \in Debug) => PositionIn(l, x.msg)' # {}
      BY <2>1, <2>4
    <2> QED
      BY ONLY <2>3, <2>5 DEF LogsAgree
  <1>12. \A i \in DOMAIN log'[k] :
           \/ i = Len(log'[k])
           \/ i \in DOMAIN log[k] /\ log'[k][i] = log[k][i] /\ log[k][i] # m
    BY <1>5, <1>8
  <1> QED
    BY <1>2, <1>5, <1>10, <1>11, <1>12

LEMMA OnMsgStep ==
  ASSUME LogIInv, LogTypeOK', NEW t \in Writers, OnMsg(t) PROVE LogIInv'
  <1> DEFINE n == Len(logging[t])
  <1>latest. PICK c, k : c = Latest(t) /\ k = loggers[c.at]
    OBVIOUS
  <1>0. /\ LogTypeOK /\ CallsInv /\ LogsAgree
        /\ \A l \in Loggers : \A i \in DOMAIN log[l] : log[l][i] <= messages
        /\ \A u \in Writers : \A i \in DOMAIN logging[u] : OnItsWay(logging[u][i])
    BY DEF LogIInv
  <1>1. /\ logging[t] # <<>> /\ c.at \in DOMAIN loggers /\ NextLogger(t)
        /\ UNCHANGED <<guard, loggers, messages, told>>
    BY <1>latest DEF OnMsg
  <1>2. /\ DOMAIN loggers = 1 .. Len(loggers) /\ Len(loggers) \in Nat
        /\ \A i \in DOMAIN loggers : loggers[i] \in Loggers
        /\ \A i, j \in DOMAIN loggers : loggers[i] = loggers[j] => i = j
    BY <1>0, LenProperties, ElementOfSeq DEF LogTypeOK, CallsInv
  <1>3. c.at \in 1 .. Len(loggers) /\ c.at <= Len(loggers) /\ k \in Loggers
    BY <1>1, <1>2, <1>latest
  <1>4. /\ CallsInv'
        /\ \A u \in Writers \ {t} : logging[u] = <<>> /\ logging'[u] = <<>>
        /\ n \in Nat \ {0} /\ DOMAIN logging'[t] = 1 .. n /\ DOMAIN logging[t] = 1 .. n
        /\ \A i \in 1 .. n - 1 : logging'[t][i] = logging[t][i] /\ logging[t][i].at = 0
        /\ logging'[t][n] = [c EXCEPT !.at = @ + 1]
        /\ c \in Calls /\ c = logging[t][n]
    BY <1>1, <1>3, <1>latest, GivenToNext
  <1>5. PICK advanced :
        /\ advanced = logging'[t][n]
        /\ advanced.msg = c.msg /\ advanced.debug = c.debug /\ advanced.at = c.at + 1
        /\ c.msg \in Nat /\ c.at \in Nat /\ c.msg <= messages
    <2>1. c \in Calls
      BY <1>4
    <2>2. /\ [c EXCEPT !.at = @ + 1].msg = c.msg /\ [c EXCEPT !.at = @ + 1].debug = c.debug
          /\ [c EXCEPT !.at = @ + 1].at = c.at + 1
          /\ c.msg \in Nat /\ c.at \in Nat
      BY ONLY <2>1 DEF Calls
    <2>3. c.msg <= messages
      BY <1>0, <1>4 DEF CallsInv
    <2> QED
      BY <1>4, <2>2, <2>3
  <1>6. OnItsWay(c)
    BY <1>0, <1>4
  <1>7. \A i \in 1 .. n - 1 : logging[t][i].msg # c.msg /\ OnItsWay(logging[t][i])
    <2>1. \A i, j \in 1 .. n : logging[t][i].msg = logging[t][j].msg => i = j
      BY <1>0, <1>4 DEF CallsInv
    <2>2. \A i \in 1 .. n - 1 : i \in 1 .. n /\ i # n /\ n \in 1 .. n
      BY <1>4
    <2> QED
      BY <1>0, <1>4, <2>1, <2>2
  <1>8. \/ UNCHANGED <<failed, log>> /\ ~(k \in Streams \ failed /\ (c.debug => k \in Debug))
        \/ log' = [log EXCEPT ![k] = Append(@, c.msg)] /\ failed' = failed
        \/ failed' = failed \cup {k} /\ log' = log
    BY <1>latest, AppLogAssumption DEF OnMsg, WritesTo
  <1> HIDE DEF n
  <1>9. ASSUME OnItsWay(advanced)', \A i \in 1 .. n - 1 : \E d : d = logging[t][i] /\ OnItsWay(d)',
               LogsAgree', \A l \in Loggers : \A i \in DOMAIN log'[l] : log'[l][i] <= messages
        PROVE  LogIInv'
    <2>1. ASSUME NEW u \in Writers, NEW i \in DOMAIN logging'[u]
          PROVE  \E frame : frame = logging'[u][i] /\ OnItsWay(frame)'
      <3>1. u = t
        <4>1. DOMAIN <<>> = {}
          OBVIOUS
        <4> QED
          BY <1>4, <2>1, <4>1
      <3>2. CASE i = n
        BY <1>5, <1>9, <3>1, <3>2
      <3>3. CASE i # n
        <4>1. i \in 1 .. n - 1
          BY <1>4, <2>1, <3>1, <3>3
        <4> QED
          BY <1>4, <1>9, <3>1, <4>1
      <3> QED
        BY <3>2, <3>3
    <2>2. (\A u \in Writers : \A i \in DOMAIN logging[u] : OnItsWay(logging[u][i]))'
      BY <2>1, Ways
    <2> QED
      BY <1>1, <1>4, <1>9, <2>2 DEF LogIInv
  <1>10. \A i \in 1 .. n - 1 : logging[t][i] \in Calls
    BY <1>0, <1>4, CallsOf
  <1>11. /\ \A l \in Loggers : \A p \in PositionIn(l, c.msg) :
              p = Len(log[l]) /\ \E j \in DOMAIN loggers : j < c.at /\ loggers[j] = l
         /\ \A j \in DOMAIN loggers :
              /\ j < c.at /\ loggers[j] \in Streams \ failed
              /\ c.debug => loggers[j] \in Debug
              => Has(loggers[j], c.msg)
    BY <1>6 DEF OnItsWay
  <1>12. /\ k = loggers[c.at]
         /\ \A j \in DOMAIN loggers : j < advanced.at <=> (j < c.at \/ (j = c.at /\ loggers[j] = k))
    BY <1>1, <1>2, <1>3, <1>5, <1>latest
  <1>13. ASSUME log' = log, failed \subseteq failed',
                ~(k \in Streams \ failed' /\ (c.debug => k \in Debug))
         PROVE  LogIInv'
    <2>1. /\ \A frame : OnItsWay(frame) => OnItsWay(frame)'
          /\ \A l, m : PositionIn(l, m)' = PositionIn(l, m) /\ (Has(l, m)' <=> Has(l, m))
      BY <1>1, <1>13, WayKept
    <2>2. \A l \in Loggers : \A p \in PositionIn(l, advanced.msg)' :
            p = Len(log'[l]) /\ \E j \in DOMAIN loggers' : j < advanced.at /\ loggers'[j] = l
      <3>1. \A l, p : p \in PositionIn(l, advanced.msg)' => p \in PositionIn(l, c.msg)
        BY <1>5, <2>1
      <3> QED
        BY <1>1, <1>11, <1>12, <1>13, <3>1
    <2>3. \A j \in DOMAIN loggers' :
            /\ j < advanced.at /\ loggers'[j] \in Streams \ failed'
            /\ advanced.debug => loggers'[j] \in Debug
            => Has(loggers'[j], advanced.msg)
      BY <1>1, <1>5, <1>11, <1>12, <1>13
    <2>4. OnItsWay(advanced)'
      <3>1. \A j \in DOMAIN loggers' :
              /\ j < advanced.at /\ loggers'[j] \in Streams \ failed'
              /\ advanced.debug => loggers'[j] \in Debug
              => Has(loggers[j], advanced.msg)'
        BY <1>1, <2>1, <2>3 DEF Has, PositionIn
      <3> QED
        BY <2>2, <3>1 DEF OnItsWay
    <2>5. LogsAgree'
      BY <1>0, <1>1, <1>13, AgreementKept
    <2> QED
      BY <1>0, <1>7, <1>9, <1>13, <2>1, <2>4, <2>5
  <1>14. ASSUME log' = [log EXCEPT ![k] = Append(@, c.msg)], failed' = failed
         PROVE  LogIInv'
    <2>1. PositionIn(k, c.msg) = {}
      BY <1>2, <1>3, <1>11, <1>12
    <2>2. /\ LogsAgree'
          /\ \A l \in Loggers : l # k => log'[l] = log[l]
          /\ \A i \in DOMAIN log[k] : i \in DOMAIN log'[k] /\ log'[k][i] = log[k][i]
          /\ Len(log'[k]) \in DOMAIN log'[k] /\ log'[k][Len(log'[k])] = c.msg
          /\ \A i \in DOMAIN log'[k] :
               \/ i = Len(log'[k])
               \/ i \in DOMAIN log[k] /\ log'[k][i] = log[k][i] /\ log[k][i] # c.msg
      <3>1. \A l \in Loggers : \A p \in PositionIn(l, c.msg) : p = Len(log[l])
        BY <1>11
      <3>2. UNCHANGED <<failed, told>> /\ c.msg \in Nat /\ k \in Loggers /\ LogTypeOK /\ LogsAgree
        BY <1>0, <1>1, <1>3, <1>5, <1>14
      <3> QED
        BY ONLY <1>14, <2>1, <3>1, <3>2, WrittenAgree
    <2>3. \A l \in Loggers : \A i \in DOMAIN log'[l] : log'[l][i] <= messages
      BY <1>0, <1>5, <2>2
    <2>4. \A l \in Loggers : \A p \in PositionIn(l, advanced.msg)' :
            p = Len(log'[l]) /\ \E j \in DOMAIN loggers' : j < advanced.at /\ loggers'[j] = l
      <3>1. ASSUME NEW l \in Loggers, NEW p \in PositionIn(l, advanced.msg)', l # k
            PROVE  p = Len(log'[l]) /\ \E j \in DOMAIN loggers' : j < advanced.at /\ loggers'[j] = l
        <4>1. p \in PositionIn(l, c.msg)
          BY <1>5, <2>2, <3>1 DEF PositionIn
        <4> QED
          BY <1>1, <1>11, <1>12, <2>2, <3>1, <4>1
      <3>2. ASSUME NEW p \in PositionIn(k, advanced.msg)'
            PROVE  p = Len(log'[k]) /\ \E j \in DOMAIN loggers' : j < advanced.at /\ loggers'[j] = k
        <4>1. p = Len(log'[k])
          BY <1>5, <2>2, <3>2 DEF PositionIn
        <4>2. c.at \in DOMAIN loggers' /\ c.at < advanced.at /\ loggers'[c.at] = k
          BY <1>1, <1>5, <1>12
        <4> QED
          BY <4>1, <4>2
      <3> QED
        BY <3>1, <3>2
    <2>5. /\ \A l \in Loggers : \A m : Has(l, m) => Has(l, m)'
          /\ Has(k, c.msg)'
      BY <2>2 DEF Has, PositionIn
    <2>6. OnItsWay(advanced)'
      <3>1. \A j \in DOMAIN loggers' :
              /\ j < advanced.at /\ loggers'[j] \in Streams \ failed'
              /\ advanced.debug => loggers'[j] \in Debug
              => Has(loggers[j], advanced.msg)'
        <4>1. ASSUME NEW j \in DOMAIN loggers, j < advanced.at, loggers[j] \in Streams \ failed,
                     c.debug => loggers[j] \in Debug
              PROVE  \E l \in Loggers : l = loggers[j] /\ Has(l, c.msg)'
          <5>1. CASE j < c.at
            BY <1>2, <1>11, <2>5, <4>1, <5>1
          <5>2. CASE ~(j < c.at)
            BY <1>3, <1>12, <2>5, <4>1, <5>2
          <5> QED
            BY <5>1, <5>2
        <4> QED
          BY <1>1, <1>5, <1>14, <4>1 DEF Has, PositionIn
      <3> QED
        BY <2>4, <3>1 DEF OnItsWay
    <2>7. ASSUME NEW i \in 1 .. n - 1 PROVE \E d : d = logging[t][i] /\ OnItsWay(d)'
      <3>1. PICK frame : frame = logging[t][i] /\ frame.msg # c.msg /\ OnItsWay(frame) /\ frame.at = 0
        BY <1>4, <1>7
      <3>2. \A j \in DOMAIN loggers : ~(j < 0)
        BY <1>2
      <3>3. \A l \in Loggers : PositionIn(l, frame.msg) = {}
        BY <3>1, <3>2 DEF OnItsWay
      <3>4. \A l \in Loggers : PositionIn(l, frame.msg)' = {}
        BY <2>2, <3>1, <3>3 DEF PositionIn
      <3>5. OnItsWay(frame)'
        BY <1>1, <3>1, <3>2, <3>4 DEF OnItsWay
      <3> QED
        BY <3>1, <3>5
    <2> QED
      BY <1>9, <2>2, <2>3, <2>6, <2>7
  <1> QED
    BY <1>8, <1>13, <1>14

LEMMA OpenFailsStep ==
  ASSUME LogIInv, LogTypeOK', NEW t \in Writers, OpenFails(t) PROVE LogIInv'
  <1>1. logging[t] # <<>> /\ UNCHANGED <<loggers, messages, failed, log, told>> /\ LogsAgree
    BY DEF OpenFails, LogIInv
  <1>2. PICK n \in 0 .. (Len(logging[t]) - 1) :
          /\ logging' = [logging EXCEPT ![t] = SubSeq(@, 1, n)]
          /\ guard' = IF n = 0 THEN Guard!Free ELSE [guard EXCEPT !.depth = n]
    BY DEF OpenFails
  <1>3. LogsAgree'
    BY <1>1, AgreementKept
  <1> QED
    BY <1>1, <1>2, <1>3, CallsEnd

LEMMA LogReturnsStep ==
  ASSUME LogIInv, LogTypeOK', NEW t \in Writers, LogReturns(t) PROVE LogIInv'
  <1> DEFINE n == Len(logging[t]) - 1
             told1 == [msg |-> Latest(t).msg, debug |-> Latest(t).debug, loggers |-> Attached]
  <1>0. /\ LogTypeOK /\ CallsInv /\ LogsAgree
        /\ \A u \in Writers : \A i \in DOMAIN logging[u] : OnItsWay(logging[u][i])
    BY DEF LogIInv
  <1>1. /\ logging[t] # <<>> /\ UNCHANGED <<loggers, messages, failed, log>>
        /\ Latest(t).at = Len(loggers) + 1 /\ told' = told \cup {told1}
        /\ logging' = [logging EXCEPT ![t] = SubSeq(@, 1, n)] /\ guard' = Guard!Unlocked(guard)
    BY DEF LogReturns, outVars
  <1>2. /\ Len(logging[t]) \in Nat \ {0} /\ n \in 0 .. Len(logging[t]) - 1
        /\ Len(logging[t]) \in DOMAIN logging[t] /\ Latest(t) = logging[t][Len(logging[t])]
    BY <1>0, <1>1, CallsOf
  <1>3. guard' = IF n = 0 THEN Guard!Free ELSE [guard EXCEPT !.depth = n]
    <2>1. guard.depth = Len(logging[t])
      BY <1>0, <1>1, GuardHeld
    <2>2. (guard.depth > 1 <=> n # 0) /\ guard.depth - 1 = n
      <3>1. PICK k \in Nat : k # 0 /\ k = Len(logging[t])
        BY <1>2
      <3>2. \A m \in Nat : m # 0 => ((m > 1) <=> (m - 1 # 0))
        OBVIOUS
      <3> QED
        BY <2>1, <3>1, <3>2
    <2> HIDE DEF n
    <2>3. guard' = IF guard.depth > 1 THEN [guard EXCEPT !.depth = guard.depth - 1] ELSE Guard!Free
      BY <1>1 DEF Guard!Unlocked
    <2> QED
      BY <2>2, <2>3
  <1>4. LogsAgree'
    <2>1. \A l, m : PositionIn(l, m)' = PositionIn(l, m)
      BY <1>1 DEF PositionIn
    <2>2. ASSUME NEW l \in (Attached \cap Streams) \ failed, Latest(t).debug => l \in Debug
          PROVE  PositionIn(l, Latest(t).msg) # {}
      <3>1. OnItsWay(Latest(t))
        BY <1>0, <1>2
      <3>2. PICK j \in DOMAIN loggers : loggers[j] = l
        BY DEF Attached
      <3>3. j < Latest(t).at
        BY <1>0, <1>1, LenProperties DEF LogTypeOK
      <3> QED
        BY <2>2, <3>1, <3>2, <3>3 DEF OnItsWay, Has
    <2>3. told1.msg = Latest(t).msg /\ told1.debug = Latest(t).debug /\ told1.loggers = Attached
      OBVIOUS
    <2> HIDE DEF told1
    <2>4. \A m \in told' : \A l \in (m.loggers \cap Streams) \ failed' :
            (m.debug => l \in Debug) => PositionIn(l, m.msg) # {}
      BY <1>0, <1>1, <2>2, <2>3 DEF LogsAgree
    <2> QED
      BY <1>0, <1>1, <2>1, <2>4 DEF LogsAgree
  <1> QED
    BY <1>1, <1>2, <1>3, <1>4, CallsEnd

LEMMA LogStep == ASSUME LogIInv, [LogNext]_logVars PROVE LogIInv'
  <1>1. LogTypeOK'
    BY LogTypeStep DEF LogIInv
  <1>2. ASSUME NEW l \in Loggers, NewLogger(l) PROVE LogIInv'
    BY <1>1, <1>2, AtRestStep DEF NewLogger
  <1>3. ASSUME NEW l \in FileLoggers, NEW b \in SUBSET FileLoggers, SetBase(l, b) PROVE LogIInv'
    BY <1>1, <1>3, AtRestStep DEF SetBase
  <1>4. ASSUME NEW t \in Writers, NEW debug \in BOOLEAN, CallLog(t, debug) PROVE LogIInv'
    BY <1>1, <1>4, CallLogStep
  <1>5. ASSUME NEW t \in Writers,
               HandlersReturn(t) \/ OnMsg(t) \/ OpenFails(t) \/ LogReturns(t)
        PROVE  LogIInv'
    BY <1>1, <1>5, HandlersReturnStep, OnMsgStep, OpenFailsStep, LogReturnsStep
  <1>6. CASE UNCHANGED logVars
    <2>1. UNCHANGED <<guard, loggers, logging, messages, base, open, failed, log, told>>
      BY <1>6 DEF logVars
    <2>2. LogsAgree' /\ CallsInv'
      BY <2>1, AgreementKept DEF LogIInv, CallsInv
    <2>3. (\A u \in Writers : \A i \in DOMAIN logging[u] : OnItsWay(logging[u][i]))'
      BY <2>1 DEF LogIInv, OnItsWay, PositionIn, Has
    <2> QED
      BY <1>1, <2>1, <2>2, <2>3 DEF LogIInv
  <1> QED
    BY <1>2, <1>3, <1>4, <1>5, <1>6 DEF LogNext

(* However many threads log, whatever the handlers of Msg log in the middle   *)
(* of it and whenever a file cannot be opened, the logs have every message    *)
(* once, all in one order, and those that are well miss none.                 *)
THEOREM AppLogsAgree == LogSpec => []LogsAgree
  <1>1. LogInit => LogIInv
    <2> SUFFICES ASSUME LogInit PROVE LogIInv
      OBVIOUS
    <2>1. /\ <<>> \in Seq(Loggers) /\ <<>> \in Seq(Calls) /\ <<>> \in Seq(Nat) /\ DOMAIN <<>> = {}
      BY EmptySeq
    <2>2. LogTypeOK
      BY <2>1 DEF LogInit, LogTypeOK, Guard!Free, Guard!MutexStates
    <2>3. \A t \in Writers : logging[t] = <<>>
      BY DEF LogInit
    <2>4. CallsInv
      BY <2>1, <2>3, AppLogAssumption DEF LogInit, CallsInv, Guard!Free
    <2>5. \A l \in Loggers : log[l] = <<>>
      BY DEF LogInit
    <2>6. LogsAgree
      BY <2>1, <2>5 DEF LogInit, LogsAgree
    <2> QED
      BY <2>1, <2>2, <2>3, <2>4, <2>5, <2>6 DEF LogIInv
  <1>2. LogIInv => LogsAgree
    BY DEF LogIInv
  <1> QED
    BY <1>1, <1>2, LogStep, PTL DEF LogSpec

--------------------------------------------------------------------------------
(* Containers. *)

Cells == [key : Nat, val : Nat]

LEMMA FirstPlace ==
  ASSUME NEW n \in Nat, NEW I \in SUBSET (1 .. n + 1), n + 1 \in I
  PROVE  Min(I) \in I /\ \A j \in I : Min(I) <= j
  <1>1. I \in SUBSET Nat /\ I # {}
    OBVIOUS
  <1>2. \E i \in I : \A j \in I : i <= j
    BY <1>1, LeastElement
  <1> QED
    BY <1>2 DEF Min

(* find() gives the first place of a key, or the one behind the last.        *)
LEMMA KeyFound ==
  ASSUME NEW s \in Seq(Cells), NEW k \in Nat
  PROVE  /\ FindKey(s, k) \in 1 .. Len(s) + 1
         /\ FindKey(s, k) <= Len(s) => s[FindKey(s, k)].key = k
         /\ \A i \in 1 .. Len(s) : i < FindKey(s, k) => s[i].key # k
  <1> DEFINE n == Len(s)
             t == s \o <<Pair(k, Null)>>
             I == {i \in 1 .. Len(t) : t[i].key = k}
  <1>1. n \in Nat /\ Pair(k, Null) \in Cells /\ Pair(k, Null).key = k
    BY LenProperties DEF Pair, Null, Cells
  <1>2. /\ Len(t) = n + 1 /\ t[n + 1].key = k
        /\ \A i \in 1 .. n : t[i] = s[i]
    <2>1. Append(s, Pair(k, Null)) = t
      BY <1>1, AppendIsConcat
    <2> QED
      BY <1>1, <2>1, AppendProperties
  <1> HIDE DEF t
  <1>3. I \in SUBSET (1 .. n + 1) /\ n + 1 \in I
    BY <1>1, <1>2
  <1>4. FindKey(s, k) = Min(I)
    BY <1>3 DEF FindKey, SelectInSeq, t
  <1>5. Min(I) \in I /\ \A j \in I : Min(I) <= j
    BY ONLY <1>1, <1>3, FirstPlace
  <1>6. PICK m \in 1 .. n + 1 : m = Min(I)
    BY <1>3, <1>5
  <1>7. t[m].key = k /\ \A j \in 1 .. n + 1 : t[j].key = k => m <= j
    BY <1>2, <1>5, <1>6
  <1>8. m = FindKey(s, k) /\ m \in Nat
    BY <1>1, <1>4, <1>6
  <1>9. m <= n => s[m].key = k
    BY <1>1, <1>2, <1>7, <1>8
  <1>10. \A i \in 1 .. n : i < m => s[i].key # k
    BY <1>1, <1>2, <1>7, <1>8
  <1> QED
    BY ONLY <1>6, <1>8, <1>9, <1>10 DEF n

(* insert() puts an element behind those of the same and of lower keys.      *)
LEMMA UpperBound ==
  ASSUME NEW s \in Seq(Cells), NEW k \in Nat, NEW v \in Nat
  PROVE  \E p \in 1 .. Len(s) + 1 :
           /\ InsertSorted(s, k, v) = InsertedAt(s, p, Pair(k, v))
           /\ p <= Len(s) => s[p].key > k
           /\ \A i \in 1 .. Len(s) : i < p => s[i].key <= k
  <1> DEFINE n == Len(s)
             t == s \o <<Pair(k + 1, v)>>
             I == {i \in 1 .. Len(t) : t[i].key > k}
  <1>1. n \in Nat /\ Pair(k + 1, v) \in Cells /\ Pair(k + 1, v).key = k + 1
    BY LenProperties DEF Pair, Cells
  <1>2. /\ Len(t) = n + 1 /\ t[n + 1].key = k + 1
        /\ \A i \in 1 .. n : t[i] = s[i]
    <2>1. Append(s, Pair(k + 1, v)) = t
      BY <1>1, AppendIsConcat
    <2> QED
      BY <1>1, <2>1, AppendProperties
  <1> HIDE DEF t
  <1>3. I \in SUBSET (1 .. n + 1) /\ n + 1 \in I
    BY <1>1, <1>2
  <1>4. InsertSorted(s, k, v) = InsertedAt(s, Min(I), Pair(k, v))
    BY <1>3 DEF InsertSorted, SelectInSeq, InsertAt, InsertedAt, t
  <1>5. Min(I) \in I /\ \A j \in I : Min(I) <= j
    BY ONLY <1>1, <1>3, FirstPlace
  <1>6. \A i \in 1 .. n : s[i].key \in Nat
    <2>1. \A i \in 1 .. n : s[i] \in Cells
      BY ElementOfSeq
    <2> QED
      BY <2>1 DEF Cells
  <1>7. PICK p \in 1 .. n + 1 : p = Min(I)
    BY <1>3, <1>5
  <1>8. t[p].key > k /\ \A j \in 1 .. n + 1 : t[j].key > k => p <= j
    BY <1>2, <1>5, <1>7
  <1>9. InsertSorted(s, k, v) = InsertedAt(s, p, Pair(k, v)) /\ p \in Nat
    BY <1>1, <1>4, <1>7
  <1>10. p <= n => s[p].key > k
    BY <1>1, <1>2, <1>8, <1>9
  <1>11. \A i \in 1 .. n : i < p => s[i].key <= k
    BY <1>1, <1>2, <1>6, <1>8, <1>9
  <1> QED
    BY ONLY <1>7, <1>9, <1>10, <1>11 DEF n

(* A list in order stays in order when an element is inserted that is newer *)
(* than those of its key.                                                   *)
LEMMA SortedInsertion ==
  ASSUME NEW S \in SUBSET Cells, NEW s \in Seq(S), InOrder(s),
         NEW k \in Nat, NEW v \in Nat, Pair(k, v) \in S,
         \A i \in DOMAIN s : s[i].key = k => s[i].val < v
  PROVE  InsertSorted(s, k, v) \in Seq(S) /\ InOrder(InsertSorted(s, k, v))
  <1> DEFINE n == Len(s)
  <1>1. n \in Nat /\ DOMAIN s = 1 .. n /\ s \in Seq(Cells)
    BY LenProperties, SeqMonotonic
  <1>2. PICK p \in 1 .. n + 1 :
           /\ InsertSorted(s, k, v) = InsertedAt(s, p, Pair(k, v))
           /\ p <= n => s[p].key > k
           /\ \A i \in 1 .. n : i < p => s[i].key <= k
    BY <1>1, UpperBound
  <1>3. PICK r : r = InsertedAt(s, p, Pair(k, v))
    OBVIOUS
  <1>4. /\ r \in Seq(S) /\ Len(r) = n + 1
        /\ \A i \in 1 .. p - 1 : r[i] = s[i]
        /\ r[p] = Pair(k, v)
        /\ \A i \in p .. n : r[i + 1] = s[i]
    <2>1. PICK x \in S : x = Pair(k, v)
      OBVIOUS
    <2>2. s \in Seq(S) /\ p \in 1 .. Len(s) + 1 /\ r = InsertedAt(s, p, x)
      BY <1>3, <2>1
    <2>3. /\ r \in Seq(S) /\ Len(r) = Len(s) + 1
          /\ \A i \in 1 .. p - 1 : r[i] = s[i]
          /\ r[p] = x
          /\ \A i \in p .. Len(s) : r[i + 1] = s[i]
      BY ONLY <2>1, <2>2, WithOneMore
    <2> QED
      BY <2>1, <2>3
  <1>5. /\ r[p].key = k /\ r[p].val = v
        /\ DOMAIN r = 1 .. n + 1
    BY <1>4, LenProperties DEF Pair
  <1>6. \A i \in 1 .. n : s[i].key \in Nat /\ s[i].val \in Nat
    BY <1>1, ElementOfSeq DEF Cells
  <1>7. \A i \in 1 .. n : i < p => s[i].key < k \/ (s[i].key = k /\ s[i].val < v)
    BY <1>1, <1>2, <1>6
  <1>8. \A i \in p .. n : k < s[i].key
    <2> SUFFICES ASSUME NEW i \in p .. n PROVE k < s[i].key
      OBVIOUS
    <2>1. p \in 1 .. n /\ i \in 1 .. n /\ k < s[p].key
      BY <1>1, <1>2
    <2>2. i = p \/ (p < i /\ (s[p].key < s[i].key \/ s[p].key = s[i].key))
      BY <1>1, <2>1 DEF InOrder
    <2> QED
      BY <1>6, <2>1, <2>2
  <1>9. ASSUME NEW i \in 1 .. n + 1, NEW j \in 1 .. n + 1, i < j
        PROVE  r[i].key < r[j].key \/ (r[i].key = r[j].key /\ r[i].val < r[j].val)
    <2>1. CASE j < p
      <3>1. i \in DOMAIN s /\ j \in DOMAIN s /\ r[i] = s[i] /\ r[j] = s[j]
        BY <1>1, <1>4, <1>9, <2>1
      <3> QED
        BY <1>9, <3>1 DEF InOrder
    <2>2. CASE j = p
      BY <1>1, <1>4, <1>5, <1>7, <1>9, <2>2
    <2>3. CASE j > p
      <3>1. j - 1 \in p .. n /\ r[j] = s[j - 1] /\ j - 1 \in DOMAIN s
        <4>1. j - 1 \in p .. n /\ j - 1 + 1 = j
          BY <1>1, <2>3
        <4> QED
          BY <1>1, <1>4, <4>1
      <3>2. CASE i < p
        <4>1. r[i] = s[i] /\ i \in DOMAIN s /\ i < j - 1
          BY <1>1, <1>4, <2>3, <3>2
        <4> QED
          BY <3>1, <4>1 DEF InOrder
      <3>3. CASE i = p
        BY <1>5, <1>8, <3>1, <3>3
      <3>4. CASE i > p
        <4>1. i - 1 \in p .. n /\ i - 1 + 1 = i /\ i - 1 < j - 1
          BY <1>1, <1>9, <3>4
        <4>2. r[i] = s[i - 1] /\ i - 1 \in DOMAIN s
          BY <1>1, <1>4, <4>1
        <4> QED
          BY <3>1, <4>1, <4>2 DEF InOrder
      <3> QED
        BY <1>1, <3>2, <3>3, <3>4
    <2> QED
      BY <1>1, <2>1, <2>2, <2>3
  <1> QED
    BY <1>2, <1>3, <1>4, <1>5, <1>9 DEF InOrder

(* Every two keys of t, one ahead of the other, are so in s, or the one      *)
(* behind is new.                                                            *)
Follows(s, t) ==
  \A i, j \in DOMAIN t : i < j =>
    \/ \E u, w \in DOMAIN s : u < w /\ s[u].key = t[i].key /\ s[w].key = t[j].key
    \/ t[i].key # t[j].key /\ \A u \in DOMAIN s : s[u].key # t[j].key

HasKey(s, k) == \E i \in DOMAIN s : s[i].key = k

LEMMA FollowingKeeps ==
  ASSUME NEW s, NEW t, IsInjective(KeysOf(s)), Follows(s, t),
         DOMAIN s \subseteq Nat, DOMAIN t \subseteq Nat
  PROVE  /\ IsInjective(KeysOf(t))
         /\ \A a, b : /\ a # b /\ HasKey(s, a) /\ HasKey(t, a) /\ HasKey(t, b)
                      /\ Ahead(s, a, b) \/ ~HasKey(s, b)
                      => Ahead(t, a, b)
  <1>1. \A u, w \in DOMAIN s : s[u].key = s[w].key => u = w
    BY DEF IsInjective, KeysOf
  <1>2. ASSUME NEW i \in DOMAIN t, NEW j \in DOMAIN t, t[i].key = t[j].key, i < j PROVE FALSE
    <2>1. PICK u, w \in DOMAIN s : u < w /\ s[u].key = t[i].key /\ s[w].key = t[j].key
      BY <1>2 DEF Follows
    <2>2. u = w /\ u \in Nat
      BY <1>1, <1>2, <2>1
    <2> QED
      BY <2>1, <2>2
  <1>3. IsInjective(KeysOf(t))
    <2> SUFFICES ASSUME NEW i \in DOMAIN t, NEW j \in DOMAIN t, t[i].key = t[j].key PROVE i = j
      BY DEF IsInjective, KeysOf
    <2>1. i \in Nat /\ j \in Nat
      OBVIOUS
    <2> QED
      BY <1>2, <2>1
  <1>4. ASSUME NEW a, NEW b, a # b, HasKey(s, a), HasKey(t, a), HasKey(t, b),
               Ahead(s, a, b) \/ ~HasKey(s, b)
        PROVE  Ahead(t, a, b)
    <2>1. PICK i, j \in DOMAIN t : t[i].key = a /\ t[j].key = b
      BY <1>4 DEF HasKey
    <2>2. i \in Nat /\ j \in Nat /\ i # j
      BY <1>4, <2>1
    <2>3. CASE j < i
      <3>1. PICK u, w \in DOMAIN s : u < w /\ s[u].key = b /\ s[w].key = a
        BY <1>4, <2>1, <2>3 DEF Follows, HasKey
      <3>2. PICK x, y \in DOMAIN s : x < y /\ s[x].key = a /\ s[y].key = b
        BY <1>4, <3>1 DEF Ahead, HasKey
      <3>3. x = w /\ y = u /\ x \in Nat /\ y \in Nat
        BY <1>1, <3>1, <3>2
      <3> QED
        BY <3>1, <3>2, <3>3
    <2> QED
      BY <2>1, <2>2, <2>3 DEF Ahead
  <1> QED
    BY <1>3, <1>4

(* The place of a key that is there, which is its only one.                  *)
LEMMA KeyHeld ==
  ASSUME NEW s \in Seq(Cells), IsInjective(KeysOf(s)), NEW k \in Nat
  PROVE  /\ Contained(s, k) <=> HasKey(s, k)
         /\ Contained(s, k) => /\ FindKey(s, k) \in DOMAIN s /\ s[FindKey(s, k)].key = k
                               /\ \A i \in DOMAIN s : s[i].key = k => i = FindKey(s, k)
  <1>1. PICK n : n = Len(s) /\ n \in Nat /\ DOMAIN s = 1 .. n
    BY LenProperties
  <1>2. PICK f \in 1 .. n + 1 : /\ f = FindKey(s, k)
                                /\ f <= n => s[f].key = k
                                /\ \A i \in 1 .. n : i < f => s[i].key # k
    BY <1>1, KeyFound
  <1>3. \A u, w \in 1 .. n : s[u].key = s[w].key => u = w
    BY <1>1 DEF IsInjective, KeysOf
  <1>4. Contained(s, k) <=> f <= n
    BY <1>1, <1>2 DEF Contained
  <1>5. f <= n <=> HasKey(s, k)
    BY <1>1, <1>2 DEF HasKey
  <1>6. f <= n => f \in 1 .. n /\ \A i \in 1 .. n : s[i].key = k => i = f
    BY <1>1, <1>2, <1>3
  <1> QED
    BY ONLY <1>1, <1>2, <1>4, <1>5, <1>6

(* A pair more at the end.                                                   *)
LEMMA PairAppended ==
  ASSUME NEW S, NEW s \in Seq(S), NEW k, NEW v, Pair(k, v) \in S, ~HasKey(s, k)
  PROVE  /\ Append(s, Pair(k, v)) \in Seq(S) /\ Follows(s, Append(s, Pair(k, v)))
         /\ DOMAIN Append(s, Pair(k, v)) = DOMAIN s \cup {Len(s) + 1}
         /\ Append(s, Pair(k, v))[Len(s) + 1] = Pair(k, v)
         /\ \A i \in DOMAIN s : Append(s, Pair(k, v))[i] = s[i]
  <1>1. PICK n : n = Len(s) /\ n \in Nat /\ DOMAIN s = 1 .. n
    BY LenProperties
  <1>2. PICK r : r = Append(s, Pair(k, v))
    OBVIOUS
  <1>3. /\ r \in Seq(S) /\ Len(r) = n + 1 /\ r[n + 1] = Pair(k, v)
        /\ \A i \in 1 .. n : r[i] = s[i]
    BY <1>1, <1>2, AppendProperties
  <1>4. DOMAIN r = 1 .. n + 1 /\ r[n + 1].key = k
    BY <1>3, LenProperties DEF Pair
  <1>5. \A u \in 1 .. n : s[u].key # k
    BY <1>1 DEF HasKey
  <1>6. ASSUME NEW i \in 1 .. n + 1, NEW j \in 1 .. n + 1, i < j
        PROVE  \/ \E u, w \in 1 .. n : u < w /\ s[u].key = r[i].key /\ s[w].key = r[j].key
               \/ r[i].key # r[j].key /\ \A u \in 1 .. n : s[u].key # r[j].key
    <2>1. i \in 1 .. n /\ r[i] = s[i]
      BY <1>1, <1>3, <1>6
    <2>2. CASE j <= n
      <3>1. j \in 1 .. n /\ r[j] = s[j]
        BY <1>1, <1>3, <2>2
      <3> QED
        BY <1>6, <2>1, <3>1
    <2>3. CASE j = n + 1
      BY <1>4, <1>5, <2>1, <2>3
    <2> QED
      BY <1>1, <2>2, <2>3
  <1>7. Follows(s, r)
    BY <1>1, <1>4, <1>6 DEF Follows
  <1>8. DOMAIN r = DOMAIN s \cup {n + 1}
    BY <1>1, <1>4
  <1> QED
    BY <1>1, <1>2, <1>3, <1>7, <1>8

(* An entry less.                                                            *)
LEMMA PairRemoved ==
  ASSUME NEW S, NEW s \in Seq(S), NEW f \in DOMAIN s
  PROVE  /\ RemoveAt(s, f) \in Seq(S) /\ Follows(s, RemoveAt(s, f))
         /\ \A i \in DOMAIN RemoveAt(s, f) : \E u \in DOMAIN s : RemoveAt(s, f)[i] = s[u]
  <1>1. PICK n : n = Len(s) /\ n \in Nat /\ DOMAIN s = 1 .. n
    BY LenProperties
  <1>2. PICK r : r = RemoveAt(s, f)
    OBVIOUS
  <1> DEFINE at(i) == IF i < f THEN i ELSE i + 1
  <1>3. /\ r \in Seq(S) /\ Len(r) = n - 1
        /\ \A i \in 1 .. n - 1 : r[i] = s[at(i)]
    BY <1>1, <1>2, EntryCutOut DEF RemoveAt
  <1>4. DOMAIN r = 1 .. n - 1
    BY <1>3, LenProperties
  <1>5. \A i, j \in 1 .. n - 1 : at(i) \in 1 .. n /\ (i < j => at(i) < at(j))
    BY <1>1
  <1> HIDE DEF at
  <1>6. Follows(s, r)
    <2> SUFFICES ASSUME NEW i \in DOMAIN r, NEW j \in DOMAIN r, i < j
                 PROVE  \E u, w \in DOMAIN s : u < w /\ s[u].key = r[i].key /\ s[w].key = r[j].key
      BY DEF Follows
    <2>1. /\ r[i] = s[at(i)] /\ r[j] = s[at(j)]
          /\ at(i) \in DOMAIN s /\ at(j) \in DOMAIN s /\ at(i) < at(j)
      BY <1>1, <1>3, <1>4, <1>5
    <2> QED
      BY <2>1
  <1> QED
    BY <1>1, <1>2, <1>3, <1>4, <1>5, <1>6

LEMMA PairsAreCells ==
  ASSUME NEW m \in Nat PROVE [key : Keys, val : 0 .. m] \subseteq Cells
  <1> SUFFICES ASSUME NEW p \in [key : Keys, val : 0 .. m] PROVE p \in Cells
    OBVIOUS
  <1>1. p = [key |-> p.key, val |-> p.val] /\ p.key \in Keys /\ p.val \in 0 .. m
    OBVIOUS
  <1>2. p.key \in Nat /\ p.val \in Nat
    <2>1. Keys \subseteq Nat /\ 0 .. m \subseteq Nat
      BY ContainersAssumption
    <2> QED
      BY ONLY <1>1, <2>1
  <1>3. [key |-> p.key, val |-> p.val] \in Cells
    BY ONLY <1>2 DEF Cells
  <1> QED
    BY <1>1, <1>3

(* What a step that leaves the order of the OrderedMap keeps.  In the list   *)
(* afterwards a pair is one of those before, or newly written.               *)
LEMMA OrderedStep ==
  ASSUME ContainersIInv, inserts' \in {inserts, inserts + 1},
         ordered' \in Seq(Pairs'), Follows(ordered, ordered'),
         \A j \in DOMAIN ordered', i \in DOMAIN ordered :
           ordered'[j].key = ordered[i].key => ordered'[j].val >= ordered[i].val
  PROVE  /\ IsInjective(KeysOf(ordered'))
         /\ \A a, b \in Keys :
              /\ a # b /\ Contained(ordered, a) /\ Contained(ordered, a)' /\ Contained(ordered, b)'
              /\ Ahead(ordered, a, b) \/ ~Contained(ordered, b)
              => Ahead(ordered, a, b)'
         /\ \A k \in Keys : Lookup(ordered, k)' >= Lookup(ordered, k) \/ ~Contained(ordered, k)'
  <1>1. inserts \in Nat /\ inserts' \in Nat /\ Keys \subseteq Nat
    BY ContainersAssumption DEF ContainersIInv
  <1>2. ordered \in Seq(Cells) /\ ordered' \in Seq(Cells) /\ IsInjective(KeysOf(ordered))
    <2>1. Pairs \subseteq Cells /\ Pairs' \subseteq Cells
      BY <1>1, PairsAreCells DEF Pairs
    <2> QED
      BY <2>1, SeqMonotonic DEF ContainersIInv
  <1>3. DOMAIN ordered \subseteq Nat /\ DOMAIN ordered' \subseteq Nat
    BY <1>2, LenProperties
  <1>4. /\ IsInjective(KeysOf(ordered'))
        /\ \A a, b : /\ a # b /\ HasKey(ordered, a) /\ HasKey(ordered', a) /\ HasKey(ordered', b)
                     /\ Ahead(ordered, a, b) \/ ~HasKey(ordered, b)
                     => Ahead(ordered', a, b)
    BY ONLY <1>2, <1>3, Follows(ordered, ordered'), FollowingKeeps
  <1>5. \A k \in Keys : /\ Contained(ordered, k) <=> HasKey(ordered, k)
                        /\ Contained(ordered', k) <=> HasKey(ordered', k)
    BY <1>1, <1>2, <1>4, KeyHeld
  <1>6. ASSUME NEW k \in Keys, Contained(ordered', k)
        PROVE  Lookup(ordered', k) >= Lookup(ordered, k)
    <2>1. PICK j : /\ j = FindKey(ordered', k) /\ j \in DOMAIN ordered' /\ ordered'[j].key = k
                   /\ Lookup(ordered', k) = ordered'[j].val /\ ordered'[j].val \in Nat
      <3>1. FindKey(ordered', k) \in DOMAIN ordered' /\ ordered'[FindKey(ordered', k)].key = k
        BY <1>1, <1>2, <1>4, <1>6, KeyHeld
      <3>2. ordered'[FindKey(ordered', k)] \in Cells
        BY <1>2, <3>1, ElementOfSeq, LenProperties
      <3> QED
        BY <1>6, <3>1, <3>2 DEF Lookup, Cells
    <2>2. CASE Contained(ordered, k)
      <3>1. FindKey(ordered, k) \in DOMAIN ordered /\ ordered[FindKey(ordered, k)].key = k
        BY <1>1, <1>2, <2>2, KeyHeld
      <3> QED
        BY <2>1, <2>2, <3>1 DEF Lookup
    <2>3. CASE ~Contained(ordered, k)
      BY <2>1, <2>3 DEF Lookup, Null
    <2> QED
      BY <2>2, <2>3
  <1>7. \A k : Contained(ordered, k)' = Contained(ordered', k) /\ Lookup(ordered, k)' = Lookup(ordered', k)
    <2>1. \A k : FindKey(ordered, k)' = FindKey(ordered', k)
      BY DEF FindKey, SelectInSeq, Pair, Null
    <2>2. \A k : Contained(ordered, k)' = Contained(ordered', k)
      BY <2>1 DEF Contained
    <2> QED
      BY <2>1, <2>2 DEF Lookup, Null
  <1>8. \A a, b : Ahead(ordered, a, b)' = Ahead(ordered', a, b)
    BY DEF Ahead
  <1> QED
    BY <1>4, <1>5, <1>6, <1>7, <1>8

(* A pair of a key that is there is written over.                            *)
LEMMA PairWritten ==
  ASSUME NEW S \in SUBSET Cells, NEW s \in Seq(S), NEW f \in DOMAIN s,
         NEW p \in S, p.key = s[f].key, NEW r, r = [s EXCEPT ![f] = p]
  PROVE  /\ r \in Seq(S) /\ Follows(s, r) /\ DOMAIN r = DOMAIN s
         /\ \A i \in DOMAIN s : /\ r[i].key = s[i].key
                                /\ i # f => r[i] = s[i]
                                /\ i = f => r[i] = p
  <1>1. PICK n : n = Len(s) /\ n \in Nat /\ DOMAIN s = 1 .. n /\ s \in [1 .. n -> S]
    <2>1. s \in [1 .. Len(s) -> S]
      BY LenProperties
    <2> QED
      BY <2>1, LenProperties
  <1>2. /\ r \in [1 .. n -> S] /\ r[f] = p
        /\ \A i \in 1 .. n : i # f => r[i] = s[i]
    BY <1>1
  <1>5. r \in Seq(S)
    BY <1>1, <1>2, FunctionIsSeq
  <1>6. \A i \in 1 .. n : r[i].key = s[i].key
    BY <1>2
  <1>7. DOMAIN r = DOMAIN s
    BY <1>1, <1>2
  <1>8. Follows(s, r)
    <2> SUFFICES ASSUME NEW i \in DOMAIN r, NEW j \in DOMAIN r, i < j
                 PROVE  \E u, w \in DOMAIN s : u < w /\ s[u].key = r[i].key /\ s[w].key = r[j].key
      BY DEF Follows
    <2> QED
      BY <1>1, <1>6, <1>7
  <1> QED
    BY <1>1, <1>2, <1>5, <1>6, <1>7, <1>8

(* A list that stays as it is.                                               *)
LEMMA SameFollows == ASSUME NEW s PROVE Follows(s, s)
  BY DEF Follows

KeptNow ==
  /\ ContainersIInv'
  /\ \A a, b \in Keys :
       /\ a # b /\ Contained(ordered, a) /\ Contained(ordered, a)' /\ Contained(ordered, b)'
       /\ Ahead(ordered, a, b) \/ ~Contained(ordered, b)
       => Ahead(ordered, a, b)'
  /\ \A k \in Keys : Lookup(ordered, k)' >= Lookup(ordered, k) \/ ~Contained(ordered, k)'

(* Each container alone: what it takes for a step to keep the order of all.  *)
LEMMA ContainersKeep ==
  ASSUME ContainersIInv, inserts' \in {inserts, inserts + 1},
         \/ ordered' = ordered
         \/ /\ ordered' \in Seq(Pairs') /\ Follows(ordered, ordered')
            /\ \A j \in DOMAIN ordered', i \in DOMAIN ordered :
                 ordered'[j].key = ordered[i].key => ordered'[j].val >= ordered[i].val,
         multi' = multi \/ (multi' \in Seq(Pairs') /\ InOrder(multi')),
         sorted' = sorted \/ (sorted' \in Seq(Pairs') /\ InOrder(sorted'))
  PROVE  KeptNow
  <1>1. inserts \in Nat /\ inserts' \in Nat
    BY DEF ContainersIInv
  <1>2. Pairs \subseteq Pairs' /\ Pairs \subseteq Cells
    <2>1. 0 .. inserts \subseteq 0 .. inserts'
      BY <1>1
    <2>2. Pairs' = [key : Keys, val : 0 .. inserts']
      BY DEF Pairs
    <2> QED
      BY <1>1, <2>1, <2>2, PairsAreCells DEF Pairs
  <1>3. {ordered, multi, sorted} \subseteq Seq(Pairs')
    BY <1>2, SeqMonotonic DEF ContainersIInv
  <1>4. ordered' \in Seq(Pairs') /\ multi' \in Seq(Pairs') /\ sorted' \in Seq(Pairs')
    BY <1>3
  <1>5. InOrder(multi') /\ InOrder(sorted')
    BY DEF ContainersIInv
  <1>6. Follows(ordered, ordered')
    BY SameFollows
  <1>7. \A j \in DOMAIN ordered', i \in DOMAIN ordered :
          ordered'[j].key = ordered[i].key => ordered'[j].val >= ordered[i].val
    <2> SUFFICES ASSUME ordered' = ordered, NEW j \in DOMAIN ordered, NEW i \in DOMAIN ordered,
                        ordered[j].key = ordered[i].key
                 PROVE  ordered[j].val >= ordered[i].val
      OBVIOUS
    <2>1. i = j
      BY DEF ContainersIInv, IsInjective, KeysOf
    <2>2. ordered[i] \in Cells
      BY <1>2, ElementOfSeq, LenProperties DEF ContainersIInv
    <2> QED
      BY <2>1, <2>2 DEF Cells
  <1>8. /\ IsInjective(KeysOf(ordered'))
        /\ \A a, b \in Keys :
             /\ a # b /\ Contained(ordered, a) /\ Contained(ordered, a)' /\ Contained(ordered, b)'
             /\ Ahead(ordered, a, b) \/ ~Contained(ordered, b)
             => Ahead(ordered, a, b)'
        /\ \A k \in Keys : Lookup(ordered, k)' >= Lookup(ordered, k) \/ ~Contained(ordered, k)'
    BY <1>4, <1>6, <1>7, OrderedStep
  <1>9. ContainersIInv'
    <2>1. IsInjective(KeysOf(ordered))' /\ InOrder(multi)' /\ InOrder(sorted)'
      BY <1>5, <1>8 DEF IsInjective, KeysOf, InOrder
    <2> QED
      BY <1>1, <1>4, <2>1 DEF ContainersIInv
  <1> QED
    BY <1>8, <1>9 DEF KeptNow

(* An insertion into a MultiMap or a sorted List. *)
LEMMA InsertionKeeps ==
  ASSUME ContainersIInv, NEW s \in {multi, sorted}, NEW k \in Keys, NEW v \in 0 .. inserts',
         inserts' = inserts + 1, v = inserts' \/ ~Contained(s, k)
  PROVE  InsertSorted(s, k, v) \in Seq(Pairs') /\ InOrder(InsertSorted(s, k, v))
  <1>1. inserts \in Nat /\ inserts' \in Nat /\ k \in Nat /\ v \in Nat
    BY ContainersAssumption DEF ContainersIInv
  <1>2. Pairs' \subseteq Cells /\ Pairs \subseteq Cells /\ Pairs \subseteq Pairs'
    <2>1. 0 .. inserts \subseteq 0 .. inserts'
      BY <1>1
    <2>2. Pairs' = [key : Keys, val : 0 .. inserts']
      BY DEF Pairs
    <2> QED
      BY <1>1, <2>1, <2>2, PairsAreCells DEF Pairs
  <1>3. s \in Seq(Pairs) /\ s \in Seq(Pairs') /\ s \in Seq(Cells) /\ InOrder(s)
    BY <1>2, SeqMonotonic DEF ContainersIInv
  <1>4. Pair(k, v) \in Pairs'
    BY DEF Pair, Pairs
  <1>5. \A i \in DOMAIN s : s[i].key = k => s[i].val < v
    <2> SUFFICES ASSUME NEW i \in DOMAIN s, s[i].key = k PROVE s[i].val < v
      OBVIOUS
    <2>1. s[i] \in Pairs /\ i \in 1 .. Len(s) /\ Len(s) \in Nat
      BY <1>3, ElementOfSeq, LenProperties
    <2>2. s[i].val \in 0 .. inserts
      BY <2>1 DEF Pairs
    <2>3. Contained(s, k)
      <3>1. /\ FindKey(s, k) \in 1 .. Len(s) + 1
            /\ i < FindKey(s, k) => s[i].key # k
        BY <1>1, <1>3, <2>1, KeyFound
      <3> QED
        BY <2>1, <3>1 DEF Contained
    <2> QED
      BY <1>1, <2>2, <2>3
  <1> QED
    BY ONLY <1>1, <1>2, <1>3, <1>4, <1>5, SortedInsertion

LEMMA ContainersStep ==
  ASSUME ContainersIInv, [ContainersNext]_containerVars PROVE KeptNow
  <1>1. inserts \in Nat /\ ordered \in Seq(Pairs) /\ IsInjective(KeysOf(ordered))
    BY DEF ContainersIInv
  <1>2. CASE UNCHANGED <<ordered, multi, sorted, inserts>>
    BY <1>2, ContainersKeep
  <1>3. ASSUME NEW k \in Keys, InsertMulti(k) \/ IndexMulti(k) \/ InsertList(k) PROVE KeptNow
    <2>1. inserts' = inserts + 1 /\ ordered' = ordered /\ inserts' \in 0 .. inserts' /\ Null \in 0 .. inserts'
      BY <1>1, <1>3 DEF InsertMulti, IndexMulti, InsertList, Writes, Null
    <2>2. multi' = multi \/ (multi' \in Seq(Pairs') /\ InOrder(multi'))
      BY <1>3, <2>1, InsertionKeeps DEF InsertMulti, IndexMulti, InsertList
    <2>3. sorted' = sorted \/ (sorted' \in Seq(Pairs') /\ InOrder(sorted'))
      BY <1>3, <2>1, InsertionKeeps DEF InsertMulti, IndexMulti, InsertList
    <2> QED
      BY <2>1, <2>2, <2>3, ContainersKeep
  <1>4. ASSUME NEW k \in Keys, InsertOrdered(k) \/ IndexOrdered(k) \/ EraseOrdered(k) PROVE KeptNow
    <2>1. /\ inserts' \in {inserts, inserts + 1} /\ multi' = multi /\ sorted' = sorted
          /\ inserts' \in Nat /\ k \in Nat
      BY <1>1, <1>4, ContainersAssumption DEF InsertOrdered, IndexOrdered, EraseOrdered, Writes
    <2>2. Pairs' \subseteq Cells /\ Pairs \subseteq Cells /\ Pairs \subseteq Pairs'
      <3>1. 0 .. inserts \subseteq 0 .. inserts'
        BY <1>1, <2>1
      <3>2. Pairs' = [key : Keys, val : 0 .. inserts']
        BY DEF Pairs
      <3> QED
        BY <1>1, <2>1, <3>1, <3>2, PairsAreCells DEF Pairs
    <2>3. ordered \in Seq(Pairs') /\ ordered \in Seq(Cells)
      BY <1>1, <2>2, SeqMonotonic
    <2>4. \A i \in DOMAIN ordered : ordered[i] \in Pairs /\ ordered[i].val \in 0 .. inserts
                                    /\ ordered[i].key \in Keys
      <3>1. \A i \in DOMAIN ordered : ordered[i] \in Pairs
        BY <1>1, ElementOfSeq, LenProperties
      <3> QED
        BY <3>1 DEF Pairs
    <2>5. \A i, j \in DOMAIN ordered : ordered[i].key = ordered[j].key => i = j
      BY <1>1 DEF IsInjective, KeysOf
    <2>6. /\ Contained(ordered, k) <=> HasKey(ordered, k)
          /\ Contained(ordered, k) => /\ FindKey(ordered, k) \in DOMAIN ordered
                                      /\ ordered[FindKey(ordered, k)].key = k
      BY <1>1, <2>1, <2>3, KeyHeld
    <2>7. CASE ordered' = ordered
      BY <2>1, <2>7, ContainersKeep
    <2>8. ASSUME NEW v \in 0 .. inserts', ~Contained(ordered, k), ordered' = Append(ordered, Pair(k, v))
          PROVE  KeptNow
      <3>1. Pair(k, v) \in Pairs' /\ Pair(k, v).key = k
        BY DEF Pair, Pairs
      <3>2. /\ ordered' \in Seq(Pairs') /\ Follows(ordered, ordered')
            /\ DOMAIN ordered' = DOMAIN ordered \cup {Len(ordered) + 1}
            /\ ordered'[Len(ordered) + 1].key = k
            /\ \A i \in DOMAIN ordered : ordered'[i] = ordered[i]
        BY <2>3, <2>6, <2>8, <3>1, PairAppended
      <3>3. ASSUME NEW j \in DOMAIN ordered', NEW i \in DOMAIN ordered, ordered'[j].key = ordered[i].key
            PROVE  ordered'[j].val >= ordered[i].val
        <4>1. j \in DOMAIN ordered
          BY <2>6, <2>8, <3>2, <3>3 DEF HasKey
        <4> QED
          BY <2>4, <2>5, <3>2, <3>3, <4>1
      <3> QED
        BY <2>1, <3>2, <3>3, ContainersKeep
    <2>9. CASE InsertOrdered(k) /\ Contained(ordered, k)
      <3>1. PICK f \in DOMAIN ordered : f = FindKey(ordered, k)
        BY <2>6, <2>9
      <3>2. PICK p : p = [ordered[f] EXCEPT !.val = inserts']
        OBVIOUS
      <3>3. inserts' = inserts + 1 /\ ordered' = [ordered EXCEPT ![f] = p]
        BY <2>9, <3>1, <3>2 DEF InsertOrdered, Writes, Written
      <3>4. p \in Pairs' /\ p.key = ordered[f].key /\ p.val = inserts'
        <4>1. ordered[f] \in [key : Keys, val : 0 .. inserts] /\ inserts' \in 0 .. inserts'
          BY <2>1, <2>4 DEF Pairs
        <4>2. p \in [key : Keys, val : 0 .. inserts'] /\ p.key = ordered[f].key /\ p.val = inserts'
          BY <3>2, <4>1
        <4> QED
          BY <4>2 DEF Pairs
      <3>6. /\ ordered' \in Seq(Pairs') /\ Follows(ordered, ordered') /\ DOMAIN ordered' = DOMAIN ordered
            /\ \A i \in DOMAIN ordered : /\ ordered'[i].key = ordered[i].key
                                         /\ i # f => ordered'[i] = ordered[i]
                                         /\ i = f => ordered'[i] = p
        <4>1. Pairs' \in SUBSET Cells
          BY <2>2
        <4> QED
          BY ONLY <2>3, <3>1, <3>3, <3>4, <4>1, PairWritten
      <3>5. ASSUME NEW j \in DOMAIN ordered', NEW i \in DOMAIN ordered, ordered'[j].key = ordered[i].key
            PROVE  ordered'[j].val >= ordered[i].val
        <4>1. j = i
          BY <2>5, <3>5, <3>6
        <4> QED
          BY <1>1, <2>4, <3>3, <3>4, <3>6, <4>1
      <3> QED
        BY <2>1, <3>5, <3>6, ContainersKeep
    <2>10. CASE EraseOrdered(k)
      <3>1. PICK f \in DOMAIN ordered : ordered' = RemoveAt(ordered, f)
        BY <2>6, <2>10 DEF EraseOrdered
      <3>2. /\ ordered' \in Seq(Pairs') /\ Follows(ordered, ordered')
            /\ \A j \in DOMAIN ordered' : \E u \in DOMAIN ordered : ordered'[j] = ordered[u]
        BY <2>3, <3>1, PairRemoved
      <3>3. ASSUME NEW j \in DOMAIN ordered', NEW i \in DOMAIN ordered, ordered'[j].key = ordered[i].key
            PROVE  ordered'[j].val >= ordered[i].val
        <4>1. PICK u \in DOMAIN ordered : ordered'[j] = ordered[u]
          BY <3>2
        <4> QED
          BY <2>4, <2>5, <3>3, <4>1
      <3> QED
        BY <2>1, <3>2, <3>3, ContainersKeep
    <2> QED
      <3>1. CASE InsertOrdered(k) /\ ~Contained(ordered, k)
        BY <2>1, <2>8, <3>1 DEF InsertOrdered, Written
      <3>2. CASE IndexOrdered(k)
        BY <2>1, <2>7, <2>8, <3>2 DEF IndexOrdered, Null
      <3> QED
        BY <1>4, <2>9, <2>10, <3>1, <3>2
  <1>5. ASSUME NEW k \in Keys, InsertMap(k) \/ IndexArray(k) PROVE KeptNow
    <2>1. inserts' = inserts + 1 /\ UNCHANGED <<ordered, multi, sorted>>
      BY <1>5 DEF InsertMap, IndexArray, Writes
    <2> QED
      BY <2>1, ContainersKeep
  <1> QED
    BY <1>2, <1>3, <1>4, <1>5 DEF ContainersNext, containerVars

(* In every OrderedMap, MultiMap and sorted List, of whatever keys and       *)
(* however many calls, keys and equal keys keep their order, and a lookup    *)
(* gives no value that was written over.                                     *)
THEOREM ContainersKeepOrder == ContainersSpec => OrderIsKept
  <1>1. ContainersInit => ContainersIInv
    <2> SUFFICES ASSUME ContainersInit PROVE ContainersIInv
      OBVIOUS
    <2>1. <<>> \in Seq(Pairs) /\ DOMAIN <<>> = {}
      BY EmptySeq
    <2> QED
      BY <2>1 DEF ContainersInit, ContainersIInv, IsInjective, KeysOf, InOrder
  <1>2. ContainersIInv /\ [ContainersNext]_containerVars => ContainersIInv'
    BY ContainersStep DEF KeptNow
  <1>3. ContainersIInv /\ [ContainersNext]_containerVars =>
          [/\ \A a, b \in Keys :
                /\ a # b /\ Contained(ordered, a) /\ Contained(ordered, a)' /\ Contained(ordered, b)'
                /\ Ahead(ordered, a, b) \/ ~Contained(ordered, b)
                => Ahead(ordered, a, b)'
           /\ IsInjective(KeysOf(ordered)')
           /\ InOrder(multi)' /\ InOrder(sorted)'
           /\ \A k \in Keys : Lookup(ordered, k)' >= Lookup(ordered, k) \/ ~Contained(ordered, k)'
          ]_containerVars
    <2> SUFFICES ASSUME ContainersIInv, [ContainersNext]_containerVars
                 PROVE  /\ \A a, b \in Keys :
                             /\ a # b /\ Contained(ordered, a) /\ Contained(ordered, a)' /\ Contained(ordered, b)'
                             /\ Ahead(ordered, a, b) \/ ~Contained(ordered, b)
                             => Ahead(ordered, a, b)'
                        /\ IsInjective(KeysOf(ordered)')
                        /\ InOrder(multi)' /\ InOrder(sorted)'
                        /\ \A k \in Keys : Lookup(ordered, k)' >= Lookup(ordered, k) \/ ~Contained(ordered, k)'
      OBVIOUS
    <2>1. KeptNow
      BY ContainersStep
    <2>2. IsInjective(KeysOf(ordered))' <=> IsInjective(KeysOf(ordered)')
      BY DEF IsInjective, KeysOf
    <2> QED
      BY <2>1, <2>2 DEF KeptNow, ContainersIInv
  <1> QED
    BY <1>1, <1>2, <1>3, PTL DEF ContainersSpec, OrderIsKept

(***************************************************************************)
(* OptionParser.                                                           *)
(***************************************************************************)

(* A word that gives an option a value that converts gives it a number. *)
LEMMA WordGives ==
  ASSUME NEW w \in ArgWords
  PROVE  /\ w.kind \in {"long", "short", "unknown", "param"} /\ w.option \in Options
         /\ w.kind = "long" /\ Converts(w.option, w.value)
              => (IF w.value = NoValue THEN 1 ELSE w.value) \in Nat
  <1>1. CASE w \in [kind : {"long"}, option : Arguments, value : Values \cup {Junk}]
    <2>1. w.kind = "long" /\ w.option \in Arguments /\ w.value \in Values \cup {Junk}
      BY <1>1
    <2>2. Values \subseteq Nat
      BY OptionAssumption
    <2> QED
      BY ONLY <2>1, <2>2 DEF Converts, Options, NoValue, Junk
  <1>2. CASE w \in [kind : {"long"}, option : Flags \cup Negations, value : {0, 1, Junk, NoValue}]
    <2>1. /\ w.kind = "long" /\ w.option \in Flags \cup Negations
          /\ w.value \in {0, 1, Junk, NoValue}
      BY <1>2
    <2> QED
      BY ONLY <2>1 DEF Converts, Options, NoValue, Junk
  <1>3. CASE w \in [kind : {"short"}, option : Arguments \cup Flags, value : {0}]
    <2>1. w.kind = "short" /\ w.option \in Arguments \cup Flags
      BY <1>3
    <2> QED
      BY ONLY <2>1 DEF Options
  <1>4. CASE w \in [kind : {"unknown", "param"}, option : Arguments, value : {0}]
    <2>1. w.kind \in {"unknown", "param"} /\ w.option \in Arguments
      BY <1>4
    <2> QED
      BY ONLY <2>1 DEF Options
  <1> QED
    BY <1>1, <1>2, <1>3, <1>4 DEF ArgWords

(* What one more word that was seen adds to what the words say. *)
LEMMA OneMoreWord ==
  ASSUME NEW n \in Nat, n < Len(args), args \in Seq(ArgWords),
         NEW w, w = args[n + 1], NEW o
  PROVE  /\ w.kind = "long" /\ w.option = o =>
              Given(o, n + 1) # {} /\ LastWord(o, n + 1) = w
         /\ ~(w.kind = "long" /\ w.option = o) =>
              Given(o, n + 1) = Given(o, n) /\ LastValue(o, n + 1) = LastValue(o, n)
         /\ Given(o, n) \subseteq Given(o, n + 1)
  <1>1. DOMAIN args = 1 .. Len(args) /\ Len(args) \in Nat
    BY LenProperties
  <1>2. n + 1 \in DOMAIN args /\ \A i \in DOMAIN args : i <= n + 1 <=> i <= n \/ i = n + 1
    BY <1>1
  <1>3. Given(o, n) \subseteq Given(o, n + 1)
    BY <1>2 DEF Given
  <1>4. ASSUME w.kind = "long", w.option = o
        PROVE  Given(o, n + 1) # {} /\ LastWord(o, n + 1) = w
    <2>1. n + 1 \in Given(o, n + 1)
      BY <1>2, <1>4 DEF Given
    <2>2. \A i \in Given(o, n + 1) : i <= n + 1 /\ i \in Int
      BY <1>1 DEF Given
    <2> DEFINE P == Given(o, n + 1)
    <2>3. (CHOOSE i \in P : \A j \in P : j <= i) = n + 1
      <3>1. \A i \in P : (\A j \in P : j <= i) => i = n + 1
        BY <2>1, <2>2
      <3>2. \A j \in P : j <= n + 1
        BY <2>2
      <3> HIDE DEF P
      <3> QED
        BY <2>1, <3>1, <3>2
    <2> QED
      BY <2>1, <2>3 DEF LastWord
  <1>5. ASSUME ~(w.kind = "long" /\ w.option = o)
        PROVE  Given(o, n + 1) = Given(o, n) /\ LastValue(o, n + 1) = LastValue(o, n)
    <2>1. Given(o, n + 1) = Given(o, n)
      BY <1>2, <1>5 DEF Given
    <2>2. LastWord(o, n + 1) = LastWord(o, n)
      BY <2>1, Zenon DEF LastWord
    <2> QED
      BY <2>1, <2>2 DEF LastValue
  <1> QED
    BY <1>3, <1>4, <1>5

LEMMA OneMoreConverts ==
  ASSUME NEW n \in Nat, n < Len(args), args \in Seq(ArgWords),
         NEW w, w = args[n + 1], AllConvert(n + 1)
  PROVE  AllConvert(n) /\ (w.kind = "long" => Converts(w.option, w.value))
  <1>1. DOMAIN args = 1 .. Len(args) /\ Len(args) \in Nat
    BY LenProperties
  <1>2. n + 1 \in DOMAIN args /\ n + 1 <= n + 1 /\ \A i \in DOMAIN args : i <= n => i <= n + 1
    BY <1>1
  <1>3. \A i \in DOMAIN args :
          i <= n + 1 /\ args[i].kind = "long" => Converts(args[i].option, args[i].value)
    BY DEF AllConvert
  <1>4. w.kind = "long" => Converts(w.option, w.value)
    BY <1>2, <1>3
  <1>5. AllConvert(n)
    BY ONLY <1>2, <1>3 DEF AllConvert
  <1> QED
    BY <1>4, <1>5

(* What the property says follows from what the proof carries along. *)
LEMMA OptionsFollow ==
  ASSUME OptionIInv
  PROVE  OptionsAsGiven
  <1> DEFINE n == Len(args)
  <1> SUFFICES ASSUME parsing = "true" PROVE OptionsAsGiven
    BY DEF OptionsAsGiven
  <1>1. optind = n /\ params = ParamsOf(args) /\ DOMAIN args = 1 .. n /\ n \in Nat
    BY LenProperties DEF OptionIInv, OptionTypeOK, SoFar
  <1>2. \A i \in DOMAIN args : i <= n
    BY <1>1
  <1>3. ASSUME parses = 1
        PROVE  AllConvert(n) /\ \A i \in DOMAIN args : args[i].kind \in {"long", "param"}
    <2>1. \A i \in DOMAIN args : Recognized(args[i])
      BY <1>1, <1>2, <1>3 DEF OptionIInv, SoFar
    <2> QED
      BY <2>1 DEF Recognized, AllConvert
  <1>4. ASSUME AllConvert(n), NEW a \in Arguments \ assigned, Given(a, n) # {}
        PROVE  ValueOf(a) = LastValue(a, n)
    <2>1. a \in Options /\ a \notin Flags
      BY OptionAssumption DEF Options
    <2> QED
      BY <1>1, <1>4, <2>1 DEF OptionIInv, SoFar, ValueOf
  <1>5. ASSUME AllConvert(n), NEW f \in Flags
        PROVE  IF Given(Negation(f), n) # {}
                 THEN FlagValue(f) = OfBool(LastValue(Negation(f), n) = 0)
                 ELSE Given(f, n) # {} /\ f \notin assigned => FlagValue(f) = LastValue(f, n)
    <2> DEFINE neg == Negation(f)
    <2>1. f \in Options /\ neg \in Options /\ neg \in Negations /\ neg \notin Flags
          /\ neg \notin assigned
      BY OptionAssumption DEF Options, Negations, OptionIInv, OptionTypeOK
    <2>2. CASE Given(neg, n) # {}
      <3>1. neg \in isSet /\ vals[neg] = LastValue(neg, n)
        BY <1>1, <1>5, <2>1, <2>2 DEF OptionIInv, SoFar
      <3> QED
        BY <2>2, <3>1 DEF FlagValue
    <2>3. CASE Given(neg, n) = {}
      <3>1. neg \notin isSet
        BY <1>1, <2>3 DEF OptionIInv, SoFar
      <3>2. FlagValue(f) = vals[f]
        BY <3>1 DEF FlagValue
      <3>3. Given(f, n) # {} /\ f \notin assigned => vals[f] = LastValue(f, n)
        BY <1>1, <1>5, <2>1, <3>1 DEF OptionIInv, SoFar
      <3> QED
        BY <2>3, <3>2, <3>3
    <2> QED
      BY <2>2, <2>3
  <1> QED
    BY <1>1, <1>3, <1>4, <1>5 DEF OptionsAsGiven

LEMMA OptionBegins ==
  ASSUME OptionInit
  PROVE  OptionIInv
  <1>1. Len(args) = 0 /\ args \in Seq(ArgWords) /\ DOMAIN args = {}
    BY EmptySeq, LenProperties DEF OptionInit
  <1>2. vals \in [Options -> Nat]
    BY DEF OptionInit, OfBool
  <1>3. OptionTypeOK
    BY <1>1, <1>2 DEF OptionInit, OptionTypeOK
  <1>4. \A o : Given(o, optind) = {}
    BY <1>1 DEF Given
  <1> QED
    BY <1>1, <1>3, <1>4 DEF OptionInit, OptionIInv, SoFar

(* getopt finds one more word. *)
LEMMA GetOptStep ==
  ASSUME OptionIInv, GetOpt
  PROVE  OptionIInv'
  <1> DEFINE n == optind
  <1>1. PICK w : w = args[n + 1]
    OBVIOUS
  <1>2. /\ args \in Seq(ArgWords) /\ n \in Nat /\ n < Len(args) /\ n + 1 \in DOMAIN args
        /\ DOMAIN args = 1 .. Len(args) /\ Len(args) \in Nat /\ w \in ArgWords
    BY <1>1, LenProperties, ElementOfSeq DEF GetOpt, OptionIInv, OptionTypeOK
  <1>3. /\ args' = args /\ params' = params /\ parses' = parses /\ optind' = n + 1
        /\ parsing = "yes" /\ parsing' = IF Recognized(w) THEN "yes" ELSE "false"
        /\ IF w.kind = "long" THEN Set(w.option, w.value) ELSE UNCHANGED <<vals, isSet, assigned>>
    BY <1>1 DEF GetOpt
  <1>4. w.option \in Options /\ isSet \subseteq Options /\ vals \in [Options -> Nat]
        /\ assigned \subseteq Arguments \cup Flags
    BY <1>2, WordGives DEF OptionIInv, OptionTypeOK
  <1>5. /\ vals' \in [Options -> Nat]
        /\ \A o \in Options : vals'[o] =
             IF w.kind = "long" /\ Converts(w.option, w.value) /\ o = w.option
               THEN IF w.value = NoValue THEN 1 ELSE w.value ELSE vals[o]
    <2>1. PICK v : v = IF w.value = NoValue THEN 1 ELSE w.value
      OBVIOUS
    <2>2. CASE w.kind = "long" /\ Converts(w.option, w.value)
      <3>1. v \in Nat
        BY <1>2, <2>1, <2>2, WordGives
      <3>2. vals' = [vals EXCEPT ![w.option] = v]
        BY <1>3, <2>1, <2>2 DEF Set
      <3> QED
        BY ONLY <1>4, <2>1, <2>2, <3>1, <3>2
    <2>3. CASE ~(w.kind = "long" /\ Converts(w.option, w.value))
      <3>1. vals' = vals
        BY <1>3, <2>3 DEF Set
      <3> QED
        BY ONLY <1>4, <2>3, <3>1
    <2> QED
      BY <2>2, <2>3
  <1>6. /\ isSet \subseteq isSet' /\ isSet' \subseteq Options
        /\ \A o \in isSet' : o \in isSet \/ (w.kind = "long" /\ o = w.option)
        /\ w.kind = "long" /\ Converts(w.option, w.value) => w.option \in isSet'
        /\ assigned' \subseteq Arguments \cup Flags
        /\ \A o \in assigned : o \in assigned' \/ (w.kind = "long" /\ o = w.option)
    BY <1>3, <1>4 DEF Set
  <1>7. OptionTypeOK'
    BY <1>2, <1>3, <1>5, <1>6 DEF OptionIInv, OptionTypeOK
  <1>8. \A o : Given(o, optind)' = Given(o, n + 1) /\ LastValue(o, optind)' = LastValue(o, n + 1)
    BY <1>3 DEF Given, LastValue, LastWord
  <1>9. AllConvert(optind)' <=> AllConvert(n + 1)
    BY <1>3 DEF AllConvert, Converts
  <1>10. \A i \in DOMAIN args : i <= n + 1 <=> i <= n \/ i = n + 1
    BY <1>2
  <1>11. SoFar'
    <2>1. /\ (parses = 0 => optind = 0)'
          /\ (parses = 0 <=> parsing = "no")'
          /\ (parsing = "true" => optind = Len(args))'
          /\ (params = IF parsing = "true" THEN ParamsOf(args) ELSE <<>>)'
      BY <1>3 DEF OptionIInv, SoFar
    <2>2. ASSUME parses' = 1, parsing' # "false", NEW i \in DOMAIN args, i <= n + 1
          PROVE  Recognized(args[i])
      <3>1. Recognized(w) /\ parses = 1
        BY <1>3, <2>2
      <3>2. i <= n => Recognized(args[i])
        BY <1>3, <3>1 DEF OptionIInv, SoFar
      <3> QED
        BY <1>1, <1>10, <2>2, <3>1, <3>2
    <2>3. ASSUME NEW o \in isSet' PROVE Given(o, n + 1) # {}
      <3>1. o \in isSet => Given(o, n) # {}
        BY DEF OptionIInv, SoFar
      <3> QED
        BY <1>1, <1>2, <1>6, <2>3, <3>1, OneMoreWord
    <2>4. ASSUME AllConvert(n + 1), NEW o \in Options, Given(o, n + 1) # {}
          PROVE  /\ o \in isSet'
                 /\ \/ vals'[o] = LastValue(o, n + 1) \/ o \in assigned'
                    \/ o \in Flags /\ Negation(o) \in isSet'
      <3>1. AllConvert(n) /\ (w.kind = "long" => Converts(w.option, w.value))
        BY <1>1, <1>2, <2>4, OneMoreConverts
      <3>2. CASE w.kind = "long" /\ w.option = o
        <4>1. LastWord(o, n + 1) = w
          BY <1>1, <1>2, <3>2, OneMoreWord
        <4> QED
          BY <1>5, <1>6, <3>1, <3>2, <4>1 DEF LastValue
      <3>3. CASE ~(w.kind = "long" /\ w.option = o)
        <4>1. Given(o, n + 1) = Given(o, n) /\ LastValue(o, n + 1) = LastValue(o, n)
          BY <1>1, <1>2, <3>3, OneMoreWord
        <4>2. o \in isSet /\ (vals[o] = LastValue(o, n) \/ o \in assigned
                             \/ (o \in Flags /\ Negation(o) \in isSet))
          BY <2>4, <3>1, <4>1 DEF OptionIInv, SoFar
        <4>3. vals'[o] = vals[o]
          BY <1>5, <3>3
        <4> QED
          BY <1>6, <3>3, <4>1, <4>2, <4>3
      <3> QED
        BY <3>2, <3>3
    <2>5. (parses = 1 /\ parsing # "false" => \A i \in DOMAIN args : i <= optind => Recognized(args[i]))'
      BY <1>3, <2>2 DEF Recognized, Converts
    <2>6. (\A o \in isSet : Given(o, optind) # {})'
      BY <1>8, <2>3
    <2> QED
      BY <1>8, <1>9, <2>1, <2>4, <2>5, <2>6 DEF SoFar
  <1> QED
    BY <1>7, <1>11 DEF OptionIInv

(* The other actions leave what was seen as it is. *)
LEMMA OptionStep ==
  ASSUME OptionIInv, [OptionNext]_optionVars
  PROVE  OptionIInv'
  <1> USE DEF OptionIInv
  <1>0. args \in Seq(ArgWords) /\ DOMAIN args = 1 .. Len(args) /\ Len(args) \in Nat
    BY LenProperties DEF OptionTypeOK
  <1>1. ASSUME NEW w \in ArgWords, GiveArg(w) PROVE OptionIInv'
    <2>1. /\ args' = Append(args, w) /\ optind = 0 /\ parsing = "no"
          /\ UNCHANGED <<vals, isSet, optind, params, parsing, parses, assigned>>
      BY <1>1 DEF GiveArg, SoFar
    <2>2. args' \in Seq(ArgWords) /\ Len(args') = Len(args) + 1 /\ DOMAIN args' = 1 .. Len(args')
      BY <1>0, <2>1, AppendProperties, LenProperties
    <2>3. OptionTypeOK'
      BY <1>0, <2>1, <2>2 DEF OptionTypeOK
    <2>4. \A o : Given(o, optind) = {} /\ Given(o, optind)' = {}
      BY <1>0, <2>1, <2>2 DEF Given
    <2>5. SoFar'
      BY <1>1, <2>1, <2>4 DEF SoFar, GiveArg
    <2> QED
      BY <2>3, <2>5
  <1>2. ASSUME CallParse PROVE OptionIInv'
    <2>1. /\ UNCHANGED <<args, vals, isSet, optind, params, assigned>> /\ parses' = parses + 1 /\ parses \in Nat
          /\ parsing' = (IF parsing = "true" THEN "true" ELSE "yes") /\ parsing # "yes"
      BY <1>2 DEF CallParse, OptionTypeOK
    <2>2. OptionTypeOK'
      BY <2>1 DEF OptionTypeOK
    <2>3. \A o : Given(o, optind)' = Given(o, optind) /\ LastValue(o, optind)' = LastValue(o, optind)
      BY <2>1 DEF Given, LastValue, LastWord
    <2>4. AllConvert(optind)' <=> AllConvert(optind)
      BY <2>1 DEF AllConvert, Converts
    <2>5. ASSUME parses' = 1 PROVE \A i \in DOMAIN args : ~(i <= optind)
      BY <1>0, <2>1, <2>5 DEF SoFar
    <2>6. SoFar'
      <3>1. /\ (parses = 0 => optind = 0)'
            /\ (parses = 0 <=> parsing = "no")'
            /\ (parsing = "true" => optind = Len(args))'
            /\ (params = IF parsing = "true" THEN ParamsOf(args) ELSE <<>>)'
            /\ (parses = 1 /\ parsing # "false"
                  => \A i \in DOMAIN args : i <= optind => Recognized(args[i]))'
        BY <2>1, <2>5 DEF SoFar
      <3> QED
        BY <2>1, <2>3, <2>4, <3>1 DEF SoFar
    <2> QED
      BY <2>2, <2>6
  <1>3. ASSUME GetOpt PROVE OptionIInv'
    BY <1>3, GetOptStep
  <1>4. ASSUME ParseReturns PROVE OptionIInv'
    <2>1. /\ UNCHANGED <<args, vals, isSet, optind, parses, assigned>> /\ parsing = "yes" /\ parsing' = "true"
          /\ optind = Len(args) /\ params' = params \o ParamsOf(args)
      BY <1>4 DEF ParseReturns
    <2>2. OptionTypeOK'
      BY <2>1 DEF OptionTypeOK
    <2>3. \A o : Given(o, optind)' = Given(o, optind) /\ LastValue(o, optind)' = LastValue(o, optind)
      BY <2>1 DEF Given, LastValue, LastWord
    <2>4. AllConvert(optind)' <=> AllConvert(optind)
      BY <2>1 DEF AllConvert, Converts
    <2>5. params' = ParamsOf(args')
      <3>1. params = <<>>
        BY <2>1 DEF SoFar
      <3>2. ParamsOf(args) \in Seq(ArgWords)
        <4>1. {i \in DOMAIN args : args[i].kind = "param"} \in SUBSET (DOMAIN args)
          OBVIOUS
        <4> QED
          BY <1>0, <4>1, EntriesAtKept DEF ParamsOf
      <3>3. <<>> \o ParamsOf(args) = ParamsOf(args)
        BY <3>2, ConcatEmptySeq
      <3> QED
        BY <2>1, <3>1, <3>3
    <2>6. SoFar'
      <3>1. /\ (parses = 0 => optind = 0)'
            /\ (parses = 0 <=> parsing = "no")'
            /\ (parsing = "true" => optind = Len(args))'
            /\ (params = IF parsing = "true" THEN ParamsOf(args) ELSE <<>>)'
            /\ (parses = 1 /\ parsing # "false"
                  => \A i \in DOMAIN args : i <= optind => Recognized(args[i]))'
        BY <2>1, <2>5 DEF SoFar
      <3> QED
        BY <2>1, <2>3, <2>4, <3>1 DEF SoFar
    <2> QED
      BY <2>2, <2>6
  <1>5. ASSUME NEW f \in Flags, ConvertFlag(f) PROVE OptionIInv'
    <2>1. /\ UNCHANGED <<args, isSet, optind, params, parsing, parses, assigned>>
          /\ vals' = [vals EXCEPT ![f] = FlagValue(f)] /\ vals \in [Options -> Nat]
          /\ f \in Options
      BY <1>5 DEF ConvertFlag, OptionTypeOK, Options
    <2>2. FlagValue(f) \in Nat /\ (Negation(f) \notin isSet => FlagValue(f) = vals[f])
      BY <2>1 DEF FlagValue, OfBool
    <2>3. OptionTypeOK'
      BY <2>1, <2>2 DEF OptionTypeOK
    <2>4. \A o : Given(o, optind)' = Given(o, optind) /\ LastValue(o, optind)' = LastValue(o, optind)
      BY <2>1 DEF Given, LastValue, LastWord
    <2>5. AllConvert(optind)' <=> AllConvert(optind)
      BY <2>1 DEF AllConvert, Converts
    <2>6. \A o \in Options : vals'[o] = vals[o] \/ (o \in Flags /\ Negation(o) \in isSet)
      BY <2>1, <2>2
    <2>7. SoFar'
      <3>1. /\ (parses = 0 => optind = 0)'
            /\ (parses = 0 <=> parsing = "no")'
            /\ (parsing = "true" => optind = Len(args))'
            /\ (params = IF parsing = "true" THEN ParamsOf(args) ELSE <<>>)'
            /\ (parses = 1 /\ parsing # "false"
                  => \A i \in DOMAIN args : i <= optind => Recognized(args[i]))'
        BY <2>1 DEF SoFar
      <3> QED
        BY <2>1, <2>4, <2>5, <2>6, <3>1 DEF SoFar
    <2> QED
      BY <2>3, <2>7
  <1>7. ASSUME NEW o \in Arguments \cup Flags, NEW v \in Nat, CallWithDefault(o, v) PROVE OptionIInv'
    <2>1. /\ UNCHANGED <<args, isSet, optind, params, parsing, parses>>
          /\ vals' = [vals EXCEPT ![o] = v] /\ vals \in [Options -> Nat]
          /\ o \in Options /\ assigned' = assigned \cup {o}
      BY <1>7 DEF CallWithDefault, OptionTypeOK, Options
    <2>2. OptionTypeOK'
      BY <2>1 DEF OptionTypeOK
    <2>3. \A c : Given(c, optind)' = Given(c, optind) /\ LastValue(c, optind)' = LastValue(c, optind)
      BY <2>1 DEF Given, LastValue, LastWord
    <2>4. AllConvert(optind)' <=> AllConvert(optind)
      BY <2>1 DEF AllConvert, Converts
    <2>5. \A c \in Options : vals'[c] = vals[c] \/ c \in assigned'
      BY <2>1
    <2>6. SoFar'
      <3>1. /\ (parses = 0 => optind = 0)'
            /\ (parses = 0 <=> parsing = "no")'
            /\ (parsing = "true" => optind = Len(args))'
            /\ (params = IF parsing = "true" THEN ParamsOf(args) ELSE <<>>)'
            /\ (parses = 1 /\ parsing # "false"
                  => \A i \in DOMAIN args : i <= optind => Recognized(args[i]))'
        BY <2>1 DEF SoFar
      <3> QED
        BY <2>1, <2>3, <2>4, <2>5, <3>1 DEF SoFar
    <2> QED
      BY <2>2, <2>6
  <1>6. ASSUME UNCHANGED optionVars PROVE OptionIInv'
    <2>1. UNCHANGED <<args, vals, isSet, optind, params, parsing, parses, assigned>>
      BY <1>6 DEF optionVars
    <2>2. OptionTypeOK'
      BY <2>1 DEF OptionTypeOK
    <2>3. \A o : Given(o, optind)' = Given(o, optind) /\ LastValue(o, optind)' = LastValue(o, optind)
      BY <2>1 DEF Given, LastValue, LastWord
    <2>4. AllConvert(optind)' <=> AllConvert(optind)
      BY <2>1 DEF AllConvert, Converts
    <2>5. SoFar'
      BY <2>1, <2>3, <2>4 DEF SoFar
    <2> QED
      BY <2>2, <2>5
  <1> QED
    BY <1>1, <1>2, <1>3, <1>4, <1>5, <1>6, <1>7, OptionAssumption DEF OptionNext

(* OptionsAsGiven, for any options, values and words: what parse() told the   *)
(* options is what the command line says (Parser::parse), and so is what a    *)
(* flag converts to (Flag::operator bool), until the program replaces it.     *)
THEOREM OptionsGetWhatIsGiven == OptionSpec => []OptionsAsGiven
  <1>1. OptionInit => OptionIInv
    BY OptionBegins
  <1>2. OptionIInv /\ [OptionNext]_optionVars => OptionIInv'
    BY OptionStep
  <1>3. OptionIInv => OptionsAsGiven
    BY OptionsFollow
  <1> QED
    BY <1>1, <1>2, <1>3, PTL DEF OptionSpec

--------------------------------------------------------------------------------
(* Streams. *)

(* The sequences seqs lie in F one behind the other, the i-th from at[i] on. *)
LaidOut(F, seqs, at) ==
  /\ at \in [1 .. Len(seqs) + 1 -> Nat]
  /\ at[1] = 0 /\ at[Len(seqs) + 1] = Len(F)
  /\ \A i \in 1 .. Len(seqs) :
       /\ at[i + 1] = at[i] + Len(seqs[i]) /\ at[i + 1] <= Len(F)
       /\ \A j \in 1 .. Len(seqs[i]) : F[at[i] + j] = seqs[i][j]

(* FlattenSeq is defined by recursion.  The least length for which there was  *)
(* no such function would have one, so there is one.                          *)
LEMMA Flattened ==
  ASSUME NEW S, NEW seqs \in Seq(Seq(S)), seqs # <<>>
  PROVE  FlattenSeq(seqs) \in Seq(S) /\ \E at : LaidOut(FlattenSeq(seqs), seqs, at)
  <1> DEFINE n == Len(seqs)
             Unfolds(fun, m) == /\ fun \in [1 .. m -> Seq(S)]
                                /\ \A i \in 1 .. m :
                                     fun[i] = IF i = 1 THEN seqs[i] ELSE fun[i - 1] \o seqs[i]
             Body(fun) == [i \in 1 .. n |-> IF i = 1 THEN seqs[i] ELSE fun[i - 1] \o seqs[i]]
             f == CHOOSE fun : fun = Body(fun)
  <1>1. n \in Nat /\ n >= 1 /\ \A i \in 1 .. n : seqs[i] \in Seq(S)
    BY EmptySeq, LenProperties, ElementOfSeq
  <1>2. FlattenSeq(seqs) = f[n]
    BY <1>1 DEF FlattenSeq
  <1> HIDE DEF n
  <1>3. \E fun : Unfolds(fun, n)
    <2> DEFINE P == {m \in 1 .. n : ~ \E fun : Unfolds(fun, m)}
    <2> SUFFICES ASSUME ~ \E fun : Unfolds(fun, n) PROVE FALSE
      OBVIOUS
    <2>0. P \in SUBSET Nat /\ P # {} /\ \A m \in P : m \in 1 .. n /\ ~ \E fun : Unfolds(fun, m)
      <3>1. P \subseteq 1 .. n /\ n \in 1 .. n /\ 1 .. n \subseteq Nat
        BY <1>1
      <3>2. n \in P
        <4> HIDE DEF Unfolds
        <4> QED
          BY <3>1, Zenon
      <3>3. \A m \in P : ~ \E fun : Unfolds(fun, m)
        <4> HIDE DEF Unfolds
        <4> QED
          BY Zenon
      <3> HIDE DEF P, Unfolds
      <3> QED
        BY <3>1, <3>2, <3>3
    <2>1. PICK m \in P : \A k \in P : m <= k
      <3> HIDE DEF P
      <3> QED
        BY <2>0, LeastElement
    <2>2. m \in 1 .. n /\ ~ \E fun : Unfolds(fun, m)
      BY <2>0
    <2>3. CASE m = 1
      <3>1. Unfolds([i \in 1 .. 1 |-> seqs[1]], 1)
        BY <1>1
      <3> HIDE DEF Unfolds
      <3> QED
        BY <2>2, <2>3, <3>1
    <2>4. CASE m # 1
      <3>1. m - 1 \in 1 .. n /\ m - 1 \notin P /\ m \in Nat /\ m > 1
        <4> HIDE DEF P
        <4> QED
          BY <1>1, <2>1, <2>2, <2>4
      <3>2. PICK fun : Unfolds(fun, m - 1)
        BY <3>1
      <3> DEFINE h == [i \in 1 .. m |-> IF i = m THEN fun[m - 1] \o seqs[m] ELSE fun[i]]
      <3>3. h \in [1 .. m -> Seq(S)]
        <4>1. fun[m - 1] \in Seq(S) /\ seqs[m] \in Seq(S)
          BY <1>1, <2>2, <3>1, <3>2
        <4>2. fun[m - 1] \o seqs[m] \in Seq(S)
          BY <4>1, ConcatProperties
        <4>3. \A i \in 1 .. m : i # m => fun[i] \in Seq(S)
          BY <3>1, <3>2
        <4> QED
          BY <4>2, <4>3
      <3>4. ASSUME NEW i \in 1 .. m PROVE h[i] = IF i = 1 THEN seqs[i] ELSE h[i - 1] \o seqs[i]
        <4>1. CASE i = m
          <5>1. m - 1 \in 1 .. m /\ m - 1 # m /\ m # 1
            BY <3>1
          <5>2. h[m] = fun[m - 1] \o seqs[m] /\ h[m - 1] = fun[m - 1]
            BY <4>1, <5>1
          <5> QED
            BY <4>1, <5>1, <5>2
        <4>2. CASE i # m
          <5>1. i \in 1 .. m - 1 /\ (i # 1 => i - 1 \in 1 .. m /\ i - 1 # m)
            BY <3>1, <4>2
          <5>2. h[i] = fun[i] /\ (i # 1 => h[i - 1] = fun[i - 1])
            BY <4>2, <5>1
          <5>3. fun[i] = IF i = 1 THEN seqs[i] ELSE fun[i - 1] \o seqs[i]
            BY <3>2, <5>1
          <5> QED
            BY <5>2, <5>3
        <4> QED
          BY <4>1, <4>2
      <3>5. Unfolds(h, m)
        <4> HIDE DEF h
        <4> QED
          BY <3>3, <3>4
      <3> HIDE DEF Unfolds, h
      <3> QED
        BY <2>2, <3>5
    <2> QED
      BY <2>3, <2>4
  <1>4. Unfolds(f, n)
    <2>1. PICK fun : Unfolds(fun, n)
      BY <1>3
    <2>2. fun = Body(fun)
      BY <2>1
    <2>3. f = Body(f)
      <3> HIDE DEF Body
      <3> QED
        BY <2>2
    <2>4. \A i \in 1 .. n : f[i] = IF i = 1 THEN seqs[i] ELSE f[i - 1] \o seqs[i]
      <3> HIDE DEF f
      <3> QED
        BY <2>3
    <2>5. DOMAIN f = 1 .. n /\ f = [i \in 1 .. n |-> f[i]]
      <3> HIDE DEF f
      <3> QED
        BY <2>3
    <2>6. \A i \in 1 .. n : f[i] \in Seq(S)
      <3> HIDE DEF f
      <3> DEFINE P == {m \in 1 .. n : f[m] \notin Seq(S)}
      <3> SUFFICES ASSUME P # {} PROVE FALSE
        OBVIOUS
      <3>0. P \in SUBSET Nat
        BY <1>1
      <3>1. PICK m \in P : \A k \in P : m <= k
        <4> HIDE DEF P
        <4> QED
          BY <3>0, LeastElement
      <3>2. m = 1 \/ (m - 1 \in 1 .. n /\ m - 1 \notin P)
        <4>1. m \in 1 .. n
          OBVIOUS
        <4> HIDE DEF P
        <4> QED
          BY <1>1, <3>1, <4>1
      <3>3. m \in 1 .. n /\ f[m] \notin Seq(S)
        OBVIOUS
      <3>4. m # 1
        BY <1>1, <2>4, <3>3
      <3>5. f[m - 1] \in Seq(S) /\ seqs[m] \in Seq(S) /\ f[m] = f[m - 1] \o seqs[m]
        BY <1>1, <2>4, <3>2, <3>3, <3>4
      <3>6. f[m - 1] \o seqs[m] \in Seq(S)
        BY ONLY <3>5, ConcatProperties
      <3> QED
        BY <3>3, <3>5, <3>6
    <2> HIDE DEF f
    <2> QED
      BY <2>4, <2>5, <2>6
  <1> HIDE DEF f
  <1>5. \A i \in 1 .. n : f[i] \in Seq(S) /\ Len(f[i]) \in Nat
    BY <1>4, LenProperties
  <1>6. ASSUME NEW i \in 1 .. n, i # 1
        PROVE  /\ Len(f[i]) = Len(f[i - 1]) + Len(seqs[i])
               /\ \A j \in 1 .. Len(f[i - 1]) : f[i][j] = f[i - 1][j]
               /\ \A j \in 1 .. Len(seqs[i]) : f[i][Len(f[i - 1]) + j] = seqs[i][j]
    <2>1. i - 1 \in 1 .. n
      BY <1>1, <1>6
    <2>2. /\ f[i] = f[i - 1] \o seqs[i] /\ f[i - 1] \in Seq(S) /\ seqs[i] \in Seq(S)
          /\ Len(f[i - 1]) \in Nat /\ Len(seqs[i]) \in Nat
      BY <1>1, <1>4, <1>5, <1>6, <2>1, LenProperties
    <2>3. PICK a, b : a = f[i - 1] /\ b = seqs[i]
      OBVIOUS
    <2>4. a \in Seq(S) /\ b \in Seq(S) /\ f[i] = a \o b
      BY ONLY <2>2, <2>3
    <2>5. /\ Len(a \o b) = Len(a) + Len(b)
          /\ \A j \in 1 .. Len(a) : (a \o b)[j] = a[j]
          /\ \A j \in 1 .. Len(b) : (a \o b)[Len(a) + j] = b[j]
      BY ONLY <2>4, ConcatProperties, LenProperties
    <2> QED
      BY ONLY <2>3, <2>4, <2>5
  <1>7. ASSUME NEW i \in 1 .. n, NEW m \in i .. n
        PROVE  Len(f[i]) <= Len(f[m]) /\ \A j \in 1 .. Len(f[i]) : f[m][j] = f[i][j]
    <2> DEFINE Agree(k) == Len(f[i]) <= Len(f[k]) /\ \A j \in 1 .. Len(f[i]) : f[k][j] = f[i][j]
               P == {k \in i .. n : ~Agree(k)}
    <2> SUFFICES ASSUME P # {} PROVE FALSE
      OBVIOUS
    <2>0. P \in SUBSET Nat
      BY <1>1
    <2>1. PICK k \in P : \A l \in P : k <= l
      <3> HIDE DEF P
      <3> QED
        BY <2>0, LeastElement
    <2>2. k \in i .. n /\ ~Agree(k)
      OBVIOUS
    <2>3. k # i
      BY <1>5, <2>2
    <2>4. k - 1 \in i .. n /\ k \in 1 .. n /\ k - 1 \in 1 .. n /\ k # 1 /\ k - 1 \notin P
      <3> HIDE DEF P
      <3> QED
        BY <1>1, <2>1, <2>2, <2>3
    <2>5. Agree(k - 1)
      BY <2>4
    <2>6. /\ Len(f[k]) = Len(f[k - 1]) + Len(seqs[k]) /\ Len(seqs[k]) \in Nat
          /\ \A j \in 1 .. Len(f[k - 1]) : f[k][j] = f[k - 1][j]
      BY <1>1, <1>6, <2>4, LenProperties
    <2>7. Len(f[i]) \in Nat /\ Len(f[k - 1]) \in Nat
      BY <1>5, <2>4
    <2>8. Len(f[i]) <= Len(f[k])
      <3>1. Len(f[i]) <= Len(f[k - 1])
        BY <2>5
      <3>2. PICK a, b, c, d : a = Len(f[i]) /\ b = Len(f[k - 1]) /\ c = Len(seqs[k]) /\ d = Len(f[k])
        OBVIOUS
      <3>3. a \in Nat /\ b \in Nat /\ c \in Nat /\ d = b + c /\ a <= b
        BY ONLY <2>6, <2>7, <3>1, <3>2
      <3>4. a <= d
        BY ONLY <3>3
      <3> QED
        BY ONLY <3>2, <3>4
    <2>9. ASSUME NEW j \in 1 .. Len(f[i]) PROVE f[k][j] = f[i][j]
      <3>1. j \in 1 .. Len(f[k - 1]) /\ f[k - 1][j] = f[i][j]
        BY <2>5, <2>7
      <3> QED
        BY <2>6, <3>1
    <2> QED
      BY <2>2, <2>8, <2>9
  <1> DEFINE at == [i \in 1 .. n + 1 |-> IF i = 1 THEN 0 ELSE Len(f[i - 1])]
  <1>8. at \in [1 .. n + 1 -> Nat] /\ at[1] = 0 /\ at[n + 1] = Len(f[n])
    <2>1. \A i \in 1 .. n + 1 : i # 1 => i - 1 \in 1 .. n
      BY <1>1
    <2> QED
      BY <1>1, <1>5, <2>1
  <1>9. ASSUME NEW i \in 1 .. n
        PROVE  /\ at[i + 1] = Len(f[i]) /\ at[i + 1] = at[i] + Len(seqs[i])
               /\ \A j \in 1 .. Len(seqs[i]) : f[i][at[i] + j] = seqs[i][j]
    <2>1. i + 1 \in 1 .. n + 1 /\ i + 1 # 1 /\ i + 1 - 1 = i /\ i \in 1 .. n + 1
      BY <1>1
    <2>2. at[i + 1] = Len(f[i]) /\ (i # 1 => at[i] = Len(f[i - 1]))
      BY <2>1
    <2>3. CASE i = 1
      <3>1. f[i] = seqs[i] /\ Len(seqs[i]) \in Nat
        BY <1>1, <1>4, <2>3, LenProperties
      <3> HIDE DEF at
      <3> QED
        BY <1>8, <2>2, <2>3, <3>1
    <2>4. CASE i # 1
      <3> HIDE DEF at
      <3> QED
        BY <1>6, <2>2, <2>4
    <2> QED
      BY <2>3, <2>4
  <1> HIDE DEF at
  <1>10. ASSUME NEW i \in 1 .. n
         PROVE  at[i + 1] <= Len(f[n]) /\ \A j \in 1 .. Len(seqs[i]) : f[n][at[i] + j] = seqs[i][j]
    <2>1. n \in i .. n
      BY <1>1
    <2>2. Len(f[i]) <= Len(f[n]) /\ \A j \in 1 .. Len(f[i]) : f[n][j] = f[i][j]
      BY <1>7, <2>1
    <2>3. at[i] \in Nat /\ Len(seqs[i]) \in Nat
      BY <1>1, <1>8, LenProperties
    <2>4. \A j \in 1 .. Len(seqs[i]) : at[i] + j \in 1 .. Len(f[i])
      BY <1>9, <2>3
    <2> QED
      BY <1>9, <2>2, <2>4
  <1>11. LaidOut(f[n], seqs, at)
    BY <1>8, <1>9, <1>10 DEF LaidOut, n
  <1>12. f[n] \in Seq(S)
    BY <1>1, <1>5
  <1> QED
    BY <1>2, <1>11, <1>12

(* One more sequence behind the others. *)
LEMMA LaidOutMore ==
  ASSUME NEW S, NEW F \in Seq(S), NEW seqs \in Seq(Seq(S)), NEW e \in Seq(S), NEW at,
         LaidOut(F, seqs, at)
  PROVE  \E more : LaidOut(F \o e, Append(seqs, e), more)
  <1> DEFINE n == Len(seqs)
             G == F \o e
             more == [i \in 1 .. n + 2 |-> IF i = n + 2 THEN Len(F) + Len(e) ELSE at[i]]
  <1>1. n \in Nat /\ Len(F) \in Nat /\ Len(e) \in Nat
    BY LenProperties
  <1>2. /\ Len(G) = Len(F) + Len(e)
        /\ \A j \in 1 .. Len(F) : G[j] = F[j]
        /\ \A j \in 1 .. Len(e) : G[Len(F) + j] = e[j]
    BY ConcatProperties
  <1>3. /\ Len(Append(seqs, e)) = n + 1 /\ Append(seqs, e)[n + 1] = e
        /\ \A i \in 1 .. n : Append(seqs, e)[i] = seqs[i]
    BY AppendProperties
  <1>4. /\ at \in [1 .. n + 1 -> Nat] /\ at[1] = 0 /\ at[n + 1] = Len(F)
        /\ \A i \in 1 .. n :
             /\ at[i + 1] = at[i] + Len(seqs[i]) /\ at[i + 1] <= Len(F)
             /\ \A j \in 1 .. Len(seqs[i]) : F[at[i] + j] = seqs[i][j]
    BY DEF LaidOut
  <1> HIDE DEF n, G
  <1>5. more \in [1 .. n + 2 -> Nat] /\ \A i \in 1 .. n + 1 : more[i] = at[i]
    BY <1>1, <1>4
  <1>6. more[1] = 0 /\ more[n + 2] = Len(G)
    BY <1>1, <1>2, <1>4
  <1> HIDE DEF more
  <1>7. ASSUME NEW i \in 1 .. n
        PROVE  /\ more[i + 1] = more[i] + Len(seqs[i]) /\ more[i + 1] <= Len(G)
               /\ \A j \in 1 .. Len(seqs[i]) : G[more[i] + j] = seqs[i][j]
    <2>1. i \in 1 .. n + 1 /\ i + 1 \in 1 .. n + 1 /\ at[i] \in Nat /\ at[i + 1] \in Nat
      BY <1>1, <1>4
    <2>2. more[i] = at[i] /\ more[i + 1] = at[i + 1]
      BY <1>5, <2>1
    <2>3. seqs[i] \in Seq(S)
      BY <1>1, ElementOfSeq DEF n
    <2>4. Len(seqs[i]) \in Nat
      BY <2>3, LenProperties
    <2>5. at[i + 1] = at[i] + Len(seqs[i]) /\ at[i + 1] <= Len(F)
      BY <1>4
    <2>6. \A j \in 1 .. Len(seqs[i]) : at[i] + j \in 1 .. Len(F)
      <3>1. PICK a, b, c, d : a = at[i] /\ b = at[i + 1] /\ c = Len(seqs[i]) /\ d = Len(F)
        OBVIOUS
      <3>2. a \in Nat /\ b \in Nat /\ c \in Nat /\ d \in Nat /\ b = a + c /\ b <= d
        BY ONLY <1>1, <2>1, <2>4, <2>5, <3>1
      <3>3. \A j \in 1 .. c : a + j \in 1 .. d
        BY ONLY <3>2
      <3> QED
        BY ONLY <3>1, <3>3
    <2>7. \A j \in 1 .. Len(seqs[i]) : G[at[i] + j] = seqs[i][j]
      BY <1>2, <1>4, <2>6
    <2>8. at[i + 1] <= Len(G)
      BY <1>1, <1>2, <2>1, <2>5
    <2> QED
      BY <2>2, <2>5, <2>7, <2>8
  <1>8. /\ more[n + 1 + 1] = more[n + 1] + Len(e) /\ more[n + 1 + 1] <= Len(G)
        /\ \A j \in 1 .. Len(e) : G[more[n + 1] + j] = e[j]
    <2>1. n + 1 \in 1 .. n + 1 /\ n + 1 + 1 = n + 2
      BY <1>1
    <2>2. more[n + 1] = Len(F)
      BY <1>4, <1>5, <2>1
    <2>3. more[n + 1 + 1] = Len(G)
      BY <1>6, <2>1
    <2> QED
      BY <1>1, <1>2, <2>2, <2>3
  <1>9. LaidOut(G, Append(seqs, e), more)
    <2>1. Len(Append(seqs, e)) + 1 = n + 2
      BY <1>1, <1>3
    <2>2. \A i \in 1 .. n + 1 : i \in 1 .. n \/ i = n + 1
      BY <1>1
    <2>3. ASSUME NEW i \in 1 .. n + 1
          PROVE  /\ more[i + 1] = more[i] + Len(Append(seqs, e)[i]) /\ more[i + 1] <= Len(G)
                 /\ \A j \in 1 .. Len(Append(seqs, e)[i]) : G[more[i] + j] = Append(seqs, e)[i][j]
      <3>1. CASE i \in 1 .. n
        <4>1. Append(seqs, e)[i] = seqs[i]
          BY <1>3, <3>1
        <4> QED
          BY <1>7, <3>1, <4>1
      <3>2. CASE i = n + 1
        BY <1>3, <1>8, <3>2
      <3> QED
        BY <2>2, <3>1, <3>2
    <2> QED
      BY <1>3, <1>5, <1>6, <2>1, <2>3 DEF LaidOut
  <1> QED
    BY <1>9 DEF G

LEMMA AnyFlattened ==
  ASSUME NEW S, NEW seqs \in Seq(Seq(S))
  PROVE  FlattenSeq(seqs) \in Seq(S) /\ \E at : LaidOut(FlattenSeq(seqs), seqs, at)
  <1>1. CASE seqs # <<>>
    BY <1>1, Flattened
  <1>2. CASE seqs = <<>>
    <2>1. Len(seqs) = 0 /\ FlattenSeq(seqs) = seqs /\ seqs \in Seq(S)
      BY <1>2, EmptySeq DEF FlattenSeq
    <2> DEFINE at == [i \in 1 .. 1 |-> 0]
    <2>2. LaidOut(seqs, seqs, at)
      BY <2>1 DEF LaidOut
    <2> QED
      BY <2>1, <2>2
  <1> QED
    BY <1>1, <1>2

(* A quoted string: after the i-th character ea[i + 1] symbols have gone by. *)
Escapes(s, E, ea) ==
  /\ ea \in [1 .. Len(s) + 1 -> Nat] /\ ea[1] = 1 /\ Len(E) = ea[Len(s) + 1] + 1
  /\ E[1] = Quote /\ E[Len(E)] = Quote
  /\ \A i \in 1 .. Len(s) + 1 : ea[i] < Len(E)
  /\ \A i \in 1 .. Len(s) :
       IF s[i] \in {Quote, Backslash}
         THEN ea[i + 1] = ea[i] + 2 /\ E[ea[i] + 1] = Backslash /\ E[ea[i] + 2] = s[i]
         ELSE ea[i + 1] = ea[i] + 1 /\ E[ea[i] + 1] = s[i]

LEMMA QuotesAdded ==
  ASSUME NEW X \in Seq(Nat), NEW E, E = <<Quote>> \o X \o <<Quote>>
  PROVE  /\ E \in Seq(Nat) /\ Len(E) = Len(X) + 2 /\ E[1] = Quote /\ E[Len(E)] = Quote
         /\ \A i \in 1 .. Len(X) : E[i + 1] = X[i]
  <1> DEFINE A == <<Quote>> \o X
  <1>1. <<Quote>> \in Seq(Nat) /\ Len(<<Quote>>) = 1 /\ <<Quote>>[1] = Quote /\ Len(X) \in Nat
    BY LenProperties DEF Quote
  <1>2. /\ A \in Seq(Nat) /\ Len(A) = 1 + Len(X) /\ A[1] = Quote
        /\ \A i \in 1 .. Len(X) : A[i + 1] = X[i]
    <2>1. /\ A \in Seq(Nat) /\ Len(A) = 1 + Len(X)
          /\ \A i \in 1 .. 1 + Len(X) : A[i] = IF i <= 1 THEN <<Quote>>[i] ELSE X[i - 1]
      BY <1>1, ConcatProperties
    <2> HIDE DEF A
    <2>2. \A i \in 1 .. Len(X) : i + 1 \in 1 .. 1 + Len(X) /\ ~(i + 1 <= 1) /\ i + 1 - 1 = i
      BY <1>1
    <2>3. 1 \in 1 .. 1 + Len(X) /\ 1 <= 1
      BY <1>1
    <2>4. A[1] = Quote
      BY <1>1, <2>1, <2>3
    <2>5. \A i \in 1 .. Len(X) : A[i + 1] = X[i]
      BY <2>1, <2>2
    <2> QED
      BY <2>1, <2>4, <2>5
  <1>3. E = A \o <<Quote>>
    OBVIOUS
  <1> HIDE DEF A
  <1>4. /\ E \in Seq(Nat) /\ Len(E) = Len(A) + 1
        /\ \A i \in 1 .. Len(A) + 1 : E[i] = IF i <= Len(A) THEN A[i] ELSE <<Quote>>[i - Len(A)]
    BY <1>1, <1>2, <1>3, ConcatProperties
  <1>5. \A i \in 1 .. Len(X) : i + 1 \in 1 .. Len(A) + 1 /\ i + 1 <= Len(A)
    BY <1>1, <1>2
  <1>6. E[1] = A[1] /\ E[Len(A) + 1] = <<Quote>>[1]
    <2>1. PICK k, q : k = Len(A) /\ q = <<Quote>>
      OBVIOUS
    <2>2. \A i \in 1 .. k + 1 : E[i] = IF i <= k THEN A[i] ELSE q[i - k]
      BY ONLY <1>4, <2>1
    <2>3. /\ k \in Nat /\ 1 \in 1 .. k + 1 /\ 1 <= k /\ k + 1 \in 1 .. k + 1
          /\ ~(k + 1 <= k) /\ k + 1 - k = 1
      BY <1>1, <1>2, <2>1
    <2>4. E[1] = A[1]
      BY ONLY <2>2, <2>3
    <2>5. E[k + 1] = q[k + 1 - k]
      BY ONLY <2>2, <2>3
    <2> QED
      BY ONLY <2>1, <2>3, <2>4, <2>5
  <1> QED
    BY <1>1, <1>2, <1>4, <1>5, <1>6

LEMMA QuotedEscapes ==
  ASSUME NEW s \in Seq(Nat)
  PROVE  QuotedText(s) \in Seq(Nat) /\ \E ea : Escapes(s, QuotedText(s), ea)
  <1> DEFINE seqs == [i \in DOMAIN s |-> IF s[i] \in {Quote, Backslash} THEN <<Backslash, s[i]>>
                                                                       ELSE <<s[i]>>]
             n == Len(s)
             X == Escaped(s)
             E == QuotedText(s)
  <1>1. n \in Nat /\ DOMAIN s = 1 .. n /\ \A i \in 1 .. n : s[i] \in Nat
    BY LenProperties, ElementOfSeq
  <1> HIDE DEF n
  <1>2. seqs \in Seq(Seq(Nat)) /\ Len(seqs) = n
    <2>1. ASSUME NEW i \in 1 .. n
          PROVE  (IF s[i] \in {Quote, Backslash} THEN <<Backslash, s[i]>> ELSE <<s[i]>>) \in Seq(Nat)
      BY <1>1 DEF Backslash
    <2>2. seqs \in [1 .. n -> Seq(Nat)]
      BY <1>1, <2>1
    <2> HIDE DEF seqs
    <2> QED
      BY ONLY <1>1, <2>2, FunctionIsSeq
  <1>3. \A i \in 1 .. n : seqs[i] = IF s[i] \in {Quote, Backslash} THEN <<Backslash, s[i]>> ELSE <<s[i]>>
    BY <1>1
  <1>4. X = FlattenSeq(seqs)
    BY DEF Escaped
  <1> HIDE DEF seqs, X
  <1>5. X \in Seq(Nat) /\ \E at : LaidOut(X, seqs, at)
    BY <1>2, <1>4, AnyFlattened
  <1>6. PICK at : LaidOut(X, seqs, at)
    BY <1>5
  <1>7. /\ at \in [1 .. n + 1 -> Nat] /\ at[1] = 0 /\ at[n + 1] = Len(X)
        /\ \A i \in 1 .. n :
             /\ at[i + 1] = at[i] + Len(seqs[i]) /\ at[i + 1] <= Len(X)
             /\ \A j \in 1 .. Len(seqs[i]) : X[at[i] + j] = seqs[i][j]
    BY <1>2, <1>6 DEF LaidOut
  <1>8. /\ E \in Seq(Nat) /\ Len(E) = Len(X) + 2 /\ E[1] = Quote /\ E[Len(E)] = Quote
        /\ \A i \in 1 .. Len(X) : E[i + 1] = X[i]
    <2>1. E = <<Quote>> \o X \o <<Quote>>
      BY DEF QuotedText, X
    <2> HIDE DEF E
    <2> QED
      BY ONLY <1>5, <2>1, QuotesAdded
  <1> HIDE DEF E
  <1> DEFINE ea == [i \in 1 .. n + 1 |-> at[i] + 1]
  <1>9. ea \in [1 .. n + 1 -> Nat] /\ ea[1] = 1 /\ Len(E) = ea[n + 1] + 1
    <2>1. Len(X) \in Nat
      BY <1>5, LenProperties
    <2> QED
      BY <1>1, <1>7, <1>8, <2>1
  <1>10. ASSUME NEW i \in 1 .. n
         PROVE  IF s[i] \in {Quote, Backslash}
                  THEN ea[i + 1] = ea[i] + 2 /\ E[ea[i] + 1] = Backslash /\ E[ea[i] + 2] = s[i]
                  ELSE ea[i + 1] = ea[i] + 1 /\ E[ea[i] + 1] = s[i]
    <2>1. i \in 1 .. n + 1 /\ i + 1 \in 1 .. n + 1 /\ at[i] \in Nat /\ at[i + 1] \in Nat
      <3>1. i \in 1 .. n + 1 /\ i + 1 \in 1 .. n + 1
        BY <1>1
      <3> QED
        BY <1>7, <3>1
    <2>2. ea[i] = at[i] + 1 /\ ea[i + 1] = at[i + 1] + 1
      BY <2>1
    <2>3. PICK a, b, L : a = at[i] /\ b = at[i + 1] /\ L = Len(X)
      OBVIOUS
    <2>4. L \in Nat /\ a \in Nat /\ b \in Nat /\ b <= L
      BY <1>5, <1>7, <2>1, <2>3, LenProperties
    <2>5. b = a + Len(seqs[i]) /\ \A j \in 1 .. Len(seqs[i]) : X[a + j] = seqs[i][j]
      BY <1>7, <2>3
    <2>6. CASE s[i] \in {Quote, Backslash}
      <3>0. seqs[i] = <<Backslash, s[i]>>
        BY <1>3, <2>6
      <3>1. Len(seqs[i]) = 2 /\ seqs[i][1] = Backslash /\ seqs[i][2] = s[i]
        BY ONLY <3>0
      <3>2. b = a + 2 /\ X[a + 1] = Backslash /\ X[a + 2] = s[i]
        BY ONLY <2>5, <3>1
      <3>3. a + 1 \in 1 .. L /\ a + 2 \in 1 .. L /\ a + 1 + 1 = a + 2 /\ a + 2 + 1 = a + 1 + 2
        BY <2>4, <3>2
      <3>4. E[a + 1 + 1] = Backslash /\ E[a + 1 + 2] = s[i]
        BY <1>8, <2>3, <3>2, <3>3
      <3>5. ea[i + 1] = ea[i] + 2
        <4> HIDE DEF ea
        <4> QED
          BY ONLY <2>2, <2>3, <2>4, <3>2
      <3> QED
        BY <2>2, <2>3, <2>6, <3>4, <3>5
    <2>7. CASE s[i] \notin {Quote, Backslash}
      <3>0. seqs[i] = <<s[i]>>
        BY <1>3, <2>7
      <3>1. Len(seqs[i]) = 1 /\ seqs[i][1] = s[i]
        BY ONLY <3>0
      <3>2. b = a + 1 /\ X[a + 1] = s[i]
        BY ONLY <2>5, <3>1
      <3>3. a + 1 \in 1 .. L
        BY <2>4, <3>2
      <3>4. E[a + 1 + 1] = s[i]
        BY <1>8, <2>3, <3>2, <3>3
      <3>5. ea[i + 1] = ea[i] + 1
        <4> HIDE DEF ea
        <4> QED
          BY ONLY <2>2, <2>3, <2>4, <3>2
      <3> QED
        BY <2>2, <2>3, <2>7, <3>4, <3>5
    <2> QED
      BY <2>6, <2>7
  <1>11. ASSUME NEW i \in 1 .. n + 1 PROVE ea[i] < Len(E)
    <2>1. PICK a, L : a = at[i] /\ L = Len(X)
      OBVIOUS
    <2>2. ea[i] = a + 1 /\ a \in Nat /\ L \in Nat /\ Len(E) = L + 2
      BY <1>5, <1>7, <1>8, <2>1, LenProperties
    <2>3. a <= L
      <3>1. CASE i = 1
        BY <1>7, <2>1, <2>2, <3>1
      <3>2. CASE i # 1
        <4>1. PICK j : j = i - 1
          OBVIOUS
        <4>2. j \in 1 .. n /\ j + 1 = i
          BY <1>1, <3>2, <4>1
        <4> QED
          BY <1>7, <2>1, <4>2
      <3> QED
        BY <3>1, <3>2
    <2> HIDE DEF ea
    <2> QED
      BY ONLY <2>2, <2>3
  <1> HIDE DEF ea
  <1>12. Escapes(s, E, ea)
    BY <1>8, <1>9, <1>10, <1>11 DEF Escapes, n
  <1> QED
    BY <1>8, <1>12 DEF E

LEMMA IdleCall == Idle \in CallType /\ Idle.op = "none"
  BY EmptySeq DEF Idle, CallType

(* What an extractor does is one of three: it takes a character that is not   *)
(* the end, it puts back what it took, or less, or it leaves.                 *)
Forward ==
  /\ Peeked # EOF /\ g' = g + 1 /\ pos' = pos + 1 /\ UNCHANGED <<area, next>>
  /\ call' \in CallType /\ call'.op \in {call.op, "none"}
  /\ call'.op = "expect" => call'.took = call.took + 1 /\ call'.refilled = call.refilled
  /\ strings' \in Seq(Seq(Nat)) /\ astray' \in {astray, TRUE}

Back ==
  \E n \in 0 .. call.took : PutBack(n) /\ (n = call.took => call.op = "expect")

LEMMA Peeks ==
  ASSUME StreamsTypeOK
  PROVE  /\ Peeked \in Nat /\ (Peeked # EOF => g < BuffSize /\ Peeked = area[g + 1])
         /\ BuffSize \in Nat /\ g \in Nat /\ g <= BuffSize
  <1>1. BuffSize \in Nat /\ g \in 0 .. BuffSize /\ area \in [1 .. BuffSize -> Nat]
    BY StreamsAssumption DEF StreamsTypeOK
  <1>2. g < BuffSize => g + 1 \in 1 .. BuffSize
    BY <1>1
  <1> QED
    BY <1>1, <1>2 DEF Peeked, EOF

LEMMA CallFields ==
  ASSUME NEW c \in CallType
  PROVE  /\ c.op \in {"none", "expect", "find", "quoted"} /\ c.want \in Seq(Nat \ {EOF})
         /\ c.took \in Nat /\ c.text \in Seq(Nat) /\ c.refilled \in BOOLEAN
  BY DEF CallType

LEMMA Extractions ==
  ASSUME StreamsTypeOK, Expect \/ FindWord \/ Quoted
  PROVE  Forward \/ Back \/ Leave
  <1> DEFINE w == Nat \ {EOF}
  <1>1. /\ call \in CallType /\ call.want \in Seq(w) /\ call.took \in Nat /\ call.text \in Seq(Nat)
        /\ Peeked \in Nat /\ call.refilled \in BOOLEAN
        /\ call.op \in {"none", "expect", "find", "quoted"}
    BY Peeks, CallFields DEF StreamsTypeOK
  <1>2. strings \in Seq(Seq(Nat))
    BY DEF StreamsTypeOK
  <1>3. ASSUME call.want # <<>> PROVE Head(call.want) # EOF /\ Tail(call.want) \in Seq(w)
    BY <1>1, <1>3, HeadTailProperties
  <1>4. ASSUME call.want # <<>> PROVE Matched \in CallType /\ Matched.op = call.op
                 /\ Matched.took = call.took + 1 /\ Matched.refilled = call.refilled
    <2>1. PICK u, n : u = Tail(call.want) /\ n = call.took + 1
      OBVIOUS
    <2>2. Matched = [call EXCEPT !.want = u, !.took = n] /\ u \in Seq(w) /\ n \in Nat
      BY <1>1, <1>3, <1>4, <2>1 DEF Matched
    <2>3. call \in CallType
      BY <1>1
    <2>4. Matched \in CallType /\ Matched.op = call.op /\ Matched.took = n /\ Matched.refilled = call.refilled
      BY ONLY <2>2, <2>3 DEF CallType
    <2> QED
      BY <2>1, <2>4
  <1>5. ASSUME NEW c \in CallType, Take(c), Peeked # EOF, c.op = call.op,
               c.op = "expect" => c.took = call.took + 1 /\ c.refilled = call.refilled
        PROVE  Forward
    BY <1>2, <1>5 DEF Take, Forward
  <1>6. CASE Expect
    <2>1. CASE call.want = <<>> /\ Leave
      BY <2>1
    <2>2. CASE call.want # <<>> /\ Peekable /\ Peeked = Head(call.want) /\ Take(Matched)
      BY <1>3, <1>4, <1>5, <2>2
    <2>3. CASE call.want # <<>> /\ Peekable /\ Peeked # Head(call.want) /\ PutBack(call.took)
      BY <1>1, <1>6, <2>3 DEF Back, Expect
    <2> QED
      BY <1>6, <2>1, <2>2, <2>3 DEF Expect
  <1>7. CASE FindWord
    <2>0. call.op = "find"
      BY <1>7 DEF FindWord
    <2>1. ASSUME call.want # <<>>, Peeked = Head(call.want), Take(Matched) PROVE Forward
      BY <1>3, <1>4, <1>5, <2>0, <2>1
    <2>2. ASSUME Peeked # EOF, Take(call) PROVE Forward
      BY <1>1, <1>5, <2>0, <2>2
    <2>3. ASSUME call.took > 1, PutBack(call.took - 1) PROVE Back
      <3>1. call.took - 1 \in 0 .. call.took /\ call.took - 1 # call.took
        BY <1>1, <2>3
      <3> QED
        BY <2>3, <3>1 DEF Back
    <2> QED
      BY <1>7, <2>1, <2>2, <2>3 DEF FindWord
  <1>8. CASE Quoted
    <2>0. call.op = "quoted"
      BY <1>8 DEF Quoted
    <2>1. ASSUME NEW c \in CallType, Take(c), Peeked # EOF, c.op = call.op PROVE Forward
      BY <1>5, <2>0, <2>1
    <2>2. [call EXCEPT !.took = 1] \in CallType /\ [call EXCEPT !.took = 1].op = call.op
      BY <1>1 DEF CallType
    <2>3. ASSUME g' = g + 1, pos' = pos + 1, call' = Idle, astray' = TRUE, Peeked # EOF,
                 UNCHANGED <<area, next, strings>>
          PROVE  Forward
      BY <1>2, <2>3, IdleCall DEF Forward
    <2>4. ASSUME g' = g + 1, pos' = pos + 1, call' = Idle, strings' = Append(strings, call.text),
                 Peeked # EOF, UNCHANGED <<area, next, astray>>
          PROVE  Forward
      <3>1. strings' \in Seq(Seq(Nat))
        BY <1>1, <1>2, <2>4, AppendProperties
      <3> QED
        BY <2>4, <3>1, IdleCall DEF Forward
    <2>5. /\ [call EXCEPT !.want = <<Backslash>>] \in CallType
          /\ [call EXCEPT !.want = <<Backslash>>].op = call.op
      <3>1. <<Backslash>> \in Seq(w)
        BY DEF Backslash, EOF
      <3> QED
        BY <1>1, <3>1 DEF CallType
    <2>6. /\ [call EXCEPT !.text = Append(@, Peeked)] \in CallType
          /\ [call EXCEPT !.text = Append(@, Peeked)].op = call.op
      <3>1. Append(call.text, Peeked) \in Seq(Nat)
        BY <1>1, AppendProperties
      <3> QED
        BY <1>1, <3>1 DEF CallType
    <2> DEFINE t == call.text \o (IF Peeked \in {Quote, Backslash} THEN <<>> ELSE call.want) \o <<Peeked>>
    <2>7. /\ [call EXCEPT !.want = <<>>, !.text = t] \in CallType
          /\ [call EXCEPT !.want = <<>>, !.text = t].op = call.op
      <3>1. PICK u : u = IF Peeked \in {Quote, Backslash} THEN <<>> ELSE call.want
        OBVIOUS
      <3>2. u \in Seq(Nat)
        <4>1. call.want \in Seq(Nat)
          <5>1. DOMAIN call.want = 1 .. Len(call.want) /\ Len(call.want) \in Nat
            BY <1>1, LenProperties
          <5>2. call.want \in [1 .. Len(call.want) -> Nat]
            BY <1>1, <5>1, LenProperties
          <5> QED
            BY <5>1, <5>2, FunctionIsSeq
        <4> QED
          BY <3>1, <4>1, EmptySeq
      <3>3. call.text \o u \in Seq(Nat) /\ <<Peeked>> \in Seq(Nat)
        BY <1>1, <3>2, ConcatProperties
      <3>4. (call.text \o u) \o <<Peeked>> \in Seq(Nat)
        BY <3>3, ConcatProperties
      <3>5. t \in Seq(Nat)
        BY <3>1, <3>4
      <3> HIDE DEF t
      <3> QED
        BY <1>1, <3>5, EmptySeq DEF CallType
    <2>8. Quote # EOF /\ Backslash # EOF
      BY DEF Quote, Backslash, EOF
    <2>9. CASE Peeked = EOF /\ Leave
      BY <2>9
    <2>10. CASE call.took = 0 /\ Peeked = Quote /\ Take([call EXCEPT !.took = 1])
      BY <2>1, <2>2, <2>8, <2>10
    <2>11. CASE /\ call.took = 0 /\ Peeked \notin {EOF, Quote}
                /\ g' = g + 1 /\ pos' = pos + 1 /\ call' = Idle /\ astray' = TRUE
                /\ UNCHANGED <<area, next, strings>>
      BY <2>3, <2>11
    <2>12. CASE /\ call.took = 1 /\ call.want = <<>> /\ Peeked = Quote
                /\ g' = g + 1 /\ pos' = pos + 1 /\ call' = Idle
                /\ strings' = Append(strings, call.text) /\ UNCHANGED <<area, next, astray>>
      BY <2>4, <2>8, <2>12
    <2>13. CASE call.took = 1 /\ call.want = <<>> /\ Peeked = Backslash
                /\ Take([call EXCEPT !.want = <<Backslash>>])
      BY <2>1, <2>5, <2>8, <2>13
    <2>14. CASE call.took = 1 /\ call.want = <<>> /\ Peeked \notin {EOF, Quote, Backslash}
                /\ Take([call EXCEPT !.text = Append(@, Peeked)])
      BY <2>1, <2>6, <2>14
    <2>15. CASE call.took = 1 /\ call.want # <<>> /\ Peeked # EOF
                /\ Take([call EXCEPT !.want = <<>>, !.text = t])
      <3> HIDE DEF t
      <3> QED
        BY <2>1, <2>7, <2>15
    <2> QED
      BY <1>8, <2>9, <2>10, <2>11, <2>12, <2>13, <2>14, <2>15 DEF Quoted
  <1> QED
    BY <1>6, <1>7, <1>8

(* sync() lets the file have what it wrote. *)
LEMMA Wrote ==
  ASSUME StreamsTypeOK, NEW n \in 0 .. Len(outArea), WriteOut(n)
  PROVE  /\ file' \in Seq(Nat) /\ Len(file') >= Len(file) /\ Len(file') \in Nat /\ Len(file) \in Nat
         /\ SubSeq(outArea, n + 1, Len(outArea)) \in Seq(Nat)
         /\ n = Len(outArea) => file' = file \o outArea
  <1>1. file \in Seq(Nat) /\ outArea \in Seq(Nat) /\ Len(file) \in Nat /\ Len(outArea) \in Nat
    BY LenProperties DEF StreamsTypeOK
  <1>2. PICK u : u = SubSeq(outArea, 1, n)
    OBVIOUS
  <1>3. u \in Seq(Nat) /\ (n = Len(outArea) => u = outArea)
    <2>1. 1 \in 1 .. Len(outArea) + 1 /\ n \in 1 - 1 .. Len(outArea)
      BY <1>1
    <2>2. u \in Seq(Nat) /\ Len(u) = n /\ \A i \in 1 .. n : u[i] = outArea[i]
      <3>1. /\ u \in Seq(Nat) /\ Len(u) = n - 1 + 1
            /\ \A i \in 1 .. n - 1 + 1 : u[i] = outArea[1 + i - 1]
        BY <1>1, <1>2, <2>1, Piece
      <3>2. n - 1 + 1 = n /\ \A i \in 1 .. n : 1 + i - 1 = i
        BY <1>1
      <3> QED
        BY <3>1, <3>2
    <2>3. ASSUME n = Len(outArea) PROVE u = outArea
      BY <1>1, <2>2, <2>3, SeqEqual
    <2> QED
      BY <2>2, <2>3
  <1>4. file' = file \o u /\ file \o u \in Seq(Nat) /\ Len(file \o u) = Len(file) + Len(u) /\ Len(u) \in Nat
    BY <1>1, <1>2, <1>3, ConcatProperties, LenProperties DEF WriteOut
  <1>5. SubSeq(outArea, n + 1, Len(outArea)) \in Seq(Nat)
    <2>1. n + 1 \in 1 .. Len(outArea) + 1 /\ Len(outArea) \in n + 1 - 1 .. Len(outArea)
      BY <1>1
    <2> QED
      BY <1>1, <2>1, Piece
  <1> QED
    BY <1>1, <1>3, <1>4, <1>5

(* What is read goes to the end of the area. *)
LEMMA Refilling ==
  ASSUME StreamsTypeOK, NEW k \in 1 .. BuffSize, k <= Len(file) - next, NEW a,
         a = Refilled(SubSeq(file, next + 1, next + k))
  PROVE  /\ a \in [1 .. BuffSize -> Nat]
         /\ \A i \in 1 .. k : a[BuffSize - k + i] = file[next + i]
  <1>1. BuffSize \in Nat /\ file \in Seq(Nat) /\ next \in Nat /\ Len(file) \in Nat /\ next + k <= Len(file)
        /\ area \in [1 .. BuffSize -> Nat] /\ k \in Nat
    BY StreamsAssumption, LenProperties DEF StreamsTypeOK
  <1>2. PICK u : u = SubSeq(file, next + 1, next + k)
    OBVIOUS
  <1>3. u \in Seq(Nat) /\ Len(u) = k /\ \A i \in 1 .. k : u[i] = file[next + i]
    <2>1. next + 1 \in 1 .. Len(file) + 1 /\ next + k \in next + 1 - 1 .. Len(file)
      BY <1>1
    <2>2. next + k - (next + 1) + 1 = k /\ \A i \in 1 .. k : next + 1 + i - 1 = next + i
      BY <1>1
    <2>3. PICK m, n : m = next + 1 /\ n = next + k
      OBVIOUS
    <2>4. /\ u \in Seq(Nat) /\ Len(u) = n - m + 1
          /\ \A i \in 1 .. n - m + 1 : u[i] = file[m + i - 1]
      <3>1. file \in Seq(Nat) /\ m \in 1 .. Len(file) + 1 /\ n \in m - 1 .. Len(file)
            /\ u = SubSeq(file, m, n)
        BY ONLY <1>1, <1>2, <2>1, <2>3
      <3> QED
        BY ONLY <3>1, Piece
    <2>5. n - m + 1 = k /\ \A i \in 1 .. k : m + i - 1 = next + i
      BY <2>2, <2>3
    <2> QED
      BY ONLY <2>4, <2>5
  <1>4. a = [i \in 1 .. BuffSize |-> IF i > BuffSize - k THEN u[i - BuffSize + k]
                                     ELSE IF i <= k THEN u[i] ELSE area[i]]
    BY <1>2, <1>3 DEF Refilled
  <1>5. \A i \in 1 .. k : u[i] \in Nat
    BY <1>1, <1>3, ElementOfSeq
  <1>6. \A i \in 1 .. BuffSize : i > BuffSize - k => i - BuffSize + k \in 1 .. k
    BY <1>1
  <1>7. a \in [1 .. BuffSize -> Nat]
    <2>1. ASSUME NEW i \in 1 .. BuffSize
          PROVE  (IF i > BuffSize - k THEN u[i - BuffSize + k]
                  ELSE IF i <= k THEN u[i] ELSE area[i]) \in Nat
      <3>1. i > BuffSize - k => u[i - BuffSize + k] \in Nat
        BY <1>5, <1>6
      <3>2. i <= k => u[i] \in Nat
        BY <1>1, <1>5
      <3>3. area[i] \in Nat
        BY <1>1
      <3> QED
        BY <3>1, <3>2, <3>3
    <2> QED
      BY <1>4, <2>1
  <1>8. ASSUME NEW i \in 1 .. k PROVE a[BuffSize - k + i] = file[next + i]
    <2>1. PICK j : j = BuffSize - k + i
      OBVIOUS
    <2>2. j \in 1 .. BuffSize /\ j > BuffSize - k /\ j - BuffSize + k = i
      BY <1>1, <2>1
    <2>3. a[j] = u[i]
      BY <1>4, <2>2
    <2> QED
      BY <1>3, <2>1, <2>3
  <1> QED
    BY <1>7, <1>8

LEMMA StreamsBegin == StreamsInit => StreamsIInv
  <1> SUFFICES ASSUME StreamsInit PROVE StreamsIInv
    OBVIOUS
  <1>1. <<>> \in Seq(Nat) /\ <<>> \in Seq(Seq(Nat)) /\ Len(<<>>) = 0
    BY EmptySeq
  <1>2. BuffSize \in Nat
    BY StreamsAssumption
  <1>3. StreamsTypeOK
    <2>1. area \in [1 .. BuffSize -> Nat]
      BY DEF StreamsInit, EOF
    <2>2. g \in 0 .. BuffSize /\ next \in 0 .. Len(file) /\ pos \in Int
      BY <1>1, <1>2 DEF StreamsInit
    <2> QED
      BY <1>1, <2>1, <2>2, IdleCall DEF StreamsInit, StreamsTypeOK
  <1> QED
    BY <1>3 DEF StreamsInit, StreamsIInv, ModeInv, AreaInv

LEMMA ExtractorsIn ==
  ASSUME StreamsIInv, Expect \/ FindWord \/ Quoted
  PROVE  mode = "in"
  <1>1. call.op # "none"
    BY DEF Expect, FindWord, Quoted
  <1> QED
    BY <1>1, IdleCall DEF StreamsIInv, ModeInv

(* The types, and what the mode says of the rest. *)
LEMMA StreamsTypeStep ==
  ASSUME StreamsIInv, [StreamsNext]_streamsVars
  PROVE  StreamsTypeOK' /\ ModeInv'
  <1>0. StreamsTypeOK /\ ModeInv /\ BuffSize \in Nat
    BY StreamsAssumption DEF StreamsIInv
  <1>11. <<>> \in Seq(Nat) /\ <<>> \in Seq(Seq(Nat)) /\ Len(<<>>) = 0
    BY EmptySeq
  <1>1. ASSUME OpenOut PROVE StreamsTypeOK' /\ ModeInv'
    BY <1>0, <1>1, <1>11 DEF OpenOut, StreamsTypeOK, ModeInv, readVars
  <1>2. ASSUME OpenIn PROVE StreamsTypeOK' /\ ModeInv'
    <2>1. StreamsTypeOK'
      <3>1. 0 \in 0 .. Len(file) /\ BuffSize \in 0 .. BuffSize
        BY <1>0, LenProperties DEF StreamsTypeOK
      <3> QED
        BY <1>0, <1>2, <1>11, <3>1 DEF OpenIn, StreamsTypeOK
    <2>2. ModeInv'
      BY <1>0, <1>2 DEF OpenIn, ModeInv
    <2> QED
      BY <2>1, <2>2
  <1>3. ASSUME NEW s \in Strings, Insert(s) PROVE StreamsTypeOK' /\ ModeInv'
    <2>1. s \in Seq(Nat)
      <3>1. s \in Seq(Nat \ {EOF})
        BY StreamsAssumption
      <3>2. Len(s) \in Nat /\ s \in [1 .. Len(s) -> Nat]
        BY <3>1, LenProperties
      <3> QED
        BY <3>2, FunctionIsSeq
    <2>2. putting' \in Seq(Nat) /\ stored' \in Seq(Seq(Nat))
      BY <1>0, <1>3, <2>1, QuotedEscapes, AppendProperties DEF Insert, StreamsTypeOK
    <2>3. StreamsTypeOK'
      BY <1>0, <1>3, <2>2 DEF Insert, StreamsTypeOK, readVars
    <2>4. ModeInv'
      BY <1>0, <1>3 DEF Insert, ModeInv, readVars
    <2> QED
      BY <2>3, <2>4
  <1>4. ASSUME PutChar PROVE StreamsTypeOK' /\ ModeInv'
    <2>1. UNCHANGED <<mode, stored, area, g, next, call, strings, pos, astray>> /\ putting # <<>>
      BY <1>4 DEF PutChar, readVars
    <2>2. mode = "out" /\ next = 0
      BY <1>0, <2>1 DEF ModeInv, StreamsTypeOK
    <2>3. putting \in Seq(Nat) /\ Head(putting) \in Nat /\ Tail(putting) \in Seq(Nat) /\ outArea \in Seq(Nat)
      BY <1>0, <2>1, HeadTailProperties DEF StreamsTypeOK
    <2>4. /\ file' \in Seq(Nat) /\ outArea' \in Seq(Nat) /\ putting' \in Seq(Nat)
          /\ writeFailed' \in BOOLEAN
      <3>1. ASSUME outArea' = Append(outArea, Head(putting)), putting' = Tail(putting),
                   UNCHANGED <<file, writeFailed>>
            PROVE  file' \in Seq(Nat) /\ outArea' \in Seq(Nat) /\ putting' \in Seq(Nat)
                   /\ writeFailed' \in BOOLEAN
        BY <1>0, <2>3, <3>1, AppendProperties DEF StreamsTypeOK
      <3>2. ASSUME Len(outArea) = BuffSize, WriteOut(BuffSize), outArea' = <<Head(putting)>>,
                   putting' = Tail(putting), UNCHANGED writeFailed
            PROVE  file' \in Seq(Nat) /\ outArea' \in Seq(Nat) /\ putting' \in Seq(Nat)
                   /\ writeFailed' \in BOOLEAN
        <4>1. BuffSize \in 0 .. Len(outArea)
          BY <1>0, <3>2
        <4>2. file' \in Seq(Nat)
          BY <1>0, <3>2, <4>1, Wrote
        <4> QED
          BY <1>0, <2>3, <3>2, <4>2 DEF StreamsTypeOK
      <3>3. ASSUME WriteFails
            PROVE  file' \in Seq(Nat) /\ outArea' \in Seq(Nat) /\ putting' \in Seq(Nat)
                   /\ writeFailed' \in BOOLEAN
        <4>1. PICK k \in 0 .. Len(outArea) - 1 :
                WriteOut(k) /\ outArea' = SubSeq(outArea, k + 1, Len(outArea))
          BY <3>3 DEF WriteFails
        <4>2. k \in 0 .. Len(outArea)
          BY <2>3, LenProperties
        <4> QED
          BY <1>0, <1>11, <3>3, <4>1, <4>2, Wrote DEF WriteFails
      <3> QED
        BY <1>4, <3>1, <3>2, <3>3 DEF PutChar
    <2>5. StreamsTypeOK'
      <3>1. Len(file') \in Nat
        BY <2>4, LenProperties
      <3> QED
        BY <1>0, <2>1, <2>2, <2>4, <3>1 DEF StreamsTypeOK
    <2>6. ModeInv'
      BY <1>0, <2>1, <2>2 DEF ModeInv
    <2> QED
      BY <2>5, <2>6
  <1>5. ASSUME Close PROVE StreamsTypeOK' /\ ModeInv'
    <2>1. /\ UNCHANGED <<stored, area, g, next, call, strings, pos, astray>> /\ mode' = "freed"
          /\ mode \in {"in", "out"} /\ putting = <<>> /\ call = Idle
      BY <1>5 DEF Close, readVars
    <2>2. outArea \in Seq(Nat) /\ Len(outArea) \in Nat /\ next \in 0 .. Len(file)
      BY <1>0, LenProperties DEF StreamsTypeOK
    <2>3. /\ file' \in Seq(Nat) /\ next \in 0 .. Len(file') /\ outArea' \in Seq(Nat)
          /\ putting' = <<>> /\ writeFailed' \in BOOLEAN /\ (writeFailed' \/ outArea' = <<>>)
      <3>1. ASSUME WriteOut(Len(outArea)), outArea' = <<>>, UNCHANGED <<putting, writeFailed>>
            PROVE  /\ file' \in Seq(Nat) /\ next \in 0 .. Len(file') /\ outArea' \in Seq(Nat)
                   /\ putting' = <<>> /\ writeFailed' \in BOOLEAN /\ (writeFailed' \/ outArea' = <<>>)
        <4>1. Len(outArea) \in 0 .. Len(outArea)
          BY <2>2
        <4>2. file' \in Seq(Nat) /\ Len(file') >= Len(file) /\ Len(file') \in Nat /\ Len(file) \in Nat
          BY <1>0, <3>1, <4>1, Wrote
        <4>3. next \in 0 .. Len(file')
          BY <2>2, <4>2
        <4> QED
          BY <1>0, <1>11, <2>1, <3>1, <4>2, <4>3 DEF StreamsTypeOK
      <3>2. ASSUME WriteFails
            PROVE  /\ file' \in Seq(Nat) /\ next \in 0 .. Len(file') /\ outArea' \in Seq(Nat)
                   /\ putting' = <<>> /\ writeFailed' \in BOOLEAN /\ (writeFailed' \/ outArea' = <<>>)
        <4>1. PICK k \in 0 .. Len(outArea) - 1 :
                WriteOut(k) /\ outArea' = SubSeq(outArea, k + 1, Len(outArea))
          BY <3>2 DEF WriteFails
        <4>2. k \in 0 .. Len(outArea)
          BY <2>2
        <4>3. /\ file' \in Seq(Nat) /\ Len(file') >= Len(file) /\ Len(file') \in Nat /\ Len(file) \in Nat
              /\ outArea' \in Seq(Nat)
          BY <1>0, <4>1, <4>2, Wrote
        <4>4. next \in 0 .. Len(file')
          BY <2>2, <4>3
        <4> QED
          BY <3>2, <4>3, <4>4 DEF WriteFails
      <3> QED
        BY <1>5, <3>1, <3>2 DEF Close
    <2>4. StreamsTypeOK'
      BY <1>0, <1>11, <2>1, <2>3 DEF StreamsTypeOK
    <2>5. ModeInv'
      BY <2>1, <2>3 DEF ModeInv
    <2> QED
      BY <2>4, <2>5
  <1>6. ASSUME Underflow PROVE StreamsTypeOK' /\ ModeInv'
    <2>1. /\ UNCHANGED <<mode, file, outArea, putting, writeFailed, stored, strings, pos, astray>>
          /\ call # Idle /\ call' = [call EXCEPT !.refilled = @ \/ call.took > 0]
      BY <1>6 DEF Underflow
    <2>2. mode = "in"
      BY <1>0, <2>1 DEF ModeInv
    <2>3. PICK k \in 1 .. Len(file) - next :
            /\ k <= BuffSize /\ area' = Refilled(SubSeq(file, next + 1, next + k))
            /\ g' = BuffSize - k /\ next' = next + k
      BY <1>6 DEF Underflow
    <2>4. Len(file) \in Nat /\ next \in 0 .. Len(file)
      BY <1>0, LenProperties DEF StreamsTypeOK
    <2>5. k \in 1 .. BuffSize /\ k <= Len(file) - next /\ next' \in 0 .. Len(file) /\ g' \in 0 .. BuffSize
      BY <1>0, <2>3, <2>4
    <2>6. area' \in [1 .. BuffSize -> Nat]
      BY <1>0, <2>3, <2>5, Refilling
    <2>7. call' \in CallType
      <3>1. PICK b : b = (call.refilled \/ call.took > 0)
        OBVIOUS
      <3>2. call' = [call EXCEPT !.refilled = b] /\ b \in BOOLEAN /\ call \in CallType
        BY <1>0, <2>1, <3>1 DEF StreamsTypeOK
      <3> QED
        BY ONLY <3>2 DEF CallType
    <2>8. StreamsTypeOK'
      BY <1>0, <2>1, <2>5, <2>6, <2>7 DEF StreamsTypeOK
    <2>9. ModeInv'
      BY <1>0, <2>1, <2>2 DEF ModeInv
    <2> QED
      BY <2>8, <2>9
  <1>7. ASSUME NEW op \in {"expect", "find", "quoted"}, NEW s \in Seq(Nat \ {EOF}), Call(op, s)
        PROVE  StreamsTypeOK' /\ ModeInv'
    <2>1. call' = [Idle EXCEPT !.op = op, !.want = s] /\ mode = "in"
          /\ UNCHANGED <<mode, file, outArea, area, g, next, putting, writeFailed, stored, strings, pos, astray>>
      BY <1>7 DEF Call
    <2>2. call' \in CallType
      BY <2>1, IdleCall DEF CallType
    <2>3. StreamsTypeOK'
      BY <1>0, <2>1, <2>2 DEF StreamsTypeOK
    <2>4. ModeInv'
      BY <1>0, <2>1 DEF ModeInv
    <2> QED
      BY <2>3, <2>4
  <1>8. ASSUME Expect \/ FindWord \/ Quoted, UNCHANGED <<mode, file, outArea, putting, writeFailed, stored>>
        PROVE  StreamsTypeOK' /\ ModeInv'
    <2>1. Forward \/ Back \/ Leave
      BY <1>0, <1>8, Extractions
    <2>2. mode = "in"
      BY <1>8, ExtractorsIn
    <2>3. /\ area' = area /\ next' = next /\ g' \in 0 .. BuffSize /\ pos' \in Int
          /\ call' \in CallType /\ strings' \in Seq(Seq(Nat)) /\ astray' \in {astray, TRUE}
      <3>1. ASSUME Forward
            PROVE  g' \in 0 .. BuffSize /\ pos' \in Int
        BY <1>0, <3>1, Peeks DEF Forward, StreamsTypeOK
      <3>2. ASSUME Back
            PROVE  /\ g' \in 0 .. BuffSize /\ pos' \in Int /\ call' \in CallType
                   /\ UNCHANGED <<area, next, strings>> /\ astray' \in {astray, TRUE}
        <4>1. PICK n \in 0 .. call.took : PutBack(n)
          BY <3>2 DEF Back
        <4>2. n \in Nat /\ g \in 0 .. BuffSize /\ pos \in Int /\ astray \in BOOLEAN
              /\ call.refilled \in BOOLEAN
          BY <1>0, CallFields DEF StreamsTypeOK
        <4>3. g' = (IF g > n THEN g - n ELSE 0) /\ pos' = pos - n /\ call' = Idle
              /\ astray' = (astray \/ call.refilled \/ n < call.took) /\ UNCHANGED <<area, next, strings>>
          BY <4>1 DEF PutBack
        <4>4. g' \in 0 .. BuffSize /\ pos' \in Int
          BY <1>0, <4>2, <4>3
        <4>5. astray' \in {astray, TRUE}
          BY <4>2, <4>3
        <4> QED
          BY <4>3, <4>4, <4>5, IdleCall
      <3>3. ASSUME Leave
            PROVE  /\ g' \in 0 .. BuffSize /\ pos' \in Int /\ call' \in CallType
                   /\ UNCHANGED <<area, next, strings>> /\ astray' \in {astray, TRUE}
        BY <1>0, <3>3, IdleCall DEF Leave, StreamsTypeOK
      <3> QED
        BY <1>0, <2>1, <3>1, <3>2, <3>3 DEF Forward, StreamsTypeOK
    <2>4. StreamsTypeOK'
      BY <1>0, <1>8, <2>3 DEF StreamsTypeOK
    <2>5. ModeInv'
      <3>1. astray => astray'
        BY <2>3
      <3> QED
        BY <1>0, <1>8, <2>2, <3>1 DEF ModeInv
    <2> QED
      BY <2>4, <2>5
  <1>9. ASSUME UNCHANGED streamsVars PROVE StreamsTypeOK' /\ ModeInv'
    <2>1. UNCHANGED <<mode, file, outArea, area, g, next, putting, writeFailed, call, stored,
                      strings, pos, astray>>
      BY <1>9 DEF streamsVars
    <2> QED
      BY <1>0, <2>1 DEF StreamsTypeOK, ModeInv
  <1>10. Searched \subseteq Seq(Nat \ {EOF}) /\ <<>> \in Seq(Nat \ {EOF})
    BY StreamsAssumption, EmptySeq
  <1> QED
    BY <1>1, <1>2, <1>3, <1>4, <1>5, <1>6, <1>7, <1>8, <1>9, <1>10 DEF StreamsNext

(* What is in the area, apart from the variables. *)
Holds(a, f, m, p) == \A i \in 1 .. BuffSize - m : a[m + i] = f[p + i]
HoldsBehind(a, f, m, p, n) == n <= m /\ n <= p /\ \A i \in 0 .. n - 1 : a[m - i] = f[p - i]

LEMMA OneForward ==
  ASSUME NEW a, NEW f, NEW m \in Nat, NEW p \in Nat, BuffSize \in Nat, m < BuffSize, Holds(a, f, m, p)
  PROVE  /\ Holds(a, f, m + 1, p + 1)
         /\ \A n \in Nat : HoldsBehind(a, f, m, p, n) => HoldsBehind(a, f, m + 1, p + 1, n + 1)
  <1>1. ASSUME NEW i \in 1 .. BuffSize - (m + 1) PROVE a[m + 1 + i] = f[p + 1 + i]
    <2>1. PICK j : j = 1 + i
      OBVIOUS
    <2>2. j \in 1 .. BuffSize - m /\ m + 1 + i = m + j /\ p + 1 + i = p + j
      BY <2>1
    <2>3. a[m + j] = f[p + j]
      BY <2>2 DEF Holds
    <2> QED
      BY <2>2, <2>3
  <1>2. ASSUME NEW n \in Nat, HoldsBehind(a, f, m, p, n), NEW i \in 0 .. n
        PROVE  a[m + 1 - i] = f[p + 1 - i]
    <2>1. CASE i = 0
      <3>1. 1 \in 1 .. BuffSize - m /\ m + 1 - 0 = m + 1 /\ p + 1 - 0 = p + 1
        OBVIOUS
      <3> QED
        BY <2>1, <3>1 DEF Holds
    <2>2. CASE i # 0
      <3>1. PICK j : j = i - 1
        OBVIOUS
      <3>2. j \in 0 .. n - 1 /\ m + 1 - i = m - j /\ p + 1 - i = p - j
        BY <2>2, <3>1
      <3>3. a[m - j] = f[p - j]
        BY <1>2, <3>2 DEF HoldsBehind
      <3> QED
        BY <3>2, <3>3
    <2> QED
      BY <2>1, <2>2
  <1>3. Holds(a, f, m + 1, p + 1)
    BY <1>1 DEF Holds
  <1>4. ASSUME NEW n \in Nat, HoldsBehind(a, f, m, p, n) PROVE HoldsBehind(a, f, m + 1, p + 1, n + 1)
    <2>1. n + 1 <= m + 1 /\ n + 1 <= p + 1 /\ n + 1 - 1 = n
      BY <1>4 DEF HoldsBehind
    <2> QED
      BY <1>2, <1>4, <2>1 DEF HoldsBehind
  <1> QED
    BY <1>3, <1>4

LEMMA AllBack ==
  ASSUME NEW a, NEW f, NEW m \in Nat, NEW p \in Nat, BuffSize \in Nat, m <= BuffSize,
         NEW n \in Nat, Holds(a, f, m, p), HoldsBehind(a, f, m, p, n)
  PROVE  m - n \in Nat /\ p - n \in Nat /\ Holds(a, f, m - n, p - n)
  <1>1. n <= m /\ n <= p
    BY DEF HoldsBehind
  <1>2. ASSUME NEW i \in 1 .. BuffSize - (m - n) PROVE a[m - n + i] = f[p - n + i]
    <2>1. CASE i <= n
      <3>1. PICK j : j = n - i
        OBVIOUS
      <3>2. j \in 0 .. n - 1 /\ m - n + i = m - j /\ p - n + i = p - j
        BY <2>1, <3>1
      <3>3. a[m - j] = f[p - j]
        BY <3>2 DEF HoldsBehind
      <3> QED
        BY <3>2, <3>3
    <2>2. CASE ~(i <= n)
      <3>1. PICK j : j = i - n
        OBVIOUS
      <3>2. j \in 1 .. BuffSize - m /\ m - n + i = m + j /\ p - n + i = p + j
        BY <2>2, <3>1
      <3>3. a[m + j] = f[p + j]
        BY <3>2 DEF Holds
      <3> QED
        BY <3>2, <3>3
    <2> QED
      BY <2>1, <2>2
  <1>3. Holds(a, f, m - n, p - n)
    BY <1>2 DEF Holds
  <1> QED
    BY <1>1, <1>3

LEMMA AreaHolds ==
  AreaInv <=> (mode = "in" /\ ~astray =>
                 /\ pos = next - (BuffSize - g) /\ pos >= 0 /\ Holds(area, file, g, pos)
                 /\ call.op = "expect" /\ ~call.refilled => HoldsBehind(area, file, g, pos, call.took))
  BY DEF AreaInv, Holds, HoldsBehind

LEMMA AreaStep ==
  ASSUME StreamsIInv, [StreamsNext]_streamsVars
  PROVE  AreaInv'
  <1> SUFFICES ASSUME mode' = "in", ~astray'
               PROVE  /\ pos' = next' - (BuffSize - g') /\ pos' >= 0 /\ Holds(area', file', g', pos')
                      /\ call'.op = "expect" /\ ~call'.refilled
                           => HoldsBehind(area', file', g', pos', call'.took)
    BY DEF AreaInv, Holds, HoldsBehind
  <1> DEFINE Goal == /\ pos' = next' - (BuffSize - g') /\ pos' >= 0 /\ Holds(area', file', g', pos')
                     /\ call'.op = "expect" /\ ~call'.refilled
                          => HoldsBehind(area', file', g', pos', call'.took)
  <1>0. StreamsTypeOK /\ ModeInv /\ BuffSize \in Nat /\ g \in Nat /\ g <= BuffSize /\ next \in Nat
        /\ Len(file) \in Nat /\ pos \in Int /\ call.took \in Nat
    BY StreamsAssumption, CallFields, LenProperties DEF StreamsIInv, StreamsTypeOK
  <1>1. ASSUME mode = "in", ~astray
        PROVE  /\ pos = next - (BuffSize - g) /\ pos \in Nat /\ Holds(area, file, g, pos)
               /\ call.op = "expect" /\ ~call.refilled => HoldsBehind(area, file, g, pos, call.took)
    BY <1>0, <1>1, AreaHolds DEF StreamsIInv
  <1>2. ~OpenOut /\ (\A s \in Strings : ~Insert(s)) /\ ~Close
    BY DEF OpenOut, Insert, Close
  <1>3. ASSUME PutChar PROVE FALSE
    BY <1>0, <1>3 DEF PutChar, ModeInv
  <1>4. ASSUME OpenIn PROVE Goal
    <2>1. g' = BuffSize /\ next' = 0 /\ pos' = 0 /\ call' = Idle
      BY <1>0, <1>4 DEF OpenIn, ModeInv
    <2>2. Holds(area', file', g', pos')
      BY <1>0, <2>1 DEF Holds
    <2> QED
      BY <1>0, <2>1, <2>2, IdleCall
  <1>5. ASSUME Underflow PROVE Goal
    <2>1. /\ UNCHANGED <<mode, file, pos, astray>> /\ g = BuffSize
          /\ call' = [call EXCEPT !.refilled = @ \/ call.took > 0]
      BY <1>5 DEF Underflow
    <2>2. PICK k \in 1 .. Len(file) - next :
            /\ k <= BuffSize /\ area' = Refilled(SubSeq(file, next + 1, next + k))
            /\ g' = BuffSize - k /\ next' = next + k
      BY <1>5 DEF Underflow
    <2>3. k \in 1 .. BuffSize /\ k <= Len(file) - next /\ k \in Nat
      BY <1>0, <2>2
    <2>4. \A i \in 1 .. k : area'[BuffSize - k + i] = file[next + i]
      BY <1>0, <2>2, <2>3, Refilling
    <2>5. pos = next /\ pos' = next' - (BuffSize - g') /\ pos' >= 0 /\ BuffSize - g' = k
      BY <1>0, <1>1, <2>1, <2>2, <2>3
    <2>6. Holds(area', file', g', pos')
      BY <2>1, <2>2, <2>4, <2>5 DEF Holds
    <2>7. ASSUME call'.op = "expect", ~call'.refilled
          PROVE  HoldsBehind(area', file', g', pos', call'.took)
      <3>1. call'.took = call.took /\ call'.refilled = (call.refilled \/ call.took > 0)
        BY <1>0, <2>1 DEF StreamsTypeOK, CallType
      <3>2. ~(call.took > 0)
        <4>1. (call.refilled \/ call.took > 0) = FALSE
          BY <2>7, <3>1
        <4> QED
          BY <4>1
      <3>4. call'.took = 0
        BY <1>0, <3>1, <3>2
      <3>3. 0 <= g' /\ 0 <= pos' /\ 0 .. 0 - 1 = {}
        BY <1>0, <2>2, <2>3, <2>5
      <3> QED
        BY <3>3, <3>4 DEF HoldsBehind
    <2> QED
      BY <2>5, <2>6, <2>7
  <1>6. ASSUME NEW op, NEW s, Call(op, s) PROVE Goal
    <2>1. /\ call' = [Idle EXCEPT !.op = op, !.want = s] /\ mode = "in" /\ ~astray
          /\ UNCHANGED <<file, area, g, next, pos>>
      BY <1>6 DEF Call
    <2>2. call'.took = 0
      BY <2>1 DEF Idle
    <2>3. 0 <= g /\ 0 <= pos /\ 0 .. 0 - 1 = {}
      BY <1>0, <1>1, <2>1
    <2>4. HoldsBehind(area, file, g, pos, 0)
      BY <2>3 DEF HoldsBehind
    <2>5. Holds(area', file', g', pos') /\ HoldsBehind(area', file', g', pos', call'.took)
      BY <1>1, <2>1, <2>2, <2>4
    <2> QED
      BY <1>1, <2>1, <2>3, <2>5
  <1>7. ASSUME Forward, UNCHANGED <<mode, file>> PROVE Goal
    <2>7. astray' \in {astray, TRUE} /\ mode = "in"
      BY <1>7 DEF Forward
    <2>8. mode = "in" /\ ~astray
      <3>1. astray \in BOOLEAN
        BY <1>0 DEF StreamsTypeOK
      <3>2. CASE astray = TRUE
        BY <2>7, <3>2
      <3>3. CASE astray = FALSE
        BY <2>7, <3>3
      <3> QED
        BY <3>1, <3>2, <3>3
    <2>1. /\ g' = g + 1 /\ pos' = pos + 1 /\ UNCHANGED <<area, next, file>>
          /\ call'.op \in {call.op, "none"}
          /\ (call'.op = "expect" => call'.took = call.took + 1 /\ call'.refilled = call.refilled)
      BY <1>7 DEF Forward
    <2>2. g < BuffSize
      BY <1>0, <1>7, Peeks DEF Forward
    <2>3. Holds(area, file, g + 1, pos + 1)
          /\ \A n \in Nat : HoldsBehind(area, file, g, pos, n) => HoldsBehind(area, file, g + 1, pos + 1, n + 1)
      BY <1>0, <1>1, <2>1, <2>8, <2>2, OneForward
    <2>4. pos' = next' - (BuffSize - g') /\ pos' >= 0
      BY <1>0, <1>1, <2>1, <2>8
    <2>5. Holds(area', file', g', pos')
      BY <2>1, <2>3
    <2>6. ASSUME call'.op = "expect", ~call'.refilled
          PROVE  HoldsBehind(area', file', g', pos', call'.took)
      <3>1. call.op = "expect" /\ ~call.refilled
        BY <2>1, <2>6
      <3> QED
        BY <1>0, <1>1, <2>1, <2>8, <2>3, <2>6, <3>1
    <2> QED
      BY <2>4, <2>5, <2>6
  <1>8. ASSUME Back, UNCHANGED <<mode, file>> PROVE Goal
    <2>1. PICK n \in 0 .. call.took : PutBack(n) /\ (n = call.took => call.op = "expect")
      BY <1>8 DEF Back
    <2>2. /\ g' = (IF g > n THEN g - n ELSE 0) /\ pos' = pos - n /\ call' = Idle
          /\ astray' = (astray \/ call.refilled \/ n < call.took) /\ UNCHANGED <<area, next, file>>
          /\ mode = "in"
      BY <1>8, <2>1 DEF PutBack
    <2>3. ~astray /\ ~call.refilled /\ ~(n < call.took)
      BY <2>2
    <2>4. n = call.took /\ call.op = "expect"
      BY <1>0, <2>1, <2>3
    <2>5. Holds(area, file, g, pos) /\ HoldsBehind(area, file, g, pos, n) /\ pos \in Nat
          /\ pos = next - (BuffSize - g)
      BY <1>1, <2>2, <2>3, <2>4
    <2>6. n \in Nat
      BY <1>0, <2>4
    <2>7. g - n \in Nat /\ pos - n \in Nat /\ Holds(area, file, g - n, pos - n)
      BY <1>0, <2>5, <2>6, AllBack
    <2>8. g' = g - n
      BY <1>0, <2>2, <2>6, <2>7
    <2>9. pos' = next' - (BuffSize - g') /\ pos' >= 0
      BY <1>0, <2>2, <2>5, <2>6, <2>7, <2>8
    <2> QED
      BY <2>2, <2>7, <2>8, <2>9, IdleCall
  <1>9. ASSUME Leave PROVE Goal
    BY <1>9 DEF Leave
  <1>10. ASSUME Expect \/ FindWord \/ Quoted, UNCHANGED <<mode, file, outArea, putting, writeFailed, stored>>
         PROVE  Goal
    <2>1. Forward \/ Back \/ Leave
      BY <1>0, <1>10, Extractions
    <2> QED
      BY <1>7, <1>8, <1>9, <1>10, <2>1
  <1>11. ASSUME UNCHANGED streamsVars PROVE Goal
    <2>1. UNCHANGED <<mode, file, area, g, next, call, pos, astray>>
      BY <1>11 DEF streamsVars
    <2>2. /\ pos = next - (BuffSize - g) /\ pos \in Nat /\ Holds(area, file, g, pos)
          /\ call.op = "expect" /\ ~call.refilled => HoldsBehind(area, file, g, pos, call.took)
      BY <1>1, <2>1
    <2> QED
      BY <2>1, <2>2
  <1> HIDE DEF Goal
  <1>12. Goal
    BY <1>2, <1>3, <1>4, <1>5, <1>6, <1>10, <1>11 DEF StreamsNext
  <1> QED
    BY <1>12 DEF Goal

(* What can still be read is what follows the position. *)
LEMMA NothingLost ==
  ASSUME StreamsIInv, mode = "in", ~astray
  PROVE  SubSeq(area, g + 1, BuffSize) \o SubSeq(file, next + 1, Len(file))
           = SubSeq(file, pos + 1, Len(file))
  <1>1. BuffSize \in Nat /\ g \in 0 .. BuffSize /\ next \in 0 .. Len(file) /\ Len(file) \in Nat
        /\ area \in [1 .. BuffSize -> Nat] /\ file \in Seq(Nat)
    BY StreamsAssumption, LenProperties DEF StreamsIInv, StreamsTypeOK
  <1>2. pos = next - (BuffSize - g) /\ pos >= 0 /\ \A i \in 1 .. BuffSize - g : area[g + i] = file[pos + i]
    BY DEF StreamsIInv, AreaInv
  <1>3. area \in Seq(Nat) /\ Len(area) = BuffSize
    BY <1>1, FunctionIsSeq
  <1>4. PICK u, v, w, n, k, L : /\ u = SubSeq(area, g + 1, BuffSize) /\ v = SubSeq(file, next + 1, Len(file))
                                /\ w = SubSeq(file, pos + 1, Len(file)) /\ n = BuffSize - g
                                /\ k = Len(file) - next /\ L = Len(file)
    OBVIOUS
  <1>5. n \in Nat /\ k \in Nat /\ L \in Nat /\ L - pos = n + k /\ next = pos + n /\ pos \in Nat
    BY <1>1, <1>2, <1>4
  <1>6. u \in Seq(Nat) /\ Len(u) = n /\ \A i \in 1 .. n : u[i] = area[g + i]
    <2>1. PICK m : m = g + 1
      OBVIOUS
    <2>2. m \in 1 .. Len(area) + 1 /\ BuffSize \in m - 1 .. Len(area) /\ BuffSize - m + 1 = n
          /\ \A i \in 1 .. n : m + i - 1 = g + i
      BY <1>1, <1>3, <1>4, <2>1
    <2>3. /\ u \in Seq(Nat) /\ Len(u) = BuffSize - m + 1
          /\ \A i \in 1 .. BuffSize - m + 1 : u[i] = area[m + i - 1]
      <3>1. area \in Seq(Nat) /\ m \in 1 .. Len(area) + 1 /\ BuffSize \in m - 1 .. Len(area)
            /\ u = SubSeq(area, m, BuffSize)
        BY ONLY <1>3, <1>4, <2>1, <2>2
      <3> QED
        BY ONLY <3>1, Piece
    <2> QED
      BY ONLY <2>2, <2>3
  <1>7. v \in Seq(Nat) /\ Len(v) = k /\ \A i \in 1 .. k : v[i] = file[next + i]
    <2>1. PICK m : m = next + 1
      OBVIOUS
    <2>2. m \in 1 .. L + 1 /\ L \in m - 1 .. L /\ L - m + 1 = k
          /\ \A i \in 1 .. k : m + i - 1 = next + i
      BY <1>1, <1>4, <1>5, <2>1
    <2>3. /\ v \in Seq(Nat) /\ Len(v) = L - m + 1
          /\ \A i \in 1 .. L - m + 1 : v[i] = file[m + i - 1]
      <3>1. file \in Seq(Nat) /\ m \in 1 .. Len(file) + 1 /\ L \in m - 1 .. Len(file)
            /\ v = SubSeq(file, m, L)
        BY ONLY <1>1, <1>4, <2>1, <2>2
      <3> QED
        BY ONLY <3>1, Piece
    <2> QED
      BY ONLY <2>2, <2>3
  <1>8. w \in Seq(Nat) /\ Len(w) = n + k /\ \A i \in 1 .. n + k : w[i] = file[pos + i]
    <2>1. PICK m : m = pos + 1
      OBVIOUS
    <2>2. m \in 1 .. L + 1 /\ L \in m - 1 .. L /\ L - m + 1 = n + k
          /\ \A i \in 1 .. n + k : m + i - 1 = pos + i
      BY <1>1, <1>4, <1>5, <2>1
    <2>3. /\ w \in Seq(Nat) /\ Len(w) = L - m + 1
          /\ \A i \in 1 .. L - m + 1 : w[i] = file[m + i - 1]
      <3>1. file \in Seq(Nat) /\ m \in 1 .. Len(file) + 1 /\ L \in m - 1 .. Len(file)
            /\ w = SubSeq(file, m, L)
        BY ONLY <1>1, <1>4, <2>1, <2>2
      <3> QED
        BY ONLY <3>1, Piece
    <2> QED
      BY ONLY <2>2, <2>3
  <1>9. /\ u \o v \in Seq(Nat) /\ Len(u \o v) = n + k
        /\ \A i \in 1 .. n + k : (u \o v)[i] = IF i <= n THEN u[i] ELSE v[i - n]
    <2>1. /\ u \o v \in Seq(Nat) /\ Len(u \o v) = Len(u) + Len(v)
          /\ \A i \in 1 .. Len(u) + Len(v) : (u \o v)[i] = IF i <= Len(u) THEN u[i] ELSE v[i - Len(u)]
      BY ONLY <1>6, <1>7, ConcatProperties
    <2> QED
      BY ONLY <1>6, <1>7, <2>1
  <1>10. ASSUME NEW i \in 1 .. n + k PROVE (u \o v)[i] = w[i]
    <2>1. CASE i <= n
      <3>1. i \in 1 .. n
        BY <1>5, <2>1
      <3>2. (u \o v)[i] = u[i] /\ u[i] = area[g + i]
        BY <1>6, <1>9, <2>1, <3>1
      <3>3. area[g + i] = file[pos + i]
        BY <1>2, <1>4, <3>1
      <3>4. w[i] = file[pos + i]
        BY <1>8
      <3> QED
        BY <3>2, <3>3, <3>4
    <2>2. CASE ~(i <= n)
      <3>1. PICK j : j = i - n
        OBVIOUS
      <3>2. j \in 1 .. k /\ next + j = pos + i
        BY <1>5, <2>2, <3>1
      <3>3. v[j] = file[pos + i]
        BY <1>7, <3>2
      <3> QED
        BY <1>8, <1>9, <2>2, <3>1, <3>3
    <2> QED
      BY <2>1, <2>2
  <1>11. u \o v = w
    BY ONLY <1>8, <1>9, <1>10, SeqEqual
  <1> QED
    BY <1>4, <1>11

LEMMA HeadAndTail ==
  ASSUME NEW s \in Seq(Nat), s # <<>>
  PROVE  /\ <<Head(s)>> \in Seq(Nat) /\ Tail(s) \in Seq(Nat) /\ Head(s) \in Nat
         /\ s = <<Head(s)>> \o Tail(s)
  <1>1. /\ Head(s) \in Nat /\ Tail(s) \in Seq(Nat) /\ Len(Tail(s)) = Len(s) - 1
        /\ \A i \in 1 .. Len(Tail(s)) : Tail(s)[i] = s[i + 1]
    BY HeadTailProperties
  <1>2. PICK h, t : h = <<Head(s)>> /\ t = Tail(s)
    OBVIOUS
  <1>3. h \in Seq(Nat) /\ Len(h) = 1 /\ h[1] = s[1]
    BY <1>1, <1>2
  <1>4. t \in Seq(Nat) /\ Len(t) = Len(s) - 1 /\ \A i \in 1 .. Len(s) - 1 : t[i] = s[i + 1]
    BY <1>1, <1>2
  <1>5. Len(s) \in Nat /\ Len(s) >= 1
    BY EmptySeq, LenProperties
  <1>6. /\ h \o t \in Seq(Nat) /\ Len(h \o t) = Len(h) + Len(t)
        /\ \A i \in 1 .. Len(h) + Len(t) : (h \o t)[i] = IF i <= Len(h) THEN h[i] ELSE t[i - Len(h)]
    <2>1. h \in Seq(Nat) /\ t \in Seq(Nat)
      BY <1>3, <1>4
    <2> QED
      BY ONLY <2>1, ConcatProperties
  <1>7. ASSUME NEW i \in 1 .. Len(s) PROVE (h \o t)[i] = s[i]
    <2>1. (h \o t)[i] = IF i <= 1 THEN h[i] ELSE t[i - 1]
      <3>1. i \in 1 .. Len(h) + Len(t)
        BY <1>3, <1>4, <1>5
      <3>2. (h \o t)[i] = IF i <= Len(h) THEN h[i] ELSE t[i - Len(h)]
        BY ONLY <1>6, <3>1
      <3> QED
        BY ONLY <1>3, <3>2
    <2>2. CASE i = 1
      BY <1>3, <2>1, <2>2
    <2>3. CASE i # 1
      <3>1. PICK j : j = i - 1
        OBVIOUS
      <3>2. j \in 1 .. Len(s) - 1 /\ j + 1 = i /\ ~(i <= 1)
        BY <1>5, <2>3, <3>1
      <3>3. t[j] = s[i]
        BY <1>4, <3>2
      <3> QED
        BY <2>1, <3>1, <3>2, <3>3
    <2> QED
      BY <2>2, <2>3
  <1>8. Len(h \o t) = Len(s)
    BY <1>3, <1>4, <1>5, <1>6
  <1>9. h \o t = s
    BY ONLY <1>6, <1>7, <1>8, s \in Seq(Nat), SeqEqual
  <1> QED
    BY <1>1, <1>2, <1>3, <1>9

(* What was inserted: in the file, in the area, and still to put. *)
Text == (file \o outArea) \o putting
Encodings == [i \in DOMAIN stored |-> QuotedText(stored[i])]

(* Every symbol of every string is in it, in order, unless a write failed. *)
AllWritten == ~writeFailed => \E at : LaidOut(Text, Encodings, at)

LEMMA StoredEncodings ==
  ASSUME StreamsTypeOK
  PROVE  /\ Encodings \in Seq(Seq(Nat)) /\ Len(Encodings) = Len(stored) /\ Len(stored) \in Nat
         /\ \A i \in 1 .. Len(stored) : stored[i] \in Seq(Nat) /\ Encodings[i] = QuotedText(stored[i])
         /\ {file, outArea, putting, Text} \subseteq Seq(Nat)
  <1>1. stored \in Seq(Seq(Nat)) /\ DOMAIN stored = 1 .. Len(stored) /\ Len(stored) \in Nat
    BY LenProperties DEF StreamsTypeOK
  <1>2. \A i \in 1 .. Len(stored) : stored[i] \in Seq(Nat) /\ QuotedText(stored[i]) \in Seq(Nat)
    BY <1>1, QuotedEscapes, ElementOfSeq
  <1>3. Encodings \in [1 .. Len(stored) -> Seq(Nat)]
    BY <1>1, <1>2 DEF Encodings
  <1>4. Encodings \in Seq(Seq(Nat)) /\ Len(Encodings) = Len(stored)
    BY <1>1, <1>3, FunctionIsSeq
  <1>5. {file, outArea, putting, Text} \subseteq Seq(Nat)
    BY Regrouped DEF StreamsTypeOK, Text
  <1> QED
    BY <1>1, <1>2, <1>4, <1>5 DEF Encodings

LEMMA StringsAreSeqs == Strings \subseteq Seq(Nat)
  <1> SUFFICES ASSUME NEW s \in Strings PROVE s \in Seq(Nat)
    OBVIOUS
  <1>1. s \in Seq(Nat \ {EOF})
    BY StreamsAssumption
  <1>2. Len(s) \in Nat /\ s \in [1 .. Len(s) -> Nat]
    BY <1>1, LenProperties
  <1> QED
    BY <1>2, FunctionIsSeq

LEMMA AllWrittenBegins == StreamsInit => AllWritten
  <1> SUFFICES ASSUME StreamsInit PROVE \E at : LaidOut(Text, Encodings, at)
    BY DEF AllWritten
  <1>1. <<>> \in Seq(Nat) /\ Len(<<>>) = 0 /\ <<>> \o <<>> = <<>>
    BY EmptySeq, ConcatEmptySeq
  <1>2. Text = <<>> /\ Encodings = <<>>
    BY <1>1 DEF StreamsInit, Text, Encodings
  <1> DEFINE at == [i \in 1 .. 1 |-> 0]
  <1>3. LaidOut(<<>>, <<>>, at)
    BY <1>1 DEF LaidOut
  <1> QED
    BY <1>2, <1>3

LEMMA AllWrittenStep ==
  ASSUME StreamsIInv, StreamsTypeOK', AllWritten, [StreamsNext]_streamsVars
  PROVE  AllWritten'
  <1> SUFFICES ASSUME ~writeFailed' PROVE \E at : LaidOut(Text', Encodings', at)
    BY DEF AllWritten
  <1>0. StreamsTypeOK /\ ModeInv /\ BuffSize \in Nat
    BY StreamsAssumption DEF StreamsIInv
  <1>1. /\ file \in Seq(Nat) /\ outArea \in Seq(Nat) /\ putting \in Seq(Nat) /\ <<>> \in Seq(Nat)
        /\ Len(outArea) \in Nat /\ Text \in Seq(Nat)
    BY <1>0, EmptySeq, LenProperties, StoredEncodings
  <1>2. ASSUME Text' = Text, stored' = stored, ~writeFailed PROVE \E at : LaidOut(Text', Encodings', at)
    BY <1>2 DEF AllWritten, Encodings
  <1>3. ASSUME UNCHANGED <<file, outArea, putting, stored, writeFailed>>
        PROVE  \E at : LaidOut(Text', Encodings', at)
    BY <1>2, <1>3 DEF Text
  <1>4. ASSUME WriteFails PROVE FALSE
    BY <1>4 DEF WriteFails
  <1>5. CASE OpenOut
    BY <1>0, <1>3, <1>5 DEF OpenOut, ModeInv
  <1>6. CASE OpenIn
    BY <1>0, <1>3, <1>6 DEF OpenIn, ModeInv
  <1>7. ASSUME NEW s \in Strings, Insert(s) PROVE \E at : LaidOut(Text', Encodings', at)
    <2>1. PICK e : e = QuotedText(s)
      OBVIOUS
    <2>2. /\ putting = <<>> /\ putting' = e /\ stored' = Append(stored, s)
          /\ UNCHANGED <<file, outArea, writeFailed>>
      BY <1>7, <2>1 DEF Insert
    <2>3. PICK at : LaidOut(Text, Encodings, at)
      BY <2>2 DEF AllWritten
    <2>4. stored \in Seq(Seq(Nat)) /\ s \in Seq(Nat)
      BY <1>0, <1>7, StringsAreSeqs DEF StreamsTypeOK
    <2>5. /\ stored' \in Seq(Seq(Nat)) /\ Len(stored') = Len(stored) + 1
          /\ stored'[Len(stored) + 1] = s /\ \A i \in 1 .. Len(stored) : stored'[i] = stored[i]
      BY <2>2, <2>4, AppendProperties
    <2>6. /\ Encodings \in Seq(Seq(Nat)) /\ Len(Encodings) = Len(stored) /\ Len(stored) \in Nat
          /\ \A i \in 1 .. Len(stored) : Encodings[i] = QuotedText(stored[i])
      BY <1>0, StoredEncodings
    <2>7. e \in Seq(Nat)
      BY <2>1, <2>4, QuotedEscapes
    <2>8. /\ Append(Encodings, e) \in Seq(Seq(Nat)) /\ Len(Append(Encodings, e)) = Len(stored) + 1
          /\ Append(Encodings, e)[Len(stored) + 1] = e
          /\ \A i \in 1 .. Len(stored) : Append(Encodings, e)[i] = Encodings[i]
      BY ONLY <2>6, <2>7, AppendProperties
    <2>9. ASSUME NEW i \in 1 .. Len(stored) + 1
          PROVE  QuotedText(stored'[i]) = Append(Encodings, e)[i]
      <3>1. i \in 1 .. Len(stored) \/ i = Len(stored) + 1
        BY <2>6
      <3> QED
        BY <2>1, <2>5, <2>6, <2>8, <3>1
    <2>10. Encodings' = [i \in 1 .. Len(stored) + 1 |-> QuotedText(stored'[i])]
      BY <2>5 DEF Encodings
    <2>11. Append(Encodings, e) = [i \in 1 .. Len(stored) + 1 |-> Append(Encodings, e)[i]]
      <3>1. PICK z : z = Append(Encodings, e)
        OBVIOUS
      <3>2. z \in Seq(Seq(Nat)) /\ Len(z) = Len(stored) + 1
        BY <2>8, <3>1
      <3>3. z = [i \in 1 .. Len(stored) + 1 |-> z[i]]
        BY ONLY <3>2
      <3> QED
        BY <3>1, <3>3
    <2>12. Encodings' = Append(Encodings, e)
      BY <2>9, <2>10, <2>11
    <2>13. Text' = Text \o e
      <3>1. file \o outArea \in Seq(Nat)
        BY <1>1, Regrouped
      <3>2. (file \o outArea) \o <<>> = file \o outArea
        BY <3>1, ConcatEmptySeq
      <3> QED
        BY <2>2, <3>2 DEF Text
    <2> QED
      BY <1>1, <2>3, <2>6, <2>7, <2>12, <2>13, LaidOutMore
  <1>8. CASE PutChar
    <2>1. putting # <<>> /\ stored' = stored
      BY <1>8 DEF PutChar
    <2>2. PICK h, t : h = Head(putting) /\ t = Tail(putting)
      OBVIOUS
    <2>3. <<h>> \in Seq(Nat) /\ t \in Seq(Nat) /\ h \in Nat /\ putting = <<h>> \o t
      BY <1>1, <2>1, <2>2, HeadAndTail
    <2>4. ((file \o outArea) \o <<h>>) \o t = Text
      <3>1. file \o outArea \in Seq(Nat)
        BY <1>1, Regrouped
      <3> QED
        BY <2>3, <3>1, Regrouped DEF Text
    <2>5. ASSUME outArea' = Append(outArea, h), putting' = t, UNCHANGED <<file, writeFailed>>
          PROVE  Text' = Text
      <3>1. outArea' = outArea \o <<h>>
        BY <1>1, <2>3, <2>5, AppendIsConcat
      <3>2. file \o (outArea \o <<h>>) = (file \o outArea) \o <<h>>
        BY <1>1, <2>3, Regrouped
      <3>3. Text' = (file \o (outArea \o <<h>>)) \o t
        BY <2>5, <3>1 DEF Text
      <3> QED
        BY <2>4, <3>2, <3>3
    <2>6. ASSUME Len(outArea) = BuffSize, WriteOut(BuffSize), outArea' = <<h>>, putting' = t
          PROVE  Text' = Text
      <3>1. BuffSize \in 0 .. Len(outArea)
        BY <1>0, <2>6
      <3>2. file' = file \o outArea
        BY <1>0, <2>6, <3>1, Wrote
      <3>3. Text' = ((file \o outArea) \o <<h>>) \o t
        BY <2>6, <3>2 DEF Text
      <3> QED
        BY <2>4, <3>3
    <2> QED
      BY <1>2, <1>4, <1>8, <2>1, <2>2, <2>5, <2>6 DEF PutChar
  <1>9. CASE Close
    <2>1. putting = <<>> /\ stored' = stored
      BY <1>9 DEF Close
    <2>2. WriteOut(Len(outArea)) /\ outArea' = <<>> /\ UNCHANGED <<putting, writeFailed>>
      BY <1>4, <1>9 DEF Close
    <2>3. Len(outArea) \in 0 .. Len(outArea)
      BY <1>1
    <2>4. file' = file \o outArea
      BY <1>0, <2>2, <2>3, Wrote
    <2>5. file \o outArea \in Seq(Nat)
      BY <1>1, Regrouped
    <2>6. (file \o outArea) \o <<>> = file \o outArea
      BY <2>5, ConcatEmptySeq
    <2>7. Text' = Text
      BY <2>1, <2>2, <2>4, <2>6 DEF Text
    <2> QED
      BY <1>2, <2>1, <2>2, <2>7
  <1>10. CASE Underflow
    BY <1>3, <1>10 DEF Underflow
  <1>11. ASSUME NEW op, NEW s, Call(op, s) PROVE \E at : LaidOut(Text', Encodings', at)
    BY <1>3, <1>11 DEF Call
  <1>12. CASE UNCHANGED <<mode, file, outArea, putting, writeFailed, stored>>
    BY <1>3, <1>12
  <1>13. CASE UNCHANGED streamsVars
    BY <1>3, <1>13 DEF streamsVars
  <1> QED
    BY <1>5, <1>6, <1>7, <1>8, <1>9, <1>10, <1>11, <1>12, <1>13 DEF StreamsNext

(* Where a stream that is not astray stands: the strings extracted are the    *)
(* first ones, and the position is behind them and behind what the extractor  *)
(* that runs has taken of the next one.                                       *)
Within(p, s, E) ==
  \A ea : Escapes(s, E, ea) =>
    LET k == Len(call.text)
    IN  /\ k <= Len(s) /\ \A i \in 1 .. k : call.text[i] = s[i]
        /\ call.want = <<>> => pos = p + ea[k + 1]
        /\ call.want # <<>> =>
             /\ call.want = <<Backslash>> /\ k < Len(s) /\ s[k + 1] \in {Quote, Backslash}
             /\ pos = p + ea[k + 1] + 1

ReadTo(at) ==
  LET n == Len(strings)
  IN  /\ n <= Len(stored) /\ \A i \in 1 .. n : strings[i] = stored[i]
      /\ call.op = "none" => pos = at[n + 1]
      /\ call.op = "expect" => pos - call.took = at[n + 1]
      /\ call.op = "quoted" =>
           \/ call.took = 0 /\ pos = at[n + 1] /\ call.text = <<>> /\ call.want = <<>>
           \/ call.took = 1 /\ n < Len(stored) /\ Within(at[n + 1], stored[n + 1], QuotedText(stored[n + 1]))

ReadInv == mode = "in" /\ ~astray => \A at : LaidOut(file, Encodings, at) => ReadTo(at)

(* What an extractor sees is the next symbol of the file. *)
LEMMA NextSymbol ==
  ASSUME StreamsIInv, mode = "in", ~astray, Peeked # EOF
  PROVE  pos \in Nat /\ pos < Len(file) /\ file[pos + 1] = Peeked
  <1>1. BuffSize \in Nat /\ g \in Nat /\ g < BuffSize /\ Peeked = area[g + 1] /\ next \in 0 .. Len(file)
        /\ pos \in Int /\ Len(file) \in Nat
    BY Peeks, LenProperties DEF StreamsIInv, StreamsTypeOK
  <1>2. pos = next - (BuffSize - g) /\ pos >= 0 /\ \A i \in 1 .. (BuffSize - g) : area[g + i] = file[pos + i]
    BY DEF StreamsIInv, AreaInv
  <1>3. 1 \in 1 .. BuffSize - g
    BY <1>1
  <1>4. area[g + 1] = file[pos + 1]
    BY <1>2, <1>3
  <1> QED
    BY <1>1, <1>2, <1>4

(* The symbols of the string that begins at p. *)
LEMMA SymbolsAt ==
  ASSUME StreamsTypeOK, NEW at, LaidOut(file, Encodings, at), NEW n \in 0 .. Len(stored) - 1
  PROVE  /\ stored[n + 1] \in Seq(Nat) /\ QuotedText(stored[n + 1]) \in Seq(Nat)
         /\ at[n + 1] \in Nat /\ at[n + 2] = at[n + 1] + Len(QuotedText(stored[n + 1]))
         /\ \A j \in 1 .. Len(QuotedText(stored[n + 1])) :
              file[at[n + 1] + j] = QuotedText(stored[n + 1])[j]
  <1>1. /\ Len(Encodings) = Len(stored) /\ Len(stored) \in Nat
        /\ \A i \in 1 .. Len(stored) : stored[i] \in Seq(Nat) /\ Encodings[i] = QuotedText(stored[i])
    BY StoredEncodings
  <1>2. PICK m : m = n + 1
    OBVIOUS
  <1>3. m \in 1 .. Len(stored) /\ m \in 1 .. Len(stored) + 1 /\ m + 1 = n + 2
    BY <1>1, <1>2
  <1>4. /\ at \in [1 .. Len(stored) + 1 -> Nat]
        /\ \A i \in 1 .. Len(stored) :
             /\ at[i + 1] = at[i] + Len(Encodings[i])
             /\ \A j \in 1 .. Len(Encodings[i]) : file[at[i] + j] = Encodings[i][j]
    BY <1>1 DEF LaidOut
  <1>5. at[m] \in Nat
    BY <1>3, <1>4
  <1>6. stored[m] \in Seq(Nat) /\ Encodings[m] = QuotedText(stored[m])
    BY <1>1, <1>3
  <1>7. QuotedText(stored[m]) \in Seq(Nat)
    BY <1>6, QuotedEscapes
  <1>8. at[m + 1] = at[m] + Len(Encodings[m])
        /\ \A j \in 1 .. Len(Encodings[m]) : file[at[m] + j] = Encodings[m][j]
    BY <1>3, <1>4
  <1> QED
    BY <1>2, <1>3, <1>5, <1>6, <1>7, <1>8

(* What follows the first k characters of a string, at a of its encoding, *)
(* where b is the place after one character more.                          *)
SymbolFollows(s, E, k, a, b) ==
  /\ a \in Nat /\ a + 1 \in 1 .. Len(E)
  /\ k = Len(s) => E[a + 1] = Quote /\ a + 1 = Len(E)
  /\ (k < Len(s) /\ s[k + 1] \in {Quote, Backslash}) =>
       b = a + 2 /\ a + 2 \in 1 .. Len(E) /\ E[a + 1] = Backslash /\ E[a + 2] = s[k + 1]
  /\ (k < Len(s) /\ s[k + 1] \notin {Quote, Backslash}) => b = a + 1 /\ E[a + 1] = s[k + 1]

LEMMA SymbolAfter ==
  ASSUME NEW s \in Seq(Nat), NEW E \in Seq(Nat), NEW ea, Escapes(s, E, ea), NEW k \in 0 .. Len(s)
  PROVE  SymbolFollows(s, E, k, ea[k + 1], ea[k + 2])
  <1> DEFINE a == ea[k + 1]
             b == ea[k + 2]
  <1>1. PICK n, m : n = Len(s) /\ m = k + 1
    OBVIOUS
  <1>2. n \in Nat /\ k \in Nat /\ Len(E) \in Nat /\ m \in 1 .. n + 1 /\ (k < n => m \in 1 .. n /\ m + 1 \in 1 .. n + 1)
        /\ m + 1 = k + 2
    BY <1>1, LenProperties
  <1>3. /\ ea \in [1 .. n + 1 -> Nat] /\ Len(E) = ea[n + 1] + 1 /\ E[Len(E)] = Quote
        /\ \A i \in 1 .. n + 1 : ea[i] < Len(E)
        /\ \A i \in 1 .. n :
             IF s[i] \in {Quote, Backslash}
               THEN ea[i + 1] = ea[i] + 2 /\ E[ea[i] + 1] = Backslash /\ E[ea[i] + 2] = s[i]
               ELSE ea[i + 1] = ea[i] + 1 /\ E[ea[i] + 1] = s[i]
    BY <1>1 DEF Escapes
  <1>4. PICK L : L = Len(E)
    OBVIOUS
  <1>5. L \in Nat /\ ea[m] \in Nat /\ ea[m] < L
    BY <1>2, <1>3, <1>4
  <1>6. ea[m] + 1 \in 1 .. L
    BY ONLY <1>5
  <1>7. ASSUME k = n PROVE E[ea[m] + 1] = Quote /\ ea[m] + 1 = L
    BY <1>1, <1>3, <1>4, <1>7
  <1>8. ASSUME k < n, s[m] \in {Quote, Backslash}
        PROVE  /\ ea[m + 1] = ea[m] + 2 /\ ea[m] + 2 \in 1 .. L
               /\ E[ea[m] + 1] = Backslash /\ E[ea[m] + 2] = s[m]
    <2>1. ea[m + 1] = ea[m] + 2 /\ E[ea[m] + 1] = Backslash /\ E[ea[m] + 2] = s[m]
      BY <1>2, <1>3, <1>8
    <2>2. ea[m + 1] < L
      BY <1>2, <1>3, <1>4, <1>8
    <2>3. ea[m] + 2 \in 1 .. L
      <3>1. PICK i, j : i = ea[m] /\ j = ea[m + 1]
        OBVIOUS
      <3>2. i \in Nat /\ L \in Nat /\ j = i + 2 /\ j < L
        BY ONLY <1>5, <2>1, <2>2, <3>1
      <3>3. i + 2 \in 1 .. L
        BY ONLY <3>2
      <3> QED
        BY <3>1, <3>3
    <2> QED
      BY <2>1, <2>3
  <1>9. ASSUME k < n, s[m] \notin {Quote, Backslash}
        PROVE  ea[m + 1] = ea[m] + 1 /\ E[ea[m] + 1] = s[m]
    BY <1>2, <1>3, <1>9
  <1>10. k + 1 = m /\ a = ea[m] /\ b = ea[m + 1]
    BY <1>1, <1>2
  <1>11. a \in Nat /\ a + 1 \in 1 .. Len(E)
    BY <1>4, <1>5, <1>6, <1>10
  <1>12. ASSUME k = Len(s) PROVE E[a + 1] = Quote /\ a + 1 = Len(E)
    BY <1>1, <1>4, <1>7, <1>10, <1>12
  <1>13. ASSUME k < Len(s), s[k + 1] \in {Quote, Backslash}
         PROVE  b = a + 2 /\ a + 2 \in 1 .. Len(E) /\ E[a + 1] = Backslash /\ E[a + 2] = s[k + 1]
    BY <1>1, <1>4, <1>8, <1>10, <1>13
  <1>14. ASSUME k < Len(s), s[k + 1] \notin {Quote, Backslash}
         PROVE  b = a + 1 /\ E[a + 1] = s[k + 1]
    BY <1>1, <1>9, <1>10, <1>14
  <1> QED
    BY <1>11, <1>12, <1>13, <1>14 DEF SymbolFollows

(* The extractor of a quoted string, inside one. *)
LEMMA InsideStep ==
  ASSUME StreamsIInv, mode = "in", ~astray, Peeked # EOF, stored' = stored, strings' = strings,
         NEW at, LaidOut(file, Encodings, at), ReadTo(at),
         call.op = "quoted", call.took = 1, pos' = pos + 1, call'.op = "quoted", call'.took = 1,
         \/ call.want = <<>> /\ Peeked = Backslash /\ call'.want = <<Backslash>> /\ call'.text = call.text
         \/ /\ call.want = <<>> /\ Peeked \notin {Quote, Backslash}
            /\ call'.want = <<>> /\ call'.text = Append(call.text, Peeked)
         \/ /\ call.want # <<>> /\ call'.want = <<>>
            /\ call'.text = (call.text \o (IF Peeked \in {Quote, Backslash} THEN <<>> ELSE call.want))
                              \o <<Peeked>>
  PROVE  ReadTo(at)'
  <1>0. StreamsTypeOK /\ call \in CallType
    BY DEF StreamsIInv, StreamsTypeOK
  <1>1. PICK n, s, E, p : /\ n = Len(strings) /\ s = stored[n + 1] /\ E = QuotedText(stored[n + 1])
                          /\ p = at[n + 1]
    OBVIOUS
  <1>2. n \in Nat /\ Len(stored) \in Nat /\ n < Len(stored) /\ Within(p, s, E)
    BY <1>0, <1>1, LenProperties DEF ReadTo, StreamsTypeOK
  <1>3. n \in 0 .. Len(stored) - 1
    BY <1>2
  <1>4. /\ s \in Seq(Nat) /\ E \in Seq(Nat) /\ p \in Nat
        /\ \A j \in 1 .. Len(E) : file[p + j] = E[j]
    BY <1>0, <1>1, <1>3, SymbolsAt
  <1>5. pos \in Nat /\ file[pos + 1] = Peeked /\ Peeked \in Nat
    BY <1>0, NextSymbol, Peeks
  <1>6. call.text \in Seq(Nat) /\ call.want \in Seq(Nat \ {EOF})
    BY <1>0, CallFields
  <1> SUFFICES Within(p, s, E)'
    <2>1. n' = n
      OBVIOUS
    <2> QED
      BY <1>1, <1>2 DEF ReadTo
  <1> SUFFICES ASSUME NEW ea, Escapes(s, E, ea)
               PROVE  /\ Len(call'.text) <= Len(s)
                      /\ \A i \in 1 .. Len(call'.text) : call'.text[i] = s[i]
                      /\ call'.want = <<>> => pos' = p + ea[Len(call'.text) + 1]
                      /\ call'.want # <<>> =>
                           /\ call'.want = <<Backslash>> /\ Len(call'.text) < Len(s)
                           /\ s[Len(call'.text) + 1] \in {Quote, Backslash}
                           /\ pos' = p + ea[Len(call'.text) + 1] + 1
    BY DEF Within
  <1>7. PICK k, t, q, a, b : /\ k = Len(call.text) /\ t = call.text /\ q = pos /\ a = ea[k + 1]
                             /\ b = ea[k + 2]
    OBVIOUS
  <1>8. /\ k <= Len(s) /\ \A i \in 1 .. k : t[i] = s[i]
        /\ (call.want = <<>> => q = p + a)
        /\ (call.want # <<>> =>
              call.want = <<Backslash>> /\ k < Len(s) /\ s[k + 1] \in {Quote, Backslash} /\ q = p + a + 1)
    BY <1>2, <1>7 DEF Within
  <1>9. k \in 0 .. Len(s) /\ k \in Nat /\ Len(s) \in Nat /\ t \in Seq(Nat) /\ Len(t) = k
    BY <1>4, <1>6, <1>7, <1>8, LenProperties
  <1>10. /\ a \in Nat /\ a + 1 \in 1 .. Len(E)
         /\ (k = Len(s) => E[a + 1] = Quote)
         /\ (k < Len(s) /\ s[k + 1] \in {Quote, Backslash} =>
               b = a + 2 /\ a + 2 \in 1 .. Len(E) /\ E[a + 1] = Backslash /\ E[a + 2] = s[k + 1])
         /\ (k < Len(s) /\ s[k + 1] \notin {Quote, Backslash} => b = a + 1 /\ E[a + 1] = s[k + 1])
    <2>1. SymbolFollows(s, E, k, ea[k + 1], ea[k + 2])
      BY <1>4, <1>9, SymbolAfter
    <2>2. SymbolFollows(s, E, k, a, b)
      BY <1>7, <2>1
    <2> QED
      BY ONLY <2>2 DEF SymbolFollows
  <1>11. ASSUME call.want = <<>> PROVE E[a + 1] = Peeked /\ pos' = p + a + 1
    <2>1. file[p + (a + 1)] = E[a + 1]
      BY <1>4, <1>10
    <2>2. q = p + a /\ pos = q /\ p \in Nat /\ a \in Nat
      BY <1>4, <1>7, <1>8, <1>10, <1>11
    <2>3. pos + 1 = p + (a + 1) /\ p + (a + 1) = p + a + 1
      BY ONLY <2>2
    <2> QED
      BY <1>5, <2>1, <2>3
  <1>12. ASSUME call.want # <<>> PROVE E[a + 2] = Peeked /\ pos' = p + b /\ b = a + 2
    <2>1. b = a + 2 /\ a + 2 \in 1 .. Len(E)
      BY <1>8, <1>10, <1>12
    <2>2. file[p + (a + 2)] = E[a + 2]
      BY <1>4, <2>1
    <2>3. q = p + a + 1 /\ pos = q /\ p \in Nat /\ a \in Nat
      BY <1>4, <1>7, <1>8, <1>10, <1>12
    <2>4. pos + 1 = p + (a + 2) /\ p + (a + 2) = p + b
      BY ONLY <2>1, <2>3
    <2> QED
      BY <1>5, <2>1, <2>2, <2>4
  <1>13. Quote # Backslash /\ <<Backslash>> # <<>>
    BY DEF Quote, Backslash
  (* One character more. *)
  <1>14. ASSUME k < Len(s), Peeked = s[k + 1], call'.text = t \o <<Peeked>>, call'.want = <<>>,
                pos' = p + b
         PROVE  /\ Len(call'.text) <= Len(s)
                /\ \A i \in 1 .. Len(call'.text) : call'.text[i] = s[i]
                /\ pos' = p + ea[Len(call'.text) + 1]
    <2>1. PICK c, u : c = Peeked /\ u = call'.text
      OBVIOUS
    <2>2. u = Append(t, c) /\ c = s[k + 1]
      BY <1>5, <1>9, <1>14, <2>1, AppendIsConcat
    <2>3. Len(u) = k + 1 /\ u[k + 1] = c /\ \A i \in 1 .. k : u[i] = t[i]
      BY ONLY <1>9, <2>2
    <2>4. \A i \in 1 .. k + 1 : i \in 1 .. k \/ i = k + 1
      BY <1>9
    <2>5. \A i \in 1 .. k + 1 : u[i] = s[i]
      BY <1>8, <2>2, <2>3, <2>4
    <2>6. k + 1 <= Len(s) /\ k + 1 + 1 = k + 2
      BY <1>9, <1>14
    <2> QED
      BY <1>7, <1>14, <2>1, <2>3, <2>5, <2>6
  <1>15. CASE call.want = <<>> /\ Peeked = Backslash /\ call'.want = <<Backslash>> /\ call'.text = call.text
    <2>1. k # Len(s)
      BY <1>10, <1>11, <1>13, <1>15
    <2>2. k < Len(s)
      BY <1>8, <1>9, <2>1
    <2>3. s[k + 1] \in {Quote, Backslash}
      BY <1>10, <1>11, <1>15, <2>2
    <2> QED
      BY <1>7, <1>8, <1>11, <1>13, <1>15, <2>2, <2>3
  <1>16. CASE /\ call.want = <<>> /\ Peeked \notin {Quote, Backslash}
              /\ call'.want = <<>> /\ call'.text = Append(call.text, Peeked)
    <2>1. k # Len(s)
      BY <1>10, <1>11, <1>16
    <2>2. k < Len(s)
      BY <1>8, <1>9, <2>1
    <2>3. s[k + 1] \notin {Quote, Backslash}
      BY <1>10, <1>11, <1>16, <2>2
    <2>4. b = a + 1 /\ Peeked = s[k + 1] /\ pos' = p + a + 1
      BY <1>10, <1>11, <1>16, <2>2, <2>3
    <2>5. Peeked = s[k + 1] /\ pos' = p + b
      BY <1>4, <1>10, <2>4
    <2>6. call'.text = t \o <<Peeked>>
      BY <1>5, <1>7, <1>9, <1>16, AppendIsConcat
    <2> QED
      BY <1>14, <1>16, <2>2, <2>5, <2>6
  <1>17. CASE /\ call.want # <<>> /\ call'.want = <<>>
              /\ call'.text = (call.text \o (IF Peeked \in {Quote, Backslash} THEN <<>> ELSE call.want))
                                \o <<Peeked>>
    <2>1. k < Len(s) /\ s[k + 1] \in {Quote, Backslash}
      BY <1>8, <1>17
    <2>2. Peeked = s[k + 1] /\ pos' = p + b
      BY <1>10, <1>12, <1>17, <2>1
    <2>3. t \o <<>> = t
      BY <1>9, ConcatEmptySeq
    <2>4. call'.text = t \o <<Peeked>>
      BY <1>7, <1>17, <2>1, <2>2, <2>3
    <2> QED
      BY <1>14, <1>17, <2>1, <2>2, <2>4
  <1> QED
    BY <1>15, <1>16, <1>17

(* Its end. *)
LEMMA ClosingStep ==
  ASSUME StreamsIInv, mode = "in", ~astray, Peeked = Quote, stored' = stored,
         strings' = Append(strings, call.text), NEW at, LaidOut(file, Encodings, at), ReadTo(at),
         call.op = "quoted", call.took = 1, call.want = <<>>, pos' = pos + 1, call' = Idle
  PROVE  ReadTo(at)'
  <1>0. StreamsTypeOK /\ call \in CallType /\ Peeked # EOF
    BY DEF StreamsIInv, StreamsTypeOK, Quote, EOF
  <1>1. PICK n, s, E, p : /\ n = Len(strings) /\ s = stored[n + 1] /\ E = QuotedText(stored[n + 1])
                          /\ p = at[n + 1]
    OBVIOUS
  <1>2. n \in Nat /\ Len(stored) \in Nat /\ n < Len(stored) /\ Within(p, s, E)
    BY <1>0, <1>1, LenProperties DEF ReadTo, StreamsTypeOK
  <1>3. n \in 0 .. Len(stored) - 1
    BY <1>2
  <1>4. /\ s \in Seq(Nat) /\ E \in Seq(Nat) /\ p \in Nat /\ at[n + 2] = p + Len(E)
        /\ \A j \in 1 .. Len(E) : file[p + j] = E[j]
    BY <1>0, <1>1, <1>3, SymbolsAt
  <1>5. pos \in Nat /\ file[pos + 1] = Quote
    BY <1>0, NextSymbol
  <1>6. call.text \in Seq(Nat)
    BY <1>0, CallFields
  <1>7. PICK ea : Escapes(s, E, ea)
    BY <1>1, <1>4, QuotedEscapes
  <1>8. PICK k, t, a, b : k = Len(call.text) /\ t = call.text /\ a = ea[k + 1] /\ b = ea[k + 2]
    OBVIOUS
  <1>9. k <= Len(s) /\ (\A i \in 1 .. k : t[i] = s[i]) /\ pos = p + a
    BY <1>2, <1>7, <1>8 DEF Within
  <1>10. k \in 0 .. Len(s) /\ k \in Nat /\ Len(s) \in Nat /\ t \in Seq(Nat) /\ Len(t) = k
    BY <1>4, <1>6, <1>8, <1>9, LenProperties
  <1>11. SymbolFollows(s, E, k, a, b)
    <2>1. SymbolFollows(s, E, k, ea[k + 1], ea[k + 2])
      BY <1>4, <1>7, <1>10, SymbolAfter
    <2> QED
      BY <1>8, <2>1
  <1>12. E[a + 1] = Quote
    <2>1. a \in Nat /\ a + 1 \in 1 .. Len(E)
      BY <1>11 DEF SymbolFollows
    <2>2. file[p + (a + 1)] = E[a + 1]
      BY <1>4, <2>1
    <2>3. pos + 1 = p + (a + 1)
      BY <1>4, <1>9, <2>1
    <2> QED
      BY <1>5, <2>2, <2>3
  <1>13. k = Len(s)
    <2>1. Quote # Backslash
      BY DEF Quote, Backslash
    <2>2. CASE k < Len(s) /\ s[k + 1] \in {Quote, Backslash}
      BY <1>11, <1>12, <2>1, <2>2 DEF SymbolFollows
    <2>3. CASE k < Len(s) /\ s[k + 1] \notin {Quote, Backslash}
      BY <1>11, <1>12, <2>3 DEF SymbolFollows
    <2> QED
      BY <1>9, <1>10, <2>2, <2>3
  <1>14. t = s
    BY <1>4, <1>9, <1>10, <1>13, SeqEqual
  <1>15. pos' = at[n + 2]
    <2>1. a \in Nat /\ a + 1 = Len(E)
      BY <1>11, <1>13 DEF SymbolFollows
    <2>2. at[n + 2] = p + Len(E) /\ p \in Nat /\ pos' = pos + 1 /\ pos = p + a
      BY <1>4, <1>9
    <2> QED
      BY ONLY <2>1, <2>2
  <1>16. strings \in Seq(Seq(Nat)) /\ t \in Seq(Nat) /\ strings' = Append(strings, t)
    BY <1>0, <1>8, <1>10 DEF StreamsTypeOK
  <1>17. Len(strings') = n + 1 /\ strings'[n + 1] = t /\ \A i \in 1 .. n : strings'[i] = strings[i]
    BY ONLY <1>1, <1>16
  <1>18. \A i \in 1 .. n : strings[i] = stored[i]
    BY <1>1 DEF ReadTo
  <1>19. ASSUME NEW i \in 1 .. n + 1 PROVE strings'[i] = stored[i]
    <2>1. i \in 1 .. n \/ i = n + 1
      BY <1>2
    <2> QED
      BY <1>1, <1>14, <1>17, <1>18, <2>1
  <1>20. n + 1 <= Len(stored) /\ n + 1 + 1 = n + 2 /\ call'.op = "none"
    BY <1>2, IdleCall
  <1> QED
    BY <1>15, <1>17, <1>19, <1>20 DEF ReadTo

(* Its beginning. *)
LEMMA OpeningStep ==
  ASSUME StreamsIInv, mode = "in", ~astray, Peeked = Quote, UNCHANGED <<stored, strings>>,
         NEW at, LaidOut(file, Encodings, at), ReadTo(at),
         call.op = "quoted", call.took = 0, pos' = pos + 1, call' = [call EXCEPT !.took = 1]
  PROVE  ReadTo(at)'
  <1>0. StreamsTypeOK /\ call \in CallType /\ Peeked # EOF
    BY DEF StreamsIInv, StreamsTypeOK, Quote, EOF
  <1>1. PICK n : n = Len(strings)
    OBVIOUS
  <1>2. n \in Nat /\ Len(stored) \in Nat /\ n <= Len(stored) /\ \A i \in 1 .. n : strings[i] = stored[i]
    BY <1>0, <1>1, LenProperties DEF ReadTo, StreamsTypeOK
  <1>3. pos = at[n + 1] /\ call.text = <<>> /\ call.want = <<>>
    BY <1>1 DEF ReadTo
  <1>4. n < Len(stored)
    <2>1. pos < Len(file) /\ pos \in Nat
      BY <1>0, NextSymbol
    <2>2. at[Len(stored) + 1] = Len(file)
      BY <1>0, StoredEncodings DEF LaidOut
    <2>3. n # Len(stored)
      BY <1>3, <2>1, <2>2
    <2> QED
      BY <1>2, <2>3
  <1>5. call'.op = "quoted" /\ call'.took = 1 /\ call'.text = <<>> /\ call'.want = <<>>
    BY <1>0, <1>3 DEF CallType
  <1>6. PICK s, E, p : s = stored[n + 1] /\ E = QuotedText(stored[n + 1]) /\ p = at[n + 1]
    OBVIOUS
  <1>7. Within(p, s, E)'
    <2> SUFFICES ASSUME NEW ea, Escapes(s, E, ea)
                 PROVE  /\ Len(call'.text) <= Len(s)
                        /\ \A i \in 1 .. Len(call'.text) : call'.text[i] = s[i]
                        /\ pos' = p + ea[Len(call'.text) + 1]
      BY <1>5 DEF Within
    <2>1. Len(call'.text) = 0 /\ 0 + 1 = 1 /\ 1 .. 0 = {}
      BY <1>5, EmptySeq
    <2>2. ea[1] = 1
      BY DEF Escapes
    <2>3. s \in Seq(Nat)
      <3>1. n \in 0 .. Len(stored) - 1
        BY <1>2, <1>4
      <3> QED
        BY <1>0, <1>6, <3>1, SymbolsAt
    <2>4. Len(s) >= 0
      BY <2>3, LenProperties
    <2> QED
      BY <1>3, <1>6, <2>1, <2>2, <2>4
  <1> QED
    BY <1>1, <1>2, <1>4, <1>5, <1>6, <1>7 DEF ReadTo

LEMMA ReadStep ==
  ASSUME StreamsIInv, ReadInv, [StreamsNext]_streamsVars
  PROVE  ReadInv'
  <1> SUFFICES ASSUME mode' = "in", ~astray', NEW at, LaidOut(file', Encodings', at)
               PROVE  ReadTo(at)'
    BY DEF ReadInv
  <1>0. StreamsTypeOK /\ ModeInv /\ call \in CallType /\ astray \in BOOLEAN /\ pos \in Int
        /\ call.took \in Nat /\ Len(strings) \in Nat
    BY CallFields, LenProperties DEF StreamsIInv, StreamsTypeOK
  (* What reads leaves the file alone. *)
  <1>1. ASSUME mode = "in", ~astray, UNCHANGED <<file, stored>>
        PROVE  LaidOut(file, Encodings, at) /\ ReadTo(at)
    <2>1. Encodings' = Encodings
      BY <1>1 DEF Encodings
    <2>2. LaidOut(file, Encodings, at)
      BY <1>1, <2>1
    <2> QED
      BY <1>1, <2>2 DEF ReadInv
  (* Nor do these count. *)
  <1>2. ASSUME mode = "in", ~astray, UNCHANGED <<file, stored, strings, pos>>, call'.op = call.op,
               call'.took = call.took, call'.text = call.text, call'.want = call.want
        PROVE  ReadTo(at)'
    BY <1>1, <1>2 DEF ReadTo, Within
  <1>3. ~OpenOut /\ (\A s \in Strings : ~Insert(s)) /\ ~Close /\ ~Leave /\ ~PutChar
    BY <1>0 DEF OpenOut, Insert, Close, Leave, PutChar, ModeInv
  <1>4. CASE OpenIn
    <2>1. strings' = <<>> /\ pos' = 0 /\ call' = Idle
      BY <1>0, <1>4 DEF OpenIn, ModeInv
    <2>2. Len(strings') = 0 /\ 1 .. 0 = {} /\ 0 + 1 = 1
      BY <2>1, EmptySeq
    <2>3. 0 <= Len(stored') /\ at[1] = 0
      <3>1. stored' = stored /\ stored \in Seq(Seq(Nat))
        BY <1>0, <1>4 DEF OpenIn, StreamsTypeOK
      <3> QED
        BY <3>1, LenProperties DEF LaidOut
    <2> QED
      BY <2>1, <2>2, <2>3, IdleCall DEF ReadTo
  <1>5. CASE Underflow
    <2>1. /\ UNCHANGED <<mode, file, stored, strings, pos, astray>>
          /\ call' = [call EXCEPT !.refilled = @ \/ call.took > 0]
      BY <1>5 DEF Underflow
    <2>2. /\ call'.op = call.op /\ call'.took = call.took /\ call'.text = call.text
          /\ call'.want = call.want
      <3>1. PICK b : call' = [call EXCEPT !.refilled = b]
        BY <2>1
      <3>2. call \in CallType
        BY <1>0
      <3> QED
        BY ONLY <3>1, <3>2 DEF CallType
    <2> QED
      BY <1>2, <2>1, <2>2
  <1>6. ASSUME NEW op \in {"expect", "find", "quoted"}, NEW s, op = "quoted" => s = <<>>, Call(op, s)
        PROVE  ReadTo(at)'
    <2>1. /\ mode = "in" /\ ~astray /\ UNCHANGED <<file, stored, strings, pos>> /\ call = Idle
          /\ call' = [Idle EXCEPT !.op = op, !.want = s]
      BY <1>6 DEF Call
    <2>2. call'.op = op /\ call'.took = 0 /\ call'.text = <<>> /\ call'.want = s
      BY <2>1 DEF Idle
    <2>3. pos = at[Len(strings) + 1]
      BY <1>1, <2>1, IdleCall DEF ReadTo
    <2> QED
      BY <1>0, <1>1, <1>6, <2>1, <2>2, <2>3 DEF ReadTo
  <1>7. ASSUME Expect, UNCHANGED <<mode, file, stored>> PROVE ReadTo(at)'
    <2>1. CASE call.want # <<>> /\ Peekable /\ Peeked = Head(call.want) /\ Take(Matched)
      <3>1. /\ pos' = pos + 1 /\ call' = Matched /\ UNCHANGED <<strings, astray>> /\ call.op = "expect"
        BY <1>7, <2>1 DEF Take, Expect
      <3>2. call'.op = "expect" /\ call'.took = call.took + 1
        BY <1>0, <3>1 DEF Matched, CallType
      <3>3. pos - call.took = at[Len(strings) + 1]
        BY <1>1, <1>7, <3>1 DEF ReadTo
      <3>4. pos' - call'.took = at[Len(strings) + 1]
        BY <1>0, <3>1, <3>2, <3>3
      <3> QED
        BY <1>1, <1>7, <3>1, <3>2, <3>4 DEF ReadTo
    <2>2. CASE call.want # <<>> /\ Peekable /\ Peeked # Head(call.want) /\ PutBack(call.took)
      <3>1. /\ pos' = pos - call.took /\ call' = Idle /\ strings' = strings /\ call.op = "expect"
            /\ astray' = (astray \/ call.refilled \/ call.took < call.took)
        BY <1>7, <2>2 DEF PutBack, Expect
      <3>2. ~astray
        BY <3>1
      <3>3. pos' = at[Len(strings) + 1]
        BY <1>1, <1>7, <3>1, <3>2 DEF ReadTo
      <3> QED
        BY <1>1, <1>7, <3>1, <3>2, <3>3, IdleCall DEF ReadTo
    <2> QED
      BY <1>3, <1>7, <2>1, <2>2 DEF Expect
  <1>8. ASSUME FindWord, UNCHANGED <<mode, file, stored>> PROVE ReadTo(at)'
    <2>0. call.op = "find"
      BY <1>8 DEF FindWord
    <2>1. ASSUME Take(Matched) \/ Take(call) PROVE ReadTo(at)'
      <3>1. UNCHANGED <<strings, astray>> /\ call' \in {Matched, call}
        BY <2>1 DEF Take
      <3>2. call'.op = "find"
        BY <1>0, <2>0, <3>1 DEF Matched, CallType
      <3> QED
        BY <1>1, <1>8, <3>1, <3>2 DEF ReadTo
    <2>2. ASSUME call.took > 1, PutBack(call.took - 1) PROVE FALSE
      <3>1. astray' = (astray \/ call.refilled \/ call.took - 1 < call.took)
        BY <2>2 DEF PutBack
      <3>2. call.took - 1 < call.took
        BY <1>0
      <3> QED
        BY <3>1, <3>2
    <2> QED
      BY <1>3, <1>8, <2>1, <2>2 DEF FindWord
  <1>9. ASSUME Quoted, UNCHANGED <<mode, file, stored>> PROVE ReadTo(at)'
    <2>0. call.op = "quoted" /\ mode = "in" /\ Peeked \in Nat
      BY <1>0, <1>9, Peeks DEF Quoted
    <2>1. /\ call.took \in Nat /\ Quote # EOF /\ Backslash # EOF /\ Quote # Backslash
          /\ <<Backslash>> # <<>>
      BY <1>0 DEF Quote, Backslash, EOF
    <2>2. CASE Peeked = EOF /\ Leave
      BY <1>3, <2>2
    <2>3. CASE call.took = 0 /\ Peeked = Quote /\ Take([call EXCEPT !.took = 1])
      <3>1. pos' = pos + 1 /\ call' = [call EXCEPT !.took = 1] /\ UNCHANGED <<strings, astray>>
        BY <2>3 DEF Take
      <3> QED
        BY <1>1, <1>9, <2>0, <2>3, <3>1, OpeningStep
    <2>4. CASE /\ call.took = 0 /\ Peeked \notin {EOF, Quote}
               /\ g' = g + 1 /\ pos' = pos + 1 /\ call' = Idle /\ astray' = TRUE
               /\ UNCHANGED <<area, next, strings>>
      BY <2>4
    <2>5. CASE /\ call.took = 1 /\ call.want = <<>> /\ Peeked = Quote
               /\ g' = g + 1 /\ pos' = pos + 1 /\ call' = Idle
               /\ strings' = Append(strings, call.text) /\ UNCHANGED <<area, next, astray>>
      BY <1>1, <1>9, <2>0, <2>5, ClosingStep
    <2>6. CASE call.took = 1 /\ call.want = <<>> /\ Peeked = Backslash
               /\ Take([call EXCEPT !.want = <<Backslash>>])
      <3>1. pos' = pos + 1 /\ call' = [call EXCEPT !.want = <<Backslash>>] /\ UNCHANGED <<strings, astray>>
        BY <2>6 DEF Take
      <3>2. call'.op = call.op /\ call'.took = call.took /\ call'.want = <<Backslash>> /\ call'.text = call.text
        BY <1>0, <3>1 DEF CallType
      <3> QED
        BY <1>1, <1>9, <2>0, <2>1, <2>6, <3>1, <3>2, InsideStep
    <2>7. CASE call.took = 1 /\ call.want = <<>> /\ Peeked \notin {EOF, Quote, Backslash}
               /\ Take([call EXCEPT !.text = Append(@, Peeked)])
      <3>1. PICK u : u = Append(call.text, Peeked)
        OBVIOUS
      <3>2. pos' = pos + 1 /\ call' = [call EXCEPT !.text = u] /\ UNCHANGED <<strings, astray>>
        BY <2>7, <3>1 DEF Take
      <3>3. call'.op = call.op /\ call'.took = call.took /\ call'.want = call.want /\ call'.text = u
        BY <1>0, <3>2 DEF CallType
      <3> QED
        BY <1>1, <1>9, <2>0, <2>7, <3>1, <3>2, <3>3, InsideStep
    <2>8. CASE call.took = 1 /\ call.want # <<>> /\ Peeked # EOF
               /\ Take([call EXCEPT !.want = <<>>,
                                    !.text = @ \o (IF Peeked \in {Quote, Backslash} THEN <<>> ELSE call.want)
                                               \o <<Peeked>>])
      <3>1. PICK u : u = (call.text \o (IF Peeked \in {Quote, Backslash} THEN <<>> ELSE call.want)) \o <<Peeked>>
        OBVIOUS
      <3>2. pos' = pos + 1 /\ call' = [call EXCEPT !.want = <<>>, !.text = u] /\ UNCHANGED <<strings, astray>>
        BY <2>8, <3>1 DEF Take
      <3>3. call'.op = call.op /\ call'.took = call.took /\ call'.want = <<>> /\ call'.text = u
        BY <1>0, <3>2 DEF CallType
      <3> QED
        BY <1>1, <1>9, <2>0, <2>8, <3>1, <3>2, <3>3, InsideStep
    <2> QED
      BY <1>9, <2>2, <2>3, <2>4, <2>5, <2>6, <2>7, <2>8 DEF Quoted
  <1>10. CASE UNCHANGED streamsVars
    BY <1>2, <1>10 DEF streamsVars
  <1>11. ASSUME Expect \/ FindWord \/ Quoted, UNCHANGED <<mode, file, outArea, putting, writeFailed, stored>>
         PROVE  ReadTo(at)'
    BY <1>7, <1>8, <1>9, <1>11
  <1> QED
    BY <1>3, <1>4, <1>5, <1>6, <1>10, <1>11 DEF StreamsNext

(* ReadsBack: quoted strings are extracted as they were inserted, whatever   *)
(* the buffer's size and the characters, and what a vain expect took comes   *)
(* again (CompressBuff and the extractors of StreamIO).                      *)
THEOREM StreamsReadBack == StreamsSpec => []ReadsBack
  <1> DEFINE I == StreamsIInv /\ AllWritten /\ ReadInv
  <1>1. StreamsInit => I
    BY StreamsBegin, AllWrittenBegins DEF StreamsInit, ReadInv
  <1>2. I /\ [StreamsNext]_streamsVars => I'
    <2> SUFFICES ASSUME I, [StreamsNext]_streamsVars PROVE I'
      OBVIOUS
    <2>1. StreamsTypeOK' /\ ModeInv' /\ AreaInv'
      BY StreamsTypeStep, AreaStep
    <2>2. AllWritten'
      BY <2>1, AllWrittenStep
    <2>3. ReadInv'
      BY ReadStep
    <2> QED
      BY <2>1, <2>2, <2>3 DEF StreamsIInv
  <1>3. I => ReadsBack
    <2> SUFFICES ASSUME I, mode = "in", ~astray PROVE ReadsBack
      BY DEF ReadsBack
    <2>1. SubSeq(area, g + 1, BuffSize) \o SubSeq(file, next + 1, Len(file))
            = SubSeq(file, pos + 1, Len(file))
      BY NothingLost
    <2>2. IsPrefix(strings, stored)
      <3>1. StreamsTypeOK /\ ModeInv
        BY DEF StreamsIInv
      <3>2. Text = file
        <4>1. outArea = <<>> /\ putting = <<>> /\ file \in Seq(Nat)
          BY <3>1 DEF ModeInv, StreamsTypeOK
        <4>2. file \o <<>> = file
          BY <4>1, ConcatEmptySeq
        <4> QED
          BY <4>1, <4>2 DEF Text
      <3>3. \E at : LaidOut(file, Encodings, at)
        BY <3>1, <3>2 DEF ModeInv, AllWritten
      <3>4. Len(strings) <= Len(stored) /\ \A i \in 1 .. Len(strings) : strings[i] = stored[i]
        BY <3>3 DEF ReadInv, ReadTo
      <3>5. PICK n, u, v : n = Len(strings) /\ u = SubSeq(strings, 1, n) /\ v = SubSeq(stored, 1, n)
        OBVIOUS
      <3>6. /\ strings \in Seq(Seq(Nat)) /\ stored \in Seq(Seq(Nat)) /\ n \in Nat
            /\ 1 \in 1 .. Len(strings) + 1 /\ n \in 1 - 1 .. Len(strings)
            /\ 1 \in 1 .. Len(stored) + 1 /\ n \in 1 - 1 .. Len(stored)
        BY <3>1, <3>4, <3>5, LenProperties DEF StreamsTypeOK
      <3>7. n - 1 + 1 = n /\ \A i \in 1 .. n : 1 + i - 1 = i
        BY <3>6
      <3>8. u \in Seq(Seq(Nat)) /\ Len(u) = n /\ \A i \in 1 .. n : u[i] = strings[i]
        <4>1. /\ u \in Seq(Seq(Nat)) /\ Len(u) = n - 1 + 1
              /\ \A i \in 1 .. n - 1 + 1 : u[i] = strings[1 + i - 1]
          BY <3>5, <3>6, Piece
        <4> QED
          BY ONLY <3>7, <4>1
      <3>9. v \in Seq(Seq(Nat)) /\ Len(v) = n /\ \A i \in 1 .. n : v[i] = stored[i]
        <4>1. /\ v \in Seq(Seq(Nat)) /\ Len(v) = n - 1 + 1
              /\ \A i \in 1 .. n - 1 + 1 : v[i] = stored[1 + i - 1]
          BY <3>5, <3>6, Piece
        <4> QED
          BY ONLY <3>7, <4>1
      <3>10. \A i \in 1 .. n : u[i] = v[i]
        BY <3>4, <3>5, <3>8, <3>9
      <3>11. u = v
        BY ONLY <3>8, <3>9, <3>10, SeqEqual
      <3> QED
        BY <3>4, <3>5, <3>11 DEF IsPrefix
    <2> QED
      BY <2>1, <2>2 DEF ReadsBack
  <1> QED
    BY <1>1, <1>2, <1>3, PTL DEF StreamsSpec

--------------------------------------------------------------------------------
(* MultipartResponse. *)

PartType == [sized : BOOLEAN, length : Nat]

HeaderLen(p) == IF p.sized THEN 7 ELSE 5

(* T is the body of the parts ps: the i-th begins behind at[i].               *)
Marks(T, ps, at) ==
  /\ at \in [1 .. Len(ps) + 1 -> Nat] /\ at[1] = 0 /\ Len(T) = at[Len(ps) + 1] + 2
  /\ \A i \in 1 .. Len(ps) + 1 :
       T[at[i] + 1] = Boundary /\ T[at[i] + 2] = Break /\ at[i] + 2 <= Len(T)
  /\ \A i \in 1 .. Len(ps) :
       /\ at[i + 1] = at[i] + HeaderLen(ps[i]) + ps[i].length + 1
       /\ T[at[i] + 3] = TypeHeader /\ T[at[i] + 4] = Break
       /\ ps[i].sized => T[at[i] + 5] = ps[i].length /\ T[at[i] + 6] = Break
       /\ T[at[i] + HeaderLen(ps[i])] = Break
       /\ \A j \in 1 .. ps[i].length : T[at[i] + HeaderLen(ps[i]) + j] = Datum
       /\ T[at[i] + HeaderLen(ps[i]) + ps[i].length + 1] = Break

(* Two lists joined: the entries of the first, then those of the second.      *)
IsJoined(S, s, t, u) == s \in Seq(S) /\ t \in Seq(S) /\ u = s \o t

(* The entries of two lists joined.                                           *)
LEMMA Joined ==
  ASSUME NEW S, NEW s, NEW t, NEW u, IsJoined(S, s, t, u)
  PROVE  /\ u \in Seq(S) /\ Len(u) = Len(s) + Len(t)
         /\ \A i \in 1 .. Len(s) : u[i] = s[i]
         /\ \A j \in 1 .. Len(t) : u[Len(s) + j] = t[j]
  <1>0. PICK m : m = Len(s)
    OBVIOUS
  <1>1. /\ u \in Seq(S) /\ Len(u) = Len(s) + Len(t)
        /\ \A i \in 1 .. Len(s) + Len(t) : u[i] = IF i <= Len(s) THEN s[i] ELSE t[i - Len(s)]
    <2>1. /\ s \o t \in Seq(S) /\ Len(s \o t) = Len(s) + Len(t)
          /\ \A i \in 1 .. Len(s) + Len(t) :
               (s \o t)[i] = IF i <= Len(s) THEN s[i] ELSE t[i - Len(s)]
      BY ConcatProperties DEF IsJoined
    <2> QED
      BY ONLY <2>1, IsJoined(S, s, t, u) DEF IsJoined
  <1>2. m \in Nat /\ Len(t) \in Nat /\ Len(s) = m
    BY <1>0, LenProperties DEF IsJoined
  <1>3. ASSUME NEW i \in 1 .. m PROVE u[i] = s[i]
    <2>1. i \in 1 .. Len(s) + Len(t) /\ i <= Len(s)
      BY <1>2
    <2> QED
      BY ONLY <1>1, <2>1
  <1>4. ASSUME NEW j \in 1 .. Len(t) PROVE u[m + j] = t[j]
    <2>1. PICK i : i = m + j
      OBVIOUS
    <2>2. i \in 1 .. Len(s) + Len(t) /\ ~(i <= Len(s)) /\ i - Len(s) = j
      BY <1>2, <2>1
    <2>3. u[i] = t[i - Len(s)]
      BY ONLY <1>1, <2>2
    <2> QED
      BY <2>1, <2>2, <2>3
  <1> QED
    BY <1>0, <1>1, <1>2, <1>3, <1>4

(* An entry put behind a list.                                                *)
LEMMA OneMore ==
  ASSUME NEW S, NEW s \in Seq(S), NEW e \in S
  PROVE  /\ Append(s, e) \in Seq(S) /\ Append(s, e) # <<>> /\ Len(Append(s, e)) = Len(s) + 1
         /\ \A i \in 1 .. Len(s) : Append(s, e)[i] = s[i]
         /\ Append(s, e)[Len(s) + 1] = e
  BY AppendProperties

(* The m-th to n-th entries of a list, counted from 0.                        *)
LEMMA PieceFrom ==
  ASSUME NEW S, NEW s \in Seq(S), NEW m \in Nat, NEW n \in m .. Len(s)
  PROVE  /\ SubSeq(s, m + 1, n) \in Seq(S) /\ Len(SubSeq(s, m + 1, n)) = n - m
         /\ \A i \in 1 .. n - m : SubSeq(s, m + 1, n)[i] = s[m + i]
  <1>1. Len(s) \in Nat
    BY LenProperties
  <1>2. m + 1 \in 1 .. Len(s) + 1 /\ n \in m + 1 - 1 .. Len(s) /\ n - (m + 1) + 1 = n - m
        /\ \A i \in 1 .. n - m : m + 1 + i - 1 = m + i
    BY <1>1
  <1>3. /\ SubSeq(s, m + 1, n) \in Seq(S) /\ Len(SubSeq(s, m + 1, n)) = n - (m + 1) + 1
        /\ \A i \in 1 .. n - (m + 1) + 1 : SubSeq(s, m + 1, n)[i] = s[m + 1 + i - 1]
    BY <1>2, Piece
  <1> QED
    BY ONLY <1>2, <1>3

(* x is the piece of s behind the m-th up to the n-th. *)
IsPiece(S, s, m, n, x) ==
  s \in Seq(S) /\ m \in Nat /\ n \in m .. Len(s) /\ x = SubSeq(s, m + 1, n)

(* PieceFrom of a piece that has a name.                                      *)
LEMMA PieceIs ==
  ASSUME NEW S, NEW s, NEW m, NEW n, NEW x, IsPiece(S, s, m, n, x)
  PROVE  x \in Seq(S) /\ Len(x) = n - m /\ \A i \in 1 .. n - m : x[i] = s[m + i]
  <1>1. s \in Seq(S) /\ m \in Nat /\ n \in m .. Len(s) /\ x = SubSeq(s, m + 1, n)
    BY DEF IsPiece
  <1> QED
    BY ONLY <1>1, PieceFrom

(* A piece of a piece is a piece of the whole.                                *)
LEMMA PieceOfPiece ==
  ASSUME NEW S, NEW s \in Seq(S), NEW m \in Nat, NEW n \in m .. Len(s),
         NEW i \in 0 .. n - m, NEW j \in i .. n - m
  PROVE  SubSeq(SubSeq(s, m + 1, n), i + 1, j) = SubSeq(s, m + i + 1, m + j)
  <1>1. PICK x, y, z : /\ x = SubSeq(s, m + 1, n) /\ y = SubSeq(x, i + 1, j)
                       /\ z = SubSeq(s, m + i + 1, m + j)
    OBVIOUS
  <1>2. Len(s) \in Nat /\ i \in Nat /\ j \in i .. n - m /\ m + i \in Nat /\ m + j \in m + i .. Len(s)
        /\ m + j - (m + i) = j - i
    BY LenProperties
  <1>3. x \in Seq(S) /\ Len(x) = n - m /\ \A k \in 1 .. n - m : x[k] = s[m + k]
    BY <1>1, PieceFrom
  <1>4. y \in Seq(S) /\ Len(y) = j - i /\ \A k \in 1 .. j - i : y[k] = x[i + k]
    <2>1. i \in Nat /\ j \in i .. Len(x)
      BY <1>2, <1>3
    <2> QED
      BY ONLY <1>1, <1>3, <2>1, PieceFrom
  <1>5. /\ z \in Seq(S) /\ Len(z) = m + j - (m + i)
        /\ \A k \in 1 .. m + j - (m + i) : z[k] = s[m + i + k]
    <2>1. PICK p, q : p = m + i /\ q = m + j
      OBVIOUS
    <2>2. s \in Seq(S) /\ p \in Nat /\ q \in p .. Len(s) /\ z = SubSeq(s, p + 1, q)
      BY <1>1, <1>2, <2>1
    <2>3. z \in Seq(S) /\ Len(z) = q - p /\ \A k \in 1 .. q - p : z[k] = s[p + k]
      BY ONLY <2>2, PieceFrom
    <2> QED
      BY ONLY <2>1, <2>3
  <1>6. \A k \in 1 .. Len(y) : i + k \in 1 .. n - m /\ m + (i + k) = m + i + k
    <2>1. /\ m \in Nat /\ n \in Int /\ i \in Nat /\ j \in Int /\ i <= j /\ j <= n - m
          /\ Len(y) = j - i
      BY <1>2, <1>4
    <2> QED
      BY ONLY <2>1
  <1>7. \A k \in 1 .. Len(y) : y[k] = z[k]
    BY ONLY <1>2, <1>3, <1>4, <1>5, <1>6
  <1>8. y = z
    BY ONLY <1>2, <1>4, <1>5, <1>7, SeqEqual
  <1> QED
    BY <1>1, <1>8

(* What two lists hold together, cut within the second one.                   *)
LEMMA JoinedCut ==
  ASSUME NEW S, NEW s \in Seq(S), NEW t \in Seq(S), NEW w \in 0 .. Len(t)
  PROVE  /\ s \o SubSeq(t, 1, w) = SubSeq(s \o t, 1, Len(s) + w)
         /\ SubSeq(t, w + 1, Len(t)) = SubSeq(s \o t, Len(s) + w + 1, Len(s) + Len(t))
  <1>1. PICK k, u, x, y : /\ k = Len(s) + w /\ u = s \o t /\ x = SubSeq(t, 1, w)
                          /\ y = SubSeq(t, w + 1, Len(t))
    OBVIOUS
  <1>2. /\ Len(s) \in Nat /\ Len(t) \in Nat /\ w \in Nat /\ 0 \in Nat /\ 0 + 1 = 1
        /\ w \in 0 .. Len(t) /\ Len(t) \in w .. Len(t)
    BY LenProperties
  <1>3. /\ u \in Seq(S) /\ Len(u) = Len(s) + Len(t)
        /\ \A i \in 1 .. Len(s) + Len(t) : u[i] = IF i <= Len(s) THEN s[i] ELSE t[i - Len(s)]
    BY <1>1, ConcatProperties
  <1>4. x \in Seq(S) /\ Len(x) = w - 0 /\ \A i \in 1 .. w - 0 : x[i] = t[0 + i]
    <2>1. x = SubSeq(t, 0 + 1, w)
      BY <1>1, <1>2
    <2> QED
      BY <1>2, <2>1, PieceFrom
  <1>5. y \in Seq(S) /\ Len(y) = Len(t) - w /\ \A i \in 1 .. Len(t) - w : y[i] = t[w + i]
    BY <1>1, <1>2, PieceFrom
  <1>6. s \o x = SubSeq(u, 1, k)
    <2>1. PICK p, q : p = s \o x /\ q = SubSeq(u, 0 + 1, k)
      OBVIOUS
    <2>2. /\ p \in Seq(S) /\ Len(p) = Len(s) + Len(x)
          /\ \A i \in 1 .. Len(s) + Len(x) : p[i] = IF i <= Len(s) THEN s[i] ELSE x[i - Len(s)]
      BY <1>4, <2>1, ConcatProperties
    <2>3. q \in Seq(S) /\ Len(q) = k - 0 /\ \A i \in 1 .. k - 0 : q[i] = u[0 + i]
      <3>1. k \in 0 .. Len(u)
        BY <1>1, <1>2, <1>3
      <3> QED
        BY <1>2, <1>3, <2>1, <3>1, PieceFrom
    <2>4. Len(p) = k /\ Len(q) = k /\ k \in Nat
      BY <1>1, <1>2, <1>4, <2>2, <2>3
    <2>5. ASSUME NEW i \in 1 .. Len(p) PROVE p[i] = q[i]
      <3>1. i \in Nat /\ 1 <= i /\ i <= k /\ i \in 1 .. Len(s) + Len(t) /\ i \in 1 .. Len(s) + Len(x)
            /\ i \in 1 .. k - 0 /\ 0 + i = i
        BY <1>1, <1>2, <1>4, <2>4, <2>5
      <3>2. ~(i <= Len(s)) => i - Len(s) \in 1 .. w - 0 /\ 0 + (i - Len(s)) = i - Len(s)
        BY <1>1, <1>2, <3>1
      <3>3. p[i] = IF i <= Len(s) THEN s[i] ELSE x[i - Len(s)]
        BY ONLY <2>2, <3>1
      <3>4. ~(i <= Len(s)) => x[i - Len(s)] = t[i - Len(s)]
        BY ONLY <1>4, <3>2
      <3>5. q[i] = IF i <= Len(s) THEN s[i] ELSE t[i - Len(s)]
        BY ONLY <1>3, <2>3, <3>1
      <3> QED
        BY ONLY <3>3, <3>4, <3>5
    <2>6. p = q
      BY ONLY <2>2, <2>3, <2>4, <2>5, SeqEqual
    <2> QED
      BY <1>2, <2>1, <2>6
  <1>7. y = SubSeq(u, k + 1, Len(s) + Len(t))
    <2>1. PICK q : q = SubSeq(u, k + 1, Len(u))
      OBVIOUS
    <2>2. k \in Nat /\ Len(u) \in k .. Len(u) /\ Len(u) - k = Len(t) - w
      BY <1>1, <1>2, <1>3
    <2>3. q \in Seq(S) /\ Len(q) = Len(u) - k /\ \A i \in 1 .. Len(u) - k : q[i] = u[k + i]
      BY <1>3, <2>1, <2>2, PieceFrom
    <2>4. ASSUME NEW i \in 1 .. Len(y) PROVE y[i] = q[i]
      <3>1. /\ Len(y) = Len(t) - w /\ Len(u) = Len(s) + Len(t) /\ k = Len(s) + w
            /\ Len(s) \in Nat /\ Len(t) \in Nat /\ w \in Nat
        BY <1>1, <1>2, <1>3, <1>5
      <3>2. /\ i \in 1 .. Len(t) - w /\ i \in 1 .. Len(u) - k /\ k + i \in 1 .. Len(s) + Len(t)
            /\ ~(k + i <= Len(s)) /\ k + i - Len(s) = w + i
        BY ONLY <3>1, <2>4
      <3>3. y[i] = t[w + i] /\ q[i] = u[k + i]
        BY ONLY <1>5, <2>3, <3>2
      <3>4. PICK l : l = k + i
        OBVIOUS
      <3>5. l \in 1 .. Len(s) + Len(t) /\ ~(l <= Len(s))
        BY ONLY <3>2, <3>4
      <3>6. u[l] = t[l - Len(s)]
        BY ONLY <1>3, <3>5
      <3>7. l - Len(s) = w + i /\ q[i] = u[l]
        BY <1>1, <1>2, <3>1, <3>2, <3>3, <3>4
      <3>8. y[i] = t[l - Len(s)]
        BY ONLY <3>3, <3>7
      <3> QED
        BY ONLY <3>6, <3>7, <3>8
    <2>5. y \in Seq(S) /\ q \in Seq(S) /\ Len(y) = Len(q)
      BY ONLY <1>5, <2>2, <2>3
    <2>6. y = q
      BY ONLY <2>4, <2>5, SeqEqual
    <2> QED
      BY <1>3, <2>1, <2>6
  <1> QED
    BY <1>1, <1>6, <1>7

(* s occurs in t behind the first i entries.                                  *)
Occurs(t, s, i) == \A j \in 1 .. Len(s) : t[i + j] = s[j]

(* String::find() gives the first occurrence, or -1.                          *)
LEMMA FindIsFirst ==
  ASSUME NEW t \in Seq(Int), NEW s \in Seq(Int)
  PROVE  \/ Find(t, s) = -1 /\ \A i \in 0 .. Len(t) - Len(s) : ~Occurs(t, s, i)
         \/ /\ Find(t, s) \in 0 .. Len(t) - Len(s) /\ Occurs(t, s, Find(t, s))
            /\ \A i \in 0 .. Len(t) - Len(s) : Occurs(t, s, i) => Find(t, s) <= i
  <1>1. PICK P : P = {i \in 0 .. (Len(t) - Len(s)) : SubSeq(t, i + 1, i + Len(s)) = s}
    OBVIOUS
  <1>2. Len(t) \in Nat /\ Len(s) \in Nat
    BY LenProperties
  <1>3. ASSUME NEW i \in 0 .. Len(t) - Len(s) PROVE i \in P <=> Occurs(t, s, i)
    <2>1. PICK x : x = SubSeq(t, i + 1, i + Len(s))
      OBVIOUS
    <2>2. i \in Nat /\ i + Len(s) \in i .. Len(t) /\ i + Len(s) - i = Len(s)
      BY <1>2, <1>3
    <2>3. x \in Seq(Int) /\ Len(x) = Len(s) /\ \A j \in 1 .. Len(s) : x[j] = t[i + j]
      <3>1. /\ x \in Seq(Int) /\ Len(x) = i + Len(s) - i
            /\ \A j \in 1 .. i + Len(s) - i : x[j] = t[i + j]
        BY <2>1, <2>2, PieceFrom
      <3> QED
        BY ONLY <2>2, <3>1
    <2>4. x = s <=> \A j \in 1 .. Len(s) : x[j] = s[j]
      <3>1. (\A j \in 1 .. Len(x) : x[j] = s[j]) => x = s
        BY ONLY <2>3, s \in Seq(Int), SeqEqual
      <3> QED
        BY <2>3, <3>1
    <2>5. Occurs(t, s, i) <=> \A j \in 1 .. Len(s) : x[j] = s[j]
      BY <2>3 DEF Occurs
    <2> QED
      BY <1>1, <2>1, <2>4, <2>5
  <1>4. Find(t, s) = IF P = {} THEN -1 ELSE CHOOSE i \in P : \A j \in P : i <= j
    BY <1>1 DEF Find
  <1>5. CASE P = {}
    BY <1>3, <1>4, <1>5
  <1>6. CASE P # {}
    <2>1. P \in SUBSET Nat /\ P \subseteq 0 .. Len(t) - Len(s)
      BY <1>1, <1>2
    <2>2. \E i \in P : \A j \in P : i <= j
      BY <1>6, <2>1, LeastElement
    <2>3. Find(t, s) \in P /\ \A j \in P : Find(t, s) <= j
      <3>1. PICK c : c = CHOOSE i \in P : \A j \in P : i <= j
        OBVIOUS
      <3>2. c \in P /\ \A j \in P : c <= j
        BY <2>2, <3>1
      <3> QED
        BY <1>4, <1>6, <3>1, <3>2
    <2> QED
      BY <1>3, <2>1, <2>3
  <1> QED
    BY <1>5, <1>6

(* Where the symbols of an encoded part are.                                  *)
LEMMA EncodedPart ==
  ASSUME NEW p \in PartType
  PROVE  /\ Encoded(p) \in Seq(Int) /\ Len(Encoded(p)) = HeaderLen(p) + p.length + 1
         /\ Encoded(p)[1] = Boundary /\ Encoded(p)[2] = Break
         /\ Encoded(p)[3] = TypeHeader /\ Encoded(p)[4] = Break
         /\ p.sized => Encoded(p)[5] = p.length /\ Encoded(p)[6] = Break
         /\ Encoded(p)[HeaderLen(p)] = Break
         /\ \A j \in 1 .. p.length : Encoded(p)[HeaderLen(p) + j] = Datum
         /\ Encoded(p)[HeaderLen(p) + p.length + 1] = Break
  <1>0. p.sized \in BOOLEAN /\ p.length \in Nat
    BY DEF PartType
  <1>1. PICK L, h : L = p.length /\ h = HeaderLen(p)
    OBVIOUS
  <1>2. PICK a, b, c, d :
          /\ a = <<Boundary, Break, TypeHeader, Break>>
          /\ b = IF p.sized THEN <<p.length, Break>> ELSE <<>>
          /\ c = <<Break>> /\ d = Data(p.length)
    OBVIOUS
  <1>3. PICK u, v, w, x : u = a \o b /\ v = u \o c /\ w = v \o d /\ x = w \o c
    OBVIOUS
  <1>4. x = Encoded(p)
    BY <1>2, <1>3 DEF Encoded
  <1>5. /\ a \in Seq(Int) /\ Len(a) = 4
        /\ a[1] = Boundary /\ a[2] = Break /\ a[3] = TypeHeader /\ a[4] = Break
    BY <1>2 DEF Boundary, Break, TypeHeader
  <1>6. /\ b \in Seq(Int) /\ Len(b) = h - 5 /\ h \in {5, 7}
        /\ p.sized => h = 7 /\ b[1] = L /\ b[2] = Break
    <2>1. CASE p.sized
      <3>1. b = <<L, Break>> /\ h = 7 /\ L \in Int /\ Break \in Int
        BY <1>0, <1>1, <1>2, <2>1 DEF HeaderLen, Break
      <3> QED
        BY <3>1, <2>1
    <2>2. CASE ~p.sized
      <3>1. b = <<>> /\ h = 5
        BY <1>1, <1>2, <2>2 DEF HeaderLen
      <3> QED
        BY <3>1, <2>2
    <2> QED
      BY <1>0, <2>1, <2>2
  <1>7. c \in Seq(Int) /\ Len(c) = 1 /\ c[1] = Break
    BY <1>2 DEF Break
  <1>8. d \in Seq(Int) /\ Len(d) = L /\ \A j \in 1 .. L : d[j] = Datum
    <2>1. d \in [1 .. L -> Int] /\ \A j \in 1 .. L : d[j] = Datum
      BY <1>0, <1>1, <1>2 DEF Data, Datum
    <2> QED
      BY <1>0, <1>1, <2>1, FunctionIsSeq
  <1>9. /\ u \in Seq(Int) /\ Len(u) = h - 1
        /\ \A i \in 1 .. 4 : u[i] = a[i]
        /\ \A j \in 1 .. h - 5 : u[4 + j] = b[j]
    <2>1. IsJoined(Int, a, b, u)
      BY <1>3, <1>5, <1>6 DEF IsJoined
    <2>2. /\ u \in Seq(Int) /\ Len(u) = Len(a) + Len(b)
          /\ \A i \in 1 .. Len(a) : u[i] = a[i]
          /\ \A j \in 1 .. Len(b) : u[Len(a) + j] = b[j]
      BY ONLY <2>1, Joined
    <2>3. /\ u \in Seq(Int) /\ Len(u) = 4 + Len(b)
          /\ \A i \in 1 .. 4 : u[i] = a[i]
          /\ \A j \in 1 .. Len(b) : u[4 + j] = b[j]
      BY ONLY <2>2, <1>5
    <2>4. Len(b) = h - 5 /\ 4 + Len(b) = h - 1
      BY <1>6
    <2> QED
      BY ONLY <2>3, <2>4
  <1>10. v \in Seq(Int) /\ Len(v) = h /\ v[h] = Break /\ \A i \in 1 .. h - 1 : v[i] = u[i]
    <2>1. IsJoined(Int, u, c, v)
      BY <1>3, <1>7, <1>9 DEF IsJoined
    <2>2. /\ v \in Seq(Int) /\ Len(v) = Len(u) + Len(c)
          /\ \A i \in 1 .. Len(u) : v[i] = u[i]
          /\ \A j \in 1 .. Len(c) : v[Len(u) + j] = c[j]
      BY ONLY <2>1, Joined
    <2>3. /\ v \in Seq(Int) /\ Len(v) = h - 1 + Len(c)
          /\ \A i \in 1 .. h - 1 : v[i] = u[i]
          /\ \A j \in 1 .. Len(c) : v[h - 1 + j] = c[j]
      BY ONLY <2>2, <1>9
    <2>4. Len(c) = 1 /\ h - 1 + Len(c) = h /\ 1 \in 1 .. Len(c) /\ h - 1 + 1 = h
      BY <1>6, <1>7
    <2>5. v[h - 1 + 1] = c[1]
      BY ONLY <2>3, <2>4
    <2> QED
      BY ONLY <1>7, <2>3, <2>4, <2>5
  <1>11. /\ w \in Seq(Int) /\ Len(w) = h + L
         /\ \A i \in 1 .. h : w[i] = v[i]
         /\ \A j \in 1 .. L : w[h + j] = Datum
    <2>1. IsJoined(Int, v, d, w)
      BY <1>3, <1>8, <1>10 DEF IsJoined
    <2>2. /\ w \in Seq(Int) /\ Len(w) = Len(v) + Len(d)
          /\ \A i \in 1 .. Len(v) : w[i] = v[i]
          /\ \A j \in 1 .. Len(d) : w[Len(v) + j] = d[j]
      BY ONLY <2>1, Joined
    <2>3. /\ w \in Seq(Int) /\ Len(w) = h + Len(d)
          /\ \A i \in 1 .. h : w[i] = v[i]
          /\ \A j \in 1 .. Len(d) : w[h + j] = d[j]
      BY ONLY <2>2, <1>10
    <2> QED
      BY ONLY <1>8, <2>3
  <1>12. /\ x \in Seq(Int) /\ Len(x) = h + L + 1 /\ x[h + L + 1] = Break
         /\ \A i \in 1 .. h + L : x[i] = w[i]
    <2>1. IsJoined(Int, w, c, x)
      BY <1>3, <1>7, <1>11 DEF IsJoined
    <2>2. /\ x \in Seq(Int) /\ Len(x) = Len(w) + Len(c)
          /\ \A i \in 1 .. Len(w) : x[i] = w[i]
          /\ \A j \in 1 .. Len(c) : x[Len(w) + j] = c[j]
      BY ONLY <2>1, Joined
    <2>3. /\ x \in Seq(Int) /\ Len(x) = h + L + Len(c)
          /\ \A i \in 1 .. h + L : x[i] = w[i]
          /\ \A j \in 1 .. Len(c) : x[h + L + j] = c[j]
      BY ONLY <2>2, <1>11
    <2>4. Len(c) = 1 /\ 1 \in 1 .. Len(c)
      BY <1>7
    <2>5. x[h + L + 1] = c[1]
      BY ONLY <2>3, <2>4
    <2> QED
      BY ONLY <1>7, <2>3, <2>4, <2>5
  <1>13. h \in Nat /\ L \in Nat
    BY <1>0, <1>1, <1>6
  <1>14. ASSUME NEW i \in 1 .. h - 1 PROVE x[i] = u[i]
    <2>1. i \in 1 .. h /\ i \in 1 .. h + L
      BY <1>13
    <2> QED
      BY ONLY <1>10, <1>11, <1>12, <2>1, <1>14
  <1>15. x[1] = Boundary /\ x[2] = Break /\ x[3] = TypeHeader /\ x[4] = Break
    <2>1. \A i \in 1 .. 4 : i \in 1 .. h - 1 /\ u[i] = a[i]
      BY <1>6, <1>9
    <2>2. x[1] = a[1] /\ x[2] = a[2] /\ x[3] = a[3] /\ x[4] = a[4]
      BY ONLY <1>14, <2>1
    <2> QED
      BY <1>5, <2>2
  <1>16. ASSUME p.sized PROVE x[5] = L /\ x[6] = Break
    <2>1. 5 \in 1 .. h - 1 /\ 6 \in 1 .. h - 1 /\ 1 \in 1 .. h - 5 /\ 2 \in 1 .. h - 5
      BY <1>6, <1>16
    <2>2. u[4 + 1] = b[1] /\ u[4 + 2] = b[2]
      BY ONLY <1>9, <2>1
    <2> QED
      BY <1>6, <1>14, <1>16, <2>1, <2>2
  <1>17. x[h] = Break
    <2>1. h \in 1 .. h /\ h \in 1 .. h + L
      BY <1>6, <1>13
    <2> QED
      BY <1>10, <1>11, <1>12, <2>1
  <1>18. ASSUME NEW j \in 1 .. L PROVE x[h + j] = Datum
    <2>1. h + j \in 1 .. h + L
      BY <1>13
    <2> QED
      BY ONLY <1>11, <1>12, <1>18, <2>1
  <1>19. PICK e : e = Encoded(p)
    OBVIOUS
  <1> QED
    BY <1>1, <1>4, <1>12, <1>15, <1>16, <1>17, <1>18

(* Bodies are so marked.                                                      *)
LEMMA BodyMarked ==
  ASSUME NEW ps \in PartLists
  PROVE  BodyOf(ps) \in Seq(Int) /\ \E at : Marks(BodyOf(ps), ps, at)
  <1>1. ps \in Seq(PartType)
    BY MultipartAssumption DEF PartType
  <1>2. PICK seqs, n : seqs = [i \in DOMAIN ps |-> Encoded(ps[i])] /\ n = Len(ps)
    OBVIOUS
  <1>3. n \in Nat /\ DOMAIN ps = 1 .. n /\ \A i \in 1 .. n : ps[i] \in PartType
    BY <1>1, <1>2, LenProperties, ElementOfSeq
  <1>4. /\ seqs \in Seq(Seq(Int)) /\ Len(seqs) = n
        /\ \A i \in 1 .. n : seqs[i] = Encoded(ps[i])
    <2>1. \A i \in 1 .. n : Encoded(ps[i]) \in Seq(Int)
      BY <1>3, EncodedPart
    <2>2. seqs \in [1 .. n -> Seq(Int)] /\ \A i \in 1 .. n : seqs[i] = Encoded(ps[i])
      BY <1>2, <1>3, <2>1
    <2> QED
      BY <1>3, <2>2, FunctionIsSeq
  <1>5. PICK F, e : F = FlattenSeq(seqs) /\ e = <<Boundary, Break>>
    OBVIOUS
  <1>6. F \in Seq(Int) /\ \E at : LaidOut(F, seqs, at)
    BY <1>4, <1>5, AnyFlattened
  <1>7. PICK at : LaidOut(F, seqs, at)
    BY <1>6
  <1>8. /\ e \in Seq(Int) /\ Len(e) = 2 /\ e[1] = Boundary /\ e[2] = Break
    BY <1>5 DEF Boundary, Break
  <1>9. PICK T : T = BodyOf(ps)
    OBVIOUS
  <1>10. T = F \o e
    BY <1>2, <1>5, <1>9 DEF BodyOf
  <1>11. PICK f : f = Len(F)
    OBVIOUS
  <1>12. f \in Nat
    BY <1>6, <1>11, LenProperties
  <1>13. /\ T \in Seq(Int) /\ Len(T) = f + 2
         /\ \A i \in 1 .. f : T[i] = F[i]
         /\ \A j \in 1 .. 2 : T[f + j] = e[j]
    <2>1. IsJoined(Int, F, e, T)
      BY <1>6, <1>8, <1>10 DEF IsJoined
    <2>2. /\ T \in Seq(Int) /\ Len(T) = Len(F) + Len(e)
          /\ \A i \in 1 .. Len(F) : T[i] = F[i]
          /\ \A j \in 1 .. Len(e) : T[Len(F) + j] = e[j]
      BY ONLY <2>1, Joined
    <2>3. /\ T \in Seq(Int) /\ Len(T) = f + Len(e)
          /\ \A i \in 1 .. f : T[i] = F[i]
          /\ \A j \in 1 .. Len(e) : T[f + j] = e[j]
      BY ONLY <2>2, <1>11
    <2> QED
      BY ONLY <1>8, <2>3
  <1>14. /\ at \in [1 .. n + 1 -> Nat] /\ at[1] = 0 /\ at[n + 1] = f
         /\ \A i \in 1 .. n :
              /\ at[i + 1] = at[i] + Len(seqs[i]) /\ at[i + 1] <= f
              /\ \A j \in 1 .. Len(seqs[i]) : F[at[i] + j] = seqs[i][j]
    BY <1>4, <1>7, <1>11 DEF LaidOut
  <1>15. ASSUME NEW i \in 1 .. n
         PROVE  /\ at[i] \in Nat /\ HeaderLen(ps[i]) \in {5, 7} /\ ps[i].length \in Nat
                /\ ps[i].sized => HeaderLen(ps[i]) = 7
                /\ at[i + 1] = at[i] + HeaderLen(ps[i]) + ps[i].length + 1 /\ at[i + 1] <= f
                /\ \A j \in 1 .. HeaderLen(ps[i]) + ps[i].length + 1 :
                     T[at[i] + j] = Encoded(ps[i])[j]
    <2>1. PICK h, L : h = HeaderLen(ps[i]) /\ L = ps[i].length
      OBVIOUS
    <2>2. /\ i \in 1 .. n + 1 /\ h \in {5, 7} /\ L \in Nat /\ (ps[i].sized => h = 7)
          /\ seqs[i] = Encoded(ps[i])
      BY <1>3, <1>4, <2>1 DEF PartType, HeaderLen
    <2>3. at[i] \in Nat
      BY <1>14, <2>2
    <2>4. Len(seqs[i]) = h + L + 1
      BY <1>3, <2>1, <2>2, EncodedPart
    <2>5. /\ at[i + 1] = at[i] + (h + L + 1) /\ at[i + 1] <= f
          /\ \A j \in 1 .. h + L + 1 : F[at[i] + j] = seqs[i][j]
      BY <1>14, <2>4
    <2>6. ASSUME NEW j \in 1 .. h + L + 1 PROVE T[at[i] + j] = Encoded(ps[i])[j]
      <3>1. PICK k : k = at[i] + j
        OBVIOUS
      <3>2. k \in 1 .. f
        BY <1>12, <2>2, <2>3, <2>5, <3>1
      <3>3. T[k] = F[k]
        BY ONLY <1>13, <3>2
      <3> QED
        BY <2>2, <2>5, <3>1, <3>3
    <2> QED
      BY <2>1, <2>2, <2>3, <2>5, <2>6
  <1>16. ASSUME NEW i \in 1 .. n
         PROVE  /\ at[i + 1] = at[i] + HeaderLen(ps[i]) + ps[i].length + 1
                /\ at[i] + 2 <= Len(T)
                /\ T[at[i] + 1] = Boundary /\ T[at[i] + 2] = Break
                /\ T[at[i] + 3] = TypeHeader /\ T[at[i] + 4] = Break
                /\ ps[i].sized => T[at[i] + 5] = ps[i].length /\ T[at[i] + 6] = Break
                /\ T[at[i] + HeaderLen(ps[i])] = Break
                /\ \A j \in 1 .. ps[i].length : T[at[i] + HeaderLen(ps[i]) + j] = Datum
                /\ T[at[i] + HeaderLen(ps[i]) + ps[i].length + 1] = Break
    <2>1. PICK a, h, L, E : a = at[i] /\ h = HeaderLen(ps[i]) /\ L = ps[i].length /\ E = Encoded(ps[i])
      OBVIOUS
    <2>2. /\ a \in Nat /\ h \in {5, 7} /\ L \in Nat /\ (ps[i].sized => h = 7)
          /\ at[i + 1] = a + h + L + 1 /\ at[i + 1] <= f
          /\ \A j \in 1 .. h + L + 1 : T[a + j] = E[j]
      BY <1>15, <2>1
    <2>3. /\ E[1] = Boundary /\ E[2] = Break /\ E[3] = TypeHeader /\ E[4] = Break
          /\ ps[i].sized => E[5] = L /\ E[6] = Break
          /\ E[h] = Break /\ E[h + L + 1] = Break
          /\ \A j \in 1 .. L : E[h + j] = Datum
      BY <1>3, <2>1, EncodedPart
    <2>4. /\ 1 \in 1 .. h + L + 1 /\ 2 \in 1 .. h + L + 1 /\ 3 \in 1 .. h + L + 1
          /\ 4 \in 1 .. h + L + 1 /\ h \in 1 .. h + L + 1 /\ h + L + 1 \in 1 .. h + L + 1
          /\ ps[i].sized => 5 \in 1 .. h + L + 1 /\ 6 \in 1 .. h + L + 1
      BY <2>2
    <2>5. /\ T[a + 1] = Boundary /\ T[a + 2] = Break /\ T[a + 3] = TypeHeader /\ T[a + 4] = Break
          /\ T[a + h] = Break
      BY ONLY <2>2, <2>3, <2>4
    <2>6. ps[i].sized => T[a + 5] = L /\ T[a + 6] = Break
      BY ONLY <2>2, <2>3, <2>4
    <2>7. T[a + h + L + 1] = Break
      <3>1. T[a + (h + L + 1)] = Break /\ a + (h + L + 1) = a + h + L + 1
        BY <2>2, <2>3, <2>4
      <3> QED
        BY <3>1
    <2>8. ASSUME NEW j \in 1 .. L PROVE T[a + h + j] = Datum
      <3>1. h + j \in 1 .. h + L + 1 /\ a + (h + j) = a + h + j
        BY <2>2
      <3>2. T[a + (h + j)] = E[h + j]
        BY ONLY <2>2, <3>1
      <3> QED
        BY <2>3, <3>1, <3>2
    <2>9. a + 2 <= Len(T)
      BY <1>12, <1>13, <2>2
    <2> QED
      BY <2>1, <2>2, <2>5, <2>6, <2>7, <2>8, <2>9
  <1>17. T[f + 1] = Boundary /\ T[f + 2] = Break /\ f + 2 <= Len(T) /\ at[n + 1] = f
    BY <1>8, <1>12, <1>13, <1>14
  <1>18. ASSUME NEW i \in 1 .. n + 1
         PROVE  T[at[i] + 1] = Boundary /\ T[at[i] + 2] = Break /\ at[i] + 2 <= Len(T)
    <2>1. CASE i = n + 1
      BY <1>17, <2>1
    <2>2. CASE i # n + 1
      <3>1. i \in 1 .. n
        BY <1>3, <2>2
      <3> QED
        BY <1>16, <3>1
    <2> QED
      BY <2>1, <2>2
  <1>19. Marks(T, ps, at)
    BY <1>2, <1>13, <1>14, <1>16, <1>17, <1>18 DEF Marks
  <1> QED
    BY <1>9, <1>13, <1>19

(* The part p lies behind position a, and behind it there is a delimiter.     *)
PartAt(T, p, a) ==
  /\ a \in Nat /\ p \in PartType /\ (p.sized => p.length > 0)
  /\ a + HeaderLen(p) + p.length + 3 <= Len(T)
  /\ T[a + 1] = Boundary /\ T[a + 2] = Break /\ T[a + 3] = TypeHeader /\ T[a + 4] = Break
  /\ p.sized => T[a + 5] = p.length /\ T[a + 6] = Break
  /\ T[a + HeaderLen(p)] = Break
  /\ \A j \in 1 .. p.length : T[a + HeaderLen(p) + j] = Datum
  /\ T[a + HeaderLen(p) + p.length + 1] = Break
  /\ T[a + HeaderLen(p) + p.length + 2] = Boundary
  /\ T[a + HeaderLen(p) + p.length + 3] = Break

(* A part of a marked body, and where the next one begins.                    *)
LEMMA MarkedPart ==
  ASSUME NEW ps \in PartLists, NEW T \in Seq(Int), NEW at, Marks(T, ps, at),
         NEW i \in 1 .. Len(ps)
  PROVE  /\ PartAt(T, ps[i], at[i]) /\ at[i + 1] = at[i] + HeaderLen(ps[i]) + ps[i].length + 1
         /\ at[i + 1] \in Nat /\ T[at[i + 1]] = Break
  <1>1. ps \in Seq(PartType) /\ \A k \in DOMAIN ps : ps[k].sized => ps[k].length > 0
    BY MultipartAssumption DEF PartType
  <1>2. /\ Len(ps) \in Nat /\ i \in DOMAIN ps /\ i \in Nat
        /\ i \in 1 .. Len(ps) + 1 /\ i + 1 \in 1 .. Len(ps) + 1
    BY <1>1, LenProperties
  <1>3. PICK p, a, b, h, L : /\ p = ps[i] /\ a = at[i] /\ b = at[i + 1]
                             /\ h = HeaderLen(p) /\ L = p.length
    OBVIOUS
  <1>4. p \in PartType /\ (p.sized => L > 0) /\ a \in Nat /\ b \in Nat
    BY <1>1, <1>2, <1>3, ElementOfSeq DEF Marks
  <1>5. L \in Nat /\ h \in Nat
    BY <1>3, <1>4 DEF PartType, HeaderLen
  <1>6. /\ b = a + h + L + 1
        /\ T[a + 3] = TypeHeader /\ T[a + 4] = Break
        /\ p.sized => T[a + 5] = L /\ T[a + 6] = Break
        /\ T[a + h] = Break
        /\ \A j \in 1 .. L : T[a + h + j] = Datum
        /\ T[a + h + L + 1] = Break
    BY <1>3 DEF Marks
  <1>7. T[a + 1] = Boundary /\ T[a + 2] = Break
    BY <1>2, <1>3 DEF Marks
  <1>8. T[b + 1] = Boundary /\ T[b + 2] = Break /\ b + 2 <= Len(T)
    BY <1>2, <1>3 DEF Marks
  <1>9. Len(T) \in Nat /\ b + 1 = a + h + L + 2 /\ b + 2 = a + h + L + 3
    BY <1>4, <1>5, <1>6, LenProperties
  <1>10. T[a + h + L + 2] = Boundary /\ T[a + h + L + 3] = Break /\ a + h + L + 3 <= Len(T)
    BY ONLY <1>8, <1>9
  <1>11. PartAt(T, p, a)
    BY ONLY <1>3, <1>4, <1>6, <1>7, <1>10 DEF PartAt
  <1> QED
    BY <1>3, <1>4, <1>6, <1>11

(* What is added and compared is a number.                                    *)
LEMMA PartTypes ==
  ASSUME NEW T, NEW p, NEW a, PartAt(T, p, a)
  PROVE  /\ a \in Nat /\ p.length \in Nat /\ HeaderLen(p) \in {5, 7} /\ p.sized \in BOOLEAN
         /\ p.sized => HeaderLen(p) = 7 /\ p.length > 0
         /\ ~p.sized => HeaderLen(p) = 5
  BY DEF PartAt, PartType, HeaderLen

(* Between parts, with the header of p ahead; x is what came behind c.        *)
HeaderAhead(T, p, a, c, r, x) ==
  /\ T \in Seq(Int) /\ PartAt(T, p, a) /\ c \in Nat /\ r \in c .. Len(T)
  /\ c = a \/ (c + 1 = a /\ T[a] = Break)
  /\ x = SubSeq(T, c + 1, r)

(* Two breaks at the end of the header, and none before.                      *)
LEMMA HeaderFound ==
  ASSUME NEW T, NEW p, NEW a, NEW c, NEW r, NEW x, HeaderAhead(T, p, a, c, r, x)
  PROVE  Find(x, <<Break, Break>>) = IF a + HeaderLen(p) <= r THEN a + HeaderLen(p) - 2 - c ELSE -1
  <1>0. /\ T \in Seq(Int) /\ PartAt(T, p, a) /\ c \in Nat /\ r \in c .. Len(T)
        /\ c = a \/ (c + 1 = a /\ T[a] = Break)
        /\ x = SubSeq(T, c + 1, r)
    BY DEF HeaderAhead
  <1>1. PICK h, s, e : h = HeaderLen(p) /\ s = <<Break, Break>> /\ e = Find(x, s)
    OBVIOUS
  <1>2. /\ a \in Nat /\ h \in {5, 7} /\ (p.sized => h = 7) /\ (~p.sized => h = 5)
        /\ p.sized \in BOOLEAN /\ (p.sized => p.length > 0) /\ p.length \in Nat
    BY <1>0, <1>1, PartTypes
  <1>3. Len(T) \in Nat /\ r \in Nat /\ c <= r /\ r <= Len(T)
    BY <1>0, LenProperties
  <1>4. x \in Seq(Int) /\ Len(x) = r - c /\ \A i \in 1 .. r - c : x[i] = T[c + i]
    BY <1>0, PieceFrom
  <1>5. s \in Seq(Int) /\ Len(s) = 2 /\ s[1] = Break /\ s[2] = Break
    BY <1>1 DEF Break
  <1>6. ASSUME NEW k \in Nat, c < k, k + 1 <= a + h, T[k] = Break, T[k + 1] = Break
        PROVE  k = a + h - 1
    <2>1. /\ T[a + 1] = Boundary /\ T[a + 3] = TypeHeader
          /\ p.sized => T[a + 5] = p.length
      BY <1>0 DEF PartAt
    <2>2. k # a + 1 /\ k # a + 3 /\ k + 1 # a + 1 /\ k + 1 # a + 3
      BY <1>6, <2>1 DEF Break, Boundary, TypeHeader
    <2>3. p.sized => k # a + 5 /\ k + 1 # a + 5
      <3> SUFFICES ASSUME p.sized PROVE k # a + 5 /\ k + 1 # a + 5
        OBVIOUS
      <3>1. T[a + 5] # Break
        BY <1>2, <2>1 DEF Break
      <3> QED
        BY <1>6, <3>1
    <2>4. k \in {a, a + 1, a + 2, a + 3, a + 4, a + 5, a + 6} /\ k >= a
      <3>1. a \in Nat /\ h \in {5, 7} /\ k \in Nat /\ k + 1 <= a + h /\ k + 1 > a
        BY <1>0, <1>2, <1>6
      <3> QED
        BY ONLY <3>1
    <2> QED
      BY <1>2, <1>6, <2>2, <2>3, <2>4
  <1>7. ASSUME NEW i \in 0 .. Len(x) - Len(s)
        PROVE  Occurs(x, s, i) <=> T[c + i + 1] = Break /\ T[c + i + 2] = Break
    <2>1. i + 1 \in 1 .. r - c /\ i + 2 \in 1 .. r - c
      BY <1>3, <1>4, <1>5
    <2>2. c + (i + 1) = c + i + 1 /\ c + (i + 2) = c + i + 2
      BY <1>0, <2>1
    <2>3. x[i + 1] = T[c + i + 1] /\ x[i + 2] = T[c + i + 2]
      BY <1>4, <2>1, <2>2
    <2>4. Occurs(x, s, i) <=> x[i + 1] = s[1] /\ x[i + 2] = s[2]
      <3>1. 1 .. Len(s) = {1, 2}
        BY <1>5
      <3> QED
        BY ONLY <3>1 DEF Occurs
    <2> QED
      BY <1>5, <2>3, <2>4
  <1>8. ASSUME NEW i \in 0 .. Len(x) - Len(s), Occurs(x, s, i), c + i + 2 <= a + h
        PROVE  i = a + h - 2 - c
    <2>1. PICK k : k = c + i + 1
      OBVIOUS
    <2>2. k \in Nat /\ c < k /\ k + 1 = c + i + 2
      BY <1>0, <2>1
    <2>3. T[k] = Break /\ T[k + 1] = Break
      BY <1>7, <1>8, <2>1, <2>2
    <2>4. k = a + h - 1
      BY <1>6, <1>8, <2>2, <2>3
    <2> QED
      <3>1. a \in Nat /\ c \in Nat /\ h \in {5, 7} /\ i \in Int
        BY <1>0, <1>2, <1>4, <1>5
      <3> QED
        BY ONLY <2>1, <2>4, <3>1
  <1>9. CASE a + h <= r
    <2>1. PICK i : i = a + h - 2 - c
      OBVIOUS
    <2>2. i \in 0 .. Len(x) - Len(s) /\ c + i + 1 = a + h - 1 /\ c + i + 2 = a + h
      <3>1. a \in Nat /\ r \in Nat /\ h \in {5, 7} /\ Len(x) = r - c /\ Len(s) = 2
        BY <1>2, <1>3, <1>4, <1>5
      <3>2. c \in Nat /\ (c = a \/ c + 1 = a)
        BY <1>0
      <3> QED
        BY ONLY <1>9, <2>1, <3>1, <3>2
    <2>3. T[a + h] = Break /\ T[a + h - 1] = Break
      <3>1. CASE p.sized
        <4>1. T[a + 6] = Break /\ a + h - 1 = a + 6
          BY <1>0, <1>2, <3>1 DEF PartAt
        <4> QED
          BY <1>0, <1>1, <4>1 DEF PartAt
      <3>2. CASE ~p.sized
        <4>1. T[a + 4] = Break /\ a + h - 1 = a + 4
          BY <1>0, <1>2, <3>2 DEF PartAt
        <4> QED
          BY <1>0, <1>1, <4>1 DEF PartAt
      <3> QED
        BY <1>2, <3>1, <3>2
    <2>4. Occurs(x, s, i)
      BY <1>7, <2>2, <2>3
    <2>5. e \in 0 .. Len(x) - Len(s) /\ Occurs(x, s, e) /\ e <= i
      BY <1>1, <1>4, <1>5, <2>2, <2>4, FindIsFirst
    <2>6. c + e + 2 <= a + h
      BY <1>0, <2>2, <2>5
    <2>7. e = i
      BY <1>8, <2>1, <2>5, <2>6
    <2> QED
      BY <1>1, <1>9, <2>1, <2>7
  <1>10. CASE ~(a + h <= r)
    <2>1. ASSUME NEW i \in 0 .. Len(x) - Len(s), Occurs(x, s, i) PROVE FALSE
      <3>1. c + i + 2 <= r /\ c + i + 2 <= a + h
        BY <1>0, <1>2, <1>3, <1>4, <1>5, <1>10
      <3>2. i = a + h - 2 - c
        BY <1>8, <2>1, <3>1
      <3> QED
        BY <1>0, <1>2, <1>3, <1>10, <3>1, <3>2
    <2>2. e = -1
      BY <1>1, <1>4, <1>5, <2>1, FindIsFirst
    <2> QED
      BY <1>1, <1>10, <2>2
  <1> QED
    BY <1>9, <1>10

(* No header is behind the last part.                                         *)
LEMMA NoHeaderFound ==
  ASSUME NEW T \in Seq(Int), NEW a \in Nat, Len(T) = a + 2,
         T[a + 1] = Boundary, NEW c \in Nat, c = a \/ c + 1 = a, NEW r \in c .. Len(T),
         NEW x, x = SubSeq(T, c + 1, r)
  PROVE  Find(x, <<Break, Break>>) = -1
  <1>1. PICK s, e : s = <<Break, Break>> /\ e = Find(x, s)
    OBVIOUS
  <1>2. r \in Nat /\ c <= r /\ r <= a + 2
    OBVIOUS
  <1>3. x \in Seq(Int) /\ Len(x) = r - c /\ \A i \in 1 .. r - c : x[i] = T[c + i]
    BY PieceFrom
  <1>4. s \in Seq(Int) /\ Len(s) = 2 /\ s[1] = Break /\ s[2] = Break
    BY <1>1 DEF Break
  <1>5. ASSUME NEW i \in 0 .. Len(x) - Len(s), Occurs(x, s, i) PROVE FALSE
    <2>1. i + 1 \in 1 .. r - c /\ i + 2 \in 1 .. r - c /\ 1 \in 1 .. Len(s) /\ 2 \in 1 .. Len(s)
      BY <1>2, <1>3, <1>4
    <2>2. x[i + 1] = Break /\ x[i + 2] = Break
      BY <1>4, <1>5, <2>1 DEF Occurs
    <2>3. T[c + (i + 1)] = Break /\ T[c + (i + 2)] = Break
      BY <1>3, <2>1, <2>2
    <2>4. i \in 0 .. r - c - 2
      BY <1>3, <1>4
    <2>5. c + (i + 1) = a + 1 \/ c + (i + 2) = a + 1
      BY ONLY <1>2, <2>4, a \in Nat, c \in Nat, c = a \/ c + 1 = a
    <2> QED
      BY <2>3, <2>5 DEF Break, Boundary
  <1>6. e = -1
    BY <1>1, <1>3, <1>4, <1>5, FindIsFirst
  <1> QED
    BY <1>1, <1>6

(* The same behind the header of p. *)
DataAhead(T, p, a, c, r, x) ==
  PartAt(T, p, a) /\ c = a + HeaderLen(p) /\ IsPiece(Int, T, c, r, x)

(* The delimiter is found behind the data, if it has come.                    *)
LEMMA DelimiterFound ==
  ASSUME NEW T, NEW p, NEW a, NEW c, NEW r, NEW x, DataAhead(T, p, a, c, r, x)
  PROVE  Find(x, <<Break, Boundary, Break>>) = IF c + p.length + 3 <= r THEN p.length ELSE -1
  <1>0. /\ T \in Seq(Int) /\ PartAt(T, p, a) /\ c \in Nat /\ r \in c .. Len(T)
        /\ c = a + HeaderLen(p) /\ IsPiece(Int, T, c, r, x)
    BY DEF DataAhead, IsPiece
  <1>1. PICK L, s, e : L = p.length /\ s = <<Break, Boundary, Break>> /\ e = Find(x, s)
    OBVIOUS
  <1>2. a \in Nat /\ L \in Nat /\ HeaderLen(p) \in {5, 7}
    BY <1>0, <1>1, PartTypes
  <1>3. Len(T) \in Nat /\ r \in Nat /\ c <= r /\ r <= Len(T)
    BY <1>0, LenProperties
  <1>4. x \in Seq(Int) /\ Len(x) = r - c /\ \A i \in 1 .. r - c : x[i] = T[c + i]
    <2>1. IsPiece(Int, T, c, r, x)
      BY <1>0
    <2> QED
      BY ONLY <2>1, PieceIs
  <1>5. s \in Seq(Int) /\ Len(s) = 3 /\ s[1] = Break /\ s[2] = Boundary /\ s[3] = Break
    BY <1>1 DEF Break, Boundary
  <1>6. /\ \A j \in 1 .. L : T[c + j] = Datum
        /\ T[c + L + 1] = Break /\ T[c + L + 2] = Boundary /\ T[c + L + 3] = Break
    BY <1>0, <1>1 DEF PartAt
  <1>7. c \in Nat
    BY <1>0
  <1>8. ASSUME NEW i \in 0 .. Len(x) - Len(s), Occurs(x, s, i) PROVE L <= i /\ c + L + 3 <= r
    <2>0. i \in 0 .. r - c - 3 /\ 1 \in 1 .. Len(s)
      BY <1>4, <1>5
    <2>1. i \in Nat /\ i + 1 \in 1 .. r - c /\ c + i + 3 <= r
      BY ONLY <1>3, <1>7, <2>0
    <2>2. x[i + 1] = Break
      BY <1>5, <1>8, <2>0, <2>1 DEF Occurs
    <2>3. T[c + (i + 1)] # Datum
      <3>1. x[i + 1] = T[c + (i + 1)]
        BY ONLY <1>4, <2>1
      <3> QED
        BY ONLY <2>2, <3>1 DEF Break, Datum
    <2>4. ~(i + 1 \in 1 .. L)
      BY <1>6, <2>3
    <2>5. i + 1 > L
      BY ONLY <1>2, <2>1, <2>4
    <2> QED
      BY ONLY <1>2, <1>3, <1>7, <2>1, <2>5
  <1>9. CASE c + L + 3 <= r
    <2>0. Len(x) - Len(s) = r - c - 3
      BY <1>4, <1>5
    <2>1. /\ L \in 0 .. Len(x) - Len(s)
          /\ L + 1 \in 1 .. r - c /\ L + 2 \in 1 .. r - c /\ L + 3 \in 1 .. r - c
          /\ c + (L + 1) = c + L + 1 /\ c + (L + 2) = c + L + 2 /\ c + (L + 3) = c + L + 3
      BY ONLY <1>2, <1>3, <1>9, <1>7, <2>0
    <2>2. x[L + 1] = Break /\ x[L + 2] = Boundary /\ x[L + 3] = Break
      BY <1>4, <1>6, <2>1
    <2>3. Occurs(x, s, L)
      <3>1. 1 .. Len(s) = {1, 2, 3}
        BY <1>5
      <3> QED
        BY <1>5, <2>2, <3>1 DEF Occurs
    <2>4. e \in 0 .. Len(x) - Len(s) /\ Occurs(x, s, e) /\ e <= L
      BY <1>1, <1>4, <1>5, <2>1, <2>3, FindIsFirst
    <2>5. L <= e
      BY <1>8, <2>4
    <2>6. e = L
      BY <1>2, <2>1, <2>4, <2>5
    <2> QED
      BY <1>1, <1>9, <2>6
  <1>10. CASE ~(c + L + 3 <= r)
    <2>1. e = -1
      BY <1>1, <1>4, <1>5, <1>8, <1>10, FindIsFirst
    <2> QED
      BY <1>1, <1>10, <2>1
  <1> QED
    BY <1>9, <1>10

(* DropFront drops s where it occurs at the front.                            *)
LEMMA FrontDropped ==
  ASSUME NEW t \in Seq(Int), NEW s \in Seq(Int), s # <<>>
  PROVE  DropFront(t, s) = IF Len(s) <= Len(t) /\ Occurs(t, s, 0)
                             THEN SubSeq(t, Len(s) + 1, Len(t)) ELSE t
  <1>1. PICK e : e = Find(t, s)
    OBVIOUS
  <1>2. Len(t) \in Nat /\ Len(s) \in Nat \ {0}
    BY EmptySeq, LenProperties
  <1>3. CASE Len(s) <= Len(t) /\ Occurs(t, s, 0)
    <2>1. 0 \in 0 .. Len(t) - Len(s)
      BY <1>2, <1>3
    <2>2. e \in 0 .. Len(t) - Len(s) /\ e <= 0
      BY <1>1, <1>3, <2>1, FindIsFirst
    <2>3. e = 0
      BY <1>2, <2>2
    <2> QED
      BY <1>1, <1>3, <2>3 DEF DropFront, Drop
  <1>4. CASE ~(Len(s) <= Len(t) /\ Occurs(t, s, 0))
    <2>1. ASSUME e = 0 PROVE FALSE
      <3>0. \/ e = -1
            \/ e \in 0 .. Len(t) - Len(s) /\ Occurs(t, s, e)
        BY <1>1, FindIsFirst
      <3>1. e \in 0 .. Len(t) - Len(s) /\ Occurs(t, s, e)
        BY ONLY <2>1, <3>0
      <3> QED
        BY <1>2, <1>4, <2>1, <3>1
    <2> QED
      BY <1>1, <1>4, <2>1 DEF DropFront
  <1> QED
    BY <1>3, <1>4

(* Of a whole header, without the delimiter, the length is read.              *)
LEMMA FieldsRead ==
  ASSUME NEW T \in Seq(Int), NEW p, NEW a, PartAt(T, p, a), NEW c \in Nat,
         c = a \/ (c + 1 = a /\ T[a] = Break), NEW r \in c .. Len(T), a + HeaderLen(p) <= r,
         NEW x, x = SubSeq(T, c + 1, r), NEW f,
         f = DropFront(DropFront(SubSeq(x, 1, a + HeaderLen(p) - 2 - c + 1), <<Break>>),
                       <<Boundary, Break>>)
  PROVE  {n \in ToSet(f) : n > 0} = IF p.sized THEN {p.length} ELSE {}
  <1>1. PICK h, k, y, z, s1, s2 :
          /\ h = HeaderLen(p) /\ k = a + h - 1 /\ y = SubSeq(x, 1, a + h - 2 - c + 1)
          /\ s1 = <<Break>> /\ s2 = <<Boundary, Break>> /\ z = DropFront(y, s1)
    OBVIOUS
  <1>2. /\ a \in Nat /\ h \in {5, 7} /\ (p.sized => h = 7 /\ p.length > 0) /\ (~p.sized => h = 5)
        /\ p.sized \in BOOLEAN /\ p.length \in Nat
    BY <1>1, PartTypes
  <1>3. /\ Len(T) \in Nat /\ r \in Nat /\ k \in Nat /\ k <= Len(T) /\ a + h = k + 1
        /\ c <= a /\ a + 4 <= k /\ k + 1 <= r
    <2>1. Len(T) \in Nat /\ k = a + h - 1 /\ a + h <= r
      BY <1>1, LenProperties
    <2>2. c <= a /\ r \in Nat /\ r <= Len(T)
      BY <1>2, <2>1
    <2>3. a \in Nat /\ h \in {5, 7}
      BY <1>2
    <2> QED
      BY ONLY <2>1, <2>2, <2>3
  <1>4. y = SubSeq(T, c + 1, k)
    <2>1. 0 \in 0 .. r - c /\ k - c \in 0 .. r - c
      BY <1>3
    <2>2. SubSeq(SubSeq(T, c + 1, r), 0 + 1, k - c) = SubSeq(T, c + 0 + 1, c + (k - c))
      <3>1. PICK i, j : i = 0 /\ j = k - c
        OBVIOUS
      <3>2. i \in 0 .. r - c /\ j \in i .. r - c
        BY <2>1, <3>1
      <3>3. SubSeq(SubSeq(T, c + 1, r), i + 1, j) = SubSeq(T, c + i + 1, c + j)
        BY <3>2, PieceOfPiece
      <3> QED
        BY <3>1, <3>3
    <2>3. a + h - 2 - c + 1 = k - c /\ 0 + 1 = 1 /\ c + 0 + 1 = c + 1 /\ c + (k - c) = k
      BY ONLY <1>2, <1>3, c \in Nat
    <2>4. y = SubSeq(x, 0 + 1, k - c)
      BY <1>1, <2>3
    <2> QED
      BY <2>2, <2>3, <2>4
  <1>5. y \in Seq(Int) /\ Len(y) = k - c /\ \A i \in 1 .. k - c : y[i] = T[c + i]
    <2>1. k \in c .. Len(T)
      BY <1>3
    <2> QED
      BY <1>4, <2>1, PieceFrom
  <1>6. /\ s1 \in Seq(Int) /\ Len(s1) = 1 /\ s1[1] = Break /\ s1 # <<>>
        /\ s2 \in Seq(Int) /\ Len(s2) = 2 /\ s2[1] = Boundary /\ s2[2] = Break /\ s2 # <<>>
    BY <1>1 DEF Break, Boundary
  <1>7. T[a + 1] = Boundary /\ T[a + 2] = Break
    BY DEF PartAt
  <1>8. z = SubSeq(T, a + 1, k)
    <2>1. 1 <= k - c /\ 1 \in 1 .. k - c /\ 1 .. Len(s1) = {1}
      <3>1. c \in Nat /\ a \in Nat /\ k \in Nat /\ c <= a /\ a + 4 <= k
        BY <1>2, <1>3
      <3>2. Len(s1) = 1
        BY <1>6
      <3> QED
        BY ONLY <3>1, <3>2
    <2>2. Occurs(y, s1, 0) <=> T[c + 1] = Break
      <3>1. Occurs(y, s1, 0) <=> y[1] = s1[1]
        BY <1>6, <2>1 DEF Occurs
      <3> QED
        BY <1>5, <1>6, <2>1, <3>1
    <2>3. z = IF Len(s1) <= Len(y) /\ Occurs(y, s1, 0) THEN SubSeq(y, Len(s1) + 1, Len(y)) ELSE y
      BY ONLY <1>1, <1>5, <1>6, FrontDropped
    <2>4. CASE c = a
      <3>1. T[c + 1] # Break
        BY <1>7, <2>4 DEF Break, Boundary
      <3> QED
        BY <1>4, <2>2, <2>3, <2>4, <3>1
    <2>5. CASE c + 1 = a /\ T[a] = Break
      <3>1. z = SubSeq(y, 1 + 1, k - c)
        BY <1>5, <1>6, <2>1, <2>2, <2>3, <2>5
      <3>2. 1 \in 0 .. k - c /\ k - c \in 1 .. k - c /\ k \in c .. Len(T)
        BY <1>3, <2>1
      <3>3. SubSeq(SubSeq(T, c + 1, k), 1 + 1, k - c) = SubSeq(T, c + 1 + 1, c + (k - c))
        BY <3>2, PieceOfPiece
      <3>4. c + (k - c) = k
        BY <1>3
      <3> QED
        BY <1>4, <2>5, <3>1, <3>3, <3>4
    <2> QED
      BY <2>4, <2>5
  <1>9. z \in Seq(Int) /\ Len(z) = k - a /\ \A i \in 1 .. k - a : z[i] = T[a + i]
    <2>1. a \in Nat /\ k \in a .. Len(T)
      BY <1>2, <1>3
    <2>2. IsPiece(Int, T, a, k, z)
      BY <1>8, <2>1 DEF IsPiece
    <2> QED
      BY ONLY <2>2, PieceIs
  <1>10. f = SubSeq(T, a + 3, k)
    <2>1. /\ 2 <= k - a /\ 1 \in 1 .. k - a /\ 2 \in 1 .. k - a /\ 1 .. Len(s2) = {1, 2}
          /\ k \in a .. Len(T) /\ 2 \in 0 .. k - a /\ k - a \in 2 .. k - a
      <3>1. 2 <= k - a /\ 1 .. Len(s2) = {1, 2}
        BY <1>2, <1>3, <1>6
      <3>2. k \in Nat /\ a \in Nat /\ k <= Len(T) /\ Len(T) \in Nat
        BY <1>2, <1>3
      <3> QED
        BY ONLY <3>1, <3>2
    <2>2. Occurs(z, s2, 0)
      <3>1. z[1] = s2[1] /\ z[2] = s2[2]
        BY <1>6, <1>7, <1>9, <2>1
      <3>2. 1 .. Len(s2) = {1, 2}
        BY <2>1
      <3>3. z[0 + 1] = s2[1] /\ z[0 + 2] = s2[2]
        BY ONLY <3>1
      <3> QED
        BY ONLY <3>2, <3>3 DEF Occurs
    <2>3. DropFront(z, s2) = SubSeq(z, Len(s2) + 1, Len(z))
      BY <1>6, <1>9, <2>1, <2>2, FrontDropped
    <2>4. f = SubSeq(z, 2 + 1, k - a)
      BY <1>1, <1>6, <1>9, <2>3
    <2>5. SubSeq(SubSeq(T, a + 1, k), 2 + 1, k - a) = SubSeq(T, a + 2 + 1, a + (k - a))
      BY <1>2, <2>1, PieceOfPiece
    <2>6. a + (k - a) = k /\ a + 2 + 1 = a + 3
      BY <1>2, <1>3
    <2> QED
      BY <1>8, <2>4, <2>5, <2>6
  <1>11. f \in Seq(Int) /\ Len(f) = k - (a + 2) /\ \A i \in 1 .. k - (a + 2) : f[i] = T[a + 2 + i]
    <2>1. a + 2 \in Nat /\ k \in a + 2 .. Len(T) /\ a + 2 + 1 = a + 3
      BY <1>2, <1>3
    <2>2. /\ SubSeq(T, a + 2 + 1, k) \in Seq(Int) /\ Len(SubSeq(T, a + 2 + 1, k)) = k - (a + 2)
          /\ \A i \in 1 .. k - (a + 2) : SubSeq(T, a + 2 + 1, k)[i] = T[a + 2 + i]
      BY <2>1, PieceFrom
    <2> QED
      BY <1>10, <2>1, <2>2
  <1>12. ToSet(f) = {f[i] : i \in 1 .. Len(f)}
    <2>1. DOMAIN f = 1 .. Len(f)
      BY <1>11, LenProperties
    <2> QED
      BY <2>1 DEF ToSet
  <1>13. Len(f) = h - 3
    BY ONLY <1>2, <1>3, <1>11
  <1>14. T[a + 3] = TypeHeader /\ T[a + 4] = Break /\ (p.sized => T[a + 5] = p.length /\ T[a + 6] = Break)
    BY DEF PartAt
  <1>15. \A i \in 1 .. Len(f) : f[i] = T[a + (2 + i)]
    <2>1. \A i \in 1 .. Len(f) : a + 2 + i = a + (2 + i)
      BY <1>2, <1>11
    <2> QED
      BY <1>11, <2>1
  <1>16. CASE p.sized
    <2>1. 1 .. Len(f) = {1, 2, 3, 4}
      BY ONLY <1>2, <1>13, <1>16
    <2>2. f[1] = TypeHeader /\ f[2] = Break /\ f[3] = p.length /\ f[4] = Break
      <3>1. f[1] = T[a + (2 + 1)] /\ f[2] = T[a + (2 + 2)] /\ f[3] = T[a + (2 + 3)] /\ f[4] = T[a + (2 + 4)]
        BY ONLY <1>15, <2>1
      <3>2. 2 + 1 = 3 /\ 2 + 2 = 4 /\ 2 + 3 = 5 /\ 2 + 4 = 6
        OBVIOUS
      <3> QED
        BY ONLY <1>14, <1>16, <3>1, <3>2
    <2>3. ToSet(f) = {TypeHeader, Break, p.length}
      BY ONLY <1>12, <2>1, <2>2
    <2> QED
      BY ONLY <1>2, <1>16, <2>3 DEF TypeHeader, Break
  <1>17. CASE ~p.sized
    <2>1. 1 .. Len(f) = {1, 2}
      BY ONLY <1>2, <1>13, <1>17
    <2>2. f[1] = TypeHeader /\ f[2] = Break
      <3>1. f[1] = T[a + (2 + 1)] /\ f[2] = T[a + (2 + 2)]
        BY ONLY <1>15, <2>1
      <3>2. 2 + 1 = 3 /\ 2 + 2 = 4
        OBVIOUS
      <3> QED
        BY ONLY <1>14, <3>1, <3>2
    <2>3. ToSet(f) = {TypeHeader, Break}
      BY ONLY <1>12, <2>1, <2>2
    <2> QED
      BY <1>17, <2>3 DEF TypeHeader, Break
  <1> QED
    BY <1>2, <1>16, <1>17

MultipartTypeOK ==
  /\ parts \in PartLists
  /\ coming \in Seq(Int) /\ frag \in Seq(Int) /\ head \in Seq(Int)
  /\ resp = NoPart \/ resp \in [size : Nat, body : Seq(Int)]
  /\ fragments \in 0 .. MaxFragments
  /\ firstFrag \in BOOLEAN /\ boundary \in BOOLEAN /\ listening \in BOOLEAN
  /\ delivered \in Seq(Seq(Int))
  /\ fragments = 0 => frag = <<>> /\ resp = NoPart
  /\ ~boundary => firstFrag /\ frag = <<>>

(* What is kept of the fragments before, and where in the body it begins: at  *)
(* the break before a delimiter, or at the data of the part in progress.      *)
Held == IF resp = NoPart THEN head ELSE resp.body
Origin(at) ==
  IF resp # NoPart THEN at[Len(delivered) + 1] + HeaderLen(parts[Len(delivered) + 1])
  ELSE IF delivered = <<>> THEN 0 ELSE at[Len(delivered) + 1] - 1

(* A text part of which more than its data is held is never passed on; then a *)
(* fragment ended in the delimiter, whose first break is the e-th symbol.     *)
PartInProgress(p, e) ==
  /\ head = <<>>
  /\ IF p.sized THEN resp.size = p.length /\ Len(resp.body) < p.length
     ELSE resp.size = 0 \/ (resp.size = p.length /\ Len(resp.body) > p.length)
  /\ ~p.sized /\ Len(resp.body) > p.length => e \in cuts \/ e + 1 \in cuts

(* Where the parser is in the body. *)
InPlace(at) ==
  /\ Origin(at) <= Received
  /\ Held \o frag = SubSeq(BodyOf(parts), Origin(at) + 1, Received)
  /\ resp = NoPart => \A i \in 1 .. Len(head) - 1 : ~(head[i] = Break /\ head[i + 1] = Break)
  /\ resp # NoPart =>
       /\ Len(delivered) < Len(parts)
       /\ PartInProgress(parts[Len(delivered) + 1], at[Len(delivered) + 2])

InStep(at) ==
  /\ Len(coming) <= Len(BodyOf(parts))
  /\ coming = SubSeq(BodyOf(parts), Received + 1, Len(BodyOf(parts)))
  /\ frag # <<>> => Received \in cuts
  /\ Len(delivered) <= Len(parts)
  /\ \A i \in 1 .. Len(delivered) : delivered[i] = Data(parts[i].length)
  /\ listening => InPlace(at)

(* A fragment that ended before the symbol in hand is processed up to there,  *)
(* and of no text part passed on was the delimiter cut.                       *)
CutsSpared(at) ==
  /\ \A k \in cuts : k \in Nat /\ k <= Received /\ (k = Received \/ k + Len(frag) <= Received)
  /\ \A i \in 1 .. Len(delivered) : ~parts[i].sized =>
       at[i + 1] + 2 <= Received /\ at[i + 1] \notin cuts /\ at[i + 1] + 1 \notin cuts

MultipartIInv ==
  MultipartTypeOK /\ \A at : Marks(BodyOf(parts), parts, at) => InStep(at) /\ CutsSpared(at)

(* The lengths that say where the parser is are numbers.                      *)
LEMMA PlaceTypes ==
  ASSUME MultipartTypeOK, NEW at, Marks(BodyOf(parts), parts, at), InStep(at)
  PROVE  /\ BodyOf(parts) \in Seq(Int) /\ Len(BodyOf(parts)) \in Nat /\ Len(BodyOf(parts)) < Huge
         /\ Len(parts) \in Nat /\ Len(delivered) \in 0 .. Len(parts)
         /\ (delivered = <<>> <=> Len(delivered) = 0)
         /\ Len(coming) \in Nat /\ Received \in 0 .. Len(BodyOf(parts))
         /\ Len(coming) = Len(BodyOf(parts)) - Received
         /\ Len(head) \in Nat /\ Len(frag) \in Nat
         /\ (frag = <<>> <=> Len(frag) = 0) /\ (coming = <<>> <=> Len(coming) = 0)
  <1>1. BodyOf(parts) \in Seq(Int) /\ Len(BodyOf(parts)) < Huge
    BY BodyMarked, MultipartAssumption DEF MultipartTypeOK
  <1>2. parts \in Seq(PartType)
    BY MultipartAssumption DEF MultipartTypeOK, PartType
  <1>3. Len(parts) \in Nat /\ Len(BodyOf(parts)) \in Nat
    BY <1>1, <1>2, LenProperties
  <1>4. /\ coming \in Seq(Int) /\ frag \in Seq(Int) /\ head \in Seq(Int) /\ delivered \in Seq(Seq(Int))
        /\ Len(coming) <= Len(BodyOf(parts)) /\ Len(delivered) <= Len(parts)
    BY DEF MultipartTypeOK, InStep
  <1>5. /\ Len(coming) \in Nat /\ Len(delivered) \in Nat /\ Len(head) \in Nat /\ Len(frag) \in Nat
        /\ (delivered = <<>> <=> Len(delivered) = 0) /\ (frag = <<>> <=> Len(frag) = 0)
        /\ (coming = <<>> <=> Len(coming) = 0)
    BY <1>4, EmptySeq, LenProperties
  <1>6. Received = Len(BodyOf(parts)) - Len(coming)
    BY DEF Received
  <1> QED
    BY ONLY <1>1, <1>3, <1>4, <1>5, <1>6

(* The part p in progress, behind a, is the d-th; c is where its data begins, *)
(* and what of the body up to r is not passed on yet begins there.            *)
InPart(T, at, d, p, a, c, r) ==
  /\ PartAt(T, p, a) /\ c = a + HeaderLen(p) /\ c \in Nat /\ c <= r
  /\ at[d + 2] = c + p.length + 1 /\ d + 1 \in 1 .. Len(parts)
  /\ resp.size \in Nat /\ resp.body \in Seq(Int) /\ Held = resp.body
  /\ resp.body \o frag = SubSeq(T, c + 1, r) /\ Len(resp.body \o frag) = r - c
  /\ Len(resp.body) + Len(frag) = r - c /\ Len(resp.body) \in Nat

(* InPlace, in a part.                                                        *)
LEMMA PlaceInPart ==
  ASSUME MultipartTypeOK, NEW at, Marks(BodyOf(parts), parts, at), InStep(at), listening,
         resp # NoPart
  PROVE  InPart(BodyOf(parts), at, Len(delivered), parts[Len(delivered) + 1],
                at[Len(delivered) + 1], Origin(at), Received)
  <1>0. PICK d, p, a : d = Len(delivered) /\ p = parts[d + 1] /\ a = at[d + 1]
    OBVIOUS
  <1>1. /\ BodyOf(parts) \in Seq(Int) /\ Len(parts) \in Nat /\ d \in 0 .. Len(parts)
        /\ Received \in 0 .. Len(BodyOf(parts))
    BY <1>0, PlaceTypes
  <1>2. InPlace(at)
    BY DEF InStep
  <1>3. d < Len(parts) /\ d + 1 \in 1 .. Len(parts) /\ d + 1 + 1 = d + 2
    BY <1>0, <1>1, <1>2 DEF InPlace
  <1>4. PICK i : i = d + 1
    OBVIOUS
  <1>5. parts \in PartLists /\ i \in 1 .. Len(parts)
    BY <1>3, <1>4 DEF MultipartTypeOK
  <1>6. /\ PartAt(BodyOf(parts), parts[i], at[i])
        /\ at[i + 1] = at[i] + HeaderLen(parts[i]) + parts[i].length + 1
    BY <1>1, <1>5, MarkedPart
  <1>7. /\ PartAt(BodyOf(parts), p, a) /\ at[d + 2] = a + HeaderLen(p) + p.length + 1
    <2>1. p = parts[i] /\ a = at[i] /\ at[d + 2] = at[i + 1]
      BY <1>0, <1>3, <1>4
    <2> QED
      BY ONLY <1>6, <2>1
  <1>8. Origin(at) = a + HeaderLen(p)
    BY <1>0 DEF Origin
  <1>9. a \in Nat /\ HeaderLen(p) \in {5, 7}
    BY <1>7, PartTypes
  <1>10. resp.size \in Nat /\ resp.body \in Seq(Int) /\ Held = resp.body /\ frag \in Seq(Int)
    BY DEF MultipartTypeOK, Held
  <1>11. PICK x : x = resp.body \o frag
    OBVIOUS
  <1>12. IsJoined(Int, resp.body, frag, x)
    BY <1>10, <1>11 DEF IsJoined
  <1>13. Len(x) = Len(resp.body) + Len(frag) /\ Len(resp.body) \in Nat
    BY ONLY <1>10, <1>12, Joined, LenProperties
  <1>14. x = SubSeq(BodyOf(parts), Origin(at) + 1, Received) /\ Origin(at) <= Received
    BY <1>2, <1>10, <1>11 DEF InPlace
  <1>15. Origin(at) \in Nat /\ Received \in Origin(at) .. Len(BodyOf(parts))
    <2>1. PICK u, v, w, h : /\ u = Origin(at) /\ v = Received /\ w = Len(BodyOf(parts))
                            /\ h = HeaderLen(p)
      OBVIOUS
    <2>2. u = a + h /\ v \in 0 .. w /\ a \in Nat /\ h \in {5, 7} /\ u <= v
      BY <1>1, <1>8, <1>9, <1>14, <2>1
    <2>3. u \in Nat /\ v \in u .. w
      BY ONLY <2>2
    <2> QED
      BY <2>1, <2>3
  <1>16. Len(x) = Received - Origin(at)
    BY <1>1, <1>14, <1>15, PieceFrom
  <1>17. InPart(BodyOf(parts), at, d, p, a, Origin(at), Received)
    BY ONLY <1>3, <1>8, <1>10, <1>11, <1>13, <1>14, <1>15, <1>16, <1>7 DEF InPart
  <1> QED
    BY <1>0, <1>17

(* Between parts it begins with the break before the next delimiter.          *)
BetweenParts(T, d, a, c, r) ==
  /\ c \in Nat /\ a \in Nat /\ c <= r
  /\ c = a \/ (c + 1 = a /\ T[a] = Break)
  /\ d < Len(parts) => PartAt(T, parts[d + 1], a) /\ d + 1 \in 1 .. Len(parts)
  /\ d = Len(parts) => Len(T) = a + 2 /\ T[a + 1] = Boundary
  /\ head \o frag = SubSeq(T, c + 1, r)

(* InPlace, between parts.                                                    *)
LEMMA PlaceBetween ==
  ASSUME MultipartTypeOK, NEW at, Marks(BodyOf(parts), parts, at), InStep(at), listening,
         resp = NoPart
  PROVE  BetweenParts(BodyOf(parts), Len(delivered), at[Len(delivered) + 1], Origin(at), Received)
  <1>0. PICK T, d, a : T = BodyOf(parts) /\ d = Len(delivered) /\ a = at[d + 1]
    OBVIOUS
  <1>1. /\ T \in Seq(Int) /\ Len(parts) \in Nat /\ d \in 0 .. Len(parts)
        /\ (delivered = <<>> <=> d = 0)
    BY <1>0, PlaceTypes
  <1>2. InPlace(at)
    BY DEF InStep
  <1>3. parts \in PartLists
    BY DEF MultipartTypeOK
  <1>4. PICK i : i = d + 1
    OBVIOUS
  <1>5. i \in 1 .. Len(parts) + 1 /\ (d < Len(parts) => i \in 1 .. Len(parts)) /\ (d > 0 => d \in 1 .. Len(parts))
    BY <1>1, <1>4
  <1>6. a \in Nat /\ at[1] = 0 /\ Len(T) = at[Len(parts) + 1] + 2 /\ T[a + 1] = Boundary
    BY <1>0, <1>4, <1>5 DEF Marks
  <1>7. Origin(at) = IF d = 0 THEN 0 ELSE a - 1
    BY <1>0, <1>1 DEF Origin
  <1>8. d > 0 => T[a] = Break /\ a = at[d] + HeaderLen(parts[d]) + parts[d].length + 1
                 /\ PartAt(T, parts[d], at[d])
    <2> SUFFICES ASSUME d > 0
                 PROVE  /\ T[a] = Break /\ a = at[d] + HeaderLen(parts[d]) + parts[d].length + 1
                        /\ PartAt(T, parts[d], at[d])
      OBVIOUS
    <2>1. d \in 1 .. Len(parts)
      BY <1>5
    <2>2. /\ PartAt(T, parts[d], at[d]) /\ at[d + 1] = at[d] + HeaderLen(parts[d]) + parts[d].length + 1
          /\ T[at[d + 1]] = Break
      BY <1>0, <1>1, <1>3, <2>1, MarkedPart
    <2> QED
      BY <1>0, <2>2
  <1>9. d > 0 => a - 1 \in Nat
    <2> SUFFICES ASSUME d > 0 PROVE a - 1 \in Nat
      OBVIOUS
    <2>1. at[d] \in Nat /\ HeaderLen(parts[d]) \in {5, 7} /\ parts[d].length \in Nat
      BY <1>8, PartTypes
    <2> QED
      BY <1>8, <2>1
  <1>10. /\ Origin(at) \in Nat /\ (Origin(at) = a \/ (Origin(at) + 1 = a /\ T[a] = Break))
    <2>1. CASE d = 0
      <3>1. a = 0
        <4>1. i = 1 /\ a = at[i]
          BY <1>0, <1>4, <2>1
        <4> QED
          BY <1>6, <4>1
      <3> QED
        BY <1>7, <2>1, <3>1
    <2>2. CASE d > 0
      BY <1>6, <1>7, <1>8, <1>9, <2>2
    <2> QED
      BY <1>1, <2>1, <2>2
  <1>11. d < Len(parts) => PartAt(T, parts[d + 1], a)
    <2>1. d < Len(parts) => PartAt(T, parts[i], at[i])
      BY <1>0, <1>1, <1>3, <1>5, MarkedPart
    <2> QED
      BY <1>0, <1>4, <2>1
  <1>12. d = Len(parts) => Len(T) = a + 2
    BY <1>0, <1>6
  <1>13. Origin(at) <= Received /\ head \o frag = SubSeq(T, Origin(at) + 1, Received)
    BY <1>0, <1>2 DEF InPlace, Held
  <1>14. d < Len(parts) => d + 1 \in 1 .. Len(parts)
    BY <1>4, <1>5
  <1>15. BetweenParts(T, d, a, Origin(at), Received)
    BY ONLY <1>6, <1>10, <1>11, <1>12, <1>13, <1>14 DEF BetweenParts
  <1> QED
    BY <1>0, <1>15

(* More is held of the part in progress. *)
LEMMA PartLonger ==
  ASSUME MultipartTypeOK, NEW at, Marks(BodyOf(parts), parts, at), InStep(at), listening,
         resp # NoPart, frag # <<>>, NEW p, p = parts[Len(delivered) + 1],
         NEW z \in Nat, NEW x, x = resp.body \o frag,
         resp' = [size |-> z, body |-> x], frag' = <<>>,
         UNCHANGED <<parts, coming, fragments, cuts, firstFrag, boundary, head, delivered, listening>>,
         IF p.sized THEN z = p.length /\ Len(x) < p.length
                    ELSE z = 0 \/ (z = p.length /\ Len(x) > p.length),
         ~p.sized /\ Len(x) > p.length =>
           at[Len(delivered) + 2] \in cuts \/ at[Len(delivered) + 2] + 1 \in cuts
  PROVE  MultipartTypeOK' /\ InStep(at)'
  <1>1. PICK T, d, a, c, r : /\ T = BodyOf(parts) /\ d = Len(delivered) /\ a = at[d + 1]
                             /\ c = Origin(at) /\ r = Received
    OBVIOUS
  <1>2. InPart(T, at, d, p, a, c, r)
    BY <1>1, PlaceInPart
  <1>3. /\ PartAt(T, p, a) /\ c = a + HeaderLen(p) /\ c \in Nat /\ c <= r
        /\ x = SubSeq(T, c + 1, r) /\ Len(x) = r - c /\ d + 1 \in 1 .. Len(parts)
        /\ resp.body \in Seq(Int) /\ Len(resp.body) \in Nat /\ Len(x) = Len(resp.body) + Len(frag)
    BY ONLY <1>2, x = resp.body \o frag DEF InPart
  <1>4. T \in Seq(Int) /\ r \in 0 .. Len(T) /\ Len(T) \in Nat /\ Len(frag) \in Nat /\ Len(frag) # 0
    BY <1>1, PlaceTypes
  <1>5. x \in Seq(Int) /\ \A i \in 1 .. r - c : x[i] = T[c + i]
    <2>1. r \in c .. Len(T)
      BY <1>3, <1>4
    <2>2. /\ SubSeq(T, c + 1, r) \in Seq(Int)
          /\ \A i \in 1 .. r - c : SubSeq(T, c + 1, r)[i] = T[c + i]
      <3>1. T \in Seq(Int) /\ c \in Nat
        BY <1>3, <1>4
      <3> QED
        BY ONLY <2>1, <3>1, PieceFrom
    <2> QED
      BY ONLY <1>3, <2>2
  <1>6. resp' # NoPart
    <2>1. 1 \in 1 .. r - c
      BY <1>3, <1>4
    <2>2. x[1] = T[c + 1]
      BY <1>5, <2>1
    <2>3. T[c + 1] # Boundary
      <3>1. p.length \in Nat
        BY <1>3, PartTypes
      <3>2. CASE p.length = 0
        <4>1. c + p.length + 1 = c + 1
          BY <1>3, <3>2
        <4>2. T[c + p.length + 1] = Break
          BY <1>3 DEF PartAt
        <4> QED
          BY <4>1, <4>2 DEF Break, Boundary
      <3>3. CASE p.length # 0
        <4>1. 1 \in 1 .. p.length
          BY <3>1, <3>3
        <4>2. T[c + 1] = Datum
          BY <1>3, <4>1 DEF PartAt
        <4> QED
          BY <4>2 DEF Datum, Boundary
      <3> QED
        BY <3>2, <3>3
    <2>4. resp'.body[1] # Boundary
      BY <2>2, <2>3
    <2>5. NoPart.body[1] = Boundary
      BY DEF NoPart
    <2> QED
      BY <2>4, <2>5
  <1>7. MultipartTypeOK'
    <2>1. fragments # 0 /\ boundary
      BY DEF MultipartTypeOK
    <2>2. resp' \in [size : Nat, body : Seq(Int)] /\ frag' \in Seq(Int)
      BY <1>5
    <2> QED
      BY <2>1, <2>2 DEF MultipartTypeOK
  <1>8. Origin(at)' = c /\ Received' = r /\ BodyOf(parts)' = T /\ Held' = x
    BY <1>1, <1>6 DEF Origin, Received, Held
  <1>9. x \o <<>> = x
    BY <1>5, ConcatEmptySeq
  <1>10. /\ head = <<>> /\ d < Len(parts)
    BY <1>1 DEF InStep, InPlace, PartInProgress
  <1>11. PartInProgress(parts[Len(delivered) + 1], at[Len(delivered) + 2])'
    <2>1. resp'.size = z /\ resp'.body = x
      OBVIOUS
    <2> QED
      BY <1>10, <2>1 DEF PartInProgress
  <1>12. InPlace(at)'
    <2>1. Origin(at)' <= Received'
      BY <1>3, <1>8
    <2>2. (Held \o frag)' = SubSeq(BodyOf(parts)', Origin(at)' + 1, Received')
      BY <1>3, <1>8, <1>9
    <2>3. (Len(delivered) < Len(parts))'
      BY <1>1, <1>10
    <2> QED
      BY <1>6, <1>11, <2>1, <2>2, <2>3 DEF InPlace
  <1> QED
    BY <1>7, <1>8, <1>12 DEF InStep, Received

(* The part in progress is complete and passed on. *)
LEMMA PartComplete ==
  ASSUME MultipartTypeOK, NEW at, Marks(BodyOf(parts), parts, at), InStep(at), listening,
         resp # NoPart, frag # <<>>, NEW p, p = parts[Len(delivered) + 1],
         NEW w \in 0 .. Len(frag), Len(resp.body) + w = p.length,
         delivered' = Append(delivered, resp.body \o SubSeq(frag, 1, w)),
         resp' = NoPart, frag' = Drop(frag, w), listening' \in BOOLEAN,
         UNCHANGED <<parts, coming, fragments, cuts, firstFrag, boundary, head>>
  PROVE  MultipartTypeOK' /\ InStep(at)'
  <1>1. PICK T, d, a, c, r, L, y :
          /\ T = BodyOf(parts) /\ d = Len(delivered) /\ a = at[d + 1]
          /\ c = Origin(at) /\ r = Received /\ L = p.length /\ y = resp.body \o SubSeq(frag, 1, w)
    OBVIOUS
  <1>2. InPart(T, at, d, p, a, c, r)
    BY <1>1, PlaceInPart
  <1>3. /\ PartAt(T, p, a) /\ c = a + HeaderLen(p) /\ d + 1 \in 1 .. Len(parts)
        /\ at[d + 2] = c + L + 1
    BY ONLY <1>2, <1>1 DEF InPart
  <1>4. /\ c \in Nat /\ c <= r /\ Len(resp.body) \in Nat /\ Len(resp.body) + Len(frag) = r - c
    BY ONLY <1>2, <1>1 DEF InPart
  <1>5. /\ T \in Seq(Int) /\ r \in 0 .. Len(T) /\ Len(T) \in Nat /\ Len(frag) \in Nat
        /\ Len(parts) \in Nat /\ d \in 0 .. Len(parts) /\ frag \in Seq(Int)
        /\ Len(coming) = Len(T) - r
    BY <1>1, PlaceTypes DEF MultipartTypeOK
  <1>6. w \in Nat /\ w <= Len(frag) /\ Len(resp.body) + w = L /\ r \in Nat /\ r <= Len(T)
    BY <1>1, <1>5
  <1>7. /\ L \in Nat /\ w \in Nat /\ w <= Len(frag) /\ L <= r - c /\ r - c \in Nat
        /\ Len(resp.body) + w = L /\ c \in Nat /\ c <= r /\ r <= Len(T) /\ r \in Nat
    BY ONLY <1>5, <1>6, <1>4
  <1>8. /\ y = SubSeq(SubSeq(T, c + 1, r), 1, L)
        /\ frag' = SubSeq(SubSeq(T, c + 1, r), L + 1, r - c)
    <2>1. /\ resp.body \o SubSeq(frag, 1, w) = SubSeq(resp.body \o frag, 1, Len(resp.body) + w)
          /\ SubSeq(frag, w + 1, Len(frag))
               = SubSeq(resp.body \o frag, Len(resp.body) + w + 1, Len(resp.body) + Len(frag))
      BY <1>2, <1>5, JoinedCut DEF InPart
    <2>2. /\ Len(resp.body) + w = L /\ Len(resp.body) + Len(frag) = r - c
          /\ resp.body \o frag = SubSeq(T, c + 1, r)
      BY ONLY <1>2, <1>1, <1>7, <1>4 DEF InPart
    <2> QED
      BY ONLY <1>1, <2>1, <2>2, frag' = Drop(frag, w) DEF Drop
  <1>9. y = SubSeq(T, c + 1, c + L) /\ frag' = SubSeq(T, c + L + 1, r)
    <2>1. PICK o, e : o = 0 /\ e = r - c
      OBVIOUS
    <2>2. /\ o \in 0 .. r - c /\ L \in o .. r - c /\ L \in 0 .. r - c /\ e \in L .. r - c
          /\ r \in c .. Len(T)
      BY ONLY <1>7, <2>1
    <2>3. T \in Seq(Int) /\ c \in Nat
      BY ONLY <1>5, <1>7
    <2>4. SubSeq(SubSeq(T, c + 1, r), o + 1, L) = SubSeq(T, c + o + 1, c + L)
      BY ONLY <2>3, <2>2, PieceOfPiece
    <2>5. SubSeq(SubSeq(T, c + 1, r), L + 1, e) = SubSeq(T, c + L + 1, c + e)
      BY ONLY <2>3, <2>2, PieceOfPiece
    <2>6. o + 1 = 1 /\ c + o + 1 = c + 1 /\ c + e = r
      BY ONLY <1>7, <2>1
    <2> QED
      BY ONLY <1>8, <2>1, <2>4, <2>5, <2>6
  <1>10. y \in Seq(Int) /\ Len(y) = L /\ \A i \in 1 .. L : y[i] = T[c + i]
    <2>0. PICK k : k = c + L
      OBVIOUS
    <2>1. k \in c .. Len(T) /\ k - c = L /\ T \in Seq(Int) /\ c \in Nat
      BY ONLY <1>5, <1>7, <2>0
    <2>2. /\ SubSeq(T, c + 1, k) \in Seq(Int) /\ Len(SubSeq(T, c + 1, k)) = k - c
          /\ \A i \in 1 .. k - c : SubSeq(T, c + 1, k)[i] = T[c + i]
      BY ONLY <2>1, PieceFrom
    <2>3. y = SubSeq(T, c + 1, k)
      BY ONLY <1>9, <2>0
    <2> QED
      BY ONLY <2>1, <2>2, <2>3
  <1>11. y = Data(L)
    <2>1. Data(L) \in [1 .. L -> Int] /\ \A i \in 1 .. L : Data(L)[i] = Datum
      BY DEF Data, Datum
    <2>2. Data(L) \in Seq(Int) /\ Len(Data(L)) = L
      BY <1>7, <2>1, FunctionIsSeq
    <2>3. \A i \in 1 .. L : T[c + i] = Datum
      BY <1>1, <1>3 DEF PartAt
    <2>4. \A i \in 1 .. Len(y) : y[i] = Data(L)[i]
      BY <1>10, <2>1, <2>3
    <2> QED
      BY ONLY <1>10, <2>2, <2>4, SeqEqual
  <1>12. frag' \in Seq(Int)
    <2>1. c + L \in Nat /\ r \in c + L .. Len(T)
      BY ONLY <1>5, <1>7
    <2>2. SubSeq(T, c + L + 1, r) \in Seq(Int)
      BY <1>5, <2>1, PieceFrom
    <2> QED
      BY ONLY <1>9, <2>2
  <1>13. /\ delivered' \in Seq(Seq(Int)) /\ Len(delivered') = d + 1 /\ delivered' # <<>>
         /\ (\A i \in 1 .. d : delivered'[i] = delivered[i]) /\ delivered'[d + 1] = y
    <2>1. delivered \in Seq(Seq(Int)) /\ delivered' = Append(delivered, y)
      BY <1>1 DEF MultipartTypeOK
    <2> QED
      <3>1. PICK D : D = Append(delivered, y)
        OBVIOUS
      <3>2. /\ D \in Seq(Seq(Int)) /\ D # <<>> /\ Len(D) = Len(delivered) + 1
            /\ (\A i \in 1 .. Len(delivered) : D[i] = delivered[i]) /\ D[Len(delivered) + 1] = y
        <4>1. delivered \in Seq(Seq(Int)) /\ y \in Seq(Int)
          BY ONLY <1>10, <2>1
        <4>2. /\ Append(delivered, y) \in Seq(Seq(Int)) /\ Append(delivered, y) # <<>>
              /\ Len(Append(delivered, y)) = Len(delivered) + 1
              /\ \A i \in 1 .. Len(delivered) : Append(delivered, y)[i] = delivered[i]
              /\ Append(delivered, y)[Len(delivered) + 1] = y
          BY ONLY <4>1, OneMore
        <4> QED
          BY ONLY <3>1, <4>2
      <3> QED
        BY ONLY <1>1, <2>1, <3>1, <3>2
  <1>14. MultipartTypeOK'
    <2>1. fragments # 0 /\ boundary
      BY DEF MultipartTypeOK
    <2> QED
      BY <1>12, <1>13, <2>1 DEF MultipartTypeOK
  <1>15. Received' = r /\ BodyOf(parts)' = T
    BY <1>1 DEF Received
  <1>16. Origin(at)' = c + L
    <2>1. Origin(at)' = at[d + 1 + 1] - 1
      BY <1>13 DEF Origin
    <2>2. d + 1 + 1 = d + 2 /\ c + L + 1 - 1 = c + L
      BY ONLY <1>5, <1>7
    <2>3. PICK k : k = d + 1 + 1
      OBVIOUS
    <2>4. k = d + 2 /\ at[k] = c + L + 1 /\ Origin(at)' = at[k] - 1
      BY ONLY <1>3, <2>1, <2>2, <2>3
    <2>5. PICK b : b = at[k]
      OBVIOUS
    <2>6. b = c + L + 1 /\ Origin(at)' = b - 1
      BY ONLY <2>4, <2>5
    <2> QED
      BY ONLY <1>7, <2>6
  <1>17. head' = <<>> /\ Held' = <<>>
    BY DEF InStep, InPlace, PartInProgress, Held
  <1>18. \A i \in 1 .. Len(delivered') : delivered'[i] = Data(parts'[i].length)
    <2>1. \A i \in 1 .. d : delivered[i] = Data(parts[i].length)
      BY <1>1 DEF InStep
    <2>2. ASSUME NEW i \in 1 .. d + 1 PROVE delivered'[i] = Data(parts[i].length)
      <3>1. CASE i = d + 1
        BY <1>1, <1>11, <1>13, <3>1
      <3>2. CASE i # d + 1
        <4>1. i \in 1 .. d
          BY <1>5, <3>2
        <4> QED
          BY <1>13, <2>1, <4>1
      <3> QED
        BY <3>1, <3>2
    <2> QED
      BY <1>13, <2>2
  <1>19. InPlace(at)'
    <2>1. Origin(at)' <= Received'
      BY ONLY <1>5, <1>7, <1>15, <1>16
    <2>2. (Held \o frag)' = SubSeq(BodyOf(parts)', Origin(at)' + 1, Received')
      <3>1. <<>> \o frag' = frag'
        BY <1>12, ConcatEmptySeq
      <3> QED
        BY <1>9, <1>15, <1>16, <1>17, <3>1
    <2>3. \A i \in 1 .. Len(head') - 1 : FALSE
      BY <1>17
    <2> QED
      BY <2>1, <2>2, <2>3 DEF InPlace
  <1>20. Len(delivered') <= Len(parts')
    BY <1>3, <1>5, <1>13
  <1> QED
    BY <1>14, <1>15, <1>18, <1>19, <1>20 DEF InStep, Received

(* At the beginning nothing is held, and the whole body is to come.           *)
LEMMA MultipartBegins == MultipartInit => MultipartIInv
  <1> SUFFICES ASSUME MultipartInit PROVE MultipartIInv
    OBVIOUS
  <1>1. PICK T : T = BodyOf(parts)
    OBVIOUS
  <1>2. T \in Seq(Int) /\ parts \in PartLists /\ parts \in Seq(PartType)
    BY <1>1, BodyMarked, MultipartAssumption DEF MultipartInit, PartType
  <1>3. Len(T) \in Nat /\ Len(parts) \in Nat
    BY <1>2, LenProperties
  <1>4. MultipartTypeOK
    <2>1. <<>> \in Seq(Int) /\ <<>> \in Seq(Seq(Int)) /\ 0 \in 0 .. MaxFragments
      BY MultipartAssumption
    <2> QED
      BY <1>1, <1>2, <2>1 DEF MultipartInit, MultipartTypeOK
  <1>5. ASSUME NEW at, Marks(T, parts, at) PROVE InStep(at)
    <2>1. Received = 0 /\ coming = T /\ Len(delivered) = 0 /\ Held = <<>> /\ frag = <<>> /\ head = <<>>
      BY <1>1, <1>3 DEF MultipartInit, Received, Held
    <2>2. Origin(at) = 0
      BY DEF MultipartInit, Origin
    <2>3. SubSeq(T, 0 + 1, 0) = <<>> /\ SubSeq(T, 0 + 1, Len(T)) = T
      <3>1. SubSeq(T, 1, 0) = <<>>
        BY SubSeqEmpty
      <3>2. SubSeq(T, 1, Len(T)) = T
        BY <1>2, SubSeqFull
      <3> QED
        BY <3>1, <3>2
    <2>4. <<>> \o <<>> = <<>>
      BY ConcatEmptySeq, EmptySeq
    <2>5. InPlace(at)
      <3>1. resp = NoPart
        BY DEF MultipartInit
      <3>2. Held \o frag = SubSeq(T, Origin(at) + 1, Received)
        BY <2>1, <2>2, <2>3, <2>4
      <3>3. \A i \in 1 .. Len(head) - 1 : FALSE
        BY <2>1
      <3> QED
        BY <1>1, <2>1, <2>2, <3>1, <3>2, <3>3 DEF InPlace
    <2> QED
      BY <1>1, <1>3, <2>1, <2>3, <2>5 DEF InStep
  <1>6. ASSUME NEW at PROVE CutsSpared(at)
    BY <1>1, <1>3 DEF MultipartInit, CutsSpared
  <1> QED
    BY <1>1, <1>4, <1>5, <1>6 DEF MultipartIInv

(* A fragment is the next piece of the body.                                  *)
LEMMA OnBodyFragStep ==
  ASSUME MultipartTypeOK, NEW at, Marks(BodyOf(parts), parts, at), InStep(at),
         NEW n \in 1 .. Len(coming), OnBodyFrag(n)
  PROVE  MultipartTypeOK' /\ InStep(at)'
  <1>1. PICK T, r : T = BodyOf(parts) /\ r = Received
    OBVIOUS
  <1>2. /\ frag = <<>> /\ frag' = SubSeq(coming, 1, n) /\ coming' = SubSeq(coming, n + 1, Len(coming))
        /\ UNCHANGED <<parts, head, resp, delivered, listening>>
        /\ fragments < MaxFragments /\ fragments' = fragments + 1
        /\ cuts' = cuts \cup {r + n}
        /\ boundary' = (boundary \/ firstFrag) /\ firstFrag' = FALSE
    BY <1>1 DEF OnBodyFrag, Drop
  <1>3. /\ T \in Seq(Int) /\ Len(T) \in Nat /\ r \in Nat /\ r <= Len(T) /\ Len(coming) = Len(T) - r
        /\ n \in Nat /\ 1 <= n /\ r + n <= Len(T)
    BY <1>1, PlaceTypes
  <1>4. coming = SubSeq(T, r + 1, Len(T))
    BY <1>1 DEF InStep
  <1>5. frag' = SubSeq(T, r + 1, r + n) /\ coming' = SubSeq(T, r + n + 1, Len(T))
    <2>1. PICK o, m, e : o = 0 /\ m = Len(T) /\ e = Len(T) - r
      OBVIOUS
    <2>2. /\ r \in Nat /\ m \in r .. Len(T) /\ o \in 0 .. m - r /\ n \in o .. m - r
          /\ n \in 0 .. m - r /\ e \in n .. m - r
      BY ONLY <1>3, <2>1
    <2>3. SubSeq(SubSeq(T, r + 1, m), o + 1, n) = SubSeq(T, r + o + 1, r + n)
      BY ONLY <1>3, <2>2, PieceOfPiece
    <2>4. SubSeq(SubSeq(T, r + 1, m), n + 1, e) = SubSeq(T, r + n + 1, r + e)
      BY ONLY <1>3, <2>2, PieceOfPiece
    <2>5. o + 1 = 1 /\ r + o + 1 = r + 1 /\ r + e = Len(T) /\ e = Len(coming)
      BY ONLY <1>3, <2>1
    <2>6. frag' = SubSeq(SubSeq(T, r + 1, m), o + 1, n) /\ coming' = SubSeq(SubSeq(T, r + 1, m), n + 1, e)
      BY ONLY <1>2, <1>4, <2>1, <2>5
    <2> QED
      BY ONLY <2>3, <2>4, <2>5, <2>6
  <1>6. frag' \in Seq(Int) /\ coming' \in Seq(Int) /\ Len(coming') = Len(T) - (r + n)
    <2>1. PICK k, m : k = r + n /\ m = Len(T)
      OBVIOUS
    <2>2. k \in r .. Len(T) /\ k \in Nat /\ r \in Nat /\ m \in k .. Len(T) /\ T \in Seq(Int)
      BY ONLY <1>3, <2>1
    <2>3. SubSeq(T, r + 1, k) \in Seq(Int)
      BY ONLY <2>2, PieceFrom
    <2>4. SubSeq(T, k + 1, m) \in Seq(Int) /\ Len(SubSeq(T, k + 1, m)) = m - k
      BY ONLY <2>2, PieceFrom
    <2> QED
      BY ONLY <1>5, <2>1, <2>3, <2>4
  <1>7. MultipartTypeOK'
    <2>1. fragments' \in 0 .. MaxFragments /\ fragments' # 0
      BY <1>2, MultipartAssumption DEF MultipartTypeOK
    <2>2. boundary' = TRUE
      BY <1>2 DEF MultipartTypeOK
    <2> QED
      BY <1>2, <1>6, <2>1, <2>2 DEF MultipartTypeOK
  <1>8. Received' = r + n /\ BodyOf(parts)' = T /\ Held' = Held /\ Origin(at)' = Origin(at)
    <2>1. Received' = Len(T) - Len(coming')
      BY <1>1, <1>2 DEF Received
    <2>2. Received' = r + n
      BY ONLY <1>3, <1>6, <2>1
    <2> QED
      BY <1>1, <1>2, <2>2 DEF Held, Origin
  <1>9. ASSUME listening PROVE InPlace(at)'
    <2>1. PICK c, x : c = Origin(at) /\ x = Held
      OBVIOUS
    <2>2. InPlace(at)
      BY <1>9 DEF InStep
    <2>3. c \in Nat /\ c <= r /\ x \in Seq(Int)
      <3>1. CASE resp = NoPart
        <4>1. c \in Nat /\ c <= r
          BY <1>1, <1>9, <2>1, <3>1, PlaceBetween DEF BetweenParts
        <4> QED
          BY <2>1, <3>1, <4>1 DEF Held, MultipartTypeOK
      <3>2. CASE resp # NoPart
        BY <1>1, <1>9, <2>1, <3>2, PlaceInPart DEF InPart
      <3> QED
        BY <3>1, <3>2
    <2>4. x = SubSeq(T, c + 1, r)
      <3>1. x \o <<>> = SubSeq(T, c + 1, r)
        BY <1>1, <1>2, <2>1, <2>2 DEF InPlace
      <3>2. x \o <<>> = x
        BY <2>3, ConcatEmptySeq
      <3> QED
        BY <3>1, <3>2
    <2>5. SubSeq(T, c + 1, r) \o SubSeq(T, r + 1, r + n) = SubSeq(T, c + 1, r + n)
      <3>1. PICK m, k : m = c + 1 /\ k = r + n
        OBVIOUS
      <3>2. m \in 1 .. Len(T) + 1 /\ r \in m - 1 .. Len(T) /\ k \in r .. Len(T)
        BY ONLY <1>3, <2>3, <3>1
      <3>3. SubSeq(T, m, r) \o SubSeq(T, r + 1, k) = SubSeq(T, m, k)
        BY <1>3, <3>2, ConcatAdjacentSubSeq
      <3> QED
        BY <3>1, <3>3
    <2>6. (Held \o frag)' = SubSeq(BodyOf(parts)', Origin(at)' + 1, Received')
      BY ONLY <1>5, <1>8, <2>1, <2>4, <2>5
    <2>7. Origin(at)' <= Received'
      BY ONLY <1>3, <1>8, <2>1, <2>3
    <2>8. resp # NoPart => PartInProgress(parts[Len(delivered) + 1], at[Len(delivered) + 2])'
      <3> SUFFICES ASSUME resp # NoPart
                   PROVE  PartInProgress(parts[Len(delivered) + 1], at[Len(delivered) + 2])'
        OBVIOUS
      <3>1. PartInProgress(parts[Len(delivered) + 1], at[Len(delivered) + 2])
        BY <2>2 DEF InPlace
      <3> QED
        BY <1>2, <3>1 DEF PartInProgress
    <2> QED
      BY <1>2, <2>2, <2>6, <2>7, <2>8 DEF InPlace
  <1>10. Len(coming') <= Len(T) /\ Received' \in cuts'
    BY ONLY <1>2, <1>3, <1>6, <1>8
  <1> QED
    BY <1>2, <1>5, <1>7, <1>8, <1>9, <1>10 DEF InStep

(* Nobody listens any more, so nothing is said of what is held.               *)
LEMMA IgnoreStep ==
  ASSUME MultipartTypeOK, NEW at, InStep(at), Ignore
  PROVE  MultipartTypeOK' /\ InStep(at)'
  <1>1. MultipartTypeOK'
    <2>1. <<>> \in Seq(Int)
      OBVIOUS
    <2> QED
      BY <2>1 DEF MultipartTypeOK, Ignore
  <1> QED
    BY <1>1 DEF InStep, Ignore, Received

(* The part in progress takes what came, or ends where it ends in the body.   *)
LEMMA PartGoesOnStep ==
  ASSUME MultipartTypeOK, NEW at, Marks(BodyOf(parts), parts, at), InStep(at), PartGoesOn
  PROVE  MultipartTypeOK' /\ InStep(at)'
  <1>0. frag # <<>> /\ listening /\ resp # NoPart
        /\ UNCHANGED <<parts, coming, fragments, cuts, firstFrag, boundary, head>>
    BY DEF PartGoesOn
  <1>1. PICK T, d, p, a, c, r, L, b, x, e, u :
          /\ T = BodyOf(parts) /\ d = Len(delivered) /\ p = parts[d + 1] /\ a = at[d + 1]
          /\ c = Origin(at) /\ r = Received /\ L = p.length /\ u = at[d + 2]
          /\ b = Len(resp.body) /\ x = resp.body \o frag /\ e = Find(x, <<Break, Boundary, Break>>)
    OBVIOUS
  <1>2. InPart(T, at, d, p, a, c, r)
    BY <1>0, <1>1, PlaceInPart
  <1>3. /\ T \in Seq(Int) /\ r \in Nat /\ r <= Len(T) /\ Len(T) \in Nat /\ Len(T) < Huge
        /\ Len(frag) \in Nat /\ Len(frag) > 0 /\ (coming = <<>> => r = Len(T))
    BY <1>0, <1>1, PlaceTypes
  <1>4. PartAt(T, p, a) /\ x = SubSeq(T, c + 1, r) /\ c = a + HeaderLen(p) /\ resp.size \in Nat
    BY <1>1, <1>2 DEF InPart
  <1>5. /\ c \in Nat /\ c <= r /\ b \in Nat /\ b + Len(frag) = r - c /\ Len(x) = r - c
    BY <1>1, <1>2 DEF InPart
  <1>6. /\ L \in Nat /\ p.sized \in BOOLEAN /\ (p.sized => L > 0) /\ c + L + 3 <= Len(T)
    <2>1. p.length \in Nat /\ p.sized \in BOOLEAN /\ (p.sized => p.length > 0)
      BY <1>4, PartTypes
    <2>2. a + HeaderLen(p) + p.length + 3 <= Len(T)
      BY <1>4 DEF PartAt
    <2> QED
      BY ONLY <1>1, <1>4, <2>1, <2>2
  <1>7. /\ IF p.sized THEN resp.size = L /\ b < L ELSE resp.size = 0 \/ (resp.size = L /\ b > L)
        /\ ~p.sized /\ b > L => u \in cuts \/ u + 1 \in cuts
    <2>1. PartInProgress(p, u)
      BY <1>0, <1>1 DEF InStep, InPlace
    <2> QED
      BY <1>1, <2>1 DEF PartInProgress
  <1>8. e = IF c + L + 3 <= r THEN L ELSE -1
    <2>1. r \in c .. Len(T) /\ T \in Seq(Int) /\ c \in Nat
      BY <1>3, <1>5
    <2>2. Find(x, <<Break, Boundary, Break>>) = IF c + p.length + 3 <= r THEN p.length ELSE -1
      <3>1. DataAhead(T, p, a, c, r, x)
        BY ONLY <1>4, <2>1 DEF DataAhead, IsPiece
      <3> QED
        BY ONLY <3>1, DelimiterFound
    <2> QED
      BY ONLY <1>1, <2>2
  (* More is held.                                                            *)
  <1>9. ASSUME NEW z \in Nat, resp' = [size |-> z, body |-> x], frag' = <<>>,
               UNCHANGED <<delivered, listening>>,
               IF p.sized THEN z = L /\ r - c < L ELSE z = 0 \/ (z = L /\ r - c > L),
               ~p.sized /\ r - c > L => u \in cuts \/ u + 1 \in cuts
        PROVE  MultipartTypeOK' /\ InStep(at)'
    <2>1. p = parts[Len(delivered) + 1]
      BY <1>1
    <2>2. /\ IF p.sized THEN z = p.length /\ Len(x) < p.length ELSE z = 0 \/ (z = p.length /\ Len(x) > p.length)
          /\ ~p.sized /\ Len(x) > p.length => at[Len(delivered) + 2] \in cuts \/ at[Len(delivered) + 2] + 1 \in cuts
      BY <1>1, <1>5, <1>9
    <2> QED
      BY <1>0, <1>1, <1>9, <2>1, <2>2, PartLonger
  (* The part is complete.                                                    *)
  <1>10. ASSUME NEW w \in 0 .. Len(frag), b + w = L,
                delivered' = Append(delivered, resp.body \o SubSeq(frag, 1, w)),
                resp' = NoPart, frag' = Drop(frag, w), listening' \in {TRUE, FALSE}
         PROVE  MultipartTypeOK' /\ InStep(at)'
    <2>1. p = parts[Len(delivered) + 1] /\ Len(resp.body) + w = p.length
      BY <1>1, <1>10
    <2> QED
      BY <1>0, <1>10, <2>1, PartComplete
  <1>11. ASSUME NEW z \in Nat, FillPart(z)
         PROVE  \/ /\ Difference(z, b) > Len(frag)
                   /\ resp' = [size |-> z, body |-> x] /\ frag' = <<>> /\ UNCHANGED <<delivered, listening>>
                \/ /\ Difference(z, b) <= Len(frag)
                   /\ delivered' = Append(delivered, resp.body \o SubSeq(frag, 1, Difference(z, b)))
                   /\ resp' = NoPart /\ frag' = Drop(frag, Difference(z, b))
                   /\ listening' \in {TRUE, FALSE}
    <2>1. PICK w : w = Difference(z, b)
      OBVIOUS
    <2>2. w \in Nat
      BY <1>5, <2>1 DEF Difference, Huge
    <2>3. Want(z) = w
      BY <1>1, <2>1 DEF Want
    <2>4. IF w > Len(frag)
            THEN resp' = [size |-> z, body |-> x] /\ frag' = <<>> /\ UNCHANGED <<delivered, listening>>
            ELSE /\ delivered' = Append(delivered, resp.body \o SubSeq(frag, 1, w))
                 /\ resp' = NoPart /\ frag' = Drop(frag, w) /\ listening' \in {TRUE, FALSE}
      BY <1>1, <1>11, <2>3 DEF FillPart
    <2>5. w > Len(frag) \/ w <= Len(frag)
      BY <1>3, <2>2
    <2> QED
      BY ONLY <2>1, <2>4, <2>5, <2>2, <1>3
  <1>12. CASE p.sized
    <2>1. resp.size = L /\ b < L /\ resp.size # 0
      BY <1>6, <1>7, <1>12
    <2>2. FillPart(L)
      BY <2>1 DEF PartGoesOn
    <2>3. PICK w : w = Difference(L, b)
      OBVIOUS
    <2>4. \/ w > Len(frag) /\ resp' = [size |-> L, body |-> x] /\ frag' = <<>> /\ UNCHANGED <<delivered, listening>>
          \/ /\ w <= Len(frag) /\ delivered' = Append(delivered, resp.body \o SubSeq(frag, 1, w))
             /\ resp' = NoPart /\ frag' = Drop(frag, w) /\ listening' \in {TRUE, FALSE}
      <3>1. \/ /\ Difference(L, b) > Len(frag)
               /\ resp' = [size |-> L, body |-> x] /\ frag' = <<>> /\ UNCHANGED <<delivered, listening>>
            \/ /\ Difference(L, b) <= Len(frag)
               /\ delivered' = Append(delivered, resp.body \o SubSeq(frag, 1, Difference(L, b)))
               /\ resp' = NoPart /\ frag' = Drop(frag, Difference(L, b))
               /\ listening' \in {TRUE, FALSE}
        BY <1>6, <1>11, <2>2
      <3> QED
        BY ONLY <2>3, <3>1
    <2>5. w = L - b /\ w \in Nat /\ b + w = L
      BY <1>5, <1>6, <2>1, <2>3 DEF Difference
    <2>6. CASE w > Len(frag)
      <3>1. resp' = [size |-> L, body |-> x] /\ frag' = <<>> /\ UNCHANGED <<delivered, listening>>
        <4>1. ~(w <= Len(frag))
          BY ONLY <1>3, <2>5, <2>6
        <4> QED
          BY ONLY <2>4, <4>1, Zenon
      <3>2. r - c < L
        BY ONLY <1>3, <1>5, <1>6, <2>5, <2>6
      <3> QED
        BY <1>6, <1>9, <1>12, <3>1, <3>2
    <2>7. CASE w <= Len(frag)
      <3>1. /\ delivered' = Append(delivered, resp.body \o SubSeq(frag, 1, w))
            /\ resp' = NoPart /\ frag' = Drop(frag, w) /\ listening' \in {TRUE, FALSE}
        <4>1. ~(w > Len(frag))
          BY ONLY <1>3, <2>5, <2>7
        <4> QED
          BY ONLY <2>4, <4>1, Zenon
      <3>2. w \in 0 .. Len(frag)
        BY <1>3, <2>5, <2>7
      <3> QED
        BY <1>10, <2>5, <3>1, <3>2
    <2> QED
      BY <1>3, <2>5, <2>6, <2>7
  (* Too much is held, and the difference is negative.                        *)
  <1>13. ASSUME ~p.sized, b > L, FillPart(L) PROVE MultipartTypeOK' /\ InStep(at)'
    <2>1. Difference(L, b) = Huge
      BY <1>5, <1>6, <1>13 DEF Difference
    <2>2. Len(frag) < Huge
      BY ONLY <1>3, <1>5 DEF Huge
    <2>3. resp' = [size |-> L, body |-> x] /\ frag' = <<>> /\ UNCHANGED <<delivered, listening>>
      <3>1. ~(Huge <= Len(frag))
        BY <1>3, <2>2 DEF Huge
      <3> QED
        BY <1>6, <1>11, <1>13, <2>1, <3>1
    <2>4. r - c > L
      BY ONLY <1>3, <1>5, <1>6, <1>13
    <2>5. u \in cuts \/ u + 1 \in cuts
      BY <1>7, <1>13
    <2> QED
      BY <1>6, <1>9, <1>13, <2>3, <2>4, <2>5
  <1>14. CASE ~p.sized /\ resp.size # 0
    <2>1. resp.size = L /\ b > L
      BY <1>7, <1>14
    <2>2. FillPart(L)
      BY <1>14, <2>1 DEF PartGoesOn
    <2> QED
      BY <1>13, <1>14, <2>1, <2>2
  <1>15. CASE ~p.sized /\ resp.size = 0 /\ ~(c + L + 3 <= r)
    <2>1. e = -1
      BY <1>8, <1>15
    <2>2. resp' = [resp EXCEPT !.body = x] /\ frag' = <<>> /\ UNCHANGED <<delivered, listening>>
      BY <1>1, <1>15, <2>1 DEF PartGoesOn
    <2>3. resp' = [size |-> 0, body |-> x]
      <3>1. resp \in [size : Nat, body : Seq(Int)]
        BY <1>0 DEF MultipartTypeOK
      <3> QED
        BY <1>15, <2>2, <3>1
    <2>4. r - c > L => u \in cuts \/ u + 1 \in cuts
      <3>1. r \in cuts
        BY <1>0, <1>1 DEF InStep
      <3>2. u = c + L + 1
        BY ONLY <1>1, <1>2 DEF InPart
      <3>3. r - c > L => r = u \/ r = u + 1
        BY ONLY <1>3, <1>5, <1>6, <1>15, <3>2
      <3> QED
        BY ONLY <3>1, <3>3
    <2>5. PICK z : z \in Nat /\ z = 0
      OBVIOUS
    <2>6. /\ resp' = [size |-> z, body |-> x] /\ frag' = <<>> /\ UNCHANGED <<delivered, listening>>
          /\ IF p.sized THEN z = L /\ r - c < L ELSE z = 0 \/ (z = L /\ r - c > L)
      BY <1>15, <2>2, <2>3, <2>5
    <2> QED
      BY <1>9, <2>4, <2>5, <2>6
  <1>16. CASE ~p.sized /\ resp.size = 0 /\ c + L + 3 <= r
    <2>1. e = L /\ e # -1
      BY <1>6, <1>8, <1>16
    <2>2. FillPart(L)
      BY <1>1, <1>16, <2>1 DEF PartGoesOn
    <2>3. CASE b > L
      BY <1>13, <1>16, <2>2, <2>3
    <2>4. CASE b <= L
      <3>1. PICK w : w = Difference(L, b)
        OBVIOUS
      <3>2. w = L - b /\ w \in Nat /\ b + w = L
        BY <1>5, <1>6, <2>4, <3>1 DEF Difference
      <3>3. w <= Len(frag)
        BY ONLY <1>3, <1>5, <1>6, <1>16, <3>2
      <3>4. w \in 0 .. Len(frag) /\ ~(w > Len(frag))
        BY <1>3, <3>2, <3>3
      <3>5. /\ delivered' = Append(delivered, resp.body \o SubSeq(frag, 1, w))
            /\ resp' = NoPart /\ frag' = Drop(frag, w) /\ listening' \in {TRUE, FALSE}
        BY <1>6, <1>11, <2>2, <3>1, <3>4
      <3> QED
        BY <1>10, <3>2, <3>4, <3>5
    <2> QED
      BY <1>5, <1>6, <2>3, <2>4
  <1> QED
    BY <1>6, <1>12, <1>14, <1>15, <1>16

(* The header read is that of the next part, whose data begins behind it.     *)
LEMMA ReadHeaderStep ==
  ASSUME MultipartTypeOK, NEW at, Marks(BodyOf(parts), parts, at), InStep(at), ReadHeader
  PROVE  MultipartTypeOK' /\ InStep(at)'
  <1>0. /\ frag # <<>> /\ listening /\ resp = NoPart
        /\ UNCHANGED <<parts, coming, fragments, cuts, firstFrag, boundary, delivered, listening>>
    BY DEF ReadHeader
  <1>1. PICK T, d, a, c, r, x, e, f :
          /\ T = BodyOf(parts) /\ d = Len(delivered) /\ a = at[d + 1] /\ c = Origin(at) /\ r = Received
          /\ x = head \o frag /\ e = Find(x, <<Break, Break>>)
          /\ f = DropFront(DropFront(SubSeq(x, 1, e + 1), <<Break>>), <<Boundary, Break>>)
    OBVIOUS
  <1>2. /\ c \in Nat /\ a \in Nat /\ c <= r
        /\ c = a \/ (c + 1 = a /\ T[a] = Break)
        /\ d < Len(parts) => PartAt(T, parts[d + 1], a) /\ d + 1 \in 1 .. Len(parts)
        /\ d = Len(parts) => Len(T) = a + 2 /\ T[a + 1] = Boundary
        /\ x = SubSeq(T, c + 1, r)
    <2>1. BetweenParts(T, d, a, c, r)
      BY <1>0, <1>1, PlaceBetween
    <2> QED
      BY ONLY <1>1, <2>1 DEF BetweenParts
  <1>3. /\ T \in Seq(Int) /\ Len(T) \in Nat /\ r \in c .. Len(T) /\ r \in Nat
        /\ Len(parts) \in Nat /\ d \in 0 .. Len(parts)
    BY <1>1, <1>2, PlaceTypes
  <1>4. x \in Seq(Int) /\ Len(x) = r - c
    <2>1. IsPiece(Int, T, c, r, x)
      BY ONLY <1>2, <1>3 DEF IsPiece
    <2> QED
      BY ONLY <2>1, PieceIs
  <1>5. x \o <<>> = x
    BY <1>4, ConcatEmptySeq
  <1>6. Received' = r /\ BodyOf(parts)' = T
    BY <1>0, <1>1 DEF Received
  <1>7. fragments # 0 /\ boundary
    BY <1>0 DEF MultipartTypeOK
  <1>8. CASE e = -1
    <2>1. head' = x /\ frag' = <<>> /\ resp' = resp
      BY <1>1, <1>8 DEF ReadHeader
    <2>2. MultipartTypeOK'
      BY <1>0, <1>4, <1>7, <2>1 DEF MultipartTypeOK
    <2>3. Origin(at)' = c /\ Held' = x
      BY <1>0, <1>1, <2>1 DEF Origin, Held
    <2>4. \A i \in 1 .. Len(x) - 1 : ~(x[i] = Break /\ x[i + 1] = Break)
      <3>1. PICK s : s = <<Break, Break>>
        OBVIOUS
      <3>2. s \in Seq(Int) /\ Len(s) = 2 /\ 1 .. Len(s) = {1, 2} /\ s[1] = Break /\ s[2] = Break
        BY <3>1 DEF Break
      <3>3. \A i \in 0 .. Len(x) - Len(s) : ~Occurs(x, s, i)
        <4>1. Find(x, s) = -1
          BY <1>1, <1>8, <3>1
        <4>2. ~(-1 \in 0 .. Len(x) - Len(s))
          OBVIOUS
        <4> QED
          BY ONLY <1>4, <3>2, <4>1, <4>2, FindIsFirst
      <3>4. SUFFICES ASSUME NEW i \in 1 .. Len(x) - 1, x[i] = Break, x[i + 1] = Break PROVE FALSE
        OBVIOUS
      <3>5. PICK j : j = i - 1
        OBVIOUS
      <3>6. j \in 0 .. Len(x) - Len(s) /\ j + 1 = i /\ j + 2 = i + 1
        BY <1>2, <1>3, <1>4, <3>2, <3>5
      <3>7. Occurs(x, s, j)
        <4>1. x[j + 1] = s[1] /\ x[j + 2] = s[2]
          BY <3>2, <3>4, <3>6
        <4> QED
          BY ONLY <3>2, <4>1 DEF Occurs
      <3> QED
        BY <3>3, <3>6, <3>7
    <2>5. InPlace(at)'
      <3>1. (Held \o frag)' = SubSeq(BodyOf(parts)', Origin(at)' + 1, Received')
        BY <1>2, <1>5, <1>6, <2>1, <2>3
      <3>2. Origin(at)' <= Received'
        BY <1>2, <1>6, <2>3
      <3>3. resp' = NoPart
        BY <1>0, <2>1
      <3> QED
        BY <2>1, <2>4, <3>1, <3>2, <3>3 DEF InPlace
    <2> QED
      BY <1>0, <1>1, <1>6, <2>2, <2>5 DEF InStep
  <1>9. CASE e # -1
    <2>1. d < Len(parts)
      <3>1. ASSUME d = Len(parts) PROVE FALSE
        <4>1. Len(T) = a + 2 /\ T[a + 1] = Boundary /\ (c = a \/ c + 1 = a)
          BY <1>2, <3>1
        <4>2. Find(x, <<Break, Break>>) = -1
          BY ONLY <1>2, <1>3, <4>1, NoHeaderFound
        <4> QED
          BY <1>1, <1>9, <4>2
      <3> QED
        BY <1>3, <3>1
    <2>2. PICK p : p = parts[d + 1]
      OBVIOUS
    <2>3. PartAt(T, p, a) /\ d + 1 \in 1 .. Len(parts)
      BY <1>2, <2>1, <2>2
    <2>4. Find(x, <<Break, Break>>) = IF a + HeaderLen(p) <= r THEN a + HeaderLen(p) - 2 - c ELSE -1
      <3>1. c = a \/ (c + 1 = a /\ T[a] = Break)
        BY ONLY <1>2
      <3>2. T \in Seq(Int) /\ c \in Nat /\ r \in c .. Len(T) /\ PartAt(T, p, a) /\ x = SubSeq(T, c + 1, r)
        BY ONLY <1>2, <1>3, <2>3
      <3>3. HeaderAhead(T, p, a, c, r, x)
        BY ONLY <3>1, <3>2 DEF HeaderAhead
      <3> QED
        BY ONLY <3>3, HeaderFound
    <2>5. a + HeaderLen(p) <= r /\ e = a + HeaderLen(p) - 2 - c
      BY <1>1, <1>9, <2>4
    <2>6. {n \in ToSet(f) : n > 0} = IF p.sized THEN {p.length} ELSE {}
      <3>1. f = DropFront(DropFront(SubSeq(x, 1, a + HeaderLen(p) - 2 - c + 1), <<Break>>), <<Boundary, Break>>)
        BY <1>1, <2>5
      <3> QED
        BY ONLY <1>2, <1>3, <2>3, <2>5, <3>1, FieldsRead
    <2>7. PICK z : z = IF {n \in ToSet(f) : n > 0} = {} THEN 0 ELSE CHOOSE n \in {n \in ToSet(f) : n > 0} : TRUE
      OBVIOUS
    <2>8. /\ a \in Nat /\ p.length \in Nat /\ HeaderLen(p) \in {5, 7} /\ p.sized \in BOOLEAN
          /\ p.sized => p.length > 0
      BY <2>3, PartTypes
    <2>9. z = IF p.sized THEN p.length ELSE 0
      BY <2>6, <2>7, <2>8
    <2>10. resp' = [size |-> z, body |-> <<>>] /\ head' = <<>> /\ frag' = Drop(x, e + 2)
      BY <1>1, <1>9, <2>7 DEF ReadHeader
    <2>11. PICK k : k = a + HeaderLen(p)
      OBVIOUS
    <2>12. k \in Nat /\ k <= r /\ c <= k /\ e + 2 = k - c
      <3>1. c <= a /\ c \in Nat
        BY <1>2
      <3>2. a \in Nat /\ HeaderLen(p) \in {5, 7}
        BY <2>8
      <3>3. r \in Nat
        BY <1>3
      <3> QED
        BY ONLY <2>5, <2>11, <3>1, <3>2, <3>3
    <2>13. frag' = SubSeq(T, k + 1, r) /\ frag' \in Seq(Int)
      <3>1. PICK i, j : i = k - c /\ j = r - c
        OBVIOUS
      <3>2. /\ i \in 0 .. r - c /\ j \in i .. r - c /\ c + i = k /\ c + j = r
            /\ k \in Nat /\ r \in k .. Len(T) /\ c \in Nat /\ r \in c .. Len(T)
        BY ONLY <1>2, <1>3, <2>12, <3>1
      <3>3. SubSeq(SubSeq(T, c + 1, r), i + 1, j) = SubSeq(T, c + i + 1, c + j)
        BY ONLY <1>3, <3>2, PieceOfPiece
      <3>4. frag' = SubSeq(SubSeq(T, c + 1, r), i + 1, j)
        BY ONLY <1>2, <1>4, <2>10, <2>12, <3>1 DEF Drop
      <3>5. SubSeq(T, k + 1, r) \in Seq(Int)
        BY ONLY <1>3, <3>2, PieceFrom
      <3>6. frag' = SubSeq(T, k + 1, r)
        BY ONLY <3>2, <3>3, <3>4
      <3> QED
        BY ONLY <3>5, <3>6
    <2>14. resp' # NoPart
      <3>1. resp'.body = <<>> /\ NoPart.body = <<Boundary>> /\ <<Boundary>> # <<>>
        BY <2>10 DEF NoPart
      <3> QED
        BY <3>1
    <2>15. MultipartTypeOK'
      <3>1. z \in Nat
        BY <2>8, <2>9
      <3>2. resp' \in [size : Nat, body : Seq(Int)] /\ head' \in Seq(Int)
        BY <2>10, <3>1
      <3> QED
        BY <1>0, <1>7, <2>13, <3>2 DEF MultipartTypeOK
    <2>16. Origin(at)' = k /\ Held' = <<>>
      BY <1>0, <1>1, <2>2, <2>10, <2>11, <2>14 DEF Origin, Held
    <2>17. PartInProgress(parts[Len(delivered) + 1], at[Len(delivered) + 2])'
      <3>1. parts[Len(delivered) + 1]' = p
        BY <1>0, <1>1, <2>2
      <3>2. /\ head' = <<>> /\ resp'.body = <<>> /\ Len(resp'.body) = 0
            /\ IF p.sized THEN resp'.size = p.length /\ 0 < p.length ELSE resp'.size = 0
            /\ ~(Len(resp'.body) > p.length)
        BY <2>8, <2>9, <2>10
      <3> QED
        BY <3>1, <3>2 DEF PartInProgress
    <2>18. InPlace(at)'
      <3>1. <<>> \o frag' = frag'
        BY <2>13, ConcatEmptySeq
      <3>2. (Held \o frag)' = SubSeq(BodyOf(parts)', Origin(at)' + 1, Received')
        BY ONLY <1>6, <2>13, <2>16, <3>1
      <3>3. Origin(at)' <= Received'
        BY ONLY <1>6, <2>12, <2>16
      <3>4. (Len(delivered) < Len(parts))'
        BY <1>0, <1>1, <2>1
      <3> QED
        BY <2>14, <2>17, <3>2, <3>3, <3>4 DEF InPlace
    <2> QED
      BY <1>0, <1>1, <1>6, <2>15, <2>18 DEF InStep
  <1> QED
    BY <1>8, <1>9

(* What is processed of a fragment is its front: no more than came is left.   *)
LEMMA FragmentShrinks ==
  ASSUME MultipartTypeOK, NEW at, Marks(BodyOf(parts), parts, at), InStep(at),
         PartGoesOn \/ ReadHeader
  PROVE  Len(frag') \in Nat /\ Len(frag') <= Len(frag)
  <1>1. frag \in Seq(Int) /\ head \in Seq(Int) /\ Len(frag) \in Nat /\ Len(<<>>) = 0
    BY LenProperties, EmptySeq DEF MultipartTypeOK
  <1>2. CASE frag' = <<>>
    BY <1>1, <1>2
  <1>3. ASSUME NEW w \in Nat, w <= Len(frag), frag' = Drop(frag, w)
        PROVE  Len(frag') \in Nat /\ Len(frag') <= Len(frag)
    <2>1. Len(frag) \in w .. Len(frag)
      BY <1>1, <1>3
    <2>2. Len(SubSeq(frag, w + 1, Len(frag))) = Len(frag) - w
      BY ONLY <1>1, <1>3, <2>1, PieceFrom
    <2>3. frag' = SubSeq(frag, w + 1, Len(frag))
      BY <1>3 DEF Drop
    <2> QED
      BY <1>1, <1>3, <2>2, <2>3
  <1>4. CASE PartGoesOn /\ frag' # <<>>
    <2>1. resp \in [size : Nat, body : Seq(Int)]
      BY <1>4 DEF PartGoesOn, MultipartTypeOK
    <2>2. resp.body \in Seq(Int) /\ resp.size \in Nat /\ Len(resp.body) \in Nat
      BY <2>1, LenProperties
    <2>3. PICK z \in Int : FillPart(z)
      <3>1. PICK y, s, e : y = resp.body \o frag /\ s = <<Break, Boundary, Break>> /\ e = Find(y, s)
        OBVIOUS
      <3>2. y \in Seq(Int) /\ s \in Seq(Int)
        BY <1>1, <2>2, <3>1, ConcatProperties DEF Break, Boundary
      <3>3. e = -1 \/ e \in 0 .. Len(y) - Len(s)
        BY ONLY <3>1, <3>2, FindIsFirst
      <3>4. e \in Int
        BY ONLY <3>3
      <3>5. CASE resp.size # 0
        <4>1. FillPart(resp.size)
          BY <1>4, <3>5 DEF PartGoesOn
        <4> QED
          BY <2>2, <4>1
      <3>6. CASE resp.size = 0
        <4>1. FillPart(e)
          BY <1>4, <3>1, <3>6 DEF PartGoesOn
        <4> QED
          BY <3>4, <4>1
      <3> QED
        BY <3>5, <3>6
    <2>4. PICK w : w = Want(z)
      OBVIOUS
    <2>5. w \in Nat
      BY <2>2, <2>3, <2>4 DEF Want, Difference, Huge
    <2>6. IF w > Len(frag) THEN frag' = <<>> ELSE frag' = Drop(frag, w)
      BY <2>3, <2>4 DEF FillPart
    <2>7. w <= Len(frag) /\ frag' = Drop(frag, w)
      <3>1. ~(w > Len(frag))
        BY <1>4, <2>6
      <3>2. w <= Len(frag)
        BY ONLY <1>1, <2>5, <3>1
      <3> QED
        BY <2>6, <3>1, <3>2
    <2> QED
      BY <1>3, <2>5, <2>7
  <1>5. CASE ReadHeader /\ frag' # <<>>
    <2>1. PICK x, s, e : x = head \o frag /\ s = <<Break, Break>> /\ e = Find(x, s)
      OBVIOUS
    <2>2. e # -1 /\ frag' = Drop(x, e + 2) /\ listening /\ resp = NoPart
      BY <1>5, <2>1 DEF ReadHeader
    <2>3. s \in Seq(Int) /\ Len(s) = 2 /\ 1 .. Len(s) = {1, 2} /\ s[1] = Break /\ s[2] = Break
      BY <2>1 DEF Break
    <2>4. /\ x \in Seq(Int) /\ Len(x) = Len(head) + Len(frag) /\ Len(head) \in Nat
          /\ \A i \in 1 .. Len(head) : x[i] = head[i]
      <3>1. IsJoined(Int, head, frag, x)
        BY <1>1, <2>1 DEF IsJoined
      <3> QED
        BY ONLY <1>1, <3>1, Joined, LenProperties
    <2>5. e \in 0 .. Len(x) - 2 /\ Occurs(x, s, e)
      BY ONLY <2>1, <2>2, <2>3, <2>4, FindIsFirst
    <2>6. x[e + 1] = Break /\ x[e + 2] = Break
      BY ONLY <2>3, <2>5 DEF Occurs
    <2>7. ASSUME e + 2 <= Len(head) PROVE FALSE
      <3>1. PICK i : i = e + 1
        OBVIOUS
      <3>2. i \in 1 .. Len(head) - 1 /\ i \in 1 .. Len(head) /\ i + 1 \in 1 .. Len(head) /\ i + 1 = e + 2
        BY ONLY <2>4, <2>5, <2>7, <3>1
      <3>3. head[i] = Break /\ head[i + 1] = Break
        BY ONLY <2>4, <2>6, <3>1, <3>2
      <3> QED
        BY <2>2, <3>2, <3>3 DEF InStep, InPlace
    <2>8. PICK m : m = e + 2
      OBVIOUS
    <2>9. m \in Nat /\ Len(x) \in m .. Len(x) /\ ~(m <= Len(head))
      BY ONLY <1>1, <2>4, <2>5, <2>7, <2>8
    <2>10. Len(SubSeq(x, m + 1, Len(x))) = Len(x) - m
      BY ONLY <2>4, <2>9, PieceFrom
    <2>11. frag' = SubSeq(x, m + 1, Len(x))
      BY <2>2, <2>8 DEF Drop
    <2>12. PICK left, come, kept : left = Len(frag') /\ come = Len(frag) /\ kept = Len(head)
      OBVIOUS
    <2>13. left = Len(x) - m /\ Len(x) = kept + come
      BY ONLY <2>4, <2>10, <2>11, <2>12
    <2>14. come \in Nat /\ kept \in Nat /\ m \in Nat /\ m <= Len(x) /\ ~(m <= kept)
      BY ONLY <1>1, <2>4, <2>9, <2>12
    <2>15. left \in Nat /\ left <= come
      BY ONLY <2>13, <2>14
    <2> QED
      BY ONLY <2>12, <2>15
  <1> QED
    BY <1>2, <1>4, <1>5

(* A text part that is passed on lay, with its delimiter, in the fragments    *)
(* that had ended before its end and in the one that brought all the rest.    *)
LEMMA PassedOnUncut ==
  ASSUME MultipartTypeOK, NEW at, Marks(BodyOf(parts), parts, at), InStep(at), CutsSpared(at),
         PartGoesOn, delivered' # delivered, NEW d, d = Len(delivered), ~parts[d + 1].sized
  PROVE  at[d + 2] + 2 <= Received /\ at[d + 2] \notin cuts /\ at[d + 2] + 1 \notin cuts
  <1>0. frag # <<>> /\ listening /\ resp # NoPart
    BY DEF PartGoesOn
  <1>1. PICK T, p, a, c, r, L, b, x, e, u, f :
          /\ T = BodyOf(parts) /\ p = parts[d + 1] /\ a = at[d + 1]
          /\ c = Origin(at) /\ r = Received /\ L = p.length /\ u = at[d + 2] /\ f = Len(frag)
          /\ b = Len(resp.body) /\ x = resp.body \o frag /\ e = Find(x, <<Break, Boundary, Break>>)
    OBVIOUS
  <1>2. InPart(T, at, d, p, a, c, r)
    BY <1>0, <1>1, PlaceInPart
  <1>3. T \in Seq(Int) /\ r \in Nat /\ r <= Len(T) /\ Len(T) \in Nat /\ f \in Nat
        /\ f > 0 /\ Len(T) < Huge
    BY <1>0, <1>1, PlaceTypes
  <1>4. PartAt(T, p, a) /\ x = SubSeq(T, c + 1, r) /\ c = a + HeaderLen(p) /\ u = c + L + 1
    BY <1>1, <1>2 DEF InPart
  <1>5. /\ c \in Nat /\ c <= r /\ b \in Nat /\ b + f = r - c
    BY <1>1, <1>2 DEF InPart
  <1>6. L \in Nat
    BY <1>1, <1>4, PartTypes
  <1>7. resp.size = 0 \/ (resp.size = L /\ b > L)
    <2>1. PartInProgress(p, u)
      BY <1>0, <1>1 DEF InStep, InPlace
    <2> QED
      BY <1>1, <2>1 DEF PartInProgress
  <1>8. e = IF c + L + 3 <= r THEN L ELSE -1
    <2>1. r \in c .. Len(T) /\ T \in Seq(Int) /\ c \in Nat
      BY <1>3, <1>5
    <2>2. DataAhead(T, p, a, c, r, x)
      BY ONLY <1>4, <2>1 DEF DataAhead, IsPiece
    <2>3. Find(x, <<Break, Boundary, Break>>) = IF c + p.length + 3 <= r THEN p.length ELSE -1
      BY ONLY <2>2, DelimiterFound
    <2> QED
      BY ONLY <1>1, <2>3
  <1>9. ASSUME b > L, FillPart(L) PROVE FALSE
    <2>1. Want(L) = Huge
      BY <1>1, <1>5, <1>6, <1>9 DEF Want, Difference
    <2>2. Want(L) > Len(frag)
      BY ONLY <1>1, <1>3, <1>5, <2>1 DEF Huge
    <2> QED
      BY <1>9, <2>2 DEF FillPart
  <1>10. resp.size = 0
    <2> SUFFICES ASSUME resp.size # 0 PROVE FALSE
      OBVIOUS
    <2>1. FillPart(resp.size)
      BY DEF PartGoesOn
    <2> QED
      BY <1>7, <1>9, <2>1
  <1>11. c + L + 3 <= r
    <2> SUFFICES ASSUME ~(c + L + 3 <= r) PROVE FALSE
      OBVIOUS
    <2>1. e = -1
      BY <1>8
    <2> QED
      BY <1>1, <1>10, <2>1 DEF PartGoesOn
  <1>12. b <= L
    <2> SUFFICES ASSUME ~(b <= L) PROVE FALSE
      OBVIOUS
    <2>1. e = L /\ e # -1 /\ b > L
      BY <1>5, <1>6, <1>8, <1>11
    <2>2. FillPart(L)
      BY <1>1, <1>10, <2>1 DEF PartGoesOn
    <2> QED
      BY <1>9, <2>1, <2>2
  <1>13. ASSUME NEW k \in cuts PROVE k # u /\ k # u + 1
    <2>1. k \in Nat /\ (k = r \/ k + f <= r)
      BY <1>1, <1>13 DEF CutsSpared
    <2>2. u = c + L + 1
      BY <1>4
    <2> QED
      BY ONLY <1>3, <1>5, <1>6, <1>11, <1>12, <2>1, <2>2
  <1>14. u + 2 <= r
    BY ONLY <1>3, <1>4, <1>5, <1>6, <1>11
  <1> QED
    BY <1>1, <1>13, <1>14

LEMMA CutsSparedStep ==
  ASSUME MultipartTypeOK, NEW at, Marks(BodyOf(parts), parts, at), InStep(at), CutsSpared(at),
         [MultipartNext]_multipartVars
  PROVE  CutsSpared(at)'
  <1>1. PICK r, f, m : r = Received /\ f = Len(frag) /\ m = Len(delivered)
    OBVIOUS
  <1>2. r \in Nat /\ f \in Nat /\ m \in 0 .. Len(parts) /\ m \in Nat /\ Len(parts) \in Nat
    BY <1>1, PlaceTypes
  <1>3. /\ \A k \in cuts : k \in Nat /\ k <= r /\ (k = r \/ k + f <= r)
        /\ \A i \in 1 .. m : ~parts[i].sized =>
             at[i + 1] + 2 <= r /\ at[i + 1] \notin cuts /\ at[i + 1] + 1 \notin cuts
    BY <1>1 DEF CutsSpared
  <1>4. \A i \in 1 .. m : at[i + 1] \in Nat
    <2>1. \A i \in 1 .. m : i + 1 \in 1 .. Len(parts) + 1
      BY ONLY <1>2
    <2> QED
      BY <2>1 DEF Marks
  (* The next fragment ends behind everything that is passed on.              *)
  <1>5. ASSUME NEW n \in 1 .. Len(coming), OnBodyFrag(n) PROVE CutsSpared(at)'
    <2>1. /\ frag = <<>> /\ cuts' = cuts \cup {r + n} /\ UNCHANGED <<parts, delivered>>
          /\ frag' = SubSeq(coming, 1, n) /\ coming' = SubSeq(coming, n + 1, Len(coming))
      BY <1>1, <1>5 DEF OnBodyFrag, Drop
    <2>2. f = 0 /\ Len(coming) \in Nat /\ n \in Nat /\ n >= 1 /\ n <= Len(coming) /\ coming \in Seq(Int)
          /\ Len(BodyOf(parts)) \in Nat /\ r = Len(BodyOf(parts)) - Len(coming)
      BY <1>1, <2>1, PlaceTypes DEF MultipartTypeOK
    <2>3. PICK o : o = 0
      OBVIOUS
    <2>4. Len(frag') = n /\ Len(coming') = Len(coming) - n
      <3>1. o \in Nat /\ n \in o .. Len(coming) /\ Len(coming) \in n .. Len(coming) /\ o + 1 = 1 /\ n - o = n
        BY ONLY <2>2, <2>3
      <3>2. Len(SubSeq(coming, o + 1, n)) = n - o
        BY ONLY <2>2, <3>1, PieceFrom
      <3>3. Len(SubSeq(coming, n + 1, Len(coming))) = Len(coming) - n
        BY ONLY <2>2, <3>1, PieceFrom
      <3> QED
        BY ONLY <2>1, <3>1, <3>2, <3>3
    <2>5. Received' = r + n
      <3>1. Received' = Len(BodyOf(parts)) - Len(coming')
        BY <2>1 DEF Received
      <3> QED
        BY ONLY <2>2, <2>4, <3>1
    <2>6. ASSUME NEW k \in cuts'
          PROVE  k \in Nat /\ k <= r + n /\ (k = r + n \/ k + n <= r + n)
      <3>1. k \in cuts \/ k = r + n
        BY <2>1, <2>6
      <3> QED
        BY ONLY <1>2, <1>3, <2>2, <3>1
    <2>7. ASSUME NEW i \in 1 .. m, ~parts[i].sized
          PROVE  at[i + 1] + 2 <= r + n /\ at[i + 1] \notin cuts' /\ at[i + 1] + 1 \notin cuts'
      <3>1. /\ at[i + 1] \in Nat /\ at[i + 1] + 2 <= r
            /\ at[i + 1] \notin cuts /\ at[i + 1] + 1 \notin cuts
        BY <1>3, <1>4, <2>7
      <3>2. at[i + 1] + 2 <= r + n /\ at[i + 1] # r + n /\ at[i + 1] + 1 # r + n
        BY ONLY <1>2, <2>2, <3>1
      <3> QED
        BY <2>1, <3>1, <3>2
    <2> QED
      BY <1>1, <2>1, <2>4, <2>5, <2>6, <2>7 DEF CutsSpared
  <1>6. ASSUME UNCHANGED <<parts, coming, cuts>>, Len(frag') \in Nat, Len(frag') <= f
        PROVE  /\ Received' = r
               /\ \A k \in cuts' : k \in Nat /\ k <= r /\ (k = r \/ k + Len(frag') <= r)
    <2>1. Received' = r
      BY <1>1, <1>6 DEF Received
    <2>2. ASSUME NEW k \in cuts PROVE k \in Nat /\ k <= r /\ (k = r \/ k + Len(frag') <= r)
      BY ONLY <1>2, <1>3, <1>6, <2>2
    <2> QED
      BY <1>6, <2>1, <2>2
  <1>7. ASSUME UNCHANGED <<parts, coming, cuts, delivered>>, Len(frag') \in Nat, Len(frag') <= f
        PROVE  CutsSpared(at)'
    <2>1. /\ Received' = r
          /\ \A k \in cuts' : k \in Nat /\ k <= r /\ (k = r \/ k + Len(frag') <= r)
      BY <1>6, <1>7
    <2> QED
      BY <1>1, <1>3, <1>7, <2>1 DEF CutsSpared
  <1>8. CASE Ignore
    <2>1. UNCHANGED <<parts, coming, cuts, delivered>> /\ frag' = <<>>
      BY <1>8 DEF Ignore
    <2>2. Len(frag') = 0
      BY <2>1, EmptySeq
    <2> QED
      BY <1>2, <1>7, <2>1, <2>2
  <1>9. CASE ReadHeader
    <2>1. UNCHANGED <<parts, coming, cuts, delivered>>
      BY <1>9 DEF ReadHeader
    <2> QED
      BY <1>1, <1>7, <1>9, <2>1, FragmentShrinks
  <1>10. CASE PartGoesOn
    <2>1. UNCHANGED <<parts, coming, cuts>> /\ Len(frag') \in Nat /\ Len(frag') <= f
      BY <1>1, <1>10, FragmentShrinks DEF PartGoesOn
    <2>2. CASE delivered' = delivered
      BY <1>7, <2>1, <2>2
    <2>3. CASE delivered' # delivered
      <3>1. PICK y : delivered' = Append(delivered, y)
        BY <1>10, <2>3 DEF PartGoesOn, FillPart
      <3>2. Len(delivered') = m + 1
        <4>1. delivered \in Seq(Seq(Int))
          BY DEF MultipartTypeOK
        <4> QED
          BY <1>1, <3>1, <4>1, SMT
      <3>3. ASSUME NEW i \in 1 .. m + 1, ~parts[i].sized
            PROVE  at[i + 1] + 2 <= r /\ at[i + 1] \notin cuts /\ at[i + 1] + 1 \notin cuts
        <4>1. CASE i \in 1 .. m
          BY <1>3, <3>3, <4>1
        <4>2. CASE i = m + 1
          <5>1. i + 1 = m + 2
            BY ONLY <1>2, <4>2
          <5> QED
            BY <1>1, <1>10, <2>3, <3>3, <4>2, <5>1, PassedOnUncut
        <4> QED
          BY ONLY <1>2, <4>1, <4>2
      <3>4. /\ Received' = r
            /\ \A k \in cuts' : k \in Nat /\ k <= r /\ (k = r \/ k + Len(frag') <= r)
        BY <1>6, <2>1
      <3> QED
        BY <2>1, <3>2, <3>3, <3>4 DEF CutsSpared
    <2> QED
      BY <2>2, <2>3
  <1>11. CASE UNCHANGED multipartVars
    BY <1>1, <1>2, <1>7, <1>11 DEF multipartVars
  <1> QED
    BY <1>5, <1>8, <1>9, <1>10, <1>11 DEF MultipartNext

(* Every step keeps the parser in step with the body.                         *)
LEMMA MultipartStep == MultipartIInv /\ [MultipartNext]_multipartVars => MultipartIInv'
  <1> SUFFICES ASSUME MultipartIInv, [MultipartNext]_multipartVars PROVE MultipartIInv'
    OBVIOUS
  <1>0. MultipartTypeOK /\ parts \in PartLists
    BY DEF MultipartIInv, MultipartTypeOK
  <1>1. ASSUME NEW at, Marks(BodyOf(parts), parts, at) PROVE MultipartTypeOK' /\ InStep(at)' /\ parts' = parts
    <2>1. InStep(at)
      BY <1>1 DEF MultipartIInv
    <2>2. ASSUME NEW n \in 1 .. Len(coming), OnBodyFrag(n) PROVE MultipartTypeOK' /\ InStep(at)' /\ parts' = parts
      BY <1>0, <1>1, <2>1, <2>2, OnBodyFragStep DEF OnBodyFrag
    <2>3. ASSUME Ignore PROVE MultipartTypeOK' /\ InStep(at)' /\ parts' = parts
      BY <1>0, <2>1, <2>3, IgnoreStep DEF Ignore
    <2>4. ASSUME PartGoesOn PROVE MultipartTypeOK' /\ InStep(at)' /\ parts' = parts
      BY <1>0, <1>1, <2>1, <2>4, PartGoesOnStep DEF PartGoesOn
    <2>5. ASSUME ReadHeader PROVE MultipartTypeOK' /\ InStep(at)' /\ parts' = parts
      BY <1>0, <1>1, <2>1, <2>5, ReadHeaderStep DEF ReadHeader
    <2>6. ASSUME UNCHANGED multipartVars PROVE MultipartTypeOK' /\ InStep(at)' /\ parts' = parts
      <3>1. MultipartTypeOK'
        BY <1>0, <2>6 DEF multipartVars, MultipartTypeOK
      <3>2. InStep(at)'
        BY <2>1, <2>6 DEF multipartVars, InStep, InPlace, PartInProgress, Origin, Held, Received
      <3> QED
        BY <2>6, <3>1, <3>2 DEF multipartVars
    <2> QED
      BY <2>2, <2>3, <2>4, <2>5, <2>6 DEF MultipartNext
  <1>2. PICK at : Marks(BodyOf(parts), parts, at)
    BY <1>0, BodyMarked
  <1>3. MultipartTypeOK' /\ parts' = parts
    BY <1>1, <1>2
  <1>4. ASSUME NEW mark, Marks(BodyOf(parts), parts, mark) PROVE CutsSpared(mark)'
    <2>1. InStep(mark) /\ CutsSpared(mark)
      BY <1>4 DEF MultipartIInv
    <2> QED
      BY <1>0, <1>4, <2>1, CutsSparedStep
  <1> QED
    BY <1>1, <1>3, <1>4 DEF MultipartIInv

(* The i-th part ends where the next one begins.  At the first one at which   *)
(* the sums of the lengths differed, they would not.                          *)
LEMMA PartsEnd ==
  ASSUME NEW ps \in PartLists, NEW T, NEW at, Marks(T, ps, at), NEW n \in 1 .. Len(ps)
  PROVE  Len(FlattenSeq([j \in 1 .. n |-> Encoded(ps[j])])) = at[n + 1]
  <1>1. ps \in Seq(PartType) /\ Len(ps) \in Nat /\ n \in Nat
    BY MultipartAssumption, LenProperties DEF PartType
  <1>2. PICK seqs : seqs = [j \in 1 .. n |-> Encoded(ps[j])]
    OBVIOUS
  <1>3. ASSUME NEW j \in 1 .. n
        PROVE  /\ Encoded(ps[j]) \in Seq(Int) /\ at[j] \in Nat /\ at[j + 1] \in Nat
               /\ at[j + 1] = at[j] + Len(Encoded(ps[j]))
    <2>1. j \in 1 .. Len(ps) /\ j \in 1 .. Len(ps) + 1 /\ j + 1 \in 1 .. Len(ps) + 1
      BY <1>1
    <2>2. ps[j] \in PartType /\ at[j] \in Nat /\ at[j + 1] \in Nat
      BY <1>1, <2>1, ElementOfSeq DEF Marks
    <2>3. PICK h, k, b : h = HeaderLen(ps[j]) /\ k = ps[j].length /\ b = at[j]
      OBVIOUS
    <2>4. h \in Nat /\ k \in Nat /\ b \in Nat
      BY <2>2, <2>3 DEF PartType, HeaderLen
    <2>5. at[j + 1] = b + h + k + 1
      BY <2>1, <2>3 DEF Marks
    <2>6. Encoded(ps[j]) \in Seq(Int) /\ Len(Encoded(ps[j])) = h + k + 1
      BY <2>2, <2>3, EncodedPart
    <2>7. b + h + k + 1 = b + (h + k + 1)
      BY ONLY <2>4
    <2> QED
      BY <2>2, <2>3, <2>5, <2>6, <2>7
  <1>4. seqs \in Seq(Seq(Int)) /\ Len(seqs) = n /\ \A j \in 1 .. n : seqs[j] = Encoded(ps[j])
    <2>1. seqs \in [1 .. n -> Seq(Int)] /\ \A j \in 1 .. n : seqs[j] = Encoded(ps[j])
      BY <1>2, <1>3
    <2> QED
      BY <1>1, <2>1, FunctionIsSeq
  <1>5. PICK F, to : F = FlattenSeq(seqs) /\ LaidOut(F, seqs, to)
    BY <1>4, AnyFlattened
  <1>6. /\ to \in [1 .. n + 1 -> Nat] /\ to[1] = 0 /\ to[n + 1] = Len(F)
        /\ \A j \in 1 .. n : to[j + 1] = to[j] + Len(Encoded(ps[j]))
    BY <1>4, <1>5 DEF LaidOut
  <1>7. ASSUME to[n + 1] # at[n + 1] PROVE FALSE
    <2>1. PICK P : P = {j \in 1 .. n + 1 : to[j] # at[j]}
      OBVIOUS
    <2>2. P \in SUBSET Nat /\ P # {}
      BY <1>1, <1>7, <2>1
    <2>3. PICK m \in P : \A j \in P : m <= j
      BY <2>2, LeastElement
    <2>4. m \in 1 .. n + 1 /\ to[m] # at[m] /\ at[1] = 0
      BY <2>1, <2>3 DEF Marks
    <2>5. m # 1
      BY <1>6, <2>4
    <2>6. PICK k : k = m - 1
      OBVIOUS
    <2>7. k \in 1 .. n /\ k \in 1 .. n + 1 /\ k + 1 = m /\ ~(m <= k)
      BY ONLY <1>1, <2>4, <2>5, <2>6
    <2>8. to[k] = at[k]
      BY <2>1, <2>3, <2>7
    <2>9. to[k + 1] = to[k] + Len(Encoded(ps[k])) /\ at[k + 1] = at[k] + Len(Encoded(ps[k]))
      BY <1>3, <1>6, <2>7
    <2> QED
      BY <2>4, <2>7, <2>8, <2>9
  <1> QED
    BY <1>2, <1>5, <1>6, <1>7

(* What the invariant says when everything came.                              *)
LEMMA AllPassedOn ==
  ASSUME MultipartTypeOK, NEW at, Marks(BodyOf(parts), parts, at), InStep(at),
         coming = <<>>, frag = <<>>, listening,
         \A i \in DOMAIN parts : ~parts[i].sized => at[i + 1] \notin cuts /\ at[i + 1] + 1 \notin cuts
  PROVE  Len(delivered) = Len(parts)
  <1>1. PICK T, d, a, c, r : /\ T = BodyOf(parts) /\ d = Len(delivered) /\ a = at[d + 1]
                             /\ c = Origin(at) /\ r = Received
    OBVIOUS
  <1>2. /\ T \in Seq(Int) /\ Len(T) \in Nat /\ r = Len(T) /\ Len(frag) = 0
        /\ Len(parts) \in Nat /\ d \in 0 .. Len(parts) /\ DOMAIN parts = 1 .. Len(parts)
    <2>1. /\ T \in Seq(Int) /\ Len(T) \in Nat /\ Len(coming) = Len(T) - r /\ Len(frag) = 0
          /\ Len(coming) = 0 /\ r \in 0 .. Len(T)
          /\ Len(parts) \in Nat /\ d \in 0 .. Len(parts)
      BY <1>1, PlaceTypes
    <2>2. parts \in Seq(PartType)
      BY MultipartAssumption DEF MultipartTypeOK, PartType
    <2> QED
      BY <2>1, <2>2, LenProperties
  <1>3. InPlace(at)
    BY DEF InStep
  <1>4. CASE resp = NoPart
    <2>1. /\ c \in Nat /\ c <= r /\ (c = a \/ (c + 1 = a /\ T[a] = Break))
          /\ d < Len(parts) => PartAt(T, parts[d + 1], a)
          /\ head \o frag = SubSeq(T, c + 1, r)
      <3>1. BetweenParts(T, d, a, c, r)
        BY <1>1, <1>4, PlaceBetween
      <3> QED
        BY ONLY <3>1 DEF BetweenParts
    <2>2. c \in Nat /\ c <= r /\ (c = a \/ c + 1 = a)
      <3>1. BetweenParts(T, d, a, c, r)
        BY <1>1, <1>4, PlaceBetween
      <3>2. c \in Nat /\ c <= r
        BY ONLY <3>1 DEF BetweenParts
      <3>3. c = a \/ c + 1 = a
        BY ONLY <3>1 DEF BetweenParts
      <3> QED
        BY ONLY <3>2, <3>3
    <2>3. head \in Seq(Int) /\ head = SubSeq(T, c + 1, r)
      <3>1. head \in Seq(Int)
        BY DEF MultipartTypeOK
      <3>2. head \o <<>> = head
        BY <3>1, ConcatEmptySeq
      <3> QED
        BY <2>1, <3>1, <3>2
    <2>4. ASSUME d < Len(parts) PROVE FALSE
      <3>1. PICK p : p = parts[d + 1]
        OBVIOUS
      <3>2. PartAt(T, p, a)
        BY <2>1, <2>4, <3>1
      <3>3. a \in Nat /\ p.length \in Nat /\ HeaderLen(p) \in {5, 7}
        BY <3>2, PartTypes
      <3>4. a + HeaderLen(p) + p.length + 3 <= Len(T)
        BY <3>2 DEF PartAt
      <3>5. a + HeaderLen(p) <= r /\ r \in c .. Len(T)
        BY ONLY <1>2, <2>2, <3>3, <3>4
      <3>6. PICK e, s : s = <<Break, Break>> /\ e = Find(head, s)
        OBVIOUS
      <3>7. e = a + HeaderLen(p) - 2 - c
        <4>1. Find(head, <<Break, Break>>) = IF a + HeaderLen(p) <= r THEN a + HeaderLen(p) - 2 - c ELSE -1
          <5>1. c = a \/ (c + 1 = a /\ T[a] = Break)
            BY ONLY <2>1
          <5>2. T \in Seq(Int) /\ c \in Nat /\ r \in c .. Len(T) /\ PartAt(T, p, a) /\ head = SubSeq(T, c + 1, r)
            BY ONLY <1>2, <2>3, <2>2, <3>2, <3>5
          <5>3. HeaderAhead(T, p, a, c, r, head)
            BY ONLY <5>1, <5>2 DEF HeaderAhead
          <5> QED
            BY ONLY <5>3, HeaderFound
        <4> QED
          BY ONLY <3>5, <3>6, <4>1
      <3>8. s \in Seq(Int) /\ Len(s) = 2 /\ 1 \in 1 .. Len(s) /\ 2 \in 1 .. Len(s) /\ s[1] = Break /\ s[2] = Break
        BY <3>6 DEF Break
      <3>9. c <= a
        BY ONLY <2>2, <3>3
      <3>10. e \in Nat
        BY ONLY <2>2, <3>3, <3>7, <3>9
      <3>11. e \in 0 .. Len(head) - Len(s) /\ Occurs(head, s, e)
        <4>1. \/ e = -1
              \/ e \in 0 .. Len(head) - Len(s) /\ Occurs(head, s, e)
          BY ONLY <2>3, <3>6, <3>8, FindIsFirst
        <4> QED
          BY ONLY <3>10, <4>1
      <3>12. head[e + 1] = Break /\ head[e + 2] = Break
        BY ONLY <3>8, <3>11 DEF Occurs
      <3>13. PICK i : i = e + 1
        OBVIOUS
      <3>14. i \in 1 .. Len(head) - 1 /\ i + 1 = e + 2
        <4>1. Len(head) \in Nat
          BY <2>3, LenProperties
        <4> QED
          BY ONLY <3>8, <3>10, <3>11, <3>13, <4>1
      <3> QED
        BY <1>3, <1>4, <3>12, <3>13, <3>14 DEF InPlace
    <2>5. d = Len(parts)
      <3>1. d \in 0 .. Len(parts) /\ Len(parts) \in Nat
        BY <1>2
      <3> QED
        BY ONLY <2>4, <3>1
    <2> QED
      BY <1>1, <2>5
  <1>5. CASE resp # NoPart
    <2>1. PICK p, L, b : p = parts[d + 1] /\ L = p.length /\ b = Len(resp.body)
      OBVIOUS
    <2>2. InPart(T, at, d, p, a, c, r)
      BY <1>1, <1>5, <2>1, PlaceInPart
    <2>3. PartAt(T, p, a) /\ c = a + HeaderLen(p) /\ d + 1 \in 1 .. Len(parts)
      BY <2>2 DEF InPart
    <2>4. b = r - c /\ b \in Nat /\ c \in Nat
      <3>1. b + Len(frag) = r - c /\ b \in Nat /\ c \in Nat
        BY <2>1, <2>2 DEF InPart
      <3> QED
        BY ONLY <1>2, <3>1
    <2>5. L \in Nat
      BY <2>1, <2>3, PartTypes
    <2>6. c + L + 3 <= Len(T)
      BY <2>1, <2>3 DEF PartAt
    <2>7. b > L /\ b # 0
      BY ONLY <1>2, <2>4, <2>5, <2>6
    <2>8. PICK i, u : i = d + 1 /\ u = at[d + 2]
      OBVIOUS
    <2>9. i \in DOMAIN parts /\ p = parts[i] /\ at[i + 1] = u
      <3>1. i + 1 = d + 2
        BY ONLY <1>2, <2>8
      <3> QED
        BY <1>2, <2>1, <2>3, <2>8, <3>1
    <2>10. PartInProgress(p, u)
      BY <1>1, <1>3, <1>5, <2>1, <2>8 DEF InPlace
    <2>11. ~p.sized
      <3> SUFFICES ASSUME p.sized PROVE FALSE
        OBVIOUS
      <3>1. b < L
        BY <2>1, <2>10 DEF PartInProgress
      <3> QED
        BY ONLY <2>4, <2>5, <2>7, <3>1
    <2>12. u \in cuts \/ u + 1 \in cuts
      BY <2>1, <2>7, <2>10, <2>11 DEF PartInProgress
    <2> QED
      BY <2>9, <2>11, <2>12
  <1> QED
    BY <1>4, <1>5

(* PartsAsSent, for bodies of any parts cut anywhere: the parts passed on are *)
(* those sent, and all of them when everything came                           *)
(* (MultipartResponse::onBodyFrag, Request::onBodyFrag).                      *)
THEOREM MultipartPassesOnWhatIsSent == MultipartSpec => []PartsAsSent
  <1>1. MultipartIInv => PartsAsSent
    <2> SUFFICES ASSUME MultipartIInv PROVE PartsAsSent
      OBVIOUS
    <2>1. MultipartTypeOK /\ parts \in PartLists
      BY DEF MultipartIInv, MultipartTypeOK
    <2>2. PICK at : Marks(BodyOf(parts), parts, at)
      BY <2>1, BodyMarked
    <2>3. InStep(at) /\ CutsSpared(at)
      BY <2>2 DEF MultipartIInv
    <2>4. PICK n, m, D : n = Len(parts) /\ m = Len(delivered) /\ D = [i \in DOMAIN parts |-> Data(parts[i].length)]
      OBVIOUS
    <2>5. /\ n \in Nat /\ m \in 0 .. n /\ delivered \in Seq(Seq(Int))
          /\ \A i \in 1 .. m : delivered[i] = Data(parts[i].length)
      BY <2>1, <2>2, <2>3, <2>4, PlaceTypes DEF MultipartTypeOK, InStep
    <2>6. D \in Seq(Seq(Int)) /\ Len(D) = n /\ \A i \in 1 .. n : D[i] = Data(parts[i].length)
      <3>1. parts \in Seq(PartType) /\ DOMAIN parts = 1 .. n
        BY <2>1, <2>4, MultipartAssumption, LenProperties DEF PartType
      <3>2. ASSUME NEW i \in 1 .. n PROVE Data(parts[i].length) \in Seq(Int)
        <4>1. parts[i] \in PartType
          BY <2>4, <3>1, ElementOfSeq
        <4>2. PICK k : k = parts[i].length
          OBVIOUS
        <4>3. k \in Nat
          BY <4>1, <4>2 DEF PartType
        <4>4. Data(k) \in [1 .. k -> Int]
          BY DEF Data, Datum
        <4>5. Data(k) \in Seq(Int)
          BY ONLY <4>3, <4>4, FunctionIsSeq
        <4> QED
          BY <4>2, <4>5
      <3>3. D \in [1 .. n -> Seq(Int)] /\ \A i \in 1 .. n : D[i] = Data(parts[i].length)
        BY ONLY <2>4, <3>1, <3>2
      <3>4. D \in Seq(Seq(Int)) /\ Len(D) = n
        BY ONLY <2>5, <3>3, FunctionIsSeq
      <3> QED
        BY <3>3, <3>4
    <2>7. IsPrefix(delivered, D)
      <3>1. PICK u, v : u = SubSeq(delivered, 1, m) /\ v = SubSeq(D, 1, m)
        OBVIOUS
      <3>2. PICK o : o = 0
        OBVIOUS
      <3>3. /\ o \in Nat /\ m \in o .. Len(delivered) /\ m \in o .. Len(D) /\ o + 1 = 1 /\ m - o = m
            /\ \A i \in 1 .. m : o + i = i
        BY ONLY <2>4, <2>5, <2>6, <3>2
      <3>4. u = delivered
        BY <2>4, <2>5, <3>1, SubSeqFull
      <3>5. v \in Seq(Seq(Int)) /\ Len(v) = m /\ \A i \in 1 .. m : v[i] = D[i]
        <4>1. /\ SubSeq(D, o + 1, m) \in Seq(Seq(Int)) /\ Len(SubSeq(D, o + 1, m)) = m - o
              /\ \A i \in 1 .. m - o : SubSeq(D, o + 1, m)[i] = D[o + i]
          BY ONLY <2>6, <3>3, PieceFrom
        <4> QED
          BY ONLY <3>1, <3>3, <4>1
      <3>6. \A i \in 1 .. m : i \in 1 .. n
        BY ONLY <2>5
      <3>7. \A i \in 1 .. Len(delivered) : delivered[i] = v[i]
        BY ONLY <2>4, <2>5, <2>6, <3>5, <3>6
      <3>8. delivered = v
        BY ONLY <2>4, <2>5, <3>5, <3>7, SeqEqual
      <3>9. m <= Len(D) /\ m = Len(delivered)
        BY ONLY <2>4, <2>5, <2>6
      <3> QED
        BY <3>1, <3>4, <3>8, <3>9 DEF IsPrefix
    <2>8. frag # <<>> => boundary
      BY <2>1 DEF MultipartTypeOK
    <2>9. ASSUME NEW i \in DOMAIN parts PROVE PartEnd(i) = at[i + 1]
      <3>1. i \in 1 .. Len(parts)
        BY <2>1, <2>9, MultipartAssumption, LenProperties
      <3> QED
        BY <2>1, <2>2, <3>1, PartsEnd DEF PartEnd
    <2>10. coming = <<>> /\ frag = <<>> /\ listening /\ ~TextDelimiterCut => Len(delivered) = Len(parts)
      <3> SUFFICES ASSUME coming = <<>>, frag = <<>>, listening, ~TextDelimiterCut
                   PROVE  Len(delivered) = Len(parts)
        OBVIOUS
      <3>1. \A i \in DOMAIN parts : ~parts[i].sized => at[i + 1] \notin cuts /\ at[i + 1] + 1 \notin cuts
        BY <2>9 DEF TextDelimiterCut
      <3> QED
        BY <2>1, <2>2, <2>3, <3>1, AllPassedOn
    <2>11. Len(delivered) = Len(parts) => ~TextDelimiterCut
      <3> SUFFICES ASSUME Len(delivered) = Len(parts), NEW i \in DOMAIN parts, ~parts[i].sized
                   PROVE  PartEnd(i) \notin cuts /\ PartEnd(i) + 1 \notin cuts
        BY DEF TextDelimiterCut
      <3>1. i \in 1 .. Len(delivered)
        BY <2>1, MultipartAssumption, LenProperties
      <3>2. at[i + 1] \notin cuts /\ at[i + 1] + 1 \notin cuts
        BY <2>3, <3>1 DEF CutsSpared
      <3> QED
        BY <2>9, <3>2
    <2> QED
      BY <2>4, <2>7, <2>8, <2>10, <2>11 DEF PartsAsSent
  <1> QED
    BY <1>1, MultipartBegins, MultipartStep, PTL DEF MultipartSpec
================================================================================
