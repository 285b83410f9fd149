-------------------------- MODULE PriorityQueueProofs --------------------------
(***************************************************************************)
(* Theorems about PriorityQueue for any set of threads, any programs, any   *)
(* items and priorities.                                                    *)
(***************************************************************************)
EXTENDS PriorityQueue, MonitorProofs, ListLemmas

(* The empty queue that nobody uses. *)
LEMMA InitIInv == Init => IInv
  <1> SUFFICES ASSUME Init PROVE IInv
    OBVIOUS
  <1>1. MonitorInv
    BY MonitorInitInv DEF Init
  <1>2. TypeOK
    <2>1. queue \in Seq(Items) /\ arrived \in Seq(Items)
      BY EmptySeq DEF Init
    <2>2. op \in [Threads -> Ops]
      BY DEF Init, Ops
    <2> QED
      BY <1>1, <2>1, <2>2 DEF TypeOK, Init
  <1>3. DOMAIN queue = {} /\ DOMAIN arrived = {}
    BY DEF Init
  <1>4. \A t \in Threads : pc[t] = "idle"
    BY DEF Init, MonitorInit
  <1> QED
    BY <1>2, <1>3, <1>4
    DEF IInv, CallInv, PopsFindAnItem, EachItemOnce, Pushing, OrderedByPriorityThenAge

(* The monitor's part of every step preserves MonitorInv. *)
LEMMA MonitorStepInv ==
  ASSUME IInv, Next PROVE MonitorInv'
  <1>0. MonitorInv /\ "notEmpty" \in Conds /\ empty \in BOOLEAN
    BY PriorityAssumption DEF IInv, OrderedByPriorityThenAge, TypeOK, empty
  <1> PICK t \in Threads : Step(t) \/ Environment(t)
    BY DEF Next
  <1>1. CASE Protocol(t) \/ Test(t, empty) \/ Recheck(t, empty) \/ Signal(t, "notEmpty")
    BY <1>0, <1>1, ProtocolInv, TestInv, RecheckInv, SignalInv
  <1>2. CASE Insert(t) \/ Remove(t) \/ RemoveFromEmpty(t)
    BY <1>0, <1>2, AfterFuncInv DEF Insert, Remove, RemoveFromEmpty
  <1>3. CASE Call(t)
    <2>1. \A m \in {"direct", "when", "if"} : Begin(t, m, "notEmpty") => MonitorInv'
      BY <1>0, BeginInv DEF Modes
    <2> QED
      BY <1>3, <2>1 DEF Call
  <1>4. CASE SpuriousWakeup(t) \/ Timeout(t)
    BY <1>0, <1>4, SpuriousWakeupInv, TimeoutInv
  <1> QED
    BY <1>1, <1>2, <1>3, <1>4 DEF Step, Environment

(* The push and the pop of the map, on their own: what they do to its       *)
(* entries and to the order of arrival.                                     *)
Sorted(q, a) ==
  \A i, j \in DOMAIN q : i < j =>
    \/ Pri[q[i]] > Pri[q[j]]
    \/ /\ Pri[q[i]] = Pri[q[j]]
       /\ \E k, l \in DOMAIN a : k < l /\ a[k] = q[i] /\ a[l] = q[j]

Once(a) == \A i, j \in DOMAIN a : a[i] = a[j] => i = j

Lower(q, p) == {i \in DOMAIN q : Pri[q[i]] < p}

(* upper_bound( p ) is behind the entries that are older and as urgent. *)
LEMMA InsertSorts ==
  ASSUME NEW q \in Seq(Items), NEW a \in Seq(Items), NEW x \in Items,
         Entries(q) = Entries(a), Sorted(q, a)
  PROVE  /\ InsertedBefore(q, Lower(q, Pri[x]), x) \in Seq(Items)
         /\ Append(a, x) \in Seq(Items)
         /\ Entries(InsertedBefore(q, Lower(q, Pri[x]), x)) = Entries(q) \cup {x}
         /\ Entries(Append(a, x)) = Entries(a) \cup {x}
         /\ Sorted(InsertedBefore(q, Lower(q, Pri[x]), x), Append(a, x))
  <1>1. PICK k \in 1 .. Len(q) + 1 :
          /\ InsertedBefore(q, Lower(q, Pri[x]), x) = InsertedAt(q, k, x)
          /\ \A i \in Lower(q, Pri[x]) : k <= i
          /\ k <= Len(q) => k \in Lower(q, Pri[x])
    <2>1. Lower(q, Pri[x]) \subseteq DOMAIN q
      BY DEF Lower
    <2> HIDE DEF Lower
    <2> QED
      BY <2>1, InsertedBeforeProperties
  <1> DEFINE r == InsertedAt(q, k, x)
             b == Append(a, x)
  <1>2. /\ Len(q) \in Nat /\ DOMAIN q = 1 .. Len(q) /\ \A i \in 1 .. Len(q) : q[i] \in Items
        /\ Len(a) \in Nat /\ DOMAIN a = 1 .. Len(a) /\ \A i \in 1 .. Len(a) : a[i] \in Items
    BY LenProperties, ElementOfSeq
  <1>3. /\ r \in Seq(Items) /\ Len(r) = Len(q) + 1
        /\ \A i \in 1 .. k - 1 : r[i] = q[i]
        /\ r[k] = x
        /\ \A i \in k .. Len(q) : r[i + 1] = q[i]
    BY WithOneMore
  <1>4. /\ b \in Seq(Items) /\ Len(b) = Len(a) + 1
        /\ \A i \in 1 .. Len(a) : b[i] = a[i]
        /\ b[Len(a) + 1] = x
    BY AppendProperties
  <1>5. DOMAIN r = 1 .. Len(q) + 1 /\ DOMAIN b = 1 .. Len(a) + 1
    BY <1>3, <1>4, LenProperties
  <1> HIDE DEF r, b
  <1>6. Entries(b) = Entries(a) \cup {x}
    BY <1>2, <1>4, <1>5 DEF Entries
  <1>7. ASSUME NEW i \in 1 .. Len(q) + 1
        PROVE  \/ i < k /\ i \in 1 .. Len(q) /\ r[i] = q[i]
               \/ i = k /\ r[i] = x
               \/ i > k /\ i - 1 \in k .. Len(q) /\ r[i] = q[i - 1]
    <2>1. CASE i < k
      BY <1>2, <1>3, <2>1
    <2>2. CASE i > k
      <3>1. i - 1 \in k .. Len(q) /\ (i - 1) + 1 = i
        BY <1>2, <2>2
      <3> QED
        BY <1>3, <2>2, <3>1
    <2> QED
      BY <1>2, <1>3, <2>1, <2>2
  <1>8. Entries(r) = Entries(q) \cup {x}
    <2>1. ASSUME NEW i \in 1 .. Len(q) + 1 PROVE r[i] \in Entries(q) \cup {x}
      <3>1. i > k => i - 1 \in DOMAIN q
        BY <1>2
      <3> QED
        BY <1>2, <1>7, <3>1 DEF Entries
    <2>2. ASSUME NEW i \in 1 .. Len(q) PROVE q[i] \in Entries(r)
      <3>1. CASE i < k
        <4>1. i \in 1 .. k - 1 /\ i \in 1 .. Len(q) + 1
          BY <1>2, <3>1
        <4> QED
          BY <1>3, <1>5, <4>1 DEF Entries
      <3>2. CASE i >= k
        <4>1. i \in k .. Len(q) /\ i + 1 \in 1 .. Len(q) + 1
          BY <1>2, <3>2
        <4> QED
          BY <1>3, <1>5, <4>1 DEF Entries
      <3> QED
        BY <1>2, <3>1, <3>2
    <2>3. x \in Entries(r)
      BY <1>3, <1>5 DEF Entries
    <2> QED
      BY <1>2, <1>5, <2>1, <2>2, <2>3 DEF Entries
  <1>9. /\ \A i \in 1 .. Len(q) : i < k => Pri[q[i]] >= Pri[x]
        /\ \A i \in k .. Len(q) : Pri[q[i]] < Pri[x]
    <2>1. \A i \in 1 .. Len(q) : Pri[q[i]] \in Int
      BY <1>2, PriorityAssumption
    <2>2. Pri[x] \in Int
      BY PriorityAssumption
    <2>3. ASSUME NEW i \in 1 .. Len(q), i < k PROVE Pri[q[i]] >= Pri[x]
      <3>1. i \notin Lower(q, Pri[x])
        BY <1>1, <1>2, <2>3
      <3> QED
        BY <1>2, <2>1, <2>2, <3>1 DEF Lower
    <2>4. ASSUME NEW i \in k .. Len(q) PROVE Pri[q[i]] < Pri[x]
      <3>1. k <= Len(q) /\ k \in 1 .. Len(q) /\ i \in 1 .. Len(q) /\ k <= i
        BY <1>2
      <3>2. Pri[q[k]] < Pri[x]
        BY <1>1, <3>1 DEF Lower
      <3>3. k < i => Pri[q[k]] >= Pri[q[i]]
        BY <1>2, <2>1, <3>1 DEF Sorted
      <3> QED
        BY <1>2, <2>1, <2>2, <3>1, <3>2, <3>3
    <2> QED
      BY <2>3, <2>4
  <1>10. Sorted(r, b)
    <2> SUFFICES ASSUME NEW i \in 1 .. Len(q) + 1, NEW j \in 1 .. Len(q) + 1, i < j
                 PROVE  \/ Pri[r[i]] > Pri[r[j]]
                        \/ /\ Pri[r[i]] = Pri[r[j]]
                           /\ \E m, l \in DOMAIN b : m < l /\ b[m] = r[i] /\ b[l] = r[j]
      BY <1>5 DEF Sorted
    <2>1. ASSUME NEW u \in 1 .. Len(q), NEW v \in 1 .. Len(q), u < v, r[i] = q[u], r[j] = q[v]
          PROVE  \/ Pri[r[i]] > Pri[r[j]]
                 \/ /\ Pri[r[i]] = Pri[r[j]]
                    /\ \E m, l \in DOMAIN b : m < l /\ b[m] = r[i] /\ b[l] = r[j]
      <3>1. CASE Pri[q[u]] > Pri[q[v]]
        BY <2>1, <3>1
      <3>2. CASE ~(Pri[q[u]] > Pri[q[v]])
        <4>1. /\ Pri[q[u]] = Pri[q[v]]
              /\ \E m, l \in DOMAIN a : m < l /\ a[m] = q[u] /\ a[l] = q[v]
          BY <1>2, <2>1, <3>2 DEF Sorted
        <4>2. PICK m \in 1 .. Len(a), l \in 1 .. Len(a) : m < l /\ a[m] = q[u] /\ a[l] = q[v]
          BY <1>2, <4>1
        <4>3. m \in DOMAIN b /\ l \in DOMAIN b /\ b[m] = a[m] /\ b[l] = a[l]
          BY <1>2, <1>4, <1>5, <4>2
        <4> QED
          BY <2>1, <4>1, <4>2, <4>3
      <3> QED
        BY <3>1, <3>2
    <2>2. CASE j = k
      <3>1. i \in 1 .. Len(q) /\ i < k /\ r[i] = q[i] /\ r[j] = x
        BY <1>2, <1>7, <2>2
      <3>2. Pri[q[i]] \in Int /\ Pri[x] \in Int /\ Pri[q[i]] >= Pri[x]
        BY <1>2, <1>9, <3>1, PriorityAssumption
      <3>3. PICK m \in 1 .. Len(a) : a[m] = q[i]
        <4>1. q[i] \in Entries(a)
          BY <1>2, <3>1 DEF Entries
        <4> QED
          BY <1>2, <4>1 DEF Entries
      <3>4. /\ m \in DOMAIN b /\ Len(a) + 1 \in DOMAIN b /\ m < Len(a) + 1
            /\ b[m] = r[i] /\ b[Len(a) + 1] = r[j]
        BY <1>2, <1>4, <1>5, <3>1, <3>3
      <3> QED
        BY <3>1, <3>2, <3>4
    <2>3. CASE i = k
      <3>1. j - 1 \in k .. Len(q) /\ r[j] = q[j - 1] /\ r[i] = x
        BY <1>2, <1>7, <2>3
      <3> QED
        BY <1>2, <1>9, <3>1, PriorityAssumption
    <2>4. CASE i # k /\ j # k
      <3>1. CASE j < k
        <4>1. i \in 1 .. Len(q) /\ j \in 1 .. Len(q) /\ r[i] = q[i] /\ r[j] = q[j]
          BY <1>2, <1>7, <3>1
        <4> QED
          BY <2>1, <4>1
      <3>2. CASE i < k /\ j > k
        <4>1. i \in 1 .. Len(q) /\ j - 1 \in 1 .. Len(q) /\ r[i] = q[i] /\ r[j] = q[j - 1]
              /\ i < j - 1
          BY <1>2, <1>7, <3>2
        <4> QED
          BY <2>1, <4>1
      <3>3. CASE i > k
        <4>1. i - 1 \in 1 .. Len(q) /\ j - 1 \in 1 .. Len(q) /\ r[i] = q[i - 1] /\ r[j] = q[j - 1]
              /\ i - 1 < j - 1
          BY <1>2, <1>7, <3>3
        <4> QED
          BY <2>1, <4>1
      <3> QED
        BY <1>2, <2>4, <3>1, <3>2, <3>3
    <2> QED
      BY <2>2, <2>3, <2>4
  <1> QED
    BY <1>1, <1>3, <1>4, <1>6, <1>8, <1>10 DEF r, b

(* Taking the first entry of the map keeps the others in their order. *)
LEMMA RemoveSorts ==
  ASSUME NEW q \in Seq(Items), NEW a \in Seq(Items), q # <<>>,
         Entries(q) = Entries(a), Sorted(q, a), Once(a)
  PROVE  /\ Tail(q) \in Seq(Items)
         /\ Without(a, Head(q)) \in Seq(Items)
         /\ Entries(Without(a, Head(q))) \subseteq Entries(a)
         /\ Entries(Tail(q)) = Entries(Without(a, Head(q)))
         /\ Sorted(Tail(q), Without(a, Head(q)))
         /\ Once(Without(a, Head(q)))
  <1> DEFINE h == Head(q)
             r == Tail(q)
             b == Without(a, h)
  <1>1. /\ Len(q) \in Nat \ {0} /\ DOMAIN q = 1 .. Len(q) /\ \A i \in 1 .. Len(q) : q[i] \in Items
        /\ Len(a) \in Nat /\ DOMAIN a = 1 .. Len(a) /\ \A i \in 1 .. Len(a) : a[i] \in Items
    BY LenProperties, ElementOfSeq, EmptySeq
  <1>2. /\ h = q[1] /\ r \in Seq(Items) /\ Len(r) = Len(q) - 1
        /\ \A i \in 1 .. Len(q) - 1 : r[i] = q[i + 1]
    BY HeadTailProperties
  <1>3. PICK p \in 1 .. Len(a) : a[p] = h
    <2>1. 1 \in DOMAIN q /\ h = q[1]
      BY <1>1, <1>2
    <2>2. h \in Entries(q)
      BY <2>1 DEF Entries
    <2> QED
      BY <1>1, <2>2 DEF Entries
  <1>4. /\ b \in Seq(Items) /\ Len(b) = Len(a) - 1
        /\ \A i \in 1 .. p - 1 : b[i] = a[i]
        /\ \A i \in p .. Len(a) - 1 : b[i] = a[i + 1]
    <2>1. \A i \in 1 .. Len(a) : a[i] = a[p] => i = p
      BY <1>1 DEF Once
    <2>2. /\ Without(a, a[p]) \in Seq(Items) /\ Len(Without(a, a[p])) = Len(a) - 1
          /\ \A i \in 1 .. p - 1 : Without(a, a[p])[i] = a[i]
          /\ \A i \in p .. Len(a) - 1 : Without(a, a[p])[i] = a[i + 1]
      BY <2>1, WithoutOnce
    <2> QED
      BY <1>3, <2>2
  <1>5. DOMAIN r = 1 .. Len(q) - 1 /\ DOMAIN b = 1 .. Len(a) - 1
    BY <1>1, <1>2, <1>4, LenProperties
  <1> HIDE DEF h, r, b
  <1> DEFINE to(i) == IF i < p THEN i ELSE i - 1
             from(i) == IF i < p THEN i ELSE i + 1
  <1>6. ASSUME NEW i \in 1 .. Len(a), i # p PROVE to(i) \in DOMAIN b /\ b[to(i)] = a[i]
    <2>1. CASE i < p
      BY <1>1, <1>4, <1>5, <2>1
    <2>2. CASE i > p
      <3>1. i - 1 \in p .. Len(a) - 1 /\ (i - 1) + 1 = i /\ i - 1 \in 1 .. Len(a) - 1
        BY <1>1, <2>2
      <3> QED
        BY <1>1, <1>4, <1>5, <2>2, <3>1
    <2> QED
      BY <1>1, <1>6, <2>1, <2>2
  <1>7. ASSUME NEW i \in DOMAIN b
        PROVE  from(i) \in 1 .. Len(a) /\ from(i) # p /\ b[i] = a[from(i)]
    <2>1. CASE i < p
      BY <1>1, <1>4, <1>5, <2>1
    <2>2. CASE i >= p
      <3>1. i \in p .. Len(a) - 1 /\ i + 1 \in 1 .. Len(a)
        BY <1>1, <1>5, <2>2
      <3> QED
        BY <1>1, <1>4, <2>2, <3>1
    <2> QED
      BY <1>1, <1>5, <2>1, <2>2
  <1>8. Once(b)
    <2> SUFFICES ASSUME NEW i \in DOMAIN b, NEW j \in DOMAIN b, b[i] = b[j] PROVE i = j
      BY DEF Once
    <2>1. from(i) = from(j)
      <3> HIDE DEF from
      <3> QED
        BY <1>1, <1>7 DEF Once
    <2> QED
      BY <1>1, <1>5, <2>1
  <1>9. Entries(b) = Entries(a) \ {h}
    <2>1. ASSUME NEW i \in DOMAIN b PROVE b[i] \in Entries(a) \ {h}
      <3>1. from(i) \in DOMAIN a /\ a[from(i)] # a[p] /\ b[i] = a[from(i)]
        <4> HIDE DEF from
        <4> QED
          BY <1>1, <1>7 DEF Once
      <3> HIDE DEF from
      <3> QED
        BY <1>3, <3>1 DEF Entries
    <2>2. ASSUME NEW i \in DOMAIN a, a[i] # h PROVE a[i] \in Entries(b)
      <3>1. to(i) \in DOMAIN b /\ b[to(i)] = a[i]
        BY <1>1, <1>3, <1>6, <2>2
      <3> HIDE DEF to
      <3> QED
        BY <3>1 DEF Entries
    <2> QED
      BY <2>1, <2>2 DEF Entries
  <1>10. ASSUME NEW i \in DOMAIN q, NEW j \in DOMAIN q, q[i] = q[j] PROVE i = j
    <2>1. \A m, l \in DOMAIN a : a[m] = a[l] => ~(m < l)
      BY <1>1 DEF Once
    <2>0. Pri[q[i]] = Pri[q[j]] /\ ~(Pri[q[i]] > Pri[q[j]]) /\ ~(Pri[q[j]] > Pri[q[i]])
      BY <1>1, <1>10, PriorityAssumption
    <2>2. ~(i < j)
      BY <1>10, <2>0, <2>1 DEF Sorted
    <2>3. ~(j < i)
      BY <1>10, <2>0, <2>1 DEF Sorted
    <2> QED
      BY <1>1, <2>2, <2>3
  <1>11. Entries(r) = Entries(q) \ {h}
    <2>1. ASSUME NEW i \in DOMAIN r PROVE r[i] \in Entries(q) \ {h}
      <3>1. i + 1 \in DOMAIN q /\ 1 \in DOMAIN q /\ i + 1 # 1 /\ r[i] = q[i + 1]
        BY <1>1, <1>2, <1>5
      <3>2. q[i + 1] # q[1]
        BY <1>10, <3>1
      <3> QED
        BY <1>2, <3>1, <3>2 DEF Entries
    <2>2. ASSUME NEW i \in DOMAIN q, q[i] # h PROVE q[i] \in Entries(r)
      <3>1. i - 1 \in 1 .. Len(q) - 1 /\ (i - 1) + 1 = i
        BY <1>1, <1>2, <2>2
      <3> QED
        BY <1>2, <1>5, <3>1 DEF Entries
    <2> QED
      BY <2>1, <2>2 DEF Entries
  <1>12. Sorted(r, b)
    <2> SUFFICES ASSUME NEW i \in DOMAIN r, NEW j \in DOMAIN r, i < j
                 PROVE  \/ Pri[r[i]] > Pri[r[j]]
                        \/ /\ Pri[r[i]] = Pri[r[j]]
                           /\ \E m, l \in DOMAIN b : m < l /\ b[m] = r[i] /\ b[l] = r[j]
      BY DEF Sorted
    <2>1. /\ i + 1 \in DOMAIN q /\ j + 1 \in DOMAIN q /\ i + 1 < j + 1
          /\ r[i] = q[i + 1] /\ r[j] = q[j + 1]
      BY <1>1, <1>2, <1>5
    <2>2. CASE Pri[q[i + 1]] > Pri[q[j + 1]]
      BY <2>1, <2>2
    <2>3. CASE ~(Pri[q[i + 1]] > Pri[q[j + 1]])
      <3>1. /\ Pri[r[i]] = Pri[r[j]]
            /\ \E m, l \in DOMAIN a : m < l /\ a[m] = r[i] /\ a[l] = r[j]
        BY <2>1, <2>3 DEF Sorted
      <3>2. PICK m \in 1 .. Len(a), l \in 1 .. Len(a) : m < l /\ a[m] = r[i] /\ a[l] = r[j]
        BY <1>1, <3>1
      <3>3. r[i] # h /\ r[j] # h
        BY <1>5, <1>11 DEF Entries
      <3>4. m # p /\ l # p
        BY <1>3, <3>2, <3>3
      <3>5. /\ to(m) \in DOMAIN b /\ b[to(m)] = r[i]
            /\ to(l) \in DOMAIN b /\ b[to(l)] = r[j]
        <4> HIDE DEF to
        <4> QED
          BY <1>6, <3>2, <3>4
      <3>6. to(m) < to(l)
        BY <1>1, <3>2, <3>4
      <3> HIDE DEF to
      <3> QED
        BY <3>1, <3>5, <3>6
    <2> QED
      BY <2>2, <2>3
  <1> QED
    BY <1>2, <1>4, <1>8, <1>9, <1>11, <1>12 DEF h, r, b

(* The map's invariants in the words of these lemmas. *)
LEMMA OrderedMeans ==
  OrderedByPriorityThenAge <=>
    TypeOK /\ Entries(queue) = Entries(arrived) /\ Sorted(queue, arrived)
  BY DEF OrderedByPriorityThenAge, Entries, Sorted, Precedes

(* Steps that leave the map and the calls alone move their own thread only, *)
(* inside its call.                                                         *)
Quiet(t) ==
  /\ \/ Protocol(t) \/ Test(t, empty) \/ Recheck(t, empty) \/ Signal(t, "notEmpty")
     \/ SpuriousWakeup(t) \/ Timeout(t)
  /\ UNCHANGED queueVars

LEMMA Steps ==
  ASSUME Next
  PROVE  \E t \in Threads :
           Quiet(t) \/ Insert(t) \/ Remove(t) \/ RemoveFromEmpty(t) \/ Call(t)
  BY DEF Next, Step, Environment, Quiet

LEMMA QuietSteps ==
  ASSUME MonitorTypeOK, NEW t \in Threads, Quiet(t)
  PROVE  /\ UNCHANGED <<queue, op, item, unused, arrived, undefined, mode, on>>
         /\ \A u \in Threads : u # t => pc'[u] = pc[u]
         /\ \A u \in Threads : pc'[u] # "idle" => pc[u] # "idle"
         /\ pc'[t] # "enter" \/ pc[t] = "enter"
         /\ pc'[t] = "func" =>
              pc[t] = "func" \/ (pc[t] = "enter" /\ mode[t] = "direct")
              \/ (pc[t] = "test" /\ ~empty) \/ (pc[t] = "dropCond" /\ mode[t] # "when")
  BY DEF Quiet, queueVars, Protocol, Enter, Test, LockCond, ReleaseGuard, Sleep, Wake,
     Recheck, GiveUp, Relock, DropCond, Leave, Signal, SpuriousWakeup, Timeout, Goto,
     MonitorTypeOK

(* A functor ends with its thread on the way out, and it had the guard.     *)
LEMMA FunctorAlone ==
  ASSUME IInv, NEW t \in Threads, Insert(t) \/ Remove(t) \/ RemoveFromEmpty(t)
  PROVE  /\ pc[t] = "func" /\ UNCHANGED <<op, mode, unused>>
         /\ pc'[t] \in {"signal", "leave"}
         /\ \A u \in Threads : u # t => pc'[u] = pc[u] /\ pc[u] # "func"
  <1>1. /\ pc[t] = "func" /\ UNCHANGED <<op, mode, unused>>
        /\ pc'[t] \in {"signal", "leave"} /\ \A u \in Threads : u # t => pc'[u] = pc[u]
    BY DEF Insert, Remove, RemoveFromEmpty, AfterFunc, Goto, IInv,
       OrderedByPriorityThenAge, TypeOK, MonitorInv, MonitorTypeOK
  <1> QED
    BY <1>1 DEF IInv, OrderedByPriorityThenAge, TypeOK, MonitorInv, GuardInv,
       HeldExactlyBy, PcHoldingGuard

(* A thread stays in the member function it called. *)
LEMMA CallStep ==
  ASSUME IInv, Next PROVE CallInv'
  <1> USE DEF IInv, OrderedByPriorityThenAge, TypeOK, MonitorInv, MonitorTypeOK, CallInv
  <1>1. ASSUME NEW t \in Threads, Quiet(t) PROVE CallInv'
    BY <1>1, QuietSteps
  <1>2. ASSUME NEW t \in Threads, Insert(t) \/ Remove(t) \/ RemoveFromEmpty(t) PROVE CallInv'
    BY <1>2 DEF Insert, Remove, RemoveFromEmpty, AfterFunc, Goto
  <1>3. ASSUME NEW t \in Threads, Call(t) PROVE CallInv'
    BY <1>3, PriorityAssumption DEF Call, Begin, Goto, Ops
  <1> QED
    BY <1>1, <1>2, <1>3, Steps

(* Between the last empty() of pop's whenNotEmpty and its functor the map   *)
(* does not change.                                                         *)
LEMMA PopsFindAnItemStep ==
  ASSUME IInv, Next PROVE PopsFindAnItem'
  <1> USE DEF IInv, OrderedByPriorityThenAge, TypeOK, MonitorInv, MonitorTypeOK
  <1> SUFFICES ASSUME NEW u \in Threads, pc'[u] = "func", op'[u] = "pop" PROVE ~empty'
    BY DEF PopsFindAnItem
  <1>1. ASSUME NEW t \in Threads, Quiet(t) PROVE ~empty'
    <2>1. queue' = queue /\ op' = op /\ pc[u] # "idle"
      BY <1>1, QuietSteps
    <2>2. mode[u] = "when"
      BY <2>1 DEF CallInv
    <2>3. pc[u] = "func" \/ ~empty
      BY <1>1, <2>2, QuietSteps
    <2> QED
      BY <2>1, <2>3 DEF PopsFindAnItem, empty
  <1>2. ASSUME NEW t \in Threads, Insert(t) \/ Remove(t) \/ RemoveFromEmpty(t) PROVE ~empty'
    BY <1>2, FunctorAlone
  <1>3. ASSUME NEW t \in Threads, Call(t) PROVE ~empty'
    BY <1>3 DEF Call, Begin, Goto, PopsFindAnItem, empty
  <1> QED
    BY <1>1, <1>2, <1>3, Steps

(* The map's contents, their order, and where every item is. *)
LEMMA MapStep ==
  ASSUME IInv, Next PROVE EachItemOnce' /\ OrderedByPriorityThenAge'
  <1>0. MonitorInv'
    BY MonitorStepInv
  <1> USE DEF IInv
  <1>1. /\ MonitorInv /\ MonitorTypeOK
        /\ queue \in Seq(Items) /\ arrived \in Seq(Items)
        /\ op \in [Threads -> Ops] /\ item \in [Threads -> Items \cup {NoItem}]
        /\ unused \in SUBSET Items /\ undefined \in BOOLEAN
        /\ Entries(queue) = Entries(arrived) /\ Sorted(queue, arrived)
    BY OrderedMeans DEF TypeOK, MonitorInv
  <1>2. Once(arrived)
    BY DEF EachItemOnce, Once
  <1>3. SUFFICES /\ EachItemOnce'
                 /\ queue' \in Seq(Items) /\ arrived' \in Seq(Items)
                 /\ op' \in [Threads -> Ops] /\ item' \in [Threads -> Items \cup {NoItem}]
                 /\ unused' \in SUBSET Items /\ undefined' \in BOOLEAN
                 /\ Entries(queue') = Entries(arrived') /\ Sorted(queue', arrived')
    BY <1>0, <1>3 DEF TypeOK, OrderedByPriorityThenAge, Entries, Sorted, Precedes
  <1> DEFINE Goal == /\ EachItemOnce'
                     /\ queue' \in Seq(Items) /\ arrived' \in Seq(Items)
                     /\ op' \in [Threads -> Ops] /\ item' \in [Threads -> Items \cup {NoItem}]
                     /\ unused' \in SUBSET Items /\ undefined' \in BOOLEAN
                     /\ Entries(queue') = Entries(arrived') /\ Sorted(queue', arrived')
  <1>4. ASSUME NEW t \in Threads, Quiet(t) PROVE Goal
    <2>1. /\ UNCHANGED <<queue, op, item, unused, arrived, undefined>>
          /\ \A u \in Threads : Pushing(u)' => Pushing(u)
      <3>1. /\ UNCHANGED <<queue, op, item, unused, arrived, undefined, mode>>
            /\ \A u \in Threads : u # t => pc'[u] = pc[u]
            /\ pc'[t] # "enter" \/ pc[t] = "enter"
        BY <1>1, <1>4, QuietSteps
      <3>2. op[t] = "push" /\ pc'[t] = "func" => pc[t] \in {"enter", "func"}
        <4>1. op[t] = "push" /\ pc[t] # "idle" => mode[t] = "direct"
          BY DEF CallInv
        <4>2. pc[t] \in {"test", "dropCond"} => mode[t] # "direct"
          BY <1>1 DEF MonitorInv, WaitersInv
        <4> QED
          BY <1>1, <1>4, <4>1, <4>2, QuietSteps
      <3> QED
        BY <3>1, <3>2 DEF Pushing
    <2> QED
      BY <1>1, <2>1 DEF EachItemOnce
  <1>5. ASSUME NEW t \in Threads, Insert(t) PROVE Goal
    <2> DEFINE x == item[t]
    <2>1. /\ queue' = InsertedBefore(queue, Lower(queue, Pri[x]), x)
          /\ arrived' = Append(arrived, x)
          /\ UNCHANGED <<op, item, unused, undefined>>
      BY <1>5 DEF Insert, FromUpperBound, Lower
    <2>2. Pushing(t) /\ x \in Items /\ x \notin unused
      BY <1>5 DEF Insert, AfterFunc, CallInv, Pushing, EachItemOnce
    <2>3. \A u \in Threads : Pushing(u)' => u # t /\ Pushing(u)
      BY <1>5, <2>1, FunctorAlone DEF Pushing
    <2> HIDE DEF x
    <2>4. /\ queue' \in Seq(Items) /\ arrived' \in Seq(Items)
          /\ Entries(queue') = Entries(arrived') /\ Sorted(queue', arrived')
      <3> DEFINE q == InsertedBefore(queue, Lower(queue, Pri[x]), x)
                 a == Append(arrived, x)
      <3>1. /\ q \in Seq(Items) /\ a \in Seq(Items)
            /\ Entries(q) = Entries(queue) \cup {x} /\ Entries(a) = Entries(arrived) \cup {x}
            /\ Sorted(q, a)
        <4>1. x \in Items /\ queue \in Seq(Items) /\ arrived \in Seq(Items)
              /\ Entries(queue) = Entries(arrived) /\ Sorted(queue, arrived)
          BY <1>1, <2>2
        <4> HIDE DEF IInv
        <4> QED
          BY ONLY <4>1, InsertSorts
      <3>2. queue' = q /\ arrived' = a
        BY <2>1
      <3> HIDE DEF q, a
      <3> QED
        BY <1>1, <3>1, <3>2
    <2>5. EachItemOnce'
      <3>1. /\ Len(arrived) \in Nat /\ DOMAIN arrived = 1 .. Len(arrived)
            /\ DOMAIN arrived' = 1 .. Len(arrived) + 1
            /\ \A i \in 1 .. Len(arrived) : arrived'[i] = arrived[i]
            /\ arrived'[Len(arrived) + 1] = x
        BY <1>1, <2>1, <2>2, <2>4, AppendProperties, LenProperties
      <3>2. \A i \in DOMAIN arrived : arrived[i] # x /\ arrived[i] \notin unused
        BY <2>2 DEF EachItemOnce, x
      <3>3. \A u \in Threads : Pushing(u)' => item[u] # x /\ item[u] \notin unused
        BY <2>2, <2>3 DEF EachItemOnce, x
      <3>4. \A i \in DOMAIN arrived' : i \in DOMAIN arrived \/ arrived'[i] = x
        BY <3>1
      <3>5. \A u, v \in Threads : Pushing(u)' /\ Pushing(v)' /\ item'[u] = item'[v] => u = v
        BY <2>1, <2>3 DEF EachItemOnce
      <3>6. ASSUME NEW i \in DOMAIN arrived'
            PROVE  /\ arrived'[i] \notin unused'
                   /\ \A u \in Threads : Pushing(u)' => arrived'[i] # item'[u]
                   /\ \A j \in DOMAIN arrived' : arrived'[i] = arrived'[j] => i = j
        <4>1. arrived'[i] \notin unused'
          BY <2>1, <2>2, <3>1, <3>2, <3>4
        <4>2. \A u \in Threads : Pushing(u)' => arrived'[i] # item'[u]
          BY <2>1, <2>3, <3>1, <3>3, <3>4 DEF EachItemOnce
        <4>3. \A j \in DOMAIN arrived' : arrived'[i] = arrived'[j] => i = j
          BY <1>2, <3>1, <3>2 DEF Once
        <4> QED
          BY <4>1, <4>2, <4>3
      <3>7. \A u \in Threads : Pushing(u)' => item'[u] \notin unused'
        BY <2>1, <3>3
      <3> QED
        BY <3>5, <3>6, <3>7 DEF EachItemOnce
    <2> QED
      BY <1>1, <2>1, <2>4, <2>5
  <1>6. ASSUME NEW t \in Threads, Remove(t) PROVE Goal
    <2>1. /\ queue # <<>> /\ queue' = Tail(queue) /\ arrived' = Without(arrived, Head(queue))
          /\ item' = [item EXCEPT ![t] = Head(queue)]
          /\ UNCHANGED <<op, unused, undefined>>
      BY <1>6 DEF Remove, empty
    <2>2. \A u \in Threads : Pushing(u)' => u # t /\ Pushing(u)
      BY <1>6, <2>1, FunctorAlone DEF Pushing
    <2>3. /\ queue' \in Seq(Items) /\ arrived' \in Seq(Items)
          /\ Entries(queue') = Entries(arrived') /\ Sorted(queue', arrived')
          /\ Entries(arrived') \subseteq Entries(arrived) /\ Once(arrived')
      BY <1>1, <1>2, <2>1, RemoveSorts
    <2>4. item' \in [Threads -> Items \cup {NoItem}]
      BY <1>1, <2>1, HeadTailProperties
    <2>5. EachItemOnce'
      <3>1. \A y \in Entries(arrived) :
              y \notin unused /\ \A u \in Threads : Pushing(u) => y # item[u]
        BY DEF EachItemOnce, Entries
      <3>2. \A i \in DOMAIN arrived' : arrived'[i] \in Entries(arrived)
        BY <2>3 DEF Entries
      <3>3. \A u \in Threads : Pushing(u)' => item'[u] = item[u]
        BY <1>1, <2>1, <2>2
      <3>4. \A u, v \in Threads : Pushing(u)' /\ Pushing(v)' /\ item'[u] = item'[v] => u = v
        BY <2>2, <3>3 DEF EachItemOnce
      <3>5. \A u \in Threads : Pushing(u)' => item'[u] \notin unused'
        BY <2>1, <2>2, <3>3 DEF EachItemOnce
      <3>6. \A i \in DOMAIN arrived' :
              /\ arrived'[i] \notin unused'
              /\ \A u \in Threads : Pushing(u)' => arrived'[i] # item'[u]
              /\ \A j \in DOMAIN arrived' : arrived'[i] = arrived'[j] => i = j
        BY <2>1, <2>2, <2>3, <3>1, <3>2, <3>3 DEF Once
      <3> QED
        BY <3>4, <3>5, <3>6 DEF EachItemOnce
    <2> QED
      BY <1>1, <2>1, <2>3, <2>4, <2>5
  <1>7. ASSUME NEW t \in Threads, RemoveFromEmpty(t) PROVE Goal
    <2>1. /\ UNCHANGED <<queue, op, unused, arrived>> /\ undefined' = TRUE
          /\ \E x \in Items \cup {NoItem} : item' = [item EXCEPT ![t] = x]
      BY <1>7 DEF RemoveFromEmpty
    <2>2. \A u \in Threads : Pushing(u)' => u # t /\ Pushing(u) /\ item'[u] = item[u]
      BY <1>1, <1>7, <2>1, FunctorAlone DEF Pushing
    <2> QED
      BY <1>1, <2>1, <2>2 DEF EachItemOnce
  <1>8. ASSUME NEW t \in Threads, Call(t) PROVE Goal
    <2>0. PICK o \in Ops, new \in Items \cup {NoItem} :
            /\ op' = [op EXCEPT ![t] = o] /\ item' = [item EXCEPT ![t] = new]
            /\ \E m \in Modes : Begin(t, m, "notEmpty")
      BY <1>1, <1>8, PriorityAssumption DEF Call, Modes
    <2>1. /\ UNCHANGED <<queue, arrived, undefined>> /\ pc[t] = "idle"
          /\ \A u \in Threads : u # t => pc'[u] = pc[u] /\ op'[u] = op[u] /\ item'[u] = item[u]
          /\ op' \in [Threads -> Ops] /\ item' \in [Threads -> Items \cup {NoItem}]
      <3>1. UNCHANGED <<queue, arrived, undefined>>
        BY <1>8 DEF Call
      <3>2. pc[t] = "idle" /\ \A u \in Threads : u # t => pc'[u] = pc[u]
        BY <1>1, <2>0 DEF Begin, Goto, MonitorTypeOK
      <3> QED
        BY <1>1, <2>0, <3>1, <3>2
    <2>2. CASE op'[t] = "push"
      <3>1. PICK x \in unused : item'[t] = x /\ unused' = unused \ {x}
        BY <1>1, <1>8, <2>2 DEF Call
      <3>2. \A u \in Threads : u # t /\ Pushing(u)' => Pushing(u) /\ item'[u] = item[u]
        BY <2>1 DEF Pushing
      <3>3. EachItemOnce'
        <4>1. \A u \in Threads : Pushing(u)' => item'[u] \notin unused'
          BY <3>1, <3>2 DEF EachItemOnce
        <4>2. \A u, v \in Threads : Pushing(u)' /\ Pushing(v)' /\ item'[u] = item'[v] => u = v
          BY <3>1, <3>2 DEF EachItemOnce
        <4>3. \A i \in DOMAIN arrived' :
                /\ arrived'[i] \notin unused'
                /\ \A u \in Threads : Pushing(u)' => arrived'[i] # item'[u]
                /\ \A j \in DOMAIN arrived' : arrived'[i] = arrived'[j] => i = j
          BY <2>1, <3>1, <3>2 DEF EachItemOnce
        <4> QED
          BY <4>1, <4>2, <4>3 DEF EachItemOnce
      <3> QED
        BY <1>1, <2>1, <3>1, <3>3
    <2>3. CASE op'[t] # "push"
      <3>1. unused' = unused
        BY <1>1, <1>8, <2>3 DEF Call
      <3>2. \A u \in Threads : Pushing(u)' => Pushing(u) /\ item'[u] = item[u]
        BY <2>1, <2>3 DEF Pushing
      <3> QED
        BY <1>1, <2>1, <3>1, <3>2 DEF EachItemOnce
    <2> QED
      BY <2>2, <2>3
  <1> QED
    BY <1>4, <1>5, <1>6, <1>7, <1>8, Steps

(* The inductive invariant holds. *)
THEOREM PriorityInvariance == Spec => []IInv
  <1>1. IInv /\ [Next]_vars => IInv'
    <2> SUFFICES ASSUME IInv, [Next]_vars PROVE IInv'
      OBVIOUS
    <2>1. CASE Next
      BY <2>1, CallStep, PopsFindAnItemStep, MapStep DEF IInv
    <2>2. CASE UNCHANGED vars
      <3>1. MonitorInv'
        BY <2>2, StutterInv DEF vars, monitorVars, IInv, OrderedByPriorityThenAge, TypeOK
      <3>2. UNCHANGED <<queue, op, item, unused, arrived, undefined, pc, mode>>
        BY <2>2 DEF vars, monitorVars, queueVars
      <3>3. TypeOK'
        BY <3>1, <3>2 DEF IInv, OrderedByPriorityThenAge, TypeOK
      <3>4. OrderedByPriorityThenAge'
        BY <3>2, <3>3 DEF IInv, OrderedByPriorityThenAge, Precedes
      <3>5. CallInv' /\ PopsFindAnItem'
        BY <3>2 DEF IInv, CallInv, PopsFindAnItem, empty
      <3>6. EachItemOnce'
        BY <3>2 DEF IInv, EachItemOnce, Pushing
      <3> QED
        BY <3>4, <3>5, <3>6 DEF IInv
    <2> QED
      BY <2>1, <2>2
  <1> QED
    BY InitIInv, <1>1, PTL DEF Spec

(* A pop without a timeout never pops an empty map, for any number of       *)
(* consumers.                                                               *)
THEOREM PriorityPopsAreSafe == Spec => []PopsFindAnItem
  BY PriorityInvariance, PTL DEF IInv

(* Whatever the interleaving, the map holds what was pushed and not popped, *)
(* by priority and then by age.                                             *)
THEOREM PriorityOrder == Spec => []OrderedByPriorityThenAge
  BY PriorityInvariance, PTL DEF IInv
================================================================================
