----------------------------- MODULE LifetimeProofs -----------------------------
(***************************************************************************)
(* Theorems about the components that own what they free: a Thread and its  *)
(* pthreads, for any number of starts; the ObjectPtrs and the garbage        *)
(* collector, for any number of objects, handles, frames and entries; a      *)
(* Singleton and the units that use it, for any units, users and number of   *)
(* replacements.                                                            *)
(***************************************************************************)
EXTENDS Thread, ObjectPtr, Singleton, ListLemmas, FunctionTheorems

--------------------------------------------------------------------------------
(* Thread. *)

LEMMA ThreadTypeStep ==
  ASSUME ThreadTypeOK, [ThreadNext]_threadVars PROVE ThreadTypeOK'
  <1> USE DEF ThreadTypeOK
  <1>0. \A p \in Pthreads : p \in 0 .. MaxStarts
    BY ThreadAssumption DEF Pthreads
  <1>1. 0 \in 0 .. MaxStarts
    BY ThreadAssumption
  <1>2. CASE Start \/ Join \/ DestroyBase \/ Free \/ Stop \/ Destroy
    BY <1>2 DEF Start, Join, DestroyBase, Free, Stop, Destroy, StopBy
  <1>3. CASE Joined
    BY <1>1, <1>3 DEF Joined
  <1>4. ASSUME NEW p \in Pthreads, Create(p) \/ Run(p) PROVE ThreadTypeOK'
    BY <1>0, <1>1, <1>4 DEF Create, Run, Exec, Work, StopSelf, Leave, EndRunning, Return
  <1>5. CASE UNCHANGED threadVars
    BY <1>5 DEF threadVars
  <1> QED
    BY <1>2, <1>3, <1>4, <1>5 DEF ThreadNext

(* The pthreads other than p, and the owner, do not move when p does. *)
LEMMA RunMoves ==
  ASSUME ThreadTypeOK, NEW p \in Pthreads, Run(p)
  PROVE  /\ UNCHANGED <<threadProgram, object, owner, joining>>
         /\ Live(p) /\ Live(p)' /\ \A q \in Pthreads : q # p => body'[q] = body[q]
         /\ threadProgram # "quitter" => t_id' = t_id
  BY DEF Run, Exec, Work, StopSelf, Leave, EndRunning, Return, ThreadTypeOK, Live

LEMMA ThreadStep ==
  ASSUME ThreadIInv, [ThreadNext]_threadVars PROVE ThreadIInv'
  <1>0. ThreadTypeOK /\ ThreadTypeOK' /\ threadProgram' = threadProgram
    <2>1. ThreadTypeOK'
      BY ThreadTypeStep DEF ThreadIInv
    <2> QED
      BY <2>1 DEF ThreadIInv, ThreadNext, Start, Join, DestroyBase, Free, Stop, Destroy, Joined,
         Create, Run, Exec, Work, StopSelf, Leave, EndRunning, Return, threadVars
  <1>a. 0 \notin Pthreads /\ 1 \in Pthreads /\ (t_id # 0 => t_id \in Pthreads)
        /\ (t_id' # 0 => t_id' \in Pthreads) /\ (joining # 0 => joining \in Pthreads)
    BY <1>0, ThreadAssumption DEF ThreadTypeOK, Pthreads
  <1>b. \A p \in Pthreads : Create(p) => body[p] = "none" /\ (p # 1 => body[1] # "none")
    BY <1>0, ThreadAssumption DEF Create, Pthreads
  <1> HIDE DEF Pthreads
  <1>1. CASE UNCHANGED threadVars
    BY <1>0, <1>1 DEF threadVars, ThreadIInv, OnePthread, Live, OwnerInv, PollerInv, WorkerInv
  <1>2. CASE threadProgram = "quitter" /\ ThreadNext
    BY <1>0, <1>2 DEF ThreadIInv, ThreadNext, Start, Join, DestroyBase, Free, Stop, Destroy,
       Joined, Create, Run, Exec, Work, StopSelf, Leave, EndRunning, Return
  <1>3. CASE threadProgram # "quitter" /\ ThreadNext
    <2> USE <1>0, <1>a, <1>b, <1>3 DEF ThreadTypeOK, ThreadIInv, Live
    <2>1. OnePthread' /\ OwnerInv'
      <3>1. CASE Start
        BY <3>1 DEF Start, OnePthread, OwnerInv, PollerInv, WorkerInv
      <3>2. CASE Join
        BY <3>2 DEF Join, OnePthread, OwnerInv
      <3>3. CASE Stop \/ Destroy
        BY <3>3 DEF Stop, Destroy, StopBy, OnePthread, OwnerInv, PollerInv, WorkerInv
      <3>4. CASE DestroyBase \/ Free
        BY <3>4 DEF DestroyBase, Free, StopBy, OnePthread, OwnerInv, PollerInv
      <3>5. CASE Joined
        BY <3>5 DEF Joined, OnePthread, OwnerInv, PollerInv, WorkerInv
      <3>6. ASSUME NEW p \in Pthreads, Create(p) PROVE OnePthread' /\ OwnerInv'
        BY <3>6 DEF Create, OnePthread, OwnerInv
      <3>7. ASSUME NEW p \in Pthreads, Run(p) PROVE OnePthread' /\ OwnerInv'
        <4>1. OnePthread'
          BY <3>7, RunMoves DEF OnePthread
        <4>2. t_running' => t_running
          BY <3>7 DEF Run, Exec, Work, StopSelf, Leave, EndRunning, Return
        <4>3. owner # "creating"
          BY <3>7, RunMoves DEF OnePthread
        <4> QED
          BY <3>7, <4>1, <4>2, <4>3, RunMoves DEF OwnerInv
      <3> QED
        BY <3>1, <3>2, <3>3, <3>4, <3>5, <3>6, <3>7 DEF ThreadNext
    <2>2. CASE threadProgram = "poller"
      <3> SUFFICES PollerInv'
        BY <2>1, <2>2
      <3>1. CASE Start \/ Join
        BY <2>2, <3>1 DEF Start, Join, OnePthread, OwnerInv, PollerInv
      <3>2. CASE Stop
        BY <2>2, <3>2 DEF Stop, StopBy, OnePthread, OwnerInv, PollerInv
      <3>3. CASE Destroy
        BY <2>2, <3>3 DEF Destroy, StopBy, OnePthread, OwnerInv, PollerInv
      <3>4. CASE DestroyBase
        BY <2>2, <3>4 DEF DestroyBase, StopBy, OnePthread, OwnerInv, PollerInv
      <3>5. CASE Free
        BY <2>2, <3>5 DEF Free, OnePthread, OwnerInv, PollerInv
      <3>6. CASE Joined
        BY <2>2, <3>6 DEF Joined, OnePthread, OwnerInv, PollerInv
      <3>7. ASSUME NEW p \in Pthreads, Create(p) PROVE PollerInv'
        BY <2>2, <3>7 DEF Create, OnePthread, OwnerInv, PollerInv
      <3>8. ASSUME NEW p \in Pthreads, Run(p) PROVE PollerInv'
        BY <2>2, <3>8 DEF Run, Exec, Work, StopSelf, Leave, EndRunning, Return, OnePthread,
           OwnerInv, PollerInv
      <3> QED
        BY ONLY <1>3, <3>1, <3>2, <3>3, <3>4, <3>5, <3>6, <3>7, <3>8 DEF ThreadNext
    <2>3. CASE threadProgram = "worker"
      <3> SUFFICES WorkerInv'
        BY <2>1, <2>3
      <3>1. CASE Start \/ Join
        BY <2>3, <3>1 DEF Start, Join, OnePthread, OwnerInv, WorkerInv
      <3>2. CASE Stop
        BY <2>3, <3>2 DEF Stop, StopBy, OnePthread, OwnerInv, WorkerInv
      <3>3. CASE Destroy
        BY <2>3, <3>3 DEF Destroy, StopBy, OnePthread, OwnerInv, WorkerInv
      <3>4. CASE DestroyBase
        BY <2>3, <3>4 DEF DestroyBase, StopBy, OnePthread, OwnerInv, WorkerInv
      <3>5. CASE Free
        BY <2>3, <3>5 DEF Free, OnePthread, OwnerInv, WorkerInv
      <3>6. CASE Joined
        BY <2>3, <3>6 DEF Joined, OnePthread, OwnerInv, WorkerInv
      <3>7. ASSUME NEW p \in Pthreads, Create(p) PROVE WorkerInv'
        BY <2>3, <3>7 DEF Create, OnePthread, OwnerInv, WorkerInv
      <3>8. ASSUME NEW p \in Pthreads, Run(p) PROVE WorkerInv'
        BY <2>3, <3>8 DEF Run, Exec, Work, StopSelf, Leave, EndRunning, Return, OnePthread,
           OwnerInv, WorkerInv
      <3> QED
        BY ONLY <1>3, <3>1, <3>2, <3>3, <3>4, <3>5, <3>6, <3>7, <3>8 DEF ThreadNext
    <2> QED
      BY <2>2, <2>3
  <1> QED
    BY <1>1, <1>2, <1>3

(* A Thread outlives every pthread that runs in it, and every pthread is    *)
(* reaped, however often it is started and stopped.                         *)
THEOREM ThreadsFreedAfterRun == ThreadSpec => []FreedAfterRun
  <1>1. ThreadInit => ThreadIInv
    <2> SUFFICES ASSUME ThreadInit PROVE ThreadIInv
      OBVIOUS
    <2>1. ThreadTypeOK
      <3>1. 0 \in 0 .. MaxStarts
        BY ThreadAssumption
      <3>2. body \in [Pthreads -> {"none"}]
        BY DEF ThreadInit
      <3> QED
        BY <3>1, <3>2 DEF ThreadInit, ThreadTypeOK
    <2>2. \A p \in Pthreads : body[p] = "none"
      BY DEF ThreadInit
    <2> QED
      BY <2>1, <2>2 DEF ThreadInit, ThreadIInv, OnePthread, Live, OwnerInv, PollerInv, WorkerInv
  <1>2. ThreadIInv /\ [ThreadNext]_threadVars => ThreadIInv'
    BY ThreadStep
  <1>3. ThreadIInv => FreedAfterRun
    BY DEF ThreadIInv, ThreadTypeOK, FreedAfterRun, InRun, OnePthread, Live, OwnerInv, Pthreads
  <1> QED
    BY <1>1, <1>2, <1>3, PTL DEF ThreadSpec

--------------------------------------------------------------------------------
(* ObjectPtr. *)

(* A count of references is positive when there is one. *)
LEMMA Counted ==
  ASSUME NEW A, NEW B, NEW C, IsFiniteSet(A), IsFiniteSet(B), IsFiniteSet(C),
         NEW r, r = Cardinality(A) + Cardinality(B) + 2 * Cardinality(C)
  PROVE  r \in Nat /\ (r > 0 <=> A # {} \/ B # {} \/ C # {}) /\ (C # {} => r > 1)
  <1>1. Cardinality(A) \in Nat /\ (Cardinality(A) = 0 <=> A = {})
    BY FS_CardinalityType, FS_EmptySet
  <1>2. Cardinality(B) \in Nat /\ (Cardinality(B) = 0 <=> B = {})
    BY FS_CardinalityType, FS_EmptySet
  <1>3. Cardinality(C) \in Nat /\ (Cardinality(C) = 0 <=> C = {})
    BY FS_CardinalityType, FS_EmptySet
  <1> QED
    BY <1>1, <1>2, <1>3

LEMMA FrameTypes ==
  ASSUME PtrTypeOK
  PROVE  /\ Len(frames) \in Nat /\ DOMAIN frames = 1 .. Len(frames)
         /\ \A i \in DOMAIN frames :
              /\ frames[i] \in PtrFrames
              /\ Assigns(i) => frames[i].handle \in Handles /\ frames[i].to \in Objects \cup {Null}
              /\ Destroys(i) => frames[i].object \in Objects
              /\ frames[i].op \in {"collect", "erase"} => frames[i].next \in Nat \ {0}
  <1>1. Len(frames) \in Nat /\ DOMAIN frames = 1 .. Len(frames)
    BY LenProperties DEF PtrTypeOK
  <1>2. \A i \in DOMAIN frames : frames[i] \in PtrFrames
    BY ElementOfSeq, <1>1 DEF PtrTypeOK
  <1> QED
    BY <1>1, <1>2 DEF PtrFrames, Assigns, Destroys

LEMMA FrameKinds ==
  /\ \A h \in Handles, to \in Objects \cup {Null} :
       [op |-> "assign", handle |-> h, to |-> to] \in PtrFrames
  /\ \A o \in Objects : /\ [op |-> "delete", object |-> o] \in PtrFrames
                        /\ [op |-> "free", object |-> o] \in PtrFrames
  /\ \A i \in Nat \ {0} : /\ [op |-> "collect", next |-> i] \in PtrFrames
                          /\ [op |-> "erase", next |-> i] \in PtrFrames
  BY DEF PtrFrames

(* The stack without its top. *)
LEMMA TopGone ==
  ASSUME PtrTypeOK, frames # <<>>
  PROVE  /\ Front(frames) \in Seq(PtrFrames) /\ Len(Front(frames)) = Len(frames) - 1
         /\ Len(frames) \in DOMAIN frames /\ Last(frames) = frames[Len(frames)]
         /\ DOMAIN Front(frames) = 1 .. Len(frames) - 1
         /\ \A i \in 1 .. Len(frames) - 1 : i \in DOMAIN frames /\ Front(frames)[i] = frames[i]
  <1>1. frames \in Seq(PtrFrames) /\ Len(frames) \in Nat \ {0} /\ DOMAIN frames = 1 .. Len(frames)
    BY EmptySeq, LenProperties DEF PtrTypeOK
  <1>2. 1 \in 1 .. Len(frames) + 1 /\ Len(frames) - 1 \in 1 - 1 .. Len(frames)
    BY <1>1
  <1>3. /\ Front(frames) \in Seq(PtrFrames) /\ Len(Front(frames)) = Len(frames) - 1 - 1 + 1
        /\ \A i \in 1 .. Len(frames) - 1 - 1 + 1 : Front(frames)[i] = frames[1 + i - 1]
    BY <1>1, <1>2, Piece DEF Front
  <1>4. DOMAIN Front(frames) = 1 .. Len(frames) - 1
    BY <1>1, <1>3, LenProperties
  <1>5. ASSUME NEW i \in 1 .. Len(frames) - 1
        PROVE  i \in DOMAIN frames /\ Front(frames)[i] = frames[i]
    BY <1>1, <1>3
  <1> QED
    BY <1>1, <1>3, <1>4, <1>5 DEF Last

(* A stack with a frame more. *)
LEMMA OnTop ==
  ASSUME NEW fs \in Seq(PtrFrames), NEW f \in PtrFrames
  PROVE  /\ Append(fs, f) \in Seq(PtrFrames)
         /\ Len(fs) \in Nat /\ DOMAIN fs = 1 .. Len(fs)
         /\ Len(Append(fs, f)) = Len(fs) + 1
         /\ DOMAIN Append(fs, f) = 1 .. Len(fs) + 1
         /\ \A i \in 1 .. Len(fs) : Append(fs, f)[i] = fs[i]
         /\ Append(fs, f)[Len(fs) + 1] = f
  BY AppendProperties, LenProperties

(* ObjectPtr's letting go of o leaves the frames fs, and a destructor above  *)
(* them if this was the last reference.                                      *)
LEMMA LettingGo ==
  ASSUME NEW fs \in Seq(PtrFrames), NEW r \in [Objects -> Int], NEW o \in Objects \cup {Null},
         LetGo(r, o, fs), state \in [Objects -> {"none", "alive", "dying"}]
  PROVE  /\ refs' \in [Objects -> Int] /\ state' \in [Objects -> {"none", "alive", "dying"}]
         /\ \A x \in Objects :
              /\ refs'[x] = IF x = o THEN r[x] - 1 ELSE r[x]
              /\ state'[x] = IF x = o /\ r[x] = 1 THEN "dying" ELSE state[x]
         /\ frames' \in Seq(PtrFrames)
         /\ \A i \in 1 .. Len(fs) : i \in DOMAIN frames' /\ frames'[i] = fs[i]
         /\ \A i \in DOMAIN frames' :
              \/ i \in 1 .. Len(fs)
              \/ /\ i = Len(fs) + 1 /\ o \in Objects /\ r[o] = 1
                 /\ frames'[i] = [op |-> "delete", object |-> o]
         /\ o \in Objects /\ r[o] = 1 =>
              Len(fs) + 1 \in DOMAIN frames' /\ frames'[Len(fs) + 1] = [op |-> "delete", object |-> o]
  <1>0. Null \notin Objects
    BY ObjectPtrAssumption DEF Objects
  <1>1. /\ refs' \in [Objects -> Int]
        /\ \A x \in Objects : refs'[x] = IF x = o THEN r[x] - 1 ELSE r[x]
    BY <1>0 DEF LetGo, Deref
  <1>2. Len(fs) \in Nat /\ DOMAIN fs = 1 .. Len(fs)
    BY LenProperties
  <1>3. CASE o \in Objects /\ r[o] = 1
    <2>1. frames' = Append(fs, [op |-> "delete", object |-> o])
      BY <1>0, <1>3 DEF LetGo
    <2>2. state' = [state EXCEPT ![o] = "dying"]
      BY <1>0, <1>3 DEF LetGo
    <2>3. [op |-> "delete", object |-> o] \in PtrFrames
      BY <1>3, FrameKinds
    <2>4. /\ frames' \in Seq(PtrFrames) /\ DOMAIN frames' = 1 .. Len(fs) + 1
          /\ \A i \in 1 .. Len(fs) : frames'[i] = fs[i]
          /\ frames'[Len(fs) + 1] = [op |-> "delete", object |-> o]
      BY <2>1, <2>3, OnTop
    <2>5. /\ \A i \in 1 .. Len(fs) : i \in 1 .. Len(fs) + 1
          /\ \A i \in 1 .. Len(fs) + 1 : i \in 1 .. Len(fs) \/ i = Len(fs) + 1
          /\ Len(fs) + 1 \in 1 .. Len(fs) + 1
      BY <1>2
    <2> QED
      BY <1>1, <1>3, <2>2, <2>4, <2>5
  <1>4. CASE ~(o \in Objects /\ r[o] = 1)
    <2>1. frames' = fs /\ state' = state
      BY <1>0, <1>4 DEF LetGo
    <2> QED
      BY <1>1, <1>2, <1>4, <2>1
  <1> QED
    BY <1>3, <1>4

LEMMA RefsFinite ==
  ASSUME PtrTypeOK
  PROVE  \A o \in Objects : IsFiniteSet(TrashRefs(o)) /\ IsFiniteSet(ArgumentRefs(o))
  <1>1. IsFiniteSet(DOMAIN trash) /\ IsFiniteSet(DOMAIN frames)
    BY FS_Interval, LenProperties DEF PtrTypeOK
  <1>2. \A o \in Objects : TrashRefs(o) \in SUBSET DOMAIN trash /\ ArgumentRefs(o) \in SUBSET DOMAIN frames
    BY DEF TrashRefs, ArgumentRefs
  <1> QED
    BY <1>1, <1>2, FS_Subset

(* An object's count is positive when there is a reference to it. *)
LEMMA Counts ==
  ASSUME PtrTypeOK, CountInv, NEW o \in Objects
  PROVE  /\ refs[o] \in Nat
         /\ refs[o] > 0 <=> HandleRefs(o) # {} \/ TrashRefs(o) # {} \/ ArgumentRefs(o) # {}
         /\ ArgumentRefs(o) # {} => refs[o] > 1
         /\ IsFiniteSet(HandleRefs(o)) /\ IsFiniteSet(TrashRefs(o)) /\ IsFiniteSet(ArgumentRefs(o))
         /\ state[o] = "alive" <=> refs[o] > 0
         /\ state[o] # "alive" => refs[o] = 0
  <1>1. /\ IsFiniteSet(HandleRefs(o)) /\ IsFiniteSet(TrashRefs(o)) /\ IsFiniteSet(ArgumentRefs(o))
        /\ refs[o] = Cardinality(HandleRefs(o)) + Cardinality(TrashRefs(o))
                     + 2 * Cardinality(ArgumentRefs(o))
        /\ state[o] = "alive" <=> refs[o] > 0
    BY RefsFinite DEF CountInv
  <1> DEFINE r == refs[o]
  <1>2. /\ r \in Nat
        /\ r > 0 <=> HandleRefs(o) # {} \/ TrashRefs(o) # {} \/ ArgumentRefs(o) # {}
        /\ ArgumentRefs(o) # {} => r > 1
    BY <1>1, Counted
  <1> QED
    BY <1>1, <1>2

(* A handle in use holds what it points at, which is alive. *)
LEMMA UsableHandle ==
  ASSUME PtrIInv, NEW h \in Handles, Usable(h)
  PROVE  /\ Holds(h)
         /\ ptr[h] # Null => /\ ptr[h] \in Objects /\ h \in HandleRefs(ptr[h])
                             /\ refs[ptr[h]] \in Nat \ {0} /\ state[ptr[h]] = "alive"
  <1> USE DEF PtrIInv
  <1>1. Holds(h)
    <2> SUFFICES ASSUME NEW i \in DOMAIN frames
                 PROVE  /\ Assigns(i) => frames[i].handle # h
                        /\ frames[i].op = "free" => frames[i].object # h
      BY DEF Holds
    <2>1. Assigns(i) => frames[i].handle # h
      BY DEF Usable, Assigns
    <2>2. ASSUME frames[i].op = "free", frames[i].object = h PROVE FALSE
      <3>1. Destroys(i) /\ h \in Objects
        BY <2>2, FrameTypes DEF Destroys
      <3>2. state[h] = "dying"
        BY <2>2, <3>1 DEF FramesInv
      <3> QED
        BY <3>1, <3>2 DEF Usable
    <2> QED
      BY <2>1, <2>2
  <1>2. ASSUME ptr[h] # Null
        PROVE  /\ ptr[h] \in Objects /\ h \in HandleRefs(ptr[h])
               /\ refs[ptr[h]] \in Nat \ {0} /\ state[ptr[h]] = "alive"
    <2>1. ptr[h] \in Objects
      BY <1>2 DEF PtrTypeOK
    <2>2. h \in HandleRefs(ptr[h])
      BY <1>1, <2>1 DEF HandleRefs
    <2>3. refs[ptr[h]] \in Nat /\ refs[ptr[h]] > 0 /\ state[ptr[h]] = "alive"
      BY <2>1, <2>2, Counts
    <2> QED
      BY <2>1, <2>2, <2>3
  <1> QED
    BY <1>1, <1>2

(* Each member of a chain that ends at h reaches h. *)
LEMMA ChainReaches ==
  ASSUME PtrTypeOK, NEW S \in SUBSET Objects, NEW h \in S, NEW s \in S,
         \A q \in S : q # h => ptr[q] \in S
  PROVE  Reaches(s, h)
  <1> SUFFICES ASSUME NEW T \in SUBSET Objects, s \in T,
                      \A q \in T : ptr[q] \in T \cup {Null}, h \notin T
               PROVE  FALSE
    BY ObjectPtrAssumption DEF Reaches, Objects
  <1>1. \A m \in S \cap T : ptr[m] \in S \cap T /\ m < ptr[m]
    BY ObjectPtrAssumption DEF PtrTypeOK, Objects
  <1> DEFINE P == {MaxObjects - m : m \in S \cap T}
  <1>2. P \in SUBSET Nat /\ P # {}
    <2>1. ASSUME NEW m \in Objects PROVE MaxObjects - m \in Nat
      BY ObjectPtrAssumption DEF Objects
    <2>2. P \in SUBSET Nat
      BY <2>1
    <2>3. MaxObjects - s \in P
      OBVIOUS
    <2> QED
      BY <2>2, <2>3
  <1>3. PICK i \in P : \A j \in P : i <= j
    BY <1>2, LeastElement
  <1>4. PICK m \in S \cap T : i = MaxObjects - m
    BY <1>3
  <1>5. MaxObjects - ptr[m] \in P
    BY <1>1
  <1>6. MaxObjects - m <= MaxObjects - ptr[m]
    BY <1>3, <1>4, <1>5
  <1>7. m \in Nat /\ ptr[m] \in Nat /\ MaxObjects \in Nat
    <2>1. m \in Objects /\ ptr[m] \in Objects
      BY <1>1
    <2> QED
      BY <2>1, ObjectPtrAssumption DEF Objects
  <1>8. m < ptr[m]
    BY <1>1
  <1> QED
    BY <1>6, <1>7, <1>8

(* What holds s, as things are. *)
HeldNow(s) ==
  \/ \E r \in Roots : ptr[r] = s /\ Holds(r)
  \/ TrashRefs(s) # {}
  \/ \E j \in DOMAIN frames : Assigns(j) /\ frames[j].to = s
  \/ \E j \in DOMAIN frames : frames[j].op = "delete" /\ ptr[frames[j].object] = s

(* A living object is held by the living ones below it, and these by others. *)
LEMMA SupportExists ==
  ASSUME PtrIInv, NEW h \in Objects, state[h] = "alive"
  PROVE  \E S \in SUBSET Objects :
           /\ h \in S
           /\ \A s \in S :
                /\ state[s] = "alive" /\ s <= h
                /\ s # h => ptr[s] \in S /\ Holds(s)
                /\ HeldNow(s) \/ \E p \in S \ {h} : ptr[p] = s
  <1> USE DEF PtrIInv
  <1>0. Objects \subseteq Nat /\ Objects \subseteq Handles /\ Null \notin Objects
        /\ Handles = Roots \cup Objects
    BY ObjectPtrAssumption DEF Objects, Handles
  <1> DEFINE Into(q, x) == ptr[q] = x /\ state[q] = "alive" /\ Holds(q)
             Closed(P) == h \in P /\ \A x \in P : \A q \in Objects : Into(q, x) => q \in P
             S == {s \in Objects : \A P \in SUBSET Objects : Closed(P) => s \in P}
  <1>1. S \in SUBSET Objects /\ h \in S
    OBVIOUS
  <1>2. ASSUME NEW x \in S, NEW q \in Objects, Into(q, x) PROVE q \in S
    BY <1>2
  <1>3. ASSUME NEW s \in S PROVE s <= h
    <2> DEFINE P == {x \in Objects : x <= h}
    <2>1. h \in P
      BY <1>0
    <2>2. ASSUME NEW x \in P, NEW q \in Objects, Into(q, x) PROVE q \in P
      <3>1. q < x
        BY <1>0, <2>2 DEF PtrTypeOK
      <3> QED
        BY <1>0, <3>1
    <2>3. Closed(P)
      BY <2>1, <2>2
    <2> QED
      BY <2>3
  <1>4. ASSUME NEW s \in S, s # h PROVE state[s] = "alive" /\ Holds(s) /\ ptr[s] \in S
    <2> SUFFICES ASSUME ~(state[s] = "alive" /\ Holds(s) /\ ptr[s] \in S) PROVE FALSE
      OBVIOUS
    <2> DEFINE P == S \ {s}
    <2>1. h \in P /\ P \in SUBSET Objects
      BY <1>1, <1>4
    <2>2. ASSUME NEW x \in P, NEW q \in Objects, Into(q, x) PROVE q \in P
      <3>1. x \in S /\ q \in S
        BY <1>2, <2>2
      <3>2. q # s
        BY <2>2, <3>1
      <3> QED
        BY <3>1, <3>2
    <2>3. Closed(P)
      BY <2>1, <2>2
    <2> HIDE DEF Closed
    <2>4. s \in P
      BY <2>1, <2>3
    <2> QED
      BY <2>4
  <1> HIDE DEF S, Closed
  <1>5. ASSUME NEW s \in S PROVE HeldNow(s) \/ \E p \in S \ {h} : ptr[p] = s
    <2>1. state[s] = "alive" /\ s \in Objects
      BY <1>1, <1>4
    <2>2. HandleRefs(s) # {} \/ TrashRefs(s) # {} \/ ArgumentRefs(s) # {}
      BY <2>1, Counts
    <2>3. CASE TrashRefs(s) # {} \/ ArgumentRefs(s) # {}
      BY <2>3 DEF HeldNow, ArgumentRefs
    <2>4. ASSUME NEW g \in HandleRefs(s) PROVE HeldNow(s) \/ \E p \in S \ {h} : ptr[p] = s
      <3>1. g \in Handles /\ ptr[g] = s /\ Holds(g)
        BY DEF HandleRefs
      <3>2. CASE g \in Roots
        BY <3>1, <3>2 DEF HeldNow
      <3>3. CASE g \in Objects /\ state[g] = "alive"
        <4>1. g \in S
          BY <1>2, <3>1, <3>3
        <4>2. g < s
          BY <1>0, <2>1, <3>1, <3>3 DEF PtrTypeOK
        <4>3. g # h
          BY <1>0, <1>3, <2>1, <3>3, <4>2
        <4> QED
          BY <3>1, <4>1, <4>3
      <3>4. CASE g \in Objects /\ state[g] = "dying"
        <4>1. PICK j \in DOMAIN frames : Destroys(j) /\ frames[j].object = g
          BY <3>4 DEF FramesInv
        <4>2. frames[j].op = "delete"
          BY <3>1, <4>1 DEF Holds, Destroys
        <4> QED
          BY <3>1, <4>1, <4>2 DEF HeldNow
      <3>5. CASE g \in Objects /\ state[g] = "none"
        BY <1>0, <2>1, <3>1, <3>5 DEF CountInv
      <3>6. g \in Objects => state[g] \in {"none", "alive", "dying"}
        BY DEF PtrTypeOK
      <3> QED
        BY <1>0, <3>1, <3>2, <3>3, <3>4, <3>5, <3>6
    <2> QED
      BY <2>2, <2>3, <2>4
  <1> QED
    BY <1>1, <1>3, <1>4, <1>5

(* What supports frame i goes on to while the objects it consists of live   *)
(* and what holds them from below stays.                                     *)
LEMMA SupportKept ==
  ASSUME NEW i \in Nat \ {0}, NEW S \in SUBSET Objects, Supports(S, i),
         \A j \in 1 .. i : frames'[j] = frames[j],
         \A s \in S : /\ state'[s] = "alive"
                      /\ s # frames[i].handle => ptr'[s] = ptr[s] /\ Holds(s)'
                      /\ TrashRefs(s) # {} => TrashRefs(s)' # {},
         \A r \in Roots : ptr[r] \in S /\ Holds(r) => ptr'[r] = ptr[r] /\ Holds(r)',
         \A j \in 1 .. i - 1 : frames[j].op = "delete" =>
           ptr'[frames[j].object] = ptr[frames[j].object]
  PROVE  Supports(S, i)'
  <1>1. frames'[i] = frames[i] /\ i \in 1 .. i
    OBVIOUS
  <1>2. \A j \in 1 .. i - 1 : frames'[j] = frames[j]
    OBVIOUS
  <1>3. frames'[i].handle \in S
    BY <1>1 DEF Supports
  <1>4. ASSUME NEW s \in S
        PROVE  /\ state'[s] = "alive"
               /\ s # frames'[i].handle => ptr'[s] \in S /\ Holds(s)'
    BY <1>1 DEF Supports
  <1>5. ASSUME NEW s \in S
        PROVE  HeldBelow(i, s)' \/ \E p \in S \ {frames'[i].handle} : ptr'[p] = s
    <2>1. CASE \E p \in S \ {frames[i].handle} : ptr[p] = s
      BY <1>1, <2>1
    <2>2. CASE \E r \in Roots : ptr[r] = s /\ Holds(r)
      BY <2>2 DEF HeldBelow
    <2>3. CASE TrashRefs(s) # {}
      BY <2>3 DEF HeldBelow
    <2>4. CASE \E j \in 1 .. i - 1 : Assigns(j) /\ frames[j].to = s
      BY <1>2, <2>4 DEF HeldBelow, Assigns
    <2>5. CASE \E j \in 1 .. i - 1 : frames[j].op = "delete" /\ ptr[frames[j].object] = s
      BY <1>2, <2>5 DEF HeldBelow
    <2>6. HeldBelow(i, s) \/ \E p \in S \ {frames[i].handle} : ptr[p] = s
      BY DEF Supports
    <2> QED
      BY <2>1, <2>2, <2>3, <2>4, <2>5, <2>6 DEF HeldBelow
  <1> QED
    BY <1>3, <1>4, <1>5 DEF Supports

(* The count of one more reference, or of one less. *)
LEMMA OneMore ==
  ASSUME NEW A, NEW x, IsFiniteSet(A)
  PROVE  /\ IsFiniteSet(A \cup {x}) /\ IsFiniteSet(A \ {x}) /\ Cardinality(A) \in Nat
         /\ x \notin A => Cardinality(A \cup {x}) = Cardinality(A) + 1
         /\ x \in A => Cardinality(A \ {x}) = Cardinality(A) - 1
         /\ x \notin A => A \ {x} = A
  BY FS_AddElement, FS_RemoveElement, FS_CardinalityType

(* Both forms of operator = : the argument's two references, the old object  *)
(* let go of, and the frames above the others.                               *)
AssignBegins(h, to) ==
  LET old == ptr[h]
      n == Len(frames)
      dies == old # Null /\ old # to /\ refs[old] = 1
  IN  /\ h \in Handles /\ to \in Objects \cup {Null} /\ Assignable(h)
      /\ to # Null => state[to] # "dying"
      /\ to # Null /\ h \in Objects => h < to
      /\ ptr' = ptr /\ trash' = trash /\ connected' = connected
      /\ refs' \in [Objects -> Int] /\ state' \in [Objects -> {"none", "alive", "dying"}]
      /\ \A x \in Objects :
           /\ refs'[x] = refs[x] + (IF x = to THEN 2 ELSE 0) - (IF x = old THEN 1 ELSE 0)
           /\ state'[x] = IF x = old /\ dies THEN "dying" ELSE IF x = to THEN "alive" ELSE state[x]
      /\ frames' \in Seq(PtrFrames)
      /\ \A i \in 1 .. n : i \in DOMAIN frames' /\ frames'[i] = frames[i]
      /\ n + 1 \in DOMAIN frames'
      /\ frames'[n + 1] = [op |-> "assign", handle |-> h, to |-> to]
      /\ \A i \in DOMAIN frames' :
           \/ i \in 1 .. n + 1
           \/ i = n + 2 /\ dies /\ frames'[i] = [op |-> "delete", object |-> old]
      /\ dies => n + 2 \in DOMAIN frames' /\ frames'[n + 2] = [op |-> "delete", object |-> old]

LEMMA CallAssignBegins ==
  ASSUME PtrIInv, NEW h \in Handles, CallAssign(h)
  PROVE  \E to \in Objects \cup {Null} : AssignBegins(h, to)
  <1> USE DEF PtrIInv
  <1>0. Null \notin Objects
    BY ObjectPtrAssumption DEF Objects
  <1>1. PICK to \in Objects \cup {Null} :
          /\ to # Null => state[to] = "alive"
          /\ to # Null /\ h \in Objects => h < to
          /\ Assign(h, to)
    <2>1. CASE Assign(h, Null)
      BY <2>1
    <2>2. ASSUME NEW g \in Handles, Usable(g), ptr[g] # Null, h \in Objects => h < ptr[g],
                 Assign(h, ptr[g])
          PROVE  \E to \in Objects \cup {Null} :
                   /\ to # Null => state[to] = "alive"
                   /\ to # Null /\ h \in Objects => h < to
                   /\ Assign(h, to)
      BY <2>2, UsableHandle
    <2> QED
      BY <2>1, <2>2 DEF CallAssign
  <1> DEFINE f == [op |-> "assign", handle |-> h, to |-> to]
  <1>1a. PICK old, fs, r : old = ptr[h] /\ fs = Append(frames, f) /\ r = Ref(Ref(refs, to), to)
    OBVIOUS
  <1>2. old \in Objects \cup {Null} /\ Usable(h) /\ Assignable(h)
    BY <1>1a DEF CallAssign, Assignable, PtrTypeOK
  <1>3. /\ r \in [Objects -> Int]
        /\ \A x \in Objects : r[x] = refs[x] + (IF x = to THEN 2 ELSE 0)
    BY <1>0, <1>1a DEF Ref, PtrTypeOK
  <1>4. f \in PtrFrames /\ frames \in Seq(PtrFrames)
    BY FrameKinds DEF PtrTypeOK
  <1>5. /\ fs \in Seq(PtrFrames) /\ Len(frames) \in Nat /\ Len(fs) = Len(frames) + 1
        /\ \A i \in 1 .. Len(frames) : fs[i] = frames[i]
        /\ fs[Len(frames) + 1] = f
    BY <1>1a, <1>4, OnTop
  <1>6. LetGo(r, old, fs) /\ UNCHANGED <<ptr, trash, connected>>
    BY <1>1, <1>1a DEF Assign
  <1>6a. state \in [Objects -> {"none", "alive", "dying"}]
    BY DEF PtrTypeOK
  <1> HIDE DEF f
  <1>6d. fs \in Seq(PtrFrames) /\ r \in [Objects -> Int] /\ old \in Objects \cup {Null}
    BY <1>2, <1>3, <1>5
  <1>7. /\ refs' \in [Objects -> Int] /\ state' \in [Objects -> {"none", "alive", "dying"}]
        /\ \A x \in Objects :
             /\ refs'[x] = IF x = old THEN r[x] - 1 ELSE r[x]
             /\ state'[x] = IF x = old /\ r[x] = 1 THEN "dying" ELSE state[x]
        /\ frames' \in Seq(PtrFrames)
        /\ \A i \in 1 .. Len(fs) : i \in DOMAIN frames' /\ frames'[i] = fs[i]
        /\ \A i \in DOMAIN frames' :
             \/ i \in 1 .. Len(fs)
             \/ /\ i = Len(fs) + 1 /\ old \in Objects /\ r[old] = 1
                /\ frames'[i] = [op |-> "delete", object |-> old]
        /\ old \in Objects /\ r[old] = 1 =>
             Len(fs) + 1 \in DOMAIN frames' /\ frames'[Len(fs) + 1] = [op |-> "delete", object |-> old]
    BY ONLY <1>6, <1>6a, <1>6d, LettingGo
  <1>8. old \in Objects => (r[old] = 1 <=> old # to /\ refs[old] = 1)
    <2>1. old \in Objects => refs[old] \in Nat
      BY Counts
    <2> QED
      BY <1>3, <2>1
  <1>9. /\ \A i \in 1 .. Len(frames) : i \in 1 .. Len(fs)
        /\ Len(frames) + 1 \in 1 .. Len(fs) /\ Len(fs) + 1 = Len(frames) + 2
        /\ 1 .. Len(fs) = 1 .. Len(frames) + 1
    BY <1>5
  <1>10. \A x \in Objects : refs[x] \in Int
    BY DEF PtrTypeOK
  <1>11. ASSUME NEW x \in Objects
         PROVE  /\ refs'[x] = refs[x] + (IF x = to THEN 2 ELSE 0) - (IF x = old THEN 1 ELSE 0)
                /\ state'[x] = IF x = old /\ old # to /\ refs[old] = 1 THEN "dying"
                               ELSE IF x = to THEN "alive" ELSE state[x]
    BY <1>0, <1>1, <1>3, <1>7, <1>8, <1>10
  <1>12. old # Null <=> old \in Objects
    BY <1>0, <1>2
  <1>13. /\ \A i \in 1 .. Len(frames) : i \in DOMAIN frames' /\ frames'[i] = frames[i]
         /\ Len(frames) + 1 \in DOMAIN frames' /\ frames'[Len(frames) + 1] = f
    BY <1>5, <1>7, <1>9
  <1>14. /\ \A i \in DOMAIN frames' :
              \/ i \in 1 .. Len(frames) + 1
              \/ /\ i = Len(frames) + 2 /\ old # Null /\ old # to /\ refs[old] = 1
                 /\ frames'[i] = [op |-> "delete", object |-> old]
         /\ old # Null /\ old # to /\ refs[old] = 1 =>
              /\ Len(frames) + 2 \in DOMAIN frames'
              /\ frames'[Len(frames) + 2] = [op |-> "delete", object |-> old]
    BY <1>7, <1>8, <1>9, <1>12
  <1>15. to # Null => state[to] # "dying"
    BY <1>1
  <1>16. AssignBegins(h, to)
    BY ONLY <1>1, <1>1a, <1>2, <1>6, <1>7, <1>11, <1>12, <1>13, <1>14, <1>15, h \in Handles
    DEF AssignBegins, f
  <1> QED
    BY <1>16

LEMMA CallAssignNewBegins ==
  ASSUME PtrIInv, NEW h \in Handles, CallAssignNew(h)
  PROVE  \E to \in Objects \cup {Null} : AssignBegins(h, to)
  <1> USE DEF PtrIInv
  <1>0. Null \notin Objects
    BY ObjectPtrAssumption DEF Objects
  <1>1. PICK o \in Objects :
          /\ Assignable(h) /\ state[o] = "none"
          /\ h \in Objects => h < o
          /\ LET old == ptr[h]
                 r == Ref(Ref(refs, o), o)
                 dies == old # Null /\ r[old] = 1
                 back == Append(frames, [op |-> "assign", handle |-> h, to |-> o])
             IN  /\ refs' = Deref(r, old)
                 /\ state' = [p \in Objects |-> IF p = o THEN "alive"
                                                ELSE IF dies /\ p = old THEN "dying" ELSE state[p]]
                 /\ frames' = IF dies THEN Append(back, [op |-> "delete", object |-> old]) ELSE back
          /\ UNCHANGED <<ptr, trash, connected>>
    BY DEF CallAssignNew
  <1> DEFINE f == [op |-> "assign", handle |-> h, to |-> o]
             g == [op |-> "delete", object |-> ptr[h]]
  <1>2. PICK old, back, r : old = ptr[h] /\ back = Append(frames, f) /\ r = Ref(Ref(refs, o), o)
    OBVIOUS
  <1>3. old \in Objects \cup {Null} /\ Usable(h) /\ (old # Null => old \in Objects)
    BY <1>0, <1>1, <1>2 DEF Assignable, PtrTypeOK
  <1>4. old # o
    BY <1>1, <1>2, <1>3, <1>0, UsableHandle
  <1>5. /\ r \in [Objects -> Int]
        /\ \A x \in Objects : r[x] = refs[x] + (IF x = o THEN 2 ELSE 0)
    BY <1>0, <1>2 DEF Ref, PtrTypeOK
  <1>6. f \in PtrFrames /\ frames \in Seq(PtrFrames)
    BY FrameKinds DEF PtrTypeOK
  <1> DEFINE n == Len(frames)
  <1>7. /\ back \in Seq(PtrFrames) /\ n \in Nat /\ Len(back) = n + 1 /\ DOMAIN back = 1 .. n + 1
        /\ \A i \in 1 .. n : back[i] = frames[i]
        /\ back[n + 1] = f
    BY <1>2, <1>6, OnTop
  <1> DEFINE dies == old # Null /\ old # o /\ refs[old] = 1
  <1>8. old # Null /\ r[old] = 1 <=> dies
    BY <1>3, <1>4, <1>5 DEF PtrTypeOK
  <1>9. ASSUME NEW x \in Objects
        PROVE  /\ refs'[x] = refs[x] + (IF x = o THEN 2 ELSE 0) - (IF x = old THEN 1 ELSE 0)
               /\ state'[x] = IF x = old /\ dies THEN "dying" ELSE IF x = o THEN "alive" ELSE state[x]
    <2>1. refs' = Deref(r, old)
      BY <1>1, <1>2
    <2>2. refs'[x] = refs[x] + (IF x = o THEN 2 ELSE 0) - (IF x = old THEN 1 ELSE 0)
      BY <1>0, <1>3, <1>5, <2>1 DEF Deref, PtrTypeOK
    <2>3. state'[x] = IF x = o THEN "alive" ELSE IF dies /\ x = old THEN "dying" ELSE state[x]
      BY <1>1, <1>2, <1>8
    <2> QED
      BY <1>4, <2>2, <2>3
  <1>10. refs' \in [Objects -> Int] /\ state' \in [Objects -> {"none", "alive", "dying"}]
    <2>1. refs' = Deref(r, old)
      BY <1>1, <1>2
    <2>2. refs' \in [Objects -> Int]
      BY <1>0, <1>3, <1>5, <2>1 DEF Deref
    <2>3. \A x \in Objects : state[x] \in {"none", "alive", "dying"}
      BY DEF PtrTypeOK
    <2> QED
      BY <1>1, <2>2, <2>3
  <1>11. frames' = IF dies THEN Append(back, g) ELSE back
    BY <1>1, <1>2, <1>8
  <1> HIDE DEF f, g, n, dies
  <1>12. /\ frames' \in Seq(PtrFrames)
         /\ \A i \in 1 .. n : i \in DOMAIN frames' /\ frames'[i] = frames[i]
         /\ n + 1 \in DOMAIN frames' /\ frames'[n + 1] = f
         /\ \A i \in DOMAIN frames' :
              i \in 1 .. n + 1 \/ (i = n + 2 /\ dies /\ frames'[i] = g)
         /\ dies => n + 2 \in DOMAIN frames' /\ frames'[n + 2] = g
    <2>1. \A i \in 1 .. n : i \in 1 .. n + 1 /\ i \in 1 .. n + 2
      BY <1>7
    <2>2. CASE ~dies
      BY <1>7, <1>11, <2>1, <2>2
    <2>3. CASE dies
      <3>1. g \in PtrFrames
        BY <1>2, <1>3, <2>3, FrameKinds DEF g, dies
      <3>2. /\ frames' \in Seq(PtrFrames) /\ DOMAIN frames' = 1 .. n + 1 + 1
            /\ \A i \in 1 .. n + 1 : frames'[i] = back[i]
            /\ frames'[n + 1 + 1] = g
        BY <1>7, <1>11, <2>3, <3>1, OnTop
      <3>3. n + 1 + 1 = n + 2 /\ n + 2 \in 1 .. n + 2 /\ n + 1 \in 1 .. n + 2 /\ n + 1 \in 1 .. n + 1
            /\ \A i \in 1 .. n + 2 : i \in 1 .. n + 1 \/ i = n + 2
        BY <1>7
      <3>4. \A i \in DOMAIN frames' : i \in 1 .. n + 1 \/ i = n + 2
        BY <3>2, <3>3
      <3> QED
        BY <1>7, <2>1, <2>3, <3>2, <3>3, <3>4
    <2> QED
      BY <2>2, <2>3
  <1>13. AssignBegins(h, o)
    BY ONLY <1>0, <1>1, <1>2, <1>9, <1>10, <1>12, h \in Handles DEF AssignBegins, f, g, n, dies
  <1> QED
    BY <1>13

LEMMA AssignBeginsStep ==
  ASSUME PtrIInv, NEW h, NEW to, AssignBegins(h, to)
  PROVE  PtrIInv'
  <1> USE DEF PtrIInv
  <1>n. PICK n : n = Len(frames)
    OBVIOUS
  <1>0. Null \notin Objects /\ Objects \subseteq Int /\ Objects \subseteq Handles /\ Roots \subseteq Handles
        /\ Roots \cap Objects = {} /\ Handles = Roots \cup Objects
    BY ObjectPtrAssumption DEF Objects, Handles
  <1>1. n \in Nat /\ DOMAIN frames = 1 .. n
    BY <1>n, FrameTypes
  <1>2. /\ \A i \in 1 .. n : i \in Int /\ i # n + 1 /\ i # n + 2 /\ i \in 1 .. n + 1
        /\ \A i \in 1 .. n + 1 : i \in 1 .. n \/ i = n + 1
        /\ n + 1 # n + 2
    BY <1>1
  <1>3. PICK old : old = ptr[h]
    OBVIOUS
  <1>4. PICK dies \in BOOLEAN : dies <=> old # Null /\ old # to /\ refs[old] = 1
    OBVIOUS
  <1>5. /\ h \in Handles /\ to \in Objects \cup {Null} /\ Usable(h)
        /\ to # Null => state[to] # "dying"
        /\ to # Null /\ h \in Objects => h < to
        /\ ptr' = ptr /\ trash' = trash /\ connected' = connected
        /\ refs' \in [Objects -> Int] /\ state' \in [Objects -> {"none", "alive", "dying"}]
        /\ \A x \in Objects :
             /\ refs'[x] = refs[x] + (IF x = to THEN 2 ELSE 0) - (IF x = old THEN 1 ELSE 0)
             /\ state'[x] = IF x = old /\ dies THEN "dying" ELSE IF x = to THEN "alive" ELSE state[x]
        /\ frames' \in Seq(PtrFrames)
    BY <1>3, <1>4 DEF AssignBegins, Assignable
  <1>6. \A i \in 1 .. n : i \in DOMAIN frames' /\ frames'[i] = frames[i]
    BY <1>n DEF AssignBegins
  <1>7. /\ n + 1 \in DOMAIN frames'
        /\ frames'[n + 1].op = "assign" /\ frames'[n + 1].handle = h /\ frames'[n + 1].to = to
    BY <1>n DEF AssignBegins
  <1>8. /\ \A i \in DOMAIN frames' :
             i \in 1 .. n + 1 \/ (i = n + 2 /\ dies /\ frames'[i] = [op |-> "delete", object |-> old])
        /\ dies => n + 2 \in DOMAIN frames' /\ frames'[n + 2] = [op |-> "delete", object |-> old]
    BY <1>n, <1>3, <1>4 DEF AssignBegins
  <1>9. /\ \A i \in DOMAIN frames' :
             i \in 1 .. n \/ i = n + 1
             \/ (i = n + 2 /\ dies /\ frames'[i].op = "delete" /\ frames'[i].object = old)
        /\ dies => n + 2 \in DOMAIN frames' /\ frames'[n + 2].op = "delete"
                   /\ frames'[n + 2].object = old
    BY <1>2, <1>8
  <1>10. \A i \in 1 .. n : Assigns(i) => ~Reaches(old, frames[i].handle)
    BY <1>1, <1>3 DEF AssignBegins, Assignable, Assigns
  <1>11. Holds(h) /\ (old # Null => old \in Objects /\ h \in HandleRefs(old)
                                    /\ refs[old] \in Nat \ {0} /\ state[old] = "alive")
    BY <1>3, <1>5, UsableHandle
  <1>12. \A i \in 1 .. n : /\ Assigns(i)' <=> Assigns(i)
                           /\ Destroys(i)' <=> Destroys(i)
    BY <1>6 DEF Assigns, Destroys
  <1>13. Assigns(n + 1)' /\ ~Destroys(n + 1)' /\ frames'[n + 1].op \notin {"free", "erase", "collect"}
    BY <1>7 DEF Assigns, Destroys
  <1>14. \A i \in DOMAIN frames' : i \notin 1 .. n /\ i # n + 1 =>
           ~Assigns(i)' /\ frames'[i].op \notin {"free", "erase", "collect"}
    BY <1>9 DEF Assigns
  <1>15. \A g : Holds(g)' <=> Holds(g) /\ g # h
    <2>1. ASSUME NEW g, Holds(g)' PROVE Holds(g) /\ g # h
      BY <1>1, <1>6, <1>7, <1>12, <1>13, <2>1 DEF Holds
    <2>2. ASSUME NEW g, Holds(g), g # h PROVE Holds(g)'
      <3> SUFFICES ASSUME NEW i \in DOMAIN frames'
                   PROVE  /\ Assigns(i)' => frames'[i].handle # g
                          /\ frames'[i].op = "free" => frames'[i].object # g
        BY DEF Holds
      <3>1. CASE i \in 1 .. n
        BY <1>1, <1>6, <1>12, <2>2, <3>1 DEF Holds
      <3> QED
        BY <1>7, <1>13, <1>14, <2>2, <3>1
    <2> QED
      BY <2>1, <2>2
  <1>16. ASSUME NEW x \in Objects PROVE HandleRefs(x)' = HandleRefs(x) \ {h} /\ (h \in HandleRefs(x) <=> x = old)
    BY <1>3, <1>5, <1>11, <1>15 DEF HandleRefs
  <1>17. \A k : Erasing(k)' <=> Erasing(k)
    <2>1. ASSUME NEW k, Erasing(k) PROVE Erasing(k)'
      BY <1>1, <1>6, <2>1 DEF Erasing
    <2>2. ASSUME NEW k, Erasing(k)' PROVE Erasing(k)
      BY <1>1, <1>6, <1>13, <1>14, <2>2 DEF Erasing
    <2> QED
      BY <2>1, <2>2
  <1>18. ASSUME NEW x \in Objects PROVE TrashRefs(x)' = TrashRefs(x)
    BY <1>5, <1>17 DEF TrashRefs
  <1>19. ASSUME NEW x \in Objects
         PROVE  /\ n + 1 \notin ArgumentRefs(x)
                /\ ArgumentRefs(x)' = IF x = to THEN ArgumentRefs(x) \cup {n + 1} ELSE ArgumentRefs(x)
    <2>1. n + 1 \notin ArgumentRefs(x)
      BY <1>1, <1>2 DEF ArgumentRefs
    <2>2. \A i \in DOMAIN frames' : i \in ArgumentRefs(x)' <=> i \in ArgumentRefs(x) \/ (i = n + 1 /\ x = to)
      BY <1>1, <1>2, <1>6, <1>7, <1>12, <1>13, <1>14, <2>1 DEF ArgumentRefs
    <2>3. ArgumentRefs(x)' \subseteq DOMAIN frames' /\ ArgumentRefs(x) \subseteq DOMAIN frames'
      BY <1>1, <1>6 DEF ArgumentRefs
    <2> QED
      BY <1>7, <2>1, <2>2, <2>3
  <1>20. CountInv'
    <2> SUFFICES ASSUME NEW x \in Objects
                 PROVE  /\ IsFiniteSet(HandleRefs(x)')
                        /\ refs'[x] = Cardinality(HandleRefs(x)') + Cardinality(TrashRefs(x)')
                                      + 2 * Cardinality(ArgumentRefs(x)')
                        /\ state'[x] = "alive" <=> refs'[x] > 0
                        /\ state'[x] = "none" => ptr'[x] = Null
      BY DEF CountInv
    <2>1. /\ refs[x] \in Nat /\ (state[x] = "alive" <=> refs[x] > 0)
          /\ IsFiniteSet(HandleRefs(x)) /\ IsFiniteSet(TrashRefs(x)) /\ IsFiniteSet(ArgumentRefs(x))
      BY Counts
    <2>2. /\ refs[x] = Cardinality(HandleRefs(x)) + Cardinality(TrashRefs(x))
                       + 2 * Cardinality(ArgumentRefs(x))
          /\ state[x] = "none" => ptr[x] = Null
      BY DEF CountInv
    <2>3. /\ Cardinality(HandleRefs(x)) \in Nat /\ Cardinality(TrashRefs(x)) \in Nat
          /\ Cardinality(ArgumentRefs(x)) \in Nat
      BY <2>1, FS_CardinalityType
    <2>4. /\ IsFiniteSet(HandleRefs(x)')
          /\ Cardinality(HandleRefs(x)') = Cardinality(HandleRefs(x)) - (IF x = old THEN 1 ELSE 0)
      <3>1. HandleRefs(x)' = HandleRefs(x) \ {h} /\ (h \in HandleRefs(x) <=> x = old)
        BY <1>16
      <3>2. /\ IsFiniteSet(HandleRefs(x) \ {h})
            /\ h \in HandleRefs(x) => Cardinality(HandleRefs(x) \ {h}) = Cardinality(HandleRefs(x)) - 1
            /\ h \notin HandleRefs(x) => HandleRefs(x) \ {h} = HandleRefs(x)
        BY <2>1, OneMore
      <3>3. /\ IsFiniteSet(HandleRefs(x)')
            /\ Cardinality(HandleRefs(x)') = Cardinality(HandleRefs(x) \ {h})
        BY <3>1, <3>2, Zenon
      <3>4. x # old => Cardinality(HandleRefs(x) \ {h}) = Cardinality(HandleRefs(x))
        BY <3>1, <3>2, Zenon
      <3> QED
        BY <2>3, <3>1, <3>2, <3>3, <3>4
    <2>5. Cardinality(ArgumentRefs(x)') = Cardinality(ArgumentRefs(x)) + (IF x = to THEN 1 ELSE 0)
      BY <1>19, <2>1, <2>3, OneMore
    <2>6. refs'[x] = refs[x] + (IF x = to THEN 2 ELSE 0) - (IF x = old THEN 1 ELSE 0)
      BY <1>5
    <2>7. refs'[x] = Cardinality(HandleRefs(x)') + Cardinality(TrashRefs(x)')
                     + 2 * Cardinality(ArgumentRefs(x)')
      BY <1>18, <2>2, <2>3, <2>4, <2>5, <2>6
    <2>8. state'[x] = "alive" <=> refs'[x] > 0
      <3>1. CASE x = old
        BY <1>0, <1>4, <1>5, <1>11, <2>1, <2>6, <3>1
      <3>2. CASE x # old
        BY <1>5, <2>1, <2>6, <3>2
      <3> QED
        BY <3>1, <3>2
    <2>9. state'[x] = "none" => ptr'[x] = Null
      BY <1>5, <2>2
    <2> QED
      BY <2>4, <2>7, <2>8, <2>9
  <1>21. PtrTypeOK'
    BY <1>5 DEF PtrTypeOK
  <1>22. \A i \in 1 .. n : Assigns(i) /\ frames[i].handle \in Objects =>
           state[frames[i].handle] = "alive" /\ frames[i].handle # old
    <2> SUFFICES ASSUME NEW i \in 1 .. n, Assigns(i), frames[i].handle \in Objects
                 PROVE  state[frames[i].handle] = "alive" /\ frames[i].handle # old
      OBVIOUS
    <2>1. state[frames[i].handle] = "alive"
      BY <1>1 DEF FramesInv
    <2>2. frames[i].handle = old => Reaches(old, frames[i].handle)
      BY <1>0 DEF Reaches
    <2> QED
      BY <1>10, <2>1, <2>2
  <1>23. h \in Objects => h # old /\ state[h] = "alive" /\ state'[h] = "alive"
    <2>1. h \in Objects => h # old /\ state[h] = "alive"
      BY <1>0, <1>3, <1>5, <1>11 DEF PtrTypeOK, Usable
    <2> QED
      BY <1>5, <2>1
  <1>24. \A o \in Objects : state[o] = "dying" => state'[o] = "dying"
    BY <1>0, <1>5, <1>11
  <1>25. FramesInv'
    <2>1. ASSUME NEW i \in DOMAIN frames'
          PROVE  /\ Assigns(i)' /\ frames'[i].handle \in Objects =>
                      /\ state'[frames'[i].handle] = "alive"
                      /\ frames'[i].to # Null => frames'[i].handle < frames'[i].to
                 /\ Destroys(i)' => state'[frames'[i].object] = "dying"
                 /\ frames'[i].op \in {"collect", "erase"} => i = 1
                 /\ frames'[i].op = "erase" => frames'[i].next \in DOMAIN trash'
      <3>1. CASE i \in 1 .. n
        <4>1. /\ Assigns(i) /\ frames[i].handle \in Objects =>
                   /\ state'[frames[i].handle] = "alive"
                   /\ frames[i].to # Null => frames[i].handle < frames[i].to
          BY <1>1, <1>5, <1>22, <3>1 DEF FramesInv
        <4>2. Destroys(i) => frames[i].object \in Objects /\ state'[frames[i].object] = "dying"
          BY <1>1, <1>24, <3>1, FrameTypes DEF FramesInv
        <4>3. /\ frames[i].op \in {"collect", "erase"} => i = 1
              /\ frames[i].op = "erase" => frames[i].next \in DOMAIN trash'
          BY <1>1, <1>5, <3>1 DEF FramesInv
        <4> QED
          BY <1>6, <1>12, <3>1, <4>1, <4>2, <4>3
      <3>2. CASE i = n + 1
        BY <1>5, <1>7, <1>13, <1>23, <3>2
      <3>3. CASE i \notin 1 .. n /\ i # n + 1
        <4>1. dies /\ frames'[i].object = old
          BY <1>9, <3>3
        <4>2. state'[old] = "dying"
          BY <1>4, <1>5, <1>11, <4>1
        <4> QED
          BY <1>14, <3>3, <4>1, <4>2
      <3> QED
        BY <3>1, <3>2, <3>3
    <2>2. ASSUME NEW i \in DOMAIN frames', NEW j \in DOMAIN frames', i # j, Assigns(i)', Assigns(j)'
          PROVE  frames'[i].handle # frames'[j].handle
      <3>1. \A k \in 1 .. n : Assigns(k) => frames[k].handle # h
        BY <1>1, <1>11 DEF Holds
      <3>2. CASE i \in 1 .. n /\ j \in 1 .. n
        BY <1>1, <1>6, <1>12, <2>2, <3>2 DEF FramesInv
      <3> QED
        BY <1>6, <1>7, <1>12, <1>14, <2>2, <3>1, <3>2
    <2>3. ASSUME NEW i \in DOMAIN frames', NEW j \in DOMAIN frames', i # j, Destroys(i)', Destroys(j)'
          PROVE  frames'[i].object # frames'[j].object
      <3>1. \A k \in 1 .. n : Destroys(k) => frames[k].object # old
        BY <1>0, <1>1, <1>11, FrameTypes DEF FramesInv
      <3>2. CASE i \in 1 .. n /\ j \in 1 .. n
        BY <1>1, <1>6, <1>12, <2>3, <3>2 DEF FramesInv
      <3> QED
        BY <1>6, <1>9, <1>12, <1>13, <2>3, <3>1, <3>2
    <2>4. ASSUME NEW o \in Objects, state'[o] = "dying"
          PROVE  \E i \in DOMAIN frames' : Destroys(i)' /\ frames'[i].object = o
      <3>1. CASE o = old /\ dies
        BY <1>9, <3>1 DEF Destroys
      <3>2. CASE ~(o = old /\ dies)
        <4>1. state[o] = "dying"
          BY <1>5, <2>4, <3>2
        <4>2. PICK i \in DOMAIN frames : Destroys(i) /\ frames[i].object = o
          BY <4>1 DEF FramesInv
        <4> QED
          BY <1>1, <1>6, <1>12, <4>2
      <3> QED
        BY <3>1, <3>2
    <2> QED
      BY <2>1, <2>2, <2>3, <2>4 DEF FramesInv
  <1>26. SupportInv'
    <2> SUFFICES ASSUME NEW i \in DOMAIN frames', Assigns(i)', frames'[i].handle \in Objects
                 PROVE  \E S \in SUBSET Objects : Supports(S, i)'
      BY DEF SupportInv
    <2>1. CASE i \in 1 .. n
      <3>1. Assigns(i) /\ frames[i].handle \in Objects /\ frames'[i] = frames[i]
        BY <1>6, <1>12, <2>1
      <3>2. PICK S \in SUBSET Objects : Supports(S, i)
        BY <1>1, <2>1, <3>1 DEF SupportInv
      <3>3. i \in Nat \ {0}
        BY <1>1, <2>1
      <3>4. \A j \in 1 .. i : frames'[j] = frames[j]
        BY <1>1, <1>6, <2>1
      <3>5. ASSUME NEW s \in S PROVE s # old
        <4>1. Reaches(s, frames[i].handle)
          BY <3>2, ChainReaches DEF Supports
        <4> QED
          BY <1>10, <2>1, <3>1, <4>1
      <3>6. \A r : ptr[r] \in S => r # h
        BY <1>3, <3>5
      <3>7. ASSUME NEW s \in S
            PROVE  /\ state'[s] = "alive"
                   /\ s # frames[i].handle => ptr'[s] = ptr[s] /\ Holds(s)'
                   /\ TrashRefs(s) # {} => TrashRefs(s)' # {}
        <4>1. state[s] = "alive" /\ (s # frames[i].handle => ptr[s] \in S /\ Holds(s))
          BY <3>2 DEF Supports
        <4>2. state'[s] = "alive"
          BY <1>5, <3>5, <4>1
        <4>3. TrashRefs(s)' = TrashRefs(s)
          BY <1>18
        <4> QED
          BY <1>5, <1>15, <3>6, <4>1, <4>2, <4>3
      <3>8. \A r \in Roots : ptr[r] \in S /\ Holds(r) => ptr'[r] = ptr[r] /\ Holds(r)'
        BY <1>5, <1>15, <3>6
      <3>9. \A j \in 1 .. i - 1 : frames[j].op = "delete" =>
              ptr'[frames[j].object] = ptr[frames[j].object]
        BY <1>5
      <3>10. Supports(S, i)'
        BY ONLY <3>2, <3>3, <3>4, <3>7, <3>8, <3>9, SupportKept
      <3> QED
        BY <3>10
    <2>2. CASE i = n + 1
      <3>1. h \in Objects /\ state[h] = "alive"
        BY <1>7, <1>23, <2>2
      <3>2. PICK S \in SUBSET Objects :
              /\ h \in S
              /\ \A s \in S :
                   /\ state[s] = "alive" /\ s <= h
                   /\ s # h => ptr[s] \in S /\ Holds(s)
                   /\ HeldNow(s) \/ \E p \in S \ {h} : ptr[p] = s
        BY <3>1, SupportExists
      <3>3. ASSUME NEW s \in S PROVE s # old
        <4>1. old # Null => h < old
          BY <1>3, <3>1 DEF PtrTypeOK
        <4>2. s <= h /\ s \in Int /\ h \in Int
          BY <1>0, <3>1, <3>2
        <4> QED
          BY <1>0, <1>11, <4>1, <4>2
      <3>4. ASSUME NEW s \in S
            PROVE  state'[s] = "alive" /\ (s # h => ptr'[s] \in S /\ Holds(s)')
        BY <1>5, <1>15, <3>2, <3>3
      <3>5. ASSUME NEW s \in S, HeldNow(s) PROVE HeldBelow(i, s)'
        <4>1. i - 1 = n
          BY <1>1, <2>2
        <4>2. CASE \E r \in Roots : ptr[r] = s /\ Holds(r)
          <5>1. PICK r \in Roots : ptr[r] = s /\ Holds(r)
            BY <4>2
          <5>2. Holds(r)' /\ ptr'[r] = s
            BY <1>0, <1>5, <1>15, <3>1, <5>1
          <5> QED
            BY <5>2 DEF HeldBelow
        <4>3. CASE TrashRefs(s) # {}
          BY <1>18, <4>3 DEF HeldBelow
        <4>4. CASE \E j \in DOMAIN frames : Assigns(j) /\ frames[j].to = s
          BY <1>1, <1>6, <1>12, <4>1, <4>4 DEF HeldBelow
        <4>5. CASE \E j \in DOMAIN frames : frames[j].op = "delete" /\ ptr[frames[j].object] = s
          BY <1>1, <1>5, <1>6, <4>1, <4>5 DEF HeldBelow
        <4> QED
          BY <3>5, <4>2, <4>3, <4>4, <4>5 DEF HeldNow
      <3>6. ASSUME NEW s \in S PROVE HeldBelow(i, s)' \/ \E p \in S \ {h} : ptr'[p] = s
        BY <1>5, <3>2, <3>5
      <3>7. Supports(S, i)'
        BY <1>7, <2>2, <3>2, <3>4, <3>6 DEF Supports
      <3> QED
        BY <3>7
    <2> QED
      BY <1>14, <2>1, <2>2
  <1> QED
    BY <1>20, <1>21, <1>25, <1>26

LEMMA EndAssignStep ==
  ASSUME PtrIInv, EndAssign
  PROVE  PtrIInv'
  <1> USE DEF PtrIInv
  <1>0. Null \notin Objects /\ Objects \subseteq Handles /\ Roots \subseteq Handles
    BY ObjectPtrAssumption DEF Objects, Handles
  <1>1. PICK n, h, to : n = Len(frames) /\ h = frames[n].handle /\ to = frames[n].to
    OBVIOUS
  <1>2. n \in Nat \ {0} /\ n \in DOMAIN frames /\ DOMAIN frames = 1 .. n /\ frames # <<>>
        /\ Assigns(n)
    <2>1. frames # <<>> /\ Last(frames).op = "assign"
      BY DEF EndAssign, Top
    <2> QED
      BY <1>1, <2>1, FrameTypes, TopGone DEF Assigns
  <1>3. /\ \A i \in 1 .. n - 1 : i \in 1 .. n /\ i # n /\ i \in Nat
        /\ \A i \in 1 .. n : i \in 1 .. n - 1 \/ i = n
    BY <1>2
  <1>4. h \in Handles /\ to \in Objects \cup {Null} /\ (h \in Objects => state[h] = "alive")
        /\ (h \in Objects /\ to # Null => h < to)
    BY <1>1, <1>2, FrameTypes DEF FramesInv
  <1>5. to # Null => n \in ArgumentRefs(to) /\ refs[to] > 1 /\ refs[to] \in Nat /\ to \in Objects
    <2> SUFFICES ASSUME to # Null
                 PROVE  n \in ArgumentRefs(to) /\ refs[to] > 1 /\ refs[to] \in Nat /\ to \in Objects
      OBVIOUS
    <2>1. n \in ArgumentRefs(to) /\ to \in Objects
      BY <1>1, <1>2, <1>4 DEF ArgumentRefs
    <2> QED
      BY <2>1, Counts
  <1>6. /\ ptr' = [ptr EXCEPT ![h] = to] /\ trash' = trash /\ connected' = connected
        /\ refs' = Deref(refs, to) /\ state' = state /\ frames' = Front(frames)
    <2>1. LetGo(refs, to, Front(frames)) /\ ptr' = [ptr EXCEPT ![h] = to]
          /\ trash' = trash /\ connected' = connected
      BY <1>1, <1>2, TopGone DEF EndAssign
    <2> QED
      BY <1>5, <2>1 DEF LetGo
  <1>7. /\ frames' \in Seq(PtrFrames) /\ DOMAIN frames' = 1 .. n - 1
        /\ \A i \in 1 .. n - 1 : frames'[i] = frames[i]
    BY <1>1, <1>2, <1>6, TopGone
  <1>8. /\ refs' \in [Objects -> Int]
        /\ \A x \in Objects : refs'[x] = refs[x] - (IF x = to THEN 1 ELSE 0)
    BY <1>0, <1>4, <1>6 DEF Deref, PtrTypeOK
  <1>9. /\ ptr' \in [Handles -> Objects \cup {Null}]
        /\ \A g \in Handles : ptr'[g] = IF g = h THEN to ELSE ptr[g]
        /\ \A o \in Objects : ptr'[o] # Null => o < ptr'[o]
    BY <1>0, <1>4, <1>6 DEF PtrTypeOK
  <1>10. \A i \in 1 .. n - 1 : (Assigns(i)' <=> Assigns(i)) /\ (Destroys(i)' <=> Destroys(i))
    BY <1>7 DEF Assigns, Destroys
  <1>11. /\ ~Holds(h)
         /\ \A i \in 1 .. n - 1 : /\ Assigns(i) => frames[i].handle # h
                                  /\ frames[i].op = "free" => frames[i].object # h
    <2>1. ~Holds(h)
      BY <1>1, <1>2 DEF Holds
    <2>2. ASSUME NEW i \in 1 .. n - 1, Assigns(i) PROVE frames[i].handle # h
      BY <1>1, <1>2, <1>3, <2>2 DEF FramesInv
    <2>3. ASSUME NEW i \in 1 .. n - 1, frames[i].op = "free" PROVE frames[i].object # h
      <3>1. Destroys(i) /\ i \in DOMAIN frames
        BY <1>2, <1>3, <2>3 DEF Destroys
      <3>2. frames[i].object \in Objects /\ state[frames[i].object] = "dying"
        BY <3>1, FrameTypes DEF FramesInv
      <3> QED
        BY <1>4, <3>2
    <2> QED
      BY <2>1, <2>2, <2>3
  <1>12. \A g : Holds(g)' <=> Holds(g) \/ g = h
    <2>1. ASSUME NEW g, Holds(g) \/ g = h PROVE Holds(g)'
      BY <1>2, <1>3, <1>7, <1>10, <1>11, <2>1 DEF Holds
    <2>2. ASSUME NEW g, Holds(g)', g # h PROVE Holds(g)
      <3> SUFFICES ASSUME NEW i \in DOMAIN frames
                   PROVE  /\ Assigns(i) => frames[i].handle # g
                          /\ frames[i].op = "free" => frames[i].object # g
        BY DEF Holds
      <3>1. CASE i \in 1 .. n - 1
        BY <1>7, <1>10, <2>2, <3>1 DEF Holds
      <3>2. CASE i = n
        BY <1>1, <1>2, <2>2, <3>2 DEF Assigns
      <3> QED
        BY <1>2, <1>3, <3>1, <3>2
    <2> QED
      BY <2>1, <2>2
  <1>13. ASSUME NEW x \in Objects
         PROVE  /\ h \notin HandleRefs(x)
                /\ HandleRefs(x)' = IF x = to THEN HandleRefs(x) \cup {h} ELSE HandleRefs(x)
    BY <1>0, <1>4, <1>9, <1>11, <1>12 DEF HandleRefs
  <1>14. \A k : Erasing(k)' <=> Erasing(k)
    BY <1>2, <1>3, <1>7 DEF Erasing, Assigns
  <1>15. ASSUME NEW x \in Objects PROVE TrashRefs(x)' = TrashRefs(x)
    BY <1>6, <1>14 DEF TrashRefs
  <1>16. ASSUME NEW x \in Objects
         PROVE  /\ ArgumentRefs(x)' = ArgumentRefs(x) \ {n}
                /\ n \in ArgumentRefs(x) <=> x = to
    <2>1. n \in ArgumentRefs(x) <=> x = to
      BY <1>1, <1>2 DEF ArgumentRefs
    <2>2. \A i \in 1 .. n : i \in ArgumentRefs(x)' <=> i \in ArgumentRefs(x) /\ i # n
      BY <1>2, <1>3, <1>7, <1>10 DEF ArgumentRefs
    <2>3. ArgumentRefs(x)' \subseteq 1 .. n /\ ArgumentRefs(x) \subseteq 1 .. n
      BY <1>2, <1>3, <1>7 DEF ArgumentRefs
    <2> QED
      BY <2>1, <2>2, <2>3
  <1>17. CountInv'
    <2> SUFFICES ASSUME NEW x \in Objects
                 PROVE  /\ IsFiniteSet(HandleRefs(x)')
                        /\ refs'[x] = Cardinality(HandleRefs(x)') + Cardinality(TrashRefs(x)')
                                      + 2 * Cardinality(ArgumentRefs(x)')
                        /\ state'[x] = "alive" <=> refs'[x] > 0
                        /\ state'[x] = "none" => ptr'[x] = Null
      BY DEF CountInv
    <2>1. /\ refs[x] \in Nat /\ (state[x] = "alive" <=> refs[x] > 0)
          /\ IsFiniteSet(HandleRefs(x)) /\ IsFiniteSet(TrashRefs(x)) /\ IsFiniteSet(ArgumentRefs(x))
      BY Counts
    <2>2. /\ refs[x] = Cardinality(HandleRefs(x)) + Cardinality(TrashRefs(x))
                       + 2 * Cardinality(ArgumentRefs(x))
          /\ state[x] = "none" => ptr[x] = Null
      BY DEF CountInv
    <2>3. /\ Cardinality(HandleRefs(x)) \in Nat /\ Cardinality(TrashRefs(x)) \in Nat
          /\ Cardinality(ArgumentRefs(x)) \in Nat
      BY <2>1, FS_CardinalityType
    <2>4. /\ IsFiniteSet(HandleRefs(x)')
          /\ Cardinality(HandleRefs(x)') = Cardinality(HandleRefs(x)) + (IF x = to THEN 1 ELSE 0)
      BY <1>13, <2>1, <2>3, OneMore
    <2>5. Cardinality(ArgumentRefs(x)') = Cardinality(ArgumentRefs(x)) - (IF x = to THEN 1 ELSE 0)
      <3>1. ArgumentRefs(x)' = ArgumentRefs(x) \ {n} /\ (n \in ArgumentRefs(x) <=> x = to)
        BY <1>16
      <3>2. /\ n \in ArgumentRefs(x) =>
                 Cardinality(ArgumentRefs(x) \ {n}) = Cardinality(ArgumentRefs(x)) - 1
            /\ n \notin ArgumentRefs(x) => ArgumentRefs(x) \ {n} = ArgumentRefs(x)
        BY <2>1, OneMore
      <3>3. Cardinality(ArgumentRefs(x)') = Cardinality(ArgumentRefs(x) \ {n})
        BY <3>1, Zenon
      <3>4. x # to => Cardinality(ArgumentRefs(x) \ {n}) = Cardinality(ArgumentRefs(x))
        BY <3>1, <3>2, Zenon
      <3> QED
        BY <2>3, <3>1, <3>2, <3>3, <3>4
    <2>6. refs'[x] = Cardinality(HandleRefs(x)') + Cardinality(TrashRefs(x)')
                     + 2 * Cardinality(ArgumentRefs(x)')
      BY <1>8, <1>15, <2>2, <2>3, <2>4, <2>5
    <2>7. state'[x] = "alive" <=> refs'[x] > 0
      BY <1>0, <1>5, <1>6, <1>8, <2>1
    <2>8. state'[x] = "none" => ptr'[x] = Null
      BY <1>0, <1>4, <1>6, <1>9, <2>2
    <2> QED
      BY <2>4, <2>6, <2>7, <2>8
  <1>18. PtrTypeOK'
    BY <1>6, <1>7, <1>8, <1>9 DEF PtrTypeOK
  <1>19. FramesInv'
    <2>1. ASSUME NEW o \in Objects, state'[o] = "dying"
          PROVE  \E i \in DOMAIN frames' : Destroys(i)' /\ frames'[i].object = o
      <3>1. PICK i \in DOMAIN frames : Destroys(i) /\ frames[i].object = o
        BY <1>6, <2>1 DEF FramesInv
      <3>2. i # n
        BY <1>2, <3>1 DEF Assigns, Destroys
      <3> QED
        BY <1>2, <1>3, <1>7, <1>10, <3>1, <3>2
    <2>2. \A i \in DOMAIN frames' : i \in DOMAIN frames /\ frames'[i] = frames[i]
            /\ (Assigns(i)' <=> Assigns(i)) /\ (Destroys(i)' <=> Destroys(i))
      BY <1>2, <1>3, <1>7, <1>10
    <2> QED
      BY <1>6, <2>1, <2>2 DEF FramesInv
  <1>20. SupportInv'
    <2> SUFFICES ASSUME NEW i \in DOMAIN frames', Assigns(i)', frames'[i].handle \in Objects
                 PROVE  \E S \in SUBSET Objects : Supports(S, i)'
      BY DEF SupportInv
    <2>1. i \in 1 .. n - 1 /\ i \in DOMAIN frames /\ Assigns(i) /\ frames[i].handle \in Objects
          /\ i \in Nat \ {0} /\ frames[i].handle # h
      BY <1>2, <1>3, <1>7, <1>10, <1>11
    <2>2. PICK S \in SUBSET Objects : Supports(S, i)
      BY <2>1 DEF SupportInv
    <2>3. \A j \in 1 .. i : j \in 1 .. n - 1 /\ frames'[j] = frames[j] /\ j \in DOMAIN frames
      BY <1>2, <1>3, <1>7, <2>1
    <2>4. ASSUME NEW s \in S
          PROVE  /\ state'[s] = "alive"
                 /\ s # frames[i].handle => ptr'[s] = ptr[s] /\ Holds(s)'
                 /\ TrashRefs(s) # {} => TrashRefs(s)' # {}
      <3>1. state[s] = "alive" /\ (s # frames[i].handle => Holds(s))
        BY <2>2 DEF Supports
      <3>2. s # frames[i].handle => s # h
        BY <1>11, <3>1
      <3> QED
        BY <1>0, <1>6, <1>9, <1>12, <1>15, <3>1, <3>2
    <2>5. \A r \in Roots : ptr[r] \in S /\ Holds(r) => ptr'[r] = ptr[r] /\ Holds(r)'
      BY <1>0, <1>9, <1>11, <1>12
    <2>6. ASSUME NEW j \in 1 .. i - 1, frames[j].op = "delete"
          PROVE  ptr'[frames[j].object] = ptr[frames[j].object]
      <3>1. j \in 1 .. i
        BY <2>1
      <3>2. Destroys(j) /\ j \in DOMAIN frames
        BY <2>3, <2>6, <3>1 DEF Destroys
      <3>3. frames[j].object \in Objects /\ state[frames[j].object] = "dying"
        BY <3>2, FrameTypes DEF FramesInv
      <3> QED
        BY <1>0, <1>4, <1>9, <3>3
    <2>7. \A j \in 1 .. i : frames'[j] = frames[j]
      BY <2>3
    <2>8. Supports(S, i)'
      BY ONLY <2>1, <2>2, <2>4, <2>5, <2>6, <2>7, SupportKept
    <2> QED
      BY <2>8
  <1> QED
    BY <1>17, <1>18, <1>19, <1>20

LEMMA EndDestructorStep ==
  ASSUME PtrIInv, EndDestructor
  PROVE  PtrIInv'
  <1> USE DEF PtrIInv
  <1>0. Null \notin Objects /\ Objects \subseteq Handles /\ Roots \subseteq Handles
        /\ Roots \cap Objects = {} /\ Objects \subseteq Int
    BY ObjectPtrAssumption DEF Objects, Handles
  <1>1. PICK n, o : n = Len(frames) /\ o = frames[n].object
    OBVIOUS
  <1>2. /\ n \in Nat \ {0} /\ n \in DOMAIN frames /\ DOMAIN frames = 1 .. n /\ frames # <<>>
        /\ frames[n].op = "delete" /\ Last(frames) = frames[n]
    <2>1. frames # <<>> /\ Last(frames).op = "delete"
      BY DEF EndDestructor, Top
    <2> QED
      BY <1>1, <2>1, FrameTypes, TopGone
  <1>3. /\ \A i \in 1 .. n - 1 : i \in 1 .. n /\ i # n /\ i # n + 1 /\ i \in Nat
        /\ \A i \in 1 .. n : i \in 1 .. n - 1 \/ i = n
        /\ n # n + 1
    BY <1>2
  <1>4. Destroys(n) /\ ~Assigns(n) /\ o \in Objects /\ o \in Handles /\ state[o] = "dying"
    <2>1. Destroys(n) /\ ~Assigns(n)
      BY <1>2 DEF Destroys, Assigns
    <2> QED
      BY <1>0, <1>1, <1>2, <2>1, FrameTypes DEF FramesInv
  <1>5. PICK p, fs : p = ptr[o] /\ fs = Append(Front(frames), [op |-> "free", object |-> o])
    OBVIOUS
  <1>6. p \in Objects \cup {Null} /\ (p # Null => p \in Objects /\ o < p)
    BY <1>0, <1>4, <1>5 DEF PtrTypeOK
  <1>7. Holds(o)
    <2> SUFFICES ASSUME NEW i \in DOMAIN frames
                 PROVE  /\ Assigns(i) => frames[i].handle # o
                        /\ frames[i].op = "free" => frames[i].object # o
      BY DEF Holds
    <2>1. Assigns(i) => frames[i].handle # o
      BY <1>4 DEF FramesInv
    <2>2. ASSUME frames[i].op = "free" PROVE frames[i].object # o
      <3>1. Destroys(i) /\ i # n
        BY <1>2, <2>2 DEF Destroys
      <3> QED
        BY <1>1, <1>2, <1>4, <3>1 DEF FramesInv
    <2> QED
      BY <2>1, <2>2
  <1>8. p # Null => p \in Objects /\ o \in HandleRefs(p) /\ refs[p] \in Nat \ {0} /\ state[p] = "alive"
    <2> SUFFICES ASSUME p # Null
                 PROVE  p \in Objects /\ o \in HandleRefs(p) /\ refs[p] \in Nat \ {0} /\ state[p] = "alive"
      OBVIOUS
    <2>1. p \in Objects /\ o \in HandleRefs(p)
      BY <1>4, <1>5, <1>6, <1>7 DEF HandleRefs
    <2>2. refs[p] \in Nat /\ refs[p] > 0 /\ state[p] = "alive"
      BY <2>1, Counts
    <2> QED
      BY <2>1, <2>2
  <1>9. /\ fs \in Seq(PtrFrames) /\ Len(fs) = n
        /\ \A i \in 1 .. n - 1 : fs[i] = frames[i]
        /\ fs[n] = [op |-> "free", object |-> o]
    <2>1. /\ Front(frames) \in Seq(PtrFrames) /\ Len(Front(frames)) = n - 1
          /\ \A i \in 1 .. n - 1 : Front(frames)[i] = frames[i]
      BY <1>1, <1>2, TopGone
    <2>2. [op |-> "free", object |-> o] \in PtrFrames
      BY <1>4, FrameKinds
    <2>3. /\ fs \in Seq(PtrFrames) /\ Len(fs) = n - 1 + 1
          /\ \A i \in 1 .. n - 1 : fs[i] = Front(frames)[i]
          /\ fs[n - 1 + 1] = [op |-> "free", object |-> o]
      BY <1>5, <2>1, <2>2, OnTop
    <2>4. n - 1 + 1 = n
      BY <1>2
    <2> QED
      BY <2>1, <2>3, <2>4
  <1>10. LetGo(refs, p, fs) /\ ptr' = ptr /\ trash' = trash /\ connected' = connected
    BY <1>1, <1>2, <1>5 DEF EndDestructor
  <1>11. refs \in [Objects -> Int] /\ state \in [Objects -> {"none", "alive", "dying"}]
    BY DEF PtrTypeOK
  <1>11a. PICK r : r = refs
    OBVIOUS
  <1>11b. LetGo(r, p, fs)
    BY <1>10, <1>11a
  <1>11c. fs \in Seq(PtrFrames) /\ r \in [Objects -> Int] /\ p \in Objects \cup {Null}
    BY <1>6, <1>9, <1>11, <1>11a
  <1>11d. state \in [Objects -> {"none", "alive", "dying"}]
    BY <1>11
  <1>12. /\ refs' \in [Objects -> Int] /\ state' \in [Objects -> {"none", "alive", "dying"}]
         /\ \A x \in Objects :
              /\ refs'[x] = IF x = p THEN r[x] - 1 ELSE r[x]
              /\ state'[x] = IF x = p /\ r[x] = 1 THEN "dying" ELSE state[x]
         /\ frames' \in Seq(PtrFrames)
         /\ \A i \in 1 .. Len(fs) : i \in DOMAIN frames' /\ frames'[i] = fs[i]
         /\ \A i \in DOMAIN frames' :
              \/ i \in 1 .. Len(fs)
              \/ /\ i = Len(fs) + 1 /\ p \in Objects /\ r[p] = 1
                 /\ frames'[i] = [op |-> "delete", object |-> p]
         /\ p \in Objects /\ r[p] = 1 =>
              Len(fs) + 1 \in DOMAIN frames' /\ frames'[Len(fs) + 1] = [op |-> "delete", object |-> p]
    BY ONLY <1>11b, <1>11c, <1>11d, LettingGo
  <1>13. PICK dies \in BOOLEAN : dies <=> p \in Objects /\ refs[p] = 1
    OBVIOUS
  <1>14. \A x \in Objects : /\ refs'[x] = refs[x] - (IF x = p THEN 1 ELSE 0)
                            /\ state'[x] = IF x = p /\ dies THEN "dying" ELSE state[x]
    BY <1>11, <1>11a, <1>12, <1>13
  <1>15. /\ \A i \in 1 .. n - 1 : i \in DOMAIN frames' /\ frames'[i] = frames[i]
         /\ n \in DOMAIN frames' /\ frames'[n].op = "free" /\ frames'[n].object = o
         /\ \A i \in DOMAIN frames' :
              \/ i \in 1 .. n - 1 \/ i = n
              \/ i = n + 1 /\ dies /\ frames'[i].op = "delete" /\ frames'[i].object = p
         /\ dies => n + 1 \in DOMAIN frames' /\ frames'[n + 1].op = "delete"
                    /\ frames'[n + 1].object = p
    BY <1>2, <1>3, <1>9, <1>11a, <1>12, <1>13
  <1>16. \A i \in 1 .. n - 1 : (Assigns(i)' <=> Assigns(i)) /\ (Destroys(i)' <=> Destroys(i))
    BY <1>15 DEF Assigns, Destroys
  <1>17. \A i \in DOMAIN frames' : i \notin 1 .. n - 1 =>
           ~Assigns(i)' /\ Destroys(i)' /\ frames'[i].op \notin {"erase", "collect"}
    BY <1>15 DEF Assigns, Destroys
  <1>18. \A g : Holds(g)' <=> Holds(g) /\ g # o
    <2>1. ASSUME NEW g, Holds(g)' PROVE Holds(g)
      <3> SUFFICES ASSUME NEW i \in DOMAIN frames
                   PROVE  /\ Assigns(i) => frames[i].handle # g
                          /\ frames[i].op = "free" => frames[i].object # g
        BY DEF Holds
      <3>1. CASE i \in 1 .. n - 1
        BY <1>15, <1>16, <2>1, <3>1 DEF Holds
      <3>2. CASE i = n
        BY <1>2, <3>2 DEF Assigns
      <3> QED
        BY <1>2, <1>3, <3>1, <3>2
    <2>2. ASSUME NEW g, Holds(g)' PROVE g # o
      BY <1>15, <2>2 DEF Holds
    <2>3. ASSUME NEW g, Holds(g), g # o PROVE Holds(g)'
      <3> SUFFICES ASSUME NEW i \in DOMAIN frames'
                   PROVE  /\ Assigns(i)' => frames'[i].handle # g
                          /\ frames'[i].op = "free" => frames'[i].object # g
        BY DEF Holds
      <3>1. CASE i \in 1 .. n - 1
        BY <1>2, <1>3, <1>15, <1>16, <2>3, <3>1 DEF Holds
      <3>2. CASE i \notin 1 .. n - 1
        BY <1>15, <1>17, <2>3, <3>2
      <3> QED
        BY <3>1, <3>2
    <2> QED
      BY <2>1, <2>2, <2>3
  <1>19. ASSUME NEW x \in Objects
         PROVE  HandleRefs(x)' = HandleRefs(x) \ {o} /\ (o \in HandleRefs(x) <=> x = p)
    BY <1>4, <1>5, <1>7, <1>10, <1>18 DEF HandleRefs
  <1>20. \A k : Erasing(k)' <=> Erasing(k)
    <2>1. ASSUME NEW k, Erasing(k) PROVE Erasing(k)'
      BY <1>2, <1>3, <1>15, <2>1 DEF Erasing
    <2>2. ASSUME NEW k, Erasing(k)' PROVE Erasing(k)
      BY <1>2, <1>3, <1>15, <1>17, <2>2 DEF Erasing
    <2> QED
      BY <2>1, <2>2
  <1>21. ASSUME NEW x \in Objects PROVE TrashRefs(x)' = TrashRefs(x)
    BY <1>10, <1>20 DEF TrashRefs
  <1>22. ASSUME NEW x \in Objects PROVE ArgumentRefs(x)' = ArgumentRefs(x)
    BY <1>2, <1>3, <1>4, <1>15, <1>16, <1>17 DEF ArgumentRefs
  <1>23. CountInv'
    <2> SUFFICES ASSUME NEW x \in Objects
                 PROVE  /\ IsFiniteSet(HandleRefs(x)')
                        /\ refs'[x] = Cardinality(HandleRefs(x)') + Cardinality(TrashRefs(x)')
                                      + 2 * Cardinality(ArgumentRefs(x)')
                        /\ state'[x] = "alive" <=> refs'[x] > 0
                        /\ state'[x] = "none" => ptr'[x] = Null
      BY DEF CountInv
    <2>1. /\ refs[x] \in Nat /\ (state[x] = "alive" <=> refs[x] > 0)
          /\ IsFiniteSet(HandleRefs(x)) /\ IsFiniteSet(TrashRefs(x)) /\ IsFiniteSet(ArgumentRefs(x))
      BY Counts
    <2>2. /\ refs[x] = Cardinality(HandleRefs(x)) + Cardinality(TrashRefs(x))
                       + 2 * Cardinality(ArgumentRefs(x))
          /\ state[x] = "none" => ptr[x] = Null
      BY DEF CountInv
    <2>3. /\ Cardinality(HandleRefs(x)) \in Nat /\ Cardinality(TrashRefs(x)) \in Nat
          /\ Cardinality(ArgumentRefs(x)) \in Nat
      BY <2>1, FS_CardinalityType
    <2>4. /\ IsFiniteSet(HandleRefs(x)')
          /\ Cardinality(HandleRefs(x)') = Cardinality(HandleRefs(x)) - (IF x = p THEN 1 ELSE 0)
      <3>1. HandleRefs(x)' = HandleRefs(x) \ {o} /\ (o \in HandleRefs(x) <=> x = p)
        BY <1>19
      <3>2. /\ IsFiniteSet(HandleRefs(x) \ {o})
            /\ o \in HandleRefs(x) => Cardinality(HandleRefs(x) \ {o}) = Cardinality(HandleRefs(x)) - 1
            /\ o \notin HandleRefs(x) => HandleRefs(x) \ {o} = HandleRefs(x)
        BY <2>1, OneMore
      <3>3. /\ IsFiniteSet(HandleRefs(x)')
            /\ Cardinality(HandleRefs(x)') = Cardinality(HandleRefs(x) \ {o})
        BY <3>1, <3>2, Zenon
      <3>4. x # p => Cardinality(HandleRefs(x) \ {o}) = Cardinality(HandleRefs(x))
        BY <3>1, <3>2, Zenon
      <3> QED
        BY <2>3, <3>1, <3>2, <3>3, <3>4
    <2>5. refs'[x] = Cardinality(HandleRefs(x)') + Cardinality(TrashRefs(x)')
                     + 2 * Cardinality(ArgumentRefs(x)')
      BY <1>14, <1>21, <1>22, <2>2, <2>3, <2>4
    <2>6. state'[x] = "alive" <=> refs'[x] > 0
      BY <1>0, <1>8, <1>13, <1>14, <2>1
    <2>7. state'[x] = "none" => ptr'[x] = Null
      BY <1>10, <1>14, <2>2
    <2> QED
      BY <2>4, <2>5, <2>6, <2>7
  <1>24. PtrTypeOK'
    BY <1>10, <1>12 DEF PtrTypeOK
  (* An object that supports an assignment has a reference beside this one.  *)
  <1>25. ASSUME NEW i \in 1 .. n - 1, Assigns(i), frames[i].handle \in Objects,
                NEW S \in SUBSET Objects, Supports(S, i), p \in S
         PROVE  ~dies
    <2> SUFFICES ASSUME dies PROVE FALSE
      OBVIOUS
    <2>1. p \in Objects /\ refs[p] = 1 /\ o \in HandleRefs(p)
      BY <1>0, <1>8, <1>13
    <2>2. refs'[p] = 0
      BY <1>11, <1>14, <2>1
    <2>3. IsFiniteSet(TrashRefs(p)) /\ IsFiniteSet(ArgumentRefs(p)) /\ IsFiniteSet(HandleRefs(p))
      BY <2>1, Counts
    <2>4. IsFiniteSet(HandleRefs(p) \ {o})
      BY <2>3, OneMore
    <2>5. 0 = Cardinality(HandleRefs(p) \ {o}) + Cardinality(TrashRefs(p))
              + 2 * Cardinality(ArgumentRefs(p))
      <3>1. refs[p] = Cardinality(HandleRefs(p)) + Cardinality(TrashRefs(p))
                      + 2 * Cardinality(ArgumentRefs(p))
        BY <2>1 DEF CountInv
      <3>2. Cardinality(HandleRefs(p) \ {o}) = Cardinality(HandleRefs(p)) - 1
        BY <2>1, <2>3, OneMore
      <3>3. Cardinality(HandleRefs(p)) \in Nat /\ Cardinality(TrashRefs(p)) \in Nat
            /\ Cardinality(ArgumentRefs(p)) \in Nat
        BY <2>3, FS_CardinalityType
      <3> QED
        BY <2>1, <3>1, <3>2, <3>3
    <2>6. HandleRefs(p) \ {o} = {} /\ TrashRefs(p) = {} /\ ArgumentRefs(p) = {}
      BY <2>3, <2>4, <2>5, Counted
    <2>7. CASE HeldBelow(i, p)
      <3>1. CASE \E g \in Roots : ptr[g] = p /\ Holds(g)
        BY <1>0, <1>4, <2>6, <3>1 DEF HandleRefs
      <3>2. CASE \E j \in 1 .. i - 1 : Assigns(j) /\ frames[j].to = p
        <4>1. \A j \in 1 .. i - 1 : j \in 1 .. n
          BY <1>2
        <4> QED
          BY <1>2, <2>6, <3>2, <4>1 DEF ArgumentRefs
      <3>3. CASE \E j \in 1 .. i - 1 : frames[j].op = "delete" /\ ptr[frames[j].object] = p
        <4>1. PICK j \in 1 .. i - 1 : frames[j].op = "delete" /\ ptr[frames[j].object] = p
          BY <3>3
        <4>2. j \in DOMAIN frames /\ j # n
          BY <1>2
        <4>3. Destroys(j)
          BY <4>1 DEF Destroys
        <4>4. PICK q : q = frames[j].object
          OBVIOUS
        <4>5. q \in Objects /\ q # o /\ state[q] = "dying"
          BY <1>1, <1>2, <1>4, <4>2, <4>3, <4>4, FrameTypes DEF FramesInv
        <4>6. Holds(q)
          <5> SUFFICES ASSUME NEW k \in DOMAIN frames
                       PROVE  /\ Assigns(k) => frames[k].handle # q
                              /\ frames[k].op = "free" => frames[k].object # q
            BY DEF Holds
          <5>1. Assigns(k) => frames[k].handle # q
            BY <4>5 DEF FramesInv
          <5>2. ASSUME frames[k].op = "free" PROVE frames[k].object # q
            <6>1. Destroys(k) /\ k # j
              BY <4>1, <5>2 DEF Destroys
            <6> QED
              BY <4>2, <4>3, <4>4, <6>1 DEF FramesInv
          <5> QED
            BY <5>1, <5>2
        <4>7. q \in HandleRefs(p)
          BY <1>0, <4>1, <4>4, <4>5, <4>6 DEF HandleRefs
        <4> QED
          BY <2>6, <4>5, <4>7
      <3> QED
        BY <2>6, <2>7, <3>1, <3>2, <3>3 DEF HeldBelow
    <2>8. ASSUME NEW q \in S \ {frames[i].handle}, ptr[q] = p PROVE FALSE
      <3>1. state[q] = "alive" /\ Holds(q) /\ q \in Objects
        BY <1>25 DEF Supports
      <3>2. q \in HandleRefs(p) /\ q # o
        BY <1>0, <1>4, <2>8, <3>1 DEF HandleRefs
      <3> QED
        BY <2>6, <3>2
    <2> QED
      BY <1>25, <2>7, <2>8 DEF Supports
  <1>26. \A i \in 1 .. n - 1 : Assigns(i) /\ frames[i].handle \in Objects =>
           /\ state'[frames[i].handle] = "alive"
           /\ frames[i].to # Null => frames[i].handle < frames[i].to
    <2> SUFFICES ASSUME NEW i \in 1 .. n - 1, Assigns(i), frames[i].handle \in Objects
                 PROVE  /\ state'[frames[i].handle] = "alive"
                        /\ frames[i].to # Null => frames[i].handle < frames[i].to
      OBVIOUS
    <2>1. i \in DOMAIN frames
      BY <1>2, <1>3
    <2>2. /\ state[frames[i].handle] = "alive"
          /\ frames[i].to # Null => frames[i].handle < frames[i].to
      BY <2>1 DEF FramesInv
    <2>3. PICK S \in SUBSET Objects : Supports(S, i)
      BY <2>1 DEF SupportInv
    <2>4. frames[i].handle \in S
      BY <2>3 DEF Supports
    <2>5. frames[i].handle = p => ~dies
      BY <1>25, <2>3, <2>4
    <2> QED
      BY <1>14, <2>2, <2>5
  <1>27. \A x \in Objects : state[x] = "dying" => state'[x] = "dying"
    BY <1>14
  <1>28. FramesInv'
    <2>1. ASSUME NEW i \in DOMAIN frames'
          PROVE  /\ Assigns(i)' /\ frames'[i].handle \in Objects =>
                      /\ state'[frames'[i].handle] = "alive"
                      /\ frames'[i].to # Null => frames'[i].handle < frames'[i].to
                 /\ Destroys(i)' => state'[frames'[i].object] = "dying"
                 /\ frames'[i].op \in {"collect", "erase"} => i = 1
                 /\ frames'[i].op = "erase" => frames'[i].next \in DOMAIN trash'
      <3>1. CASE i \in 1 .. n - 1
        <4>1. i \in DOMAIN frames
          BY <1>2, <1>3, <3>1
        <4>2. Destroys(i) => frames[i].object \in Objects /\ state'[frames[i].object] = "dying"
          BY <1>27, <4>1, FrameTypes DEF FramesInv
        <4>3. /\ frames[i].op \in {"collect", "erase"} => i = 1
              /\ frames[i].op = "erase" => frames[i].next \in DOMAIN trash'
          BY <1>10, <4>1 DEF FramesInv
        <4> QED
          BY <1>15, <1>16, <1>26, <3>1, <4>2, <4>3
      <3>2. CASE i = n
        BY <1>3, <1>4, <1>15, <1>17, <1>27, <3>2
      <3>3. CASE i \notin 1 .. n - 1 /\ i # n
        <4>1. dies /\ frames'[i].object = p
          BY <1>15, <3>3
        <4>2. state'[p] = "dying"
          BY <1>13, <1>14, <4>1
        <4> QED
          BY <1>17, <3>3, <4>1, <4>2
      <3> QED
        BY <3>1, <3>2, <3>3
    <2>2. ASSUME NEW i \in DOMAIN frames', NEW j \in DOMAIN frames', i # j, Assigns(i)', Assigns(j)'
          PROVE  frames'[i].handle # frames'[j].handle
      <3>1. i \in 1 .. n - 1 /\ j \in 1 .. n - 1
        BY <1>17, <2>2
      <3> QED
        BY <1>2, <1>3, <1>15, <1>16, <2>2, <3>1 DEF FramesInv
    <2>3. ASSUME NEW i \in DOMAIN frames', NEW j \in DOMAIN frames', i # j, Destroys(i)', Destroys(j)'
          PROVE  frames'[i].object # frames'[j].object
      <3>1. \A k \in 1 .. n - 1 : Destroys(k) => frames[k].object # o
        BY <1>1, <1>2, <1>3, <1>4 DEF FramesInv
      <3>2. dies => p # o /\ state[p] = "alive"
        BY <1>0, <1>4, <1>8, <1>13
      <3>3. dies => \A k \in 1 .. n - 1 : Destroys(k) => frames[k].object # p
        BY <1>2, <1>3, <3>2 DEF FramesInv
      <3>4. CASE i \in 1 .. n - 1 /\ j \in 1 .. n - 1
        BY <1>2, <1>3, <1>15, <1>16, <2>3, <3>4 DEF FramesInv
      <3> QED
        BY <1>15, <1>16, <2>3, <3>1, <3>2, <3>3, <3>4
    <2>4. ASSUME NEW x \in Objects, state'[x] = "dying"
          PROVE  \E i \in DOMAIN frames' : Destroys(i)' /\ frames'[i].object = x
      <3>1. CASE x = p /\ dies
        BY <1>15, <3>1 DEF Destroys
      <3>2. CASE ~(x = p /\ dies)
        <4>1. state[x] = "dying"
          BY <1>14, <2>4, <3>2
        <4>2. PICK i \in DOMAIN frames : Destroys(i) /\ frames[i].object = x
          BY <4>1 DEF FramesInv
        <4>3. CASE i \in 1 .. n - 1
          BY <1>15, <1>16, <4>2, <4>3
        <4>4. CASE i = n
          BY <1>1, <1>3, <1>15, <1>17, <4>2, <4>4
        <4> QED
          BY <1>2, <1>3, <4>3, <4>4
      <3> QED
        BY <3>1, <3>2
    <2> QED
      BY <2>1, <2>2, <2>3, <2>4 DEF FramesInv
  <1>29. SupportInv'
    <2> SUFFICES ASSUME NEW i \in DOMAIN frames', Assigns(i)', frames'[i].handle \in Objects
                 PROVE  \E S \in SUBSET Objects : Supports(S, i)'
      BY DEF SupportInv
    <2>1. i \in 1 .. n - 1
      BY <1>17
    <2>2. i \in DOMAIN frames /\ Assigns(i) /\ frames[i].handle \in Objects /\ i \in Nat \ {0}
      BY <1>2, <1>3, <1>15, <1>16, <2>1
    <2>3. PICK S \in SUBSET Objects : Supports(S, i)
      BY <2>2 DEF SupportInv
    <2>4. \A j \in 1 .. i : frames'[j] = frames[j]
      BY <1>2, <1>15, <2>1
    <2>5. ASSUME NEW s \in S
          PROVE  /\ state'[s] = "alive"
                 /\ s # frames[i].handle => ptr'[s] = ptr[s] /\ Holds(s)'
                 /\ TrashRefs(s) # {} => TrashRefs(s)' # {}
      <3>1. state[s] = "alive" /\ (s # frames[i].handle => Holds(s))
        BY <2>3 DEF Supports
      <3>2. s = p => ~dies
        BY <1>25, <2>1, <2>2, <2>3
      <3>3. TrashRefs(s)' = TrashRefs(s)
        BY <1>21
      <3> QED
        BY <1>4, <1>10, <1>14, <1>18, <3>1, <3>2, <3>3
    <2>6. \A g \in Roots : ptr[g] \in S /\ Holds(g) => ptr'[g] = ptr[g] /\ Holds(g)'
      BY <1>0, <1>4, <1>10, <1>18
    <2>7. \A j \in 1 .. i - 1 : frames[j].op = "delete" =>
            ptr'[frames[j].object] = ptr[frames[j].object]
      BY <1>10
    <2>8. Supports(S, i)'
      BY ONLY <2>2, <2>3, <2>4, <2>5, <2>6, <2>7, SupportKept
    <2> QED
      BY <2>8
  <1> QED
    BY <1>23, <1>24, <1>28, <1>29

LEMMA FreeObjectStep ==
  ASSUME PtrIInv, FreeObject
  PROVE  PtrIInv'
  <1> USE DEF PtrIInv
  <1>0. Null \notin Objects /\ Objects \subseteq Handles /\ Roots \subseteq Handles
        /\ Roots \cap Objects = {}
    BY ObjectPtrAssumption DEF Objects, Handles
  <1>1. PICK n, o : n = Len(frames) /\ o = frames[n].object
    OBVIOUS
  <1>2. /\ n \in Nat \ {0} /\ n \in DOMAIN frames /\ DOMAIN frames = 1 .. n /\ frames # <<>>
        /\ frames[n].op = "free" /\ Last(frames) = frames[n]
    <2>1. frames # <<>> /\ Last(frames).op = "free"
      BY DEF FreeObject, Top
    <2> QED
      BY <1>1, <2>1, FrameTypes, TopGone
  <1>3. /\ \A i \in 1 .. n - 1 : i \in 1 .. n /\ i # n /\ i \in Nat
        /\ \A i \in 1 .. n : i \in 1 .. n - 1 \/ i = n
    BY <1>2
  <1>4. Destroys(n) /\ ~Assigns(n) /\ o \in Objects /\ o \in Handles /\ state[o] = "dying"
    <2>1. Destroys(n) /\ ~Assigns(n)
      BY <1>2 DEF Destroys, Assigns
    <2> QED
      BY <1>0, <1>1, <1>2, <2>1, FrameTypes DEF FramesInv
  <1>5. /\ state' = [state EXCEPT ![o] = "none"] /\ ptr' = [ptr EXCEPT ![o] = Null]
        /\ refs' = [refs EXCEPT ![o] = 0] /\ frames' = Front(frames)
        /\ trash' = trash /\ connected' = connected
    BY <1>1, <1>2 DEF FreeObject
  <1>6. /\ frames' \in Seq(PtrFrames) /\ DOMAIN frames' = 1 .. n - 1
        /\ \A i \in 1 .. n - 1 : frames'[i] = frames[i]
    BY <1>1, <1>2, <1>5, TopGone
  <1>7. /\ refs' = refs
        /\ state' \in [Objects -> {"none", "alive", "dying"}]
        /\ \A x \in Objects : state'[x] = IF x = o THEN "none" ELSE state[x]
        /\ ptr' \in [Handles -> Objects \cup {Null}]
        /\ \A g \in Handles : ptr'[g] = IF g = o THEN Null ELSE ptr[g]
    <2>1. refs[o] = 0
      BY <1>4, Counts
    <2> QED
      BY <1>4, <1>5, <2>1 DEF PtrTypeOK
  <1>8. \A i \in 1 .. n - 1 : (Assigns(i)' <=> Assigns(i)) /\ (Destroys(i)' <=> Destroys(i))
    BY <1>6 DEF Assigns, Destroys
  (* No other frame is about o: its handle holds no longer.                  *)
  <1>9. \A i \in 1 .. n - 1 : /\ Assigns(i) => frames[i].handle # o
                              /\ Destroys(i) => frames[i].object # o
    <2>1. ASSUME NEW i \in 1 .. n - 1, Assigns(i) PROVE frames[i].handle # o
      BY <1>2, <1>3, <1>4, <2>1 DEF FramesInv
    <2>2. ASSUME NEW i \in 1 .. n - 1, Destroys(i) PROVE frames[i].object # o
      <3>1. i \in DOMAIN frames /\ n \in DOMAIN frames /\ i # n
        BY <1>2, <1>3
      <3>2. frames[i].object # frames[n].object
        BY ONLY FramesInv, <1>4, <2>2, <3>1 DEF FramesInv
      <3> QED
        BY <1>1, <1>2, <3>2
    <2> QED
      BY <2>1, <2>2
  <1>10. ~Holds(o)
    BY <1>1, <1>2 DEF Holds
  <1>11. \A g : g # o => (Holds(g)' <=> Holds(g))
    <2>1. ASSUME NEW g, Holds(g) PROVE Holds(g)'
      BY <1>2, <1>3, <1>6, <1>8, <2>1 DEF Holds
    <2>2. ASSUME NEW g, Holds(g)', g # o PROVE Holds(g)
      <3> SUFFICES ASSUME NEW i \in DOMAIN frames
                   PROVE  /\ Assigns(i) => frames[i].handle # g
                          /\ frames[i].op = "free" => frames[i].object # g
        BY DEF Holds
      <3>1. CASE i \in 1 .. n - 1
        BY <1>6, <1>8, <2>2, <3>1 DEF Holds
      <3>2. CASE i = n
        BY <1>1, <1>4, <2>2, <3>2
      <3> QED
        BY <1>2, <1>3, <3>1, <3>2
    <2> QED
      BY <2>1, <2>2
  <1>12. ASSUME NEW x \in Objects PROVE HandleRefs(x)' = HandleRefs(x)
    BY <1>0, <1>7, <1>10, <1>11 DEF HandleRefs
  <1>13. \A k : Erasing(k)' <=> Erasing(k)
    BY <1>2, <1>3, <1>6 DEF Erasing
  <1>14. ASSUME NEW x \in Objects PROVE TrashRefs(x)' = TrashRefs(x)
    BY <1>5, <1>13 DEF TrashRefs
  <1>15. ASSUME NEW x \in Objects PROVE ArgumentRefs(x)' = ArgumentRefs(x)
    BY <1>2, <1>3, <1>4, <1>6, <1>8 DEF ArgumentRefs
  <1>16. CountInv'
    <2> SUFFICES ASSUME NEW x \in Objects
                 PROVE  /\ IsFiniteSet(HandleRefs(x)')
                        /\ refs'[x] = Cardinality(HandleRefs(x)') + Cardinality(TrashRefs(x)')
                                      + 2 * Cardinality(ArgumentRefs(x)')
                        /\ state'[x] = "alive" <=> refs'[x] > 0
                        /\ state'[x] = "none" => ptr'[x] = Null
      BY DEF CountInv
    <2>1. /\ IsFiniteSet(HandleRefs(x))
          /\ refs[x] = Cardinality(HandleRefs(x)) + Cardinality(TrashRefs(x))
                       + 2 * Cardinality(ArgumentRefs(x))
          /\ state[x] = "alive" <=> refs[x] > 0
          /\ state[x] = "none" => ptr[x] = Null
      BY DEF CountInv
    <2>2. state'[x] = "alive" <=> refs'[x] > 0
      BY <1>4, <1>7, <2>1
    <2>3. state'[x] = "none" => ptr'[x] = Null
      BY <1>0, <1>7, <2>1
    <2>4. HandleRefs(x)' = HandleRefs(x) /\ TrashRefs(x)' = TrashRefs(x)
          /\ ArgumentRefs(x)' = ArgumentRefs(x) /\ refs' = refs
      BY <1>7, <1>12, <1>14, <1>15
    <2> QED
      BY <2>1, <2>2, <2>3, <2>4
  <1>17. PtrTypeOK'
    BY <1>0, <1>5, <1>6, <1>7 DEF PtrTypeOK
  <1>18. FramesInv'
    <2>1. ASSUME NEW x \in Objects, state'[x] = "dying"
          PROVE  \E i \in DOMAIN frames' : Destroys(i)' /\ frames'[i].object = x
      <3>1. PICK i \in DOMAIN frames : Destroys(i) /\ frames[i].object = x
        BY <1>7, <2>1 DEF FramesInv
      <3>2. i # n
        BY <1>1, <1>7, <2>1, <3>1
      <3> QED
        BY <1>2, <1>3, <1>6, <1>8, <3>1, <3>2
    <2>2. \A i \in DOMAIN frames' : i \in DOMAIN frames /\ frames'[i] = frames[i]
            /\ (Assigns(i)' <=> Assigns(i)) /\ (Destroys(i)' <=> Destroys(i))
      BY <1>2, <1>3, <1>6, <1>8
    <2>3. ASSUME NEW i \in DOMAIN frames'
          PROVE  /\ Assigns(i) /\ frames[i].handle \in Objects =>
                      state'[frames[i].handle] = "alive"
                 /\ Destroys(i) => state'[frames[i].object] = "dying"
      BY <1>6, <1>7, <1>9, <2>2, FrameTypes DEF FramesInv
    <2> QED
      BY <1>5, <2>1, <2>2, <2>3 DEF FramesInv
  <1>19. SupportInv'
    <2> SUFFICES ASSUME NEW i \in DOMAIN frames', Assigns(i)', frames'[i].handle \in Objects
                 PROVE  \E S \in SUBSET Objects : Supports(S, i)'
      BY DEF SupportInv
    <2>1. i \in 1 .. n - 1 /\ i \in DOMAIN frames /\ Assigns(i) /\ frames[i].handle \in Objects
          /\ i \in Nat \ {0}
      BY <1>2, <1>3, <1>6, <1>8
    <2>2. PICK S \in SUBSET Objects : Supports(S, i)
      BY <2>1 DEF SupportInv
    <2>3. \A j \in 1 .. i : j \in 1 .. n - 1 /\ frames'[j] = frames[j] /\ j \in DOMAIN frames
      BY <1>2, <1>3, <1>6, <2>1
    <2>4. ASSUME NEW s \in S
          PROVE  /\ state'[s] = "alive"
                 /\ s # frames[i].handle => ptr'[s] = ptr[s] /\ Holds(s)'
                 /\ TrashRefs(s) # {} => TrashRefs(s)' # {}
      <3>1. state[s] = "alive" /\ (s # frames[i].handle => Holds(s))
        BY <2>2 DEF Supports
      <3>2. s # o
        BY <1>4, <3>1
      <3> QED
        BY <1>0, <1>7, <1>11, <1>14, <3>1, <3>2
    <2>5. \A r \in Roots : ptr[r] \in S /\ Holds(r) => ptr'[r] = ptr[r] /\ Holds(r)'
      BY <1>0, <1>4, <1>7, <1>11
    <2>6. ASSUME NEW j \in 1 .. i - 1, frames[j].op = "delete"
          PROVE  ptr'[frames[j].object] = ptr[frames[j].object]
      <3>1. j \in 1 .. i
        BY <2>1
      <3>2. Destroys(j) /\ j \in DOMAIN frames /\ j \in 1 .. n - 1
        BY <2>3, <2>6, <3>1 DEF Destroys
      <3>3. frames[j].object \in Objects /\ frames[j].object # o
        BY <1>9, <3>2, FrameTypes
      <3> QED
        BY <1>0, <1>7, <3>3
    <2>7. \A j \in 1 .. i : frames'[j] = frames[j]
      BY <2>3
    <2>8. Supports(S, i)'
      BY ONLY <2>1, <2>2, <2>4, <2>5, <2>6, <2>7, SupportKept
    <2> QED
      BY <2>8
  <1> QED
    BY <1>16, <1>17, <1>18, <1>19

LEMMA CallAddStep ==
  ASSUME PtrIInv, NEW h \in Handles, CallAdd(h)
  PROVE  PtrIInv'
  <1> USE DEF PtrIInv
  <1>0. Null \notin Objects
    BY ObjectPtrAssumption DEF Objects
  <1>1. PICK o, m : o = ptr[h] /\ m = Len(trash)
    OBVIOUS
  <1>2. /\ o \in Objects /\ refs[o] \in Nat \ {0} /\ state[o] = "alive"
        /\ trash' = Append(trash, o) /\ refs' = Ref(refs, o) /\ connected' \in BOOLEAN
        /\ ptr' = ptr /\ state' = state /\ frames' = frames
    BY <1>1, UsableHandle DEF CallAdd, PtrTypeOK
  <1>3. /\ trash' \in Seq(Objects) /\ m \in Nat /\ DOMAIN trash = 1 .. m /\ DOMAIN trash' = 1 .. m + 1
        /\ \A i \in 1 .. m : trash'[i] = trash[i]
        /\ trash'[m + 1] = o
    BY <1>1, <1>2, AppendProperties, LenProperties DEF PtrTypeOK
  <1>4. /\ \A i \in 1 .. m : i \in 1 .. m + 1
        /\ \A i \in 1 .. m + 1 : i \in 1 .. m \/ i = m + 1
        /\ m + 1 \notin 1 .. m /\ m + 1 \in 1 .. m + 1
    BY <1>3
  <1>5. /\ refs' \in [Objects -> Int]
        /\ \A x \in Objects : refs'[x] = refs[x] + (IF x = o THEN 1 ELSE 0)
    BY <1>0, <1>2 DEF Ref, PtrTypeOK
  <1>6. /\ \A g : Holds(g)' <=> Holds(g)
        /\ \A i : (Assigns(i)' <=> Assigns(i)) /\ (Destroys(i)' <=> Destroys(i))
        /\ \A k : Erasing(k)' <=> Erasing(k)
    BY <1>2 DEF Holds, Assigns, Destroys, Erasing
  <1>7. ASSUME NEW x \in Objects
        PROVE  HandleRefs(x)' = HandleRefs(x) /\ ArgumentRefs(x)' = ArgumentRefs(x)
    BY <1>2, <1>6 DEF HandleRefs, ArgumentRefs
  <1>8. ~Erasing(m + 1)
    BY <1>3, <1>4 DEF Erasing, FramesInv
  <1>9. ASSUME NEW x \in Objects
        PROVE  /\ m + 1 \notin TrashRefs(x)
               /\ TrashRefs(x)' = IF x = o THEN TrashRefs(x) \cup {m + 1} ELSE TrashRefs(x)
    <2>1. m + 1 \notin TrashRefs(x)
      BY <1>3, <1>4 DEF TrashRefs
    <2>2. \A i \in 1 .. m + 1 : i \in TrashRefs(x)' <=> i \in TrashRefs(x) \/ (i = m + 1 /\ x = o)
      BY <1>3, <1>4, <1>6, <1>8 DEF TrashRefs
    <2>3. TrashRefs(x)' \subseteq 1 .. m + 1 /\ TrashRefs(x) \subseteq 1 .. m + 1
      BY <1>3, <1>4 DEF TrashRefs
    <2> QED
      BY <1>4, <2>1, <2>2, <2>3
  <1>10. CountInv'
    <2> SUFFICES ASSUME NEW x \in Objects
                 PROVE  /\ IsFiniteSet(HandleRefs(x)')
                        /\ refs'[x] = Cardinality(HandleRefs(x)') + Cardinality(TrashRefs(x)')
                                      + 2 * Cardinality(ArgumentRefs(x)')
                        /\ state'[x] = "alive" <=> refs'[x] > 0
                        /\ state'[x] = "none" => ptr'[x] = Null
      BY DEF CountInv
    <2>1. /\ refs[x] \in Nat /\ (state[x] = "alive" <=> refs[x] > 0)
          /\ IsFiniteSet(HandleRefs(x)) /\ IsFiniteSet(TrashRefs(x)) /\ IsFiniteSet(ArgumentRefs(x))
      BY Counts
    <2>2. /\ refs[x] = Cardinality(HandleRefs(x)) + Cardinality(TrashRefs(x))
                       + 2 * Cardinality(ArgumentRefs(x))
          /\ state[x] = "none" => ptr[x] = Null
      BY DEF CountInv
    <2>3. /\ Cardinality(HandleRefs(x)) \in Nat /\ Cardinality(TrashRefs(x)) \in Nat
          /\ Cardinality(ArgumentRefs(x)) \in Nat
      BY <2>1, FS_CardinalityType
    <2>4. Cardinality(TrashRefs(x)') = Cardinality(TrashRefs(x)) + (IF x = o THEN 1 ELSE 0)
      BY <1>9, <2>1, <2>3, OneMore
    <2>5. IsFiniteSet(HandleRefs(x)') /\ Cardinality(HandleRefs(x)') = Cardinality(HandleRefs(x))
          /\ Cardinality(ArgumentRefs(x)') = Cardinality(ArgumentRefs(x))
      BY <1>7, <2>1
    <2>6. refs'[x] = Cardinality(HandleRefs(x)') + Cardinality(TrashRefs(x)')
                     + 2 * Cardinality(ArgumentRefs(x)')
      BY <1>5, <2>2, <2>3, <2>4, <2>5
    <2>7. state'[x] = "alive" <=> refs'[x] > 0
      BY <1>2, <1>5, <2>1
    <2> QED
      BY <1>2, <2>2, <2>5, <2>6, <2>7
  <1>11. PtrTypeOK'
    BY <1>2, <1>3, <1>5 DEF PtrTypeOK
  <1>12. FramesInv'
    <2>1. \A i \in DOMAIN trash : i \in DOMAIN trash'
      BY <1>3, <1>4
    <2> QED
      BY <1>2, <1>6, <2>1 DEF FramesInv
  <1>13. SupportInv'
    <2> SUFFICES ASSUME NEW i \in DOMAIN frames', Assigns(i)', frames'[i].handle \in Objects
                 PROVE  \E S \in SUBSET Objects : Supports(S, i)'
      BY DEF SupportInv
    <2>1. i \in DOMAIN frames /\ Assigns(i) /\ frames[i].handle \in Objects /\ i \in Nat \ {0}
      BY <1>2, <1>6, FrameTypes
    <2>2. PICK S \in SUBSET Objects : Supports(S, i)
      BY <2>1 DEF SupportInv
    <2>3. ASSUME NEW s \in S
          PROVE  /\ state'[s] = "alive"
                 /\ s # frames[i].handle => ptr'[s] = ptr[s] /\ Holds(s)'
                 /\ TrashRefs(s) # {} => TrashRefs(s)' # {}
      BY <1>2, <1>6, <1>9, <2>2 DEF Supports
    <2>4. \A r \in Roots : ptr[r] \in S /\ Holds(r) => ptr'[r] = ptr[r] /\ Holds(r)'
      BY <1>2, <1>6
    <2>5. \A j \in 1 .. i - 1 : frames[j].op = "delete" =>
            ptr'[frames[j].object] = ptr[frames[j].object]
      BY <1>2
    <2>6. \A j \in 1 .. i : frames'[j] = frames[j]
      BY <1>2
    <2>7. Supports(S, i)'
      BY ONLY <2>1, <2>2, <2>3, <2>4, <2>5, <2>6, SupportKept
    <2> QED
      BY <2>7
  <1> QED
    BY <1>10, <1>11, <1>12, <1>13

(* A list without its entry i. *)
LEMMA EntryRemoved ==
  ASSUME NEW S, NEW s \in Seq(S), NEW i \in 1 .. Len(s)
  PROVE  /\ RemoveAt(s, i) \in Seq(S) /\ Len(RemoveAt(s, i)) = Len(s) - 1
         /\ \A k \in 1 .. Len(s) - 1 : RemoveAt(s, i)[k] = s[IF k < i THEN k ELSE k + 1]
  BY EntryCutOut DEF RemoveAt

(* It has the others, one place earlier behind i. *)
Places(s, x) == {k \in DOMAIN s : s[k] = x}

LEMMA OthersRemain ==
  ASSUME NEW S, NEW s \in Seq(S), NEW i \in 1 .. Len(s), NEW x, IsFiniteSet(Places(s, x) \ {i})
  PROVE  Cardinality(Places(RemoveAt(s, i), x)) = Cardinality(Places(s, x) \ {i})
  <1> DEFINE before == Places(s, x) \ {i}
             t == RemoveAt(s, i)
             after == Places(t, x)
             f == [k \in before |-> IF k < i THEN k ELSE k - 1]
  <1>1. PICK n \in Nat : n = Len(s)
    BY LenProperties
  <1>2. /\ DOMAIN t = 1 .. n - 1 /\ DOMAIN s = 1 .. n /\ i \in 1 .. n
        /\ \A k \in 1 .. n - 1 : t[k] = s[IF k < i THEN k ELSE k + 1]
    <2>1. /\ t \in Seq(S) /\ Len(t) = n - 1
          /\ \A k \in 1 .. n - 1 : t[k] = s[IF k < i THEN k ELSE k + 1]
      BY <1>1, EntryRemoved
    <2> HIDE DEF t
    <2> QED
      BY <1>1, <2>1, LenProperties
  <1> HIDE DEF t
  <1>2a. /\ \A k : k \in before <=> k \in 1 .. n /\ s[k] = x /\ k # i
         /\ \A k : k \in after <=> k \in 1 .. n - 1 /\ t[k] = x
    BY <1>2 DEF Places
  <1> HIDE DEF before, after
  <1>3. ASSUME NEW k \in before PROVE f[k] \in after
    <2>1. k \in 1 .. n /\ k # i /\ s[k] = x /\ f[k] = IF k < i THEN k ELSE k - 1
      BY <1>2a
    <2>2. f[k] \in 1 .. n - 1 /\ k = IF f[k] < i THEN f[k] ELSE f[k] + 1
      BY <1>1, <1>2, <2>1
    <2> QED
      BY <1>2, <1>2a, <2>1, <2>2
  <1>4. ASSUME NEW k \in before, NEW l \in before, f[k] = f[l] PROVE k = l
    <2>1. k \in 1 .. n /\ k # i /\ l \in 1 .. n /\ l # i
      BY <1>2a
    <2> QED
      BY <1>2, <1>4, <2>1
  <1>5. ASSUME NEW k \in after PROVE \E l \in before : f[l] = k
    <2>1. k \in 1 .. n - 1 /\ t[k] = x
      BY <1>2a
    <2>2. PICK l : l = IF k < i THEN k ELSE k + 1
      OBVIOUS
    <2>3. l \in 1 .. n /\ l # i /\ k = IF l < i THEN l ELSE l - 1
      BY <1>1, <1>2, <2>1, <2>2
    <2>4. l \in before
      BY <1>2, <1>2a, <2>1, <2>2, <2>3
    <2> QED
      BY <2>3, <2>4
  <1>6. f \in [before -> after]
    BY <1>3
  <1> HIDE DEF f
  <1>7. f \in Bijection(before, after)
    BY <1>4, <1>5, <1>6, Fun_IsBij
  <1>8. ExistsBijection(before, after)
    BY <1>7 DEF ExistsBijection
  <1>9. IsFiniteSet(before)
    BY DEF before
  <1>10. Cardinality(after) = Cardinality(before)
    BY <1>8, <1>9, FS_Bijection
  <1> QED
    BY <1>10 DEF before, after, t

(* The frames of a stack with the collector on top. *)
CollectorOnly(op) == Len(frames) = 1 /\ DOMAIN frames = {1} /\ frames[1].op = op

LEMMA CollectorOnTop ==
  ASSUME PtrIInv, NEW op \in {"collect", "erase"}, Top(op)
  PROVE  /\ CollectorOnly(op) /\ Last(frames) = frames[1] /\ Front(frames) = <<>>
         /\ frames[1].next \in Nat \ {0}
         /\ \A x \in Objects : state[x] # "dying"
  <1> USE DEF PtrIInv
  <1>1. PICK n : n = Len(frames)
    OBVIOUS
  <1>2. frames # <<>> /\ Last(frames).op = op
    BY DEF Top
  <1>3. n \in DOMAIN frames /\ Last(frames) = frames[n] /\ DOMAIN frames = 1 .. n
        /\ Front(frames) \in Seq(PtrFrames) /\ Len(Front(frames)) = n - 1
    BY <1>1, <1>2, FrameTypes, TopGone
  <1>4. n = 1
    BY <1>2, <1>3 DEF FramesInv
  <1>5. DOMAIN frames = {1} /\ Front(frames) = <<>>
    BY <1>3, <1>4, EmptySeq
  <1>6. ~Destroys(1) /\ frames[1].next \in Nat \ {0}
    BY <1>2, <1>3, <1>4, FrameTypes DEF Destroys
  <1>7. \A x \in Objects : state[x] # "dying"
    BY <1>5, <1>6 DEF FramesInv
  <1> QED
    BY <1>1, <1>2, <1>3, <1>4, <1>5, <1>6, <1>7 DEF CollectorOnly

(* A step of the collector alone. *)
LEMMA CollectorMoves ==
  ASSUME PtrIInv, UNCHANGED <<ptr, refs, state, trash, connected>>,
         \A i \in DOMAIN frames : frames[i].op = "collect",
         frames' \in Seq(PtrFrames), \A i \in DOMAIN frames' : i = 1 /\ frames'[i].op = "collect"
  PROVE  PtrIInv'
  <1> USE DEF PtrIInv
  <1>1. /\ \A g : Holds(g) /\ Holds(g)'
        /\ \A k : ~Erasing(k) /\ ~Erasing(k)'
        /\ \A i \in DOMAIN frames : ~Assigns(i) /\ ~Destroys(i)
        /\ \A i \in DOMAIN frames' : ~Assigns(i)' /\ ~Destroys(i)'
    BY DEF Holds, Erasing, Assigns, Destroys
  <1>2. ASSUME NEW x \in Objects
        PROVE  HandleRefs(x)' = HandleRefs(x) /\ TrashRefs(x)' = TrashRefs(x)
               /\ ArgumentRefs(x)' = ArgumentRefs(x)
    <2>1. ArgumentRefs(x) = {} /\ ArgumentRefs(x)' = {}
      BY <1>1 DEF ArgumentRefs
    <2>2. HandleRefs(x)' = HandleRefs(x) /\ TrashRefs(x)' = TrashRefs(x)
      BY <1>1 DEF HandleRefs, TrashRefs
    <2> QED
      BY <2>1, <2>2
  <1>3. CountInv'
    BY <1>2 DEF CountInv
  <1>4. PtrTypeOK'
    BY DEF PtrTypeOK
  <1>5. FramesInv'
    BY <1>1 DEF FramesInv
  <1>6. SupportInv'
    BY <1>1 DEF SupportInv
  <1> QED
    BY <1>3, <1>4, <1>5, <1>6

LEMMA CollectCalledStep ==
  ASSUME PtrIInv, CollectCalled
  PROVE  PtrIInv'
  <1>1. PICK f \in PtrFrames : f = [op |-> "collect", next |-> 1] /\ f.op = "collect"
    <2>1. 1 \in Nat \ {0}
      OBVIOUS
    <2> QED
      BY <2>1, FrameKinds
  <1>2. frames = <<>> /\ frames' = <<f>> /\ UNCHANGED <<ptr, refs, state, trash, connected>>
    BY <1>1 DEF CollectCalled
  <1>3. frames' \in Seq(PtrFrames)
    BY <1>2
  <1>4. \A i \in DOMAIN frames' : i = 1 /\ frames'[i].op = "collect"
    BY <1>1, <1>2
  <1>5. \A i \in DOMAIN frames : frames[i].op = "collect"
    BY <1>2
  <1> QED
    BY <1>2, <1>3, <1>4, <1>5, CollectorMoves

(* collect() drops the last reference of entry i. *)
LEMMA EntryDropped ==
  ASSUME PtrIInv, CollectorOnly("collect"), NEW i \in DOMAIN trash, ~Shared(trash[i]),
         \A x \in Objects : state[x] # "dying",
         LetGo(refs, trash[i], Append(<<>>, [op |-> "erase", next |-> i])),
         UNCHANGED <<ptr, trash, connected>>
  PROVE  PtrIInv'
  <1> USE DEF PtrIInv
  <1>0. Null \notin Objects
    BY ObjectPtrAssumption DEF Objects
  <1>1. PICK o, r, fs : /\ o = trash[i] /\ r = refs
                        /\ fs = Append(<<>>, [op |-> "erase", next |-> i])
    OBVIOUS
  <1>2. o \in Objects /\ i \in Nat \ {0} /\ ptr' = ptr /\ trash' = trash /\ connected' = connected
    BY <1>1, ElementOfSeq, LenProperties DEF PtrTypeOK
  <1>3. DOMAIN frames = {1} /\ frames[1].op = "collect" /\ ~Assigns(1) /\ ~Destroys(1)
    BY DEF CollectorOnly, Assigns, Destroys
  <1>4. \A k : ~Erasing(k)
    BY <1>3 DEF Erasing
  <1>5. i \in TrashRefs(o)
    BY <1>1, <1>4 DEF TrashRefs
  <1>6. refs[o] = 1 /\ r[o] = 1 /\ state[o] = "alive"
    <2>1. refs[o] \in Nat /\ refs[o] > 0 /\ state[o] = "alive"
      BY <1>2, <1>5, Counts
    <2>2. ~(refs[o] > 1)
      BY <1>1 DEF Shared
    <2> QED
      BY <1>1, <2>1, <2>2
  <1>7. LetGo(r, o, fs)
    BY <1>1
  <1>8. /\ fs \in Seq(PtrFrames) /\ Len(fs) = 1 /\ fs[1] = [op |-> "erase", next |-> i]
    <2>1. [op |-> "erase", next |-> i] \in PtrFrames
      BY <1>2, FrameKinds
    <2>1a. <<>> \in Seq(PtrFrames)
      BY EmptySeq
    <2>2. fs \in Seq(PtrFrames) /\ Len(fs) = Len(<<>>) + 1
          /\ fs[Len(<<>>) + 1] = [op |-> "erase", next |-> i]
      BY <1>1, <2>1, <2>1a, OnTop
    <2>3. Len(<<>>) = 0
      BY EmptySeq
    <2> QED
      BY <2>2, <2>3
  <1>9. r \in [Objects -> Int] /\ o \in Objects \cup {Null}
        /\ state \in [Objects -> {"none", "alive", "dying"}]
    BY <1>1, <1>2 DEF PtrTypeOK
  <1>10. fs \in Seq(PtrFrames)
    BY <1>8
  <1>11. /\ refs' \in [Objects -> Int] /\ state' \in [Objects -> {"none", "alive", "dying"}]
         /\ \A x \in Objects :
              /\ refs'[x] = IF x = o THEN r[x] - 1 ELSE r[x]
              /\ state'[x] = IF x = o /\ r[x] = 1 THEN "dying" ELSE state[x]
         /\ frames' \in Seq(PtrFrames)
         /\ \A k \in 1 .. Len(fs) : k \in DOMAIN frames' /\ frames'[k] = fs[k]
         /\ \A k \in DOMAIN frames' :
              \/ k \in 1 .. Len(fs)
              \/ /\ k = Len(fs) + 1 /\ o \in Objects /\ r[o] = 1
                 /\ frames'[k] = [op |-> "delete", object |-> o]
         /\ o \in Objects /\ r[o] = 1 =>
              Len(fs) + 1 \in DOMAIN frames' /\ frames'[Len(fs) + 1] = [op |-> "delete", object |-> o]
    BY ONLY <1>7, <1>9, <1>10, LettingGo
  <1>12. /\ \A x \in Objects : /\ refs'[x] = refs[x] - (IF x = o THEN 1 ELSE 0)
                               /\ state'[x] = IF x = o THEN "dying" ELSE state[x]
    BY <1>1, <1>6, <1>9, <1>11
  <1>13. /\ 1 \in DOMAIN frames' /\ frames'[1].op = "erase" /\ frames'[1].next = i
         /\ 2 \in DOMAIN frames' /\ frames'[2].op = "delete" /\ frames'[2].object = o
         /\ \A k \in DOMAIN frames' : k = 1 \/ k = 2
    <2>1. 1 \in 1 .. Len(fs) /\ Len(fs) + 1 = 2 /\ \A k \in 1 .. Len(fs) : k = 1
      BY <1>8
    <2> QED
      BY <1>2, <1>6, <1>8, <1>11, <2>1
  <1>14. /\ ~Assigns(1)' /\ ~Assigns(2)' /\ ~Destroys(1)' /\ Destroys(2)'
    BY <1>13 DEF Assigns, Destroys
  <1>15. \A g : Holds(g) /\ Holds(g)'
    BY <1>3, <1>13, <1>14 DEF Holds
  <1>16. \A k : Erasing(k)' <=> k = i
    BY <1>13 DEF Erasing
  <1>17. ASSUME NEW x \in Objects
         PROVE  /\ HandleRefs(x)' = HandleRefs(x) /\ ArgumentRefs(x)' = {} /\ ArgumentRefs(x) = {}
                /\ TrashRefs(x)' = TrashRefs(x) \ {i} /\ (i \in TrashRefs(x) <=> x = o)
    <2>1. HandleRefs(x)' = HandleRefs(x)
      BY <1>2, <1>15 DEF HandleRefs
    <2>2. ArgumentRefs(x)' = {} /\ ArgumentRefs(x) = {}
      BY <1>3, <1>13, <1>14 DEF ArgumentRefs
    <2>3. TrashRefs(x)' = TrashRefs(x) \ {i} /\ (i \in TrashRefs(x) <=> x = o)
      BY <1>1, <1>2, <1>4, <1>16 DEF TrashRefs
    <2> QED
      BY <2>1, <2>2, <2>3
  <1>18. CountInv'
    <2> SUFFICES ASSUME NEW x \in Objects
                 PROVE  /\ IsFiniteSet(HandleRefs(x)')
                        /\ refs'[x] = Cardinality(HandleRefs(x)') + Cardinality(TrashRefs(x)')
                                      + 2 * Cardinality(ArgumentRefs(x)')
                        /\ state'[x] = "alive" <=> refs'[x] > 0
                        /\ state'[x] = "none" => ptr'[x] = Null
      BY DEF CountInv
    <2>1. /\ refs[x] \in Nat /\ (state[x] = "alive" <=> refs[x] > 0)
          /\ IsFiniteSet(HandleRefs(x)) /\ IsFiniteSet(TrashRefs(x)) /\ IsFiniteSet(ArgumentRefs(x))
      BY Counts
    <2>2. /\ refs[x] = Cardinality(HandleRefs(x)) + Cardinality(TrashRefs(x))
                       + 2 * Cardinality(ArgumentRefs(x))
          /\ state[x] = "none" => ptr[x] = Null
      BY DEF CountInv
    <2>3. /\ Cardinality(HandleRefs(x)) \in Nat /\ Cardinality(TrashRefs(x)) \in Nat
          /\ Cardinality(ArgumentRefs(x)) \in Nat
      BY <2>1, FS_CardinalityType
    <2>4. Cardinality(TrashRefs(x)') = Cardinality(TrashRefs(x)) - (IF x = o THEN 1 ELSE 0)
      <3>1. TrashRefs(x)' = TrashRefs(x) \ {i} /\ (i \in TrashRefs(x) <=> x = o)
        BY <1>17
      <3>2. /\ i \in TrashRefs(x) => Cardinality(TrashRefs(x) \ {i}) = Cardinality(TrashRefs(x)) - 1
            /\ i \notin TrashRefs(x) => TrashRefs(x) \ {i} = TrashRefs(x)
        BY <2>1, OneMore
      <3>3. Cardinality(TrashRefs(x)') = Cardinality(TrashRefs(x) \ {i})
        BY <3>1, Zenon
      <3>4. x # o => Cardinality(TrashRefs(x) \ {i}) = Cardinality(TrashRefs(x))
        BY <3>1, <3>2, Zenon
      <3> QED
        BY <2>3, <3>1, <3>2, <3>3, <3>4
    <2>5. IsFiniteSet(HandleRefs(x)') /\ Cardinality(HandleRefs(x)') = Cardinality(HandleRefs(x))
          /\ Cardinality(ArgumentRefs(x)') = Cardinality(ArgumentRefs(x))
      BY <1>17, <2>1
    <2>6. refs'[x] = Cardinality(HandleRefs(x)') + Cardinality(TrashRefs(x)')
                     + 2 * Cardinality(ArgumentRefs(x)')
      BY <1>12, <2>2, <2>3, <2>4, <2>5
    <2>7. state'[x] = "alive" <=> refs'[x] > 0
      BY <1>6, <1>12, <2>1
    <2> QED
      BY <1>2, <1>12, <2>2, <2>5, <2>6, <2>7
  <1>19. PtrTypeOK'
    BY <1>2, <1>11 DEF PtrTypeOK
  <1>20. FramesInv'
    <2>1. ASSUME NEW x \in Objects, state'[x] = "dying"
          PROVE  \E k \in DOMAIN frames' : Destroys(k)' /\ frames'[k].object = x
      <3>1. x = o
        BY <1>12, <2>1
      <3> QED
        BY <1>13, <1>14, <3>1
    <2>2. state'[o] = "dying"
      BY <1>2, <1>12
    <2> QED
      BY <1>2, <1>13, <1>14, <2>1, <2>2 DEF FramesInv
  <1>21. SupportInv'
    BY <1>13, <1>14 DEF SupportInv
  <1> QED
    BY <1>18, <1>19, <1>20, <1>21

LEMMA CollectEntryStep ==
  ASSUME PtrIInv, CollectEntry
  PROVE  PtrIInv'
  <1> USE DEF PtrIInv
  <1>1. /\ CollectorOnly("collect") /\ Last(frames) = frames[1] /\ Front(frames) = <<>>
        /\ frames[1].next \in Nat \ {0} /\ \A x \in Objects : state[x] # "dying"
    BY CollectorOnTop DEF CollectEntry
  <1>2. PICK i : i = frames[1].next
    OBVIOUS
  <1>3. \A k \in DOMAIN frames : frames[k].op = "collect"
    BY <1>1 DEF CollectorOnly
  <1>4. UNCHANGED <<ptr, trash, connected>>
    BY DEF CollectEntry
  <1>5. DOMAIN trash = 1 .. Len(trash) /\ Len(trash) \in Nat
    BY LenProperties DEF PtrTypeOK
  <1>6. CASE i > Len(trash)
    <2>1. frames' = <<>> /\ UNCHANGED <<refs, state>>
      BY <1>1, <1>2, <1>6 DEF CollectEntry
    <2>2. frames' \in Seq(PtrFrames) /\ \A k \in DOMAIN frames' : k = 1 /\ frames'[k].op = "collect"
      BY <2>1
    <2> QED
      BY <1>3, <1>4, <2>1, <2>2, CollectorMoves
  <1>7. CASE ~(i > Len(trash)) /\ Shared(trash[i])
    <2>1. PICK f \in PtrFrames : f = [op |-> "collect", next |-> i + 1] /\ f.op = "collect"
      <3>1. i + 1 \in Nat \ {0}
        BY <1>1, <1>2
      <3> QED
        BY <3>1, FrameKinds
    <2>2. frames' = Append(<<>>, f) /\ UNCHANGED <<refs, state>>
      BY <1>1, <1>2, <1>7, <2>1 DEF CollectEntry
    <2>3. frames' = <<f>>
      BY <2>2
    <2>4. frames' \in Seq(PtrFrames) /\ \A k \in DOMAIN frames' : k = 1 /\ frames'[k].op = "collect"
      BY <2>1, <2>3
    <2> QED
      BY <1>3, <1>4, <2>2, <2>4, CollectorMoves
  <1>8. CASE ~(i > Len(trash)) /\ ~Shared(trash[i])
    <2>1. i \in DOMAIN trash
      BY <1>1, <1>2, <1>5, <1>8
    <2>2. LetGo(refs, trash[i], Append(<<>>, [op |-> "erase", next |-> i]))
      BY <1>1, <1>2, <1>8 DEF CollectEntry
    <2> QED
      BY <1>1, <1>4, <1>8, <2>1, <2>2, EntryDropped
  <1> QED
    BY <1>6, <1>7, <1>8

LEMMA EraseEntryStep ==
  ASSUME PtrIInv, EraseEntry
  PROVE  PtrIInv'
  <1> USE DEF PtrIInv
  <1>1. /\ CollectorOnly("erase") /\ Last(frames) = frames[1]
        /\ frames[1].next \in Nat \ {0} /\ \A x \in Objects : state[x] # "dying"
    BY CollectorOnTop DEF EraseEntry
  <1>2. PICK i : i = frames[1].next
    OBVIOUS
  <1>3. /\ Len(frames) = 1 /\ DOMAIN frames = {1} /\ frames[1].op = "erase"
        /\ ~Assigns(1) /\ ~Destroys(1)
    BY <1>1 DEF CollectorOnly, Assigns, Destroys
  <1>4. i \in DOMAIN trash /\ DOMAIN trash = 1 .. Len(trash)
    BY <1>2, <1>3, LenProperties DEF FramesInv, PtrTypeOK
  <1>5. /\ trash' = RemoveAt(trash, i)
        /\ frames' = [frames EXCEPT ![1] = [frames[1] EXCEPT !.op = "collect"]]
        /\ UNCHANGED <<ptr, refs, state, connected>>
    BY <1>1, <1>2, <1>3 DEF EraseEntry
  <1>6. PICK f : f = [frames[1] EXCEPT !.op = "collect"]
    OBVIOUS
  <1>7. f \in PtrFrames /\ f.op = "collect"
    <2>1. frames[1] \in PtrFrames
      BY <1>3, FrameTypes
    <2>2. frames[1] \in [op : {"collect", "erase"}, next : Nat \ {0}]
      BY <1>3, <2>1 DEF PtrFrames
    <2>3. f \in [op : {"collect", "erase"}, next : Nat \ {0}] /\ f.op = "collect"
      BY <1>6, <2>2
    <2> QED
      BY <2>3 DEF PtrFrames
  <1>8. /\ frames' \in Seq(PtrFrames) /\ DOMAIN frames' = {1}
        /\ frames'[1].op = "collect" /\ ~Assigns(1)' /\ ~Destroys(1)'
    <2>1. frames \in Seq(PtrFrames) /\ 1 \in 1 .. Len(frames)
      BY <1>3 DEF PtrTypeOK
    <2>2. frames' = [frames EXCEPT ![1] = f]
      BY <1>5, <1>6
    <2>3. frames' \in Seq(PtrFrames)
      BY <1>7, <2>1, <2>2, ExceptSeq
    <2>4. DOMAIN frames' = {1} /\ frames'[1] = f
      BY <1>3, <2>2
    <2> QED
      BY <1>7, <2>3, <2>4 DEF Assigns, Destroys
  <1>9. \A g : Holds(g) /\ Holds(g)'
    BY <1>3, <1>8 DEF Holds
  <1>10. \A k : (Erasing(k) <=> k = i) /\ ~Erasing(k)'
    BY <1>2, <1>3, <1>8 DEF Erasing
  <1>11. trash' \in Seq(Objects)
    BY <1>4, <1>5, EntryRemoved DEF PtrTypeOK
  <1>12. ASSUME NEW x \in Objects
         PROVE  /\ HandleRefs(x)' = HandleRefs(x) /\ ArgumentRefs(x)' = {} /\ ArgumentRefs(x) = {}
                /\ Cardinality(TrashRefs(x)') = Cardinality(TrashRefs(x))
    <2>1. HandleRefs(x)' = HandleRefs(x)
      BY <1>5, <1>9 DEF HandleRefs
    <2>2. ArgumentRefs(x)' = {} /\ ArgumentRefs(x) = {}
      BY <1>3, <1>8 DEF ArgumentRefs
    <2>3. TrashRefs(x) = Places(trash, x) \ {i} /\ TrashRefs(x)' = Places(trash', x)
      BY <1>10 DEF TrashRefs, Places
    <2>4. IsFiniteSet(Places(trash, x) \ {i})
      BY <2>3, RefsFinite, Zenon
    <2>5. trash \in Seq(Objects) /\ i \in 1 .. Len(trash)
      BY <1>4 DEF PtrTypeOK
    <2>6. Cardinality(Places(RemoveAt(trash, i), x)) = Cardinality(Places(trash, x) \ {i})
      BY <2>4, <2>5, OthersRemain
    <2>7. Cardinality(TrashRefs(x)') = Cardinality(TrashRefs(x))
      BY <1>5, <2>3, <2>6, Zenon
    <2> QED
      BY <2>1, <2>2, <2>7
  <1>13. CountInv'
    BY <1>5, <1>12 DEF CountInv
  <1>14. PtrTypeOK'
    BY <1>5, <1>8, <1>11 DEF PtrTypeOK
  <1>15. FramesInv'
    BY <1>1, <1>5, <1>8 DEF FramesInv
  <1>16. SupportInv'
    BY <1>8 DEF SupportInv
  <1> QED
    BY <1>13, <1>14, <1>15, <1>16

(* What the counts and the frames are, in every state. *)
LEMMA PtrInvariance == PtrSpec => []PtrIInv
  <1>1. PtrInit => PtrIInv
    <2> SUFFICES ASSUME PtrInit PROVE PtrIInv
      OBVIOUS
    <2>1. Null \notin Objects
      BY ObjectPtrAssumption DEF Objects
    <2>2. PtrTypeOK
      <3>1. <<>> \in Seq(PtrFrames) /\ <<>> \in Seq(Objects)
        BY EmptySeq
      <3>2. /\ ptr \in [Handles -> Objects \cup {Null}] /\ refs \in [Objects -> Int]
            /\ state \in [Objects -> {"none", "alive", "dying"}]
        BY DEF PtrInit
      <3>3. connected \in BOOLEAN
        BY DEF PtrInit
      <3>4. \A o \in Objects : ptr[o] = Null
        BY DEF PtrInit, Handles
      <3> QED
        BY <3>1, <3>2, <3>3, <3>4 DEF PtrInit, PtrTypeOK
    <2>3. FramesInv /\ SupportInv
      BY DEF PtrInit, FramesInv, SupportInv
    <2>4. ASSUME NEW o \in Objects
          PROVE  HandleRefs(o) = {} /\ TrashRefs(o) = {} /\ ArgumentRefs(o) = {}
      BY <2>1 DEF PtrInit, HandleRefs, TrashRefs, ArgumentRefs
    <2>5. CountInv
      <3>1. IsFiniteSet({}) /\ Cardinality({}) = 0
        BY FS_EmptySet
      <3> SUFFICES ASSUME NEW o \in Objects
                   PROVE  /\ IsFiniteSet(HandleRefs(o))
                          /\ refs[o] = Cardinality(HandleRefs(o)) + Cardinality(TrashRefs(o))
                                       + 2 * Cardinality(ArgumentRefs(o))
                          /\ state[o] = "alive" <=> refs[o] > 0
                          /\ state[o] = "none" => ptr[o] = Null
        BY DEF CountInv
      <3>2. refs[o] = 0 /\ state[o] = "none" /\ ptr[o] = Null
        BY DEF PtrInit, Handles
      <3> QED
        BY <2>4, <3>1, <3>2
    <2> QED
      BY <2>2, <2>3, <2>5 DEF PtrIInv
  <1>2. PtrIInv /\ [PtrNext]_ptrVars => PtrIInv'
    <2> SUFFICES ASSUME PtrIInv, [PtrNext]_ptrVars PROVE PtrIInv'
      OBVIOUS
    <2>1. ASSUME NEW h \in Handles, CallAssign(h) PROVE PtrIInv'
      BY <2>1, CallAssignBegins, AssignBeginsStep
    <2>2. ASSUME NEW h \in Handles, CallAssignNew(h) PROVE PtrIInv'
      BY <2>2, CallAssignNewBegins, AssignBeginsStep
    <2>3. ASSUME NEW h \in Handles, CallAdd(h) PROVE PtrIInv'
      BY <2>3, CallAddStep
    <2>4. CASE UNCHANGED ptrVars
      <3> USE <2>4 DEF ptrVars
      <3>1. PtrTypeOK'
        BY DEF PtrIInv, PtrTypeOK
      <3>2. FramesInv'
        BY DEF PtrIInv, FramesInv, Assigns, Destroys
      <3>3. CountInv'
        <4>1. \A o : /\ HandleRefs(o)' = HandleRefs(o) /\ TrashRefs(o)' = TrashRefs(o)
                     /\ ArgumentRefs(o)' = ArgumentRefs(o)
          BY DEF HandleRefs, TrashRefs, ArgumentRefs, Holds, Erasing, Assigns
        <4>2. CountInv
          BY DEF PtrIInv
        <4>3. refs' = refs /\ state' = state /\ ptr' = ptr
          OBVIOUS
        <4> QED
          BY ONLY <4>1, <4>2, <4>3 DEF CountInv
      <3>4. SupportInv'
        BY DEF PtrIInv, SupportInv, Supports, HeldBelow, TrashRefs, Holds, Erasing, Assigns
      <3> QED
        BY <3>1, <3>2, <3>3, <3>4 DEF PtrIInv
    <2> QED
      BY <2>1, <2>2, <2>3, <2>4, EndAssignStep, EndDestructorStep, FreeObjectStep,
         CollectCalledStep, CollectEntryStep, EraseEntryStep
      DEF PtrNext
  <1> QED
    BY <1>1, <1>2, PTL DEF PtrSpec

LEMMA CountedByHolders ==
  ASSUME PtrIInv
  PROVE  HeldWhileAlive
  <1> USE DEF PtrIInv
  <1>1. \A h \in Handles : Usable(h) /\ ptr[h] # Null => state[ptr[h]] = "alive"
    BY UsableHandle
  <1>2. ASSUME NEW i \in DOMAIN trash, ~Erasing(i) PROVE state[trash[i]] = "alive"
    <2>1. trash[i] \in Objects
      BY ElementOfSeq, LenProperties DEF PtrTypeOK
    <2>2. i \in TrashRefs(trash[i])
      BY <1>2 DEF TrashRefs
    <2> QED
      BY <2>1, <2>2, Counts
  <1>3. ASSUME frames = <<>>, NEW o \in Objects
        PROVE  refs[o] = Holders(o) /\ (state[o] = "alive" <=> refs[o] > 0)
    <2>0. Null \notin Objects
      BY ObjectPtrAssumption DEF Objects
    <2>1. \A x \in Objects : state[x] = "none" \/ state[x] = "alive"
      BY <1>3 DEF FramesInv, PtrTypeOK
    <2>2. \A h \in Handles : ptr[h] = o => (Usable(h) /\ Holds(h))
      BY <1>3, <2>0, <2>1 DEF Usable, Holds, CountInv
    <2>3. {h \in Handles : Usable(h) /\ ptr[h] = o} = HandleRefs(o)
      BY <2>2 DEF HandleRefs
    <2>4. {i \in DOMAIN trash : trash[i] = o} = TrashRefs(o)
      BY <1>3 DEF TrashRefs, Erasing
    <2>5. ArgumentRefs(o) = {}
      BY <1>3 DEF ArgumentRefs
    <2>6. Cardinality(ArgumentRefs(o)) = 0
      BY <2>5, FS_EmptySet
    <2>7. /\ refs[o] = Cardinality(HandleRefs(o)) + Cardinality(TrashRefs(o))
                       + 2 * Cardinality(ArgumentRefs(o))
          /\ state[o] = "alive" <=> refs[o] > 0
      BY DEF CountInv
    <2>8. Cardinality(HandleRefs(o)) \in Nat /\ Cardinality(TrashRefs(o)) \in Nat
      BY Counts, FS_CardinalityType
    <2>9. Holders(o) = Cardinality(HandleRefs(o)) + Cardinality(TrashRefs(o))
      BY <2>3, <2>4, Zenon DEF Holders
    <2> QED
      BY <2>6, <2>7, <2>8, <2>9
  <1> QED
    BY <1>1, <1>2, <1>3 DEF HeldWhileAlive

(* Whatever destructors assign, create and add to the trash, a handle in use *)
(* points at a living object, and an object lives while it is held and no    *)
(* longer.                                                                   *)
THEOREM ObjectsHeldWhileAlive == PtrSpec => []HeldWhileAlive
  <1>1. PtrIInv => HeldWhileAlive
    BY CountedByHolders
  <1> QED
    BY <1>1, PtrInvariance, PTL

--------------------------------------------------------------------------------
(* Singleton. *)

(* The counts follow the units through a load and an unload; nothing else    *)
(* touches them.                                                             *)
LEMMA CountsStep ==
  ASSUME SingletonIInv, [SingletonNext]_singletonVars
  PROVE  /\ CountsInv'
         /\ \A u \in Units : Unload(u) /\ loaded' = {} /\ ~early' => inst # 0 /\ useCount' = 0
  <1> USE DEF SingletonIInv, CountsInv
  <1>0. Cardinality(loaded) \in Nat /\ (Cardinality(loaded) = 0 <=> loaded = {})
    BY FS_CardinalityType, FS_EmptySet
  <1>1. ASSUME NEW u \in Units, Load(u) PROVE CountsInv'
    <2>1. loaded' = loaded \cup {u} /\ loaded' # {} /\ UNCHANGED early
      BY <1>1 DEF Load
    <2>2. IsFiniteSet(loaded') /\ Cardinality(loaded') = Cardinality(loaded) + 1
      BY <1>1, <2>1, FS_AddElement DEF Load
    <2>3. initAlive' <=> TRUE
      BY <1>0, <1>1, <2>1 DEF Load
    <2>4. initCount' = initCount + 1 /\ useCount' = useCount + 1
      BY <1>1 DEF Load
    <2> QED
      BY <1>0, <1>1, <2>1, <2>2, <2>3, <2>4
  <1>2. ASSUME NEW u \in Units, Unload(u)
        PROVE  CountsInv' /\ (loaded' = {} /\ ~early' => inst # 0 /\ useCount' = 0)
    <2>1. loaded' = loaded \ {u} /\ u \in loaded
      BY <1>2 DEF Unload
    <2>2. IsFiniteSet(loaded') /\ Cardinality(loaded') = Cardinality(loaded) - 1
      BY <2>1, FS_RemoveElement
    <2>3. Cardinality(loaded') \in Nat /\ (Cardinality(loaded') = 0 <=> loaded' = {})
      BY <2>2, FS_CardinalityType, FS_EmptySet
    <2>4. initCount' = Cardinality(loaded')
      BY <1>2, <2>2 DEF Unload
    <2>5. initAlive' <=> loaded' # {}
      <3>1. initAlive' <=> initAlive /\ initCount' # 0
        BY <1>2 DEF Unload
      <3>2. initAlive
        BY <2>1
      <3>3. initCount' = 0 <=> loaded' = {}
        BY <2>3, <2>4
      <3> QED
        BY <3>1, <3>2, <3>3
    <2>6. useCount' \in Int /\ useCount' >= Cardinality(loaded')
      BY <1>0, <1>2, <2>2 DEF Unload, UnloadedCount
    <2>7. early' <=> early \/ inst = 0
      BY <1>2 DEF Unload
    <2>8. ASSUME ~early' PROVE inst # 0 /\ useCount' = Cardinality(loaded')
      <3>1. ~early /\ inst # 0
        BY <2>7, <2>8
      <3> QED
        BY <1>0, <1>2, <2>2, <3>1 DEF Unload, UnloadedCount
    <2>9. loaded' \subseteq Units
      BY <2>1
    <2> QED
      BY <2>2, <2>3, <2>4, <2>5, <2>6, <2>8, <2>9
  <1>3. ASSUME UNCHANGED <<loaded, useCount, early, initCount, initAlive>> PROVE CountsInv'
    BY <1>3
  <1>4. CountsInv'
    BY <1>1, <1>2, <1>3 DEF SingletonNext, Use, Replace, LockGuard, FreeOld, SetInst, ReplaceReturns,
       Make, staticVars, singletonVars
  <1> QED
    BY ONLY <1>2, <1>4

(* Instances are made and freed one after another; the replacer frees the    *)
(* one in use only while it holds the lock.                                  *)
LEMMA InstancesStep ==
  ASSUME SingletonIInv, [SingletonNext]_singletonVars
  PROVE  InstancesInv' /\ given' \notin freed'
  <1> USE DEF SingletonIInv, InstancesInv
  <1>0. \A i \in 0 .. made : i \in 0 .. made + 1 /\ i # made + 1
    OBVIOUS
  <1>1. given \notin freed
    BY DEF LivesWithItsUnits
  <1>2. ASSUME NEW u \in Units, Load(u) PROVE InstancesInv' /\ given' \notin freed'
    <2>1. UNCHANGED useVars /\ given' = 0 /\ loaded' # {}
      BY <1>2 DEF Load
    <2> QED
      BY <2>1 DEF useVars
  <1>3. ASSUME NEW u \in Units, Unload(u) PROVE InstancesInv' /\ given' \notin freed'
    <2>1. UNCHANGED <<made, replacing, that>> /\ given' = 0 /\ replacing = "idle"
      BY <1>3 DEF Unload
    <2>2. CASE inst' = 0 /\ inst # 0 /\ freed' = freed \cup {inst}
      <3>1. freed' \subseteq 1 .. made /\ 0 \notin freed'
        BY <2>2
      <3> QED
        BY <2>1, <2>2, <3>1
    <2>3. CASE UNCHANGED <<inst, freed>>
      <3>1. 0 \notin freed
        OBVIOUS
      <3> QED
        BY <2>1, <2>3, <3>1
    <2> QED
      BY <1>3, <2>2, <2>3 DEF Unload
  <1>4. ASSUME NEW t \in Users, Use(t) PROVE InstancesInv' /\ given' \notin freed'
    BY <1>0, <1>4 DEF Use, staticVars
  <1>5. CASE Replace
    BY <1>0, <1>5 DEF Replace, staticVars
  <1>6. CASE LockGuard
    BY <1>6 DEF LockGuard, staticVars
  <1>7. CASE SetInst
    BY <1>7 DEF SetInst, staticVars
  <1>8. CASE ReplaceReturns
    BY <1>8 DEF ReplaceReturns, staticVars
  <1>9. CASE FreeOld
    BY <1>9 DEF FreeOld, staticVars
  <1>10. ASSUME NEW n \in Names, Make(n) PROVE InstancesInv' /\ given' \notin freed'
    BY <1>10 DEF Make, useVars
  <1>11. CASE UNCHANGED singletonVars
    BY <1>1, <1>11 DEF singletonVars
  <1> QED
    BY ONLY [SingletonNext]_singletonVars, <1>2, <1>3, <1>4, <1>5, <1>6, <1>7, <1>8, <1>9, <1>10,
       <1>11
    DEF SingletonNext

LEMMA SingletonStep ==
  ASSUME SingletonIInv, [SingletonNext]_singletonVars PROVE SingletonIInv'
  <1>1. CountsInv'
    BY CountsStep
  <1>2. InstancesInv' /\ given' \notin freed'
    BY InstancesStep
  <1>3. (inst \in freed => replacing \in {"locked", "freed"})'
    BY <1>2 DEF InstancesInv
  <1>4. (loaded # {} => initAlive /\ useCount >= Cardinality(loaded))'
    BY <1>1 DEF CountsInv
  <1>5. ASSUME loaded' = {}, ~early' PROVE inst' = 0 /\ ~initAlive'
    <2>1. ~initAlive'
      BY <1>1, <1>5 DEF CountsInv
    <2>2. CASE loaded = {} /\ ~early /\ UNCHANGED inst
      BY <2>1, <2>2 DEF SingletonIInv, LivesWithItsUnits
    <2>3. ASSUME NEW u \in Units, Unload(u) PROVE inst' = 0
      <3>1. inst # 0 /\ useCount' = 0
        BY <1>5, <2>3, CountsStep
      <3> QED
        BY <2>3, <3>1 DEF Unload
    <2>4. \A u \in Units : ~Load(u)
      BY <1>5 DEF Load
    <2>5. \A t \in Users : ~Use(t)
      BY <1>5 DEF Use, staticVars
    <2>6. ~Replace
      BY <1>5 DEF Replace, staticVars
    <2>7. ~LockGuard /\ ~FreeOld /\ ~SetInst /\ ~ReplaceReturns
      BY <1>5 DEF LockGuard, FreeOld, SetInst, ReplaceReturns, staticVars, SingletonIInv, InstancesInv
    <2>8. ASSUME NEW n \in Names, Make(n) PROVE inst' = 0
      BY <1>5, <2>8 DEF Make, useVars, SingletonIInv, LivesWithItsUnits
    <2>9. ASSUME UNCHANGED singletonVars PROVE inst' = 0
      BY <1>5, <2>9 DEF singletonVars, SingletonIInv, LivesWithItsUnits
    <2> QED
      BY <2>1, <2>3, <2>4, <2>5, <2>6, <2>7, <2>8, <2>9 DEF SingletonNext
  <1> QED
    BY <1>1, <1>2, <1>3, <1>4, <1>5 DEF SingletonIInv, LivesWithItsUnits

(* The instance and the Initializer's object live while a unit is loaded and *)
(* go with the last, and no caller is given an instance that is deleted, for *)
(* any units, users and number of replacements.                              *)
THEOREM SingletonLivesWithItsUnits == SingletonSpec => []LivesWithItsUnits
  <1>1. SingletonInit => SingletonIInv
    <2> SUFFICES ASSUME SingletonInit PROVE SingletonIInv
      OBVIOUS
    <2>1. IsFiniteSet(loaded) /\ Cardinality(loaded) = 0
      BY FS_EmptySet DEF SingletonInit
    <2>2. CountsInv
      BY <2>1 DEF SingletonInit, CountsInv
    <2>3. InstancesInv
      BY DEF SingletonInit, InstancesInv
    <2> QED
      BY <2>2, <2>3 DEF SingletonInit, SingletonIInv, LivesWithItsUnits
  <1>2. SingletonIInv /\ [SingletonNext]_singletonVars => SingletonIInv'
    BY SingletonStep
  <1>3. SingletonIInv => LivesWithItsUnits
    BY DEF SingletonIInv
  <1> QED
    BY <1>1, <1>2, <1>3, PTL DEF SingletonSpec
================================================================================
