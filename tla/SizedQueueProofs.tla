---------------------------- MODULE SizedQueueProofs ----------------------------
(***************************************************************************)
(* Theorems about SizedQueue for any set of threads and items, any          *)
(* programs and ways to push, and any capacities, changed at any time.      *)
(***************************************************************************)
EXTENDS SizedQueue, MonitorProofs, SequenceTheorems

(* The deque is as long as it was, or one item longer after a push.         *)
LEMMA SizedLengths ==
  ASSUME queue \in Seq(Items)
  PROVE  /\ Len(queue) \in Nat
         /\ \A x \in Items : /\ Append(queue, x) \in Seq(Items)
                             /\ Len(Append(queue, x)) = Len(queue) + 1
                             /\ <<x>> \o queue \in Seq(Items)
                             /\ Len(<<x>> \o queue) = Len(queue) + 1
         /\ empty <=> Len(queue) = 0
  <1>1. Len(queue) \in Nat
    BY LenProperties
  <1>2. \A x \in Items : /\ Append(queue, x) \in Seq(Items)
                         /\ Len(Append(queue, x)) = Len(queue) + 1
    BY AppendProperties
  <1>3. ASSUME NEW x \in Items
        PROVE  <<x>> \o queue \in Seq(Items) /\ Len(<<x>> \o queue) = Len(queue) + 1
    <2>1. <<x>> \in Seq(Items) /\ Len(<<x>>) = 1
      OBVIOUS
    <2> QED
      BY <1>1, <2>1, ConcatProperties
  <1>4. empty <=> Len(queue) = 0
    BY EmptySeq DEF empty
  <1> QED
    BY <1>1, <1>2, <1>3, <1>4

LEMMA SizedRemoval ==
  ASSUME queue \in Seq(Items), ~empty
  PROVE  /\ Head(queue) \in Items /\ queue[Len(queue)] \in Items
         /\ Tail(queue) \in Seq(Items) /\ Len(Tail(queue)) = Len(queue) - 1
         /\ SubSeq(queue, 1, Len(queue) - 1) \in Seq(Items)
         /\ Len(SubSeq(queue, 1, Len(queue) - 1)) = Len(queue) - 1
  <1>1. Len(queue) \in Nat \ {0} /\ queue # <<>>
    BY EmptySeq DEF empty
  <1>2. \A i \in 1 .. Len(queue) : queue[i] \in Items
    BY ElementOfSeq
  <1>3. /\ SubSeq(queue, 1, Len(queue) - 1) \in Seq(Items)
        /\ Len(SubSeq(queue, 1, Len(queue) - 1)) = Len(queue) - 1
    <2> DEFINE n == Len(queue) - 1
    <2>1. \A i \in 1 .. n : queue[i] \in Items
      BY <1>1, <1>2
    <2>2. n \in Nat
      BY <1>1
    <2>3. SubSeq(queue, 1, n) \in Seq(Items) /\ Len(SubSeq(queue, 1, n)) = IF 1 <= n THEN n - 1 + 1 ELSE 0
      <3> HIDE DEF n
      <3> QED
        BY ONLY <2>1, <2>2, SubSeqProperties
    <2>4. Len(SubSeq(queue, 1, n)) = n
      <3> HIDE DEF n
      <3> QED
        BY <2>2, <2>3
    <2> QED
      BY <2>3, <2>4
  <1> QED
    BY <1>1, <1>2, <1>3, HeadTailProperties

(* The empty queue that nobody uses. *)
LEMMA SizedInitIInv == SizedInit => SizedIInv
  <1> SUFFICES ASSUME SizedInit PROVE SizedIInv
    OBVIOUS
  <1>1. MonitorInv
    BY MonitorInitInv DEF SizedInit, Init
  <1>2. TypeOK
    <2>1. queue \in Seq(Items) /\ pushed \in Seq(Items) /\ removed \in Seq(Items)
      BY EmptySeq DEF SizedInit, Init, QueueInit
    <2>2. op \in [Threads -> Ops]
      BY DEF SizedInit, Init, QueueInit, Ops, PushOps
    <2> QED
      BY <1>1, <2>1, <2>2 DEF TypeOK, SizedInit, Init, QueueInit
  <1>3. SizedTypeOK
    BY <1>2, SizedAssumption DEF SizedTypeOK, SizedInit
  <1>4. \A t \in Threads : pc[t] = "idle"
    BY DEF SizedInit, Init, MonitorInit
  <1>5. Len(queue) = 0
    BY DEF SizedInit, Init, QueueInit
  <1> QED
    BY <1>3, <1>4, <1>5, SizedAssumption
    DEF SizedIInv, SizedTypeOK, SizedCallInv, PopsFindAnItem, PushesFindRoom, OnePastAtMost,
        OvershootAtMostOne

(* The monitor's part of every step preserves MonitorInv. *)
LEMMA SizedMonitorStep ==
  ASSUME SizedIInv, SizedNext PROVE MonitorInv'
  <1>0. MonitorInv /\ "notEmpty" \in Conds /\ "notFull" \in Conds
    BY QueueAssumption, SizedAssumption DEF SizedIInv, SizedTypeOK, TypeOK
  <1>1. CASE \E n \in Capacities \ {capacity} : ~undefined /\ SetCapacity(n)
    BY <1>0, <1>1, StutterInv DEF SetCapacity
  <1>2. ASSUME NEW t \in Threads, SizedStep(t) \/ SizedEnvironment(t) PROVE MonitorInv'
    <2>0. blocked(t) \in BOOLEAN
      <3>1. full \in BOOLEAN /\ empty \in BOOLEAN
        BY DEF full, empty
      <3> QED
        BY <3>1 DEF blocked
    <2>1. CASE Protocol(t) \/ Test(t, blocked(t)) \/ Recheck(t, blocked(t))
      BY <1>0, <2>0, <2>1, ProtocolInv, TestInv, RecheckInv
    <2>2. CASE SignalNotFull(t)
      <3>1. CASE Signal(t, "notFull")
        BY <1>0, <3>1, SignalInv
      <3>2. CASE ~Signal(t, "notFull")
        <4>1. /\ pc[t] = "signal" /\ Goto(t, "leave")
              /\ UNCHANGED <<guard, cond, waiters, on, mode, timedOut>>
          BY <2>2, <3>2 DEF SignalNotFull
        <4> QED
          BY <1>0, <4>1, ThreadsAssumption
          DEF MonitorInv, MonitorTypeOK, GuardInv, CondInv, WaitersInv, DepthOK,
              HeldExactlyBy, PcHoldingGuard, PcHoldingCond, Pcs, Goto
      <3> QED
        BY <3>1, <3>2
    <2>3. CASE Insert(t, "leave") \/ Remove(t, "signal") \/ RemoveFromEmpty(t, "signal")
      BY <1>0, <2>3, AfterFuncInv DEF Insert, Remove, RemoveFromEmpty
    <2>4. CASE CallSizedPush(t)
      <3>1. PICK m \in PushModes : Begin(t, m, "notFull")
        BY <2>4 DEF CallSizedPush
      <3>2. m \in Modes
        BY SizedAssumption DEF Modes
      <3> QED
        BY <1>0, <3>1, <3>2, BeginInv
    <2>5. CASE CallPop(t) \/ CallTryPop(t)
      BY <1>0, <2>5, BeginInv DEF CallPop, CallTryPop, Modes
    <2>6. CASE SpuriousWakeup(t) \/ Timeout(t)
      BY <1>0, <2>6, SpuriousWakeupInv, TimeoutInv
    <2> QED
      BY <1>2, <2>1, <2>2, <2>3, <2>4, <2>5, <2>6 DEF SizedStep, SizedEnvironment
  <1> QED
    BY <1>1, <1>2 DEF SizedNext

(* The types of the container and of the histories. *)
LEMMA SizedTypeStep ==
  ASSUME SizedIInv, SizedNext PROVE SizedTypeOK'
  <1>0. MonitorInv'
    BY SizedMonitorStep
  <1> USE DEF SizedIInv, SizedTypeOK, TypeOK
  <1>1. CASE \E n \in Capacities \ {capacity} : ~undefined /\ SetCapacity(n)
    BY <1>0, <1>1, SizedAssumption DEF SetCapacity, queueVars
  <1>2. ASSUME NEW t \in Threads, SizedStep(t) \/ SizedEnvironment(t) PROVE SizedTypeOK'
    <2>0. capacity' = capacity /\ largest' = largest
      BY <1>2 DEF SizedStep, SizedEnvironment
    <2> SUFFICES (UNCHANGED queueVars) \/
                 (/\ queue' \in Seq(Items)
                  /\ op' \in [Threads -> Ops]
                  /\ item' \in [Threads -> Items \cup {NoItem}]
                  /\ unused' \in SUBSET Items
                  /\ pushed' \in Seq(Items)
                  /\ removed' \in Seq(Items)
                  /\ undefined' \in BOOLEAN)
      BY <1>0, <2>0 DEF queueVars
    <2>1. CASE Insert(t, "leave")
      <3>1. item[t] \in Items
        BY <2>1 DEF Insert, AfterFunc, SizedCallInv
      <3> QED
        BY <2>1, <3>1, SizedLengths, AppendProperties DEF Insert
    <2>2. CASE Remove(t, "signal")
      <3>1. ~empty
        BY <2>2 DEF Remove
      <3> QED
        BY <2>2, <3>1, SizedRemoval, AppendProperties DEF Remove
    <2>3. CASE RemoveFromEmpty(t, "signal")
      BY <2>3 DEF RemoveFromEmpty
    <2>4. CASE CallSizedPush(t) \/ CallPop(t) \/ CallTryPop(t)
      BY <2>4, QueueAssumption DEF CallSizedPush, CallPop, CallTryPop, Ops
    <2> QED
      BY <1>2, <2>1, <2>2, <2>3, <2>4 DEF SizedStep, SizedEnvironment
  <1> QED
    BY <1>1, <1>2 DEF SizedNext

(* The steps of a thread that leave the deque and the calls alone. *)
Quiet(t) ==
  /\ \/ Protocol(t) \/ Test(t, blocked(t)) \/ Recheck(t, blocked(t))
     \/ SignalNotFull(t) \/ SpuriousWakeup(t) \/ Timeout(t)
  /\ UNCHANGED queueVars

(* What a step is: one of those, a functor, a call, or capacity( n ). *)
LEMMA SizedSteps ==
  ASSUME SizedNext
  PROVE  \/ /\ UNCHANGED <<capacity, largest>>
            /\ \E t \in Threads :
                 \/ Quiet(t)
                 \/ Insert(t, "leave") \/ Remove(t, "signal") \/ RemoveFromEmpty(t, "signal")
                 \/ CallSizedPush(t) \/ CallPop(t) \/ CallTryPop(t)
         \/ \E n \in Capacities \ {capacity} : SetCapacity(n)
  BY DEF SizedNext, SizedStep, SizedEnvironment, Quiet

(* A quiet step moves its own thread only, and inside its call. *)
LEMMA QuietSteps ==
  ASSUME SizedTypeOK, NEW t \in Threads, Quiet(t)
  PROVE  /\ UNCHANGED <<queue, op, item, unused, mode, on>>
         /\ \A u \in Threads : u # t => pc'[u] = pc[u]
         /\ \A u \in Threads : pc'[u] # "idle" => pc[u] # "idle"
  BY DEF Quiet, queueVars, Protocol, Enter, Test, LockCond, ReleaseGuard, Sleep, Wake,
     Recheck, GiveUp, Relock, DropCond, Leave, Signal, SignalNotFull, SpuriousWakeup,
     Timeout, Goto, SizedTypeOK, TypeOK, MonitorInv, MonitorTypeOK

(* A thread stays in the member function it called. *)
LEMMA SizedCallStep ==
  ASSUME SizedIInv, SizedNext PROVE SizedCallInv'
  <1> USE DEF SizedIInv, SizedTypeOK, TypeOK, MonitorInv, MonitorTypeOK, SizedCallInv
  <1>1. CASE \E n \in Capacities \ {capacity} : SetCapacity(n)
    BY <1>1 DEF SetCapacity, monitorVars, queueVars
  <1>2. ASSUME NEW t \in Threads, Quiet(t) PROVE SizedCallInv'
    BY <1>2, QuietSteps
  <1>3. ASSUME NEW t \in Threads,
               Insert(t, "leave") \/ Remove(t, "signal") \/ RemoveFromEmpty(t, "signal")
        PROVE  SizedCallInv'
    BY <1>3 DEF Insert, Remove, RemoveFromEmpty, AfterFunc, Goto
  <1>4. ASSUME NEW t \in Threads, CallPop(t) \/ CallTryPop(t) PROVE SizedCallInv'
    BY <1>4 DEF CallPop, CallTryPop, Begin, Goto, PushOps, PopOps, TryOps
  <1>5. ASSUME NEW t \in Threads, CallSizedPush(t) PROVE SizedCallInv'
    BY <1>5, SizedAssumption DEF CallSizedPush, Begin, Goto, PushOps, PopOps, TryOps
  <1> QED
    BY <1>1, <1>2, <1>3, <1>4, <1>5, SizedSteps

(* Only the thread whose call is in its functor changes the deque; it has   *)
(* the guard, and with it nobody else is between a test and a functor.      *)
LEMMA SizedFunctorAlone ==
  ASSUME SizedIInv, NEW t \in Threads, pc[t] = "func"
  PROVE  \A u \in Threads \ {t} : pc[u] \notin PcHoldingGuard
  BY DEF SizedIInv, SizedTypeOK, TypeOK, MonitorInv, GuardInv, HeldExactlyBy, PcHoldingGuard

(* _notFull is locked by one thread at a time. *)
LEMMA OneHoldsNotFull ==
  ASSUME SizedIInv, NEW t \in Threads, NEW u \in Threads,
         op[t] \in PushOps, pc[t] \in {"relock", "dropCond", "recheck"},
         op[u] \in PushOps, pc[u] \in {"relock", "dropCond", "recheck"}
  PROVE  t = u
  <1>1. on[t] = "notFull" /\ on[u] = "notFull"
    BY DEF SizedIInv, SizedCallInv
  <1> QED
    BY <1>1, SizedAssumption DEF SizedIInv, SizedTypeOK, TypeOK, MonitorInv, CondInv,
       HeldExactlyBy, PcHoldingCond

(* What a functor does to the length of the deque. *)
LEMMA FunctorLengths ==
  ASSUME SizedIInv, NEW t \in Threads
  PROVE  /\ Insert(t, "leave") => Len(queue') = Len(queue) + 1
         /\ Remove(t, "signal") => Len(queue') = Len(queue) - 1
         /\ RemoveFromEmpty(t, "signal") => Len(queue') = Len(queue)
  <1> USE DEF SizedIInv, SizedTypeOK, TypeOK
  <1>1. ASSUME Insert(t, "leave") PROVE Len(queue') = Len(queue) + 1
    <2>1. item[t] \in Items
      BY <1>1 DEF Insert, AfterFunc, SizedCallInv
    <2> QED
      BY <1>1, <2>1, SizedLengths DEF Insert
  <1>2. ASSUME Remove(t, "signal") PROVE Len(queue') = Len(queue) - 1
    <2>1. ~empty
      BY <1>2 DEF Remove
    <2> QED
      BY <1>2, <2>1, SizedRemoval DEF Remove
  <1> QED
    BY <1>1, <1>2 DEF RemoveFromEmpty

(* Whoever reaches a functor by a quiet step has just tested the container  *)
(* with the guard locked, or has been admitted before.                      *)
LEMMA QuietArrivals ==
  ASSUME SizedIInv, NEW t \in Threads, Quiet(t), pc'[t] # pc[t]
  PROVE  /\ pc'[t] = "func" =>
              \/ pc[t] = "test" /\ ~blocked(t)
              \/ pc[t] = "dropCond" /\ mode[t] # "when"
         /\ pc'[t] = "func" => \A u \in Threads \ {t} : pc[u] \notin PcHoldingGuard
         /\ pc'[t] = "dropCond" => pc[t] = "relock"
         /\ pc'[t] = "relock" /\ mode[t] # "when" =>
              /\ pc[t] = "recheck" /\ ~blocked(t)
              /\ \A u \in Threads : pc[u] \notin PcHoldingGuard
  <1> USE DEF SizedIInv, SizedTypeOK, TypeOK, MonitorInv, MonitorTypeOK
  <1>1. pc'[t] = "func" =>
              \/ pc[t] = "test" /\ ~blocked(t)
              \/ pc[t] = "dropCond" /\ mode[t] # "when"
    <2>1. pc[t] = "enter" => mode[t] # "direct"
      BY QueueAssumption DEF SizedCallInv, Ops
    <2> QED
      BY <2>1 DEF Quiet, Protocol, Enter, Test, LockCond, ReleaseGuard, Sleep, Wake,
         Recheck, GiveUp, Relock, DropCond, Leave, Signal, SignalNotFull, SpuriousWakeup,
         Timeout, Goto
  <1>2. /\ pc'[t] = "dropCond" => pc[t] = "relock"
        /\ pc'[t] = "relock" /\ mode[t] # "when" =>
              pc[t] = "recheck" /\ ~blocked(t) /\ CanLock(guard, t)
    BY DEF Quiet, Protocol, Enter, Test, LockCond, ReleaseGuard, Sleep, Wake,
       Recheck, GiveUp, Relock, DropCond, Leave, Signal, SignalNotFull, SpuriousWakeup,
       Timeout, Goto
  <1>3. ASSUME pc[t] \in {"test", "dropCond"}
        PROVE  \A u \in Threads \ {t} : pc[u] \notin PcHoldingGuard
    BY <1>3 DEF GuardInv, HeldExactlyBy, PcHoldingGuard
  <1>4. ASSUME pc[t] = "recheck", CanLock(guard, t)
        PROVE  \A u \in Threads : pc[u] \notin PcHoldingGuard
    BY <1>4, ThreadsAssumption DEF GuardInv, HeldExactlyBy, PcHoldingGuard, CanLock
  <1> QED
    BY <1>1, <1>2, <1>3, <1>4

(* Between the last empty() of whenNotEmpty and the functor the deque does  *)
(* not change.                                                              *)
LEMMA SizedPopsStep ==
  ASSUME SizedIInv, SizedNext PROVE PopsFindAnItem'
  <1> USE DEF SizedIInv, SizedTypeOK, TypeOK, MonitorInv, MonitorTypeOK
  <1> SUFFICES ASSUME NEW u \in Threads, pc'[u] = "func", op'[u] \in PopOps
               PROVE  ~empty'
    BY DEF PopsFindAnItem
  <1>1. CASE \E n \in Capacities \ {capacity} : SetCapacity(n)
    BY <1>1 DEF SetCapacity, monitorVars, queueVars, PopsFindAnItem, empty
  <1>2. ASSUME NEW t \in Threads, Quiet(t) PROVE ~empty'
    <2>1. UNCHANGED <<queue, op, mode, on>>
      BY <1>2, QuietSteps
    <2>2. CASE pc[u] = "func"
      BY <2>1, <2>2 DEF PopsFindAnItem, empty
    <2>3. CASE pc[u] # "func"
      <3>1. u = t /\ pc[u] # "idle"
        BY <1>2, <2>3, QuietSteps
      <3>2. mode[u] = "when" /\ on[u] = "notEmpty"
        BY <2>1, <3>1 DEF SizedCallInv, PushOps, PopOps
      <3>3. ~blocked(u)
        BY <1>2, <2>3, <3>1, <3>2, QuietArrivals
      <3> QED
        BY <2>1, <3>2, <3>3 DEF blocked, empty
    <2> QED
      BY <2>2, <2>3
  <1>3. ASSUME NEW t \in Threads,
               Insert(t, "leave") \/ Remove(t, "signal") \/ RemoveFromEmpty(t, "signal")
        PROVE  ~empty'
    <2>1. pc[t] = "func" /\ u # t /\ pc[u] = "func"
      BY <1>3 DEF Insert, Remove, RemoveFromEmpty, AfterFunc, Goto
    <2> QED
      BY <2>1, SizedFunctorAlone DEF PcHoldingGuard
  <1>4. ASSUME NEW t \in Threads, CallSizedPush(t) \/ CallPop(t) \/ CallTryPop(t)
        PROVE  ~empty'
    BY <1>4 DEF CallSizedPush, CallPop, CallTryPop, Begin, Goto, PopsFindAnItem, empty
  <1> QED
    BY <1>1, <1>2, <1>3, <1>4, SizedSteps

(* The same for full() and whenNotFull. *)
LEMMA SizedPushesStep ==
  ASSUME SizedIInv, SizedNext PROVE PushesFindRoom'
  <1> USE DEF SizedIInv, SizedTypeOK, TypeOK, MonitorInv, MonitorTypeOK
  <1> SUFFICES ASSUME NEW u \in Threads, pc'[u] = "func", op'[u] \in PushOps, mode'[u] = "when"
               PROVE  Len(queue') < largest'
    BY DEF PushesFindRoom
  <1>0. Len(queue) \in Nat /\ largest \in Nat /\ capacity \in Nat /\ capacity <= largest
    BY SizedLengths, SizedAssumption
  <1>1. CASE \E n \in Capacities \ {capacity} : SetCapacity(n)
    BY <1>0, <1>1, SizedAssumption DEF SetCapacity, monitorVars, queueVars, PushesFindRoom
  <1>2. ASSUME NEW t \in Threads, Quiet(t), largest' = largest PROVE Len(queue') < largest'
    <2>1. UNCHANGED <<queue, op, mode, on>>
      BY <1>2, QuietSteps
    <2>2. CASE pc[u] = "func"
      BY <1>2, <2>1, <2>2 DEF PushesFindRoom
    <2>3. CASE pc[u] # "func"
      <3>1. u = t /\ pc[u] # "idle"
        BY <1>2, <2>3, QuietSteps
      <3>2. mode[u] = "when" /\ on[u] = "notFull"
        BY <2>1, <3>1 DEF SizedCallInv
      <3>3. ~full
        BY <1>2, <2>3, <3>1, <3>2, QuietArrivals DEF blocked
      <3> QED
        BY <1>0, <1>2, <2>1, <3>3 DEF full
    <2> QED
      BY <2>2, <2>3
  <1>3. ASSUME NEW t \in Threads,
               Insert(t, "leave") \/ Remove(t, "signal") \/ RemoveFromEmpty(t, "signal")
        PROVE  Len(queue') < largest'
    <2>1. pc[t] = "func" /\ u # t /\ pc[u] = "func"
      BY <1>3 DEF Insert, Remove, RemoveFromEmpty, AfterFunc, Goto
    <2> QED
      BY <2>1, SizedFunctorAlone DEF PcHoldingGuard
  <1>4. ASSUME NEW t \in Threads, CallSizedPush(t) \/ CallPop(t) \/ CallTryPop(t),
               largest' = largest
        PROVE  Len(queue') < largest'
    BY <1>4 DEF CallSizedPush, CallPop, CallTryPop, Begin, Goto, PushesFindRoom
  <1> QED
    BY <1>1, <1>2, <1>3, <1>4, SizedSteps

(* Where the pushes of ifNotFull are, and how much room they find. *)
LEMMA OnePastStep ==
  ASSUME SizedIInv, SizedNext PROVE OnePastAtMost'
  <1> USE DEF SizedIInv, SizedTypeOK, TypeOK, MonitorInv, MonitorTypeOK
  <1>0. Len(queue) \in Nat /\ largest \in Nat /\ capacity \in Nat /\ capacity <= largest
    BY SizedLengths, SizedAssumption
  <1>1. CASE \E n \in Capacities \ {capacity} : SetCapacity(n)
    BY <1>0, <1>1, SizedAssumption
    DEF SetCapacity, monitorVars, queueVars, OnePastAtMost, Admitted
  <1>2. ASSUME NEW t \in Threads, Quiet(t), largest' = largest PROVE OnePastAtMost'
    <2>1. UNCHANGED <<queue, op, mode, on>> /\ \A u \in Threads : u # t => pc'[u] = pc[u]
      BY <1>2, QuietSteps
    <2>2. SizedCallInv
      OBVIOUS
    <2>3. ASSUME NEW u \in Threads, Admitted(u), pc'[u] \in {"relock", "dropCond", "func"}
          PROVE  Len(queue) <= largest
      <3>1. CASE pc[u] \in {"relock", "dropCond", "func"}
        BY <2>3, <3>1 DEF OnePastAtMost
      <3>2. CASE pc[u] \notin {"relock", "dropCond", "func"}
        <4>1. u = t /\ pc[u] # "idle"
          BY <1>2, <2>3, <3>2, QuietSteps
        <4>2. mode[u] # "when" /\ on[u] = "notFull"
          BY <2>2, <2>3, <4>1 DEF SizedCallInv, Admitted
        <4>3. ~full
          BY <1>2, <2>3, <3>2, <4>1, <4>2, QuietArrivals DEF blocked
        <4> QED
          BY <1>0, <4>3 DEF full
      <3> QED
        BY <3>1, <3>2
    <2>4. ASSUME NEW u \in Threads, NEW v \in Threads, Admitted(u), pc'[u] = "relock",
                 op[v] \in PushOps, pc'[v] = "func"
          PROVE  Len(queue) < largest
      <3>1. CASE pc[u] = "relock" /\ pc[v] = "func"
        BY <2>4, <3>1 DEF OnePastAtMost
      <3>2. CASE pc[u] = "relock" /\ pc[v] # "func"
        <4>1. v = t /\ pc[v] # "idle" /\ u # t
          BY <1>2, <2>4, <3>2, QuietSteps
        <4>2. pc[v] # "dropCond"
          BY <2>4, <3>2, <4>1, OneHoldsNotFull DEF Admitted
        <4>3. ~full
          BY <1>2, <2>2, <2>4, <3>2, <4>1, <4>2, QuietArrivals DEF blocked, SizedCallInv
        <4> QED
          BY <1>0, <4>3 DEF full
      <3>3. CASE pc[u] # "relock"
        <4>1. u = t /\ v # t /\ pc[v] = "func"
          BY <1>2, <2>1, <2>4, <3>3
        <4>2. mode[u] # "when"
          BY <2>4 DEF Admitted
        <4> QED
          BY <1>2, <2>4, <3>3, <4>1, <4>2, QuietArrivals DEF PcHoldingGuard
      <3> QED
        BY <3>1, <3>2, <3>3
    <2> QED
      BY <1>2, <2>1, <2>3, <2>4 DEF OnePastAtMost, Admitted
  <1>3. ASSUME NEW t \in Threads, largest' = largest,
               Insert(t, "leave") \/ Remove(t, "signal") \/ RemoveFromEmpty(t, "signal")
        PROVE  OnePastAtMost'
    <2>1. /\ pc[t] = "func" /\ pc' = [pc EXCEPT ![t] = pc'[t]]
          /\ pc'[t] \in {"leave", "signal"} /\ UNCHANGED <<op, mode>>
      BY <1>3 DEF Insert, Remove, RemoveFromEmpty, AfterFunc, Goto
    <2>2. \A u \in Threads : pc'[u] \notin {"func", "dropCond"}
      BY <2>1, SizedFunctorAlone DEF PcHoldingGuard
    <2>3. ASSUME NEW u \in Threads, Admitted(u), pc'[u] = "relock"
          PROVE  Len(queue') <= largest
      <3>1. pc[u] = "relock"
        BY <2>1, <2>3
      <3>2. Len(queue) <= largest
        BY <2>3, <3>1 DEF OnePastAtMost
      <3>3. CASE Insert(t, "leave")
        <4>1. Len(queue) < largest
          BY <2>1, <2>3, <3>1, <3>3 DEF OnePastAtMost, Insert
        <4> QED
          BY <1>0, <3>3, <4>1, FunctorLengths
      <3> QED
        BY <1>0, <1>3, <3>2, <3>3, FunctorLengths
    <2>4. ASSUME NEW u \in Threads, Admitted(u)', pc'[u] \in {"relock", "dropCond", "func"}
          PROVE  Len(queue') <= largest'
      <3>1. Admitted(u) /\ pc'[u] = "relock"
        BY <2>1, <2>2, <2>4 DEF Admitted
      <3> QED
        BY <1>3, <2>3, <3>1
    <2> QED
      BY <2>2, <2>4 DEF OnePastAtMost, Admitted
  <1>4. ASSUME NEW t \in Threads, CallSizedPush(t) \/ CallPop(t) \/ CallTryPop(t),
               largest' = largest
        PROVE  OnePastAtMost'
    <2>1. /\ queue' = queue
          /\ \A u \in Threads :
               pc'[u] # "enter" => pc'[u] = pc[u] /\ op'[u] = op[u] /\ mode'[u] = mode[u]
      BY <1>4 DEF CallSizedPush, CallPop, CallTryPop, Begin, Goto
    <2> QED
      BY <1>4, <2>1 DEF OnePastAtMost, Admitted
  <1> QED
    BY <1>1, <1>2, <1>3, <1>4, SizedSteps

(* A push adds its item where there is room, or goes one past.              *)
LEMMA OvershootStep ==
  ASSUME SizedIInv, SizedNext PROVE OvershootAtMostOne'
  <1> USE DEF SizedIInv, SizedTypeOK, TypeOK, MonitorInv, MonitorTypeOK
  <1>0. /\ Len(queue) \in Nat /\ largest \in Nat /\ capacity \in Nat
        /\ Len(queue) <= largest + 1 /\ SizedTypeOK'
    BY SizedLengths, SizedAssumption, SizedTypeStep DEF OvershootAtMostOne
  <1>1. CASE \E n \in Capacities \ {capacity} : SetCapacity(n)
    BY <1>0, <1>1, SizedAssumption DEF SetCapacity, queueVars, OvershootAtMostOne
  <1>2. ASSUME NEW t \in Threads, Quiet(t), largest' = largest PROVE OvershootAtMostOne'
    BY <1>0, <1>2, QuietSteps DEF OvershootAtMostOne
  <1>3. ASSUME NEW t \in Threads, Insert(t, "leave"), largest' = largest
        PROVE  OvershootAtMostOne'
    <2>1. pc[t] = "func" /\ op[t] \in PushOps
      BY <1>3 DEF Insert, AfterFunc
    <2>2. Len(queue) <= largest
      BY <1>0, <2>1 DEF PushesFindRoom, OnePastAtMost, Admitted
    <2> QED
      BY <1>0, <1>3, <2>2, FunctorLengths DEF OvershootAtMostOne
  <1>4. ASSUME NEW t \in Threads, Remove(t, "signal") \/ RemoveFromEmpty(t, "signal"),
               largest' = largest
        PROVE  OvershootAtMostOne'
    BY <1>0, <1>4, FunctorLengths DEF OvershootAtMostOne
  <1>5. ASSUME NEW t \in Threads, CallSizedPush(t) \/ CallPop(t) \/ CallTryPop(t),
               largest' = largest
        PROVE  OvershootAtMostOne'
    BY <1>0, <1>5 DEF CallSizedPush, CallPop, CallTryPop, OvershootAtMostOne
  <1> QED
    BY <1>1, <1>2, <1>3, <1>4, <1>5, SizedSteps

(* The inductive invariant holds, whatever capacity( n ) is called with and *)
(* whenever.                                                                *)
THEOREM SizedInvariance == SizedSpec => []SizedIInv
  <1>1. SizedIInv /\ [SizedNext]_sizedVars => SizedIInv'
    <2> SUFFICES ASSUME SizedIInv, [SizedNext]_sizedVars PROVE SizedIInv'
      OBVIOUS
    <2>1. CASE SizedNext
      BY <2>1, SizedTypeStep, SizedCallStep, SizedPopsStep, SizedPushesStep, OnePastStep,
         OvershootStep DEF SizedIInv
    <2>2. CASE UNCHANGED sizedVars
      <3>1. MonitorInv'
        BY <2>2, StutterInv DEF sizedVars, monitorVars, SizedIInv, SizedTypeOK, TypeOK
      <3> QED
        BY <2>2, <3>1 DEF sizedVars, SizedIInv, SizedTypeOK, TypeOK, SizedCallInv,
           PopsFindAnItem, PushesFindRoom, OnePastAtMost, Admitted, OvershootAtMostOne, empty
    <2> QED
      BY <2>1, <2>2
  <1> QED
    BY SizedInitIInv, <1>1, PTL DEF SizedSpec

(* A push that waits for room has it, under a capacity that was in force.   *)
THEOREM PushesHaveRoom == SizedSpec => []PushesFindRoom
  BY SizedInvariance, PTL DEF SizedIInv

(* With any number of producers and any mix of ways to push, the queue goes *)
(* past its largest capacity by one item at most.                           *)
THEOREM OvershootBounded == SizedSpec => []OvershootAtMostOne
  BY SizedInvariance, PTL DEF SizedIInv

(* The pops inherited from Queue stay safe in a SizedQueue.                 *)
THEOREM SizedPopsAreSafe == SizedSpec => []PopsFindAnItem
  BY SizedInvariance, PTL DEF SizedIInv
================================================================================
