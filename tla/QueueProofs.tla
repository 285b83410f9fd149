------------------------------ MODULE QueueProofs ------------------------------
(***************************************************************************)
(* Theorems about Queue for any set of threads, any programs, any number of *)
(* items and both kinds of pthread_cond_wait.                               *)
(***************************************************************************)
EXTENDS Queue, MonitorProofs, SequenceTheorems

(* Two ways to group three sequences. *)
LEMMA Regrouped ==
  ASSUME NEW S, NEW r \in Seq(S), NEW q \in Seq(S), NEW t \in Seq(S)
  PROVE  (r \o q) \o t = r \o (q \o t)
  <1> DEFINE cat(x, y) == x \o y
  <1>1. \A T : \A x, y, z \in Seq(T) : cat(cat(x, y), z) = cat(x, cat(y, z))
    BY ConcatAssociative, Zenon
  <1> HIDE DEF cat
  <1>2. cat(cat(r, q), t) = cat(r, cat(q, t))
    BY ONLY <1>1, r \in Seq(S), q \in Seq(S), t \in Seq(S)
  <1> QED
    BY <1>2 DEF cat

(* Appending to the second of two sequences appends to both.                *)
LEMMA AppendAfter ==
  ASSUME NEW S, NEW r \in Seq(S), NEW q \in Seq(S), NEW x \in S
  PROVE  Append(r \o q, x) = r \o Append(q, x)
  <1>1. <<x>> \in Seq(S) /\ r \o q \in Seq(S)
    BY ConcatProperties
  <1>2. Append(r \o q, x) = (r \o q) \o <<x>> /\ Append(q, x) = q \o <<x>>
    BY <1>1, AppendIsConcat
  <1>3. PICK t : t = <<x>>
    OBVIOUS
  <1>4. (r \o q) \o t = r \o (q \o t)
    BY <1>1, <1>3, Regrouped
  <1> QED
    BY <1>2, <1>3, <1>4

(* Moving the head of one sequence to the end of another changes nothing    *)
(* about the two together.                                                  *)
LEMMA MoveHead ==
  ASSUME NEW S, NEW r \in Seq(S), NEW q \in Seq(S), q # <<>>
  PROVE  r \o q = Append(r, Head(q)) \o Tail(q)
  <1>1. Head(q) \in S /\ Tail(q) \in Seq(S) /\ <<Head(q)>> \in Seq(S)
    BY HeadTailProperties
  <1>2. q = <<Head(q)>> \o Tail(q)
    <2>1. 1 \in 1..Len(q) /\ Len(q) \in 1..Len(q)
      BY EmptySeq, LenProperties
    <2>2. SubSeq(q, 1, Len(q)) = <<q[1]>> \o SubSeq(q, 1 + 1, Len(q))
      BY <2>1, SubSeqRecursiveFirst
    <2>3. Tail(q) = SubSeq(q, 1 + 1, Len(q))
      BY TailIsSubSeq
    <2> QED
      BY <2>2, <2>3, SubSeqFull
  <1>3. Append(r, Head(q)) = r \o <<Head(q)>>
    BY <1>1, AppendIsConcat
  <1>4. r \o (<<Head(q)>> \o Tail(q)) = (r \o <<Head(q)>>) \o Tail(q)
    <2>1. PICK h, t : h = <<Head(q)>> /\ t = Tail(q)
      OBVIOUS
    <2>2. (r \o h) \o t = r \o (h \o t)
      BY <1>1, <2>1, Regrouped
    <2> QED
      BY <2>1, <2>2
  <1> QED
    BY <1>2, <1>3, <1>4

(* The empty queue that nobody uses. *)
LEMMA InitIInv == Init => IInv
  <1> SUFFICES ASSUME Init PROVE IInv
    OBVIOUS
  <1>1. MonitorInv
    BY MonitorInitInv DEF Init
  <1>2. TypeOK
    <2>1. queue \in Seq(Items) /\ pushed \in Seq(Items) /\ removed \in Seq(Items)
      BY EmptySeq DEF Init, QueueInit
    <2>2. op \in [Threads -> Ops]
      BY DEF Init, QueueInit, Ops, PushOps
    <2> QED
      BY <1>1, <2>1, <2>2 DEF TypeOK, Init, QueueInit
  <1>3. CallInv /\ PopsFindAnItem /\ TimedPopsFindAnItem
    BY DEF CallInv, PopsFindAnItem, TimedPopsFindAnItem, Init, MonitorInit
  <1> QED
    BY <1>2, <1>3 DEF IInv

(* The monitor's part of every step preserves MonitorInv. *)
LEMMA MonitorStepInv ==
  ASSUME IInv, Next PROVE MonitorInv'
  <1>0. MonitorInv /\ "notEmpty" \in Conds /\ empty \in BOOLEAN
    BY QueueAssumption DEF IInv, TypeOK, empty
  <1> PICK t \in Threads : Step(t) \/ Environment(t)
    BY DEF Next
  <1>1. CASE Protocol(t) \/ Test(t, empty) \/ Recheck(t, empty) \/ Signal(t, "notEmpty")
    BY <1>0, <1>1, ProtocolInv, TestInv, RecheckInv, SignalInv
  <1>2. CASE Insert(t, "signal") \/ Remove(t, "leave") \/ RemoveFromEmpty(t, "leave")
    BY <1>0, <1>2, AfterFuncInv DEF Insert, Remove, RemoveFromEmpty
  <1>3. CASE CallPush(t) \/ CallPop(t) \/ CallTryPop(t)
    BY <1>0, <1>3, BeginInv DEF CallPush, CallPop, CallTryPop, Modes
  <1>4. CASE SpuriousWakeup(t) \/ Timeout(t)
    BY <1>0, <1>4, SpuriousWakeupInv, TimeoutInv
  <1> QED
    BY <1>1, <1>2, <1>3, <1>4 DEF Step, Environment

(* The types of the container and of the history. *)
LEMMA TypeStep ==
  ASSUME IInv, Next PROVE TypeOK'
  <1>0. MonitorInv'
    BY MonitorStepInv
  <1> USE DEF IInv, TypeOK
  <1> SUFFICES (UNCHANGED queueVars) \/
               (/\ queue' \in Seq(Items)
                /\ op' \in [Threads -> Ops]
                /\ item' \in [Threads -> Items \cup {NoItem}]
                /\ unused' \in SUBSET Items
                /\ pushed' \in Seq(Items)
                /\ removed' \in Seq(Items)
                /\ undefined' \in BOOLEAN)
    BY <1>0 DEF queueVars
  <1> PICK t \in Threads : Step(t) \/ Environment(t)
    BY DEF Next
  <1>1. CASE Insert(t, "signal")
    <2>1. item[t] \in Items
      BY <1>1 DEF Insert, AfterFunc, CallInv
    <2> QED
      BY <1>1, <2>1, AppendProperties, ConcatProperties DEF Insert
  <1>2. CASE Remove(t, "leave")
    <2>1. queue # <<>>
      BY <1>2 DEF Remove, empty
    <2>2. /\ Len(queue) \in 1..Len(queue) /\ Head(queue) \in Items
          /\ Tail(queue) \in Seq(Items) /\ queue[Len(queue)] \in Items
      BY <2>1, EmptySeq, HeadTailProperties, ElementOfSeq, LenProperties
    <2>3. SubSeq(queue, 1, Len(queue) - 1) \in Seq(Items)
      BY <2>1, <2>2, SubSeqProperties
    <2> QED
      BY <1>2, <2>2, <2>3, AppendProperties DEF Remove
  <1>3. CASE RemoveFromEmpty(t, "leave")
    BY <1>3 DEF RemoveFromEmpty
  <1>4. CASE CallPush(t) \/ CallPop(t) \/ CallTryPop(t)
    BY <1>4, QueueAssumption
    DEF CallPush, CallPop, CallTryPop, Ops
  <1> QED
    BY <1>1, <1>2, <1>3, <1>4 DEF Step, Environment

(* A thread stays in the member function it called. *)
LEMMA CallStep ==
  ASSUME IInv, Next PROVE CallInv'
  <1> USE DEF IInv, TypeOK, MonitorInv, MonitorTypeOK, CallInv
  <1> PICK t \in Threads : Step(t) \/ Environment(t)
    BY DEF Next
  <1>1. CASE CallPush(t) \/ CallPop(t) \/ CallTryPop(t)
    BY <1>1 DEF CallPush, CallPop, CallTryPop, Begin, Goto, PushOps, PopOps, TryOps
  <1>2. CASE Insert(t, "signal") \/ Remove(t, "leave") \/ RemoveFromEmpty(t, "leave")
    BY <1>2 DEF Insert, Remove, RemoveFromEmpty, AfterFunc, Goto
  <1>3. CASE /\ \/ Protocol(t) \/ Test(t, empty) \/ Recheck(t, empty)
                \/ Signal(t, "notEmpty") \/ SpuriousWakeup(t) \/ Timeout(t)
             /\ UNCHANGED queueVars
    <2>1. UNCHANGED <<op, item, mode>> /\ \A u \in Threads : pc'[u] # "idle" => pc[u] # "idle"
      BY <1>3 DEF queueVars, Protocol, Enter, Test, LockCond, ReleaseGuard, Sleep,
         Wake, Recheck, GiveUp, Relock, DropCond, Leave, Signal, SpuriousWakeup, Timeout, Goto
    <2> QED
      BY <2>1
  <1> QED
    BY <1>1, <1>2, <1>3 DEF Step, Environment

(* Only the thread whose call is in its functor changes the deque; it has   *)
(* the guard, and with it nobody else is between a test and a functor.      *)
LEMMA QueueChanges ==
  ASSUME IInv, NEW t \in Threads, Step(t) \/ Environment(t), queue' # queue
  PROVE  /\ pc[t] = "func"
         /\ \A u \in Threads \ {t} : pc[u] \notin PcHoldingGuard /\ pc'[u] = pc[u]
         /\ UNCHANGED <<op, mode>>
  <1>1. pc[t] = "func" /\ pc' = [pc EXCEPT ![t] = pc'[t]] /\ UNCHANGED <<op, mode>>
    BY DEF Step, Environment, Insert, Remove, RemoveFromEmpty, AfterFunc, Goto,
       CallPush, CallPop, CallTryPop, queueVars, IInv, TypeOK, MonitorInv, MonitorTypeOK
  <1> QED
    BY <1>1 DEF IInv, TypeOK, MonitorInv, MonitorTypeOK, GuardInv, HeldExactlyBy,
       PcHoldingGuard

(* Between the last empty() of whenNotEmpty and the functor the deque does  *)
(* not change.                                                              *)
LEMMA PopsFindAnItemStep ==
  ASSUME IInv, Next PROVE PopsFindAnItem'
  <1> USE DEF IInv, TypeOK, MonitorInv, MonitorTypeOK
  <1>0. CallInv'
    BY CallStep
  <1> SUFFICES ASSUME NEW u \in Threads, pc'[u] = "func", op'[u] \in PopOps
               PROVE  ~empty'
    BY DEF PopsFindAnItem
  <1>1. mode'[u] = "when"
    BY <1>0 DEF CallInv, PushOps, PopOps
  <1> PICK t \in Threads : Step(t) \/ Environment(t)
    BY DEF Next
  <1>2. CASE queue' # queue
    BY <1>2, QueueChanges DEF PcHoldingGuard, Step, Environment, Insert, Remove,
       RemoveFromEmpty, AfterFunc, Goto, CallPush, CallPop, CallTryPop, queueVars
  <1>3. CASE queue' = queue /\ pc[u] = "func"
    <2>1. op'[u] = op[u]
      BY <1>3 DEF Step, Environment, Insert, Remove, RemoveFromEmpty, queueVars,
         CallPush, CallPop, CallTryPop, Begin
    <2> QED
      BY <1>3, <2>1 DEF PopsFindAnItem, empty
  <1>4. CASE queue' = queue /\ pc[u] # "func"
    <2>1. u = t /\ Test(t, empty)
      BY <1>1, <1>4 DEF Step, Environment, Insert, Remove, RemoveFromEmpty, queueVars,
         CallPush, CallPop, CallTryPop, Begin, Protocol, Enter, Test, LockCond,
         ReleaseGuard, Sleep, Wake, Recheck, GiveUp, Relock, DropCond, Leave, Signal,
         SpuriousWakeup, Timeout, AfterFunc, Goto
    <2> QED
      BY <1>4, <2>1 DEF Test, Goto, empty
  <1> QED
    BY <1>2, <1>3, <1>4

(* With a single consumer the same holds from the second empty() of         *)
(* ifNotEmpty to its functor: other threads can only add to the deque.      *)
LEMMA TimedPopsFindAnItemStep ==
  ASSUME IInv, Next PROVE TimedPopsFindAnItem'
  <1> USE DEF IInv, TypeOK, MonitorInv, MonitorTypeOK
  <1>0. CallInv' /\ WaitersInv /\ CallInv
    BY CallStep
  <1> SUFFICES ASSUME SingleConsumer, NEW u \in Threads, op'[u] \in TryOps,
                      pc'[u] \in {"relock", "dropCond", "func"}
               PROVE  ~empty'
    BY DEF TimedPopsFindAnItem, SingleConsumer, Consumers
  <1>1. mode'[u] = "if" /\ u \in Consumers
    BY <1>0 DEF CallInv, Consumers, PushOps, PopOps, TryOps
  <1> PICK t \in Threads : Step(t) \/ Environment(t)
    BY DEF Next
  <1>2. CASE queue' # queue
    <2>1. /\ pc[t] = "func" /\ pc'[t] \in {"signal", "leave"} /\ op' = op
          /\ Insert(t, "signal") \/ Remove(t, "leave") \/ RemoveFromEmpty(t, "leave")
      BY <1>2, QueueChanges DEF Step, Environment, Insert, Remove, RemoveFromEmpty,
         AfterFunc, Goto, CallPush, CallPop, CallTryPop, queueVars
    <2>2. op[t] \in PushOps
      <3>1. t # u
        BY <2>1
      <3>2. t \notin Consumers
        BY <1>1, <3>1 DEF SingleConsumer, Consumers
      <3> QED
        BY <1>0, <2>1, <3>2 DEF CallInv, Consumers, Ops
    <2>3. item[t] \in Items /\ queue \in Seq(Items)
      BY <1>0, <2>1, <2>2 DEF CallInv
    <2>4. Len(Append(queue, item[t])) > 0 /\ Len(<<item[t]>> \o queue) > 0
      BY <2>3, AppendProperties, ConcatProperties, LenProperties
    <2> QED
      BY <2>1, <2>2, <2>4 DEF Insert, Remove, RemoveFromEmpty, empty
  <1>3. CASE queue' = queue /\ pc[u] \in {"relock", "dropCond", "func"}
    <2>1. op'[u] = op[u]
      BY <1>3 DEF Step, Environment, Insert, Remove, RemoveFromEmpty, queueVars,
         CallPush, CallPop, CallTryPop, Begin
    <2> QED
      BY <1>3, <2>1 DEF TimedPopsFindAnItem, empty
  <1>4. CASE queue' = queue /\ pc[u] \notin {"relock", "dropCond", "func"}
    <2>1. u = t /\ (Test(t, empty) \/ Recheck(t, empty))
      BY <1>1, <1>4 DEF Step, Environment, Insert, Remove, RemoveFromEmpty, queueVars,
         CallPush, CallPop, CallTryPop, Begin, Protocol, Enter, Test, LockCond,
         ReleaseGuard, Sleep, Wake, Recheck, GiveUp, Relock, DropCond, Leave, Signal,
         SpuriousWakeup, Timeout, AfterFunc, Goto
    <2> QED
      BY <1>4, <2>1 DEF Test, Recheck, Goto, empty
  <1> QED
    BY <1>2, <1>3, <1>4

(* The inductive invariant holds. *)
THEOREM Invariance == Spec => []IInv
  <1>1. IInv /\ [Next]_vars => IInv'
    <2> SUFFICES ASSUME IInv, [Next]_vars PROVE IInv'
      OBVIOUS
    <2>1. CASE Next
      BY <2>1, TypeStep, CallStep, PopsFindAnItemStep, TimedPopsFindAnItemStep DEF IInv
    <2>2. CASE UNCHANGED vars
      <3>1. MonitorInv'
        BY <2>2, StutterInv DEF vars, monitorVars, IInv, TypeOK
      <3> QED
        BY <2>2, <3>1 DEF vars, IInv, TypeOK, CallInv, PopsFindAnItem,
           TimedPopsFindAnItem, empty, SingleConsumer, Consumers
    <2> QED
      BY <2>1, <2>2
  <1> QED
    BY InitIInv, <1>1, PTL DEF Spec

(* TypeOK, which includes who holds which mutex. *)
THEOREM TypeCorrect == Spec => []TypeOK
  BY Invariance, PTL DEF IInv

(* A pop without a timeout never pops an empty deque, for any number of     *)
(* consumers.                                                               *)
THEOREM PopsAreSafe == Spec => []PopsFindAnItem
  BY Invariance, PTL DEF IInv

(* The calls of a program that pops with a timeout from one thread only, or *)
(* not at all, never pop an empty deque.                                    *)
NoRacingTimedPop == SingleConsumer \/ \A t \in Threads : Program[t] \cap TryOps = {}

LEMMA NoRemoveFromEmpty ==
  ASSUME IInv, NoRacingTimedPop, NEW t \in Threads
  PROVE  ~RemoveFromEmpty(t, "leave")
  BY DEF IInv, TypeOK, NoRacingTimedPop, CallInv, PopsFindAnItem, TimedPopsFindAnItem,
     RemoveFromEmpty, AfterFunc, Ops

THEOREM PopsAreDefined ==
  ASSUME NoRacingTimedPop PROVE Spec => []NoUndefinedPop
  <1>1. Init => NoUndefinedPop
    BY DEF Init, QueueInit, NoUndefinedPop
  <1>2. IInv /\ NoUndefinedPop /\ [Next]_vars => NoUndefinedPop'
    BY NoRemoveFromEmpty DEF NoUndefinedPop, vars, Next, Step, Environment, queueVars,
       Insert, Remove, CallPush, CallPop, CallTryPop
  <1> QED
    BY <1>1, <1>2, Invariance, PTL DEF Spec

(* Used as a FIFO the queue preserves order and loses nothing, for any      *)
(* number of producers and consumers, with or without timeouts.             *)
THEOREM FifoOrderHolds == Spec => []FifoOrder
  <1>1. Init => FifoOrder
    <2> SUFFICES ASSUME Init PROVE <<>> = <<>> \o <<>>
      BY DEF Init, QueueInit, FifoOrder
    <2> QED
      BY ConcatEmptySeq, EmptySeq
  <1>2. IInv /\ FifoOrder /\ [Next]_vars => FifoOrder'
    <2> SUFFICES ASSUME IInv, [Next]_vars, UsedAsFifo, pushed = removed \o queue
                 PROVE  pushed' = removed' \o queue'
      BY DEF FifoOrder, UsedAsFifo
    <2> USE DEF IInv, TypeOK
    <2>1. CASE UNCHANGED vars
      BY <2>1 DEF vars
    <2>2. CASE Next
      <3> PICK t \in Threads : Step(t) \/ Environment(t)
        BY <2>2 DEF Next
      <3>1. CASE Insert(t, "signal")
        <4>1. item[t] \in Items /\ op[t] = "push_back"
          BY <3>1 DEF Insert, AfterFunc, CallInv, UsedAsFifo, PushOps
        <4>2. Append(removed \o queue, item[t]) = removed \o Append(queue, item[t])
          <5>1. \A r, q \in Seq(Items) : \A x \in Items :
                   Append(r \o q, x) = r \o Append(q, x)
            BY AppendAfter
          <5> HIDE DEF IInv, TypeOK
          <5>2. removed \in Seq(Items) /\ queue \in Seq(Items)
            BY DEF IInv, TypeOK
          <5> QED
            BY ONLY <4>1, <5>1, <5>2, Zenon
        <4> QED
          BY <3>1, <4>1, <4>2 DEF Insert
      <3>2. CASE Remove(t, "leave")
        <4>1. op[t] \in {"pop_front", "try_pop_front"} /\ queue # <<>>
          BY <3>2 DEF Remove, AfterFunc, CallInv, UsedAsFifo, PushOps, PopOps, TryOps,
             Ops, empty
        <4>2. /\ removed' = Append(removed, Head(queue))
              /\ queue' = Tail(queue)
              /\ pushed' = pushed
          BY <3>2, <4>1 DEF Remove
        <4>3. removed \o queue = Append(removed, Head(queue)) \o Tail(queue)
          BY <4>1, MoveHead
        <4> QED
          BY <4>2, <4>3
      <3>3. CASE UNCHANGED <<pushed, removed, queue>>
        BY <3>3
      <3> QED
        BY <3>1, <3>2, <3>3 DEF Step, Environment, queueVars, RemoveFromEmpty,
           CallPush, CallPop, CallTryPop
    <2> QED
      BY <2>1, <2>2
  <1> QED
    BY <1>1, <1>2, Invariance, PTL DEF Spec

(* Where a step of one thread leads, QueueSpec's status follows. *)
LEMMA StatusStep ==
  ASSUME IInv, NEW t \in Threads, NEW label \in Pcs, Goto(t, label)
  PROVE  callStatus' = [callStatus EXCEPT ![t] =
           IF label = "idle" THEN "idle"
           ELSE IF label \in {"signal", "leave"} THEN "done" ELSE "called"]
  BY DEF callStatus, Goto, IInv, TypeOK, MonitorInv, MonitorTypeOK

(* The monitor steps on the way to the functor do not show, and leaving     *)
(* (with the guard, or empty-handed after a timeout) is the return.         *)
LEMMA MonitorRefines ==
  ASSUME IInv, NEW t \in Threads, UNCHANGED queueVars,
         \/ Protocol(t) \/ Test(t, empty) \/ Recheck(t, empty) \/ Signal(t, "notEmpty")
         \/ SpuriousWakeup(t) \/ Timeout(t)
  PROVE  Abstract!Return(t) \/ UNCHANGED Abstract!vars
  <1> USE DEF IInv, TypeOK, MonitorInv, MonitorTypeOK
  <1>1. CASE GiveUp(t)
    <2>1. callStatus[t] = "called" /\ callStatus' = [callStatus EXCEPT ![t] = "idle"]
      BY <1>1, StatusStep DEF GiveUp, callStatus, Pcs
    <2>2. op[t] \in TryOps
      BY <1>1, QueueAssumption DEF GiveUp, CallInv, WaitersInv, Ops
    <2> QED
      BY <2>1, <2>2 DEF Abstract!Return, queueVars, TryOps
  <1>2. CASE Leave(t)
    <2>1. callStatus[t] = "done" /\ callStatus' = [callStatus EXCEPT ![t] = "idle"]
      BY <1>2, StatusStep DEF Leave, callStatus, Pcs
    <2> QED
      BY <2>1 DEF Abstract!Return, queueVars
  <1>3. CASE \/ Protocol(t) /\ ~GiveUp(t) /\ ~Leave(t)
             \/ Test(t, empty) \/ Recheck(t, empty) \/ Signal(t, "notEmpty")
             \/ SpuriousWakeup(t) \/ Timeout(t)
    <2>1. callStatus' = callStatus
      BY <1>3 DEF Protocol, Enter, Test, LockCond, ReleaseGuard, Sleep, Wake, Recheck,
         Relock, DropCond, Signal, SpuriousWakeup, Timeout, Goto, callStatus
    <2> QED
      BY <2>1 DEF Abstract!vars, queueVars
  <1> QED
    BY <1>1, <1>2, <1>3

(* Each call takes effect at its functor. *)
LEMMA StepRefines ==
  ASSUME IInv, NoRacingTimedPop, Next PROVE Abstract!Next \/ UNCHANGED Abstract!vars
  <1> USE DEF IInv, TypeOK, MonitorInv, MonitorTypeOK
  <1> PICK t \in Threads : Step(t) \/ Environment(t)
    BY DEF Next
  <1>1. CASE Insert(t, "signal")
    <2>1. callStatus[t] = "called" /\ callStatus' = [callStatus EXCEPT ![t] = "done"]
      BY <1>1, StatusStep DEF Insert, AfterFunc, callStatus, Pcs, PcHoldingGuard
    <2>2. Abstract!Push(t)
      BY <1>1, <2>1 DEF Insert, Abstract!Push, PushOps
    <2> QED
      BY <2>2 DEF Abstract!Next
  <1>2. CASE Remove(t, "leave")
    <2>1. callStatus[t] = "called" /\ callStatus' = [callStatus EXCEPT ![t] = "done"]
      BY <1>2, StatusStep DEF Remove, AfterFunc, callStatus, Pcs, PcHoldingGuard
    <2>2. op[t] \in PopOps \cup TryOps
      BY <1>2 DEF Remove, Ops
    <2>3. Abstract!Pop(t)
      BY <1>2, <2>1, <2>2 DEF Remove, Abstract!Pop, PopOps, TryOps, empty
    <2> QED
      BY <2>3 DEF Abstract!Next
  <1>3. CASE CallPush(t) \/ CallPop(t) \/ CallTryPop(t)
    <2>1. callStatus[t] = "idle" /\ callStatus' = [callStatus EXCEPT ![t] = "called"]
      <3>1. pc[t] = "idle" /\ Goto(t, "enter")
        BY <1>3 DEF CallPush, CallPop, CallTryPop, Begin
      <3>2. callStatus[t] = "idle"
        BY <3>1 DEF callStatus
      <3> QED
        BY <3>1, <3>2, StatusStep DEF Pcs
    <2>2. Abstract!Call(t)
      BY <1>3, <2>1 DEF CallPush, CallPop, CallTryPop, Abstract!Call,
         PushOps, PopOps, TryOps
    <2> QED
      BY <2>2 DEF Abstract!Next
  <1> QED
    BY <1>1, <1>2, <1>3, MonitorRefines, NoRemoveFromEmpty
    DEF Step, Environment, Abstract!Next

(* The queue implements QueueSpec in every program whose timed pops come    *)
(* from one consumer, and in every program without timed pops.              *)
THEOREM Implements ==
  ASSUME NoRacingTimedPop PROVE Spec => Linearizable
  <1>1. Init => Abstract!Init
    BY DEF Init, MonitorInit, QueueInit, Abstract!Init, callStatus
  <1>2. IInv /\ [Next]_vars => [Abstract!Next]_(Abstract!vars)
    <2>1. UNCHANGED vars => UNCHANGED Abstract!vars
      BY DEF vars, Abstract!vars, callStatus
    <2> QED
      BY <2>1, StepRefines
  <1> QED
    BY <1>1, <1>2, Invariance, PTL DEF Spec, Linearizable, Abstract!Spec
================================================================================
