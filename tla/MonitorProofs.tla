----------------------------- MODULE MonitorProofs -----------------------------
(***************************************************************************)
(* Every step of the locking protocol preserves MonitorInv, for any number  *)
(* of threads and conditions and for both kinds of pthread_cond_wait.       *)
(***************************************************************************)
EXTENDS Monitor, TLAPS

(* An unlocked mutex is a mutex. *)
LEMMA UnlockedType ==
  ASSUME NEW m \in MutexStates PROVE Unlocked(m) \in MutexStates
  BY DEF MutexStates, Unlocked, Free

(* A new monitor: all mutexes free, every thread outside of it. *)
LEMMA MonitorInitInv == MonitorInit => MonitorInv
  <1> SUFFICES ASSUME MonitorInit PROVE MonitorInv
    OBVIOUS
  <1> USE CondsAssumption, ThreadsAssumption
  <1> USE DEF MonitorInit
  <1>1. MonitorTypeOK
    BY DEF MonitorTypeOK, MutexStates, Free, Pcs, Modes
  <1>2. GuardInv
    BY DEF GuardInv, DepthOK, HeldExactlyBy, PcHoldingGuard, Free
  <1>3. CondInv
    BY DEF CondInv, DepthOK, HeldExactlyBy, PcHoldingCond, Free
  <1>4. WaitersInv
    BY DEF WaitersInv
  <1> QED
    BY <1>1, <1>2, <1>3, <1>4 DEF MonitorInv

(* A call begins: nothing is locked yet. *)
LEMMA BeginInv ==
  ASSUME MonitorInv, NEW t \in Threads, NEW m \in Modes, NEW c \in Conds, Begin(t, m, c)
  PROVE  MonitorInv'
  <1> USE DEF MonitorInv, MonitorTypeOK, Begin, Goto
  <1>1. MonitorTypeOK'
    BY DEF Pcs
  <1>2. GuardInv'
    BY DEF GuardInv, DepthOK, HeldExactlyBy, PcHoldingGuard
  <1>3. CondInv'
    BY DEF CondInv, DepthOK, HeldExactlyBy, PcHoldingCond
  <1>4. WaitersInv'
    BY DEF WaitersInv
  <1> QED
    BY <1>1, <1>2, <1>3, <1>4

(* _guard.lock() at the start of every call. *)
LEMMA EnterInv ==
  ASSUME MonitorInv, NEW t \in Threads, Enter(t) PROVE MonitorInv'
  <1> USE ThreadsAssumption
  <1> USE DEF MonitorInv, MonitorTypeOK, Enter, Goto
  <1>1. MonitorTypeOK'
    BY DEF Pcs, PcHoldingGuard, MutexStates, Locked
  <1>2. GuardInv'
    BY DEF GuardInv, DepthOK, HeldExactlyBy, PcHoldingGuard, MutexStates, Locked, CanLock
  <1>3. CondInv'
    BY DEF CondInv, DepthOK, HeldExactlyBy, PcHoldingCond
  <1>4. WaitersInv'
    BY DEF WaitersInv, Modes
  <1> QED
    BY <1>1, <1>2, <1>3, <1>4

(* _notEmpty.lock(), with _guard held. *)
LEMMA LockCondInv ==
  ASSUME MonitorInv, NEW t \in Threads, LockCond(t) PROVE MonitorInv'
  <1> USE ThreadsAssumption
  <1> USE DEF MonitorInv, MonitorTypeOK, LockCond, Goto
  <1>1. MonitorTypeOK'
    BY DEF Pcs, PcHoldingGuard, MutexStates, Locked
  <1>2. GuardInv'
    BY DEF GuardInv, DepthOK, HeldExactlyBy, PcHoldingGuard
  <1>3. CondInv'
    BY DEF CondInv, DepthOK, HeldExactlyBy, PcHoldingCond, MutexStates, Locked, CanLock
  <1>4. WaitersInv'
    BY DEF WaitersInv, Modes
  <1> QED
    BY <1>1, <1>2, <1>3, <1>4

(* while ( empty() ), whatever the container holds. *)
LEMMA TestInv ==
  ASSUME MonitorInv, NEW t \in Threads, NEW blocked \in BOOLEAN, Test(t, blocked) PROVE MonitorInv'
  <1> USE ThreadsAssumption
  <1> USE DEF MonitorInv, MonitorTypeOK, Test, Goto
  <1>1. MonitorTypeOK'
    BY DEF Pcs, PcHoldingGuard, Modes
  <1>2. GuardInv'
    BY DEF GuardInv, DepthOK, HeldExactlyBy, PcHoldingGuard
  <1>3. CondInv'
    BY DEF CondInv, DepthOK, HeldExactlyBy, PcHoldingCond
  <1>4. WaitersInv'
    BY DEF WaitersInv, Modes
  <1> QED
    BY <1>1, <1>2, <1>3, <1>4

(* _guard.unlock() before the wait frees the guard: it was held once. *)
LEMMA ReleaseGuardInv ==
  ASSUME MonitorInv, NEW t \in Threads, ReleaseGuard(t) PROVE MonitorInv'
  <1> USE ThreadsAssumption
  <1> USE DEF MonitorInv, MonitorTypeOK, ReleaseGuard, Goto
  <1>1. MonitorTypeOK'
    BY DEF Pcs, PcHoldingGuard, Modes, MutexStates, Unlocked, Free
  <1>2. GuardInv'
    BY DEF GuardInv, DepthOK, HeldExactlyBy, PcHoldingGuard, MutexStates, Unlocked, Free
  <1>3. CondInv'
    BY DEF CondInv, DepthOK, HeldExactlyBy, PcHoldingCond
  <1>4. WaitersInv'
    BY DEF WaitersInv, Modes
  <1> QED
    BY <1>1, <1>2, <1>3, <1>4

(* Going to sleep: who holds the condition's mutex then depends on the    *)
(* library, and PcHoldingCond says which.                                 *)
LEMMA SleepInv ==
  ASSUME MonitorInv, NEW t \in Threads, Sleep(t) PROVE MonitorInv'
  <1> USE ThreadsAssumption
  <1> USE DEF MonitorInv, MonitorTypeOK, Sleep, Goto
  <1>1. MonitorTypeOK'
    BY DEF Pcs, PcHoldingGuard, Modes, MutexStates, Asleep, Locked, Unlocked, Free
  <1>2. GuardInv'
    BY DEF GuardInv, DepthOK, HeldExactlyBy, PcHoldingGuard
  <1>3. CondInv'
    BY DEF CondInv, DepthOK, HeldExactlyBy, PcHoldingCond, MutexStates, Asleep, Locked, Unlocked, Free
  <1>4. WaitersInv'
    BY DEF WaitersInv, Modes
  <1> QED
    BY <1>1, <1>2, <1>3, <1>4

(* A wake-up nobody signalled. *)
LEMMA SpuriousWakeupInv ==
  ASSUME MonitorInv, NEW t \in Threads, SpuriousWakeup(t) PROVE MonitorInv'
  <1> USE ThreadsAssumption
  <1> USE DEF MonitorInv, MonitorTypeOK, SpuriousWakeup, Goto
  <1>1. MonitorTypeOK'
    BY DEF Pcs, PcHoldingGuard, Modes
  <1>2. GuardInv'
    BY DEF GuardInv, DepthOK, HeldExactlyBy, PcHoldingGuard
  <1>3. CondInv'
    BY DEF CondInv, DepthOK, HeldExactlyBy, PcHoldingCond
  <1>4. WaitersInv'
    BY DEF WaitersInv
  <1> QED
    BY <1>1, <1>2, <1>3, <1>4

(* A timeout. *)
LEMMA TimeoutInv ==
  ASSUME MonitorInv, NEW t \in Threads, Timeout(t) PROVE MonitorInv'
  <1> USE ThreadsAssumption
  <1> USE DEF MonitorInv, MonitorTypeOK, Timeout, Goto
  <1>1. MonitorTypeOK'
    BY DEF Pcs, PcHoldingGuard, Modes
  <1>2. GuardInv'
    BY DEF GuardInv, DepthOK, HeldExactlyBy, PcHoldingGuard
  <1>3. CondInv'
    BY DEF CondInv, DepthOK, HeldExactlyBy, PcHoldingCond
  <1>4. WaitersInv'
    BY DEF WaitersInv
  <1> QED
    BY <1>1, <1>2, <1>3, <1>4

(* Waking up, with the condition's mutex back at the depth before wait(). *)
LEMMA WakeInv ==
  ASSUME MonitorInv, NEW t \in Threads, Wake(t) PROVE MonitorInv'
  <1> USE ThreadsAssumption
  <1> USE DEF MonitorInv, MonitorTypeOK, Wake, Goto
  <1>1. MonitorTypeOK'
    BY DEF Pcs, PcHoldingGuard, Modes, MutexStates, Awake, Locked, Unlocked, Free
  <1>2. GuardInv'
    BY DEF GuardInv, DepthOK, HeldExactlyBy, PcHoldingGuard
  <1>3. CondInv'
    BY DEF CondInv, DepthOK, HeldExactlyBy, PcHoldingCond, MutexStates, Awake, Locked, Unlocked, Free, CanLock
  <1>4. WaitersInv'
    BY DEF WaitersInv, Modes
  <1> QED
    BY <1>1, <1>2, <1>3, <1>4

(* The timed call's second look at the container. *)
LEMMA RecheckInv ==
  ASSUME MonitorInv, NEW t \in Threads, NEW blocked \in BOOLEAN, Recheck(t, blocked) PROVE MonitorInv'
  <1> USE ThreadsAssumption
  <1> USE DEF MonitorInv, MonitorTypeOK, Recheck, Goto
  <1>1. MonitorTypeOK'
    BY DEF Pcs, PcHoldingGuard, Modes
  <1>2. GuardInv'
    BY DEF GuardInv, DepthOK, HeldExactlyBy, PcHoldingGuard
  <1>3. CondInv'
    BY DEF CondInv, DepthOK, HeldExactlyBy, PcHoldingCond
  <1>4. WaitersInv'
    BY DEF WaitersInv, Modes
  <1> QED
    BY <1>1, <1>2, <1>3, <1>4

(* return false. *)
LEMMA GiveUpInv ==
  ASSUME MonitorInv, NEW t \in Threads, GiveUp(t) PROVE MonitorInv'
  <1> USE ThreadsAssumption
  <1> USE DEF MonitorInv, MonitorTypeOK, GiveUp, Goto
  <1>1. MonitorTypeOK'
    <2>1. Unlocked(cond[on[t]]) \in MutexStates
      BY UnlockedType
    <2> QED
      BY <2>1 DEF Pcs, PcHoldingGuard
  <1>2. GuardInv'
    BY DEF GuardInv, DepthOK, HeldExactlyBy, PcHoldingGuard
  <1>3. CondInv'
    BY DEF CondInv, DepthOK, HeldExactlyBy, PcHoldingCond, MutexStates, Unlocked, Free
  <1>4. WaitersInv'
    BY DEF WaitersInv
  <1> QED
    BY <1>1, <1>2, <1>3, <1>4

(* _guard.lock() after the wait. *)
LEMMA RelockInv ==
  ASSUME MonitorInv, NEW t \in Threads, Relock(t) PROVE MonitorInv'
  <1> USE ThreadsAssumption
  <1> USE DEF MonitorInv, MonitorTypeOK, Relock, Goto
  <1>1. MonitorTypeOK'
    BY DEF Pcs, PcHoldingGuard, Modes, MutexStates, Locked
  <1>2. GuardInv'
    BY DEF GuardInv, DepthOK, HeldExactlyBy, PcHoldingGuard, MutexStates, Locked, CanLock
  <1>3. CondInv'
    BY DEF CondInv, DepthOK, HeldExactlyBy, PcHoldingCond
  <1>4. WaitersInv'
    BY DEF WaitersInv, Modes
  <1> QED
    BY <1>1, <1>2, <1>3, <1>4

(* _notEmpty.unlock() after the wait. *)
LEMMA DropCondInv ==
  ASSUME MonitorInv, NEW t \in Threads, DropCond(t) PROVE MonitorInv'
  <1> USE ThreadsAssumption
  <1> USE DEF MonitorInv, MonitorTypeOK, DropCond, Goto
  <1>1. MonitorTypeOK'
    <2>1. Unlocked(cond[on[t]]) \in MutexStates
      BY UnlockedType
    <2> QED
      BY <2>1 DEF Pcs, PcHoldingGuard
  <1>2. GuardInv'
    BY DEF GuardInv, DepthOK, HeldExactlyBy, PcHoldingGuard
  <1>3. CondInv'
    BY DEF CondInv, DepthOK, HeldExactlyBy, PcHoldingCond, MutexStates, Unlocked, Free
  <1>4. WaitersInv'
    BY DEF WaitersInv, Modes
  <1> QED
    BY <1>1, <1>2, <1>3, <1>4

(* The functor, which runs under the guard and leaves the mutexes alone. *)
LEMMA AfterFuncInv ==
  ASSUME MonitorInv, NEW t \in Threads, NEW next \in {"signal", "leave"}, AfterFunc(t, next)
  PROVE  MonitorInv'
  <1> USE ThreadsAssumption
  <1> USE DEF MonitorInv, MonitorTypeOK, AfterFunc, Goto
  <1>1. MonitorTypeOK'
    BY DEF Pcs, PcHoldingGuard, Modes
  <1>2. GuardInv'
    BY DEF GuardInv, DepthOK, HeldExactlyBy, PcHoldingGuard
  <1>3. CondInv'
    BY DEF CondInv, DepthOK, HeldExactlyBy, PcHoldingCond
  <1>4. WaitersInv'
    BY DEF WaitersInv
  <1> QED
    BY <1>1, <1>2, <1>3, <1>4

(* signalOne() takes at most one thread off the waiting list. *)
LEMMA SignalInv ==
  ASSUME MonitorInv, NEW t \in Threads, NEW c \in Conds, Signal(t, c) PROVE MonitorInv'
  <1> USE ThreadsAssumption
  <1> USE DEF MonitorInv, MonitorTypeOK, Signal, Goto
  <1>1. MonitorTypeOK'
    BY DEF Pcs, PcHoldingGuard, Modes, AfterSignalOne
  <1>2. GuardInv'
    BY DEF GuardInv, DepthOK, HeldExactlyBy, PcHoldingGuard
  <1>3. CondInv'
    BY DEF CondInv, DepthOK, HeldExactlyBy, PcHoldingCond
  <1>4. WaitersInv'
    BY DEF WaitersInv, AfterSignalOne
  <1> QED
    BY <1>1, <1>2, <1>3, <1>4

(* _guard.unlock() at the end of every call. *)
LEMMA LeaveInv ==
  ASSUME MonitorInv, NEW t \in Threads, Leave(t) PROVE MonitorInv'
  <1> USE ThreadsAssumption
  <1> USE DEF MonitorInv, MonitorTypeOK, Leave, Goto
  <1>1. MonitorTypeOK'
    BY DEF Pcs, PcHoldingGuard, Modes, MutexStates, Unlocked, Free
  <1>2. GuardInv'
    BY DEF GuardInv, DepthOK, HeldExactlyBy, PcHoldingGuard, MutexStates, Unlocked, Free
  <1>3. CondInv'
    BY DEF CondInv, DepthOK, HeldExactlyBy, PcHoldingCond
  <1>4. WaitersInv'
    BY DEF WaitersInv
  <1> QED
    BY <1>1, <1>2, <1>3, <1>4

(* All the steps that do not look at the container, in one. *)
LEMMA ProtocolInv ==
  ASSUME MonitorInv, NEW t \in Threads, Protocol(t) PROVE MonitorInv'
  BY EnterInv, LockCondInv, ReleaseGuardInv, SleepInv, WakeInv, GiveUpInv,
     RelockInv, DropCondInv, LeaveInv DEF Protocol

(* Steps that leave the monitor alone. *)
LEMMA StutterInv ==
  ASSUME MonitorInv, UNCHANGED monitorVars PROVE MonitorInv'
  BY DEF monitorVars, MonitorInv, MonitorTypeOK, GuardInv, CondInv, WaitersInv,
         DepthOK, HeldExactlyBy
================================================================================
