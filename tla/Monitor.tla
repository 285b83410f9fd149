-------------------------------- MODULE Monitor --------------------------------
(***************************************************************************)
(* The locking protocol that Queue, SizedQueue and PriorityQueue each spell *)
(* out: one Mutex _guard over the container and one WaitCondition for each  *)
(* reason to wait.  A call goes through the program counters                *)
(*                                                                          *)
(*   enter     _guard.lock()                                                *)
(*   test      while/if ( empty() )                                         *)
(*   condLock  _notEmpty.lock()           -- holding _guard                 *)
(*   release   _guard.unlock()                                              *)
(*   sleep     _notEmpty.wait()           -- not yet on the waiting list    *)
(*   asleep    inside pthread_cond_wait                                     *)
(*   recheck   the second empty() of the timed call                         *)
(*   giveUp    _notEmpty.unlock(); return false                             *)
(*   relock    _guard.lock()              -- holding _notEmpty              *)
(*   dropCond  _notEmpty.unlock()                                           *)
(*   func      func( *this )                                                *)
(*   signal    signalOne()                                                  *)
(*   leave     _guard.unlock(); return                                      *)
(*                                                                          *)
(* Every lock, unlock, wait and signal is a step of its own.  empty() and   *)
(* full() lock _guard again around one read: a step that needs CanLock.     *)
(* The container, and with it whether a call is blocked, belongs to the     *)
(* modules that extend this one.                                            *)
(***************************************************************************)
EXTENDS WaitCondition

CONSTANT Conds   \* the wait conditions: "notEmpty", and "notFull"

ASSUME CondsAssumption == Conds # {}

VARIABLES
  guard,      \* _guard
  cond,       \* cond[c]: the mutex that WaitCondition c is
  waiters,    \* waiters[c]: the threads pthread_cond_wait has put to sleep
  pc,         \* where each thread is
  on,         \* on[t]: the condition t's call may wait for
  mode,       \* mode[t]: the member function that t is in, see Modes
  timedOut    \* timedOut[t]: t's last timed wait ended by ETIMEDOUT

monitorVars == <<guard, cond, waiters, pc, on, mode, timedOut>>

(* "direct": Queue::push_back and push_front, which never wait.             *)
(* "when":   whenNotEmpty, whenNotFull.                                     *)
(* "if":     ifNotEmpty, and ifNotFull with a timeout.                      *)
(* "try":    ifNotFull with timeout 0.0, which skips the wait.              *)
Modes == {"direct", "when", "if", "try"}

PcHoldingGuard == {"test", "condLock", "release", "dropCond", "func", "signal", "leave"}

PcHoldingCond == {"release", "sleep", "recheck", "giveUp", "relock", "dropCond"}
                   \cup IF FullRelease THEN {} ELSE {"asleep"}

Pcs == {"idle", "enter", "asleep"} \cup PcHoldingGuard
         \cup {"sleep", "recheck", "giveUp", "relock"}

MonitorInit ==
  /\ guard = Free
  /\ cond = [c \in Conds |-> Free]
  /\ waiters = [c \in Conds |-> {}]
  /\ pc = [t \in Threads |-> "idle"]
  /\ on = [t \in Threads |-> CHOOSE c \in Conds : TRUE]
  /\ mode = [t \in Threads |-> "direct"]
  /\ timedOut = [t \in Threads |-> FALSE]

Goto(t, label) == pc' = [pc EXCEPT ![t] = label]

(* A thread calls a member function. *)
Begin(t, m, c) ==
  /\ pc[t] = "idle"
  /\ Goto(t, "enter")
  /\ mode' = [mode EXCEPT ![t] = m]
  /\ on' = [on EXCEPT ![t] = c]
  /\ timedOut' = [timedOut EXCEPT ![t] = FALSE]
  /\ UNCHANGED <<guard, cond, waiters>>

Enter(t) ==
  /\ pc[t] = "enter"
  /\ CanLock(guard, t)
  /\ guard' = Locked(guard, t)
  /\ Goto(t, IF mode[t] = "direct" THEN "func" ELSE "test")
  /\ UNCHANGED <<cond, waiters, on, mode, timedOut>>

Test(t, blocked) ==
  /\ pc[t] = "test"
  /\ Goto(t, IF blocked THEN "condLock" ELSE "func")
  /\ UNCHANGED <<guard, cond, waiters, on, mode, timedOut>>

LockCond(t) ==
  /\ pc[t] = "condLock"
  /\ CanLock(cond[on[t]], t)
  /\ cond' = [cond EXCEPT ![on[t]] = Locked(@, t)]
  /\ Goto(t, "release")
  /\ UNCHANGED <<guard, waiters, on, mode, timedOut>>

(* Mutant: the wait begins without giving _guard back. *)
ReleaseGuardForgotten(t) ==
  /\ pc[t] = "release"
  /\ Goto(t, IF mode[t] = "try" THEN "recheck" ELSE "sleep")
  /\ UNCHANGED <<guard, cond, waiters, on, mode, timedOut>>

ReleaseGuard(t) ==
  /\ pc[t] = "release"
  /\ guard' = Unlocked(guard)
  /\ Goto(t, IF mode[t] = "try" THEN "recheck" ELSE "sleep")
  /\ UNCHANGED <<cond, waiters, on, mode, timedOut>>

(* wait() has the mutex already, so its Lock and the release inside         *)
(* pthread_cond_wait come in one step with going to sleep.                  *)
Sleep(t) ==
  /\ pc[t] = "sleep"
  /\ cond' = [cond EXCEPT ![on[t]] = Asleep(@, t)]
  /\ waiters' = [waiters EXCEPT ![on[t]] = @ \cup {t}]
  /\ Goto(t, "asleep")
  /\ UNCHANGED <<guard, on, mode, timedOut>>

(* pthread_cond_wait may return although nobody signalled. *)
SpuriousWakeup(t) ==
  /\ t \in waiters[on[t]]
  /\ waiters' = [waiters EXCEPT ![on[t]] = @ \ {t}]
  /\ UNCHANGED <<guard, cond, pc, on, mode, timedOut>>

(* The timeout of wait( timeout ) expires before a signal arrives. *)
Timeout(t) ==
  /\ mode[t] = "if"
  /\ t \in waiters[on[t]]
  /\ waiters' = [waiters EXCEPT ![on[t]] = @ \ {t}]
  /\ timedOut' = [timedOut EXCEPT ![t] = TRUE]
  /\ UNCHANGED <<guard, cond, pc, on, mode>>

(* Mutant: a timed wait that expired is begun again. *)
WakeWaitsAgain(t) ==
  /\ pc[t] = "asleep"
  /\ t \notin waiters[on[t]]
  /\ CanLock(cond[on[t]], t)
  /\ cond' = [cond EXCEPT ![on[t]] = Awake(@, t)]
  /\ Goto(t, CASE mode[t] = "when" -> "relock"
               [] mode[t] # "when" /\ timedOut[t] -> "sleep"
               [] OTHER -> "recheck")
  /\ UNCHANGED <<guard, waiters, on, mode, timedOut>>

(* wait() returns, once pthread_cond_wait has the mutex again. *)
Wake(t) ==
  /\ pc[t] = "asleep"
  /\ t \notin waiters[on[t]]
  /\ CanLock(cond[on[t]], t)
  /\ cond' = [cond EXCEPT ![on[t]] = Awake(@, t)]
  /\ Goto(t, CASE mode[t] = "when" -> "relock"
               [] mode[t] # "when" /\ timedOut[t] -> "giveUp"
               [] OTHER -> "recheck")
  /\ UNCHANGED <<guard, waiters, on, mode, timedOut>>

(* Mutant: the timed call trusts the signal and does not look again. *)
RecheckSkipped(t, blocked) ==
  /\ pc[t] = "recheck"
  /\ CanLock(guard, t)
  /\ Goto(t, "relock")
  /\ UNCHANGED <<guard, cond, waiters, on, mode, timedOut>>

Recheck(t, blocked) ==
  /\ pc[t] = "recheck"
  /\ CanLock(guard, t)
  /\ Goto(t, IF blocked THEN "giveUp" ELSE "relock")
  /\ UNCHANGED <<guard, cond, waiters, on, mode, timedOut>>

(* Mutant: return false without _notEmpty.unlock(). *)
GiveUpLocked(t) ==
  /\ pc[t] = "giveUp"
  /\ Goto(t, "idle")
  /\ UNCHANGED <<guard, cond, waiters, on, mode, timedOut>>

GiveUp(t) ==
  /\ pc[t] = "giveUp"
  /\ cond' = [cond EXCEPT ![on[t]] = Unlocked(@)]
  /\ Goto(t, "idle")
  /\ UNCHANGED <<guard, waiters, on, mode, timedOut>>

Relock(t) ==
  /\ pc[t] = "relock"
  /\ CanLock(guard, t)
  /\ guard' = Locked(guard, t)
  /\ Goto(t, "dropCond")
  /\ UNCHANGED <<cond, waiters, on, mode, timedOut>>

(* Mutant: whenNotEmpty with if instead of while. *)
DropCondNoLoop(t) ==
  /\ pc[t] = "dropCond"
  /\ cond' = [cond EXCEPT ![on[t]] = Unlocked(@)]
  /\ Goto(t, "func")
  /\ UNCHANGED <<guard, waiters, on, mode, timedOut>>

(* The loop of whenNotEmpty tests again; ifNotEmpty has no loop. *)
DropCond(t) ==
  /\ pc[t] = "dropCond"
  /\ cond' = [cond EXCEPT ![on[t]] = Unlocked(@)]
  /\ Goto(t, IF mode[t] = "when" THEN "test" ELSE "func")
  /\ UNCHANGED <<guard, waiters, on, mode, timedOut>>

(* The monitor's part of func( *this ): where the thread goes next. *)
AfterFunc(t, next) ==
  /\ pc[t] = "func"
  /\ Goto(t, next)
  /\ UNCHANGED <<guard, cond, waiters, on, mode, timedOut>>

(* Mutant: a push that forgets to signal. *)
SignalForgotten(t, c) ==
  /\ pc[t] = "signal"
  /\ Goto(t, "leave")
  /\ UNCHANGED <<guard, cond, waiters, on, mode, timedOut>>

Signal(t, c) ==
  /\ pc[t] = "signal"
  /\ \E W \in AfterSignalOne(waiters[c]) : waiters' = [waiters EXCEPT ![c] = W]
  /\ Goto(t, "leave")
  /\ UNCHANGED <<guard, cond, on, mode, timedOut>>

Leave(t) ==
  /\ pc[t] = "leave"
  /\ guard' = Unlocked(guard)
  /\ Goto(t, "idle")
  /\ UNCHANGED <<cond, waiters, on, mode, timedOut>>

(* The steps that do not look at the container. *)
Protocol(t) ==
  \/ Enter(t) \/ LockCond(t) \/ ReleaseGuard(t) \/ Sleep(t) \/ Wake(t)
  \/ GiveUp(t) \/ Relock(t) \/ DropCond(t) \/ Leave(t)

--------------------------------------------------------------------------------
MonitorTypeOK ==
  /\ guard \in MutexStates
  /\ cond \in [Conds -> MutexStates]
  /\ waiters \in [Conds -> SUBSET Threads]
  /\ pc \in [Threads -> Pcs]
  /\ on \in [Threads -> Conds]
  /\ mode \in [Threads -> Modes]
  /\ timedOut \in [Threads -> BOOLEAN]

(* A mutex is held by exactly the thread whose program counter says so, and *)
(* between steps it is held once.                                           *)
HeldExactlyBy(m, t, holds) == (m.owner = t) <=> holds

DepthOK(m) == m.depth = IF m.owner = NoThread THEN 0 ELSE 1

GuardInv ==
  /\ DepthOK(guard)
  /\ \A t \in Threads : HeldExactlyBy(guard, t, pc[t] \in PcHoldingGuard)

CondInv ==
  \A c \in Conds :
    /\ DepthOK(cond[c])
    /\ \A t \in Threads :
         HeldExactlyBy(cond[c], t, on[t] = c /\ pc[t] \in PcHoldingCond)

(* Only sleepers are on a condition's waiting list, on the one they wait    *)
(* for, and a call that never waits does not get there.                     *)
WaitersInv ==
  /\ \A c \in Conds : \A t \in waiters[c] : pc[t] = "asleep" /\ on[t] = c
  /\ \A t \in Threads :
       /\ pc[t] \in {"sleep", "asleep"} => mode[t] \in {"when", "if"}
       /\ pc[t] \in {"test", "condLock", "release", "relock", "dropCond"}
            => mode[t] # "direct"
       /\ pc[t] \in {"recheck", "giveUp"} => mode[t] \in {"if", "try"}

MonitorInv == MonitorTypeOK /\ GuardInv /\ CondInv /\ WaitersInv
================================================================================
