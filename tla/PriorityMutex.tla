----------------------------- MODULE PriorityMutex -----------------------------
(***************************************************************************)
(* Finagle::PriorityMutex and PriorityLock: a list of locks ordered by      *)
(* priority whose front owns the mutex.  It is not a thread's mutex: lock() *)
(* and unlock() tell owners by the signals LoseLock and GainLock, and their *)
(* handlers may call lock(), unlock(), priority() and mutex() again.  Calls *)
(* in progress are frames of a stack; a frame waits while the handler it    *)
(* has called runs.                                                         *)
(*                                                                          *)
(* No handler uses a lock whose unlock() is in progress, and the LoseLock   *)
(* handler of such a lock unlocks no other: README, section 6.              *)
(***************************************************************************)
EXTENDS Lists, SequencesExt

CONSTANTS
  Locks,
  Priorities,
  MaxDepth        \* bound: calls in progress at a time

ASSUME PriorityMutexAssumption ==
  Locks # {} /\ Priorities \subseteq Nat /\ MaxDepth \in Nat

VARIABLES
  locks,       \* _locks
  priority,    \* priority[l]: _priority
  attached,    \* attached[l]: _mutex is not 0
  calls,       \* the stack of frames
  knows        \* knows[l]: l was last told that it has the mutex (history)

priorityVars == <<locks, priority, attached, calls, knows>>

PriorityInit ==
  /\ locks = <<>>
  /\ priority \in {f \in [Locks -> Priorities] : \A p \in Priorities : \E l \in Locks : f[l] = p}
  /\ attached = [l \in Locks |-> TRUE]
  /\ calls = <<>>
  /\ knows = [l \in Locks |-> FALSE]

Owner(s) == IF s = <<>> THEN {} ELSE {s[1]}
Locked(l) == l \in Owner(locks)

(* Mutant: a lock goes in front of the locks of its own priority too. *)
InsertedFirst(s, l) ==
  InsertedBefore(s, {i \in DOMAIN s : priority[s[i]] <= priority[l]}, l)

(* The insertion sort: in front of the first lock of lower priority. *)
Inserted(s, l) == InsertedBefore(s, {i \in DOMAIN s : priority[s[i]] < priority[l]}, l)

(* What handlers call: nothing on a lock that is being unlocked, and no      *)
(* unlock while one is about to remove the owner.                            *)
MayUse(l) ==
  /\ Len(calls) < MaxDepth
  /\ \A i \in DOMAIN calls : calls[i].op = "unlock" => calls[i].lock # l

NoOwnerLeaving == \A i \in DOMAIN calls : calls[i].op = "unlock" => calls[i].at = "gain"

(* A call that has emitted LoseLock. *)
Frame(op, l, prio, on) ==
  [op |-> op, lock |-> l, at |-> "lose", priority |-> prio, attached |-> on]

--------------------------------------------------------------------------------
(* lock(): the old owner is told when l is in front of it; the caller learns *)
(* from the result whether it has the mutex.                                 *)
CallLock(l) ==
  LET s == IF l \in ToSet(locks) THEN locks ELSE Inserted(locks, l)
      lost == Owner(locks) \ Owner(s)
  IN  /\ MayUse(l)
      /\ \/ /\ ~attached[l]
            /\ knows' = [knows EXCEPT ![l] = FALSE]
            /\ UNCHANGED <<locks, calls>>
         \/ /\ attached[l] /\ lost = {}
            /\ locks' = s
            /\ knows' = [knows EXCEPT ![l] = l \in Owner(s)]
            /\ UNCHANGED calls
         \/ /\ attached[l] /\ lost # {}
            /\ locks' = s
            /\ knows' = [k \in Locks |-> knows[k] /\ k \notin lost]
            /\ calls' = Append(calls, Frame("lock", l, priority[l], TRUE))
      /\ UNCHANGED <<priority, attached>>

(* unlock(), priority( p ) and mutex( m ) are an unlock, then an assignment. *)
(* An owner is told before it is removed.                                    *)
CallUnlock(l) ==
  \E p \in Priorities, on \in BOOLEAN :
    /\ MayUse(l) /\ NoOwnerLeaving
    /\ p = priority[l] \/ on = attached[l]
    /\ IF attached[l] /\ Locked(l)
         THEN /\ calls' = Append(calls, Frame("unlock", l, p, on))
              /\ knows' = [knows EXCEPT ![l] = FALSE]
              /\ UNCHANGED <<locks, priority, attached>>
         ELSE /\ locks' = IF attached[l] THEN Without(locks, l) ELSE locks
              /\ priority' = [priority EXCEPT ![l] = p]
              /\ attached' = [attached EXCEPT ![l] = on]
              /\ UNCHANGED <<calls, knows>>

(* The handler that the frame on top waits for returns. *)
LockReturns ==
  /\ calls # <<>> /\ Last(calls).op = "lock"
  /\ calls' = Front(calls)
  /\ LET l == Last(calls).lock
     IN  knows' = [knows EXCEPT ![l] = attached[l] /\ Locked(l)]
  /\ UNCHANGED <<locks, priority, attached>>

(* Mutant: the next owner is not told. *)
RemoveOwnerSilently ==
  /\ calls # <<>> /\ Last(calls).op = "unlock" /\ Last(calls).at = "lose"
  /\ locks' = Without(locks, Last(calls).lock)
  /\ calls' = [calls EXCEPT ![Len(calls)].at = "gain"]
  /\ UNCHANGED <<priority, attached, knows>>

RemoveOwner ==
  /\ calls # <<>> /\ Last(calls).op = "unlock" /\ Last(calls).at = "lose"
  /\ locks' = Without(locks, Last(calls).lock)
  /\ knows' = [k \in Locks |-> knows[k] \/ k \in Owner(locks')]
  /\ calls' = [calls EXCEPT ![Len(calls)].at = "gain"]
  /\ UNCHANGED <<priority, attached>>

UnlockReturns ==
  /\ calls # <<>> /\ Last(calls).op = "unlock" /\ Last(calls).at = "gain"
  /\ LET f == Last(calls)
     IN  /\ priority' = [priority EXCEPT ![f.lock] = f.priority]
         /\ attached' = [attached EXCEPT ![f.lock] = f.attached]
  /\ calls' = Front(calls)
  /\ UNCHANGED <<locks, knows>>

PriorityNext ==
  \/ \E l \in Locks : CallLock(l) \/ CallUnlock(l)
  \/ LockReturns \/ RemoveOwner \/ UnlockReturns

PrioritySpec == PriorityInit /\ [][PriorityNext]_priorityVars

--------------------------------------------------------------------------------
(* Properties. *)

(* However handlers call back into lock() and unlock(), at most one lock has *)
(* been told that it owns the mutex, and when the last call has returned it  *)
(* is the owner and has the highest priority of those that want it.          *)
OwnerKnows ==
  /\ \A k, l \in Locks : knows[k] /\ knows[l] => k = l
  /\ calls = <<>> => \A l \in Locks : knows[l] <=> Locked(l)
  /\ \A i \in 2..Len(locks) : priority[locks[i - 1]] >= priority[locks[i]]

(* A lock never overtakes one of its own priority that waited before it. *)
NoOvertaking ==
  [][\A i, j \in DOMAIN locks' :
       /\ locks'[i] \in ToSet(locks) /\ locks'[j] \notin ToSet(locks)
       /\ priority[locks'[i]] >= priority[locks'[j]]
       => i < j]_priorityVars

(* What the proof carries along: the list holds attached locks, once and by *)
(* priority; a lock that is being unlocked has not been told otherwise, is  *)
(* used by no call that came later, and has left the list when the next     *)
(* owner is told; an owner that has not been told yet is what a call on the *)
(* stack will tell, or take the mutex from.                                 *)
Frames ==
  [op : {"lock", "unlock"}, lock : Locks, at : {"lose", "gain"}, priority : Priorities,
   attached : BOOLEAN]

PriorityTypeOK ==
  /\ locks \in Seq(Locks)
  /\ priority \in [Locks -> Priorities]
  /\ attached \in [Locks -> BOOLEAN] /\ knows \in [Locks -> BOOLEAN]
  /\ calls \in Seq(Frames)

InLine ==
  /\ \A i, j \in DOMAIN locks :
       i < j => priority[locks[i]] >= priority[locks[j]] /\ locks[i] # locks[j]
  /\ \A l \in ToSet(locks) : attached[l]

Unlocking(i) == calls[i].op = "unlock"

UnlocksInv ==
  /\ \A i \in DOMAIN calls : Unlocking(i) =>
       /\ ~knows[calls[i].lock]
       /\ calls[i].at = "gain" => calls[i].lock \notin ToSet(locks)
  /\ \A i, j \in DOMAIN calls : i < j /\ Unlocking(i) =>
       /\ calls[j].lock # calls[i].lock
       /\ Unlocking(j) => calls[i].at = "gain"

ToldInv ==
  /\ \A l \in Locks : knows[l] => Locked(l)
  /\ \A l \in Locks : Locked(l) /\ ~knows[l] =>
       \E i \in DOMAIN calls : calls[i].lock = l /\ calls[i].at = "lose"

PriorityIInv == PriorityTypeOK /\ InLine /\ UnlocksInv /\ ToldInv
================================================================================
