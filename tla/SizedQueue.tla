------------------------------- MODULE SizedQueue -------------------------------
(***************************************************************************)
(* Finagle::SizedQueue<Type>, a Queue with a capacity.  Its push_back and   *)
(* push_front wait on _notFull (whenNotFull, or ifNotFull for a caller that *)
(* brings a functor of its own) and then put the item in the raw deque: they *)
(* bypass Queue::push_* and with it the signal on _notEmpty.  Its pops use   *)
(* functors that signal _notFull when the deque is below its capacity.      *)
(*                                                                          *)
(* capacity( n ) is a plain store without any lock.  A push that ifNotFull  *)
(* refuses drops its item.                                                  *)
(***************************************************************************)
EXTENDS Queue

CONSTANTS PushModes,    \* "when" (push_*), "if", "try" (ifNotFull)
          Capacities    \* the arguments of the constructor and of capacity( n )

ASSUME SizedAssumption ==
  /\ PushModes \subseteq {"when", "if", "try"}
  /\ Capacities # {} /\ Capacities \subseteq Nat
  /\ "notFull" \in Conds

VARIABLES
  capacity,   \* _capacity
  largest     \* the largest capacity so far (history)

sizedVars == <<guard, cond, waiters, pc, on, mode, timedOut,
               queue, op, item, unused, pushed, removed, undefined,
               capacity, largest>>

SizedInit ==
  /\ Init
  /\ capacity \in Capacities
  /\ largest = capacity

(* Mutant: one item too many. *)
fullOffByOne == Len(queue) > capacity

full == Len(queue) >= capacity

CallSizedPush(t) ==
  \E o \in Program[t] \cap PushOps, m \in PushModes, x \in unused :
    /\ Begin(t, m, "notFull")
    /\ op' = [op EXCEPT ![t] = o]
    /\ item' = [item EXCEPT ![t] = x]
    /\ unused' = unused \ {x}
    /\ UNCHANGED <<queue, pushed, removed, undefined>>

SetCapacity(n) ==
  /\ capacity' = n
  /\ largest' = IF n > largest THEN n ELSE largest
  /\ UNCHANGED <<monitorVars, queueVars>>

blocked(t) == IF on[t] = "notFull" THEN full ELSE empty

(* Mutant: a popper that leaves early and keeps _guard. *)
SignalNotFullReturns(t) ==
  \/ ~full /\ Signal(t, "notFull")
  \/ /\ full
     /\ pc[t] = "signal"
     /\ Goto(t, "idle")
     /\ UNCHANGED <<guard, cond, waiters, on, mode, timedOut>>

(* The end of SizedQueue's own poppers: if ( !q.full() ) signalOne(). *)
SignalNotFull(t) ==
  \/ ~full /\ Signal(t, "notFull")
  \/ /\ full
     /\ pc[t] = "signal"
     /\ Goto(t, "leave")
     /\ UNCHANGED <<guard, cond, waiters, on, mode, timedOut>>

SizedStep(t) ==
  /\ ~undefined
  /\ \/ /\ \/ Protocol(t)
           \/ Test(t, blocked(t))
           \/ Recheck(t, blocked(t))
           \/ SignalNotFull(t)
        /\ UNCHANGED queueVars
     \/ Insert(t, "leave")
     \/ Remove(t, "signal")
     \/ RemoveFromEmpty(t, "signal")
  /\ UNCHANGED <<capacity, largest>>

SizedEnvironment(t) ==
  /\ ~undefined
  /\ \/ CallSizedPush(t)
     \/ CallPop(t)
     \/ CallTryPop(t)
     \/ (SpuriousWakeup(t) \/ Timeout(t)) /\ UNCHANGED queueVars
  /\ UNCHANGED <<capacity, largest>>

SizedNext ==
  \/ \E t \in Threads : SizedStep(t) \/ SizedEnvironment(t)
  \/ \E n \in Capacities \ {capacity} : ~undefined /\ SetCapacity(n)

SizedFairness ==
  \A t \in Threads :
    /\ WF_sizedVars(SizedStep(t))
    /\ WF_sizedVars(/\ ~undefined
                    /\ Timeout(t)
                    /\ UNCHANGED queueVars
                    /\ UNCHANGED <<capacity, largest>>)

SizedSpec == SizedInit /\ [][SizedNext]_sizedVars /\ SizedFairness

--------------------------------------------------------------------------------
SizedTypeOK ==
  /\ TypeOK
  /\ capacity \in Capacities
  /\ largest \in Capacities
  /\ capacity <= largest

(* A push that waits with whenNotFull puts its item where there is room     *)
(* under a capacity that has been in force, whatever the other producers    *)
(* do: the guard is kept from full() to the push (SizedQueue.h:188-196).    *)
PushesFindRoom ==
  \A t \in Threads :
    pc[t] = "func" /\ op[t] \in PushOps /\ mode[t] = "when" => Len(queue) < largest

(* ifNotFull lets the guard go between its second full() and its functor    *)
(* (SizedQueue.h:211-216), so the queue can pass its capacity, but by one   *)
(* item only, however many threads push: they go through that window one at *)
(* a time, with _notFull.                                                   *)
OvershootAtMostOne == SizedTypeOK /\ Len(queue) <= largest + 1

(* A thread inside a call runs the function it called, with its argument,   *)
(* and waits for the condition of that function.                            *)
SizedCallInv ==
  \A t \in Threads : pc[t] # "idle" =>
    /\ op[t] \in Program[t]
    /\ op[t] \in PushOps =>
         mode[t] \in {"when", "if", "try"} /\ on[t] = "notFull" /\ item[t] \in Items
    /\ op[t] \in PopOps => mode[t] = "when" /\ on[t] = "notEmpty"
    /\ op[t] \in TryOps => mode[t] = "if" /\ on[t] = "notEmpty"

(* Pushes that have seen room at their second full() and have not yet put   *)
(* their item there.                                                        *)
Admitted(t) == op[t] \in PushOps /\ mode[t] # "when"

(* What makes OvershootAtMostOne inductive.  An admitted push finds at most *)
(* `largest' items, and while it waits for the guard, with _notFull locked, *)
(* whoever is in a functor came there from full() with the guard locked:    *)
(* the other way goes through _notFull.                                     *)
OnePastAtMost ==
  /\ \A t \in Threads :
       Admitted(t) /\ pc[t] \in {"relock", "dropCond", "func"} => Len(queue) <= largest
  /\ \A t, u \in Threads :
       /\ Admitted(t) /\ pc[t] = "relock"
       /\ op[u] \in PushOps /\ pc[u] = "func"
       => Len(queue) < largest

(* What the proofs carry along: inductive, and all of the above.            *)
SizedIInv ==
  /\ SizedTypeOK /\ SizedCallInv
  /\ PopsFindAnItem /\ PushesFindRoom /\ OnePastAtMost /\ OvershootAtMostOne

(* pop_back and pop_front inherit "If the queue is empty, blocks until an   *)
(* item has been added" (Queue.h:114, 124): a consumer that is asleep when  *)
(* a push adds its item is woken.                                           *)
PopperIsWoken ==
  \A t, p \in Threads :
    t \in waiters["notEmpty"] /\ pc[p] = "func" /\ op[p] \in PushOps
      ~> t \notin waiters["notEmpty"]
================================================================================
