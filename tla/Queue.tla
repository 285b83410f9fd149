--------------------------------- MODULE Queue ---------------------------------
(***************************************************************************)
(* Finagle::Queue<Type>: a std::deque behind the locking protocol of        *)
(* Monitor.  Threads call push_back, push_front (which only lock _guard),   *)
(* pop_back, pop_front (whenNotEmpty) and their timed overloads             *)
(* (ifNotEmpty), written here try_pop_back and try_pop_front.               *)
(*                                                                          *)
(* Popping an empty std::deque is undefined behaviour.  The model stops     *)
(* there: `undefined' becomes TRUE, the caller gets any value, and no step  *)
(* follows.                                                                 *)
(*                                                                          *)
(* Items are distinct tokens and each is pushed at most once, which bounds  *)
(* a run; Program says which member functions each thread calls.            *)
(***************************************************************************)
EXTENDS Monitor, Sequences

CONSTANTS Items, NoItem, Program

PushOps == {"push_back", "push_front"}
PopOps  == {"pop_back", "pop_front"}
TryOps  == {"try_pop_back", "try_pop_front"}
Ops     == PushOps \cup PopOps \cup TryOps

ASSUME QueueAssumption ==
  /\ NoItem \notin Items
  /\ Program \in [Threads -> SUBSET Ops]
  /\ "notEmpty" \in Conds

VARIABLES
  queue,      \* the deque
  op,         \* op[t]: the member function t is in, or was in last
  item,       \* item[t]: the argument of t's push, or what its pop stored
  unused,     \* the items no push has been called with
  pushed,     \* the items put in the deque, in order (history)
  removed,    \* the items taken from it, in order (history)
  undefined   \* TRUE after a pop of an empty deque

queueVars == <<queue, op, item, unused, pushed, removed, undefined>>
vars == <<guard, cond, waiters, pc, on, mode, timedOut,
          queue, op, item, unused, pushed, removed, undefined>>

QueueInit ==
  /\ queue = <<>>
  /\ op \in [Threads -> {"push_back"}]
  /\ item = [t \in Threads |-> NoItem]
  /\ unused = Items
  /\ pushed = <<>>
  /\ removed = <<>>
  /\ undefined = FALSE

Init == MonitorInit /\ QueueInit

empty == queue = <<>>

--------------------------------------------------------------------------------
(* Calls. *)

CallPush(t) ==
  \E o \in Program[t] \cap PushOps, x \in unused :
    /\ Begin(t, "direct", "notEmpty")
    /\ op' = [op EXCEPT ![t] = o]
    /\ item' = [item EXCEPT ![t] = x]
    /\ unused' = unused \ {x}
    /\ UNCHANGED <<queue, pushed, removed, undefined>>

CallPop(t) ==
  \E o \in Program[t] \cap PopOps :
    /\ Begin(t, "when", "notEmpty")
    /\ op' = [op EXCEPT ![t] = o]
    /\ item' = [item EXCEPT ![t] = NoItem]
    /\ UNCHANGED <<queue, unused, pushed, removed, undefined>>

CallTryPop(t) ==
  \E o \in Program[t] \cap TryOps :
    /\ Begin(t, "if", "notEmpty")
    /\ op' = [op EXCEPT ![t] = o]
    /\ item' = [item EXCEPT ![t] = NoItem]
    /\ UNCHANGED <<queue, unused, pushed, removed, undefined>>

(* Mutant: the ends are mixed up. *)
InsertOtherEnd(t, next) ==
  /\ op[t] \in PushOps
  /\ AfterFunc(t, next)
  /\ queue' = IF op[t] = "push_back" THEN <<item[t]>> \o queue
                                     ELSE Append(queue, item[t])
  /\ pushed' = Append(pushed, item[t])
  /\ UNCHANGED <<op, item, unused, removed, undefined>>

(* deque::push_back or push_front, inside the Lock of Queue::push_*. *)
Insert(t, next) ==
  /\ op[t] \in PushOps
  /\ AfterFunc(t, next)
  /\ queue' = IF op[t] = "push_back" THEN Append(queue, item[t])
                                     ELSE <<item[t]>> \o queue
  /\ pushed' = Append(pushed, item[t])
  /\ UNCHANGED <<op, item, unused, removed, undefined>>

(* FrontPopper: _dest = q.front(); q.pop_front().  BackPopper likewise. *)
Remove(t, next) ==
  /\ op[t] \notin PushOps
  /\ ~empty
  /\ AfterFunc(t, next)
  /\ LET front == op[t] \in {"pop_front", "try_pop_front"}
         x == IF front THEN Head(queue) ELSE queue[Len(queue)]
     IN  /\ item' = [item EXCEPT ![t] = x]
         /\ removed' = Append(removed, x)
         /\ queue' = IF front THEN Tail(queue)
                              ELSE SubSeq(queue, 1, Len(queue) - 1)
  /\ UNCHANGED <<op, unused, pushed, undefined>>

(* The same functor on an empty deque. *)
RemoveFromEmpty(t, next) ==
  /\ op[t] \notin PushOps
  /\ empty
  /\ AfterFunc(t, next)
  /\ \E x \in Items \cup {NoItem} : item' = [item EXCEPT ![t] = x]
  /\ undefined' = TRUE
  /\ UNCHANGED <<queue, op, unused, pushed, removed>>

--------------------------------------------------------------------------------
Step(t) ==
  /\ ~undefined
  /\ \/ /\ \/ Protocol(t)
           \/ Test(t, empty)
           \/ Recheck(t, empty)
           \/ Signal(t, "notEmpty")
        /\ UNCHANGED queueVars
     \/ Insert(t, "signal")
     \/ Remove(t, "leave")
     \/ RemoveFromEmpty(t, "leave")

(* What the threads' own code does not decide. *)
Environment(t) ==
  /\ ~undefined
  /\ \/ CallPush(t)
     \/ CallPop(t)
     \/ CallTryPop(t)
     \/ (SpuriousWakeup(t) \/ Timeout(t)) /\ UNCHANGED queueVars

Next == \E t \in Threads : Step(t) \/ Environment(t)

(* The scheduler runs every thread that can go on, and a timeout that is    *)
(* not overtaken by a signal expires.  Nothing makes a thread call an       *)
(* operation, and no fairness among the threads that contend for a mutex is *)
(* assumed: pthread mutexes promise none.                                   *)
Fairness ==
  \A t \in Threads :
    /\ WF_vars(Step(t))
    /\ WF_vars(~undefined /\ Timeout(t) /\ UNCHANGED queueVars)

Spec == Init /\ [][Next]_vars /\ Fairness

--------------------------------------------------------------------------------
(* Every mutex is held by the one thread that is between its lock and its   *)
(* unlock, sleepers are listed where they sleep, and each item is where the *)
(* calls so far have put it.                                                *)
TypeOK ==
  /\ MonitorInv
  /\ queue \in Seq(Items)
  /\ op \in [Threads -> Ops]
  /\ item \in [Threads -> Items \cup {NoItem}]
  /\ unused \in SUBSET Items
  /\ pushed \in Seq(Items)
  /\ removed \in Seq(Items)
  /\ undefined \in BOOLEAN

(* A thread inside a call runs the function it called, with its argument.   *)
CallInv ==
  \A t \in Threads : pc[t] # "idle" =>
    /\ op[t] \in Program[t]
    /\ op[t] \in PushOps => mode[t] = "direct" /\ item[t] \in Items
    /\ op[t] \in PopOps => mode[t] = "when"
    /\ op[t] \in TryOps => mode[t] = "if"

(* A pop without a timeout calls its functor only on a deque with an item,  *)
(* however many consumers race for it: between whenNotEmpty's last empty()  *)
(* and func the guard is never let go (Queue.h:161-169).                    *)
PopsFindAnItem ==
  \A t \in Threads : pc[t] = "func" /\ op[t] \in PopOps => ~empty

(* With one consumer nobody can take the item a timed pop has seen between  *)
(* its second empty() and its functor (Queue.h:185-194).                    *)
Consumers == {t \in Threads : Program[t] \cap (PopOps \cup TryOps) # {}}

SingleConsumer == \A t, u \in Consumers : t = u

TimedPopsFindAnItem ==
  SingleConsumer =>
    \A t \in Threads :
      pc[t] \in {"relock", "dropCond", "func"} /\ op[t] \in TryOps => ~empty

(* No pop of an empty deque at all: "If the queue is still empty, func is   *)
(* not called and false is returned" (Queue.h:174).                         *)
NoUndefinedPop == ~undefined

(* Used as a FIFO, the queue hands items out in the order they went in and  *)
(* loses, repeats or reorders none, whatever the consumers' interleaving.   *)
UsedAsFifo ==
  \A t \in Threads : Program[t] \subseteq {"push_back", "pop_front", "try_pop_front"}

FifoOrder == UsedAsFifo => pushed = removed \o queue

(* What the proofs carry along: TypeOK and the rest of it is inductive.     *)
IInv == TypeOK /\ CallInv /\ PopsFindAnItem /\ TimedPopsFindAnItem

(* Whoever gets _guard gives it back, so no call of another thread is shut  *)
(* out for ever.                                                            *)
GuardIsReleased ==
  \A t \in Threads : guard.owner = t ~> guard.owner # t

(* A timed pop returns, with an item or without (Queue.h:173-174).          *)
TimedPopReturns ==
  \A t \in Threads : pc[t] # "idle" /\ op[t] \in TryOps ~> pc[t] = "idle"

(* A consumer that pthread_cond_wait has put to sleep before a producer     *)
(* signals is woken, whichever end the item went to.                        *)
SleeperIsWoken ==
  \A t, p \in Threads :
    t \in waiters["notEmpty"] /\ pc[p] = "signal"
      ~> t \notin waiters["notEmpty"]

(* "If the queue is empty, blocks until an item has been added"             *)
(* (Queue.h:124): an item that is there while a pop waits ends the wait.    *)
BlocksUntilAdded ==
  \A t \in Threads :
    pc[t] \in {"sleep", "asleep"} /\ op[t] \in PopOps /\ ~empty
      ~> pc[t] \notin {"sleep", "asleep"} \/ empty

(* The queue implements QueueSpec: the functor, run under _guard, is the    *)
(* instant at which a call takes effect.                                    *)
callStatus ==
  [t \in Threads |-> IF pc[t] = "idle" THEN "idle"
                     ELSE IF pc[t] \in {"signal", "leave"} THEN "done" ELSE "called"]

Abstract == INSTANCE QueueSpec WITH contents <- queue, status <- callStatus

Linearizable == Abstract!Spec
================================================================================
