----------------------------- MODULE PriorityQueue -----------------------------
(***************************************************************************)
(* Finagle::PriorityQueue<Type, PriType>: a MultiMap ordered by             *)
(* std::greater behind the same locking protocol as Queue.  MultiMap::insert *)
(* puts an entry at upper_bound, behind those of its own priority; pop takes *)
(* begin().  Calls are push, pop (whenNotEmpty) and try_pop (ifNotEmpty).   *)
(* As in Queue, erasing begin() of an empty map is undefined behaviour and  *)
(* the model stops there.                                                   *)
(***************************************************************************)
EXTENDS Monitor, Lists

CONSTANTS Items, NoItem,
          Pri,       \* Pri[x]: the priority x is pushed with
          Program    \* the operations each thread calls

Ops == {"push", "pop", "try_pop"}

ASSUME PriorityAssumption ==
  /\ NoItem \notin Items
  /\ Pri \in [Items -> Int]
  /\ Program \in [Threads -> SUBSET Ops]
  /\ "notEmpty" \in Conds

VARIABLES
  queue,      \* the map's entries from begin() on
  op, item,   \* each thread's call, and its argument or result
  unused,     \* the items no push has been called with
  arrived,    \* the items of the queue in the order they came (history)
  undefined   \* TRUE after a pop from an empty map

queueVars == <<queue, op, item, unused, arrived, undefined>>
vars == <<monitorVars, queueVars>>

Init ==
  /\ MonitorInit
  /\ queue = <<>>
  /\ op \in [Threads -> {"push"}]
  /\ item = [t \in Threads |-> NoItem]
  /\ unused = Items
  /\ arrived = <<>>
  /\ undefined = FALSE

empty == queue = <<>>

(* Mutant: insertion at lower_bound. *)
FromLowerBound(p) == {i \in DOMAIN queue : Pri[queue[i]] <= p}

(* The entries from upper_bound( p ) on. *)
FromUpperBound(p) == {i \in DOMAIN queue : Pri[queue[i]] < p}

Call(t) ==
  \E o \in Program[t] :
    /\ Begin(t, CASE o = "push" -> "direct" [] o = "pop" -> "when" [] OTHER -> "if",
             "notEmpty")
    /\ op' = [op EXCEPT ![t] = o]
    /\ \/ o = "push" /\ \E x \in unused : /\ item' = [item EXCEPT ![t] = x]
                                          /\ unused' = unused \ {x}
       \/ o # "push" /\ item' = [item EXCEPT ![t] = NoItem] /\ UNCHANGED unused
    /\ UNCHANGED <<queue, arrived, undefined>>

Insert(t) ==
  /\ op[t] = "push"
  /\ AfterFunc(t, "signal")
  /\ queue' = InsertedBefore(queue, FromUpperBound(Pri[item[t]]), item[t])
  /\ arrived' = Append(arrived, item[t])
  /\ UNCHANGED <<op, item, unused, undefined>>

Remove(t) ==
  /\ op[t] # "push"
  /\ ~empty
  /\ AfterFunc(t, "leave")
  /\ item' = [item EXCEPT ![t] = Head(queue)]
  /\ queue' = Tail(queue)
  /\ arrived' = Without(arrived, Head(queue))
  /\ UNCHANGED <<op, unused, undefined>>

RemoveFromEmpty(t) ==
  /\ op[t] # "push"
  /\ empty
  /\ AfterFunc(t, "leave")
  /\ \E x \in Items \cup {NoItem} : item' = [item EXCEPT ![t] = x]
  /\ undefined' = TRUE
  /\ UNCHANGED <<queue, op, unused, arrived>>

Step(t) ==
  /\ ~undefined
  /\ \/ /\ Protocol(t) \/ Test(t, empty) \/ Recheck(t, empty) \/ Signal(t, "notEmpty")
        /\ UNCHANGED queueVars
     \/ Insert(t)
     \/ Remove(t)
     \/ RemoveFromEmpty(t)

Environment(t) ==
  /\ ~undefined
  /\ \/ Call(t)
     \/ (SpuriousWakeup(t) \/ Timeout(t)) /\ UNCHANGED queueVars

Next == \E t \in Threads : Step(t) \/ Environment(t)

(* As for Queue: threads that can run do, timeouts expire, and calls are    *)
(* made when the program likes.                                             *)
Fairness ==
  \A t \in Threads :
    WF_vars(Step(t)) /\ WF_vars(~undefined /\ Timeout(t) /\ UNCHANGED queueVars)

Spec == Init /\ [][Next]_vars /\ Fairness

--------------------------------------------------------------------------------
TypeOK ==
  /\ MonitorInv
  /\ queue \in Seq(Items) /\ arrived \in Seq(Items)
  /\ op \in [Threads -> Ops]
  /\ item \in [Threads -> Items \cup {NoItem}]
  /\ unused \in SUBSET Items
  /\ undefined \in BOOLEAN

(* pop without a timeout never meets an empty map, whatever the consumers   *)
(* do (PriorityQueue.h:131-139).                                            *)
PopsFindAnItem ==
  \A t \in Threads : pc[t] = "func" /\ op[t] = "pop" => ~empty

(* "Generic thread-safe prioritized queue" (PriorityQueue.h:31): a thread   *)
(* that has _guard does not wait for a mutex that a sleeper keeps.          *)
NoHoldAndWait ==
  \A t \in Threads : pc[t] = "condLock" => CanLock(cond[on[t]], t)

(* The map holds what was pushed and not popped, higher priorities first    *)
(* and the older entry first among equal ones ("To preserve ordering",      *)
(* MultiMap.h:138; PriorityQueueTest.cpp:130-142), so that is the order in  *)
(* which concurrent consumers get the items.                                *)
Precedes(x, y) ==
  \/ Pri[x] > Pri[y]
  \/ /\ Pri[x] = Pri[y]
     /\ \E i, j \in DOMAIN arrived : i < j /\ arrived[i] = x /\ arrived[j] = y

OrderedByPriorityThenAge ==
  /\ TypeOK
  /\ {queue[i] : i \in DOMAIN queue} = {arrived[i] : i \in DOMAIN arrived}
  /\ \A i, j \in DOMAIN queue : i < j => Precedes(queue[i], queue[j])

(* A thread inside a call runs the function it called, with its argument.   *)
CallInv ==
  \A t \in Threads : pc[t] # "idle" =>
    /\ op[t] = "push" => mode[t] = "direct" /\ item[t] \in Items
    /\ op[t] = "pop" => mode[t] = "when"
    /\ op[t] = "try_pop" => mode[t] = "if"

(* An item is with the push that was called with it, or among the entries,  *)
(* and once.                                                                *)
Pushing(t) == op[t] = "push" /\ pc[t] \in {"enter", "func"}

EachItemOnce ==
  /\ \A t \in Threads : Pushing(t) => item[t] \notin unused
  /\ \A t, u \in Threads : Pushing(t) /\ Pushing(u) /\ item[t] = item[u] => t = u
  /\ \A i \in DOMAIN arrived :
       /\ arrived[i] \notin unused
       /\ \A t \in Threads : Pushing(t) => arrived[i] # item[t]
       /\ \A j \in DOMAIN arrived : arrived[i] = arrived[j] => i = j

(* What the proofs carry along: inductive, and all of the above.            *)
IInv == CallInv /\ PopsFindAnItem /\ EachItemOnce /\ OrderedByPriorityThenAge
================================================================================
