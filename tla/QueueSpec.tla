------------------------------- MODULE QueueSpec -------------------------------
(***************************************************************************)
(* What a thread-safe double-ended queue promises: every call takes effect  *)
(* at one instant between its call and its return, as if it were alone.  A  *)
(* push puts its argument at one end, a pop takes the item at one end and   *)
(* only from a queue that has one, and a timed pop may instead return FALSE *)
(* without any effect.  Nothing is promised about when a pop returns.       *)
(***************************************************************************)
EXTENDS Sequences, Naturals

CONSTANTS Threads, Items, NoItem, Program

VARIABLES
  contents,   \* the items, front first
  status,     \* "idle", "called" (no effect yet) or "done" (about to return)
  op, item    \* the call: its member function, and its argument or result

vars == <<contents, status, op, item>>

Init ==
  /\ contents = <<>>
  /\ status = [t \in Threads |-> "idle"]
  /\ op \in [Threads -> {"push_back"}]
  /\ item = [t \in Threads |-> NoItem]

Call(t) ==
  /\ status[t] = "idle"
  /\ \E o \in Program[t] :
       /\ op' = [op EXCEPT ![t] = o]
       /\ \E x \in IF o \in {"push_back", "push_front"} THEN Items ELSE {NoItem} :
            item' = [item EXCEPT ![t] = x]
  /\ status' = [status EXCEPT ![t] = "called"]
  /\ UNCHANGED contents

Push(t) ==
  /\ status[t] = "called"
  /\ \/ op[t] = "push_back" /\ contents' = Append(contents, item[t])
     \/ op[t] = "push_front" /\ contents' = <<item[t]>> \o contents
  /\ status' = [status EXCEPT ![t] = "done"]
  /\ UNCHANGED <<op, item>>

Pop(t) ==
  /\ status[t] = "called"
  /\ contents # <<>>
  /\ \/ /\ op[t] \in {"pop_front", "try_pop_front"}
        /\ item' = [item EXCEPT ![t] = Head(contents)]
        /\ contents' = Tail(contents)
     \/ /\ op[t] \in {"pop_back", "try_pop_back"}
        /\ item' = [item EXCEPT ![t] = contents[Len(contents)]]
        /\ contents' = SubSeq(contents, 1, Len(contents) - 1)
  /\ status' = [status EXCEPT ![t] = "done"]
  /\ UNCHANGED op

Return(t) ==
  /\ \/ status[t] = "done"
     \/ status[t] = "called" /\ op[t] \in {"try_pop_back", "try_pop_front"}
  /\ status' = [status EXCEPT ![t] = "idle"]
  /\ UNCHANGED <<contents, op, item>>

Next == \E t \in Threads : Call(t) \/ Push(t) \/ Pop(t) \/ Return(t)

Spec == Init /\ [][Next]_vars
================================================================================
