------------------------------ MODULE MCSizedQueue ------------------------------
(* Small instances of SizedQueue.  The constants a cfg cannot write. *)
EXTENDS SizedQueue, TLC

CONSTANTS p1, p2, c1, c2

(* Two producers and two consumers; one of these also pops with a timeout. *)
Workers ==
  [t \in {p1, p2, c1, c2} |->
     CASE t \in {p1, p2} -> {"push_back"}
       [] t = c1 -> {"pop_front"}
       [] t = c2 -> {"pop_front", "try_pop_front"}]

OneEach ==
  [t \in {p1, c1} |-> IF t = c1 THEN {"pop_front"} ELSE {"push_back"}]

(* Items are told apart by their order alone, and the two producers do the  *)
(* same.  The run checks invariants only.                                   *)
Alike == Permutations(Items) \cup Permutations({p1, p2})

BothConds == {"notEmpty", "notFull"}
================================================================================
