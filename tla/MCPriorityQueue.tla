----------------------------- MODULE MCPriorityQueue -----------------------------
(* Small instances of PriorityQueue.  The constants a cfg cannot write. *)
EXTENDS PriorityQueue

CONSTANTS p1, p2, c1, c2, a, b, c

(* Two entries of equal priority and one above them. *)
TwoLevels == [x \in {a, b, c} |-> IF x = c THEN 1 ELSE 0]

Workers ==
  [t \in {p1, p2, c1, c2} |->
     CASE t \in {p1, p2} -> {"push"} [] t = c1 -> {"pop"} [] t = c2 -> {"pop", "try_pop"}]

TwoPoppers ==
  [t \in {p1, c1, c2} |-> IF t = p1 THEN {"push"} ELSE {"pop"}]

OnlyNotEmpty == {"notEmpty"}
================================================================================
