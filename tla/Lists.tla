--------------------------------- MODULE Lists ---------------------------------
(***************************************************************************)
(* What the containers of the library do to a sequence of entries: the      *)
(* insertion of List and of MultiMap, and std::list::remove.  They are      *)
(* written without recursion, so that proofs can reason about them.         *)
(***************************************************************************)
EXTENDS Integers, Sequences, FiniteSets

(* list with x at position k. *)
InsertedAt(list, k, x) == SubSeq(list, 1, k - 1) \o <<x>> \o SubSeq(list, k, Len(list))

(* list with x in front of the first of the positions P, or at the end. *)
InsertedBefore(list, P, x) ==
  InsertedAt(list, IF P = {} THEN Len(list) + 1
                             ELSE CHOOSE i \in P : \A j \in P : i <= j, x)

(* The entries of list at the positions P, in their order. *)
EntriesAt(list, P) ==
  LET nth(j) == CHOOSE i \in P : Cardinality({k \in P : k <= i}) = j
  IN  [j \in 1 .. Cardinality(P) |-> list[nth(j)]]

(* list without any copy of x. *)
Without(list, x) == EntriesAt(list, {i \in DOMAIN list : list[i] # x})
================================================================================
