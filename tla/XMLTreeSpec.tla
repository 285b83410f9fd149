------------------------------- MODULE XMLTreeSpec ------------------------------
(***************************************************************************)
(* What the XML nodes promise: an ordered forest.  kids[e] is the sequence  *)
(* of the children of element e; text[t] is how much text node t holds.     *)
(***************************************************************************)
EXTENDS Sequences, FiniteSets, SequencesExt, Integers

CONSTANTS Elements, Texts

VARIABLES kids, text

treeSpecVars == <<kids, text>>

ParentsOf(n) == {e \in Elements : Contains(kids[e], n)}

(* The elements at or below n. *)
Subtree(n) ==
  LET within[k \in 0..Cardinality(Elements)] ==
        IF k = 0 THEN {n}
        ELSE within[k - 1] \cup UNION {ToSet(kids[e]) : e \in within[k - 1] \cap Elements}
  IN  within[Cardinality(Elements)]

TreeSpecInit ==
  /\ kids = [e \in Elements |-> <<>>]
  /\ text = [t \in Texts |-> 1]

(* A node without a parent is placed among the children of e. *)
Insert(e, n) ==
  /\ ParentsOf(n) = {} /\ e \notin Subtree(n)
  /\ \E i \in 1..(Len(kids[e]) + 1) : kids' = [kids EXCEPT ![e] = InsertAt(@, i, n)]
  /\ UNCHANGED text

(* A text added behind a text becomes part of it. *)
Merge(e, t) ==
  /\ ParentsOf(t) = {}
  /\ kids[e] # <<>> /\ Last(kids[e]) \in Texts
  /\ text' = [text EXCEPT ![Last(kids[e])] = @ + text[t], ![t] = 0]
  /\ UNCHANGED kids

(* Node n leaves its parent, and everything below it falls apart. *)
Dissolve(n) ==
  /\ kids' = [e \in Elements |-> IF e \in Subtree(n) THEN <<>>
                                 ELSE SelectSeq(kids[e], LAMBDA m : m # n)]
  /\ text' = [t \in Texts |-> IF t \in Subtree(n) THEN 0 ELSE text[t]]

(* The first conjunct spares TLC the search for a step when there is none. *)
TreeSpecNext ==
  /\ kids' # kids \/ text' # text
  /\ \/ \E e \in Elements, n \in Elements \cup Texts : Insert(e, n)
     \/ \E e \in Elements, t \in Texts : Merge(e, t)
     \/ \E n \in Elements \cup Texts : Dissolve(n)

TreeSpec == TreeSpecInit /\ [][TreeSpecNext]_treeSpecVars
================================================================================
