--------------------------------- MODULE XMLTree --------------------------------
(***************************************************************************)
(* The XML nodes: Node, NodeList, Element, Text and Iterator.  Siblings are *)
(* linked both ways; an element knows its first and its last child.         *)
(*                                                                          *)
(* The program modelled inserts a node that has no parent, and not below    *)
(* itself; it does not use a text node again that was removed               *)
(* (Text::clear() hides Node::clear(), so that its links stay).  Attributes *)
(* and rendering are left out.                                              *)
(***************************************************************************)
EXTENDS Sequences, FiniteSets, SequencesExt, Integers

CONSTANTS Elements, Texts,
          Nil            \* no node

ASSUME XMLTreeAssumption ==
  Elements \cap Texts = {} /\ Nil \notin Elements \cup Texts

Nodes == Elements \cup Texts

VARIABLES
  links,    \* [parent, prev, next, first, last]: the pointers of all nodes
  text,     \* text[t]: how much text t holds
  gone,     \* text nodes that were removed, merged or cleared
  torn      \* history: a child was cleared, and its list still leads to it

treeVars == <<links, text, gone, torn>>

TreeInit ==
  /\ links = [parent |-> [n \in Nodes |-> Nil], prev |-> [n \in Nodes |-> Nil],
              next |-> [n \in Nodes |-> Nil],
              first |-> [e \in Elements |-> Nil], last |-> [e \in Elements |-> Nil]]
  /\ text = [t \in Texts |-> 1]
  /\ gone = {} /\ torn = FALSE

(* h with the pointer named field of node n, if there is one, set to m. *)
With(h, field, n, m) == IF n = Nil THEN h ELSE [h EXCEPT ![field][n] = m]

(* NodeList::insert(): the list of e notes a new first or last node. *)
Ends(h, e, n) ==
  LET front == IF h.prev[n] = Nil THEN With(h, "first", e, n) ELSE h
  IN  IF h.next[n] = Nil THEN With(front, "last", e, n) ELSE front

(* Element::insert() *)
InsertIn(h, e, n) == IF e = Nil THEN h ELSE Ends(With(h, "parent", n, e), e, n)

InsertBefore(h, n, s) ==
  LET linked == With(With(h, "next", n, s), "prev", n, h.prev[s])
      joined == With(With(linked, "next", h.prev[s], n), "prev", s, n)
  IN  InsertIn(joined, h.parent[s], n)

(* Mutant: the node after s keeps s as its previous one. *)
InsertAfterOneWay(h, n, s) ==
  LET linked == With(With(h, "prev", n, s), "next", n, h.next[s])
  IN  InsertIn(With(linked, "next", s, n), h.parent[s], n)

InsertAfter(h, n, s) ==
  LET linked == With(With(h, "prev", n, s), "next", n, h.next[s])
      joined == With(With(linked, "prev", h.next[s], n), "next", s, n)
  IN  InsertIn(joined, h.parent[s], n)

(* Everything that n->clear() reaches: NodeList::clear() walks the children   *)
(* and clears each of them.                                                   *)
Cleared(h, n) ==
  LET reached[k \in 0..Cardinality(Nodes)] ==
        IF k = 0 THEN {n}
        ELSE LET s == reached[k - 1]
                 heads == {h.first[e] : e \in s \cap Elements}
             IN  s \cup ((heads \cup {h.next[m] : m \in s \ {n}}) \ {Nil})
  IN  reached[Cardinality(Nodes)]

(* Element::clear() of them all; a text keeps its links. *)
Unlinked(h, nodes) ==
  LET clear(f) == [n \in DOMAIN f |-> IF n \in nodes \cap Elements THEN Nil ELSE f[n]]
  IN  [parent |-> clear(h.parent), prev |-> clear(h.prev), next |-> clear(h.next),
       first |-> clear(h.first), last |-> clear(h.last)]

Clear(h, n) ==
  /\ links' = Unlinked(h, Cleared(h, n))
  /\ text' = [t \in Texts |-> IF t \in Cleared(h, n) THEN 0 ELSE text[t]]
  /\ gone' = gone \cup (Cleared(h, n) \cap Texts)

(* Mutant: the parent's list still ends with the node that has left. *)
RemovedKeepsLast(h, n) ==
  LET p == h.parent[n]
      apart == With(With(h, "next", h.prev[n], h.next[n]), "prev", h.next[n], h.prev[n])
  IN  IF p # Nil /\ h.first[p] = n THEN With(apart, "first", p, h.next[n]) ELSE apart

(* Node::remove() and NodeList::remove() *)
Removed(h, n) ==
  LET p == h.parent[n]
      apart == With(With(h, "next", h.prev[n], h.next[n]), "prev", h.next[n], h.prev[n])
      front == IF p # Nil /\ h.first[p] = n THEN With(apart, "first", p, h.next[n]) ELSE apart
  IN  IF p # Nil /\ h.last[p] = n THEN With(front, "last", p, h.prev[n]) ELSE front

--------------------------------------------------------------------------------
Above(n) ==
  LET at[k \in 0..Cardinality(Elements)] ==
        IF k = 0 THEN n ELSE IF at[k - 1] = Nil THEN Nil ELSE links.parent[at[k - 1]]
  IN  {at[k] : k \in DOMAIN at} \ {Nil}

(* The program may place n below e. *)
Placeable(n, e) == n \notin gone /\ links.parent[n] = Nil /\ n \notin Above(e)

Place(h) == links' = h /\ UNCHANGED <<text, gone, torn>>

(* NodeList::append(): a text behind a text is merged and dropped. *)
AppendNode(e, n) ==
  /\ Placeable(n, e)
  /\ IF links.last[e] \in Texts /\ n \in Texts
       THEN /\ text' = [text EXCEPT ![links.last[e]] = @ + text[n], ![n] = 0]
            /\ gone' = gone \cup {n} /\ UNCHANGED <<links, torn>>
       ELSE Place(IF links.first[e] = Nil THEN InsertIn(links, e, n)
                  ELSE InsertAfter(links, n, links.last[e]))

(* NodeList::last( node ) and NodeList::first( node ) *)
PutLast(e, n) ==
  /\ Placeable(n, e)
  /\ Place(IF links.first[e] = Nil THEN InsertIn(links, e, n)
           ELSE InsertAfter(links, n, links.last[e]))

PutFirst(e, n) ==
  /\ Placeable(n, e)
  /\ Place(IF links.first[e] = Nil THEN InsertIn(links, e, n)
           ELSE InsertBefore(links, n, links.first[e]))

PutBeside(n, s) ==
  /\ s \notin gone /\ links.parent[s] # Nil /\ Placeable(n, links.parent[s])
  /\ Place(InsertBefore(links, n, s)) \/ Place(InsertAfter(links, n, s))

(* Node::remove().  Without a parent it is clear(). *)
RemoveNode(n) == n \notin gone /\ Clear(Removed(links, n), n) /\ UNCHANGED torn

(* Element::clear() of any element: it forgets its place in a list, too. *)
ClearElement(e) == Clear(links, e) /\ torn' = (links.parent[e] # Nil)

(* A list that was torn is not followed any further. *)
TreeNext ==
  /\ ~torn
  /\ \/ \E e \in Elements, n \in Nodes : AppendNode(e, n) \/ PutLast(e, n) \/ PutFirst(e, n)
     \/ \E n, s \in Nodes : PutBeside(n, s)
     \/ \E n \in Nodes : RemoveNode(n)
     \/ \E e \in Elements : ClearElement(e)

--------------------------------------------------------------------------------
(* Iterator: the nodes from n on, by toNext() or toPrev(). *)
Walk(n, step) ==
  LET at[k \in 1..(Cardinality(Nodes) + 1)] ==
        IF k = 1 THEN n ELSE IF at[k - 1] = Nil THEN Nil ELSE step[at[k - 1]]
  IN  SelectSeq(at, LAMBDA m : m # Nil)

Kids == [e \in Elements |-> Walk(links.first[e], links.next)]

(* Iterating an element's children from the last one back gives the same     *)
(* nodes as iterating from the first one, each once, and they are the nodes  *)
(* whose parent it is.                                                       *)
WellLinked ==
  \A e \in Elements :
    LET kids == Walk(links.first[e], links.next)
    IN  /\ Reverse(Walk(links.last[e], links.prev)) = kids
        /\ IsInjective(kids)
        /\ ToSet(kids) = {n \in Nodes \ gone : links.parent[n] = e}

(* The pointers implement an ordered forest, from either end: every operation *)
(* inserts one node, merges two texts or dissolves one subtree, and disturbs  *)
(* no other list, until clear() tears one: Element::clear() of an element     *)
(* that is in a list zeroes its links, and its parent and siblings still lead *)
(* to it.  What a step that keeps links and text does to the forest is not    *)
(* worked out: nothing.                                                       *)
Abstract == INSTANCE XMLTreeSpec WITH kids <- Kids
ImplementsTree ==
  /\ [][UNCHANGED <<links, gone>> \/ torn' \/ WellLinked']_treeVars
  /\ Abstract!TreeSpecInit
  /\ [][UNCHANGED <<links, text>> \/ torn' \/ Abstract!TreeSpecNext]_(Abstract!treeSpecVars)
================================================================================
