------------------------------- MODULE XMLDocument ------------------------------
(***************************************************************************)
(* XML::Document::parse(): expat calls elStart(), elData() and elEnd(), or  *)
(* reports an error.                                                        *)
(*                                                                          *)
(* expat keeps its own stack of open tags, so that calls are well nested,   *)
(* there is one outermost element and no data outside it.  A document is    *)
(* parsed once.                                                             *)
(***************************************************************************)
EXTENDS XMLTree

VARIABLES
  docPhase,    \* "new", "open" while parse() runs, "done" or "failed"
  tags,       \* expat's stack of open elements
  started,    \* the elements in the order of their start tags
  curElement,        \* Context::curElement
  list,       \* Context::nodes: its first and its last node
  root        \* Document::_root

documentVars == <<docPhase, tags, started, curElement, list, root>>

DocumentInit ==
  /\ TreeInit
  /\ docPhase = "new" /\ tags = <<>> /\ started = <<>>
  /\ curElement = Nil /\ list = [first |-> Nil, last |-> Nil] /\ root = Nil

ParseDocument ==
  /\ docPhase = "new" /\ docPhase' = "open" /\ root' = Nil
  /\ UNCHANGED <<treeVars, tags, started, curElement, list>>

(* NodeList::append() to the context's own list, which is no node: a node    *)
(* that goes behind its last one is not noted as the last.                   *)
AppendToList(n) ==
  IF list.first = Nil
    THEN list' = [first |-> n, last |-> n] /\ UNCHANGED links
    ELSE links' = InsertAfter(links, n, list.last) /\ UNCHANGED list

ElStart(e) ==
  /\ docPhase = "open" /\ e \notin ToSet(started) /\ (started = <<>> \/ tags # <<>>)
  /\ IF curElement # Nil THEN AppendNode(curElement, e) /\ UNCHANGED list
                  ELSE AppendToList(e) /\ UNCHANGED <<text, gone, torn>>
  /\ curElement' = e
  /\ tags' = Append(tags, e) /\ started' = Append(started, e)
  /\ UNCHANGED <<docPhase, root>>

(* Data that is not blank.  It is added to the context's list. *)
ElData(t) ==
  /\ docPhase = "open" /\ tags # <<>> /\ t \notin gone
  /\ links.prev[t] = Nil
  /\ AppendToList(t)
  /\ UNCHANGED <<docPhase, tags, started, curElement, root, text, gone, torn>>

(* Mutant: the element that has ended stays the current one. *)
ElEndStays ==
  /\ docPhase = "open" /\ tags # <<>>
  /\ curElement' = IF Len(tags) = 1 THEN Nil ELSE curElement
  /\ tags' = Front(tags)
  /\ UNCHANGED <<treeVars, docPhase, started, list, root>>

ElEnd ==
  /\ docPhase = "open" /\ tags # <<>>
  /\ curElement' = links.parent[curElement]
  /\ tags' = Front(tags)
  /\ UNCHANGED <<treeVars, docPhase, started, list, root>>

EndParse ==
  /\ docPhase = "open" /\ started # <<>> /\ tags = <<>>
  /\ docPhase' = "done" /\ root' = list.first
  /\ UNCHANGED <<treeVars, tags, started, curElement, list>>

(* ParseEx: the context is destroyed. *)
ParseFails ==
  /\ docPhase = "open" /\ docPhase' = "failed"
  /\ UNCHANGED <<treeVars, tags, started, curElement, list, root>>

DocumentNext ==
  \/ ParseDocument \/ ElEnd \/ EndParse \/ ParseFails
  \/ \E e \in Elements : ElStart(e)
  \/ \E t \in Texts : ElData(t)

(* The elements below and including e, a parent before its children. *)
Preorder(e) ==
  LET order[k \in 0..Cardinality(Elements), n \in Nodes] ==
        IF k = 0 \/ n \notin Elements THEN <<n>>
        ELSE <<n>> \o FlattenSeq([i \in DOMAIN Kids[n] |-> order[k - 1, Kids[n][i]]])
  IN  order[Cardinality(Elements), e]

(* While parse() runs the current element and those above it are the open    *)
(* tags; a document that was parsed has all its elements below its root, in  *)
(* the order of their tags; one that failed has no root.                     *)
ParsedInOrder ==
  /\ docPhase = "open" =>
       IF tags = <<>> THEN curElement = Nil ELSE curElement = Last(tags) /\ Above(curElement) = ToSet(tags)
  /\ docPhase = "done" => Preorder(root) = started
  /\ docPhase # "done" => root = Nil

================================================================================
