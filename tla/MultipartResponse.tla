---------------------------- MODULE MultipartResponse ---------------------------
(***************************************************************************)
(* Net/MultipartResponse, fed by a Net/Request: a body of several parts     *)
(* comes in fragments of any size.  A part says its size, or it is text and *)
(* ends at the next delimiter.                                              *)
(*                                                                          *)
(* A body is a sequence of symbols: Break, Boundary, TypeHeader, Datum, or   *)
(* a number n > 0 for the header content-length: n.  Bodies are well formed *)
(* and no data looks like a delimiter.                                      *)
(***************************************************************************)
EXTENDS Integers, Sequences, SequencesExt

CONSTANTS
  PartLists,      \* the lists of parts sent; a part is [sized, length]
  MaxFragments    \* bound

Datum == 0
Break == -1
Boundary == -2
TypeHeader == -3

Huge == 1000000     \* what a negative size_t is

Data(n) == [i \in 1..n |-> Datum]

Encoded(p) ==
  <<Boundary, Break, TypeHeader, Break>> \o (IF p.sized THEN <<p.length, Break>> ELSE <<>>)
    \o <<Break>> \o Data(p.length) \o <<Break>>

(* The body sent, with the delimiter that ends it. *)
BodyOf(ps) == FlattenSeq([i \in DOMAIN ps |-> Encoded(ps[i])]) \o <<Boundary, Break>>

(* A length that is said is not 0; no body is as long as a negative size_t.   *)
ASSUME MultipartAssumption ==
  /\ MaxFragments \in Nat \ {0}
  /\ \A ps \in PartLists :
       /\ ps \in Seq([sized : BOOLEAN, length : Nat])
       /\ \A i \in DOMAIN ps : ps[i].sized => ps[i].length > 0
       /\ Len(BodyOf(ps)) < Huge

VARIABLES
  parts,       \* the parts of this body
  coming,      \* the symbols still to be received
  fragments,   \* how many fragments came
  cuts,        \* history: behind how many symbols a fragment ended
  firstFrag,   \* Request::_firstFrag
  boundary,    \* whether _boundary is known
  frag,        \* the part of the fragment still to be processed
  head,        \* _head: an incomplete header
  resp,        \* _resp: the part in progress, or NoPart
  delivered,   \* the bodies passed to recvPart
  listening    \* recvPart has a slot

multipartVars ==
  <<parts, coming, fragments, cuts, firstFrag, boundary, frag, head, resp, delivered, listening>>

NoPart == [size |-> 0, body |-> <<Boundary>>]

MultipartInit ==
  /\ parts \in PartLists
  /\ coming = BodyOf(parts)
  /\ fragments = 0 /\ cuts = {} /\ firstFrag = TRUE /\ boundary = FALSE
  /\ frag = <<>> /\ head = <<>> /\ resp = NoPart /\ delivered = <<>> /\ listening = TRUE

(* String::find(): how many symbols are before the first s in t, or -1. *)
Find(t, s) ==
  LET at == {i \in 0..(Len(t) - Len(s)) : SubSeq(t, i + 1, i + Len(s)) = s}
  IN  IF at = {} THEN -1 ELSE CHOOSE i \in at : \A j \in at : i <= j

Drop(t, n) == SubSeq(t, n + 1, Len(t))

(* How many symbols of the body came. *)
Received == Len(BodyOf(parts)) - Len(coming)

(* curl calls Request::onBodyFrag().  The first fragment sends recvBodyStart  *)
(* ahead, from which the boundary is read.                                    *)
OnBodyFrag(n) ==
  /\ frag = <<>> /\ n \in 1..Len(coming)
  /\ fragments < MaxFragments /\ (fragments = MaxFragments - 1 => n = Len(coming))
  /\ fragments' = fragments + 1
  /\ frag' = SubSeq(coming, 1, n) /\ coming' = Drop(coming, n)
  /\ cuts' = cuts \cup {Received + n}
  /\ boundary' = (boundary \/ firstFrag) /\ firstFrag' = FALSE
  /\ UNCHANGED <<parts, head, resp, delivered, listening>>

(* Nobody listens: the fragment is dropped. *)
Ignore ==
  /\ frag # <<>> /\ ~listening
  /\ frag' = <<>>
  /\ UNCHANGED <<parts, coming, fragments, cuts, firstFrag, boundary, head, resp, delivered, listening>>

Difference(a, b) == IF a < b THEN Huge ELSE a - b

(* Mutant: what the part already holds is not subtracted. *)
WantAllAgain(size) == size

(* How much the part in progress lacks of its size. *)
Want(size) == Difference(size, Len(resp.body))

(* The symbols go to the part in progress; with its last one it is passed on. *)
(* The slot may then be the last one that disconnects.                        *)
FillPart(size) ==
  LET w == Want(size)
  IN  IF w > Len(frag)
        THEN /\ resp' = [size |-> size, body |-> resp.body \o frag]
             /\ frag' = <<>> /\ UNCHANGED <<delivered, listening>>
        ELSE /\ delivered' = Append(delivered, resp.body \o SubSeq(frag, 1, w))
             /\ resp' = NoPart /\ frag' = Drop(frag, w)
             /\ listening' \in {TRUE, FALSE}

(* A text part ends before the next delimiter in what it holds and the        *)
(* fragment; without one it takes the fragment.                               *)
PartGoesOn ==
  /\ frag # <<>> /\ listening /\ resp # NoPart
  /\ LET end == Find(resp.body \o frag, <<Break, Boundary, Break>>)
     IN  IF resp.size # 0 THEN FillPart(resp.size)
         ELSE IF end = -1
           THEN /\ resp' = [resp EXCEPT !.body = @ \o frag]
                /\ frag' = <<>> /\ UNCHANGED <<delivered, listening>>
           ELSE FillPart(end)
  /\ UNCHANGED <<parts, coming, fragments, cuts, firstFrag, boundary, head>>

DropFront(t, s) == IF Find(t, s) = 0 THEN Drop(t, Len(s)) ELSE t

(* Between parts: a header is kept until it is whole; then the delimiter is   *)
(* dropped from it, its length is read, and what follows is the part's.       *)
ReadHeader ==
  /\ frag # <<>> /\ listening /\ resp = NoPart
  /\ LET all == head \o frag
         end == Find(all, <<Break, Break>>)
         fields == DropFront(DropFront(SubSeq(all, 1, end + 1), <<Break>>), <<Boundary, Break>>)
         sizes == {n \in ToSet(fields) : n > 0}
     IN  IF end = -1
           THEN head' = all /\ frag' = <<>> /\ UNCHANGED resp
           ELSE /\ Find(fields, <<TypeHeader>>) = 0
                /\ resp' = [size |-> IF sizes = {} THEN 0 ELSE CHOOSE n \in sizes : TRUE,
                            body |-> <<>>]
                /\ head' = <<>> /\ frag' = Drop(all, end + 2)
  /\ UNCHANGED <<parts, coming, fragments, cuts, firstFrag, boundary, delivered, listening>>

MultipartNext ==
  \/ \E n \in 1..Len(coming) : OnBodyFrag(n)
  \/ Ignore \/ PartGoesOn \/ ReadHeader

MultipartSpec == MultipartInit /\ [][MultipartNext]_multipartVars

(* Where the i-th part ends: behind the break that begins the delimiter.      *)
PartEnd(i) == Len(FlattenSeq([j \in 1..i |-> Encoded(parts[j])]))

(* A fragment ended inside the delimiter <<Break, Boundary, Break>> after a   *)
(* text part.                                                                 *)
TextDelimiterCut ==
  \E i \in DOMAIN parts : ~parts[i].sized /\ (PartEnd(i) \in cuts \/ PartEnd(i) + 1 \in cuts)

(* However the body is cut, the parts passed on are those sent, in order and  *)
(* whole, and no fragment is processed before the boundary is known.  When    *)
(* everything came, is processed and somebody still listens, all have been    *)
(* passed on unless the delimiter after a text part was itself cut, and then  *)
(* they have not: the part has taken the first symbols of the delimiter, so   *)
(* the difference of MultipartResponse.cpp:108 is negative, and as a size_t   *)
(* no fragment is ever long enough.                                           *)
PartsAsSent ==
  /\ IsPrefix(delivered, [i \in DOMAIN parts |-> Data(parts[i].length)])
  /\ frag # <<>> => boundary
  /\ coming = <<>> /\ frag = <<>> /\ listening =>
         (Len(delivered) = Len(parts) <=> ~TextDelimiterCut)
================================================================================
