------------------------------- MODULE Containers -------------------------------
(***************************************************************************)
(* The containers that keep an order: OrderedMap, in which a key stays      *)
(* where it was first inserted, MultiMap, in which equal keys stay in the   *)
(* order they came, and the sorted List.  Map and Array are functions.      *)
(* Every value written is the number of the call that wrote it.             *)
(***************************************************************************)
EXTENDS Integers, Sequences, SequencesExt

CONSTANTS Keys,        \* numbers, for their order
          MaxInserts   \* bound

ASSUME ContainersAssumption == Keys \subseteq Nat \ {0} /\ MaxInserts \in Nat

VARIABLES
  ordered,    \* OrderedMap: a List of [key, val]
  multi,      \* MultiMap, in iteration order
  sorted,     \* a List kept by insert( el ); elements compare by key
  map,        \* Map
  array,      \* Array
  inserts     \* calls that have written

containerVars == <<ordered, multi, sorted, map, array, inserts>>

Null == 0     \* DataType(): also the static `null' that a lookup returns

ContainersInit ==
  /\ ordered = <<>> /\ multi = <<>> /\ sorted = <<>>
  /\ map = [k \in {} |-> Null] /\ array = <<>> /\ inserts = 0

Pair(k, v) == [key |-> k, val |-> v]
KeysOf(s) == [i \in DOMAIN s |-> s[i].key]

(* find(): the position of the first pair of key k, one past the end if none. *)
FindKey(s, k) == SelectInSeq(s \o <<Pair(k, Null)>>, LAMBDA p : p.key = k)

Contained(s, k) == FindKey(s, k) <= Len(s)

(* operator [] of a constant map *)
Lookup(s, k) == IF Contained(s, k) THEN s[FindKey(s, k)].val ELSE Null

Writes == inserts < MaxInserts /\ inserts' = inserts + 1

(* Mutant: the new value goes to the end although the key is there. *)
WrittenAtEnd(s, k, v) ==
  Append(IF Contained(s, k) THEN RemoveAt(s, FindKey(s, k)) ELSE s, Pair(k, v))

(* OrderedMap::insert(): the value is replaced, or the pair goes to the end. *)
Written(s, k, v) ==
  IF Contained(s, k) THEN [s EXCEPT ![FindKey(s, k)].val = v] ELSE Append(s, Pair(k, v))

(* Ahead of the first pair of a greater key: MultiMap::insert() by            *)
(* upper_bound(), and the sorted List::insert().                              *)
InsertSorted(s, k, v) ==
  InsertAt(s, SelectInSeq(s \o <<Pair(k + 1, v)>>, LAMBDA p : p.key > k), Pair(k, v))

InsertOrdered(k) ==
  /\ Writes /\ ordered' = Written(ordered, k, inserts')
  /\ UNCHANGED <<multi, sorted, map, array>>

(* operator [] of a map that is not constant makes the pair. *)
IndexOrdered(k) ==
  /\ ordered' = IF Contained(ordered, k) THEN ordered ELSE Append(ordered, Pair(k, Null))
  /\ UNCHANGED <<multi, sorted, map, array, inserts>>

EraseOrdered(k) ==
  /\ Contained(ordered, k)
  /\ ordered' = RemoveAt(ordered, FindKey(ordered, k))
  /\ UNCHANGED <<multi, sorted, map, array, inserts>>

InsertMulti(k) ==
  /\ Writes /\ multi' = InsertSorted(multi, k, inserts')
  /\ UNCHANGED <<ordered, sorted, map, array>>

(* operator [] of a key that is there refers to one of its values: nothing. *)
IndexMulti(k) ==
  /\ ~Contained(multi, k) /\ inserts < MaxInserts
  /\ multi' = InsertSorted(multi, k, Null)
  /\ inserts' = inserts + 1
  /\ UNCHANGED <<ordered, sorted, map, array>>

InsertList(k) ==
  /\ Writes /\ sorted' = InsertSorted(sorted, k, inserts')
  /\ UNCHANGED <<ordered, multi, map, array>>

(* Map::insert(), unlike OrderedMap's, keeps a value that is there. *)
InsertMap(k) ==
  /\ Writes /\ map' = [i \in DOMAIN map \cup {k} |-> IF i \in DOMAIN map THEN map[i] ELSE inserts']
  /\ UNCHANGED <<ordered, multi, sorted, array>>

(* Array::operator [] grows the array up to the index. *)
IndexArray(i) ==
  /\ Writes
  /\ array' = [j \in 1..(IF i > Len(array) THEN i ELSE Len(array)) |->
                 IF j = i THEN inserts' ELSE IF j <= Len(array) THEN array[j] ELSE Null]
  /\ UNCHANGED <<ordered, multi, sorted, map>>

ContainersNext ==
  \E k \in Keys :
    \/ InsertOrdered(k) \/ IndexOrdered(k) \/ EraseOrdered(k)
    \/ InsertMulti(k) \/ IndexMulti(k) \/ InsertList(k) \/ InsertMap(k) \/ IndexArray(k)

ContainersSpec == ContainersInit /\ [][ContainersNext]_containerVars

--------------------------------------------------------------------------------
InOrder(s) ==
  \A i, j \in DOMAIN s : i < j => s[i].key < s[j].key \/ (s[i].key = s[j].key /\ s[i].val < s[j].val)

Ahead(s, a, b) == \E i, j \in DOMAIN s : i < j /\ s[i].key = a /\ s[j].key = b

(* In an OrderedMap no step makes a key appear twice or moves it: a key that  *)
(* stays is ahead of the keys it was ahead of and of those that are new.      *)
(* Equal keys of a MultiMap and equal elements of a sorted List stay in the   *)
(* order of their insertion.  No lookup of a key gives a value that was       *)
(* overwritten.                                                               *)
OrderIsKept ==
  [][/\ \A a, b \in Keys :
          /\ a # b /\ Contained(ordered, a) /\ Contained(ordered, a)' /\ Contained(ordered, b)'
          /\ Ahead(ordered, a, b) \/ ~Contained(ordered, b)
          => Ahead(ordered, a, b)'
     /\ IsInjective(KeysOf(ordered)')
     /\ InOrder(multi)' /\ InOrder(sorted)'
     /\ \A k \in Keys : Lookup(ordered, k)' >= Lookup(ordered, k) \/ ~Contained(ordered, k)']_containerVars

(* What the proof carries along: values are numbers of calls made so far. *)
Pairs == [key : Keys, val : 0..inserts]

ContainersIInv ==
  /\ inserts \in Nat
  /\ {ordered, multi, sorted} \subseteq Seq(Pairs)
  /\ IsInjective(KeysOf(ordered))
  /\ InOrder(multi) /\ InOrder(sorted)
================================================================================
