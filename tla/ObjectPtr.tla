------------------------------- MODULE ObjectPtr -------------------------------
(***************************************************************************)
(* Finagle::ObjectPtr over ReferenceCount, and the GarbageCollector that    *)
(* keeps ObjectPtrs until nobody else does.  A handle is an ObjectPtr: a    *)
(* variable of the program (Roots) or the one member an object has, named   *)
(* by the object.  Deleting an object runs its destructor, which may use    *)
(* other handles, and then destroys its member, which may delete again:     *)
(* what is not finished is a stack of frames.                               *)
(*                                                                          *)
(* What the code leaves to its users (README, section 6): no destructor     *)
(* uses the handle whose assignment or destruction runs it, which still     *)
(* points at the dying object, nor assigns one through which the object is  *)
(* held whose member is being assigned; there are no cycles (members point  *)
(* at higher objects); and, as the counts are not atomic, all of this is    *)
(* one thread's.                                                            *)
(***************************************************************************)
EXTENDS Integers, FiniteSets, SequencesExt

CONSTANTS
  Roots, Null,
  MaxObjects,         \* bound: objects that exist at a time
  MaxFrames,          \* bound: calls and destructors in progress
  MaxTrash            \* bound: entries of the garbage collector

ASSUME ObjectPtrAssumption ==
  /\ MaxObjects \in Nat /\ Roots \cap (1..MaxObjects) = {} /\ Null \notin 1..MaxObjects
  /\ MaxFrames \in Nat /\ MaxTrash \in Nat

VARIABLES
  ptr,        \* ptr[h]: _ptr of handle h
  refs,       \* refs[o]: _refs
  state,      \* state[o]: "none", "alive", or "dying" in its destructor
  frames,     \* the calls in progress
  trash,      \* _trash, the objects its ObjectPtrs point at
  connected   \* collect() is a slot of AppLoop::idle

ptrVars == <<ptr, refs, state, frames, trash, connected>>

Objects == 1..MaxObjects
Handles == Roots \cup Objects

PtrInit ==
  /\ ptr = [h \in Handles |-> Null]
  /\ refs = [o \in Objects |-> 0]
  /\ state = [o \in Objects |-> "none"]
  /\ frames = <<>>
  /\ trash = <<>>
  /\ connected = FALSE

(* ref() and deref(), which the null pointer is spared. *)
Ref(r, o)   == IF o = Null THEN r ELSE [r EXCEPT ![o] = @ + 1]
Deref(r, o) == IF o = Null THEN r ELSE [r EXCEPT ![o] = @ - 1]

(* The ObjectPtr lets go of o: with the last reference o is deleted.  fs are *)
(* the frames that are left to finish afterwards.                            *)
LetGo(r, o, fs) ==
  /\ refs' = Deref(r, o)
  /\ IF o # Null /\ r[o] = 1
       THEN /\ state' = [state EXCEPT ![o] = "dying"]
            /\ frames' = Append(fs, [op |-> "delete", object |-> o])
       ELSE frames' = fs /\ UNCHANGED state

Top(op) == frames # <<>> /\ Last(frames).op = op

(* A call is made by the program or by the destructor on top. *)
MayCall == frames = <<>> \/ (Top("delete") /\ Len(frames) < MaxFrames)

(* Handles that exist and are not in the middle of a change. *)
Usable(h) ==
  /\ h \in Objects => state[h] = "alive"
  /\ \A i \in DOMAIN frames : frames[i].op = "assign" => frames[i].handle # h

(* p is o, or held by o's member, or by that one's object's, and so on. *)
Reaches(o, p) ==
  /\ o # Null
  /\ \A S \in SUBSET Objects :
       o \in S /\ (\A q \in S : ptr[q] \in S \cup {Null}) => p \in S

(* Handles that may be pointed at another object. *)
Assignable(h) ==
  /\ Usable(h)
  /\ \A i \in DOMAIN frames :
       frames[i].op = "assign" => ~Reaches(ptr[h], frames[i].handle)

--------------------------------------------------------------------------------
(* Mutant: operator = lets the old object go before it refers to the new one. *)
AssignDerefsFirst(h, to) ==
  /\ LetGo(refs, ptr[h], Append(frames, [op |-> "assign", handle |-> h, to |-> to]))
  /\ UNCHANGED <<ptr, trash, connected>>

(* operator = takes its argument by value, so that there are two references  *)
(* more to the new object while the old one goes.                            *)
Assign(h, to) ==
  /\ LetGo(Ref(Ref(refs, to), to), ptr[h],
           Append(frames, [op |-> "assign", handle |-> h, to |-> to]))
  /\ UNCHANGED <<ptr, trash, connected>>

CallAssign(h) ==
  /\ MayCall /\ Assignable(h)
  /\ \/ Assign(h, Null)
     \/ \E g \in Handles :
          /\ Usable(g) /\ ptr[g] # Null
          /\ h \in Objects => h < ptr[g]
          /\ Assign(h, ptr[g])

(* The same with `new Type', an object without references. *)
CallAssignNew(h) ==
  \E o \in Objects :
    /\ MayCall /\ Assignable(h)
    /\ state[o] = "none"
    /\ h \in Objects => h < o
    /\ LET old == ptr[h]
           r == Ref(Ref(refs, o), o)
           dies == old # Null /\ r[old] = 1
           back == Append(frames, [op |-> "assign", handle |-> h, to |-> o])
       IN  /\ refs' = Deref(r, old)
           /\ state' = [p \in Objects |-> IF p = o THEN "alive"
                                          ELSE IF dies /\ p = old THEN "dying" ELSE state[p]]
           /\ frames' = IF dies THEN Append(back, [op |-> "delete", object |-> old]) ELSE back
    /\ UNCHANGED <<ptr, trash, connected>>

(* The old object is gone: _ptr is set and the argument destroyed. *)
EndAssign ==
  /\ Top("assign")
  /\ ptr' = [ptr EXCEPT ![Last(frames).handle] = Last(frames).to]
  /\ LetGo(refs, Last(frames).to, Front(frames))
  /\ UNCHANGED <<trash, connected>>

(* A destructor has run: the object's member, an ObjectPtr, is destroyed. *)
EndDestructor ==
  /\ Top("delete")
  /\ LET o == Last(frames).object
     IN  LetGo(refs, ptr[o], Append(Front(frames), [op |-> "free", object |-> o]))
  /\ UNCHANGED <<ptr, trash, connected>>

FreeObject ==
  /\ Top("free")
  /\ LET o == Last(frames).object
     IN  /\ state' = [state EXCEPT ![o] = "none"]
         /\ ptr' = [ptr EXCEPT ![o] = Null]
         /\ refs' = [refs EXCEPT ![o] = 0]
  /\ frames' = Front(frames)
  /\ UNCHANGED <<trash, connected>>

--------------------------------------------------------------------------------
(* GarbageCollector. *)

(* operator +=: the first entry connects collect() to AppLoop::idle. *)
CallAdd(h) ==
  /\ MayCall /\ Usable(h) /\ ptr[h] # Null /\ Len(trash) < MaxTrash
  /\ trash' = Append(trash, ptr[h])
  /\ refs' = Ref(refs, ptr[h])
  /\ connected' = (connected \/ Len(trash') = 1)
  /\ UNCHANGED <<ptr, state, frames>>

CollectCalled ==
  /\ frames = <<>> /\ connected /\ trash # <<>>
  /\ frames' = <<[op |-> "collect", next |-> 1]>>
  /\ UNCHANGED <<ptr, refs, state, trash, connected>>

(* Mutant: an entry counts itself among the others. *)
SharedWithItself(o) == refs[o] > 0

Shared(o) == refs[o] > 1

(* One round of collect(): entries others refer to stay; the one reference   *)
(* that is left is dropped and the entry erased.  At the end `disconnect(    *)
(* this )' names no slot, so that collect() stays connected.                 *)
CollectEntry ==
  /\ Top("collect")
  /\ LET i == Last(frames).next
         rest == Front(frames)
     IN  IF i > Len(trash)
           THEN frames' = rest /\ UNCHANGED <<refs, state>>
         ELSE IF Shared(trash[i])
           THEN /\ frames' = Append(rest, [op |-> "collect", next |-> i + 1])
                /\ UNCHANGED <<refs, state>>
         ELSE LetGo(refs, trash[i], Append(rest, [op |-> "erase", next |-> i]))
  /\ UNCHANGED <<ptr, trash, connected>>

(* The entry is 0 and leaves the list; the round goes on behind it. *)
EraseEntry ==
  /\ Top("erase")
  /\ trash' = RemoveAt(trash, Last(frames).next)
  /\ frames' = [frames EXCEPT ![Len(frames)].op = "collect"]
  /\ UNCHANGED <<ptr, refs, state, connected>>

PtrNext ==
  \/ \E h \in Handles : CallAssign(h) \/ CallAssignNew(h) \/ CallAdd(h)
  \/ EndAssign \/ EndDestructor \/ FreeObject \/ CollectCalled \/ CollectEntry \/ EraseEntry

(* The library's own steps go on, and AppLoop comes back to its idle handlers *)
(* whatever else the program does; destructors need not return.               *)
PtrFairness ==
  /\ WF_ptrVars(EndAssign) /\ WF_ptrVars(FreeObject)
  /\ WF_ptrVars(CollectEntry) /\ WF_ptrVars(EraseEntry) /\ SF_ptrVars(CollectCalled)

--------------------------------------------------------------------------------
(* Properties. *)

(* The handles that hold a reference: those of the program and of objects    *)
(* that are not being destroyed, and the collector's.                        *)
Holders(o) ==
  Cardinality({h \in Handles : Usable(h) /\ ptr[h] = o})
  + Cardinality({i \in DOMAIN trash : trash[i] = o})

Erasing(i) == \E k \in DOMAIN frames : frames[k].op = "erase" /\ frames[k].next = i

(* However destructors assign, create and add to the trash: a handle in use  *)
(* never points at an object that is dying or gone, an object lives while it *)
(* is held and no longer, and between calls its count is that of its         *)
(* holders.                                                                  *)
HeldWhileAlive ==
  /\ \A h \in Handles : Usable(h) /\ ptr[h] # Null => state[ptr[h]] = "alive"
  /\ \A i \in DOMAIN trash : Erasing(i) \/ state[trash[i]] = "alive"
  /\ frames = <<>> => \A o \in Objects :
       refs[o] = Holders(o) /\ (state[o] = "alive" <=> refs[o] > 0)

(* An object that only the garbage collector holds is destroyed, unless      *)
(* somebody takes a reference again, whatever destructors add to the trash   *)
(* while collect() is in the middle of it.  They come to an end: were each    *)
(* of them to add another object, collect() would not return to the entries   *)
(* it has passed.                                                             *)
TrashIsCollected ==
  []<>(frames = <<>>) =>
    \A o \in Objects :
      (o \in ToSet(trash) /\ refs[o] = 1) ~> (o \notin ToSet(trash) \/ refs[o] > 1)

--------------------------------------------------------------------------------
(* HeldWhileAlive with what makes it inductive (LifetimeProofs). *)

PtrSpec == PtrInit /\ [][PtrNext]_ptrVars

PtrFrames ==
  [op : {"assign"}, handle : Handles, to : Objects \cup {Null}]
  \cup [op : {"delete", "free"}, object : Objects]
  \cup [op : {"collect", "erase"}, next : Nat \ {0}]

PtrTypeOK ==
  /\ ptr \in [Handles -> Objects \cup {Null}] /\ refs \in [Objects -> Int]
  /\ state \in [Objects -> {"none", "alive", "dying"}]
  /\ frames \in Seq(PtrFrames) /\ trash \in Seq(Objects) /\ connected \in BOOLEAN
  /\ \A o \in Objects : ptr[o] # Null => o < ptr[o]

(* The members of living objects are assigned, one call each; an object dies *)
(* in one frame, and the collector's is below the others.                    *)
Assigns(i)  == frames[i].op = "assign"
Destroys(i) == frames[i].op \in {"delete", "free"}

FramesInv ==
  /\ \A i \in DOMAIN frames :
       /\ Assigns(i) /\ frames[i].handle \in Objects =>
            /\ state[frames[i].handle] = "alive"
            /\ frames[i].to # Null => frames[i].handle < frames[i].to
       /\ Destroys(i) => state[frames[i].object] = "dying"
       /\ frames[i].op \in {"collect", "erase"} => i = 1
       /\ frames[i].op = "erase" => frames[i].next \in DOMAIN trash
       /\ \A j \in DOMAIN frames : i # j =>
            /\ Assigns(i) /\ Assigns(j) => frames[i].handle # frames[j].handle
            /\ Destroys(i) /\ Destroys(j) => frames[i].object # frames[j].object
  /\ \A o \in Objects :
       state[o] = "dying" => \E i \in DOMAIN frames : Destroys(i) /\ frames[i].object = o

(* The references to o: those of handles, but for the ones that have let go  *)
(* of it before they are set or destroyed; the collector's; and two of the   *)
(* argument of an assignment in progress.                                    *)
Holds(h) ==
  \A i \in DOMAIN frames :
    /\ Assigns(i) => frames[i].handle # h
    /\ frames[i].op = "free" => frames[i].object # h

HandleRefs(o)   == {h \in Handles : ptr[h] = o /\ Holds(h)}
TrashRefs(o)    == {i \in DOMAIN trash : trash[i] = o /\ ~Erasing(i)}
ArgumentRefs(o) == {i \in DOMAIN frames : Assigns(i) /\ frames[i].to = o}

CountInv ==
  \A o \in Objects :
    /\ IsFiniteSet(HandleRefs(o))
    /\ refs[o] = Cardinality(HandleRefs(o)) + Cardinality(TrashRefs(o))
                 + 2 * Cardinality(ArgumentRefs(o))
    /\ state[o] = "alive" <=> refs[o] > 0
    /\ state[o] = "none" => ptr[o] = Null

(* The object whose member is being assigned is held, through the objects S,  *)
(* by what does not go before the assignment has ended.                       *)
HeldBelow(i, s) ==
  \/ \E r \in Roots : ptr[r] = s /\ Holds(r)
  \/ TrashRefs(s) # {}
  \/ \E j \in 1 .. i - 1 : Assigns(j) /\ frames[j].to = s
  \/ \E j \in 1 .. i - 1 : frames[j].op = "delete" /\ ptr[frames[j].object] = s

Supports(S, i) ==
  /\ frames[i].handle \in S
  /\ \A s \in S :
       /\ state[s] = "alive"
       /\ s # frames[i].handle => ptr[s] \in S /\ Holds(s)
       /\ HeldBelow(i, s) \/ \E p \in S \ {frames[i].handle} : ptr[p] = s

SupportInv ==
  \A i \in DOMAIN frames :
    Assigns(i) /\ frames[i].handle \in Objects => \E S \in SUBSET Objects : Supports(S, i)

PtrIInv == PtrTypeOK /\ FramesInv /\ CountInv /\ SupportInv
================================================================================
