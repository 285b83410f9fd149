------------------------------- MODULE Singleton -------------------------------
(***************************************************************************)
(* What code units have as static objects: a Finagle::Singleton, created on *)
(* first use and freed with the last unit, an Initializer, created with the *)
(* first unit, and a ClassFactory that enters itself in a FactoryMap.       *)
(* Threads use the singleton between, one of them replaces its instance.    *)
(*                                                                          *)
(* Two threads that replace the instance are not safe, nor is an instance   *)
(* used after its units: README, section 6.                                 *)
(***************************************************************************)
EXTENDS Integers, FiniteSets

CONSTANTS
  Units, Users,
  Replacer,           \* the thread that calls operator ()( that )
  Names, NameOf,      \* NameOf[u]: the name of the factory of unit u
  NoUnit,
  MaxInstances        \* bound: instances created in a run

ASSUME SingletonAssumption ==
  /\ Replacer \notin Users /\ NoUnit \notin Units
  /\ NameOf \in [Units -> Names]
  /\ MaxInstances \in Nat

VARIABLES
  loaded,       \* the units whose static objects exist
  useCount,     \* Singleton::_useCount
  inst,         \* Singleton::_inst, or 0
  made,         \* instances made so far
  freed,        \* the instances that were deleted
  replacing,    \* the replacer's pc
  that,         \* its argument
  given,        \* the instance the last step returned a reference to, or 0
  early,        \* a unit was unloaded when there was no instance (history)
  initCount,    \* Initializer::_useCount
  initAlive,    \* Initializer::_inst exists
  factories,    \* FactoryMap::_map: the unit whose factory has the name
  created       \* the unit whose factory made the last object, or NoUnit

singletonVars ==
  <<loaded, useCount, inst, made, freed, replacing, that, given, early,
    initCount, initAlive, factories, created>>
useVars == <<inst, made, freed, replacing, that>>
staticVars == <<loaded, useCount, early, initCount, initAlive, factories, created>>

SingletonInit ==
  /\ loaded = {}
  /\ useCount = 0 /\ inst = 0
  /\ made = 0 /\ freed = {} /\ given = 0 /\ early = FALSE
  /\ replacing = "idle" /\ that = 0
  /\ initCount = 0 /\ initAlive = FALSE
  /\ factories = [n \in Names |-> NoUnit]
  /\ created = NoUnit

--------------------------------------------------------------------------------
(* A factory enters itself under its name; Map::insert keeps the one that    *)
(* has the name already.                                                     *)
Registered(u) == [factories EXCEPT ![NameOf[u]] = IF @ = NoUnit THEN u ELSE @]

(* Static construction: each constructor once per unit. *)
Load(u) ==
  /\ u \notin loaded /\ freed = {} /\ ~early
  /\ loaded' = loaded \cup {u}
  /\ useCount' = useCount + 1
  /\ initCount' = initCount + 1
  /\ initAlive' = (initAlive \/ initCount = 0)
  /\ factories' = Registered(u)
  /\ UNCHANGED <<early, created>> /\ given' = 0 /\ UNCHANGED useVars

(* Mutant: the count falls for every unit twice. *)
UnloadedCountTwice == IF inst = 0 THEN useCount ELSE useCount - 2

(* ~Singleton() counts down when there is an instance. *)
UnloadedCount == IF inst = 0 THEN useCount ELSE useCount - 1

(* Static destruction.  FactoryMap entries stay. *)
Unload(u) ==
  /\ u \in loaded /\ replacing = "idle"
  /\ loaded' = loaded \ {u}
  /\ useCount' = UnloadedCount
  /\ IF inst # 0 /\ useCount' <= 0
       THEN inst' = 0 /\ freed' = freed \cup {inst}
       ELSE UNCHANGED <<inst, freed>>
  /\ early' = (early \/ inst = 0)
  /\ initCount' = initCount - 1
  /\ initAlive' = (initAlive /\ initCount' # 0)
  /\ given' = 0 /\ UNCHANGED <<made, replacing, that, factories, created>>

--------------------------------------------------------------------------------
(* Mutant: operator () without the lock. *)
UseUnlocked(t) ==
  /\ loaded # {}
  /\ IF inst = 0
       THEN /\ made < MaxInstances
            /\ made' = made + 1 /\ inst' = made'
       ELSE UNCHANGED <<made, inst>>
  /\ given' = inst'
  /\ UNCHANGED <<freed, replacing, that>> /\ UNCHANGED staticVars

(* operator ()(), all of it under _guard. *)
Use(t) ==
  /\ loaded # {} /\ replacing \notin {"locked", "freed"}
  /\ IF inst = 0
       THEN /\ made < MaxInstances
            /\ made' = made + 1 /\ inst' = made'
       ELSE UNCHANGED <<made, inst>>
  /\ given' = inst'
  /\ UNCHANGED <<freed, replacing, that>> /\ UNCHANGED staticVars

(* operator ()( that ) compares without the lock. *)
Replace ==
  /\ loaded # {} /\ replacing = "idle"
  /\ \/ /\ inst # 0 /\ that' = inst
        /\ replacing' = "done" /\ UNCHANGED made
     \/ /\ made < MaxInstances
        /\ made' = made + 1 /\ that' = made'
        /\ replacing' = "differs"
  /\ given' = 0 /\ UNCHANGED <<inst, freed>> /\ UNCHANGED staticVars

LockGuard ==
  /\ replacing = "differs" /\ replacing' = "locked"
  /\ given' = 0 /\ UNCHANGED <<inst, made, freed, that>> /\ UNCHANGED staticVars

(* free(): the old instance is deleted before _inst changes. *)
FreeOld ==
  /\ replacing = "locked" /\ replacing' = "freed"
  /\ freed' = IF inst = 0 THEN freed ELSE freed \cup {inst}
  /\ given' = 0 /\ UNCHANGED <<inst, made, that>> /\ UNCHANGED staticVars

SetInst ==
  /\ replacing = "freed" /\ replacing' = "done"
  /\ inst' = that
  /\ given' = 0 /\ UNCHANGED <<made, freed, that>> /\ UNCHANGED staticVars

(* The guard is free again when the instance is returned. *)
ReplaceReturns ==
  /\ replacing = "done" /\ replacing' = "idle"
  /\ given' = inst
  /\ UNCHANGED <<inst, made, freed, that>> /\ UNCHANGED staticVars

(* FactoryMap::operator ()( name ): a new object, or 0 for an unknown name. *)
Make(n) ==
  /\ loaded = Units
  /\ created' = factories[n]
  /\ UNCHANGED <<loaded, useCount, early, initCount, initAlive, factories>>
  /\ given' = 0 /\ UNCHANGED useVars

SingletonNext ==
  \/ \E u \in Units : Load(u) \/ Unload(u)
  \/ \E t \in Users : Use(t)
  \/ Replace \/ LockGuard \/ FreeOld \/ SetInst \/ ReplaceReturns
  \/ \E n \in Names : Make(n)

SingletonSpec == SingletonInit /\ [][SingletonNext]_singletonVars

--------------------------------------------------------------------------------
(* Properties. *)

(* The instance and the Initializer's object live as long as a unit is       *)
(* loaded and go with the last one, and no call returns a reference to a     *)
(* deleted instance while another thread replaces it.  After a unit that was *)
(* unloaded before the first use the instance stays: that destructor does    *)
(* not lower the count (Singleton.h:82).                                     *)
LivesWithItsUnits ==
  /\ inst \in freed => replacing \in {"locked", "freed"}
  /\ loaded # {} => initAlive /\ useCount >= Cardinality(loaded)
  /\ given \notin freed
  /\ loaded = {} /\ ~early => inst = 0 /\ ~initAlive

(* What the proof carries along: the counts are those of the units, and the *)
(* instances have been made, each for one use.                              *)
CountsInv ==
  /\ loaded \subseteq Units /\ IsFiniteSet(loaded)
  /\ initCount = Cardinality(loaded) /\ (initAlive <=> loaded # {})
  /\ useCount \in Int /\ useCount >= Cardinality(loaded)
  /\ ~early => useCount = Cardinality(loaded)

InstancesInv ==
  /\ made \in Nat /\ inst \in 0 .. made /\ that \in 0 .. made /\ freed \subseteq 1 .. made
  /\ replacing \in {"idle", "differs", "locked", "freed", "done"}
  /\ replacing # "idle" => loaded # {}
  /\ replacing \in {"differs", "locked", "freed"} => that \notin freed \cup {inst}
  /\ inst \in freed => replacing = "freed"

SingletonIInv == CountsInv /\ InstancesInv /\ LivesWithItsUnits
================================================================================
