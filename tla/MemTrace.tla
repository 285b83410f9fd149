------------------------------- MODULE MemTrace --------------------------------
(***************************************************************************)
(* MemTrace: the debugging allocator behind new, delete, malloc, calloc,    *)
(* realloc and free.  Every block has an AllocUnit in the bucket of its     *)
(* address, a list linked both ways; the spare units are a list that grows  *)
(* by chunks.  Words of memory stand for bytes.  heap is the C library's    *)
(* allocator, which finds a free address or fails.                          *)
(*                                                                          *)
(* Pointers are cast to unsigned, so the build has four-byte pointers.  The *)
(* assertions are not compiled: the one at MemTrace.cpp:1228 names a        *)
(* variable that does not exist.  Nothing is locked: one thread calls.      *)
(***************************************************************************)
EXTENDS Integers, FiniteSets, FiniteSetsExt

CONSTANTS
  Addresses, Sizes, Buckets,
  ChunkUnits,        \* 256 in the code
  GuardWords,        \* the guard words around a block, on both sides together
  MaxUnits, MaxCalls \* bounds: units in all chunks, allocations

ASSUME MemTraceAssumption ==
  /\ Addresses \subseteq Nat \ {0} /\ Sizes \subseteq Nat
  /\ Buckets \in Nat \ {0} /\ ChunkUnits \in Nat \ {0} /\ GuardWords \in Nat
  /\ MaxUnits \in Nat /\ MaxCalls \in Nat

VARIABLES
  heap,         \* heap[a]: the size of the block at address a, or Unallocated
  broken,       \* the blocks whose guard words were overwritten
  unit,         \* unit[u]: an AllocUnit; pointers to units are 0 for none
  table,        \* HashTable: the first unit of each bucket
  reservoir,    \* the first spare unit
  chunks,       \* reservoirBufferSize
  number,       \* currentAllocationCount
  stats,        \* MemStats
  deinit        \* staticDeinitTime

memVars == <<heap, broken, unit, table, reservoir, chunks, number, stats, deinit>>

Unallocated == -1
Zeroed == [address |-> 0, size |-> 0, number |-> 0, prev |-> 0, next |-> 0]

MemInit ==
  /\ heap = [a \in Addresses |-> Unallocated]
  /\ broken = {}
  /\ unit = [u \in 1..MaxUnits |-> Zeroed]
  /\ table = [b \in 0..(Buckets - 1) |-> 0]
  /\ reservoir = 0 /\ chunks = 0 /\ number = 0
  /\ stats = [total |-> 0, actual |-> 0, units |-> 0,
              peak |-> 0, peakActual |-> 0, peakUnits |-> 0,
              accumulated |-> 0, accumulatedActual |-> 0, accumulatedUnits |-> 0]
  /\ deinit = FALSE

Hash(a) == a % Buckets

(* The units of a list; a list that came back to itself has one more place. *)
Listed(first) ==
  LET at[n \in 1..(MaxUnits + 1)] ==
        IF n = 1 THEN first ELSE IF at[n - 1] = 0 THEN 0 ELSE unit[at[n - 1]].next
  IN  at

UnitsOf(first) == {Listed(first)[n] : n \in 1..(MaxUnits + 1)} \ {0}

(* The first unit of address a in its bucket, or 0. *)
FindAllocUnit(a) ==
  LET at == Listed(table[Hash(a)])
      hits == {n \in DOMAIN at : at[n] # 0 /\ unit[at[n]].address = a}
  IN  IF hits = {} THEN 0 ELSE at[Min(hits)]

(* Unit u, described by r, becomes the first of its bucket. *)
LinkedUnit(us, t, u, r) ==
  LET old == t[Hash(r.address)]
  IN  [w \in 1..MaxUnits |->
         IF w = u THEN [r EXCEPT !.prev = 0, !.next = old]
         ELSE IF w = old THEN [us[w] EXCEPT !.prev = u] ELSE us[w]]

LinkedTable(t, u, a) == [t EXCEPT ![Hash(a)] = u]

(* Mutant: the successor keeps pointing back at the unit that has left. *)
UnlinkedUnitForward(u) ==
  LET r == unit[u]
  IN  IF table[Hash(r.address)] = u THEN unit
      ELSE [w \in 1..MaxUnits |->
              IF w = r.prev THEN [unit[w] EXCEPT !.next = r.next] ELSE unit[w]]

(* Unit u leaves its bucket.  A new first unit keeps its old prev. *)
UnlinkedUnit(u) ==
  LET r == unit[u]
  IN  IF table[Hash(r.address)] = u THEN unit
      ELSE [w \in 1..MaxUnits |->
              IF w = r.prev THEN [unit[w] EXCEPT !.next = r.next]
              ELSE IF w = r.next THEN [unit[w] EXCEPT !.prev = r.prev]
              ELSE unit[w]]

UnlinkedTable(u) ==
  LET b == Hash(unit[u].address)
  IN  IF table[b] = u THEN [table EXCEPT ![b] = unit[u].next] ELSE table

(* The totals after `words' and `guards' more in `count' more units. *)
Counted(words, guards, count) ==
  LET total == stats.total + words
      actual == stats.actual + words + guards
      units == stats.units + count
  IN  [stats EXCEPT !.total = total, !.actual = actual, !.units = units,
                    !.peak = Max({@, total}), !.peakActual = Max({@, actual}),
                    !.peakUnits = Max({@, units}),
                    !.accumulated = @ + Max({words, 0}),
                    !.accumulatedActual = @ + Max({words + guards, 0}),
                    !.accumulatedUnits = @ + Max({count, 0})]

--------------------------------------------------------------------------------
(* allocator(). *)

(* The reservoir, with a new chunk linked through `next' when it is empty. *)
Filled ==
  LET last == (chunks + 1) * ChunkUnits
  IN  IF reservoir # 0 THEN unit
      ELSE [u \in 1..MaxUnits |->
              IF u \in (last - ChunkUnits + 1)..last
              THEN [Zeroed EXCEPT !.next = IF u = last THEN 0 ELSE u + 1]
              ELSE unit[u]]

FirstSpare == IF reservoir # 0 THEN reservoir ELSE chunks * ChunkUnits + 1

Fill ==
  /\ reservoir # 0 \/ (chunks + 1) * ChunkUnits <= MaxUnits
  /\ chunks' = IF reservoir # 0 THEN chunks ELSE chunks + 1
  /\ reservoir' = Filled[FirstSpare].next

Called == number < MaxCalls /\ number' = number + 1

(* A block at address a: a unit is taken, described, linked and counted. *)
Allocated(size, a) ==
  /\ Fill /\ heap[a] = Unallocated
  /\ heap' = [heap EXCEPT ![a] = size]
  /\ unit' = LinkedUnit(Filled, table, FirstSpare,
               [Zeroed EXCEPT !.address = a, !.size = size, !.number = number'])
  /\ table' = LinkedTable(table, FirstSpare, a)
  /\ stats' = Counted(size, GuardWords, 1)

(* malloc fails: for the chunk, or for the block; then the unit is lost. *)
OutOfMemory ==
  /\ \/ reservoir = 0 /\ UNCHANGED <<unit, reservoir, chunks>>
     \/ Fill /\ unit' = [Filled EXCEPT ![FirstSpare] = Zeroed]
  /\ UNCHANGED <<heap, table, stats>>

(* malloc(), calloc() and realloc( 0 ) return 0 when memory is short. *)
Malloc(size) ==
  /\ Called
  /\ OutOfMemory \/ \E a \in Addresses : Allocated(size, a)
  /\ UNCHANGED <<broken, deinit>>

(* operator new and new[] ask for one byte at least.  When memory is short   *)
(* they throw, or call the new handler and ask again: one more New.          *)
New(size) == Malloc(IF size = 0 THEN 1 ELSE size)

--------------------------------------------------------------------------------
(* Mutant: a block that moves stays in the bucket of its old address. *)
MovedInPlace(u, r) == unit' = [unit EXCEPT ![u] = r] /\ UNCHANGED table

(* A unit whose block has moved goes to the bucket of its new address. *)
Moved(u, r) ==
  IF r.address = unit[u].address
    THEN unit' = [unit EXCEPT ![u] = r] /\ UNCHANGED table
    ELSE /\ unit' = LinkedUnit(UnlinkedUnit(u), UnlinkedTable(u), u, r)
         /\ table' = LinkedTable(UnlinkedTable(u), u, r.address)

(* reallocator() for a block: the C library may keep it, move it or fail.    *)
(* The guard words are written again.  Unknown addresses have no effect.     *)
Realloc(a, size) ==
  LET u == FindAllocUnit(a)
  IN  /\ Called
      /\ \/ UNCHANGED <<heap, broken, unit, table, stats>>
         \/ \E b \in Addresses :
              /\ u # 0 /\ (b = a \/ heap[b] = Unallocated)
              /\ heap' = [heap EXCEPT ![a] = Unallocated, ![b] = size]
              /\ broken' = broken \ {a}
              /\ Moved(u, [unit[u] EXCEPT !.address = b, !.size = size, !.number = number'])
              /\ stats' = Counted(size - unit[u].size, 0, 0)
      /\ UNCHANGED <<reservoir, chunks, deinit>>

(* Mutant: a block leaves the totals without its guard words. *)
DeletedUnguarded(u) == Counted(- unit[u].size, 0, -1)

Deleted(u) == Counted(- unit[u].size, - GuardWords, -1)

(* dumpLeakReport(): once nothing is allocated the chunks are freed, unless   *)
(* the report's file cannot be opened.                                        *)
LeakReport(us, first, s) ==
  \/ s.units = 0 /\ unit' = [u \in 1..MaxUnits |-> Zeroed] /\ reservoir' = 0 /\ chunks' = 0
  \/ unit' = us /\ reservoir' = first /\ UNCHANGED chunks

(* deallocator(): the unit becomes the first spare one.  While static        *)
(* objects are destroyed every call reports the leaks.                       *)
Delete(a) ==
  LET u == FindAllocUnit(a)
      us == [UnlinkedUnit(u) EXCEPT ![u] = [Zeroed EXCEPT !.next = reservoir]]
  IN  /\ u # 0
      /\ heap' = [heap EXCEPT ![a] = Unallocated]
      /\ broken' = broken \ {a}
      /\ table' = UnlinkedTable(u)
      /\ stats' = Deleted(u)
      /\ IF deinit THEN LeakReport(us, u, stats')
                   ELSE unit' = us /\ reservoir' = u /\ UNCHANGED chunks
      /\ UNCHANGED <<number, deinit>>

(* ~MemStaticTimeTracker() *)
StaticDeinit ==
  /\ ~deinit /\ deinit' = TRUE
  /\ LeakReport(unit, reservoir, stats)
  /\ UNCHANGED <<heap, broken, table, number, stats>>

(* The application writes before or behind a block of its own. *)
Overrun(a) ==
  /\ heap[a] # Unallocated
  /\ broken' = broken \cup {a}
  /\ UNCHANGED <<heap, unit, table, reservoir, chunks, number, stats, deinit>>

MemNext ==
  \/ \E size \in Sizes : Malloc(size) \/ New(size)
  \/ \E a \in Addresses, size \in Sizes : Realloc(a, size)
  \/ \E a \in Addresses : Delete(a) \/ Overrun(a)
  \/ StaticDeinit

--------------------------------------------------------------------------------
(* validateAllAllocUnits(): the damaged units, and one if their number is    *)
(* not the one in the statistics.                                            *)
AllUnits == UNION {UnitsOf(table[b]) : b \in DOMAIN table}

Errors ==
  Cardinality({u \in AllUnits : unit[u].address \in broken})
    + (IF Cardinality(AllUnits) = stats.units THEN 0 ELSE 1)

(* Every block has one unit, found in the bucket of its address and saying   *)
(* its size; the buckets are linked back except for their first units, none  *)
(* of them runs in a circle, and no unit in them is spare.                   *)
TableTracksHeap ==
  /\ \A a \in Addresses : heap[a] # Unallocated =>
        FindAllocUnit(a) # 0 /\ unit[FindAllocUnit(a)].size = heap[a]
  /\ Cardinality(AllUnits) = Cardinality({a \in Addresses : heap[a] # Unallocated})
  /\ \A b \in DOMAIN table : Listed(table[b])[MaxUnits + 1] = 0
  /\ \A u \in AllUnits : unit[u].next # 0 => unit[unit[u].next].prev = u
  /\ UnitsOf(reservoir) \cap AllUnits = {}

(* The statistics say what is allocated, no total is above its peak or its   *)
(* accumulated value, and validation counts the damaged blocks and nothing   *)
(* else.                                                                     *)
StatsAgree ==
  LET blocks == {a \in Addresses : heap[a] # Unallocated}
  IN  /\ stats.total = MapThenSumSet(LAMBDA a : heap[a], blocks)
      /\ stats.actual = stats.total + GuardWords * Cardinality(blocks)
      /\ stats.total <= stats.peak /\ stats.peak <= stats.accumulated
      /\ stats.actual <= stats.peakActual /\ stats.peakActual <= stats.accumulatedActual
      /\ stats.units <= stats.peakUnits /\ stats.peakUnits <= stats.accumulatedUnits
      /\ Errors = Cardinality(broken)

(* Both hold after whatever calls: the blocks are accounted for.             *)
BlocksAreAccounted == TableTracksHeap /\ StatsAgree
================================================================================
