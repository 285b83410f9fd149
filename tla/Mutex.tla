-------------------------------- MODULE Mutex --------------------------------
(***************************************************************************)
(* Finagle::Mutex, a pthread mutex created with the attribute              *)
(* PTHREAD_MUTEX_RECURSIVE (Mutex.cpp:31), as a value: who owns it and how  *)
(* many times.  A class that has a Mutex keeps one of these values in a     *)
(* variable.  lock() is the action that is enabled when CanLock holds and   *)
(* moves the value to Locked; unlock() moves it to Unlocked.                *)
(***************************************************************************)
EXTENDS Naturals

CONSTANTS Threads,   \* the threads of the program
          NoThread   \* the owner of a mutex nobody holds

ASSUME ThreadsAssumption == NoThread \notin Threads

MutexStates == [owner : Threads \cup {NoThread}, depth : Nat]

(* A new mutex; also what copying a Mutex yields (Mutex.h:64). *)
Free == [owner |-> NoThread, depth |-> 0]

(* pthread_mutex_lock returns at once for the owner and for a free mutex. *)
CanLock(m, t) == m.owner \in {NoThread, t}

Locked(m, t) == [owner |-> t, depth |-> m.depth + 1]

(* Only the last of the nested unlocks frees a recursive mutex. *)
Unlocked(m) == IF m.depth > 1 THEN [m EXCEPT !.depth = @ - 1] ELSE Free
==============================================================================
