----------------------------- MODULE WaitCondition -----------------------------
(***************************************************************************)
(* Finagle::WaitCondition: a condition variable that IS a recursive Mutex.  *)
(* Both overloads of wait() take that mutex once more with a Lock before    *)
(* they call pthread_cond_wait (WaitCondition.h:60, .cpp:43), so a caller   *)
(* that already holds it sleeps with the mutex locked twice.                *)
(*                                                                          *)
(* What pthread_cond_wait does to a mutex locked twice is not defined by    *)
(* POSIX: NPTL's implicit unlock takes one level off, so the sleeper keeps  *)
(* the mutex; other libraries free it and restore the depth on wake-up.     *)
(* FullRelease selects the library.                                         *)
(***************************************************************************)
EXTENDS Mutex

CONSTANT FullRelease   \* TRUE: the wait frees the mutex whatever its depth

ASSUME FullReleaseAssumption == FullRelease \in BOOLEAN

(* The mutex while its caller t sleeps: wait()'s Lock, then the implicit    *)
(* unlock of pthread_cond_wait.                                             *)
Asleep(m, t) ==
  LET nested == Locked(m, t)
  IN  IF FullRelease THEN Free ELSE Unlocked(nested)

(* The mutex when wait() returns to t: pthread_cond_wait has taken it back, *)
(* at the depth of two it had, and the destructor of Lock has undone one.   *)
Awake(m, t) ==
  LET restored == IF FullRelease THEN [owner |-> t, depth |-> 2] ELSE Locked(m, t)
  IN  Unlocked(restored)

(* signalOne: one of the sleepers W, whichever the library picks, stops     *)
(* being one; with no sleeper the signal leaves no trace.                   *)
AfterSignalOne(W) == IF W = {} THEN {{}} ELSE {W \ {w} : w \in W}
================================================================================
