-------------------------------- MODULE Thread ---------------------------------
(***************************************************************************)
(* Finagle::Thread and ClassFuncThread: one Thread object t, the owner that *)
(* starts, joins, stops and destroys it, and the pthreads start() creates,  *)
(* each of which executes Thread::run( t ).  The fields of t are read and   *)
(* written without a lock, so every access of run() is a step of its own.   *)
(*                                                                          *)
(* threadProgram says what exec() and the owner do:                         *)
(*   "poller"   exec() returns when it finds running() false, and the owner *)
(*              may do anything (test/ThreadTest.cpp, eternalWait);         *)
(*   "worker"   exec() returns when its work is done, and the owner joins   *)
(*              before it starts again or destroys (countUp);              *)
(*   "quitter"  exec() calls stop() itself; the owner starts it once, joins *)
(*              and does not destroy it.                                    *)
(* An owner of a worker that does not join is not safe: README, section 6.  *)
(***************************************************************************)
EXTENDS Integers

CONSTANT MaxStarts                     \* bound: pthreads created in a run

ASSUME ThreadAssumption == MaxStarts \in Nat \ {0}

VARIABLES
  threadProgram,
  t_id,       \* _id, the pthread to join, or 0
  t_running,  \* _running
  t_exitVal,  \* _exitVal
  object,     \* "whole", "base" when the derived destructor has run, "freed"
  owner,      \* the owner's pc
  joining,    \* `id' of the owner's join()
  body        \* body[p]: where in run() pthread p is

threadVars ==
  <<threadProgram, t_id, t_running, t_exitVal, object, owner, joining, body>>

Pthreads == 1..MaxStarts

ThreadInit ==
  /\ threadProgram \in {"poller", "worker", "quitter"}
  /\ t_id = 0 /\ t_running = FALSE /\ t_exitVal = 0
  /\ object = "whole"
  /\ owner = "idle" /\ joining = 0
  /\ body = [p \in Pthreads |-> "none"]

InRun(p) == body[p] \in {"entered", "exec", "leaving", "ending", "returning"}

--------------------------------------------------------------------------------
(* The owner. *)

(* start() returns at once when running; it sets _running before             *)
(* pthread_create, which sets _id.                                           *)
Start ==
  /\ owner = "idle" /\ ~t_running
  /\ \/ threadProgram = "poller"
     \/ threadProgram = "worker" /\ t_id = 0
     \/ body[1] = "none"
  /\ t_running' = TRUE
  /\ owner' = "creating"
  /\ UNCHANGED <<threadProgram, t_id, t_exitVal, object, joining, body>>

Create(p) ==
  /\ owner = "creating"
  /\ body[p] = "none" /\ \A q \in 1..(p - 1) : body[q] # "none"
  /\ t_id' = p
  /\ body' = [body EXCEPT ![p] = "entered"]
  /\ owner' = "idle"
  /\ UNCHANGED <<threadProgram, t_running, t_exitVal, object, joining>>

(* join(), which returns -1 at once when there is no pthread.  To join a     *)
(* poller that nobody stops is to wait for ever, so its owner does not.      *)
Join ==
  /\ owner = "idle" /\ t_id # 0 /\ threadProgram # "poller"
  /\ joining' = t_id
  /\ owner' = "joining"
  /\ UNCHANGED <<threadProgram, t_id, t_running, t_exitVal, object, body>>

(* Mutant: stop() joins without lowering the flag that exec() polls. *)
StopByUnflagged(waiting, done) ==
  IF t_running THEN owner' = waiting /\ joining' = t_id /\ UNCHANGED t_running
               ELSE owner' = done /\ UNCHANGED <<t_running, joining>>

(* stop() returns at once unless running, or lowers the flag and joins. *)
StopBy(waiting, done) ==
  IF t_running THEN owner' = waiting /\ joining' = t_id /\ t_running' = FALSE
               ELSE owner' = done /\ UNCHANGED <<t_running, joining>>

Stop ==
  /\ owner = "idle" /\ threadProgram = "poller"
  /\ StopBy("stopping", "idle")
  /\ UNCHANGED <<threadProgram, t_id, t_exitVal, object, body>>

(* Mutant: a derived class without a destructor that stops the thread. *)
DestroyUnstopped ==
  /\ owner = "idle" /\ threadProgram = "poller"
  /\ owner' = "destroying"
  /\ UNCHANGED <<threadProgram, t_id, t_running, t_exitVal, object, joining, body>>

(* ~ClassFuncThread() stops the thread while the object is whole. *)
Destroy ==
  /\ owner = "idle"
  /\ \/ threadProgram = "poller"
     \/ threadProgram = "worker" /\ t_id = 0
  /\ StopBy("closing", "destroying")
  /\ UNCHANGED <<threadProgram, t_id, t_exitVal, object, body>>

(* ~Thread() stops it again, when only the base object is left. *)
DestroyBase ==
  /\ owner = "destroying" /\ object = "whole"
  /\ object' = "base"
  /\ StopBy("closing", "destroying")
  /\ UNCHANGED <<threadProgram, t_id, t_exitVal, body>>

Free ==
  /\ owner = "destroying" /\ object = "base"
  /\ object' = "freed" /\ owner' = "gone"
  /\ UNCHANGED <<threadProgram, t_id, t_running, t_exitVal, joining, body>>

(* Mutant: join() keeps _id. *)
JoinedKeepsId ==
  /\ owner \in {"joining", "stopping", "closing"}
  /\ joining # 0 => body[joining] = "over"
  /\ body' = IF joining = 0 THEN body ELSE [body EXCEPT ![joining] = "reaped"]
  /\ owner' = IF owner = "closing" THEN "destroying" ELSE "idle"
  /\ UNCHANGED <<threadProgram, t_id, t_running, t_exitVal, object, joining>>

(* The end of join(): at once for _id 0, or when pthread_join has returned.  *)
Joined ==
  /\ owner \in {"joining", "stopping", "closing"}
  /\ joining # 0 => body[joining] = "over"
  /\ body' = IF joining = 0 THEN body ELSE [body EXCEPT ![joining] = "reaped"]
  /\ t_id' = 0
  /\ owner' = IF owner = "closing" THEN "destroying" ELSE "idle"
  /\ UNCHANGED <<threadProgram, t_running, t_exitVal, object, joining>>

--------------------------------------------------------------------------------
(* run( t ), executed by pthread p. *)

Exec(p) ==
  /\ body[p] = "entered"
  /\ body' = [body EXCEPT ![p] = "exec"]
  /\ UNCHANGED <<threadProgram, t_id, t_running, t_exitVal, object, owner, joining>>

(* exec() ends: a poller's when it reads running() and finds it false. *)
Work(p) ==
  /\ body[p] = "exec"
  /\ \/ threadProgram = "worker"
     \/ threadProgram = "poller" /\ ~t_running
  /\ body' = [body EXCEPT ![p] = "leaving"]
  /\ UNCHANGED <<threadProgram, t_id, t_running, t_exitVal, object, owner, joining>>

(* stop() by the thread itself: its pthread_join says EDEADLK, and join()    *)
(* clears _id all the same.                                                  *)
StopSelf(p) ==
  /\ body[p] = "exec" /\ threadProgram = "quitter" /\ owner # "creating"
  /\ t_running' = FALSE
  /\ t_id' = IF t_running THEN 0 ELSE t_id
  /\ body' = [body EXCEPT ![p] = "leaving"]
  /\ UNCHANGED <<threadProgram, t_exitVal, object, owner, joining>>

(* exec() has returned a value, or has thrown what run() catches. *)
Leave(p) ==
  /\ body[p] = "leaving"
  /\ t_exitVal' \in {p, t_exitVal}
  /\ body' = [body EXCEPT ![p] = "ending"]
  /\ UNCHANGED <<threadProgram, t_id, t_running, object, owner, joining>>

EndRunning(p) ==
  /\ body[p] = "ending"
  /\ t_running' = FALSE
  /\ body' = [body EXCEPT ![p] = "returning"]
  /\ UNCHANGED <<threadProgram, t_id, t_exitVal, object, owner, joining>>

(* The return value is read from t once more. *)
Return(p) ==
  /\ body[p] = "returning"
  /\ body' = [body EXCEPT ![p] = "over"]
  /\ UNCHANGED <<threadProgram, t_id, t_running, t_exitVal, object, owner, joining>>

Run(p) ==
  \/ Exec(p) \/ Work(p) \/ StopSelf(p)
  \/ Leave(p) \/ EndRunning(p) \/ Return(p)

ThreadNext ==
  \/ Start \/ Join \/ Stop \/ Destroy \/ DestroyBase \/ Free \/ Joined
  \/ \E p \in Pthreads : Create(p) \/ Run(p)

(* Every pthread runs on, and the owner's calls go on; the owner need not    *)
(* make another one.                                                         *)
ThreadFairness ==
  /\ \A p \in Pthreads : WF_threadVars(Run(p)) /\ WF_threadVars(Create(p))
  /\ WF_threadVars(Joined) /\ WF_threadVars(DestroyBase) /\ WF_threadVars(Free)

ThreadSpec == ThreadInit /\ [][ThreadNext]_threadVars /\ ThreadFairness

--------------------------------------------------------------------------------
(* Properties. *)

(* run() uses its Thread only while it exists, enters exec() only while the  *)
(* derived object does, and a destroyed Thread leaves no pthread unreaped.   *)
FreedAfterRun ==
  /\ \A p \in Pthreads :
       /\ InRun(p) => object # "freed"
       /\ body[p] \in {"entered", "exec"} => object = "whole"
  /\ object = "freed" => \A p \in Pthreads : body[p] \in {"none", "reaped"}

(* What the proof carries along: a thread that does not stop itself has one *)
(* pthread at most, whose _id it keeps until the pthread is joined; _running *)
(* tells a poller's owner whether there is one, and a worker's whether exec() *)
(* has ended.                                                               *)
ThreadTypeOK ==
  /\ threadProgram \in {"poller", "worker", "quitter"}
  /\ t_id \in 0 .. MaxStarts /\ joining \in 0 .. MaxStarts /\ t_running \in BOOLEAN
  /\ object \in {"whole", "base", "freed"}
  /\ owner \in {"idle", "creating", "joining", "stopping", "closing", "destroying", "gone"}
  /\ body \in [Pthreads -> {"none", "entered", "exec", "leaving", "ending", "returning",
                            "over", "reaped"}]

Live(p) == body[p] \notin {"none", "reaped"}

OnePthread ==
  /\ \A p \in Pthreads : Live(p) => p = t_id
  /\ \A p \in Pthreads : body[p] # "none" => body[1] # "none"
  /\ t_id # 0 => Live(t_id)
  /\ owner \in {"creating", "destroying", "gone"} => t_id = 0
  /\ owner \in {"joining", "stopping", "closing"} => joining = t_id /\ t_id # 0

OwnerInv ==
  /\ object # "whole" => owner \in {"destroying", "gone"}
  /\ object = "freed" => owner = "gone"
  /\ owner = "creating" => t_running
  /\ owner \in {"destroying", "gone"} => ~t_running

PollerInv ==
  /\ owner # "joining"
  /\ owner = "idle" => (t_running <=> t_id # 0)
  /\ owner = "idle" /\ t_running => body[t_id] \in {"entered", "exec"}
  /\ owner \in {"stopping", "closing"} => ~t_running

WorkerInv ==
  /\ owner \notin {"stopping", "closing"}
  /\ owner # "creating" =>
       (t_running <=> t_id # 0 /\ body[t_id] \in {"entered", "exec", "leaving", "ending"})

ThreadIInv ==
  /\ ThreadTypeOK
  /\ threadProgram = "quitter" => object = "whole" /\ owner \in {"idle", "creating", "joining"}
  /\ threadProgram # "quitter" => OnePthread /\ OwnerInv
  /\ threadProgram = "poller" => PollerInv
  /\ threadProgram = "worker" => WorkerInv

(* stop(), join() and the destructor return. *)
StopReturns ==
  owner \in {"stopping", "joining", "closing", "destroying"} ~> owner \in {"idle", "gone"}
================================================================================
