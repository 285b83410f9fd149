------------------------------ MODULE MCLifetimes ------------------------------
(***************************************************************************)
(* Small instances of the components that own what they free, checked side by*)
(* side: they do not call each other, the first state chooses one.          *)
(***************************************************************************)
EXTENDS Thread, ObjectPtr, Singleton

CONSTANTS n1, n2

VARIABLE part     \* the component that runs

allVars == <<part, threadVars, ptrVars, singletonVars>>

(* Two units register their factories under one name. *)
mcNameOf == [u \in Units |-> n1]

mcInit ==
  /\ part \in {"thread", "pointer", "singleton"}
  /\ ThreadInit /\ PtrInit /\ SingletonInit
  /\ (part # "thread" => threadProgram = "worker")

ThreadRuns ==
  /\ part = "thread" /\ ThreadNext
  /\ UNCHANGED <<part, ptrVars, singletonVars>>

PointerRuns ==
  /\ part = "pointer" /\ PtrNext
  /\ UNCHANGED <<part, threadVars, singletonVars>>

SingletonRuns ==
  /\ part = "singleton" /\ SingletonNext
  /\ UNCHANGED <<part, threadVars, ptrVars>>

mcNext ==
  \/ ThreadRuns
  \/ PointerRuns
  \/ SingletonRuns

mcSpec == mcInit /\ [][mcNext]_allVars /\ ThreadFairness /\ PtrFairness
================================================================================
