------------------------------- MODULE MCAppLoop -------------------------------
(***************************************************************************)
(* Small instances of AppLoop: a recurring timer that is never stopped and  *)
(* a single shot that handlers start and stop, a socket and a pipe.         *)
(***************************************************************************)
EXTENDS AppLoop

CONSTANTS recurring, shot, socket, pipe

mcWatches == [w \in WatcherIds |-> IF w = socket THEN {"readable"} ELSE {"exception"}]

mcPeriods == [t \in TimerIds |-> IF t = shot THEN {1} ELSE {2}]

mcProgram ==
  [h \in Handlers \cup {"main"} |->
     Calls \cap
       CASE h = "main"    -> {<<"start", t>> : t \in TimerIds}
         [] h = recurring -> {<<"start", shot>>, <<"stop", shot>>, <<"disable", socket>>}
         [] h = shot      -> {<<"start", shot>>, <<"close", pipe>>, <<"open", pipe>>}
         [] h = socket    -> {<<"stop", shot>>, <<"close", socket>>, <<"drop", socket>>}
         [] h = pipe      -> {<<"enable", socket>>, <<"open", socket>>, <<"drop", socket>>,
                              <<"exit", None>>}
         [] OTHER         -> {<<"drop", pipe>>}]

(* With the recurring timer the program keeps to the hypothesis of the      *)
(* theorems of AppLoopProofs about timers.                                  *)
ASSUME SteadyProgram == Repeating # {} => SteadyTimers
================================================================================
