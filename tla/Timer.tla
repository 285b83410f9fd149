--------------------------------- MODULE Timer ---------------------------------
(***************************************************************************)
(* Finagle::Timer and the list AppLoop::Timers it keeps sorted by           *)
(* _nextAlarm.  Times are written relative to the clock: alarm[t] is        *)
(* _nextAlarm - Time::now(), so the clock advances by Passes, which lowers  *)
(* every alarm, and an alarm of 0 or less is due.  _nextAlarm = 0, "not     *)
(* running", is Off; the times just above the epoch are all LongPast, which *)
(* adding a period to does not bring near the present.                      *)
(***************************************************************************)
EXTENDS Lists

CONSTANTS TimerIds,     \* the Timer objects
          Repeating,    \* those made by Timer::Recurring
          Periods       \* Periods[t]: the periods t is started with

ASSUME TimerAssumption ==
  /\ Repeating \subseteq TimerIds
  /\ Periods \in [TimerIds -> SUBSET (Nat \ {0})]

VARIABLES
  timers,     \* AppLoop::Timers, front first
  alarm,      \* _nextAlarm, relative to the clock
  period,     \* _period
  armed       \* started, and neither stopped nor expired since (history)

timerVars == <<timers, alarm, period, armed>>

LongPast == -100
Off == LongPast - 1

Running(t) == alarm[t] # Off

TimerInit ==
  /\ timers = <<>>
  /\ alarm = [t \in TimerIds |-> Off]
  /\ period \in {f \in [TimerIds -> UNION {Periods[t] : t \in TimerIds}] :
                 \A t \in TimerIds : f[t] \in Periods[t]}
  /\ armed = {}

TimerTypeOK ==
  /\ timers \in Seq(TimerIds)
  /\ alarm \in [TimerIds -> Int] /\ period \in [TimerIds -> Nat]
  /\ armed \subseteq TimerIds

(* Mutant: push_back alone. *)
InsertedLast(list, al, t) == Append(list, t)

(* List::insert( el ): before the first element greater than el. *)
Inserted(list, al, t) == InsertedBefore(list, {i \in DOMAIN list : al[t] < al[list[i]]}, t)

(* start( p ); start() and the constructor are the case p = period[t], and  *)
(* restart(), which stops the timer first, has the same effect.             *)
Start(t, p) ==
  /\ period' = [period EXCEPT ![t] = p]
  /\ alarm' = [alarm EXCEPT ![t] = p]
  /\ timers' = Inserted(IF Running(t) THEN Without(timers, t) ELSE timers, alarm', t)
  /\ armed' = armed \cup {t}

(* Mutant: a stop that leaves the timer in the list. *)
StopUnlisted(t) ==
  /\ alarm' = [alarm EXCEPT ![t] = Off]
  /\ armed' = armed \ {t}
  /\ UNCHANGED <<timers, period>>

Stop(t) ==
  /\ timers' = IF Running(t) THEN Without(timers, t) ELSE timers
  /\ alarm' = [alarm EXCEPT ![t] = Off]
  /\ armed' = armed \ {t}
  /\ UNCHANGED period

(* trigger() up to the emission of the signal. *)
TriggerBegins(t) ==
  /\ alarm' = IF t \in Repeating THEN alarm ELSE [alarm EXCEPT ![t] = Off]
  /\ timers' = Without(timers, t)
  /\ armed' = IF t \in Repeating THEN armed ELSE armed \ {t}
  /\ UNCHANGED period

(* Mutant: a recurring timer is not listed again. *)
TriggerEndsUnlisted(t) ==
  /\ alarm' = [alarm EXCEPT ![t] = IF t \in Repeating THEN alarm[t] + period[t] ELSE @]
  /\ UNCHANGED <<timers, period, armed>>

(* The rest of trigger(), after the handlers. *)
TriggerEnds(t) ==
  /\ \/ /\ t \in Repeating
        /\ alarm' = [alarm EXCEPT ![t] = IF @ <= LongPast THEN LongPast ELSE @ + period[t]]
        /\ timers' = Inserted(timers, alarm', t)
     \/ t \notin Repeating /\ UNCHANGED <<alarm, timers>>
  /\ UNCHANGED <<period, armed>>

Passes ==
  /\ alarm' = [t \in TimerIds |-> IF alarm[t] <= LongPast THEN alarm[t] ELSE alarm[t] - 1]
  /\ UNCHANGED <<timers, period, armed>>
================================================================================
