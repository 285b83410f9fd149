------------------------------ MODULE AppLoopProofs ------------------------------
(***************************************************************************)
(* Theorems about AppLoop and its Timers, for any timers, watchers and      *)
(* periods, any lag of the loop behind the clock and any failures.          *)
(***************************************************************************)
EXTENDS AppLoop, ListLemmas

--------------------------------------------------------------------------------
(* The list of timers. *)

InOrder(list, al) ==
  \A i, j \in DOMAIN list : i < j => list[i] # list[j] /\ al[list[i]] <= al[list[j]]

(* A timer is listed behind those whose alarm is not later than its own.    *)
LEMMA InsertedInOrder ==
  ASSUME NEW list \in Seq(TimerIds), NEW al \in [TimerIds -> Int], NEW t \in TimerIds
  PROVE  /\ Inserted(list, al, t) \in Seq(TimerIds)
         /\ Entries(Inserted(list, al, t)) = Entries(list) \cup {t}
         /\ InOrder(list, al) /\ t \notin Entries(list) => InOrder(Inserted(list, al, t), al)
  <1> DEFINE P == {i \in DOMAIN list : al[t] < al[list[i]]}
             r == Inserted(list, al, t)
  <1>1. PICK k \in 1 .. Len(list) + 1 :
          r = InsertedAt(list, k, t) /\ (\A i \in P : k <= i) /\ (k <= Len(list) => k \in P)
    <2>1. r = InsertedBefore(list, P, t) /\ P \in SUBSET DOMAIN list
      BY DEF Inserted
    <2> HIDE DEF P, r
    <2> QED
      BY <2>1, InsertedBeforeProperties
  <1>2. /\ Len(list) \in Nat /\ DOMAIN list = 1 .. Len(list)
        /\ \A i \in DOMAIN list : list[i] \in TimerIds
    BY LenProperties, ElementOfSeq
  <1>3. /\ \A i \in DOMAIN list : al[t] < al[list[i]] => k <= i
        /\ k <= Len(list) => al[t] < al[list[k]] /\ k \in DOMAIN list
    BY <1>1
  <1> HIDE DEF P, r
  <1>4. r \in Seq(TimerIds) /\ Entries(r) = Entries(list) \cup {t}
    <2>1. InsertedAt(list, k, t) \in Seq(TimerIds)
      BY WithOneMore
    <2>2. Entries(InsertedAt(list, k, t)) = Entries(list) \cup {t}
      BY InsertedKeeps
    <2> QED
      BY <1>1, <2>1, <2>2
  <1>5. ASSUME InOrder(list, al), t \notin Entries(list),
               NEW i \in DOMAIN r, NEW j \in DOMAIN r, i < j
        PROVE  r[i] # r[j] /\ al[r[i]] <= al[r[j]]
    <2>1. \/ \E u, v \in DOMAIN list : u < v /\ r[i] = list[u] /\ r[j] = list[v]
          \/ \E u \in DOMAIN list : u < k /\ r[i] = list[u] /\ r[j] = t
          \/ \E v \in DOMAIN list : k <= v /\ r[i] = t /\ r[j] = list[v]
      BY <1>1, <1>5, InsertedKeeps
    <2>2. CASE \E u, v \in DOMAIN list : u < v /\ r[i] = list[u] /\ r[j] = list[v]
      BY <1>5, <2>2 DEF InOrder
    <2>3. CASE \E u \in DOMAIN list : u < k /\ r[i] = list[u] /\ r[j] = t
      <3>1. PICK u \in DOMAIN list : u < k /\ r[i] = list[u] /\ r[j] = t
        BY <2>3
      <3>2. list[u] \in Entries(list) /\ al[list[u]] \in Int /\ al[t] \in Int /\ ~(k <= u)
        BY <1>2, <3>1 DEF Entries
      <3> QED
        BY <1>3, <1>5, <3>1, <3>2
    <2>4. CASE \E v \in DOMAIN list : k <= v /\ r[i] = t /\ r[j] = list[v]
      <3>1. PICK v \in DOMAIN list : k <= v /\ r[i] = t /\ r[j] = list[v]
        BY <2>4
      <3>2. k <= Len(list)
        BY <1>2, <3>1
      <3>3. /\ list[v] \in Entries(list) /\ al[list[v]] \in Int /\ al[t] \in Int
            /\ al[list[k]] \in Int
        BY <1>2, <1>3, <3>1, <3>2 DEF Entries
      <3>4. k < v => al[list[k]] <= al[list[v]]
        BY <1>3, <1>5, <3>1, <3>2 DEF InOrder
      <3> QED
        BY <1>2, <1>3, <1>5, <3>1, <3>2, <3>3, <3>4
    <2> QED
      BY <2>1, <2>2, <2>3, <2>4
  <1> QED
    BY <1>4, <1>5 DEF InOrder, r

(* Taking a timer off the list, if it is there. *)
LEMMA WithoutInOrder ==
  ASSUME NEW list \in Seq(TimerIds), NEW al, NEW t
  PROVE  /\ Without(list, t) \in Seq(TimerIds)
         /\ Entries(Without(list, t)) = Entries(list) \ {t}
         /\ InOrder(list, al) => InOrder(Without(list, t), al)
  BY WithoutKeeps DEF InOrder

(* The order depends on the alarms of the timers in the list only. *)
LEMMA SameAlarms ==
  ASSUME NEW list \in Seq(TimerIds), NEW al, NEW am, InOrder(list, al),
         \A t \in Entries(list) : am[t] = al[t]
  PROVE  InOrder(list, am)
  BY DEF InOrder, Entries

(* The four functions of Timer, on a list that is in order. *)
LEMMA StartListed ==
  ASSUME TimerTypeOK, NEW t \in TimerIds, NEW p \in Nat \ {0}, Start(t, p)
  PROVE  /\ TimerTypeOK'
         /\ Running(t)' /\ \A u \in TimerIds : u # t => alarm'[u] = alarm[u]
         /\ armed' = armed \cup {t}
         /\ Entries(timers') = Entries(timers) \cup {t}
         /\ InOrder(timers, alarm) /\ (t \in Entries(timers) => Running(t))
              => InOrder(timers', alarm')
  <1> DEFINE list == IF Running(t) THEN Without(timers, t) ELSE timers
  <1>1. /\ alarm' = [alarm EXCEPT ![t] = p] /\ period' = [period EXCEPT ![t] = p]
        /\ timers' = Inserted(list, alarm', t) /\ armed' = armed \cup {t}
    BY DEF Start
  <1>2. /\ alarm' \in [TimerIds -> Int] /\ period' \in [TimerIds -> Nat]
        /\ alarm'[t] = p /\ \A u \in TimerIds : u # t => alarm'[u] = alarm[u]
        /\ armed' \subseteq TimerIds
    BY <1>1 DEF TimerTypeOK
  <1>3. /\ list \in Seq(TimerIds)
        /\ Entries(list) \subseteq Entries(timers)
        /\ Entries(timers) \subseteq Entries(list) \cup {t}
        /\ InOrder(timers, alarm) => InOrder(list, alarm)
        /\ (t \in Entries(timers) => Running(t)) => t \notin Entries(list)
    BY WithoutInOrder DEF TimerTypeOK
  <1> HIDE DEF list
  <1>4. /\ timers' \in Seq(TimerIds)
        /\ Entries(timers') = Entries(list) \cup {t}
        /\ InOrder(list, alarm') /\ t \notin Entries(list) => InOrder(timers', alarm')
    BY <1>1, <1>2, <1>3, InsertedInOrder
  <1>5. InOrder(list, alarm) /\ t \notin Entries(list) => InOrder(list, alarm')
    <2>1. Entries(list) \subseteq TimerIds
      BY <1>3, ElementOfSeq, LenProperties DEF Entries
    <2> QED
      BY <1>2, <1>3, <2>1, SameAlarms
  <1>6. Running(t)'
    BY <1>2 DEF Running, Off, LongPast
  <1> QED
    BY <1>1, <1>2, <1>3, <1>4, <1>5, <1>6 DEF TimerTypeOK

LEMMA StopListed ==
  ASSUME TimerTypeOK, NEW t \in TimerIds, Stop(t)
  PROVE  /\ TimerTypeOK'
         /\ \A u \in TimerIds : u # t => alarm'[u] = alarm[u]
         /\ armed' = armed \ {t}
         /\ Entries(timers') \subseteq Entries(timers)
         /\ Entries(timers) \subseteq Entries(timers') \cup {t}
         /\ InOrder(timers, alarm) /\ (t \in Entries(timers) => Running(t))
              => InOrder(timers', alarm') /\ t \notin Entries(timers')
  <1>1. /\ alarm' = [alarm EXCEPT ![t] = Off] /\ UNCHANGED period
        /\ timers' = (IF Running(t) THEN Without(timers, t) ELSE timers)
        /\ armed' = armed \ {t}
    BY DEF Stop
  <1>2. /\ alarm' \in [TimerIds -> Int] /\ \A u \in TimerIds : u # t => alarm'[u] = alarm[u]
        /\ armed' \subseteq TimerIds
    BY <1>1 DEF TimerTypeOK, Off, LongPast
  <1>3. /\ timers' \in Seq(TimerIds)
        /\ Entries(timers') \subseteq Entries(timers)
        /\ Entries(timers) \subseteq Entries(timers') \cup {t}
        /\ InOrder(timers, alarm) => InOrder(timers', alarm)
        /\ (t \in Entries(timers) => Running(t)) => t \notin Entries(timers')
    BY <1>1, WithoutInOrder DEF TimerTypeOK
  <1>4. InOrder(timers', alarm) /\ t \notin Entries(timers') => InOrder(timers', alarm')
    <2>1. Entries(timers') \subseteq TimerIds
      BY <1>3, ElementOfSeq, LenProperties DEF Entries
    <2> QED
      BY <1>2, <1>3, <2>1, SameAlarms
  <1> QED
    BY <1>1, <1>2, <1>3, <1>4 DEF TimerTypeOK

LEMMA TriggerBeginsListed ==
  ASSUME TimerTypeOK, NEW t \in TimerIds, TriggerBegins(t)
  PROVE  /\ TimerTypeOK'
         /\ \A u \in TimerIds : u # t \/ t \in Repeating => alarm'[u] = alarm[u]
         /\ armed' = IF t \in Repeating THEN armed ELSE armed \ {t}
         /\ Entries(timers') = Entries(timers) \ {t}
         /\ InOrder(timers, alarm) => InOrder(timers', alarm')
  <1>1. /\ alarm' = (IF t \in Repeating THEN alarm ELSE [alarm EXCEPT ![t] = Off])
        /\ timers' = Without(timers, t) /\ UNCHANGED period
        /\ armed' = (IF t \in Repeating THEN armed ELSE armed \ {t})
    BY DEF TriggerBegins
  <1>2. /\ alarm' \in [TimerIds -> Int]
        /\ \A u \in TimerIds : u # t \/ t \in Repeating => alarm'[u] = alarm[u]
        /\ armed' \subseteq TimerIds
    BY <1>1 DEF TimerTypeOK, Off, LongPast
  <1>3. /\ timers' \in Seq(TimerIds) /\ Entries(timers') = Entries(timers) \ {t}
        /\ InOrder(timers, alarm) => InOrder(timers', alarm)
    BY <1>1, WithoutInOrder DEF TimerTypeOK
  <1>4. InOrder(timers', alarm) => InOrder(timers', alarm')
    <2>1. Entries(timers') \subseteq TimerIds
      BY <1>3, ElementOfSeq, LenProperties DEF Entries
    <2> QED
      BY <1>2, <1>3, <2>1, SameAlarms
  <1> QED
    BY <1>1, <1>2, <1>3, <1>4 DEF TimerTypeOK

LEMMA TriggerEndsListed ==
  ASSUME TimerTypeOK, NEW t \in TimerIds, TriggerEnds(t)
  PROVE  /\ TimerTypeOK' /\ armed' = armed
         /\ \A u \in TimerIds : u # t \/ t \notin Repeating => alarm'[u] = alarm[u]
         /\ t \notin Repeating => timers' = timers
         /\ t \in Repeating => alarm'[t] # Off /\ Entries(timers') = Entries(timers) \cup {t}
         /\ InOrder(timers, alarm) /\ (t \in Repeating => t \notin Entries(timers))
              => InOrder(timers', alarm')
  <1>1. CASE t \notin Repeating
    BY <1>1 DEF TriggerEnds, TimerTypeOK
  <1>2. CASE t \in Repeating
    <2>1. /\ alarm' = [alarm EXCEPT ![t] = IF @ <= LongPast THEN LongPast ELSE @ + period[t]]
          /\ timers' = Inserted(timers, alarm', t) /\ UNCHANGED <<period, armed>>
      BY <1>2 DEF TriggerEnds
    <2>2. /\ alarm' \in [TimerIds -> Int] /\ alarm'[t] # Off
          /\ \A u \in TimerIds : u # t => alarm'[u] = alarm[u]
      BY <2>1 DEF TimerTypeOK, Running, Off, LongPast
    <2>3. /\ timers' \in Seq(TimerIds) /\ Entries(timers') = Entries(timers) \cup {t}
          /\ InOrder(timers, alarm') /\ t \notin Entries(timers) => InOrder(timers', alarm')
      BY <2>1, <2>2, InsertedInOrder DEF TimerTypeOK
    <2>4. InOrder(timers, alarm) /\ t \notin Entries(timers) => InOrder(timers, alarm')
      <3>1. Entries(timers) \subseteq TimerIds
        BY ElementOfSeq, LenProperties DEF Entries, TimerTypeOK
      <3> QED
        BY <2>2, <3>1, SameAlarms DEF TimerTypeOK
    <2> QED
      BY <1>2, <2>1, <2>2, <2>3, <2>4 DEF TimerTypeOK
  <1> QED
    BY <1>1, <1>2

(* The clock brings all alarms nearer, and none before another. *)
LEMMA PassesListed ==
  ASSUME TimerTypeOK, Passes
  PROVE  /\ TimerTypeOK' /\ UNCHANGED <<timers, armed>>
         /\ \A t \in TimerIds : /\ alarm'[t] <= alarm[t]
                                /\ Running(t) => Running(t)'
                                /\ alarm[t] > LongPast => alarm'[t] = alarm[t] - 1
         /\ InOrder(timers, alarm) => InOrder(timers', alarm')
  <1>1. /\ alarm' = [t \in TimerIds |-> IF alarm[t] <= LongPast THEN alarm[t] ELSE alarm[t] - 1]
        /\ UNCHANGED <<timers, period, armed>>
    BY DEF Passes
  <1>2. \A t \in TimerIds :
          /\ alarm[t] \in Int /\ alarm'[t] \in Int
          /\ alarm'[t] = IF alarm[t] <= LongPast THEN alarm[t] ELSE alarm[t] - 1
    BY <1>1 DEF TimerTypeOK, LongPast
  <1>3. InOrder(timers, alarm) => InOrder(timers, alarm')
    <2>1. \A i \in DOMAIN timers : timers[i] \in TimerIds
      BY ElementOfSeq, LenProperties DEF TimerTypeOK
    <2>2. \A t, u \in TimerIds : alarm[t] <= alarm[u] => alarm'[t] <= alarm'[u]
      BY <1>2 DEF LongPast
    <2> QED
      BY <2>1, <2>2 DEF InOrder
  <1> QED
    BY <1>1, <1>2, <1>3 DEF TimerTypeOK, Running, Off, LongPast

--------------------------------------------------------------------------------
(* The loop. *)

(* The program starts with no timer listed and nobody in a handler. *)
LEMMA InitType == Init => TypeOK /\ HandlerInv
  <1> SUFFICES ASSUME Init PROVE TypeOK /\ HandlerInv
    OBVIOUS
  <1>1. TimerTypeOK
    <2>1. alarm \in [TimerIds -> Int]
      BY DEF Init, TimerInit, Off, LongPast
    <2>2. period \in [TimerIds -> Nat]
      <3>1. PICK f \in [TimerIds -> UNION {Periods[t] : t \in TimerIds}] :
              period = f /\ \A t \in TimerIds : f[t] \in Periods[t]
        BY DEF Init, TimerInit
      <3> QED
        BY <3>1, TimerAssumption
    <2> QED
      BY <2>1, <2>2, EmptySeq DEF Init, TimerInit, TimerTypeOK
  <1>2. MaxErrors \in Nat /\ <<>> \in Seq(Events)
    BY AppLoopAssumption, EmptySeq
  <1>3. errors \in 0 .. MaxErrors
    BY <1>2 DEF Init
  <1>4. inExec \in BOOLEAN /\ Exit \in BOOLEAN /\ cut \in BOOLEAN /\ undefined \in BOOLEAN
    BY DEF Init
  <1> QED
    BY <1>1, <1>2, <1>3, <1>4 DEF Init, TypeOK, HandlerInv, PcS

(* Calls of the program: what they may change, and how. *)
LEMMA CallsType ==
  ASSUME TypeOK, HandlerInv, ProgramCalls PROVE TypeOK' /\ HandlerInv'
  <1>1. UNCHANGED <<pc, handler, resume, lag, since, inExec, next, maxTime, wakeIn, active,
                    current, tests, cut, errors, undefined>>
    BY DEF ProgramCalls
  <1>2. /\ TimerTypeOK' /\ Exit' \in BOOLEAN
        /\ watched' \subseteq WatcherIds /\ open' \subseteq WatcherIds /\ alive' \subseteq WatcherIds
        /\ torn' \subseteq WatcherIds
        /\ isset' \subseteq WatcherIds \X Events /\ ready' \subseteq WatcherIds \X Events
    <2>1. CASE \E h : TimerCall(h)
      <3>1. PICK h : TimerCall(h)
        BY <2>1
      <3>2. TimerTypeOK'
        <4>1. ASSUME NEW t \in TimerIds, NEW p \in Periods[t], Start(t, p) PROVE TimerTypeOK'
          BY <4>1, StartListed, TimerAssumption DEF TypeOK
        <4>2. ASSUME NEW t \in TimerIds, Stop(t) PROVE TimerTypeOK'
          BY <4>2, StopListed DEF TypeOK
        <4> QED
          BY <3>1, <4>1, <4>2 DEF TimerCall
      <3> QED
        BY <3>1, <3>2 DEF TimerCall, watchVars, TypeOK
    <2>2. CASE \E h : WatcherCall(h)
      <3>1. PICK w \in alive :
              Enable(w) \/ Disable(w) \/ Open(w) \/ Close(w) \/ Drop(w)
        BY <2>2 DEF WatcherCall
      <3>2. w \in WatcherIds
        BY DEF TypeOK
      <3>3. UNCHANGED <<timerVars, Exit>>
        BY <2>2 DEF WatcherCall
      <3>4. /\ watched' \subseteq WatcherIds /\ open' \subseteq WatcherIds
            /\ alive' \subseteq WatcherIds /\ torn' \subseteq WatcherIds
        BY <3>1, <3>2 DEF Enable, Disable, Open, Close, Drop, TypeOK
      <3>5. isset' \subseteq WatcherIds \X Events /\ ready' \subseteq WatcherIds \X Events
        <4>1. ASSUME Open(w) PROVE isset' \subseteq WatcherIds \X Events
          <5>1. PICK v : isset' = {r \in isset : r[1] # w} \cup
                           {<<w, e>> : e \in {f \in Events : <<v, f>> \in isset}}
            BY <4>1 DEF Open
          <5>2. isset \subseteq WatcherIds \X Events
            BY DEF TypeOK
          <5>3. {<<w, e>> : e \in {f \in Events : <<v, f>> \in isset}} \subseteq WatcherIds \X Events
            <6>1. \A e \in Events : <<w, e>> \in WatcherIds \X Events
              BY <3>2
            <6> QED
              BY ONLY <6>1
          <5>4. {r \in isset : r[1] # w} \subseteq isset
            OBVIOUS
          <5> QED
            BY ONLY <5>1, <5>2, <5>3, <5>4
        <4>2. Open(w) => ready' \subseteq ready
          BY DEF Open
        <4> QED
          BY <3>1, <4>1, <4>2 DEF Enable, Disable, Close, Drop, TypeOK
      <3> QED
        BY <3>3, <3>4, <3>5 DEF timerVars, TypeOK, TimerTypeOK
    <2>3. CASE \E h : CallExit(h)
      BY <2>3 DEF CallExit, timerVars, watchVars, TypeOK, TimerTypeOK
    <2> QED
      BY <2>1, <2>2, <2>3 DEF ProgramCalls
  <1> QED
    BY <1>1, <1>2 DEF TypeOK, HandlerInv

(* Steps that leave the timers alone. *)
LEMMA OtherType ==
  ASSUME TypeOK, HandlerInv,
         \/ CallExec \/ \E m \in WaitTimes : CallProcess(m)
         \/ ExecLoop \/ Top \/ Poll \/ Wait \/ Wake \/ Notify \/ TestEvent \/ Notified \/ End
         \/ Arrive \/ Interrupted
  PROVE  TypeOK' /\ HandlerInv' /\ UNCHANGED timerVars
  <1> USE DEF TypeOK, HandlerInv, PcS, Return, Goto, RunHandler, loopVars, watchVars
  <1>0. UNCHANGED timerVars => TimerTypeOK'
    BY DEF timerVars, TimerTypeOK
  <1>a. /\ WaitTimes \subseteq Nat /\ ProcessTime \in Nat /\ MaxErrors \in Nat
        /\ None \notin Handlers /\ Watches \in [WatcherIds -> SUBSET Events]
    BY AppLoopAssumption
  <1>b. <<"exception", "readable", "writable">> \in Seq(Events)
    BY DEF Events
  <1>c. None \notin WatcherIds
    BY <1>a DEF Handlers
  <1>1. CASE CallExec
    BY <1>0, <1>1 DEF CallExec
  <1>2. CASE \E m \in WaitTimes : CallProcess(m)
    <2>1. inExec' \in BOOLEAN
      BY <1>2 DEF CallProcess
    <2> QED
      BY <1>0, <1>2, <1>a, <2>1 DEF CallProcess
  <1>3. CASE ExecLoop
    BY <1>0, <1>3, <1>a DEF ExecLoop
  <1>4. CASE Top
    <2>1. cut' \in BOOLEAN
      BY <1>4 DEF Top
    <2> QED
      BY <1>0, <1>4, <2>1 DEF Top
  <1>5. CASE Poll
    BY <1>0, <1>5, <1>a DEF Poll, Handlers, Selected
  <1>6. CASE Wait
    <2>1. /\ WaitTime \in Int /\ Forever \in Nat
          /\ errors < MaxErrors => errors + 1 \in 0 .. MaxErrors
      BY <1>a DEF WaitTime, LongPast, Forever, TimerTypeOK
    <2>2. wakeIn' \in Nat /\ errors' \in 0 .. MaxErrors
      BY <1>6, <2>1 DEF Wait
    <2> QED
      BY <1>0, <1>6, <2>2 DEF Wait
  <1>7. CASE Wake
    BY <1>0, <1>7 DEF Wake
  <1>8. CASE Notify
    <2>1. /\ active' \subseteq active /\ current' \in WatcherIds \cup {None}
          /\ tests' \in Seq(Events) /\ undefined' \in BOOLEAN
          /\ pc' = "test" => current' # None
          /\ current' # None => pc' = "test"
      <3>1. CASE active = {} /\ Goto("end") /\ UNCHANGED <<active, current, tests, undefined>>
        BY <1>8, <3>1 DEF Notify
      <3>2. ASSUME NEW w \in active, active' = active \ {w}, current' = w,
                   tests' = <<"exception", "readable", "writable">>,
                   undefined' = (w \notin alive), Goto("test")
            PROVE  /\ active' \subseteq active /\ current' \in WatcherIds \cup {None}
                   /\ tests' \in Seq(Events) /\ undefined' \in BOOLEAN
                   /\ pc' = "test" => current' # None
                   /\ current' # None => pc' = "test"
        <4>1. undefined' \in BOOLEAN
          BY <3>2
        <4>2. w \in WatcherIds /\ w # None
          BY <1>c
        <4> QED
          BY <1>b, <3>2, <4>1, <4>2
      <3> QED
        BY <1>8, <3>1, <3>2 DEF Notify
    <2>2. pc' \in {"end", "test"}
      BY <1>8 DEF Notify
    <2> QED
      BY <1>0, <1>8, <2>1, <2>2 DEF Notify
  <1>9. CASE TestEvent
    <2>1. undefined' \in BOOLEAN
      BY <1>9 DEF TestEvent
    <2>2. tests' \in Seq(Events) /\ ready' \subseteq WatcherIds \X Events
      BY <1>9, HeadTailProperties DEF TestEvent
    <2>3. /\ pc = "test"
          /\ \/ pc' = "test" /\ UNCHANGED <<handler, resume>>
             \/ pc' = "handler" /\ handler' = current /\ resume' = "test"
          /\ UNCHANGED <<timerVars, Exit, lag, since, inExec, next, maxTime, wakeIn, active,
                         isset, current, cut, watchVars, errors>>
      BY <1>9 DEF TestEvent
    <2> QED
      BY <1>0, <1>a, <2>1, <2>2, <2>3 DEF Handlers
  <1>10. CASE Notified
    BY <1>0, <1>10 DEF Notified
  <1>11. CASE End
    BY <1>0, <1>11 DEF End
  <1>12. CASE Arrive
    BY <1>0, <1>12, <1>a DEF Arrive
  <1>13. CASE Interrupted
    <2>1. cut' \in BOOLEAN
      BY <1>13 DEF Interrupted
    <2>2. errors < MaxErrors => errors + 1 \in 0 .. MaxErrors
      BY <1>a
    <2> QED
      BY <1>0, <1>13, <2>1, <2>2 DEF Interrupted
  <1> QED
    BY <1>1, <1>2, <1>3, <1>4, <1>5, <1>6, <1>7, <1>8, <1>9, <1>10, <1>11, <1>12, <1>13

LEMMA TypeStep ==
  ASSUME TypeOK, HandlerInv, [Next]_vars PROVE TypeOK' /\ HandlerInv'
  <1> USE DEF TypeOK, HandlerInv, PcS, Return, Goto, RunHandler, loopVars, watchVars
  <1>1. CASE ProgramCalls
    BY <1>1, CallsType
  <1>2. CASE Tick
    BY <1>2, PassesListed DEF Tick
  <1>3. CASE Alarms
    <2>1. CASE timers = <<>>
      BY <1>3, <2>1 DEF Alarms, timerVars, TimerTypeOK
    <2>2. CASE timers # <<>>
      <3>1. next' = Head(timers) /\ next' \in TimerIds
        BY <1>3, <2>2, HeadTailProperties DEF Alarms, TimerTypeOK
      <3>2. TimerTypeOK'
        <4>1. TriggerBegins(next') => TimerTypeOK'
          BY <3>1, TriggerBeginsListed
        <4> QED
          BY <1>3, <2>2, <4>1 DEF Alarms, timerVars, TimerTypeOK
      <3> QED
        BY <1>3, <2>2, <3>1, <3>2, AppLoopAssumption DEF Alarms, Handlers
    <2> QED
      BY <2>1, <2>2
  <1>4. CASE Fire
    <2>1. TimerTypeOK'
      <3>1. TriggerBegins(next) /\ next # None => TimerTypeOK'
        BY TriggerBeginsListed
      <3> QED
        BY <1>4, <3>1 DEF Fire, timerVars, TimerTypeOK
    <2> QED
      BY <1>4, <2>1, AppLoopAssumption DEF Fire, Handlers
  <1>5. CASE HandlerReturns
    <2>1. TimerTypeOK'
      <3>1. ASSUME handler \in TimerIds, TriggerEnds(handler) PROVE TimerTypeOK'
        BY <3>1, TriggerEndsListed
      <3> QED
        BY <1>5, <3>1 DEF HandlerReturns, timerVars, TimerTypeOK
    <2> QED
      BY <1>5, <2>1, AppLoopAssumption DEF HandlerReturns, Handlers
  <1>6. CASE UNCHANGED vars
    BY <1>6 DEF vars, timerVars, TimerTypeOK
  <1> QED
    BY <1>1, <1>2, <1>3, <1>4, <1>5, <1>6, OtherType DEF Next, Loop, Environment

(* Every variable has its type, whatever the program calls. *)
THEOREM AppLoopTypes == Spec => []TypeOK
  <1>1. TypeOK /\ HandlerInv /\ [Next]_vars => (TypeOK /\ HandlerInv)'
    BY TypeStep
  <1> QED
    BY InitType, <1>1, PTL DEF Spec

--------------------------------------------------------------------------------
(* The timers. *)

LEMMA TimersListedMeans ==
  TimersListed <=>
    /\ TypeOK
    /\ InOrder(timers, alarm)
    /\ Entries(timers) \subseteq armed
    /\ \A t \in armed \ Entries(timers) : pc = "handler" /\ handler = t
  BY DEF TimersListed, InOrder, Entries, Listed

LEMMA TimersListedNext ==
  ASSUME TypeOK', InOrder(timers', alarm'), Entries(timers') \subseteq armed',
         \A t \in armed' \ Entries(timers') : pc' = "handler" /\ handler' = t
  PROVE  TimersListed'
  BY DEF TimersListed, InOrder, Entries, Listed

(* What process() relies on when the program is steady: the lasting timer   *)
(* keeps the list from being empty outside of its own handlers.             *)
LEMMA ListIsNotEmpty ==
  ASSUME SteadyTimers, TimersIInv, pc # "out", pc # "handler"
  PROVE  timers # <<>>
  <1>1. PICK r \in Lasting : r \in armed
    BY DEF SteadyTimers, TimersIInv, ArmedInv
  <1>2. r \in Listed
    BY <1>1 DEF TimersIInv, TimersListed
  <1> QED
    BY <1>2 DEF Listed

(* The calls of a handler, or of the program outside of the loop. *)
LEMMA CallsTimers ==
  ASSUME SteadyTimers, TimersIInv, ProgramCalls PROVE TimersIInv'
  <1> USE DEF TimersIInv
  <1>0. TypeOK /\ HandlerInv /\ TypeOK' /\ HandlerInv'
    BY CallsType DEF TimersListed
  <1>1. UNCHANGED <<pc, handler, resume, lag, next, wakeIn, cut>>
    BY DEF ProgramCalls, loopVars
  <1>2. UNCHANGED timerVars => TimersIInv'
    BY <1>0, <1>1 DEF timerVars, TimersListed, Listed, ArmedInv, Running, NextInv, Chosen
  <1> DEFINE h == IF pc = "out" THEN "main" ELSE handler
  <1>3. CASE WatcherCall(h) \/ CallExit(h)
    BY <1>2, <1>3 DEF WatcherCall, CallExit
  <1>4. CASE TimerCall(h)
    <2>1. PICK t \in TimerIds :
            \/ \E p \in Periods[t] : <<"start", t>> \in Program[h] /\ Start(t, p)
            \/ <<"stop", t>> \in Program[h] /\ Stop(t)
      BY <1>4 DEF TimerCall
    <2>2. /\ InOrder(timers, alarm) /\ Entries(timers) \subseteq armed
          /\ \A u \in armed \ Entries(timers) : pc = "handler" /\ handler = u
          /\ TimerTypeOK /\ (t \in Entries(timers) => Running(t))
          /\ \A u \in armed : Running(u) /\ (u \notin Entries(timers) => u \in Repeating)
          /\ \A u \in Repeating :
               pc = "handler" /\ handler = u => u \in armed /\ u \notin Entries(timers)
          /\ pc # "out" => Lasting \subseteq armed
      BY TimersListedMeans DEF ArmedInv, TypeOK, Listed, Entries
    <2>3. h \in Handlers \cup {"main"} /\ pc \in {"out", "handler"}
      BY <1>0 DEF ProgramCalls, TypeOK
    <2>4. <<"start", t>> \in Program[h] \/ <<"stop", t>> \in Program[h]
      BY <2>1
    <2>5. \A u \in Repeating : pc = "handler" /\ handler = u => u # t
      BY <2>4 DEF SteadyTimers
    <2>6. ~Chosen
      <3>1. pc = "handler" /\ resume = "wait" => h = "idle"
        BY DEF HandlerInv
      <3>2. <<"start", t>> \in TimerCalls /\ <<"stop", t>> \in TimerCalls
        BY DEF TimerCalls
      <3> QED
        BY <2>3, <2>4, <3>1, <3>2 DEF Chosen, SteadyTimers
    <2>7. NextInv'
      BY <1>1, <2>3, <2>6 DEF NextInv, Chosen
    <2>8. CASE \E p \in Periods[t] : <<"start", t>> \in Program[h] /\ Start(t, p)
      <3>1. PICK p \in Nat \ {0} : Start(t, p)
        BY <2>8, TimerAssumption
      <3>2. /\ InOrder(timers', alarm') /\ Entries(timers') = Entries(timers) \cup {t}
            /\ armed' = armed \cup {t} /\ Running(t)'
            /\ \A u \in TimerIds : u # t => alarm'[u] = alarm[u]
        BY <2>2, <3>1, StartListed
      <3>3. TimersListed'
        BY <1>0, <1>1, <2>2, <3>2, TimersListedNext
      <3>4. ArmedInv'
        <4>1. \A u \in armed' : Running(u)' /\ (u \notin Entries(timers') => u \in Repeating)
          BY <1>0, <2>2, <3>2 DEF Running, TypeOK, TimerTypeOK
        <4> QED
          BY <1>1, <2>2, <2>5, <3>2, <4>1 DEF ArmedInv, Listed, Entries
      <3> QED
        BY <1>0, <2>7, <3>3, <3>4
    <2>9. CASE <<"stop", t>> \in Program[h] /\ Stop(t)
      <3>1. t \notin Lasting
        BY <2>3, <2>9 DEF Lasting
      <3>2. /\ InOrder(timers', alarm') /\ Entries(timers') \subseteq Entries(timers)
            /\ Entries(timers) \subseteq Entries(timers') \cup {t} /\ t \notin Entries(timers')
            /\ armed' = armed \ {t}
            /\ \A u \in TimerIds : u # t => alarm'[u] = alarm[u]
        BY <2>2, <2>9, StopListed
      <3>3. TimersListed'
        BY <1>0, <1>1, <2>2, <3>2, TimersListedNext
      <3>4. ArmedInv'
        <4>1. \A u \in armed' : Running(u)' /\ (u \notin Entries(timers') => u \in Repeating)
          BY <1>0, <2>2, <3>2 DEF Running, TypeOK, TimerTypeOK
        <4> QED
          BY <1>1, <2>2, <2>5, <3>1, <3>2, <4>1 DEF ArmedInv, Listed, Entries
      <3> QED
        BY <1>0, <2>7, <3>3, <3>4
    <2> QED
      BY <2>1, <2>8, <2>9
  <1> QED
    BY <1>3, <1>4 DEF ProgramCalls

(* The steps of the loop that trigger a timer, and the end of its handlers. *)
LEMMA TriggerTimers ==
  ASSUME SteadyTimers, TimersIInv, ~undefined, Alarms \/ Fire PROVE TimersIInv'
  <1> USE DEF TimersIInv
  <1> SUFFICES ASSUME TypeOK', HandlerInv' PROVE TimersIInv'
    BY TypeStep DEF TimersListed, Next, Loop
  <1>0. /\ TypeOK /\ TimerTypeOK
        /\ InOrder(timers, alarm) /\ Entries(timers) \subseteq armed
        /\ \A u \in armed \ Entries(timers) : pc = "handler" /\ handler = u
        /\ \A u \in armed : Running(u) /\ (u \notin Entries(timers) => u \in Repeating)
        /\ pc # "out" => Lasting \subseteq armed
    BY TimersListedMeans DEF TimersListed, TypeOK, ArmedInv, Listed, Entries
  <1>1. pc # "out" /\ pc # "handler" /\ timers # <<>> /\ current' = current
        /\ UNCHANGED <<wakeIn, cut>>
    BY ListIsNotEmpty DEF Alarms, Fire, loopVars
  <1>2. /\ Head(timers) \in Entries(timers) /\ Head(timers) \in TimerIds
    BY <1>0, <1>1, HeadTailProperties, LenProperties, EmptySeq DEF Entries, TimerTypeOK
  <1>3. ASSUME TriggerBegins(Head(timers)), RunHandler(Head(timers), "alarms")
                 \/ RunHandler(Head(timers), "fire")
        PROVE  TimersIInv'
    <2> DEFINE t == Head(timers)
    <2>1. /\ pc' = "handler" /\ handler' = t /\ resume' \in {"alarms", "fire"}
      BY <1>3 DEF RunHandler
    <2>2. /\ InOrder(timers', alarm') /\ Entries(timers') = Entries(timers) \ {t}
          /\ armed' = (IF t \in Repeating THEN armed ELSE armed \ {t})
          /\ \A u \in TimerIds : u # t \/ t \in Repeating => alarm'[u] = alarm[u]
      BY <1>0, <1>2, <1>3, TriggerBeginsListed
    <2> HIDE DEF t
    <2>3. TimersListed'
      BY <1>0, <1>1, <2>1, <2>2, TimersListedNext
    <2>4. ArmedInv'
      <3>1. \A u \in armed' : Running(u)' /\ (u \notin Entries(timers') => u \in Repeating)
        BY <1>0, <2>2 DEF Running, TypeOK, TimerTypeOK
      <3>2. \A u \in Repeating : handler' = u => u \in armed' /\ u \notin Entries(timers')
        BY <1>0, <1>2, <2>1, <2>2 DEF t
      <3>3. Lasting \subseteq armed'
        BY <1>0, <1>1, <2>2 DEF Lasting
      <3> QED
        BY <3>1, <3>2, <3>3 DEF ArmedInv, Listed, Entries
    <2>5. NextInv'
      BY <2>1 DEF NextInv, Chosen
    <2> QED
      BY <2>3, <2>4, <2>5
  <1>4. ASSUME UNCHANGED timerVars, pc' \in {"poll", "end"},
               pc' = "poll" => next' = Head(timers)
        PROVE  TimersIInv'
    <2>1. TimersListed'
      BY <1>0, <1>1, <1>4, TimersListedNext DEF timerVars
    <2>2. ArmedInv'
      BY <1>0, <1>1, <1>4 DEF ArmedInv, timerVars, Running, Listed, Entries
    <2>3. NextInv'
      BY <1>1, <1>4 DEF NextInv, Chosen, timerVars
    <2> QED
      BY <2>1, <2>2, <2>3
  <1>5. CASE Alarms
    BY <1>1, <1>3, <1>4, <1>5 DEF Alarms, Goto
  <1>6. CASE Fire
    <2>1. next # None => next = Head(timers)
      BY <1>6 DEF NextInv, Chosen, Fire
    <2> QED
      BY <1>1, <1>3, <1>4, <1>6, <2>1 DEF Fire, Goto
  <1> QED
    BY <1>5, <1>6

LEMMA HandlerReturnsTimers ==
  ASSUME SteadyTimers, TimersIInv, ~undefined, HandlerReturns PROVE TimersIInv'
  <1> USE DEF TimersIInv
  <1> SUFFICES ASSUME TypeOK', HandlerInv' PROVE TimersIInv'
    BY TypeStep DEF TimersListed, Next, Loop
  <1>0. /\ TypeOK /\ TimerTypeOK
        /\ InOrder(timers, alarm) /\ Entries(timers) \subseteq armed
        /\ \A u \in armed \ Entries(timers) : pc = "handler" /\ handler = u
        /\ \A u \in armed : Running(u) /\ (u \notin Entries(timers) => u \in Repeating)
        /\ \A u \in Repeating :
             pc = "handler" /\ handler = u => u \in armed /\ u \notin Entries(timers)
        /\ pc # "out" => Lasting \subseteq armed
    BY TimersListedMeans DEF TimersListed, TypeOK, ArmedInv, Listed, Entries
  <1>1. /\ pc = "handler" /\ pc' # "handler" /\ handler' = None
        /\ next' = (IF resume = "fire" THEN None ELSE next)
        /\ UNCHANGED <<wakeIn, cut>>
        /\ pc' \in {Return, "end", resume}
    BY DEF HandlerReturns, Goto, TypeOK, HandlerInv
  <1>2. UNCHANGED armed /\ InOrder(timers', alarm')
        /\ Entries(timers') = armed /\ \A u \in armed : Running(u)'
    <2>1. CASE handler \in TimerIds
      <3>1. TriggerEnds(handler)
        BY <2>1 DEF HandlerReturns
      <3>2. /\ InOrder(timers', alarm') /\ armed' = armed
            /\ \A u \in TimerIds : u # handler \/ handler \notin Repeating => alarm'[u] = alarm[u]
            /\ handler \notin Repeating => timers' = timers
            /\ handler \in Repeating =>
                 alarm'[handler] # Off /\ Entries(timers') = Entries(timers) \cup {handler}
        BY <1>0, <1>1, <2>1, <3>1, TriggerEndsListed
      <3>3. Entries(timers') = armed
        BY <1>0, <1>1, <2>1, <3>2
      <3>4. \A u \in armed : Running(u)'
        BY <1>0, <3>2 DEF Running, TimerTypeOK
      <3> QED
        BY <3>2, <3>3, <3>4
    <2>2. CASE handler \notin TimerIds
      <3>1. UNCHANGED timerVars
        BY <2>2 DEF HandlerReturns
      <3>2. Entries(timers) = armed
        BY <1>0, <1>1, <2>2 DEF TimerTypeOK
      <3> QED
        BY <1>0, <3>1, <3>2 DEF timerVars, Running
    <2> QED
      BY <2>1, <2>2
  <1>3. TimersListed'
    BY <1>2, TimersListedNext
  <1>4. ArmedInv'
    BY <1>0, <1>1, <1>2 DEF ArmedInv, Listed, Entries
  <1>5. NextInv'
    <2>1. resume = "wait" => UNCHANGED timerVars
      BY <1>0, <1>1, AppLoopAssumption DEF HandlerReturns, HandlerInv
    <2>2. resume # "wait" => pc' \in {"exec", "out", "end", "alarms", "test"}
      BY <1>1 DEF HandlerReturns, HandlerInv, Goto, Return
    <2>3. pc' \in {"exec", "out", "end", "alarms", "test", "wait"}
      BY <1>1 DEF HandlerReturns, HandlerInv, Goto, Return
    <2> QED
      BY <1>1, <2>1, <2>2, <2>3 DEF NextInv, Chosen, timerVars
  <1> QED
    BY <1>3, <1>4, <1>5

(* The clock, and the steps that leave the timers alone. *)
LEMMA TickTimers ==
  ASSUME TimersIInv, ~undefined, Tick PROVE TimersIInv'
  <1> USE DEF TimersIInv
  <1> SUFFICES ASSUME TypeOK', HandlerInv' PROVE TimersIInv'
    BY TypeStep DEF TimersListed, Next, Environment
  <1>0. /\ TypeOK /\ TimerTypeOK /\ InOrder(timers, alarm)
    BY TimersListedMeans DEF TimersListed, TypeOK
  <1>1. /\ UNCHANGED <<pc, handler, resume, next, cut, timers, armed>>
        /\ wakeIn' = (IF wakeIn \in {0, Forever} THEN wakeIn ELSE wakeIn - 1)
        /\ InOrder(timers', alarm')
        /\ \A t \in TimerIds : /\ alarm'[t] <= alarm[t]
                               /\ Running(t) => Running(t)'
                               /\ alarm[t] > LongPast => alarm'[t] = alarm[t] - 1
    BY <1>0, PassesListed DEF Tick
  <1>2. TimersListed'
    BY <1>1, TimersListedMeans, TimersListedNext
  <1>3. ArmedInv'
    BY <1>0, <1>1 DEF ArmedInv, Listed, TypeOK, TimerTypeOK
  <1>4. NextInv'
    <2>1. next # None /\ pc = "asleep" /\ alarm[next] <= wakeIn => alarm'[next] <= wakeIn'
      <3> SUFFICES ASSUME next \in TimerIds, alarm[next] <= wakeIn PROVE alarm'[next] <= wakeIn'
        BY <1>0 DEF TypeOK
      <3>1. /\ alarm[next] \in Int /\ alarm'[next] \in Int /\ wakeIn \in Nat /\ wakeIn' \in Nat
        BY <1>0 DEF TypeOK, TimerTypeOK
      <3> QED
        BY <1>1, <3>1 DEF LongPast
    <2>2. next # None /\ alarm[next] <= 0 => alarm'[next] <= 0
      <3> SUFFICES ASSUME next \in TimerIds, alarm[next] <= 0 PROVE alarm'[next] <= 0
        BY <1>0 DEF TypeOK
      <3>1. /\ alarm[next] \in Int /\ alarm'[next] \in Int
        BY <1>0 DEF TypeOK, TimerTypeOK
      <3> QED
        BY <1>1, <3>1
    <2> QED
      BY <1>1, <2>1, <2>2 DEF NextInv, Chosen
  <1> QED
    BY <1>2, <1>3, <1>4

LEMMA OtherTimers ==
  ASSUME SteadyTimers, TimersIInv,
         \/ CallExec \/ \E m \in WaitTimes : CallProcess(m)
         \/ ExecLoop \/ Top \/ Poll \/ Wait \/ Wake \/ Notify \/ TestEvent \/ Notified \/ End
         \/ Arrive \/ Interrupted
  PROVE  TimersIInv'
  <1> USE DEF TimersIInv
  <1>0. TypeOK /\ HandlerInv /\ TypeOK' /\ HandlerInv' /\ UNCHANGED timerVars
    BY OtherType DEF TimersListed
  <1> USE DEF Goto, Return, RunHandler, loopVars
  <1>1. /\ pc = "handler" => UNCHANGED <<pc, handler>>
        /\ pc' = "handler" => pc = "handler" \/ handler' \notin TimerIds
        /\ pc = "out" /\ pc' # "out" => FirstTimers \subseteq armed
    <2>1. "idle" \notin TimerIds /\ TimerIds \cap WatcherIds = {} /\ None \notin TimerIds
      BY AppLoopAssumption DEF Handlers
    <2>2. current \in WatcherIds \cup {None}
      BY <1>0 DEF TypeOK
    <2> QED
      BY <2>1, <2>2 DEF CallExec, CallProcess, ExecLoop, Top, Poll, Wait, Wake, Notify, TestEvent,
         Notified, End, Arrive, Interrupted
  <1>2. TimersListed'
    <2>1. /\ InOrder(timers, alarm) /\ Entries(timers) \subseteq armed
          /\ \A t \in armed \ Entries(timers) : pc = "handler" /\ handler = t
      BY TimersListedMeans
    <2> QED
      BY <1>0, <1>1, <2>1, TimersListedNext DEF timerVars
  <1>3. ArmedInv'
    <2>1. UNCHANGED <<armed, alarm, timers>>
      BY <1>0 DEF timerVars
    <2>2. /\ \A t \in armed : alarm[t] # Off /\ (t \notin Listed => t \in Repeating)
          /\ \A t \in Repeating : pc = "handler" /\ handler = t => t \in armed \ Listed
          /\ pc # "out" => Lasting \subseteq armed
      BY DEF ArmedInv, Running
    <2>3. \A t \in Repeating : pc' = "handler" /\ handler' = t => pc = "handler" /\ handler = t
      BY <1>1, TimerAssumption
    <2>4. pc' # "out" => Lasting \subseteq armed
      BY <1>1, <2>2 DEF Lasting
    <2> QED
      BY <2>1, <2>2, <2>3, <2>4 DEF ArmedInv, Running, Listed
  <1>4. NextInv'
    <2>1. UNCHANGED <<alarm, timers>>
      BY <1>0 DEF timerVars
    <2>2. CASE CallExec \/ (\E m \in WaitTimes : CallProcess(m)) \/ ExecLoop \/ End
      BY <2>1, <2>2 DEF CallExec, CallProcess, ExecLoop, End, NextInv, Chosen
    <2>3. CASE Notify \/ TestEvent \/ Notified
      BY <2>1, <2>3 DEF Notify, TestEvent, Notified, NextInv, Chosen
    <2>4. CASE Top
      BY <2>1, <2>4 DEF Top, NextInv, Chosen
    <2>5. CASE Poll
      BY <2>1, <2>5 DEF Poll, NextInv, Chosen
    <2>6. CASE Wait
      <3>1. next # None /\ pc' = "asleep" => alarm[next] <= wakeIn'
        <4> SUFFICES ASSUME next \in TimerIds, next # None, pc' = "asleep"
                     PROVE  alarm[next] <= wakeIn'
          BY <1>0 DEF TypeOK
        <4>1. alarm[next] \in Int /\ lag \in Nat
          BY <1>0 DEF TypeOK, TimerTypeOK
        <4>2. /\ WaitTime >= 0 => alarm[next] <= WaitTime
              /\ WaitTime < 0 => alarm[next] <= 0
          BY <4>1 DEF WaitTime, LongPast
        <4> QED
          BY <2>6, <4>1, <4>2 DEF Wait, Forever
      <3> QED
        BY <2>1, <2>6, <3>1 DEF Wait, NextInv, Chosen
    <2>7. CASE Wake
      BY <2>1, <2>7 DEF Wake, NextInv, Chosen
    <2>8. CASE Arrive
      BY <2>1, <2>8 DEF Arrive, NextInv, Chosen
    <2>9. CASE Interrupted
      BY <2>1, <2>9 DEF Interrupted, NextInv, Chosen
    <2> QED
      BY <2>2, <2>3, <2>4, <2>5, <2>6, <2>7, <2>8, <2>9
  <1> QED
    BY <1>0, <1>2, <1>3, <1>4

LEMMA TimersStep ==
  ASSUME SteadyTimers, TimersIInv, [Next]_vars PROVE TimersIInv'
  <1>1. CASE UNCHANGED vars
    <2>1. TypeOK' /\ HandlerInv'
      BY TypeStep DEF TimersIInv, TimersListed
    <2>2. UNCHANGED <<timers, alarm, armed, pc, handler, resume, next, wakeIn, cut>>
      BY <1>1 DEF vars, timerVars, loopVars
    <2>3. TimersListed' /\ ArmedInv'
      BY <2>1, <2>2 DEF TimersIInv, TimersListed, Listed, ArmedInv, Running
    <2>4. NextInv'
      BY <2>2 DEF TimersIInv, NextInv, Chosen
    <2> QED
      BY <2>1, <2>3, <2>4 DEF TimersIInv
  <1> QED
    BY <1>1, CallsTimers, TriggerTimers, HandlerReturnsTimers, TickTimers, OtherTimers
    DEF Next, Loop, Environment

LEMMA TimersInit == Init => TimersIInv
  <1> SUFFICES ASSUME Init PROVE TimersIInv
    OBVIOUS
  <1>1. TypeOK /\ HandlerInv
    BY InitType
  <1>2. armed = {} /\ timers = <<>> /\ pc = "out" /\ next = None
    BY DEF Init, TimerInit
  <1>3. Listed = {} /\ DOMAIN timers = {}
    BY <1>2 DEF Listed
  <1> QED
    BY <1>1, <1>2, <1>3 DEF TimersIInv, TimersListed, ArmedInv, NextInv

(* The timers are listed in order, whatever handlers of a steady program do *)
(* to their own and each other's timers.                                    *)
THEOREM TimersStayListed == SteadyTimers => (Spec => []TimersListed)
  <1> SUFFICES ASSUME SteadyTimers PROVE Spec => []TimersListed
    OBVIOUS
  <1>1. TimersIInv /\ [Next]_vars => TimersIInv'
    BY TimersStep
  <1>2. TimersIInv => TimersListed
    BY DEF TimersIInv
  <1> QED
    BY TimersInit, <1>1, <1>2, PTL DEF Spec

(* A timer of a steady program fires when its alarm has come (or a signal   *)
(* cut the sleep short), before all later ones, and not after a stop.       *)
LEMMA FiresInTurn ==
  ASSUME TimersIInv, SteadyTimers, [Next]_vars, NEW t \in TimerIds, Fires(t)
  PROVE  /\ t \in armed
         /\ alarm[t] <= 0 \/ cut
         /\ \A u \in armed : alarm[t] <= alarm[u]
  <1> USE DEF TimersIInv
  <1>1. "idle" \notin TimerIds /\ TimerIds \cap WatcherIds = {} /\ None \notin TimerIds
    BY AppLoopAssumption DEF Handlers
  <1>2. Alarms \/ Fire
    <2>1. current \in WatcherIds \cup {None}
      BY DEF TimersListed, TypeOK
    <2> QED
      BY <1>1, <2>1 DEF Fires, Next, Loop, Environment, vars, ProgramCalls, CallExec, CallProcess,
         ExecLoop, Top, Poll, Wait, Wake, Notify, TestEvent, Notified, HandlerReturns, End, Tick,
         Arrive, Interrupted, Goto, Return, RunHandler
  <1>3. /\ timers # <<>> /\ t = Head(timers)
        /\ alarm[t] <= 0 \/ cut
    <2>1. timers # <<>>
      BY <1>2, ListIsNotEmpty DEF Alarms, Fire
    <2>2. CASE Alarms
      <3>1. t = Head(timers) /\ ~AfterNow(t)
        BY <2>1, <2>2 DEF Alarms, Fires, Goto, RunHandler
      <3>2. alarm[t] \in Int /\ lag \in Nat
        BY DEF TimersListed, TypeOK, TimerTypeOK
      <3> QED
        BY <2>1, <3>1, <3>2 DEF AfterNow
    <2>3. CASE Fire
      <3>1. t = next /\ next # None /\ pc = "fire"
        BY <2>3 DEF Fire, Fires, Goto, RunHandler
      <3> QED
        BY <2>1, <3>1 DEF NextInv, Chosen
    <2> QED
      BY <1>2, <2>2, <2>3
  <1>4. /\ timers \in Seq(TimerIds) /\ Len(timers) \in Nat /\ DOMAIN timers = 1 .. Len(timers)
        /\ 1 \in DOMAIN timers /\ t = timers[1]
    BY <1>3, LenProperties, HeadTailProperties, EmptySeq DEF TimersListed, TypeOK, TimerTypeOK
  <1>5. t \in armed
    BY <1>4 DEF TimersListed, Listed
  <1>6. ASSUME NEW u \in armed PROVE alarm[t] <= alarm[u]
    <2>1. PICK i \in DOMAIN timers : u = timers[i]
      BY DEF TimersListed, Listed, Fires
    <2>2. alarm[t] \in Int
      BY DEF TimersListed, TypeOK, TimerTypeOK
    <2> QED
      BY <1>4, <2>1, <2>2 DEF TimersListed
  <1> QED
    BY <1>3, <1>5, <1>6

THEOREM TimersFireAsPromised == SteadyTimers => (Spec => TimersFireInTurn)
  <1> SUFFICES ASSUME SteadyTimers PROVE Spec => TimersFireInTurn
    OBVIOUS
  <1> DEFINE InTurn == \A t \in TimerIds : Fires(t) =>
                         /\ t \in armed
                         /\ alarm[t] <= 0 \/ cut
                         /\ \A u \in armed : alarm[t] <= alarm[u]
  <1>1. TimersIInv /\ [Next]_vars => TimersIInv'
    BY TimersStep
  <1>2. TimersIInv /\ [Next]_vars => InTurn
    BY FiresInTurn
  <1>3. TimersFireInTurn <=> [][InTurn]_vars
    BY PTL DEF TimersFireInTurn
  <1> HIDE DEF InTurn
  <1> QED
    BY TimersInit, <1>1, <1>2, <1>3, PTL DEF Spec

--------------------------------------------------------------------------------
(* The watchers. *)

LEMMA CallsWatchers ==
  ASSUME WatchersIInv, ProgramCalls PROVE WatchersIInv'
  <1> USE DEF WatchersIInv
  <1>0. TypeOK' /\ HandlerInv'
    BY CallsType
  <1>1. UNCHANGED <<pc, handler, resume, active, current, undefined>>
    BY DEF ProgramCalls
  <1>2. ASSUME UNCHANGED <<open, alive, torn>> PROVE ActiveInv' /\ NotifiesTheLiving'
    BY <1>1, <1>2 DEF ActiveInv, Notifying, NotifiesTheLiving
  <1> DEFINE h == IF pc = "out" THEN "main" ELSE handler
  <1>3. CASE TimerCall(h) \/ CallExit(h)
    BY <1>0, <1>2, <1>3 DEF TimerCall, CallExit, watchVars
  <1>4. CASE WatcherCall(h)
    <2>1. PICK w \in alive :
            \/ UNCHANGED <<open, alive, torn>>
            \/ open' = open \cup {w} /\ UNCHANGED <<alive, torn>>
            \/ /\ open' = open \ {w} /\ UNCHANGED alive
               /\ torn' = IF current = None THEN torn ELSE torn \cup {w}
            \/ /\ alive' = alive \ {w}
               /\ open' = IF w = current THEN open ELSE open \ {w}
               /\ torn' = IF current \in {None, w} THEN torn ELSE torn \cup {w}
      BY <1>4 DEF WatcherCall, Enable, Disable, Open, Close, Drop
    <2>2. Notifying => current # None
      BY AppLoopAssumption DEF ProgramCalls, TypeOK, HandlerInv, Notifying, Handlers
    <2>3. torn \subseteq torn'
      BY <2>1
    <2>4. open' \subseteq alive' \cup {current'}
      BY <1>1, <2>1 DEF ActiveInv
    <2>5. ASSUME Notifying' PROVE active' \subseteq ((open' \cap alive') \cup torn') \ {current'}
      <3>1. current # None /\ Notifying
        BY <1>1, <2>2, <2>5 DEF Notifying
      <3> QED
        BY <1>1, <2>1, <3>1 DEF ActiveInv
    <2>6. current' # None => current' \in open' \cup torn'
      BY <1>1, <2>1 DEF ActiveInv
    <2> QED
      BY <1>0, <1>1, <2>3, <2>4, <2>5, <2>6 DEF ActiveInv, NotifiesTheLiving
  <1> QED
    BY <1>3, <1>4 DEF ProgramCalls

LEMMA WatchersStep ==
  ASSUME WatchersIInv, [Next]_vars PROVE WatchersIInv'
  <1> USE DEF WatchersIInv, Goto, Return, RunHandler, loopVars, watchVars, ActiveInv, Notifying,
          NotifiesTheLiving
  <1>0. TypeOK /\ HandlerInv /\ TypeOK' /\ HandlerInv'
    BY TypeStep
  <1>a. None \notin WatcherIds
    BY AppLoopAssumption DEF Handlers
  <1>1. CASE ProgramCalls
    BY <1>1, CallsWatchers
  <1>2. CASE CallExec \/ (\E m \in WaitTimes : CallProcess(m)) \/ ExecLoop \/ Top \/ End
    BY <1>0, <1>2 DEF CallExec, CallProcess, ExecLoop, Top, End
  <1>3. CASE Alarms \/ Fire \/ HandlerReturns
    BY <1>0, <1>3 DEF Alarms, Fire, HandlerReturns, HandlerInv
  <1>4. CASE Poll
    <2>1. current = None
      BY <1>0, <1>4 DEF Poll, TypeOK
    <2>2. Selected \subseteq open /\ None \notin Selected
      BY <1>0, <1>a DEF Selected, TypeOK
    <2>3. ~undefined
      BY <1>a, <2>1 DEF TypeOK
    <2>4. UNCHANGED undefined /\ ~undefined'
      BY <1>4, <2>3 DEF Poll
    <2>5. /\ UNCHANGED <<open, alive, current>> /\ active' = Selected
      BY <1>4 DEF Poll
    <2> QED
      BY <1>0, <2>1, <2>2, <2>4, <2>5
  <1>5. CASE Wait \/ Wake \/ Interrupted
    BY <1>0, <1>5 DEF Wait, Wake, Interrupted
  <1>6. CASE Notify
    <2>1. CASE active = {}
      BY <1>0, <1>6, <2>1 DEF Notify
    <2>2. CASE active # {}
      <3>1. PICK w \in active :
              /\ active' = active \ {w} /\ current' = w /\ undefined' = (w \notin alive)
              /\ pc' = "test" /\ UNCHANGED <<open, alive, torn>>
        BY <1>6, <2>2 DEF Notify
      <3>2. active \subseteq (open \cap alive) \cup torn /\ current = None /\ open \subseteq alive
        BY <1>0, <1>6, <1>a DEF Notify, TypeOK
      <3>3. undefined' => current' \in torn'
        BY <3>1, <3>2
      <3> QED
        BY <1>0, <3>1, <3>2, <3>3
    <2> QED
      BY <2>1, <2>2
  <1>7. CASE TestEvent
    <2>1. /\ UNCHANGED <<open, alive, torn, active, current>>
          /\ undefined' => undefined \/ current \notin open
          /\ pc = "test" /\ (pc' = "test" \/ (pc' = "handler" /\ resume' = "test"))
      <3>1. undefined' => undefined \/ current \notin open
        BY <1>7 DEF TestEvent
      <3> QED
        BY <1>7, <3>1 DEF TestEvent
    <2>2. undefined' => current' \in torn'
      BY <1>0, <2>1 DEF TypeOK
    <2> QED
      BY <1>0, <2>1, <2>2
  <1>8. CASE ~undefined /\ Notified
    BY <1>0, <1>8, <1>a DEF Notified, TypeOK
  <1>9. CASE Tick \/ Arrive
    BY <1>0, <1>9 DEF Tick, Arrive
  <1>10. CASE UNCHANGED vars
    BY <1>0, <1>10 DEF vars
  <1> QED
    BY <1>1, <1>2, <1>3, <1>4, <1>5, <1>6, <1>7, <1>8, <1>9, <1>10 DEF Next, Loop, Environment

(* Whatever the handlers call: process() uses a destroyed watcher, or a     *)
(* descriptor of -1, only when a watcher's handler has torn it away in the  *)
(* same loop.                                                               *)
THEOREM TheLivingAreNotified == Spec => []NotifiesTheLiving
  <1>1. Init => WatchersIInv
    <2>1. Init => ActiveInv
      BY DEF Init, ActiveInv, Notifying
    <2>2. Init => NotifiesTheLiving
      BY DEF Init, NotifiesTheLiving
    <2> QED
      BY <2>1, <2>2, InitType DEF WatchersIInv
  <1>2. WatchersIInv /\ [Next]_vars => WatchersIInv'
    BY WatchersStep
  <1>3. WatchersIInv => NotifiesTheLiving
    BY DEF WatchersIInv
  <1> QED
    BY <1>1, <1>2, <1>3, PTL DEF Spec
================================================================================
