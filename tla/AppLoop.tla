-------------------------------- MODULE AppLoop --------------------------------
(***************************************************************************)
(* Finagle::AppLoop: the single-threaded loop exec() and its iteration      *)
(* process( maxTime ), which fires Timers, polls the enabled                *)
(* FileDescWatchers with select(2), and emits `idle' when none is ready.    *)
(* The program counter follows process():                                   *)
(*                                                                          *)
(*   top      if ( Exit ) return;  Now = Time::now()                        *)
(*   alarms   fire the timers that were due at Now                          *)
(*   poll     build the fd_sets, select() with timeout 0                    *)
(*   wait     compute WaitTime, begin the second select() or sleep()        *)
(*   asleep   until it ends                                                 *)
(*   fire     NextTimer->trigger()                                          *)
(*   notify   the loop over `active'                                        *)
(*   test     the FD_ISSETs of one onSelect()                               *)
(*   end      maxTime -= Now - startTime                                    *)
(*                                                                          *)
(* The signals' handlers are the program: while pc = "handler" the handler  *)
(* named `handler' makes any of the calls Program lists for it, and         *)
(* `resume' says where the loop goes on.  The first select() leaves the     *)
(* fd_sets empty when it finds nothing, so the second one watches nothing.  *)
(***************************************************************************)
EXTENDS Timer, FiniteSets

CONSTANTS
  WatcherIds,   \* the FileDescWatcher objects
  None,         \* no timer, no watcher
  Watches,      \* Watches[w]: the signals of w that have a slot
  Program,      \* Program[h]: the calls <<function, object>> handler h makes
  FirstTimers,  \* the timers the program starts before it runs the loop
  ProcessTime,  \* exec()'s argument of process()
  WaitTimes,    \* the program's own arguments of process()
  MaxLag,       \* bound: how far one iteration falls behind the clock
  MaxErrors     \* bound: failed and interrupted system calls

Events == {"exception", "readable", "writable"}

TimerCalls == {"start", "stop"} \X TimerIds
WatcherCalls == {"enable", "disable", "open", "close", "drop"} \X WatcherIds
Calls == TimerCalls \cup WatcherCalls \cup {<<"exit", None>>}

Handlers == TimerIds \cup WatcherIds \cup {"idle"}

ASSUME AppLoopAssumption ==
  /\ None \notin Handlers /\ "idle" \notin TimerIds \cup WatcherIds
  /\ TimerIds \cap WatcherIds = {}
  /\ Watches \in [WatcherIds -> SUBSET Events]
  /\ Program \in [Handlers \cup {"main"} -> SUBSET Calls]
  /\ FirstTimers \subseteq TimerIds
  /\ ProcessTime \in Nat \ {0} /\ WaitTimes \subseteq Nat
  /\ MaxLag \in Nat /\ MaxErrors \in Nat

VARIABLES
  pc,         \* where the main thread is
  inExec,     \* process() was called by exec()
  Exit,       \* AppLoop::Exit
  next,       \* NextTimer
  handler,    \* the handler that runs
  resume,     \* where the loop goes on after it
  lag,        \* Time::now() - Now
  since,      \* Time::now() - startTime
  maxTime,    \* maxTime
  wakeIn,     \* what is left of the sleep
  watched,    \* FileDescWatchable::Active
  open,       \* the watchers whose _fd is not -1
  alive,      \* the watchers the program has references to
  torn,       \* those a watcher's handler closed, or destroyed while another
              \* one was notified, since `active' was built (history)
  active,     \* the local set `active', its remainder during notification
  isset,      \* the fd_sets as the first select() leaves them
  current,    \* the watcher in onSelect()
  tests,      \* the FD_ISSETs still to come there
  ready,      \* what the descriptors are ready for
  errors,     \* the system calls that failed so far
  cut,        \* the last sleep() was interrupted (history)
  undefined   \* TRUE after a use of a destroyed watcher, or FD_ISSET( -1 )

loopVars == <<inExec, next, maxTime, wakeIn, active, isset, current, tests, cut>>
watchVars == <<watched, open, alive, torn>>
vars == <<timerVars, pc, Exit, handler, resume, lag, since, loopVars, watchVars,
          ready, errors, undefined>>

Init ==
  /\ TimerInit
  /\ pc = "out" /\ inExec = FALSE /\ Exit = FALSE
  /\ next = None /\ handler = None /\ resume = "top"
  /\ lag = 0 /\ since = 0 /\ maxTime = 0 /\ wakeIn = 0
  /\ watched = WatcherIds /\ open = WatcherIds /\ alive = WatcherIds
  /\ torn = {} /\ active = {} /\ isset = {} /\ current = None /\ tests = <<>>
  /\ ready = {} /\ errors = 0 /\ cut = FALSE /\ undefined = FALSE

Return == IF inExec THEN "exec" ELSE "out"

Forever == 100

--------------------------------------------------------------------------------
(* The calls a handler makes, and the program outside of the loop. *)

TimerCall(h) ==
  /\ \/ \E t \in TimerIds : \E p \in Periods[t] : <<"start", t>> \in Program[h] /\ Start(t, p)
     \/ \E t \in TimerIds : <<"stop", t>> \in Program[h] /\ Stop(t)
  /\ UNCHANGED <<watchVars, isset, ready, Exit>>

Enable(w) == watched' = watched \cup {w} /\ UNCHANGED <<open, alive, torn, isset, ready>>

Disable(w) == watched' = watched \ {w} /\ UNCHANGED <<open, alive, torn, isset, ready>>

(* FileDescWatcher::fd( n ) and fd( -1 ).  A new descriptor is not ready;   *)
(* its number may be one that select() was not asked about, or one that a   *)
(* watcher has closed since.                                                *)
Open(w) ==
  /\ watched' = IF w \in open THEN watched ELSE watched \cup {w}
  /\ open' = open \cup {w}
  /\ \E v \in (WatcherIds \ open) \cup {None} :
       isset' = {r \in isset : r[1] # w} \cup
                {<<w, e>> : e \in {f \in Events : <<v, f>> \in isset}}
  /\ ready' = {r \in ready : r[1] # w}
  /\ UNCHANGED <<alive, torn>>

Close(w) ==
  /\ watched' = IF w \in open THEN watched \ {w} ELSE watched
  /\ open' = open \ {w}
  /\ torn' = IF current = None THEN torn ELSE torn \cup {w}
  /\ UNCHANGED <<alive, isset, ready>>

(* Mutant: the destructor does not disable(). *)
DropEnabled(w) ==
  /\ alive' = alive \ {w}
  /\ torn' = IF current \in {None, w} THEN torn ELSE torn \cup {w}
  /\ UNCHANGED <<watched, open, isset, ready>>

(* The program lets go of its reference: the watcher is destroyed at once,  *)
(* unless process() holds one while it is being notified.                   *)
Drop(w) ==
  /\ alive' = alive \ {w}
  /\ watched' = IF w = current THEN watched ELSE watched \ {w}
  /\ open' = IF w = current THEN open ELSE open \ {w}
  /\ torn' = IF current \in {None, w} THEN torn ELSE torn \cup {w}
  /\ UNCHANGED <<isset, ready>>

WatcherCall(h) ==
  /\ \E w \in alive :
       \/ <<"enable", w>> \in Program[h] /\ Enable(w)
       \/ <<"disable", w>> \in Program[h] /\ Disable(w)
       \/ <<"open", w>> \in Program[h] /\ Open(w)
       \/ <<"close", w>> \in Program[h] /\ Close(w)
       \/ <<"drop", w>> \in Program[h] /\ Drop(w)
  /\ UNCHANGED <<timerVars, Exit>>

CallExit(h) ==
  /\ <<"exit", None>> \in Program[h]
  /\ Exit' = TRUE
  /\ UNCHANGED <<timerVars, watchVars, isset, ready>>

ProgramCalls ==
  /\ pc \in {"out", "handler"}
  /\ LET h == IF pc = "out" THEN "main" ELSE handler
     IN  TimerCall(h) \/ WatcherCall(h) \/ CallExit(h)
  /\ UNCHANGED <<pc, handler, resume, lag, since, inExec, next, maxTime, wakeIn, active,
                 current, tests, cut, errors, undefined>>

CallExec ==
  /\ pc = "out"
  /\ FirstTimers \subseteq armed
  /\ Exit' = FALSE
  /\ pc' = "exec"
  /\ inExec' = TRUE
  /\ UNCHANGED <<timerVars, handler, resume, lag, since, watchVars, ready, errors,
                 undefined, next, maxTime, wakeIn, active, isset, current, tests, cut>>

(* process( m ), which is also what wait( m ) calls in the main thread. *)
CallProcess(m) ==
  /\ pc = "out"
  /\ FirstTimers \subseteq armed
  /\ pc' = "top"
  /\ inExec' = FALSE
  /\ maxTime' = m
  /\ since' = 0
  /\ UNCHANGED <<timerVars, Exit, handler, resume, lag, watchVars, ready, errors,
                 undefined, next, wakeIn, active, isset, current, tests, cut>>

--------------------------------------------------------------------------------
(* The loop. *)

Goto(label) == pc' = label

RunHandler(h, label) ==
  /\ pc' = "handler"
  /\ handler' = h
  /\ resume' = label

(* Mutant: exec() does not look at Exit. *)
ExecLoopForever ==
  /\ pc = "exec"
  /\ Goto("top")
  /\ maxTime' = ProcessTime
  /\ since' = 0
  /\ UNCHANGED <<timerVars, Exit, handler, resume, lag, inExec, next, wakeIn, active,
                 isset, current, tests, cut, watchVars, ready, errors, undefined>>

(* exec(): while ( !Exit ) process( ProcessTime ). *)
ExecLoop ==
  /\ pc = "exec"
  /\ Goto(IF Exit THEN "out" ELSE "top")
  /\ maxTime' = ProcessTime
  /\ since' = 0
  /\ UNCHANGED <<timerVars, Exit, handler, resume, lag, inExec, next, wakeIn, active,
                 isset, current, tests, cut, watchVars, ready, errors, undefined>>

Top ==
  /\ pc = "top"
  /\ \/ Exit /\ Goto(Return) /\ UNCHANGED <<lag, next, active, isset, cut>>
     \/ /\ ~Exit /\ Goto("alarms")
        /\ lag' = 0 /\ next' = None /\ active' = {} /\ isset' = {} /\ cut' = FALSE
  /\ UNCHANGED <<timerVars, Exit, handler, resume, since, inExec, maxTime, wakeIn,
                 current, tests, watchVars, ready, errors, undefined>>

AfterNow(t) == alarm[t] > -lag

(* NextTimer keeps its value when the list is found empty. *)
Alarms ==
  /\ pc = "alarms"
  /\ \/ timers = <<>> /\ Goto("poll") /\ UNCHANGED <<timerVars, handler, resume, next>>
     \/ /\ timers # <<>>
        /\ next' = Head(timers)
        /\ \/ AfterNow(next') /\ Goto("poll") /\ UNCHANGED <<timerVars, handler, resume>>
           \/ ~AfterNow(next') /\ TriggerBegins(next') /\ RunHandler(next', "alarms")
  /\ UNCHANGED <<Exit, lag, since, inExec, maxTime, wakeIn, active, isset, current,
                 tests, cut, watchVars, ready, errors, undefined>>

(* fds() of an enabled watcher puts its descriptor in a set if it has one   *)
(* and somebody listens.                                                    *)
Selected == {w \in watched : w \in open /\ Watches[w] # {}}

Poll ==
  /\ pc = "poll"
  /\ next' = IF next # None /\ alarm[next] + lag > maxTime THEN None ELSE next
  /\ active' = Selected
  /\ torn' = {}
  /\ isset' = {r \in ready : r[1] \in Selected /\ r[2] \in Watches[r[1]]}
  /\ \/ isset' # {} /\ Goto("notify") /\ UNCHANGED <<handler, resume, errors>>
     \/ isset' = {} /\ RunHandler("idle", "wait") /\ UNCHANGED errors
     \/ /\ Selected # {} /\ errors < MaxErrors
        /\ errors' = errors + 1 /\ Goto(Return) /\ UNCHANGED <<handler, resume>>
  /\ UNCHANGED <<timerVars, Exit, lag, since, inExec, maxTime, wakeIn, current, tests,
                 cut, watched, open, alive, ready, undefined>>

(* WaitTime counts from Now, whatever time the idle handlers have taken.  A *)
(* NextTimer that is not running makes it negative: sleep() then returns at *)
(* once, while select() gets unsigned( WaitTime ) seconds, decades, or an   *)
(* invalid timeval where that does not fit.                                 *)
WaitTime ==
  IF next = None THEN maxTime
  ELSE IF alarm[next] <= LongPast THEN LongPast ELSE alarm[next] + lag

Wait ==
  /\ pc = "wait"
  /\ \/ WaitTime >= 0 /\ wakeIn' = WaitTime /\ Goto("asleep") /\ UNCHANGED errors
     \/ WaitTime < 0 /\ active = {} /\ wakeIn' = 0 /\ Goto("asleep") /\ UNCHANGED errors
     \/ WaitTime < 0 /\ active # {} /\ wakeIn' = Forever /\ Goto("asleep") /\ UNCHANGED errors
     \/ /\ WaitTime < 0 /\ active # {} /\ errors < MaxErrors
        /\ errors' = errors + 1 /\ Goto(Return) /\ UNCHANGED wakeIn
  /\ UNCHANGED <<timerVars, Exit, handler, resume, lag, since, inExec, next, maxTime,
                 active, isset, current, tests, cut, watchVars, ready, undefined>>

Wake ==
  /\ pc = "asleep"
  /\ wakeIn = 0
  /\ Goto("fire")
  /\ UNCHANGED <<timerVars, Exit, handler, resume, lag, since, loopVars, watchVars, ready,
                 errors, undefined>>

(* A signal: select() fails, usleep() returns early and nobody notices. *)
Interrupted ==
  /\ pc = "asleep"
  /\ errors < MaxErrors
  /\ errors' = errors + 1
  /\ wakeIn' = 0
  /\ \/ active # {} /\ Goto(Return) /\ UNCHANGED cut
     \/ active = {} /\ Goto("fire") /\ cut' = TRUE
  /\ UNCHANGED <<timerVars, Exit, handler, resume, lag, since, inExec, next, maxTime,
                 active, isset, current, tests, watchVars, ready, undefined>>

(* The second select() had empty sets: its result is 0. *)
Fire ==
  /\ pc = "fire"
  /\ \/ next # None /\ TriggerBegins(next) /\ RunHandler(next, "fire")
     \/ next = None /\ Goto("end") /\ UNCHANGED <<timerVars, handler, resume>>
  /\ UNCHANGED <<Exit, lag, since, loopVars, watchVars, ready, errors, undefined>>

(* Mutant: one watcher is served in each iteration. *)
NotifyFirst ==
  /\ pc = "notify"
  /\ \/ active = {} /\ Goto("end") /\ UNCHANGED <<active, current, tests, undefined>>
     \/ \E w \in active :
          /\ active' = {}
          /\ current' = w
          /\ tests' = <<"exception", "readable", "writable">>
          /\ undefined' = (w \notin alive)
          /\ Goto("test")
  /\ UNCHANGED <<timerVars, Exit, handler, resume, lag, since, inExec, next, maxTime,
                 wakeIn, isset, cut, watchVars, ready, errors>>

(* The next watcher of `active', by its address; destroyed or not. *)
Notify ==
  /\ pc = "notify"
  /\ \/ active = {} /\ Goto("end") /\ UNCHANGED <<active, current, tests, undefined>>
     \/ \E w \in active :
          /\ active' = active \ {w}
          /\ current' = w
          /\ tests' = <<"exception", "readable", "writable">>
          /\ undefined' = (w \notin alive)
          /\ Goto("test")
  /\ UNCHANGED <<timerVars, Exit, handler, resume, lag, since, inExec, next, maxTime,
                 wakeIn, isset, cut, watchVars, ready, errors>>

(* One line of onSelect().  FD_ISSET( -1 ) is undefined: it aborts where    *)
(* the library checks it, and otherwise reads another descriptor's bit.     *)
TestEvent ==
  /\ pc = "test"
  /\ tests # <<>>
  /\ tests' = Tail(tests)
  /\ LET e == <<current, Head(tests)>>
         stray == current \notin open /\ \E r \in isset : r[2] = Head(tests)
     IN  \/ /\ e \in isset \/ stray
            /\ ready' = ready \ {e} /\ RunHandler(current, "test") /\ UNCHANGED undefined
         \/ /\ e \notin isset \/ current \notin open
            /\ undefined' \in {FALSE, current \notin open}
            /\ UNCHANGED <<pc, handler, resume, ready>>
  /\ UNCHANGED <<timerVars, Exit, lag, since, inExec, next, maxTime, wakeIn, active,
                 isset, current, cut, watchVars, errors>>

(* onSelect() returns, process() looks at Exit and lets go of the watcher.  *)
Notified ==
  /\ pc = "test"
  /\ tests = <<>>
  /\ Goto(IF Exit THEN Return ELSE "notify")
  /\ current' = None
  /\ \/ current \in alive /\ UNCHANGED <<watched, open>>
     \/ current \notin alive /\ watched' = watched \ {current} /\ open' = open \ {current}
  /\ UNCHANGED <<timerVars, Exit, handler, resume, lag, since, inExec, next, maxTime,
                 wakeIn, active, isset, tests, cut, alive, torn, ready, errors, undefined>>

(* The handlers of a signal return. *)
HandlerReturns ==
  /\ pc = "handler"
  /\ \/ handler \in TimerIds /\ TriggerEnds(handler)
     \/ handler \notin TimerIds /\ UNCHANGED timerVars
  /\ next' = IF resume = "fire" THEN None ELSE next
  /\ Goto(IF handler \in TimerIds /\ Exit THEN Return
          ELSE IF resume = "fire" THEN "end" ELSE resume)
  /\ handler' = None /\ resume' = "top"
  /\ UNCHANGED <<Exit, lag, since, inExec, maxTime, wakeIn, active,
                 isset, current, tests, cut, watchVars, ready, errors, undefined>>

End ==
  /\ pc = "end"
  /\ maxTime' = maxTime - (since - lag)
  /\ Goto(IF maxTime' <= 0 THEN Return ELSE "top")
  /\ UNCHANGED <<timerVars, Exit, handler, resume, lag, since, inExec, next, wakeIn,
                 active, isset, current, tests, cut, watchVars, ready, errors, undefined>>

Loop ==
  /\ ~undefined
  /\ \/ ExecLoop \/ Top \/ Alarms \/ Poll \/ Wait \/ Wake \/ Fire
     \/ Notify \/ TestEvent \/ Notified \/ HandlerReturns \/ End

--------------------------------------------------------------------------------
(* The clock.  One iteration falls behind by at most MaxLag, not counting   *)
(* the time it sleeps, no timer gets later than twice that, and the decades *)
(* of Forever do not pass.                                                  *)
Tick ==
  /\ \/ lag < MaxLag
     \/ pc = "asleep" /\ wakeIn \notin {0, Forever}
  /\ \A t \in TimerIds : alarm[t] <= LongPast \/ alarm[t] > -(2 * MaxLag)
  /\ Passes
  /\ lag' = lag + 1
  /\ since' = IF pc \in {"out", "exec"} THEN since ELSE since + 1
  /\ wakeIn' = IF wakeIn \in {0, Forever} THEN wakeIn ELSE wakeIn - 1
  /\ UNCHANGED <<pc, Exit, handler, resume, inExec, next, maxTime, active, isset,
                 current, tests, cut, watchVars, ready, errors, undefined>>

(* A descriptor becomes ready. *)
Arrive ==
  /\ \E w \in open : \E e \in Watches[w] : ready' = ready \cup {<<w, e>>}
  /\ UNCHANGED <<timerVars, pc, Exit, handler, resume, lag, since, loopVars, watchVars,
                 errors, undefined>>

Environment ==
  /\ ~undefined
  /\ \/ ProgramCalls
     \/ CallExec
     \/ \E m \in WaitTimes : CallProcess(m)
     \/ Tick
     \/ Arrive
     \/ Interrupted

Next == Loop \/ Environment

(* The thread that runs the loop is scheduled, handlers return, and time    *)
(* passes.                                                                  *)
Fairness == WF_vars(Loop) /\ WF_vars(~undefined /\ Tick)

Spec == Init /\ [][Next]_vars /\ Fairness

--------------------------------------------------------------------------------
PcS == {"out", "exec", "top", "alarms", "poll", "wait", "asleep", "fire", "notify",
        "test", "end", "handler"}

(* Every variable has its type, and process() holds a watcher exactly while *)
(* it is in its onSelect().                                                 *)
TypeOK ==
  /\ TimerTypeOK
  /\ pc \in PcS /\ inExec \in BOOLEAN /\ Exit \in BOOLEAN
  /\ next \in TimerIds \cup {None}
  /\ handler \in Handlers \cup {None} /\ resume \in PcS
  /\ lag \in Nat /\ since \in Nat /\ maxTime \in Int /\ wakeIn \in Nat
  /\ watched \subseteq WatcherIds /\ open \subseteq WatcherIds /\ alive \subseteq WatcherIds
  /\ torn \subseteq WatcherIds /\ active \subseteq WatcherIds /\ isset \subseteq WatcherIds \X Events
  /\ current \in WatcherIds \cup {None} /\ tests \in Seq(Events)
  /\ ready \subseteq WatcherIds \X Events
  /\ errors \in 0 .. MaxErrors /\ cut \in BOOLEAN /\ undefined \in BOOLEAN
  /\ pc = "handler" <=> handler # None
  /\ pc = "test" => current # None
  /\ current # None => pc \in {"test", "handler"}

(* The list process() takes the next alarm from holds every started timer   *)
(* once, in the order of their alarms, except the one whose handlers run    *)
(* (Timer.cpp:40-73 and List.h:119-128), through all that handlers do to    *)
(* their own and each other's timers.  The rest of the state has its type.    *)
Listed == {timers[i] : i \in DOMAIN timers}

TimersListed ==
  /\ TypeOK
  /\ \A i, j \in DOMAIN timers : i < j =>
       timers[i] # timers[j] /\ alarm[timers[i]] <= alarm[timers[j]]
  /\ Listed \subseteq armed
  /\ \A t \in armed \ Listed : pc = "handler" /\ handler = t

Fires(t) == pc # "handler" /\ pc' = "handler" /\ handler' = t

(* A timer fires after its alarm (or after a signal cut a sleep short), and *)
(* before every timer with a later one; one that was stopped in between     *)
(* does not fire, and a single shot fires once for each start               *)
(* (AppLoop.cpp:115-126 and 177-179).                                       *)
TimersFireInTurn ==
  [][\A t \in TimerIds : Fires(t) =>
       /\ t \in armed
       /\ alarm[t] <= 0 \/ cut
       /\ \A u \in armed : alarm[t] <= alarm[u]]_vars

(* The programs TimersFireInTurn is true of: the handlers of a recurring    *)
(* timer leave it running, the idle handlers start and stop no timer, and   *)
(* one of the recurring timers is started first and never stopped.          *)
Lasting ==
  {t \in FirstTimers \cap Repeating :
     \A h \in Handlers \cup {"main"} : <<"stop", t>> \notin Program[h]}

SteadyTimers ==
  /\ \A t \in Repeating : Program[t] \cap {<<"start", t>>, <<"stop", t>>} = {}
  /\ Program["idle"] \cap TimerCalls = {}
  /\ Lasting # {}

(* "Is there an alarm within the processing interval?" (AppLoop.cpp:124):   *)
(* what NextTimer stands for then is an alarm that is still to come, so a   *)
(* Timer::SingleShot (Timer.h:68) fires once for each start.                *)
SingleShotFiresOnce ==
  [][\A t \in TimerIds \ Repeating : Fires(t) => t \in armed]_vars

(* process() uses a destroyed watcher, or tests a descriptor of -1, only    *)
(* after the handler of a watcher has, in the same loop over `active', done *)
(* this to it (AppLoop.cpp:186-188, FileDescWatcher.cpp:75-77): the         *)
(* handlers of timers, those of `idle' and the program between two calls    *)
(* may close and destroy any watcher, and one's own handler may destroy it, *)
(* whatever `active' held.                                                  *)
NotifiesTheLiving == undefined => current \in torn

(* "This class watches (using select(2)) a particular file descriptor ...   *)
(* It is intended to be used for sockets" (FileDescWatcher.cpp:38-40): what *)
(* onSelect() asks about is the watcher's descriptor, whatever its readable *)
(* handlers do to a socket that the peer has closed.                        *)
TestsItsDescriptor == pc = "test" /\ tests # <<>> => current \in open

(* What the proofs carry along.  Who runs while the signals are emitted,    *)
(* and where the loop goes on:                                              *)
HandlerInv ==
  pc = "handler" =>
    \/ handler \in TimerIds /\ resume \in {"alarms", "fire"} /\ current = None
    \/ handler = "idle" /\ resume = "wait" /\ current = None
    \/ handler \in WatcherIds /\ resume = "test" /\ current = handler

(* A started timer is running, and one that recurs, and no other, stays     *)
(* armed while its handlers run without being listed.                       *)
ArmedInv ==
  /\ \A t \in armed : Running(t) /\ (t \notin Listed => t \in Repeating)
  /\ \A t \in Repeating : pc = "handler" /\ handler = t => t \in armed \ Listed
  /\ pc # "out" => Lasting \subseteq armed

(* From the moment it is chosen NextTimer is the first of the list, and its *)
(* alarm comes before the sleep ends.                                       *)
Chosen ==
  \/ pc \in {"poll", "wait", "asleep", "fire"}
  \/ pc = "handler" /\ resume = "wait"

NextInv ==
  next # None =>
    /\ Chosen => timers # <<>> /\ next = Head(timers)
    /\ pc = "asleep" => alarm[next] <= wakeIn \/ cut
    /\ pc = "fire" => alarm[next] <= 0 \/ cut

(* The watchers still to be notified are alive and have a descriptor, and   *)
(* so has the one that is being notified, but for those a watcher's handler *)
(* has torn away.                                                           *)
Notifying == pc \in {"notify", "test"} \/ (pc = "handler" /\ resume = "test")

ActiveInv ==
  /\ open \subseteq alive \cup {current}
  /\ Notifying => active \subseteq ((open \cap alive) \cup torn) \ {current}
  /\ current # None => current \in open \cup torn

TimersIInv == TimersListed /\ HandlerInv /\ ArmedInv /\ NextInv

WatchersIInv == TypeOK /\ HandlerInv /\ ActiveInv /\ NotifiesTheLiving

(* While the loop runs, a timer that is due fires, or is stopped or started *)
(* anew: neither busy descriptors nor other timers keep it waiting for      *)
(* ever.                                                                    *)
Looping == inExec /\ ~Exit /\ ~undefined

DueTimersFire ==
  \A t \in TimerIds :
    Looping /\ t \in armed /\ alarm[t] <= 0
      ~> ~Looping \/ t \notin armed \/ alarm[t] > 0 \/ (pc = "handler" /\ handler = t)

(* While the loop runs, a descriptor that is ready reaches its handler if   *)
(* its watcher stays enabled, although the select() that waits is given     *)
(* empty sets (AppLoop.cpp:149-165).                                        *)
ReadyIsNotified ==
  \A w \in WatcherIds : \A e \in Watches[w] :
    Looping /\ <<w, e>> \in ready /\ w \in Selected
      ~> ~Looping \/ <<w, e>> \notin ready \/ w \notin Selected

(* exit(), called by any handler, ends exec() (AppLoop.cpp:71-74).          *)
ExitEndsExec == inExec /\ Exit ~> pc = "out" \/ undefined
================================================================================
