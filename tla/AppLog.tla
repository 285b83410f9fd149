--------------------------------- MODULE AppLog ---------------------------------
(***************************************************************************)
(* The application log: operator << holds a recursive mutex while the       *)
(* handlers of the signal Msg, which may log themselves, and then every     *)
(* Logger get the message.  A LogToFile opens its file on the first one.    *)
(*                                                                          *)
(* What the code asks of its program: loggers are made and base() is called *)
(* while nothing is logged, and a Logger logs nothing (README, section 6).  *)
(***************************************************************************)
EXTENDS Integers, Sequences, FiniteSets

CONSTANTS
  Writers, NoWriter,      \* threads
  Streams, FileLoggers,   \* the loggers: LogToStream and LogToFile
  Debug,                  \* the loggers that were made with debug
  MaxMessages,            \* bound: messages logged
  MaxNested               \* bound: handlers that log, one in the other

ASSUME AppLogAssumption ==
  /\ Streams \cap FileLoggers = {} /\ Debug \subseteq Streams \cup FileLoggers
  /\ NoWriter \notin Writers /\ MaxMessages \in Nat /\ MaxNested \in Nat

Guard == INSTANCE Mutex WITH Threads <- Writers, NoThread <- NoWriter

VARIABLES
  guard,       \* AppLog::_guard
  loggers,     \* AppLog::_loggers
  logging,     \* per thread, its calls of operator <<: [msg, debug, at], the innermost last;
               \* at = 0: the handlers of Msg run; at = i: loggers[i] gets the message
  messages,    \* messages logged so far
  base,        \* the LogToFile's that have a base name
  open,        \* those that have an open file
  failed,      \* loggers whose stream went bad: nothing clears it
  log,         \* per logger, the messages it has written
  told         \* messages whose operator << returned, and that no thrown exception kept
               \* from a logger

logVars == <<guard, loggers, logging, messages, base, open, failed, log, told>>
outVars == <<base, open, failed, log>>

Loggers == Streams \cup FileLoggers
Latest(t) == logging[t][Len(logging[t])]
NewEntry(debug) == [msg |-> messages + 1, debug |-> debug, at |-> 0]
Attached == {loggers[i] : i \in DOMAIN loggers}

LogInit ==
  /\ guard = Guard!Free /\ loggers = <<>>
  /\ logging = [t \in Writers |-> <<>>] /\ messages = 0
  /\ base = FileLoggers /\ open = {} /\ failed = {}
  /\ log = [l \in Loggers |-> <<>>] /\ told = {}

(* Logger::Logger() and base( b ), while nothing is logged *)
NewLogger(l) ==
  /\ guard = Guard!Free /\ l \notin Attached /\ loggers' = Append(loggers, l)
  /\ UNCHANGED <<guard, logging, messages, outVars, told>>

SetBase(l, b) ==
  /\ guard = Guard!Free
  /\ base' = b /\ {l} = (base \ b) \cup (b \ base) /\ open' = open \ {l}
  /\ UNCHANGED <<guard, loggers, logging, messages, failed, log, told>>

(* Mutant: the guard is not waited for. *)
MayEnterAtOnce(t) == TRUE

MayEnter(t) == Guard!CanLock(guard, t)

(* operator <<, from outside or from a handler of Msg *)
CallLog(t, debug) ==
  /\ messages < MaxMessages /\ messages' = messages + 1
  /\ logging[t] # <<>> => Latest(t).at = 0 /\ Len(logging[t]) <= MaxNested
  /\ MayEnter(t) /\ guard' = Guard!Locked(guard, t)
  /\ logging' = [logging EXCEPT ![t] = Append(@, NewEntry(debug))]
  /\ UNCHANGED <<loggers, outVars, told>>

NextLogger(t) == logging' = [logging EXCEPT ![t][Len(logging[t])].at = @ + 1]

HandlersReturn(t) ==
  /\ logging[t] # <<>> /\ Latest(t).at = 0 /\ NextLogger(t)
  /\ UNCHANGED <<guard, loggers, messages, outVars, told>>

WritesTo(t, l) ==
  IF (Latest(t).debug /\ l \notin Debug) \/ l \in failed
    THEN UNCHANGED <<failed, log>>
    ELSE \/ log' = [log EXCEPT ![l] = Append(@, Latest(t).msg)] /\ UNCHANGED failed
         \/ failed' = failed \cup {l} /\ UNCHANGED log

(* onMsg() of the next logger *)
OnMsg(t) ==
  /\ logging[t] # <<>> /\ Latest(t).at \in DOMAIN loggers
  /\ LET l == loggers[Latest(t).at]
     IN  \/ l \in FileLoggers \ (open \cup base) /\ UNCHANGED <<open, failed, log>>
         \/ l \in FileLoggers /\ l \in base \ open /\ open' = open \cup {l} /\ WritesTo(t, l)
         \/ l \in Streams \cup open /\ UNCHANGED open /\ WritesTo(t, l)
  /\ NextLogger(t) /\ UNCHANGED <<guard, loggers, messages, base, told>>

(* The file cannot be opened: OpenEx ends this call and those it is nested in *)
(* up to a handler that catches it.                                           *)
OpenFails(t) ==
  /\ logging[t] # <<>> /\ Latest(t).at \in DOMAIN loggers
  /\ LET l == loggers[Latest(t).at]
     IN  l \in base \ open /\ base' = base \ {l}
  /\ \E n \in 0..(Len(logging[t]) - 1) :
       /\ logging' = [logging EXCEPT ![t] = SubSeq(@, 1, n)]
       /\ guard' = IF n = 0 THEN Guard!Free ELSE [guard EXCEPT !.depth = n]
  /\ UNCHANGED <<loggers, messages, open, failed, log, told>>

LogReturns(t) ==
  /\ logging[t] # <<>> /\ Latest(t).at = Len(loggers) + 1
  /\ logging' = [logging EXCEPT ![t] = SubSeq(@, 1, Len(@) - 1)]
  /\ guard' = Guard!Unlocked(guard)
  /\ told' = told \cup {[msg |-> Latest(t).msg, debug |-> Latest(t).debug, loggers |-> Attached]}
  /\ UNCHANGED <<loggers, messages, outVars>>

LogNext ==
  \/ \E l \in Loggers : NewLogger(l)
  \/ \E l \in FileLoggers : \E b \in SUBSET FileLoggers : SetBase(l, b)
  \/ \E t \in Writers :
       \/ \E debug \in BOOLEAN : CallLog(t, debug)
       \/ HandlersReturn(t) \/ OnMsg(t) \/ OpenFails(t) \/ LogReturns(t)

PositionIn(l, m) == {i \in DOMAIN log[l] : log[l][i] = m}

(* All the logs tell one story: a message is in a log once at most, any two   *)
(* messages that two logs have are in the same order in both, although the    *)
(* handlers log in the middle of a message and other threads meanwhile, and a *)
(* message that was logged is in every stream that went well.                 *)
LogsAgree ==
  /\ \A l, k \in Loggers : \A i, j \in DOMAIN log[l] :
       i < j => \A p \in PositionIn(k, log[l][i]), q \in PositionIn(k, log[l][j]) : p < q
  /\ \A m \in told : \A l \in (m.loggers \cap Streams) \ failed :
       (m.debug => l \in Debug) => PositionIn(l, m.msg) # {}

--------------------------------------------------------------------------------
(* LogsAgree with what makes it inductive (ComponentProofs). *)

LogSpec == LogInit /\ [][LogNext]_logVars

Calls == [msg : Nat, debug : BOOLEAN, at : Nat]
Has(l, m) == PositionIn(l, m) # {}

LogTypeOK ==
  /\ loggers \in Seq(Loggers) /\ guard \in Guard!MutexStates
  /\ logging \in [Writers -> Seq(Calls)] /\ messages \in Nat
  /\ base \subseteq FileLoggers /\ open \subseteq FileLoggers /\ failed \subseteq Loggers
  /\ log \in [Loggers -> Seq(Nat)]

(* The calls are those of the thread that has the guard, as often as it has   *)
(* it, of different messages, and all but the innermost are in the handlers.  *)
CallsInv ==
  /\ \A i, j \in DOMAIN loggers : loggers[i] = loggers[j] => i = j
  /\ guard.owner = NoWriter => guard.depth = 0
  /\ \A t \in Writers : IF guard.owner = t THEN guard.depth = Len(logging[t]) /\ guard.depth > 0
                                           ELSE logging[t] = <<>>
  /\ \A t \in Writers : \A i \in DOMAIN logging[t] :
       /\ logging[t][i].msg <= messages /\ logging[t][i].at <= Len(loggers) + 1
       /\ i < Len(logging[t]) => logging[t][i].at = 0
       /\ \A j \in DOMAIN logging[t] : logging[t][i].msg = logging[t][j].msg => i = j

(* A message that is on its way is the newest one of every log it is in,      *)
(* those of the loggers it was given to so far, and has missed none of them.  *)
OnItsWay(call) ==
  /\ \A l \in Loggers : \A p \in PositionIn(l, call.msg) :
       p = Len(log[l]) /\ \E j \in DOMAIN loggers : j < call.at /\ loggers[j] = l
  /\ \A j \in DOMAIN loggers :
       /\ j < call.at /\ loggers[j] \in Streams \ failed
       /\ call.debug => loggers[j] \in Debug
       => Has(loggers[j], call.msg)

LogIInv ==
  /\ LogTypeOK /\ CallsInv /\ LogsAgree
  /\ \A l \in Loggers : \A i \in DOMAIN log[l] : log[l][i] <= messages
  /\ \A t \in Writers : \A i \in DOMAIN logging[t] : OnItsWay(logging[t][i])
================================================================================
