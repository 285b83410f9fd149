# Verification of libfinagle

libfinagle is a C++ class library: threads and queues, an application loop with timers
and descriptors, reference-counted objects, an XML tree, HTTP and sockets, files, logs,
containers and utilities. These modules specify its components in TLA+, check them with
TLC on small instances, and prove their main safety properties with TLAPS for all
instances: of the queues, the application loop, threads, singletons, locks, transfers,
sockets, addresses, files and logs. `PROJECT.json` maps every definition to the lines it
models and lists runs, hazards, findings and theorems. Paths below are relative to
`src/Finagle/`.

## 1. Inventory

| Part | State | Operations | What makes it hard | Correct when |
|---|---|---|---|---|
| Mutex, Lock | a recursive pthread mutex | lock, unlock | recursion | one owner; freed by the last unlock |
| WaitCondition | a Mutex and a `pthread_cond_t` | wait, wait(timeout), signalOne, signalAll | it locks itself again before it sleeps | a sleeper is woken, and keeps nothing |
| Queue | a deque, `_guard`, `_notEmpty` | push/pop at both ends, timed pops | producers and consumers race; two mutexes in both orders | a linearizable deque whose pops return when there is an item |
| SizedQueue | and `_capacity`, `_notFull` | blocking and timed pushes, capacity(n) | two conditions; unlocked capacity | never over capacity; both sides woken |
| PriorityQueue | a multimap, `_guard`, `_notEmpty` | push, pop, timed pop | as Queue | highest priority first, then oldest |
| Timer | `_nextAlarm`, `_period`, the shared sorted list | start, stop, restart, trigger | handlers change the list that is being walked | each alarm once, in order, none after stop |
| AppLoop, FileDescWatcher | `Exit`, the set `Active`, locals of process() | exec, exit, process, wait, enable, disable, fd | state read before handlers and used after them | timers and descriptors served; no dead object touched |
| Thread | `_running`, `_id`, `_exitVal` | start, run, join, stop | `_running` is unsynchronised | run once per start, joined once |
| PriorityMutex | an ordered list of locks | lock, unlock, setters, signals | handlers re-enter it | one owner, told of each gain and loss |
| ObjectPtr, ReferenceCount, GarbageCollector | counts, a list of trash | assign, ref, deref, collect | no atomicity; destruction inside handlers | freed exactly once, at the last reference |
| Singleton, Initializer | use count, instance | access, construct, destroy | static initialisation order | one instance while there are users |
| XML tree, parser | links `_prev`, `_next`, `_parent`, `_first`, `_last` | insert, remove, append, clear, call-backs | one relation stored in three classes | the links form one tree, in document order |
| HTTP, MultipartResponse | transfer, body, boundary, size | request, onBodyStart, onBodyFrag, result | fragments cut anywhere | same parts however the body is cut |
| Sockets | descriptor, error, buffers | connect, disconnect, send, receive, sync | errors between calls | state and descriptor agree |
| DateTime, DateTimeMask | the fields of a mask | parse, match, prev, next | calendar edges; each step resets the fields below it | the nearest match |
| Log | loggers, `_guard`, the base name and file of each | operator <<, +=, base | handlers log in the middle of a message; a file may not open | all logs tell one story |
| HTTP transfers | curl's handles, `_reqMap` | add, remove, onSelect, the signals of a Response | handlers destroy and start requests while messages are read | nobody destroyed is told; everyone is told once |
| Files, directories | the file system; a cached `_info` | sync, copy, erase, rename | system calls fail; the program may be killed between two | no partial file under a final name |
| Streams, compression | the buffer of a compressed file | open, put, sync, underflow; expect, find, quoted strings | tokens, escapes and put-backs across a refill | what is read is what was written |
| Option parser | the options' values, getopt's place | registration, parse, flags | options repeated, negated, refused; parse() called again | values are those given last |
| Addresses, URLs | `_url`, `_req`, `_name`, `_ip`: caches | setters, request, conversion; ip, name | a cache that outlives what it was made from | answers are current |
| Containers | lists of pairs, maps | insert, index, erase, find | keys and order are kept separately | order of insertion kept |
| MemTrace | a hash table of units, a reservoir, statistics | new, delete, malloc, realloc, free | two lists per unit; realloc moves units; allocation fails | every block accounted for |
| MD5 | bit count, accumulator, digest | fromMem, fromStream, finish, reset | pieces cut anywhere; a carry | a digest of the message alone |
| XML objects, strings, byte buffers, utilities, SSL | - | - | conversions | - |

How they interact. A queue owns a Mutex and one or two WaitConditions; threads
meet only there. `AppLoop::process` walks `AppLoop::Timers` and
`FileDescWatchable::Active` and calls handlers (boost signals), which may call
back into both. Sockets are FileDescWatchers, a GarbageCollector is a handler of
`AppLoop::idle`, and all objects are held by ObjectPtrs, so destruction happens
inside handlers as well. HTTP transfers and the parser are driven by call-backs
of libcurl and expat. The rest of the components serve the program and are used
by each other as values or one call at a time: a copy is digested by MD5, a log
writes through a stream, a request takes a URL, options and masks are strings.

## 2. Modules

| Module | Models | State and actions |
|---|---|---|
| `Mutex` | Mutex.h, Mutex.cpp | a value: owner and depth; `CanLock`, `Locked`, `Unlocked` |
| `WaitCondition` | WaitCondition.h, .cpp | the mutex before, during and after a wait; `AfterSignalOne` |
| `Monitor` | the lines that whenNotEmpty, ifNotEmpty, whenNotFull and ifNotFull share | a program counter per thread; one action per lock, unlock, wait, wake-up, test |
| `Queue` | Queue.h | extends Monitor with the deque; calls, functors, signal |
| `QueueSpec` | the abstract deque | Call, Push, Pop, Return |
| `SizedQueue` | SizedQueue.h | extends Queue: capacity, blocking pushes, poppers that signal |
| `PriorityQueue` | PriorityQueue.h, MultiMap::insert | extends Monitor with the ordered map |
| `Timer` | Timer.h, .cpp, List::insert | the sorted list; Start, Stop, TriggerBegins, TriggerEnds, Passes |
| `AppLoop` | AppLoop.cpp, FileDescWatcher | extends Timer with the program counter of process() and the handlers |
| `Thread` | Thread.h, .cpp, ThreadFunc.h | the fields, the owner's pc, where each pthread is in run(); every unlocked access is a step |
| `PriorityMutex` | PriorityMutex.h, .cpp | the list of locks, a stack of calls in progress; handlers call from inside |
| `ObjectPtr` | ObjectPtr.h, ReferenceCount.h, GarbageCollector.h | pointers, counts, a stack of assignments, destructors and collections |
| `Singleton` | Singleton.h, Initializer.h, Factory.h | loaded units, the use counts, the instance, a replacer's pc |
| `XMLTreeSpec`, `XMLTree` | XML/Node, NodeList, Element, Text, Iterator | the abstract forest; the five kinds of link, one action per method |
| `XMLDocument` | XML/Document | extends XMLTree: expat's stack, the open element; one action per call-back |
| `Socket` | Net/Socket, ServerSocket | descriptor, both buffers, what the kernel holds |
| `MultipartResponse` | Net/MultipartResponse | the parser's state over bodies of symbols; a fragment of any size |
| `Transfer` | Net/Transfer, Request, Response | what curl does with each request, what each has heard |
| `Addresses` | Net/URL, IPAddress | fields, caches, what they were made from |
| `Calendar` | DateTime, DateTimeMask | a mask, and the argument of the current call of prev() or next() |
| `AppLog` | AppLog.h, .cpp | the recursive mutex (instance of `Mutex`), calls of operator << per thread, the logs |
| `Containers` | OrderedMap, MultiMap, List, Map, Array | the lists of pairs; one action per operation |
| `Files` | File, Dir, the use of FilePath | two directories, the place in sync(); a system call a step, and Crash |
| `Streams` | StreamIO, Compress | file, buffer, position, the extractor that runs |
| `OptionParser` | OptionParser | command line, values, flags set, getopt's place |
| `MemTrace` | MemTrace.cpp | heap, units, table, reservoir, statistics |
| `MD5` | MD5.h, .cpp | bit count in two words, accumulator, the blocks digested |
| `Lists` | List::insert, MultiMap::insert, std::list::remove | insertion and removal, used by `Timer`, `PriorityQueue` and `PriorityMutex` |
| `ListLemmas` | - | what the operators of `Lists`, `Head`, `Tail` and `\o` do to elements, order and positions |
| `MonitorProofs` | - | the locks of `Monitor`, for all three queues |
| `QueueProofs`, `SizedQueueProofs`, `PriorityQueueProofs`, `AppLoopProofs` | - | theorems about the module of that name |
| `LifetimeProofs` | - | theorems about `Thread`, `ObjectPtr` and `Singleton` |
| `ComponentProofs` | - | theorems about `PriorityMutex`, `Transfer`, `Socket`, `Addresses`, `Files`, `AppLog`, `Containers`, `OptionParser`, `Streams` and `MultipartResponse` |
| `MCQueue`, `MCSizedQueue`, `MCPriorityQueue`, `MCAppLoop`, `MCLifetimes`, `MCComponents` | - | constants for TLC |

The four waiting functions differ only in their condition variable, in the test
they make and in what happens after a wait. `Monitor` has their steps once; its
header lists the statement behind each program counter, and `mode` tells the
functions apart. A step of a model is one statement that another thread can
observe. `empty()` and `full()` lock `_guard` around one read, so they are one
step that needs the lock to be free.

In `AppLoop` only handlers interleave with the loop. `pc = "handler"` is the
time inside a signal's emission, during which the handler makes any sequence of
the calls `Program` allows it, time passes and descriptors become ready.

### What is abstract

- Items are distinct tokens, pushed once each. Functors, assignments and handlers do not
  throw; pthread calls do not fail.
- A pop of an empty `std::deque` (or of an empty map), a use of a destroyed watcher, and
  `FD_ISSET( -1 )` are undefined behaviour: the model sets `undefined` and stops. An XML
  list that `clear()` has torn is not followed any further either (`torn` of `XMLTree`).
- `FullRelease` is a property of the C library. wait() locks the recursive mutex a
  second time (WaitCondition.h:60), and POSIX does not define what pthread_cond_wait
  does then. NPTL undoes one of the two locks (FALSE): the sleeper keeps the mutex.
  Other libraries undo both (TRUE). The theorems hold for both values.
- Times are relative to the clock, which makes time unbounded with finitely many states:
  `alarm[t]` is `_nextAlarm - Time::now()`, `lag` is `now - Now`, `since` is `now -
  startTime`.
- The second select() gets the sets that the first one has emptied (AppLoop.cpp:149,
  165), so it is a sleep; a negative WaitTime converted to unsigned (164) is either a
  failure or a wait of decades (`Forever`).
- process() called from inside a handler is not modelled.
- Where a component lets the program call it back, the model is the program that makes
  any of the calls it may: a lock's handlers lock and unlock, a destructor assigns
  pointers and adds to the trash, a transfer's handler destroys requests. Calls in
  progress are then a stack of frames.
- Data are what the properties tell apart: bytes are numbered in the order they were
  written, blocks of an MD5 are kept instead of mixed, a file is the version of each of
  its chunks, a body is a sequence of symbols, a URL has one field of each kind. MD5's
  words, the buffers, the calendar's years, months and hours have a length that is a
  parameter, as their edges are what matters.
- The C library, the kernel, zlib, curl, expat and getopt are modelled from their use: a
  call may do less than asked, or fail, wherever the code checks for it, and in `Files`
  also where it does not: a directory that cannot be opened or read, a stat(), a
  mkdir(), a close().
- History variables record what the code does not keep: `torn` of `AppLoop` (watchers
  that a watcher's handler closed or destroyed in the current loop over `active`),
  `cuts` of `MultipartResponse`, `excused` and `shortened` of `Files`, `assigned` of
  `OptionParser`. No guard reads them.

## 3. Runs

| Run | Instance | Shows |
|---|---|---|
| `queue_one_consumer` | 2 producers, 1 consumer, 2 items, both ends, timed pops, NPTL | the inductive invariant; no pop of an empty deque; the guard comes back; timed pops return; a sleeper at the time of a signal is woken; refinement of `QueueSpec` |
| `queue_lost_wakeup` | 1 + 1 | violated: "blocks until an item has been added" |
| `queue_racing_timed_pop` | 2 + 2 | violated: "func is not called" on an empty queue |
| `sized_queue` | 2 + 2, 3 items, capacities 1 and 2, all three kinds of push, timed and untimed pops | untimed pops find an item; FIFO order; a blocking push finds room; a timed one overshoots by one item at most |
| `sized_queue_sleeper` | 1 + 1 | violated: the pushes do not wake a sleeping consumer |
| `priority_queue` | 2 + 2, 3 entries of 2 priorities | pop finds an entry; priority, then age |
| `priority_queue_two_pops` | 1 + 2, NPTL | violated: the second consumer holds `_guard` while it waits for the first |
| `app_loop` | a recurring timer, a single shot, a socket, a pipe, one failing call; the socket's handler may close or destroy it, the pipe's destroy the socket | the list is sorted and complete; timers fire in turn; a dead watcher or a closed descriptor is used only if a watcher's handler made it so in the same loop; nothing starves; exit() ends exec() |
| `app_loop_hang_up` | the same | violated: a readable handler closes its own descriptor, as `Socket::receive` does, and `FD_ISSET( -1 )` is asked next |
| `app_loop_single_shot` | a single shot alone | violated: it fires twice |
| `lifetimes` | MCLifetimes: a Thread with 3 pthreads; 3 objects, 2 pointers and a collector that can hold all three objects; 2 code units | nothing is used after it was freed; stop() and join() return; trash is collected, also what destructors add while collect() is in the middle of the list; one instance while there are units |
| `components` | MCComponents: fifteen other components | see below |

MCLifetimes and MCComponents hold parts that do not call each other: the first
state of a behaviour chooses the `part` that runs and the others stay in their
first states, so the states add up instead of multiplying. What `components` shows
of each:

| Part | Instance | Property |
|---|---|---|
| lock | 3 locks of 2 priorities, 2 calls deep | `OwnerKnows`: one lock at a time believes it owns the mutex, and rightly; `NoOvertaking` |
| tree | 2 elements, 2 texts | `ImplementsTree`: refinement of `XMLTreeSpec`, linked alike from both ends, until a clear() tears a list |
| document | 3 elements, 2 texts | `ParsedInOrder`: elements are found in the order of their start tags, below the one that was open |
| socket | buffers of 2, 3 bytes each way | `StreamsInOrder`: no byte lost, repeated or of an earlier connection |
| multipart | 2 or 3 parts, up to 4 fragments | `PartsAsSent`, however the body is cut: all of them, exactly if no delimiter behind a text part was cut |
| transfer | 3 requests, 2 fragments | `EndsAreTold`, whatever handlers destroy |
| addresses | 2 values a field, 2 hosts, 2 numbers | `AnswersAreCurrent` |
| calendar | years of 3 months of 2 to 4 days, weeks of 3, 2 hours, 2 minutes; masks of up to 3 tokens | `NearestMatch` of what is returned, against a search over all times; `SearchAdvances`: each call of prev() and next() by itself is for an earlier or a later moment, but in the two cases of section 6 |
| log | 2 threads, a debug stream and a file, 3 messages, 1 nested | `LogsAgree`: same order in all logs, none lost |
| containers | 2 keys, 3 insertions | `OrderIsKept` |
| streams | a buffer of 2, strings with quotes, 2 of them | `ReadsBack` |
| memory | 4 addresses in 2 buckets, chunks of 2 units, 3 allocations | `BlocksAreAccounted`: table, lists and statistics agree with the heap |
| digest | blocks of 4 bytes, words of 64, messages of up to 11 | `DigestsTheMessage` |
| files | 2 names of which one changes, 2 versions, 2 seconds | `SyncKeepsWhole`: no file is a part or a mixture but a copy that lost its end when it was closed; true only if alike, but for what was passed over |
| options | an argument, a flag, 3 words, parse() called twice, defaults | `OptionsAsGiven` |

With several consumers and NPTL a queue soon stops in the deadlock of
`priority_queue_two_pops` (the code is the same). So `queue_one_consumer` has
`FullRelease = FALSE` and everything about one consumer, and races between
consumers, of the functions that `SizedQueue` takes over from `Queue`, are explored
in `sized_queue` with `TRUE`. Its items and its producers are alike (`SYMMETRY`),
which is sound as only invariants are checked there.

Bounds. Two producers and two consumers are every pair of roles that can race:
two of a kind for the same item or place, and one of each for a signal. Two or
three items fill a queue of capacity one or two and leave one to come; a timed
pop and a blocked one can wait at the same time. In `app_loop` a period of one
tick and one of two make alarms that are due together, before and after
`ProcessTime`, in both orders; `MaxLag = 1` lets every iteration fall behind
once, so alarms are also found late; `MaxErrors = 1` fails any one select() or
cuts any one sleep short. The items that remain bound a run of the queues, so a
thread without further calls may stop: deadlock is not checked there, and
stopping where something should happen is what the liveness properties exclude.

In `lifetimes` and `components` each bound leaves the smallest instance in which its
hazard happens: a third pthread after two that were joined or not, three objects in a
chain dropped by one assignment, an entry of the trash that is added while another is
erased and a third comes behind it, a buffer that a token of three crosses, a message
whose bit count leaves its low word before its last block, two buckets with two
addresses each and a chunk that runs out, a sync after a sync that was killed. In
`Files` names are treated alike, and only one of them changes at its source: the other
is there to be passed over, copied and purged. In the tree one element of three is left
untouched, for with four nodes there is already a list with a first, a middle and a
last. `Askable` of `Calendar` is a sample of the times of its two middle years; the
search it is compared with goes over all.

Fairness. A thread that can take its next step does so (the kernel schedules
it), and a timeout expires. Calls are never forced, there is no fairness among
threads that wait for the same mutex, and spurious wake-ups are not relied on.
In `AppLoop` the loop goes on, handlers return, and time passes; its liveness is
about loops that do not run into undefined behaviour. No handler is
made to call anything. In `Thread` a pthread runs on and the owner's calls go on,
but the owner need not make another. In `ObjectPtr` the library's steps of a call in progress go on,
and idle comes up again and again (AppLoop.cpp:157-162), strongly fair as other
calls come in between. That destructors end is the program's part: it is the
hypothesis of `TrashIsCollected`, not fairness. The other components state safety only.

## 4. What is proved

The theorems hold for all values of the constants that satisfy the named ASSUMEs,
which TLC evaluates in every run; the bounds of section 3 (items, starts, depth of
calls, versions) are arbitrary here. Each safety proof has the form Init => I,
I /\ [Next]_vars => I' and I => property, one step per action. The inductive
invariants I are defined beside the properties in the modules of the components.
They were checked by TLC before they were proved; `IInv` of `Queue` is in a run.

| Theorem | Module | Property | Invariant |
|---|---|---|---|
| `PopsAreSafe`, `FifoOrderHolds`, `PopsAreDefined`, `Implements` | QueueProofs | `PopsFindAnItem`, `FifoOrder`, `NoUndefinedPop`, `Linearizable` | `IInv` (`Invariance`, `TypeCorrect`) |
| `PushesHaveRoom`, `OvershootBounded`, `SizedPopsAreSafe` | SizedQueueProofs | `PushesFindRoom`, `OvershootAtMostOne`, `PopsFindAnItem` | `SizedIInv` |
| `PriorityOrder`, `PriorityPopsAreSafe` | PriorityQueueProofs | `OrderedByPriorityThenAge`, `PopsFindAnItem` | `IInv` of PriorityQueue |
| `TimersStayListed`, `TimersFireAsPromised` | AppLoopProofs | `TimersListed`, `TimersFireInTurn`, both if `SteadyTimers` | `TimersIInv` |
| `TheLivingAreNotified` | AppLoopProofs | `NotifiesTheLiving` | `WatchersIInv` |
| `ThreadsFreedAfterRun` | LifetimeProofs | `FreedAfterRun` | `ThreadIInv` |
| `ObjectsHeldWhileAlive` | LifetimeProofs | `HeldWhileAlive` | `PtrIInv` |
| `SingletonLivesWithItsUnits` | LifetimeProofs | `LivesWithItsUnits` | `SingletonIInv` |
| `PriorityOwnerKnows`, `PriorityNoOvertaking` | ComponentProofs | `OwnerKnows`, `NoOvertaking` | `PriorityIInv` |
| `TransfersAreTold` | ComponentProofs | `EndsAreTold` | `TransferIInv` |
| `SocketStreamsInOrder` | ComponentProofs | `StreamsInOrder` | the property itself |
| `AddressesAnswerCurrently` | ComponentProofs | `AnswersAreCurrent` | `AddressesIInv` |
| `FilesSyncKeepsWhole` | ComponentProofs | `SyncKeepsWhole` | `FilesIInv` |
| `AppLogsAgree` | ComponentProofs | `LogsAgree` | `LogIInv` |
| `ContainersKeepOrder` | ComponentProofs | `OrderIsKept` | `ContainersIInv` |
| `OptionsGetWhatIsGiven` | ComponentProofs | `OptionsAsGiven` | `OptionIInv` |
| `StreamsReadBack` | ComponentProofs | `ReadsBack` | `StreamsIInv`, `AllWritten`, `ReadInv` |
| `MultipartPassesOnWhatIsSent` | ComponentProofs | `PartsAsSent` | `MultipartIInv` |

### The queues

`MonitorProofs` proves that every step of the protocol keeps `MonitorInv`: each
mutex is held, once, by exactly the thread whose program counter is between its
lock and its unlock (`GuardInv`, `CondInv`), and the waiting lists name only
sleepers (`WaitersInv`). The proof takes one action at a time and needs
`FullRelease` only in `PcHoldingCond`. The three queues rest on it.

`Queue`. `IInv` is `TypeOK` with `MonitorInv`; `CallInv`, that a thread runs the
function it called, from which a functor knows its mode; `PopsFindAnItem`, which needs
mutual exclusion from `GuardInv`, since between the test and the functor nobody else may
change the deque; and `TimedPopsFindAnItem`, which holds with a single consumer, because
pushes only add. `PopsAreDefined` and `Implements` assume that timed pops are made only
where one thread consumes (`NoRacingTimedPop`): the run `queue_racing_timed_pop` shows
that this is needed. `Implements` maps each step to one of `QueueSpec`: the functor is
the point of linearization, a timed pop that gives up returns without an effect, all
else stutters.

`SizedQueue`. That no more than one item is ever above the largest capacity that
was in force needs `OnePastAtMost`. A push with a timeout lets `_guard` go between
its second full() and its functor, but keeps `_notFull`; so at most one push has
seen room that another may have taken, it finds at most `largest` items, and while
it waits for `_guard` whoever pushes has tested full() with `_guard` locked.

`PriorityQueue`. The order by age is that of `arrived`, the entries in the order of
their insertion. Each item is unused, with one pusher or once in the map
(`EachItemOnce`), so an entry that is inserted has no age yet, and InsertedBefore
puts it behind all entries of its priority.

### The application loop

The theorems about `AppLoop` hold for any timers, periods, watchers and failures,
`TheLivingAreNotified` for any program of the handlers, and those about timers for
any that satisfies `SteadyTimers`. Section 6 shows what happens without;
`MCAppLoop` assumes that its program satisfies it, so they are not void.

- `SteadyTimers`: a recurring timer's handlers do not start or stop it, idle
  handlers leave timers alone, and one recurring timer, started first, is never
  stopped. The last keeps the list from being empty while the loop runs; when it
  is empty `NextTimer` stays the timer that fired last (AppLoop.cpp:115-120). The first is
  what trigger() relies on when it lists the timer again (Timer.cpp:69).

`TimersIInv`: the list is sorted and holds each started timer once, except a
recurring one whose handlers run (`TimersListed`, `ArmedInv`); where the loop goes
on after a handler (`HandlerInv`); and from the choice of `NextTimer` to its use it
is the first of the list, with an alarm before the end of the sleep (`NextInv`).
`WatchersIInv`: the watchers of `active` not yet notified, and the one that is, are
alive and have a descriptor, or a watcher's handler has taken it from them in this
loop (`ActiveInv`, `torn`). Handlers of timers, of idle and the program run where
`active` is about to be made anew or is not used any more, and a watcher that its
own handler destroys is kept by the ConstPtr of AppLoop.cpp:187. What is left are
two cases: a handler that closes its own descriptor (`app_loop_hang_up`), and one
that destroys or closes another watcher that is still to be notified (section 6).

### Lifetimes

`ThreadIInv` distinguishes the programs of `threadProgram`: a thread that does not
stop itself has one pthread at most, whose `_id` is kept until it is joined
(`OnePthread`), and `_running` tells the owner of a poller whether there is one
(`PollerInv`), that of a worker whether exec() has ended (`WorkerInv`).

`PtrIInv` counts the references (`CountInv`): those of handles (`HandleRefs`), without
the ones that have let go of their object and are not yet set or destroyed; those
of the collector (`TrashRefs`), without the entry it is erasing; and two for each
assignment in progress, of its argument and of the `ref()` in `operator =`
(`ArgumentRefs`). `FramesInv` relates the frames to the objects: one that is dying
has one frame, a handle is assigned in one frame, and the object whose member
is assigned is alive. The last needs `SupportInv`: a destructor below may drop
whatever else holds that object, so it must be held, through a set of living
objects, by something that stays until the assignment has ended. The proof failed
at first, and TLC showed why with four objects: a destructor assigned a pointer
from which the object could be reached only through others. `Assignable` now
excludes this whole chain (section 6). `PtrIInv` and `HeldWhileAlive` were checked
with four objects without the liveness properties; with them such a run takes
too long, so `lifetimes` has three.

`SingletonIInv` makes both counts those of the loaded units and keeps the instance
a caller got apart from the one that a replacer frees.

### The components

- `PriorityMutex`. Handlers of LoseLock and GainLock call lock() and unlock() again
  while a call is in progress, so the invariant speaks of the stack of calls: the
  list has attached locks, once, by priority (`InLine`); a lock that is being
  unlocked has not been told otherwise since (`UnlocksInv`); an owner that
  was not told is the one that a call on the stack will tell (`ToldInv`). With an
  empty stack this is `OwnerKnows`.
- `Transfer`. Transfers that curl works on or has ended are in `_reqMap`, hence
  exist, and have not been told; a transfer whose end waits while nothing is read
  ended inside add().
- `Socket`. Lists of bytes are concatenated and cut: what was written is what is on
  the wire followed by the buffer, whatever the kernel takes.
- `Addresses`. What is cached was composed of the fields as they are, or is marked
  stale by one of the two cases that the property leaves out.
- `Files`. `TextsInv`: the source is whole, and so is every copy that has not lost
  its end at close() (`shortened`), with the source's text unless it is older or
  `excused`; so a copy that sync() skips by time and size is alike. `ProgressInv`:
  what sync() has done so far. An entry of the destination is still to do, excused,
  or as the source, through failures and a crash at any system call. A name is
  excused when sync() passes over it though there was something to do, because a
  listing, a stat() or a mkdir() failed unseen, or when its change does not show in
  time and size; a later copy ends that. It is the largest of these proofs, as each
  action changes an entry, the time of one, or what is left to do.
- `AppLog`. The calls in progress belong to the thread that has the recursive
  guard, as many as its depth, and only the innermost is delivering (`CallsInv`);
  a message on its way is the last of every log it is in and has missed none of the
  loggers before the current one (`OnItsWay`). So a nested message is complete in
  all logs before an outer one is given to the first.

- `Containers`. `OrderIsKept` is an action property: each step is followed from one
  list to the next by where an entry goes (`InsertedAt`, `InsertedBefore`, `Without`).
  The values are numbers of calls, so what is inserted now is newer than what is
  there, which `ContainersIInv` keeps.
- `OptionParser`. `SoFar` is the property for the words getopt has seen. A flag that
  was converted to bool has its negation's value, and an option whose operator ()
  was called with a default has the program's, hence the alternatives in its last
  conjunct.

- `Streams`. Three invariants. `AreaInv`: the area behind `g` is what the file holds
  at `pos`, and what an expect took and may put back lies in front of it. `AllWritten`:
  unless a write failed, the file, the area and what is still to put are the encodings
  of the inserted strings one behind the other (`LaidOut`). `ReadInv`: what was
  extracted are the first strings, and the position is where the next one begins, or
  behind as many symbols of its encoding as the extractor that runs has taken
  characters (`Within`). FlattenSeq, by which strings are encoded, is recursive:
  `Flattened` shows that it lays its sequences out.
- `MultipartResponse`. `Marks` says where each part begins in the body, and `InStep`
  relates the parser to it: what it holds and the fragment are the piece of the body
  from a known place (`Origin`: the data of the part in progress, or the break before
  the next delimiter) up to what was received. There find() finds exactly the end
  of the header (`HeaderFound`) and of the data (`DelimiterFound`). A text part
  that holds its data and more has a length that only a delimiter could have given, so
  it is never passed on; then a fragment ended inside its delimiter (`PartInProgress`),
  which is the exception in `PartsAsSent`. That nothing else is excepted is the other
  direction, `CutsSpared`: no fragment ended inside the delimiter of a text part that
  was passed on (`PassedOnUncut`: the part was found in one fragment, and earlier ones
  had ended before it). So all parts come exactly if no such delimiter was cut.
  The proof assumes that a body
  is shorter than a negative size_t (`MultipartAssumption`), so that a wrapped
  `want` takes the whole fragment, and that a length that is said is not 0, which the
  code reads as none (MultipartResponse.cpp:92).

`Lists` and `ListLemmas` hold what the proofs share: insertion and removal without
recursion, and which entries, in which order, the result has.

### What stays with TLC

- Liveness (`TimedPopReturns`, `SleeperIsWoken`, `GuardIsReleased`, `DueTimersFire`,
  `ReadyIsNotified`, `ExitEndsExec`, `StopReturns`, `TrashIsCollected`) and the
  refinement's fairness: beyond the prover.
- What is computed from data of any length, by recursion or by a fold: `NearestMatch` (a
  search over times), `DigestsTheMessage`, `BlocksAreAccounted` (lists linked through
  the heap), `ParsedInOrder` and `ImplementsTree` (walks over the tree). They need
  induction over data, and no installed prover can instantiate the library's theorems
  for it. `SearchAdvances` rests on the same arithmetic of dates. A single property can
  be proved by its least counterexample (`Flattened` does so); these would need that at
  every step.

## 5. Findings

Each is a violation run of section 3; `PROJECT.json` quotes the lines of the code
and those it contradicts.

- Queues: a lost wake-up, a timed pop of an empty deque, pushers that signal
  nobody, and two consumers that lock everybody out. The tests avoid all of them
  with sleeps ("Give parent thread a chance to block on the queue before we push to
  it", test/QueueTest.cpp:85).
- The loop: a single shot that fires twice, and a socket that is closed by its own
  handler.

Section 6 lists what else the code does that its comments, documentation or tests
do not say. Those cases are in the models, and the properties name them.

## 6. What the application loop asks of its program

`app_loop` passes for programs that keep a recurring timer, whose handlers start
and stop other timers, and whose idle handlers leave timers alone. Each condition
is needed. Changing one entry of `mcProgram` or of
the .cfg, TLC finds:

| Program | Property violated | Code |
|---|---|---|
| no recurring timer | `SingleShotFiresOnce`; with a watcher also `ReadyIsNotified` and, if an idle handler exits, `ExitEndsExec` | AppLoop.cpp:125, 162-164 |
| a recurring timer stops or starts itself | `TimersListed`, `TimersFireInTurn` | Timer.cpp:69-72 |
| an idle handler starts or stops a timer | `TimersFireInTurn` | AppLoop.cpp:125, 159, 177 |

Handlers may do anything to watchers. What goes wrong then is part of `app_loop`,
which ends where it is undefined: a handler that closes its own descriptor
(`app_loop_hang_up`), and one that destroys or closes another watcher that select()
reported with its own. `active` holds plain pointers (AppLoop.cpp:134), and line
187 makes a ConstPtr of one whose object is gone, or onSelect() asks FD_ISSET of -1.

An idle handler may destroy watchers, although `active` was built before it ran:
the loop over `active` is not reached after idle(), because the second select()
has nothing to report.

`process( maxTime )` reduces maxTime by the whole time since its start in every
iteration (AppLoop.cpp:196), so it returns earlier than its comment (98-99) says
when descriptors are busy; `exit()` before `exec()` is forgotten (68).

### What the other components ask of theirs

Each model states, in its header or a guard, what it takes from the program. The
code does not say so; without the condition the property of section 3 fails, or
the code does what is said here.

- `Thread`: an owner that destroys or starts again joins before, unless exec() runs
  until it is stopped. A thread that ends by itself lowers `_running`, and stop() then
  returns without a join (Thread.cpp:127).
- `PriorityMutex`: a handler leaves a lock alone whose unlock() is in progress
  (PriorityMutex.cpp:61), or two locks own the mutex; priority() is stored after the
  lock has been taken again (89-90).
- `ObjectPtr`: one thread; no cycles; a destructor does not use the pointer whose
  assignment destroys it, which still points at the object (ObjectPtr.h:233-236), nor
  assigns a pointer through which, directly or through other objects, the object is held
  whose member is being assigned: it would die in the middle of that call, and line 236
  would write to it. An object added to a GarbageCollector twice is never collected. The
  implicit assignment of ReferenceCount copies the count.
- `Singleton`: one thread replaces the instance, none uses it after the last unit. A
  unit that goes before the first use does not lower the count (Singleton.h:82): the
  instance is then never freed.
- XML: a node that is inserted has no parent; Node::insertBefore() unlinks nothing.
  `ImplementsTree` holds until clear() is called of an element in a list: it zeroes the
  element's own links (XML/Element.cpp:59, Node.cpp:111-116), and its parent and
  siblings go on pointing at it (`torn`). The copy of an element with three children or
  more mixes them up. `Text::clear()` hides `Node::clear()`, which would unlink. A
  NodeList without an element does not update `_last` after its second node. Text that
  is parsed goes to the document's list and not to the open element
  (XML/Document.cpp:141).
- `Socket`: isConnected() is true of any descriptor, also after fd() or a failed
  listen() (Net/Socket.h:96); errno is read after close() (Net/Socket.cpp:148).
- `MultipartResponse`: a text part whose delimiter is cut between two fragments is not
  found, and that part and all behind it are lost; `want` wraps (108). `PartsAsSent`
  says that parts are lost exactly then. The test that counts the text parts that a
  server sent (Net/test/MultipartResponseTest.cpp:82) is commented out (31).
- `Transfer`: a transfer that ends inside add() is told of only when another one is
  active (Net/Transfer.cpp:77); the timeouts of curl are not driven; a handler of a
  fragment runs inside curl and must not destroy a request; without saveBody and a slot
  a transfer is aborted by its first fragment (Net/Request.cpp:106).
- `Addresses`: param() leaves `_req`, and request() between two conversions leaves
  `_url`, as it was (Net/URL.h:154, URL.cpp:79). Names that do not resolve are equal to
  the nil address (Net/IPAddress.h:81).
- `Calendar`: a mask of a month shorter than the one asked from makes prev() call itself
  for ever: the last day of the month is asked for as the 31st, which mktime() carries
  into the next (DateTimeMask.cpp:141). A mask of a later year makes next() do so:
  DateTime( year() ) is a number of seconds, a moment in 1970 (188; `Epoch` in the
  model). A mask that no time matches never ends either, as years have no bound in the
  code. The model has all three; `NearestMatch` is about what is returned, and the first
  two are the exceptions that `SearchAdvances` names. A year 2000 is "any year"
  (DateTimeMask.h:87), and BadDateEx leaves a field set that was not valid (73).
- `AppLog`: loggers and base names are set while nothing is logged, since neither locks;
  a Logger logs nothing itself. An OpenEx clears the base name, later loggers miss the
  message (AppLog.cpp:185-188), and a bad stream stays bad.
- `Containers`: Map::insert keeps the old value where OrderedMap::insert replaces it;
  the non-const List::operator [] calls itself for ever (List.h:73-77).
- `Files`: the source does not change during a sync and holds no name that is another's
  with "tmp". A change within the second of the copy that keeps the size is missed (the
  FIX ME of File.cpp:138), and so is what an opendir(), readdir(), stat() or mkdir()
  that failed hides (Dir.cpp:198, 207, 156-157, 150): both are in the model, as
  `excused`. So sync() returns true when a directory could not be opened, though its
  comment says "matches" (Dir.cpp:146). An error of close() is not seen (File.cpp:128)
  and leaves a copy without its end: `shortened`. A crash between erase and rename
  leaves only the temporary file (File.h:308), until the next sync. FilePath::absolute()
  of "/.." empties its list and then reads its front.
- `Streams`: a second close() closes the file twice, as `_gzFile` is kept
  (Compress.cpp:84-93); a vain expect over a refill cannot put everything back
  (StreamIO.cpp:52, against 32); a quoted string without its end repeats the last
  character.
- `OptionParser`: short options are documented (OptionParser.cpp:38) and refused (92); a
  second parse() goes on behind the option that was refused; a negation wins over an
  option given after it when a flag is converted to bool, and does not count when it is
  read by operator (), as the documentation reads it (OptionParser.cpp:39, 46;
  OptionParser.h:144); the conversion changes what operator () answers afterwards
  (OptionParser.h:180), and operator () with a default replaces what was given.
- `MemTrace`: one thread, pointers of four bytes; wiping assumes four-byte longs
  (392-395). The assertions do not compile (1228). A unit is lost when the allocation
  fails after it was taken.
- `MD5`: fromStream() returns false at the end of a file, so that MD5( FilePath ) never
  finishes (MD5.h:118); MD5( Digest ) initialises itself from itself (100).
- Rectangle: width() and height() move both edges by half the difference, so that a
  rectangle at the border leaves the unit square (Rectangle.cpp:62-69), and left()
  clamps the old value (Rectangle.h:203).
- Collection::configure() stops at the first child that is refused, and String::format()
  uses a va_list twice (TextString.cpp:139-150).

## 7. Plan

Done: every component with state is modelled; the queues, the loop, threads,
object pointers, singletons, priority mutexes, transfers, sockets, addresses, files,
logs, containers, options, streams and multipart bodies are proved. To come:

1. Theorems: the steps of `ImplementsTree` that change links of two neighbours.
2. Composition: Transfer over AppLoop's descriptors, MultipartResponse over
   Transfer, Socket over FileDescWatcher.
3. Extensions: process() inside a handler and its duration; a SizedQueue whose
   capacity grows; FilePath::absolute over paths with "..".


## 8. Not modelled

- XML objects: conversions between elements and typed values.
- Strings and patterns: functions of characters over std::string and PCRE; a model
  would restate them character by character. Conversions of option values are in
  `OptionParser`.
- Byte buffers: DataStream.h, ByteOrder.h and FileSystem.h do not compile and are
  not included by anything; ByteArray is a vector.
- Utilities: Rectangle, Range, Velocimeter, UUID and the like compute on a few
  numbers. Property.h does not compile.
- SSL: a stream buffer over OpenSSL with the structure of Socket's.
- Within modelled components: failing pthread calls and functors that throw;
  summer time, seconds and the names of days; headers, forms and curl's timeouts;
  attributes and rendering of XML; MemTrace's log file and wiping; MD5's
  compression function.
