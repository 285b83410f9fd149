\* A recurring timer, a single shot, a socket and a pipe.
CONSTANTS
  recurring = recurring
  shot = shot
  socket = socket
  pipe = pipe
  None = None
  TimerIds = {recurring, shot}
  Repeating = {recurring}
  WatcherIds = {socket, pipe}
  Periods <- mcPeriods
  Watches <- mcWatches
  Program <- mcProgram
  FirstTimers = {recurring}
  ProcessTime = 1
  WaitTimes = {0}
  MaxLag = 1
  MaxErrors = 1
SPECIFICATION Spec
INVARIANTS TimersListed NotifiesTheLiving
PROPERTIES TimersFireInTurn DueTimersFire ReadyIsNotified ExitEndsExec
CHECK_DEADLOCK FALSE
