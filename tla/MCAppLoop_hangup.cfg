\* The program of app_loop: a socket's readable handler closes it.
CONSTANTS
  recurring = recurring
  shot = shot
  socket = socket
  pipe = pipe
  None = None
  TimerIds = {recurring, shot}
  Repeating = {recurring}
  WatcherIds = {socket, pipe}
  Periods <- mcPeriods
  Watches <- mcWatches
  Program <- mcProgram
  FirstTimers = {recurring}
  ProcessTime = 1
  WaitTimes = {0}
  MaxLag = 1
  MaxErrors = 1
SPECIFICATION Spec
INVARIANT TestsItsDescriptor
CHECK_DEADLOCK FALSE
