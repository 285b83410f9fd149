\* A single shot alone: it fires twice.
CONSTANTS
  recurring = recurring
  shot = shot
  socket = socket
  pipe = pipe
  None = None
  TimerIds = {shot}
  Repeating = {}
  WatcherIds = {}
  Periods <- mcPeriods
  Watches <- mcWatches
  Program <- mcProgram
  FirstTimers = {shot}
  ProcessTime = 1
  WaitTimes = {}
  MaxLag = 1
  MaxErrors = 0
SPECIFICATION Spec
PROPERTY SingleShotFiresOnce
CHECK_DEADLOCK FALSE
