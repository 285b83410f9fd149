CONSTANTS
  p1 = p1  p2 = p2  c1 = c1  c2 = c2  a = a  b = b  c = c
  Threads = {p1, p2, c1}
  NoThread = NoThread
  Items = {a, b}
  NoItem = NoItem
  Conds <- OnlyNotEmpty
  Program <- OneConsumer
  FullRelease = FALSE
SPECIFICATION Spec
INVARIANTS IInv NoUndefinedPop
PROPERTIES GuardIsReleased TimedPopReturns SleeperIsWoken Linearizable
CHECK_DEADLOCK FALSE
