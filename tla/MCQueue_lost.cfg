CONSTANTS
  p1 = p1  p2 = p2  c1 = c1  c2 = c2  a = a  b = b  c = c
  Threads = {p1, c1}
  NoThread = NoThread
  Items = {a, b, c}
  NoItem = NoItem
  Conds <- OnlyNotEmpty
  Program <- OneBlockingConsumer
  FullRelease = FALSE
SPECIFICATION Spec
PROPERTY BlocksUntilAdded
CHECK_DEADLOCK FALSE
