CONSTANTS
  p1 = p1  p2 = p2  c1 = c1  c2 = c2  a = a  b = b  c = c
  Threads = {p1, p2, c1, c2}
  NoThread = NoThread
  Items = {a, b, c}
  NoItem = NoItem
  Conds <- OnlyNotEmpty
  Program <- TwoConsumers
  FullRelease = FALSE
SPECIFICATION Spec
INVARIANT NoUndefinedPop
CHECK_DEADLOCK FALSE
