CONSTANTS
  p1 = p1  p2 = p2  c1 = c1  c2 = c2  a = a  b = b  c = c
  Threads = {p1, c1, c2}
  NoThread = NoThread
  Items = {a, b, c}
  NoItem = NoItem
  Conds <- OnlyNotEmpty
  Pri <- TwoLevels
  Program <- TwoPoppers
  FullRelease = FALSE
SPECIFICATION Spec
INVARIANT NoHoldAndWait
CHECK_DEADLOCK FALSE
