CONSTANTS
  p1 = p1  p2 = p2  c1 = c1  c2 = c2
  Threads = {p1, p2, c1, c2}
  NoThread = NoThread
  Items = {a, b, c}
  NoItem = NoItem
  Conds <- BothConds
  Program <- Workers
  PushModes = {"when", "if", "try"}
  Capacities = {1, 2}
  FullRelease = TRUE
SPECIFICATION SizedSpec
SYMMETRY Alike
INVARIANTS PopsFindAnItem FifoOrder PushesFindRoom OvershootAtMostOne
CHECK_DEADLOCK FALSE
