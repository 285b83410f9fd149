CONSTANTS
  p1 = p1  p2 = p2  c1 = c1  c2 = c2
  Threads = {p1, c1}
  NoThread = NoThread
  Items = {a, b, c}
  NoItem = NoItem
  Conds <- BothConds
  Program <- OneEach
  PushModes = {"when"}
  Capacities = {2}
  FullRelease = FALSE
SPECIFICATION SizedSpec
PROPERTY PopperIsWoken
CHECK_DEADLOCK FALSE
