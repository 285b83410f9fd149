\* Each component on its own; README, section 3.
CONSTANTS
  MaxStarts = 3
  Roots = {r1, r2}
  Null = Null
  MaxObjects = 3
  MaxFrames = 3
  MaxTrash = 3
  Units = {u1, u2}
  Users = {t1}
  Replacer = t0
  n1 = n1
  n2 = n2
  Names = {n1, n2}
  NameOf <- mcNameOf
  NoUnit = NoUnit
  MaxInstances = 3
SPECIFICATION mcSpec
INVARIANTS FreedAfterRun HeldWhileAlive LivesWithItsUnits
PROPERTIES StopReturns TrashIsCollected
\* Programs end, bounds are reached.
CHECK_DEADLOCK FALSE
