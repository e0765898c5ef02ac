SPECIFICATION FairSpec
CONSTANTS
  t1 = t1
  t2 = t2
  t3 = t3
  Threads = {t1, t2, t3}
  Main = t1
  Daemons = {t3}
  None = None
  MaxCalls = 2
INVARIANTS ExitAfterUsers CrashNeedsTwoStarts
PROPERTIES JoinEnds VMEnds
CHECK_DEADLOCK FALSE
