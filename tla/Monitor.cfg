SPECIFICATION FairSpec
CONSTANTS
  t1 = t1
  t2 = t2
  m1 = m1
  m2 = m2
  Threads <- TwoThreads
  Monitors <- TwoMonitors
  None = None
  MaxDepth = 2
INVARIANTS OneMonitor NothingIsLeaked ExclusionWithoutWait
PROPERTY EnterSucceeds
