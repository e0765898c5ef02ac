SPECIFICATION MonitorSpec
CONSTANTS
  t1 = t1
  t2 = t2
  m1 = m1
  m2 = m2
  Threads <- TwoThreads
  Monitors <- TwoMonitors
  None = None
  MaxDepth = 1
INVARIANT MutualExclusion
