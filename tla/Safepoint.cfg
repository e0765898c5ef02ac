SPECIFICATION Spec
CONSTANTS
  t1 = t1
  t2 = t2
  t3 = t3
  Threads <- ThreeThreads
  Main = t1
  Daemons <- OneDaemon
  None = None
  Brief <- LeaveOnly
  MaxNest = 2
INVARIANTS WorldStopped GuardedNativeIsSafe
PROPERTY ImplementsStopTheWorld
CHECK_DEADLOCK FALSE
