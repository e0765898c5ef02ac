SPECIFICATION CollectorSpec
CONSTANTS
  main = main
  s = s
  f = f
  t = t
  Oops <- ThreadHeap
  MainOop = main
  ThreadOops <- TwoThreads
  StringOops <- OneString
  Finalizable <- FinalizableThread
  NoOop = NoOop
  MaxFields = 1
  MaxStack = 2
  MaxStatics = 1
  MaxDeque = 1
INVARIANTS NoDangling TraceTouchesLive PoolIsAlive FlagsAreClear GarbageIsFreed
CHECK_DEADLOCK FALSE
