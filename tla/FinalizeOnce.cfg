SPECIFICATION CollectorSpec
CONSTANTS
  main = main
  s = s
  f = f
  t = t
  Oops <- FinalizerHeap
  MainOop = main
  ThreadOops <- OneThread
  StringOops <- OneString
  Finalizable <- FinalizableObject
  NoOop = NoOop
  MaxFields = 1
  MaxStack = 2
  MaxStatics = 1
  MaxDeque = 2
INVARIANT FinalizeOnce
CHECK_DEADLOCK FALSE
