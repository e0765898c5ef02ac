SPECIFICATION FinalizerSpec
CONSTANTS
  t1 = t1
  f = f
  o1 = o1
  Threads = {t1, f}
  Main = t1
  Daemons = {f}
  None = None
  Brief <- WholeHandshake
  MaxNest = 0
  Runner = f
  Objects = {o1}
  MaxQueue = 2
PROPERTIES StopAttemptEnds ParkedResumes FinalizerServes ShutdownEnds
CHECK_DEADLOCK FALSE
