SPECIFICATION FairSpec
CONSTANTS
  t1 = t1
  t2 = t2
  Base = Base
  Sub = Sub
  Threads = {t1, t2}
  Classes <- ClassSet
  Root = Base
  Super <- SuperOf
  Initialisers = {Base, Sub}
  ThreadClasses = {Sub}
  MaxUses = 2
INVARIANTS UsedInitialised RunsOnce
PROPERTIES WritesLast EveryUseEnds
CHECK_DEADLOCK FALSE
