SPECIFICATION Spec
CONSTANTS
  a = a
  b = b
  Oops <- TwoOops
  Prim = Prim
  None = None
  Undefined = Undefined
  Size = 4
  Methods <- FourMethods
  MaxFrames = 3
  MaxLocals = 2
  MaxOperands = 2
INVARIANT ReadableIsAlive
PROPERTY ImplementsJavaFrames
CHECK_DEADLOCK FALSE
