SPECIFICATION Spec
CONSTANTS
  ByteBits = 2
  ShortBits = 3
  IntBits = 4
  LongBits = 8
  Floats <- ThreeFloats
  NaN = NaN
  Fields <- OneOfEach
  MaxLocals = 3
  Literals <- FewConstants
  Lookups <- ThreeLookups
  Tables <- TwoTables
  InitialFrames <- Frames
  InitialArrays <- TwoElements
  InitialFields <- FieldContents
INVARIANT HalvesTogether
PROPERTY ImplementsJavaOperands
CHECK_DEADLOCK FALSE
