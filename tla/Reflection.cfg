SPECIFICATION FairSpec
CONSTANTS
  t1 = t1
  t2 = t2
  Threads = {t1, t2}
  None = None
  MaxCalls = 2
  MaxDepth = 2
  ClassFiles <- Files
  ArrayNames = {"[A", "[C", "[Object"}
  Above <- AboveOf
  Booted <- BootedNames
  Bytes <- ByteStrings
  TextOf <- Texts
  BucketOf <- HashOf
  CharArray = "[C"
  KindOf <- Kinds
  MemberInfo <- MembersOfA
  Calls <- AllCalls
  ClassInfo <- Classes
  FieldArray = "[Object"
  MethodArray = "[Object"
  ClassArray = "[Object"
  Parameter = "Object"
  ParameterArray = "[Object"
  Arg0 = "text"
  ObjectArray = "[Object"
  MethodType = "Object"
  MethodHandleNatives = "Object"
  SiteInfo <- OneSite
INVARIANTS OneObject PointsToLiving OneClassPerName
PROPERTY CallsEnd
CHECK_DEADLOCK FALSE
