SPECIFICATION LSpec
CONSTANTS
  Programs <- AllPrograms
  FilesOf <- Files
  SortThreshold = 1
  Caller <- CallerOf
  MaxUses = 2
  Receivers <- ArraysAndClasses
  Instructions <- ThreeWords
INVARIANTS ParsedFaithfully NothingMovedIsRead BuiltFaithfully SlotsAreDistinct ParametersAgree
  TypesDecide MostDerivedIsLinked CacheIsTransparent
