CONSTANTS
  Word = 32
  PageSize = 4
  KernelEnd = 6
  BootInfos <- HighRegion
SPECIFICATION Spec
INVARIANT PanicOnlyWhenShort
CHECK_DEADLOCK FALSE
