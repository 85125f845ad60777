CONSTANTS
  Word = 32
  PageSize = 4
  KernelEnd = 6
  BootInfos <- MapsBelowTopPage
SPECIFICATION FairSpec
INVARIANTS
  TypeOK
  WalkOnEntries
  LargestRegionChosen
  StatsConsistent
  UsedMatchesOwned
  PagesBetweenKernelAndEnd
  PagesAreUsableRam
PROPERTIES
  InitTerminates
  ImplementsPageAllocator
\* panic() stops the kernel.
CHECK_DEADLOCK FALSE
