CONSTANTS
  Biosmaps <- AllMaps
  FailingCalls = {0, 1, 2, 3}
  e820_max_entries = 3
SPECIFICATION FairSpec
INVARIANTS WithinBuffer CountedAreDelivered WholeMapStored
PROPERTY Terminates
\* detect_memory has returned.
CHECK_DEADLOCK FALSE
