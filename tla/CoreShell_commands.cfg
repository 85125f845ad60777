CONSTANTS
  HexWidth = 6
  Memory <- Bytes
  Arguments <- ArgumentLists
  TickCounts <- Ticks
  Garbage <- Leftovers
SPECIFICATION Spec
INVARIANTS
  HexdumpShowsMemory
  UptimeAddsUp
