CONSTANTS
  MessageLengths = {5, 75}
  FileLengths = {12}
  LineLengths = {3}
  Frames = {1, 2}
  MaxActivations = 3
SPECIFICATION FairSpec
INVARIANTS OneReport MessageReadable
PROPERTY Settles
\* Every activation bound to come has halted or spins.
CHECK_DEADLOCK FALSE
