CONSTANTS
  Chars <- Letters
  Blank = " "
  NUL = "nul"
  MAX_CMD_LEN = 5
  MaxArgv = 4
  commands <- Table
SPECIFICATION FairSpec
INVARIANTS
  TypeOK
  BufferSealed
  EchoMatchesLine
  ArgvWellFormed
PROPERTIES
  ImplementsCommandLine
  PromptComesBack
\* panic() stops the kernel.
CHECK_DEADLOCK FALSE
