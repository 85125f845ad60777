CONSTANTS
  a = a
  b = b
  enter = enter
  backspace = backspace
  release = release
  Chars <- Letters
  Enter = enter
  Backspace = backspace
  Others <- Unmapped
  Space = space
  COLS = 2
  FirstRow = 3
  MaxKeys = 4
  Arguments <- Numbers
  Resumes <- Either
SPECIFICATION FairSpec
INVARIANTS
  TypeOK
  EveryInterruptHasItsGate
  EveryKeyAccounted
  OneHandlerAtATime
  FullBufferIsRequested
  EchoIsTyped
PROPERTY KeysAreRead
\* The machine halts for good once kernel_main and the typist are done.
CHECK_DEADLOCK FALSE
