CONSTANTS
  a = a
  b = b
  enter = enter
  backspace = backspace
  release = release
  Chars <- Letters
  Enter = enter
  Backspace = backspace
  Others = {}
  Space = space
  COLS = 2
  FirstRow = 3
  MaxKeys = 1
  Arguments <- AsBuilt
  Resumes <- Never
SPECIFICATION FairSpec
PROPERTY EnabledKeyboardIsRead
\* The machine halts for good once kernel_main and the typist are done.
CHECK_DEADLOCK FALSE
