CONSTANTS
  Stubs <- KeyStub
  Halves <- OwnHalves
  ProgramRegs <- OwnRegs
  ProgramStack <- OwnStack
  ProgramFrame <- OwnFrame
  ProgramSegs <- OwnSegs
SPECIFICATION StubSpec
INVARIANT MicroResumesProgram
CHECK_DEADLOCK FALSE
