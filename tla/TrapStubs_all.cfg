CONSTANTS
  Stubs <- AllStubs
  Halves <- OwnHalves
  ProgramRegs <- OwnRegs
  ProgramStack <- OwnStack
  ProgramFrame <- OwnFrame
  ProgramSegs <- OwnSegs
SPECIFICATION StubSpec
INVARIANTS
  RegistersRestored
  ResumesProgram
  HandlerSeesFrame
\* A program that is not resumed where it was is not interrupted again.
CHECK_DEADLOCK FALSE
