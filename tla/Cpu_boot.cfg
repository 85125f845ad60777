CONSTANTS
  Lines <- SomeLines
  Frequencies <- SomeFrequencies
  Pages = 4
SPECIFICATION Spec
INVARIANTS IrqReachesItsGate NoIrqBeforeKmain PagingIsIdentity
\* kmain has called everything, or the processor has reset or faulted.
CHECK_DEADLOCK FALSE
