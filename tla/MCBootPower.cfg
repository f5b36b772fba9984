CONSTANTS
  Func <- MCFunc
  NoFunc = NoFunc
  OpenFn = OpenFn
  CloseFn = CloseFn
  UsbFn = UsbFn
  OpenFlow <- MCOpenFlow
  CloseFlow <- MCCloseFlow
  MaxEvents = 2
SPECIFICATION Spec
CHECK_DEADLOCK FALSE
INVARIANTS TypeOK DistinctTimers FlowInOrder QuietAtEnd
PROPERTIES NoEarlyCallback DcOnlyUnanswered OpenEnds
