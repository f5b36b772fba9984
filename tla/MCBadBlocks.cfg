CONSTANTS
  Blk = {b1, b2, b3, b4}
  None = None
  LogicBlk = {l1, l2}
  NoData = NoData
  PageCnt = 4
  Banks = 2
  MaxFails = 3
SYMMETRY Symmetry
SPECIFICATION Spec
INVARIANTS TypeOK KeepsWritten WasteBounded
PROPERTIES CallsAdvance
