CONSTANTS
  BlkCnt = 3
  PageCnt = 6
  LogicCnt = 1
  AgeCnt = 6
  SlotCnt = 1
  CacheCnt = 1
  Banks = 2
  Align = TRUE
  Written <- ThreePages
  OldAges <- AnyAge
  StackBlk <- NoStackBlk
CONSTRAINT NoEmptyBank
SPECIFICATION Spec
INVARIANTS TypeOK LatestFound LastUsedFound
PROPERTIES NoOverprogram
