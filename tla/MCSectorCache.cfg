CONSTANTS
  SectorCnt = 6
  SectorsPerPage = 2
  EntryCnt = 2
  CounterWrap = 3
  Value = {0, 1}
  Blank = 0
  Devs = {0}
  MaxRequest = 2
  Watched = {2, 3}
SPECIFICATION Spec
INVARIANTS TypeOK OneEntryPerPage ReadCacheFresh FlushDevFlushesAll
PROPERTIES MediumMovesForward ImplementsDisk
