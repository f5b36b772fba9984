--------------------------------- MODULE Ftl ---------------------------------
(***************************************************************************)
(* The flash translation layer with its mount: FMT_FormatNand takes the    *)
(* tables from the table block if they are clean and otherwise rebuilds    *)
(* them from the logic info and the ages of the blocks (nand_format.c).    *)
(* The power can fail at any time, during the mount too.                   *)
(***************************************************************************)
EXTENDS LogBlocks

CONSTANT StackBlk  \* what the entries of tmpBlkErase past the first can hold

\* The lines of pages of a block: a power of two on every chip of nand_id.c.
\* Three are searched alike, in small instances.
LineCnt == PageCnt \div Banks
ASSUME LineAssumption == LineCnt \in {3, 4, 8, 16, 32, 64, 128, 256, 512, 1024}
ASSUME StackAssumption == StackBlk # {} /\ StackBlk \subseteq Blk \cup {None}

VARIABLE scan  \* the next block of the scan, and what is left of tmpBlkErase

allVars == <<vars, scan>>
NoScan == [next |-> 0, left |-> 0]

(***************************************************************************)
(* _GetLastUsedPage: a binary search in the used group of a block.         *)
(***************************************************************************)
IsUsed(rec) == rec.status # FreeMark \/ rec.lpn # None
\* One turn of its loop over the group left, r.lo .. r.hi: pages are searched
\* line by line when they keep their bank; the last used page of the last used
\* line is the answer.
UsedOfLine(b, l) ==
  {k \in 0 .. Banks - 1 : IsUsed(flash[b][l * Banks + k])}
HalveLines(b, r) ==
  LET mid == (r.lo + r.hi) \div 2
      U == UsedOfLine(b, mid) IN
  IF r.lo > r.hi THEN r
  ELSE IF U = {} THEN [r EXCEPT !.hi = mid - 1]
  ELSE [r EXCEPT !.lo = mid + 1,
                 !.found = mid * Banks + CHOOSE k \in U : \A j \in U : j <= k]
\* Otherwise the answer is the page looked at last, used or not.
HalvePages(b, r) ==
  LET mid == (r.lo + r.hi) \div 2 IN
  IF r.lo > r.hi THEN r
  ELSE IF IsUsed(flash[b][mid]) THEN [r EXCEPT !.lo = mid + 1, !.found = mid]
  ELSE [r EXCEPT !.hi = mid - 1, !.found = mid]
Halve(b, r) == IF Align THEN HalveLines(b, r) ELSE HalvePages(b, r)
Group(n) == [lo |-> 0, hi |-> n - 1, found |-> 0]
\* The loop over n lines or pages ends after n turns or before.
Search(b, n) ==
  LET turn[k \in 0 .. n] ==
        IF k = 0 THEN Group(n) ELSE Halve(b, turn[k - 1])
  IN turn[n].found
\* Mutant: the last line is not searched.
LastUsedPageShort(b) == Search(b, LineCnt - 1)
LastUsedPage(b) == Search(b, IF Align THEN LineCnt ELSE PageCnt)

(***************************************************************************)
(* _FillBlkToZoneTbl: which of its blocks is the data block of a logical   *)
(* block, which the log block, and which has to be erased.                 *)
(***************************************************************************)
\* Mutant: ages are compared as they are.
CompareAgeNoWrap(a, b) == a - b
\* COMPARE_AGE: the difference as a signed number of the byte's width.
CompareAge(a, b) ==
  LET d == (a - b) % AgeCnt IN IF d < AgeCnt \div 2 THEN d ELSE d - AgeCnt

Verdict(newData, newLog, erase) ==
  [data |-> newData, log |-> newLog, erase |-> erase]
\* d, l: the data block and the log block so far (or None), n: the new block,
\* full: no item is left in the log block table.
Fill(d, l, n, full) ==
  IF d = None THEN Verdict(n, l, None)
  ELSE LET older == CompareAge(AgeOf(n), AgeOf(d)) IN
  CASE older = 0 ->
         IF LastUsedPage(n) > LastUsedPage(d)
         THEN Verdict(n, l, d) ELSE Verdict(d, l, n)
    [] older > 0 /\ AgeOf(n) = Older(AgeOf(d), 1) ->
         IF l # None
         THEN IF LastUsedPage(n) > LastUsedPage(l)
              THEN Verdict(d, n, l) ELSE Verdict(d, l, n)
         ELSE IF full THEN Verdict(d, l, n) ELSE Verdict(d, n, None)
    [] older > 0 /\ AgeOf(n) # Older(AgeOf(d), 1) -> Verdict(d, l, n)
    [] older < 0 /\ AgeOf(d) = Older(AgeOf(n), 1) ->
         IF l # None THEN Verdict(n, d, l)
         ELSE IF full THEN Verdict(n, None, d) ELSE Verdict(n, d, None)
    [] OTHER -> Verdict(n, l, d)

(***************************************************************************)
(* FMT_FormatNand                                                          *)
(***************************************************************************)
Mount(d, l, f) ==
  /\ data' = d /\ logs' = l /\ free' = f
  /\ op' = Idle
LoadTables ==
  /\ op = Off /\ saved.clean
  /\ Mount(saved.data, saved.logs, saved.free)
  /\ UNCHANGED <<flash, maps, ctl, saved, post, merge, scan>>
StartScan ==
  /\ op = Off /\ ~saved.clean
  /\ op' = Op("scan", None, None, "fill")
  /\ scan' = NoScan
  /\ UNCHANGED <<flash, tables, maps, ctl, saved, post, merge>>

\* _FillZoneTblInfo, one block.
ScanBlock(b) ==
  LET lb == flash[b][0].info
      verdict == Fill(data[lb], LogOf(lb).blk, b, ~HasLog(None))
      s == IF HasLog(lb) THEN SlotOf(lb) ELSE SlotOf(None) IN
  /\ op.kind = "scan" /\ op.step = "fill" /\ scan.next = b
  /\ IF lb = None THEN UNCHANGED <<flash, data, logs, op>>
     ELSE /\ data' = [data EXCEPT ![lb] = verdict.data]
          /\ logs' = IF verdict.log = None THEN logs
                     ELSE [logs EXCEPT ![s].lb = lb, ![s].blk = verdict.log]
          /\ IF verdict.erase = None THEN UNCHANGED <<flash, op>>
             ELSE Erase(verdict.erase) /\ GoTo("erase")
  /\ scan' = [next |-> b + 1, left |-> IF op'.step = "erase" THEN 3 ELSE 0]
  /\ UNCHANGED <<free, maps, ctl, saved, post, merge>>

\* The loop over tmpBlkErase goes on to entries that were never set.
EraseMore(b) ==
  /\ op.kind = "scan" /\ op.step = "erase"
  /\ flash' = IF b = None THEN flash ELSE [flash EXCEPT ![b] = ErasedBlk]
  /\ scan' = [scan EXCEPT !.left = @ - 1]
  /\ GoTo(IF b = None \/ scan.left = 1 THEN "fill" ELSE "erase")
  /\ UNCHANGED <<tables, maps, ctl, saved, post, merge>>

\* _RepairLogBlkTbl, _DistributeFreeBlk, _WriteBlkMapTbl.
Blank == {b \in Blk : flash[b][0].info = None}
Unset == {lb \in LogicBlk : data[lb] = None}
EndScan ==
  /\ op.kind = "scan" /\ op.step = "fill" /\ scan.next = BlkCnt
  /\ \E given \in [Unset -> Blank] :
       LET d == [lb \in LogicBlk |-> IF lb \in Unset THEN given[lb] ELSE data[lb]]
           l == [s \in Slot |->
                   IF logs[s].lb = None THEN logs[s]
                   ELSE [logs[s] EXCEPT !.last = LastUsedPage(logs[s].blk)]]
           f == Blank \ {given[lb] : lb \in Unset} IN
       /\ \A x, y \in Unset : given[x] = given[y] => x = y
       /\ Mount(d, l, f)
       /\ saved' = [clean |-> TRUE, data |-> d, logs |-> l, free |-> f]
  /\ scan' = NoScan
  /\ UNCHANGED <<flash, maps, ctl, post, merge>>

ScanStep ==
  \/ \E b \in Blk : ScanBlock(b)
  \/ \E b \in StackBlk : EraseMore(b)
  \/ EndScan
Next ==
  \/ (Call \/ Work) /\ UNCHANGED scan
  \/ PowerLoss /\ scan' = NoScan
  \/ LoadTables
  \/ StartScan
  \/ ScanStep

\* Every logical block has a data block with all its pages written and no log
\* block; the disk is not mounted.
DensePage(lb, p) == PageRecord(lb, p, IF p = 0 THEN 0 ELSE DataMark, Latest)
DenseBlk(b) ==
  IF b \in LogicBlk THEN [p \in Page |-> DensePage(b, p)] ELSE ErasedBlk
Init ==
  /\ flash = [b \in Blk |-> DenseBlk(b)]
  /\ data = NoTables.data /\ logs = NoTables.logs /\ free = NoTables.free
  /\ pool = [i \in Cached |-> NoEntry] /\ cur = 0
  /\ ctl = NoCtl
  /\ saved = [clean |-> TRUE, data |-> [lb \in LogicBlk |-> lb],
              logs |-> NoTables.logs, free |-> Blk \ LogicBlk]
  /\ op = Off /\ post = NoPost /\ merge = NoMerge
  /\ scan = NoScan

Spec == Init /\ [][Next]_allVars
\* There is one thread: a call or a scan that was begun goes on, whichever way
\* the choices the model leaves open are made, unless the power fails.
FairSpec == Spec /\ WF_allVars(Work /\ UNCHANGED scan) /\ WF_allVars(ScanStep)

-----------------------------------------------------------------------------
(***************************************************************************)
(* Properties                                                              *)
(***************************************************************************)
LogType == [lb : LogicBlk \cup {None}, blk : Blk \cup {None},
            last : Page \cup -Banks .. -1]
EntryType == [slot : Slot \cup {None}, dirty : BOOLEAN, map : Map]
Kinds == {"off", "scan", "idle", "read", "write", "exit"}
Steps == {"none", "fill", "erase", "lookup", "log", "victim", "info", "page",
          "place", "flush", "failed"}
TablesType(d, l, f) ==
  /\ d \in [LogicBlk -> Blk \cup {None}]
  /\ l \in [Slot -> LogType]
  /\ f \subseteq Blk
\* Every variable stays in its type.
TypeOK ==
  /\ FlashType
  /\ TablesType(data, logs, free)
  /\ pool \in [Cached -> EntryType] /\ cur \in Cached
  /\ ctl \in [lb : LogicBlk \cup {None}, data : Blk \cup {None},
              log : Blk \cup {None}]
  /\ saved.clean \in BOOLEAN /\ TablesType(saved.data, saved.logs, saved.free)
  /\ op \in [kind : Kinds, lb : LogicBlk \cup {None}, bank : BankSet \cup {None},
             step : Steps, again : BOOLEAN, slot : Slot \cup {None}]
  /\ post \in [slot : Slot \cup {None},
               step : {"idle", "find", "write", "merged", "read"}]
  /\ merge \in [kind : {"none", "swap", "simple", "move"},
                lb : LogicBlk \cup {None}, dst : Blk \cup {None},
                next : 0 .. PageCnt \cup {None},
                step : {"copy", "copied0", "erase"}]
  /\ scan \in [next : 0 .. BlkCnt, left : 0 .. 3]

Mounted == op.kind \in {"idle", "read", "write", "exit"}
InUse == {s \in Slot : logs[s].lb # None}
\* While the disk is mounted every block has one role: data block or log block
\* of one logical block, target of the merge, or free, and a free block is
\* erased.
OneRole ==
  Mounted =>
    /\ \A x, y \in LogicBlk : data[x] = data[y] => x = y
    /\ \A s, t \in InUse :
         logs[s].lb = logs[t].lb \/ logs[s].blk = logs[t].blk => s = t
    /\ \A lb \in LogicBlk : data[lb] \notin free
    /\ \A s \in InUse : logs[s].blk \notin free
    /\ \A s \in InUse, lb \in LogicBlk : logs[s].blk # data[lb]
    /\ \A b \in free : flash[b] = ErasedBlk
    /\ merge.dst \notin free
    /\ merge.kind \in {"simple", "move"} /\ merge.step # "erase" =>
         /\ \A lb \in LogicBlk : data[lb] # merge.dst
         /\ \A s \in InUse : logs[s].blk # merge.dst

\* No page is programmed twice between two erases of its block.
NoOverprogram ==
  [][\A b \in Blk : flash'[b] = ErasedBlk \/ \A p \in Page :
       flash[b][p] # Erased => flash'[b][p].lpn = flash[b][p].lpn
                            /\ flash'[b][p].status = flash[b][p].status]_allVars

\* The table of a slot, in memory or in the log block.
MapOf(s) ==
  IF \E i \in Cached : pool[i].slot = s
  THEN pool[CHOOSE i \in Cached : pool[i].slot = s].map ELSE StoredMap(s)
Find(lb, p) ==
  LET q == IF HasLog(lb) THEN MapOf(SlotOf(lb))[p] ELSE None IN
  IF q = None THEN flash[data[lb]][p] ELSE flash[LogOf(lb).blk][q]
\* Between calls the tables lead every logical page to the data last written
\* to it, whatever merges, table switches, exits and losses of power, with the
\* mounts after them, came before.
LatestFound ==
  op = Idle => \A lb \in LogicBlk, p \in Page : Find(lb, p).main = Latest

\* LastUsedPage of a log block is what it is called, after a mount that had to
\* look for it (_GetLastUsedPage) as well as after merges: no page behind it is
\* used, and it is used itself, unless it is a page 0 whose age is the free
\* mark.  While page 0 has only the logic info it does not count yet.
LastUsedFound ==
  Mounted /\ ~Merging /\ op.step # "place" => \A s \in InUse :
    /\ logs[s].last > 0 => IsUsed(flash[logs[s].blk][logs[s].last])
    /\ \A p \in Page : p > logs[s].last => ~IsUsed(flash[logs[s].blk][p])

\* A read gets the data last written to the page.
ReadsLatest ==
  op.kind = "read" /\ Ready("read", op.step) =>
    \A p \in Page : PageRead(p).main = Latest

\* A block that the tables name after a step of the scan is not erased by it:
\* only what _FillBlkToZoneTbl gave up is.
ScanSparesTables ==
  [][op.kind = "scan" => \A lb \in LogicBlk :
       data'[lb] # None => flash'[data'[lb]] = flash[data'[lb]]]_allVars

\* At its end a move merge has found a page of every bank: what the program
\* does when a bank has none is another matter (see LastTarget).
NoEmptyBank ==
  merge.kind = "move" /\ merge.next = Cardinality(Mapped(map)) /\ ~NeedsPage0
    => \A k \in BankSet : \E p \in Mapped(map) : BankOf(p) = k

\* Every call and every scan of the mount ends, however often a log block has
\* to be merged on the way, or the power fails.
CallsEnd == op.kind \in {"scan", "read", "write", "exit"} ~> op \in {Idle, Off}

\* No call fails as long as there are blocks for it.
CallsSucceed == op.step # "failed"

\* While the tables on flash count as clean they are the ones in memory, and
\* no page map table waits to be written.
CleanTablesCurrent ==
  Mounted /\ saved.clean =>
    /\ saved.data = data /\ saved.logs = logs /\ saved.free = free
    /\ \A i \in Cached : ~DirtyEntry(i)

\* A page map table in memory is what a rebuild from the spare areas of its
\* log block would give, and no slot has two.
MapsTrue ==
  Mounted /\ ~Merging =>
    /\ \A i \in Cached : pool[i].slot # None =>
         /\ pool[i].slot \in InUse
         /\ pool[i].map = Rebuilt(logs[pool[i].slot].blk)
    /\ \A i, j \in Cached :
         pool[i].slot = pool[j].slot /\ pool[i].slot # None => i = j

\* The blocks LogicalCtl remembers are those of the block it remembers.
ControlFresh ==
  op = Idle /\ ctl.lb # None => ctl = Accessed(ctl.lb)
=============================================================================
