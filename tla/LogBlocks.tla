------------------------------ MODULE LogBlocks ------------------------------
(***************************************************************************)
(* The logic layer of the NAND driver while it is mounted: LML_PageRead    *)
(* and LML_PageWrite (logic_ctl.c), log blocks (mapping_base.c), their     *)
(* page map tables and the cache of these (mapping.c), and the merges that *)
(* turn log blocks into data blocks (merge.c).                             *)
(*                                                                         *)
(* A logical block has a data block and at most one log block that takes   *)
(* its writes.  The layers call each other:                                *)
(*    read, write, exit  ->  switch the page map  ->  merge a log block    *)
(*    write              ->  merge a log block                             *)
(* and the innermost active one takes the next step, which does at most    *)
(* one operation of the flash, so that the power can fail between any two. *)
(***************************************************************************)
EXTENDS NandFlash

CONSTANTS SlotCnt,   \* LOG_BLK_CNT_OF_ZONE
          CacheCnt,  \* PAGE_MAP_TBL_CACHE_CNT
          Banks,     \* INTERLEAVE_BANK_CNT
          Align,     \* SUPPORT_ALIGN_NAND_BNK
          Written,   \* bound: the <<logical block, page>> that get writes
          OldAges    \* bound: the ages of data blocks that get writes

ASSUME SlotAssumption == SlotCnt \in Nat \ {0} /\ CacheCnt \in Nat \ {0}
ASSUME BankAssumption ==
  Banks \in 1 .. PageCnt /\ PageCnt % Banks = 0 /\ Align \in BOOLEAN
\* Page numbers are __u16, also that of a line behind the last one.
ASSUME PageNumberAssumption == PageCnt + Banks < 65536
ASSUME WrittenAssumption == 
  Written \subseteq LogicBlk \X Page /\ OldAges \subseteq 0 .. AgeCnt - 1

Slot == 0 .. SlotCnt - 1
Cached == 0 .. CacheCnt - 1

VARIABLES data,   \* DATA_BLK_TBL
          logs,   \* LOG_BLK_TBL: logical block, physical block, LastUsedPage
          free,   \* FREE_BLK_TBL, as a set
          pool,   \* PAGE_MAP_CACHE_POOL: LogBlkPst, DirtyFlag, PageMapTbl
          cur,    \* PAGE_MAP_CACHE, as an index of the pool
          ctl,    \* LogicalCtl: LogicBlkNum, DataBlkNum, LogBlkNum
          saved,  \* the tables in the table block, and if they are clean
          op,     \* the call in progress
          post,   \* the page map switch in progress
          merge   \* the merge in progress

tables == <<data, logs, free>>
maps == <<pool, cur>>
vars == <<flash, data, logs, free, pool, cur, ctl, saved, op, post, merge>>

\* The __u16 of a page number.  LastUsedPage itself is kept as a number from
\* -Banks on: -1 is 0xffff, the mark of an empty log block.
U16(n) == n % 65536

NoLog == [lb |-> None, blk |-> None, last |-> None]
NoEntry == [slot |-> None, dirty |-> FALSE, map |-> EmptyMap]
NoCtl == [lb |-> None, data |-> None, log |-> None]
\* bank: the bank of the page to be written.  Which page a call is for is left
\* open until the code first depends on it.  slot: the item a victim has left
\* for the log block to be made.
Op(kind, lb, bank, step) ==
  [kind |-> kind, lb |-> lb, bank |-> bank, step |-> step, again |-> FALSE,
   slot |-> None]
Idle == Op("idle", None, None, "none")
Off == Op("off", None, None, "none")
NoPost == [slot |-> None, step |-> "idle"]
NoMerge == [kind |-> "none", lb |-> None, dst |-> None, next |-> None,
            step |-> "copy"]

Merging == merge # NoMerge
Switching == ~Merging /\ post # NoPost
Ready(kind, step) ==
  /\ ~Merging /\ post = NoPost
  /\ op.kind = kind /\ op.step = step
GoTo(step) == op' = [op EXCEPT !.step = step]

\* _GetLogBlkPst
HasLog(lb) == \E s \in Slot : logs[s].lb = lb
SlotOf(lb) == CHOOSE s \in Slot : logs[s].lb = lb
LogOf(lb) == IF HasLog(lb) THEN logs[SlotOf(lb)] ELSE NoLog

map == pool[cur].map
Mapped(m) == {p \in Page : m[p] # None}
AgeOf(b) == flash[b][0].status

\* The bank a page has to stay in.
BankOf(p) == IF Align THEN p % Banks ELSE 0
BankSet == {BankOf(p) : p \in Page}
WrittenBanks == {<<w[1], BankOf(w[2])>> : w \in Written}

\* BMM_SetDirtyFlag: what the table block holds is not used any more.
NoTables == [clean |-> FALSE, data |-> [lb \in LogicBlk |-> None],
             logs |-> [s \in Slot |-> NoLog], free |-> {}]
\* Mutant: the tables stay marked as clean.
NoDirtyFlag == saved' = saved
SetDirtyFlag == saved' = NoTables

(***************************************************************************)
(* Merges                                                                  *)
(***************************************************************************)
\* _get_page_map_tbl_info: every page of the log block is in its own place.
\* A LastUsedPage of 0xffff, or near it, makes the second test fail.
InOrder(lb) ==
  /\ \A p \in Mapped(map) : map[p] = p
  /\ LogOf(lb).last >= 0
  /\ Cardinality(Mapped(map)) >= LogOf(lb).last + 1

MergeKind(mode, lb) ==
  IF InOrder(lb) THEN "swap"
  ELSE IF /\ mode = "special"
          /\ Cardinality(Mapped(map)) < PageCnt \div (Banks + 1)
       THEN "move" ELSE "simple"

\* LML_MergeLogBlk.  A swap needs no block, the others take a free one: the
\* erase counts decide which, here any.
CanMerge(mode, lb) == MergeKind(mode, lb) = "swap" \/ free # {}
\* Mutant: the target of the merge is still free.
StartMergeKeepsFree(mode, lb) ==
  LET kind == MergeKind(mode, lb) IN
  \E b \in IF kind = "swap" THEN {LogOf(lb).blk} ELSE free :
    /\ merge' = [kind |-> kind, lb |-> lb, dst |-> b, step |-> "copy",
                 next |-> IF kind = "swap" THEN LogOf(lb).last + 1 ELSE 0]
    /\ UNCHANGED free
StartMerge(mode, lb) ==
  LET kind == MergeKind(mode, lb) IN
  \/ /\ kind = "swap"
     /\ merge' = [kind |-> kind, lb |-> lb, dst |-> LogOf(lb).blk,
                  next |-> LogOf(lb).last + 1, step |-> "copy"]
     /\ UNCHANGED free
  \/ \E b \in free :
       /\ kind # "swap"
       /\ merge' = [kind |-> kind, lb |-> lb, dst |-> b,
                    next |-> 0, step |-> "copy"]
       /\ free' = free \ {b}

\* PHY_PageCopyback
Copy(src, sp, dst, dp) == Program(dst, dp, flash[src][sp])
\* _copy_page0: page sp with the age and the logic info of its block's page 0.
CopyPage0(src, sp, dst, plus) ==
  Program(dst, 0, [flash[src][sp] EXCEPT !.info = flash[src][0].info,
                                         !.status = Older(AgeOf(src), plus)])
NextPage == merge' = [merge EXCEPT !.next = @ + 1]
CopyDone == merge.step = "copy" /\ merge.next = PageCnt
\* Mutant: the merged log block's map stays in the cache.
KeepCurMap == pool' = [pool EXCEPT ![cur].dirty = FALSE]
ClearCurMap == pool' = [pool EXCEPT ![cur] = NoEntry]
ClearLog(lb) == logs' = [logs EXCEPT ![SlotOf(lb)] = NoLog]

\* _log2data_swap_merge: the rest of the data block is copied behind the log
\* pages, and the log block becomes the data block.
SwapCopy ==
  /\ merge.kind = "swap" /\ merge.next < PageCnt
  /\ Copy(data[merge.lb], merge.next, merge.dst, merge.next)
  /\ NextPage
  /\ UNCHANGED <<tables, maps, ctl, saved, op, post>>
SwapEnd ==
  /\ merge.kind = "swap" /\ CopyDone
  /\ data' = [data EXCEPT ![merge.lb] = merge.dst]
  /\ ClearLog(merge.lb)
  /\ Erase(data[merge.lb])
  /\ free' = free \cup {data[merge.lb]}
  /\ ClearCurMap
  /\ merge' = NoMerge
  /\ UNCHANGED <<cur, ctl, saved, op, post>>

\* _free2data_simple_merge: the last version of every page goes to a free
\* block, which becomes the data block.  Its age is that of the log block plus
\* one, so that it is not taken for a log block before the merge is over.
SimpleCopy ==
  /\ merge.kind = "simple" /\ merge.next < PageCnt
  /\ LET inData == map[merge.next] = None
         src == IF inData THEN data[merge.lb] ELSE LogOf(merge.lb).blk
         sp == IF inData THEN merge.next ELSE map[merge.next]
     IN IF merge.next = 0
        THEN CopyPage0(src, sp, merge.dst, IF inData THEN 2 ELSE 1)
        ELSE Copy(src, sp, merge.dst, merge.next)
  /\ NextPage
  /\ UNCHANGED <<tables, maps, ctl, saved, op, post>>
SimpleEraseData ==
  /\ merge.kind = "simple" /\ CopyDone
  /\ data' = [data EXCEPT ![merge.lb] = merge.dst]
  /\ Erase(data[merge.lb])
  /\ free' = free \cup {data[merge.lb]}
  /\ merge' = [merge EXCEPT !.step = "erase"]
  /\ UNCHANGED <<logs, maps, ctl, saved, op, post>>
\* Mutant: the log block is not given back.
SimpleEndLeaks ==
  /\ merge.kind = "simple" /\ merge.step = "erase"
  /\ Erase(LogOf(merge.lb).blk)
  /\ ClearLog(merge.lb)
  /\ ClearCurMap
  /\ merge' = NoMerge
  /\ UNCHANGED <<data, free, cur, ctl, saved, op, post>>
SimpleEnd ==
  /\ merge.kind = "simple" /\ merge.step = "erase"
  /\ Erase(LogOf(merge.lb).blk)
  /\ free' = free \cup {LogOf(merge.lb).blk}
  /\ ClearLog(merge.lb)
  /\ ClearCurMap
  /\ merge' = NoMerge
  /\ UNCHANGED <<data, cur, ctl, saved, op, post>>

\* _free2log_move_merge: the mapped pages of a full log block are packed into
\* a free block, bank by bank when pages keep their bank.
Stride == IF Align THEN Banks ELSE 1
Rank(p) == Cardinality({q \in Mapped(map) : BankOf(q) = BankOf(p) /\ q < p})
Target(p) == BankOf(p) + Stride * Rank(p)
Targets == {Target(p) : p \in Mapped(map)}
\* The next step: the pages in order of bank and number; before those of bank
\* 1 the management page, if bank 0 has none.
Before(p, q) ==
  \/ BankOf(p) < BankOf(q)
  \/ BankOf(p) = BankOf(q) /\ p < q
MoveOrder(p) ==
  /\ p \in Mapped(map)
  /\ merge.next = Cardinality({q \in Mapped(map) : Before(q, p)})
NeedsPage0 == Align /\ merge.next = 0 /\ 0 \notin Targets /\ merge.step = "copy"
MoveCopy(p) ==
  /\ merge.kind = "move" /\ MoveOrder(p) /\ ~NeedsPage0
  /\ IF Target(p) = 0
     THEN CopyPage0(LogOf(merge.lb).blk, map[p], merge.dst, 0)
     ELSE Copy(LogOf(merge.lb).blk, map[p], merge.dst, Target(p))
  /\ pool' = [pool EXCEPT ![cur].map[p] = Target(p)]
  /\ NextPage
  /\ UNCHANGED <<tables, cur, ctl, saved, op, post>>
MoveInfo ==
  /\ merge.kind = "move" /\ NeedsPage0
  /\ CopyPage0(LogOf(merge.lb).blk, 0, merge.dst, 0)
  /\ merge' = [merge EXCEPT !.step = "copied0"]
  /\ UNCHANGED <<tables, maps, ctl, saved, op, post>>
\* The last used page of the target, a bank at a time: the code computes
\* DstPage - INTERLEAVE_BANK_CNT without a sign, so that a bank without pages
\* leaves a number just below 2^16, which no other bank exceeds.
EmptyBanks ==
  IF Align THEN {k \in 0 .. Banks - 1 : \A p \in Mapped(map) : BankOf(p) # k}
  ELSE {}
LastTarget ==
  IF EmptyBanks # {}
  THEN (CHOOSE k \in EmptyBanks : \A j \in EmptyBanks : j <= k) - Banks
  ELSE CHOOSE t \in Targets \cup {0} : \A u \in Targets : u <= t
MoveEnd ==
  /\ merge.kind = "move" /\ ~NeedsPage0
  /\ merge.next = Cardinality(Mapped(map))
  /\ Erase(LogOf(merge.lb).blk)
  /\ free' = free \cup {LogOf(merge.lb).blk}
  /\ logs' = [logs EXCEPT ![SlotOf(merge.lb)] =
                [lb |-> merge.lb, blk |-> merge.dst, last |-> LastTarget]]
  /\ merge' = NoMerge
  /\ UNCHANGED <<data, maps, ctl, saved, op, post>>

MergeStep ==
  \/ SwapCopy \/ SwapEnd
  \/ SimpleCopy \/ SimpleEraseData \/ SimpleEnd
  \/ \E p \in Page : MoveCopy(p)
  \/ MoveInfo \/ MoveEnd

(***************************************************************************)
(* The cache of page map tables                                            *)
(***************************************************************************)
Switch(s) == post' = [slot |-> s, step |-> "find"]
PostTo(step) == post' = [post EXCEPT !.step = step]
\* Mutant: the caller tries again until there is a block.
Retry ==
  /\ GoTo(IF op.kind = "write" THEN "log" ELSE "failed")
  /\ post' = NoPost
  /\ UNCHANGED <<flash, tables, maps, ctl, saved, merge>>
\* A call that returns an error ends what it was doing for its caller.
Fail ==
  /\ GoTo("failed")
  /\ post' = NoPost
  /\ UNCHANGED <<flash, tables, maps, ctl, saved, merge>>

\* _page_map_tbl_cache_hit
CacheHit(i) ==
  /\ Switching /\ post.step = "find" /\ pool[i].slot = post.slot
  /\ cur' = i
  /\ post' = NoPost
  /\ UNCHANGED <<flash, tables, pool, ctl, saved, op, merge>>

\* _find_page_tbl_post_location: the first clear entry, or else the least
\* recently used one, here any; its table goes to its log block first.
PostLocation(i) ==
  LET Clear == {j \in Cached : pool[j].slot = None} IN
  Clear # {} => (i \in Clear /\ \A j \in Clear : i <= j)
PickEntry(i) ==
  /\ Switching /\ post.step = "find"
  /\ \A j \in Cached : pool[j].slot # post.slot
  /\ PostLocation(i)
  /\ cur' = i
  /\ IF pool[i].dirty /\ pool[i].slot # None
     THEN SetDirtyFlag /\ PostTo("write")
     ELSE UNCHANGED saved /\ PostTo("read")
  /\ UNCHANGED <<flash, tables, pool, ctl, op, merge>>

\* _write_back_page_map_tbl: into the page behind the last used one, if need
\* be after a merge, which may make the table superfluous.
EntrySlot == pool[cur].slot
TablePage == U16(logs[EntrySlot].last + 1)
WriteTable ==
  /\ Switching /\ post.step \in {"write", "merged"} /\ EntrySlot # None
  /\ TablePage < PageCnt
  /\ Program(logs[EntrySlot].blk, TablePage,
             PageRecord(None, None, TableMark, Table(map)))
  /\ logs' = [logs EXCEPT ![EntrySlot].last = TablePage]
  /\ pool' = [pool EXCEPT ![cur].slot = None]
  /\ PostTo("read")
  /\ UNCHANGED <<data, free, cur, ctl, saved, op, merge>>
MergeForTable ==
  /\ Switching /\ post.step = "write" /\ TablePage = PageCnt
  /\ StartMerge("special", logs[EntrySlot].lb)
  /\ PostTo("merged")
  /\ UNCHANGED <<flash, data, logs, maps, ctl, saved, op>>
NoMergeForTable ==
  /\ Switching /\ post.step = "write" /\ TablePage = PageCnt
  /\ ~CanMerge("special", logs[EntrySlot].lb)
  /\ Fail
TableMerged ==
  /\ Switching /\ post.step = "merged" /\ EntrySlot = None
  /\ PostTo("read")
  /\ UNCHANGED <<flash, tables, maps, ctl, saved, op, merge>>

\* Mutant: the first version found is kept.
RebuiltFirst(b) ==
  [p \in Page |->
     LET Versions == {q \in Page : flash[b][q].lpn = p} IN
     IF Versions = {} THEN None
     ELSE CHOOSE q \in Versions : \A u \in Versions : u >= q]
\* _rebuild_page_map_tbl: a later page of the log block is a later version.
Rebuilt(b) ==
  [p \in Page |->
     LET Versions == {q \in Page : flash[b][q].lpn = p} IN
     IF Versions = {} THEN None
     ELSE CHOOSE q \in Versions : \A u \in Versions : u <= q]
\* _read_page_map_tbl
IsTable(rec) == rec.status = TableMark /\ rec.lpn = None
MustRebuild(s) ==
  /\ logs[s].last # None
  /\ ~(logs[s].last \in Page /\ IsTable(flash[logs[s].blk][logs[s].last]))
StoredMap(s) ==
  IF logs[s].last = None THEN EmptyMap
  ELSE IF MustRebuild(s) THEN Rebuilt(logs[s].blk)
  ELSE flash[logs[s].blk][logs[s].last].main.map
ReadTable ==
  /\ Switching /\ post.step = "read" /\ post.slot # None
  /\ pool' = [pool EXCEPT ![cur] = [slot |-> post.slot,
                                    dirty |-> MustRebuild(post.slot),
                                    map |-> StoredMap(post.slot)]]
  /\ IF MustRebuild(post.slot) THEN SetDirtyFlag ELSE UNCHANGED saved
  /\ post' = NoPost
  /\ UNCHANGED <<flash, tables, cur, ctl, op, merge>>
\* The write back of an exit reads no table.
EntryWritten ==
  /\ Switching /\ post.step = "read" /\ post.slot = None
  /\ pool' = [pool EXCEPT ![cur].dirty = FALSE]
  /\ post' = NoPost
  /\ UNCHANGED <<flash, tables, cur, ctl, saved, op, merge>>

SwitchStep ==
  \/ \E i \in Cached : CacheHit(i) \/ PickEntry(i)
  \/ WriteTable \/ MergeForTable \/ NoMergeForTable \/ TableMerged
  \/ ReadTable \/ EntryWritten

(***************************************************************************)
(* LML_PageRead                                                            *)
(***************************************************************************)
Accessed(lb) == [lb |-> lb, data |-> data[lb], log |-> LogOf(lb).blk]
StartRead(lb) ==
  /\ Ready("idle", "none")
  /\ op' = Op("read", lb, None, "lookup")
  /\ ctl' = IF ctl.lb = lb THEN ctl ELSE Accessed(lb)
  /\ IF ctl'.log # None /\ HasLog(lb) THEN Switch(SlotOf(lb))
     ELSE UNCHANGED post
  /\ UNCHANGED <<flash, tables, maps, saved, merge>>

\* PMM_GetLogPage 'r' answers 0xffff also when it fails.
LogPageRead(p) ==
  IF op.step = "failed" \/ ctl.log = None \/ ~HasLog(op.lb) THEN None
  ELSE map[p]
PageRead(p) ==
  IF LogPageRead(p) = None THEN flash[ctl.data][p]
  ELSE flash[ctl.log][LogPageRead(p)]
EndRead ==
  /\ Ready("read", op.step)
  /\ op' = Idle
  /\ UNCHANGED <<flash, tables, maps, ctl, saved, post, merge>>

(***************************************************************************)
(* LML_PageWrite                                                           *)
(***************************************************************************)
StartWrite(lb, bank) ==
  /\ Ready("idle", "none") /\ AgeOf(data[lb]) \in OldAges
  /\ SetDirtyFlag
  /\ op' = Op("write", lb, bank, "log")
  /\ ctl' = [ctl EXCEPT !.lb = lb]
  /\ UNCHANGED <<flash, tables, maps, post, merge>>

\* _GetLogPageForWrite with a log block at hand: make its map the current one.
UseLog ==
  /\ Ready("write", "log") /\ HasLog(op.lb)
  /\ Switch(SlotOf(op.lb))
  /\ GoTo("page")
  /\ UNCHANGED <<flash, tables, maps, ctl, saved, merge>>

\* _CreateNewLogBlk: without an empty item a log block has to go, a full one
\* if there is one, else the one not accessed longest, here any.
EmptySlot(s) ==
  /\ logs[s].lb = None
  /\ \A t \in Slot : logs[t].lb = None => s <= t
FullSlot(s) == logs[s].last = PageCnt - 1
Victim(s) ==
  IF \E t \in Slot : FullSlot(t)
  THEN FullSlot(s) /\ \A t \in Slot : FullSlot(t) => s <= t
  ELSE TRUE
PickVictim(s) ==
  /\ Ready("write", "log") /\ ~HasLog(op.lb) /\ ~HasLog(None)
  /\ Victim(s)
  /\ Switch(s)
  /\ GoTo("victim")
  /\ UNCHANGED <<flash, tables, maps, ctl, saved, merge>>
MergeVictim ==
  /\ Ready("write", "victim")
  /\ StartMerge("normal", logs[EntrySlot].lb)
  /\ op' = [op EXCEPT !.step = "log", !.slot = EntrySlot]
  /\ UNCHANGED <<flash, data, logs, maps, ctl, saved, post>>
CreateLog(s, b) ==
  /\ Ready("write", "log") /\ ~HasLog(op.lb) /\ HasLog(None)
  /\ IF op.slot = None THEN EmptySlot(s) ELSE s = op.slot
  /\ b \in free
  /\ free' = free \ {b}
  /\ logs' = [logs EXCEPT ![s] = [lb |-> op.lb, blk |-> b, last |-> None]]
  /\ op' = [op EXCEPT !.step = "info", !.slot = None]
  /\ UNCHANGED <<flash, data, maps, ctl, saved, post, merge>>
\* The data block of a log block must be known for what it is.
WriteDataInfo ==
  /\ Ready("write", "info")
  /\ IF flash[data[op.lb]][0].info = None
     THEN Program(data[op.lb], 0, PageRecord(op.lb, None, FreeMark, Nothing))
     ELSE UNCHANGED flash
  /\ GoTo("log")
  /\ UNCHANGED <<tables, maps, ctl, saved, post, merge>>

LastUsed == LogOf(op.lb).last
\* Mutant: the last used page is taken again for another page of its bank.
LogPageForWriteSame ==
  LET line == LastUsed - (LastUsed % Banks) IN
  U16(IF ~Align THEN LastUsed + 1
      ELSE IF LastUsed = None THEN op.bank
      ELSE IF op.bank >= LastUsed % Banks THEN line + op.bank
      ELSE line + Banks + op.bank)
LogPageForWrite ==
  LET line == LastUsed - (LastUsed % Banks) IN
  U16(IF ~Align THEN LastUsed + 1
      ELSE IF LastUsed = None THEN op.bank
      ELSE IF op.bank > LastUsed % Banks THEN line + op.bank
      ELSE line + Banks + op.bank)
NeedsLogInfo == LastUsed = None /\ LogPageForWrite # 0
WriteLogInfo ==
  /\ Ready("write", "page") /\ NeedsLogInfo
  /\ Program(LogOf(op.lb).blk, 0,
             PageRecord(op.lb, None, Older(AgeOf(data[op.lb]), 1), Nothing))
  /\ GoTo("place")
  /\ UNCHANGED <<tables, maps, ctl, saved, post, merge>>
Placing ==
  \/ Ready("write", "place")
  \/ Ready("write", "page") /\ ~NeedsLogInfo

\* PMM_GetLogPage: a full log block is merged, once.
MergeFullLog ==
  /\ Placing /\ LogPageForWrite >= PageCnt /\ ~op.again
  /\ StartMerge("special", op.lb)
  /\ op' = [op EXCEPT !.step = "log", !.again = TRUE]
  /\ UNCHANGED <<flash, data, logs, maps, ctl, saved, post>>
\* Mutant: LogicalCtl keeps the blocks of the access before.
WritePageKeepsCtl(lp) ==
  LET s == SlotOf(op.lb)
      page == LogPageForWrite
      age == IF page = 0 THEN Older(AgeOf(data[op.lb]), 1) ELSE DataMark IN
  /\ Placing /\ page < PageCnt
  /\ BankOf(lp) = op.bank /\ <<op.lb, lp>> \in Written
  /\ logs' = [logs EXCEPT ![s].last = page]
  /\ pool' = [pool EXCEPT ![cur].map[lp] = page, ![cur].dirty = TRUE]
  /\ ProgramData(logs[s].blk, page, age, op.lb, lp)
  /\ op' = Idle
  /\ UNCHANGED <<data, free, cur, ctl, saved, post, merge>>
WritePage(lp) ==
  LET s == SlotOf(op.lb)
      page == LogPageForWrite
      age == IF page = 0 THEN Older(AgeOf(data[op.lb]), 1) ELSE DataMark IN
  /\ Placing /\ page < PageCnt
  /\ BankOf(lp) = op.bank /\ <<op.lb, lp>> \in Written
  /\ logs' = [logs EXCEPT ![s].last = page]
  /\ pool' = [pool EXCEPT ![cur].map[lp] = page, ![cur].dirty = TRUE]
  /\ ctl' = Accessed(op.lb)
  /\ ProgramData(logs[s].blk, page, age, op.lb, lp)
  /\ op' = Idle
  /\ UNCHANGED <<data, free, cur, saved, post, merge>>

\* A merge or a new log block without a free block, a log block full again.
FailWrite ==
  /\ \/ Ready("write", "victim") /\ ~CanMerge("normal", logs[EntrySlot].lb)
     \/ Ready("write", "log") /\ ~HasLog(op.lb) /\ HasLog(None) /\ free = {}
     \/ /\ Placing /\ LogPageForWrite >= PageCnt
        /\ op.again \/ ~CanMerge("special", op.lb)
  /\ Fail
EndFailedWrite ==
  /\ Ready("write", "failed")
  /\ op' = Idle
  /\ UNCHANGED <<flash, tables, maps, ctl, saved, post, merge>>

(***************************************************************************)
(* LML_Exit, and the loss of power                                         *)
(***************************************************************************)
StartExit ==
  /\ Ready("idle", "none")
  /\ op' = Op("exit", None, None, "flush")
  /\ UNCHANGED <<flash, tables, maps, ctl, saved, post, merge>>

DirtyEntry(i) == pool[i].slot # None /\ pool[i].dirty
FlushEntry(i) ==
  /\ Ready("exit", "flush") /\ ~saved.clean
  /\ DirtyEntry(i) /\ \A j \in Cached : DirtyEntry(j) => i <= j
  /\ cur' = i
  /\ post' = [slot |-> None, step |-> "write"]
  /\ UNCHANGED <<flash, tables, pool, ctl, saved, op, merge>>

\* What is in memory is gone.
Forget ==
  /\ data' = NoTables.data /\ logs' = NoTables.logs /\ free' = NoTables.free
  /\ pool' = [i \in Cached |-> NoEntry] /\ cur' = 0
  /\ ctl' = NoCtl
  /\ op' = Off /\ post' = NoPost /\ merge' = NoMerge
\* _write_back_block_map_tbl: the tables count from their last page on.
SaveTables ==
  /\ Ready("exit", "flush")
  /\ saved.clean \/ \A i \in Cached : ~DirtyEntry(i)
  /\ saved' = IF saved.clean THEN saved
              ELSE [clean |-> TRUE, data |-> data, logs |-> logs, free |-> free]
  /\ Forget
  /\ UNCHANGED flash
EndFailedExit ==
  /\ Ready("exit", "failed")
  /\ Forget
  /\ UNCHANGED <<flash, saved>>
PowerLoss ==
  /\ op # Off
  /\ Forget
  /\ UNCHANGED <<flash, saved>>

WriteStep ==
  \/ UseLog
  \/ \E s \in Slot : PickVictim(s)
  \/ MergeVictim
  \/ \E s \in Slot, b \in Blk : CreateLog(s, b)
  \/ WriteDataInfo \/ WriteLogInfo \/ MergeFullLog
  \/ \E lp \in Page : WritePage(lp)
  \/ FailWrite \/ EndFailedWrite
ExitStep ==
  \/ \E i \in Cached : FlushEntry(i)
  \/ SaveTables \/ EndFailedExit
Call ==
  \/ \E lb \in LogicBlk : StartRead(lb)
  \/ \E w \in WrittenBanks : StartWrite(w[1], w[2])
  \/ StartExit
Work == WriteStep \/ EndRead \/ ExitStep \/ SwitchStep \/ MergeStep
=============================================================================
