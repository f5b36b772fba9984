------------------------------ MODULE BadBlocks ------------------------------
(***************************************************************************)
(* Programs of the flash that fail while log blocks are written            *)
(* (logic_ctl.c, mapping_base.c, bad_manage.c).  LML_PageWrite returns     *)
(* when the program has begun; its failure shows in the status of the      *)
(* bank, which is looked at before the next program of the bank, or when   *)
(* the last written page is closed.  The log block is then replaced by a   *)
(* free block, which gets a copy of its pages, and marked bad.             *)
(*                                                                         *)
(* Merges and page map tables are those of LogBlocks, where no program     *)
(* fails, and left out here, as are the pages of data blocks.              *)
(***************************************************************************)
EXTENDS Integers, FiniteSets

CONSTANTS
  Blk,       \* super blocks of a zone that can be log blocks
  None,      \* 0xffff, for a block
  LogicBlk,  \* logical blocks
  NoData,    \* what an erased page or one whose program failed holds
  PageCnt,   \* PAGE_CNT_OF_SUPER_BLK
  Banks,     \* INTERLEAVE_BANK_CNT
  MaxFails   \* bound: operations of the flash that fail

ASSUME BlockAssumption ==
  IsFiniteSet(Blk) /\ None \notin Blk /\ None \notin LogicBlk /\ NoData \notin LogicBlk
ASSUME PageAssumption == PageCnt \in Nat \ {0} /\ Banks \in Nat \ {0}
ASSUME FailsAssumption == MaxFails \in Nat

Page == 0 .. PageCnt - 1
Bank == 0 .. Banks - 1
BankOf(p) == p % Banks

VARIABLES
  pages,    \* the logical block whose data a page holds
  failing,  \* the banks whose last program failed
  logs,     \* LOG_BLK_TBL: the log block of a logical block
  last,     \* LOG_BLK_TBL: its LastUsedPage, -1 for 0xffff
  free,     \* FREE_BLK_TBL, as a set
  ctl,      \* LogicalCtl: OpMode, LogicBlkNum, LogBlkNum, LogPageNum
  job,      \* the call in progress, the page a write is for
  manage,   \* LML_BadBlkManage in progress
  held,     \* history: the log pages programmed without failure
  given,    \* history: the blocks marked bad
  fails     \* history: the number of operations that failed

flashVars == <<pages, failing, fails>>
tables == <<logs, last, free>>
vars == <<flashVars, tables, ctl, job, manage, held, given>>

Idle == [kind |-> "idle", lb |-> None, page |-> -1, step |-> "none"]
NoManage == [step |-> "none", bad |-> None, upto |-> 0, dst |-> None, at |-> 0]
Managing == manage.step # "none"
At(kind, step) == ~Managing /\ job.kind = kind /\ job.step = step
GoTo(step) == job' = [job EXCEPT !.step = step]
Return == job' = Idle
\* Where PMM_GetLogPage fails, LogPageNum is 0xffff.
NoLogPage == ctl' = [ctl EXCEPT !.page = -1]

----------------------------------------------------------------------------
(* The flash.                                                              *)
CanFail(n) == fails + n <= MaxFails
\* A program of page p of block b with x, and what PHY_SynchBank will say.
ProgramGood(b, p, x) ==
  /\ pages' = [pages EXCEPT ![b][p] = x]
  /\ failing' = failing \ {BankOf(p)}
  /\ UNCHANGED fails
ProgramFails(b, p) ==
  /\ CanFail(1)
  /\ pages' = [pages EXCEPT ![b][p] = NoData]
  /\ failing' = failing \cup {BankOf(p)}
  /\ fails' = fails + 1

\* Mutant: a block that cannot be erased gets no mark.
MarkErased(b) ==
  /\ pages' = [pages EXCEPT ![b] = [p \in Page |-> NoData]]
  /\ UNCHANGED <<failing, fails>>
  /\ given' = given \cup {b}
\* _MarkBadBlk: an erase, and a mark in the first and the last page of every
\* bank.  Their results are not looked at, but remain the status of the bank.
MarkBad(b) ==
  /\ pages' = [pages EXCEPT ![b] = [p \in Page |-> NoData]]
  /\ \E F \in SUBSET Bank :
       /\ CanFail(Cardinality(F))
       /\ failing' = F
       /\ fails' = fails + Cardinality(F)
  /\ given' = given \cup {b}

----------------------------------------------------------------------------
(* LML_BadBlkManage                                                        *)
Manage(bad, upto) ==
  manage' = [step |-> "free", bad |-> bad, upto |-> upto,
             dst |-> None, at |-> 0]
GetFreeBlk ==
  /\ manage.step = "free"
  /\ \E b \in free :
       /\ free' = free \ {b}
       /\ manage' = [manage EXCEPT !.dst = b, !.at = 0,
                       !.step = IF manage.upto = 0 THEN "mark" ELSE "copy"]
  /\ UNCHANGED <<flashVars, logs, last, ctl, job, held, given>>
\* Mutant: the caller tries again.
NoFreeRetries ==
  /\ manage.step = "free" /\ free = {}
  /\ manage' = NoManage
  /\ UNCHANGED <<flashVars, tables, ctl, job, held, given>>
\* The caller, and its callers, return an error and do nothing else.
NoFreeBlk ==
  /\ manage.step = "free" /\ free = {}
  /\ manage' = NoManage
  /\ IF job.step = "log" THEN NoLogPage ELSE UNCHANGED ctl
  /\ Return
  /\ UNCHANGED <<flashVars, tables, held, given>>

Copied ==
  manage' = [manage EXCEPT !.at = @ + 1,
               !.step = IF manage.at + 1 = manage.upto THEN "mark" ELSE "copy"]
\* _RestorePageData, a page at a time.
CopyPage ==
  /\ manage.step = "copy"
  /\ \/ /\ ProgramGood(manage.dst, manage.at, pages[manage.bad][manage.at])
        /\ Copied
     \/ /\ ProgramFails(manage.dst, manage.at)
        /\ manage' = [manage EXCEPT !.step = "unusable"]
  /\ UNCHANGED <<tables, ctl, job, held, given>>
MarkNew ==
  /\ manage.step = "unusable"
  /\ MarkBad(manage.dst)
  /\ manage' = [manage EXCEPT !.step = "free", !.dst = None, !.at = 0]
  /\ UNCHANGED <<tables, ctl, job, held>>

\* The block named in the log block table and in LogicalCtl; where the info
\* of a new log block failed, LogicalCtl does not have it yet.
\* Mutant: the log block table keeps the bad block.
ReplaceInCtl == ctl' = [ctl EXCEPT !.log = manage.dst] /\ UNCHANGED logs
Replace ==
  IF job.step = "log"
  THEN logs' = [logs EXCEPT ![job.lb] = manage.dst] /\ UNCHANGED ctl
  ELSE /\ logs' = [logs EXCEPT ![ctl.lb] = manage.dst]
       /\ ctl' = [ctl EXCEPT !.log = manage.dst]
MarkOld ==
  /\ manage.step = "mark"
  /\ MarkBad(manage.bad)
  /\ Replace
  /\ manage' = NoManage
  /\ GoTo(IF job.step = "close" THEN "closed" ELSE job.step)
  /\ UNCHANGED <<last, free, held>>

ManageStep == GetFreeBlk \/ NoFreeBlk \/ CopyPage \/ MarkNew \/ MarkOld

----------------------------------------------------------------------------
(* Calls.  A write of another block, a read after a write and a flush      *)
(* close the page written last.                                            *)
Call(kind, lb, page, step) ==
  /\ job = Idle /\ ~Managing
  /\ job' = [kind |-> kind, lb |-> lb, page |-> page, step |-> step]
  /\ UNCHANGED <<flashVars, tables, ctl, manage, held, given>>
\* The next page of the log block in the same bank as the logical page.
\* Bound: a log block does not fill up.
StartWrite(lb, p) ==
  /\ last[lb] < p /\ p <= last[lb] + Banks
  /\ Call("write", lb, p, IF lb = ctl.lb THEN "log" ELSE "close")
StartRead(lb) ==
  Call("read", lb, -1, IF ctl.mode = "w" THEN "close" ELSE "read")
StartFlush == Call("flush", None, -1, "close")

\* _CloseWritePage: the bank of the last written page is looked at.
Failed == ctl.mode = "w" /\ BankOf(ctl.page) \in failing
\* Mutant: one page more than there may be.
CloseFailsFar ==
  /\ ~Managing /\ job.step = "close" /\ Failed
  /\ Manage(ctl.log, ctl.page + 2)
  /\ UNCHANGED <<flashVars, tables, ctl, job, held, given>>
CloseFails ==
  /\ ~Managing /\ job.step = "close" /\ Failed
  /\ Manage(ctl.log, ctl.page + 1)
  /\ UNCHANGED <<flashVars, tables, ctl, job, held, given>>
Close ==
  /\ ~Managing
  /\ job.step = "closed" \/ (job.step = "close" /\ ~Failed)
  /\ ctl' = [ctl EXCEPT !.mode = "n",
                        !.lb = IF job.kind = "write" THEN job.lb ELSE @]
  /\ CASE job.kind = "write" -> GoTo("log")
       [] job.kind = "read" -> GoTo("read")
       [] job.kind = "flush" -> Return
  /\ UNCHANGED <<flashVars, tables, manage, held, given>>

\* The rest of LML_PageRead.  The page read is not needed any more: LogPageNum
\* is not looked at before the next write.  A read may clear the status.
Read ==
  /\ At("read", "read")
  /\ ctl' = [ctl EXCEPT !.mode = "r", !.lb = job.lb, !.page = -1,
                        !.log = IF job.lb = ctl.lb THEN @ ELSE logs[job.lb]]
  /\ \E k \in Bank : failing' \in {failing, failing \ {k}}
  /\ Return
  /\ UNCHANGED <<pages, fails, tables, manage, held, given>>

\* _CreateNewLogBlk; without a block, PMM_GetLogPage and the write fail.
NewLog ==
  /\ At("write", "log") /\ logs[job.lb] = None
  /\ \E b \in free : /\ logs' = [logs EXCEPT ![job.lb] = b]
                     /\ free' = free \ {b}
  /\ UNCHANGED <<flashVars, last, ctl, job, manage, held, given>>
NoNewLog ==
  /\ At("write", "log") /\ logs[job.lb] = None /\ free = {}
  /\ NoLogPage /\ Return
  /\ UNCHANGED <<flashVars, tables, manage, held, given>>

\* _GetLogPageForWrite: the first page of a log block gets the logic info, if
\* the write is for another page; its status is looked at at once.
NeedsInfo == last[job.lb] = -1 /\ job.page # 0
WriteInfo ==
  /\ At("write", "log") /\ logs[job.lb] # None /\ NeedsInfo
  /\ \/ /\ ProgramGood(logs[job.lb], 0, job.lb)
        /\ held' = held \cup {<<job.lb, 0>>}
        /\ GoTo("page")
        /\ UNCHANGED manage
     \/ /\ ProgramFails(logs[job.lb], 0)
        /\ Manage(logs[job.lb], 0)
        /\ UNCHANGED <<job, held>>
  /\ UNCHANGED <<tables, ctl, given>>
\* The end of PMM_GetLogPage.
TakePage ==
  /\ \/ At("write", "page")
     \/ At("write", "log") /\ logs[job.lb] # None /\ ~NeedsInfo
  /\ last' = [last EXCEPT ![job.lb] = job.page]
  /\ ctl' = [ctl EXCEPT !.log = logs[job.lb], !.page = job.page]
  /\ GoTo("try")
  /\ UNCHANGED <<flashVars, logs, free, manage, held, given>>

\* __TRY_WRITE_PHYSIC_PAGE: only after a write is the bank's status looked at.
Found ==
  /\ At("write", "try") /\ Failed
  /\ Manage(ctl.log, ctl.page)
  /\ UNCHANGED <<flashVars, tables, ctl, job, held, given>>
\* The write returns before the result of the program is known.
Program ==
  /\ At("write", "try") /\ ~Failed
  /\ \/ /\ ProgramGood(ctl.log, ctl.page, ctl.lb)
        /\ held' = held \cup {<<ctl.lb, ctl.page>>}
     \/ ProgramFails(ctl.log, ctl.page) /\ UNCHANGED held
  /\ ctl' = [ctl EXCEPT !.mode = "w"]
  /\ Return
  /\ UNCHANGED <<tables, manage, given>>

Start ==
  \/ \E lb \in LogicBlk : (\E p \in Page : StartWrite(lb, p)) \/ StartRead(lb)
  \/ StartFlush
Work ==
  \/ ManageStep
  \/ CloseFails \/ Close \/ Read
  \/ NewLog \/ NoNewLog \/ WriteInfo \/ TakePage \/ Found \/ Program
Next == Start \/ Work

Init ==
  /\ pages = [b \in Blk |-> [p \in Page |-> NoData]]
  /\ failing = {} /\ fails = 0
  /\ logs = [lb \in LogicBlk |-> None] /\ last = [lb \in LogicBlk |-> -1]
  /\ free = Blk
  /\ ctl = [mode |-> "n", lb |-> None, log |-> None, page |-> -1]
  /\ job = Idle /\ manage = NoManage
  /\ held = {} /\ given = {}

Spec == Init /\ [][Next]_vars

----------------------------------------------------------------------------
(* Properties.                                                             *)
FlashType ==
  /\ pages \in [Blk -> [Page -> LogicBlk \cup {NoData}]]
  /\ failing \in SUBSET Bank /\ fails \in 0 .. MaxFails
TableType ==
  /\ logs \in [LogicBlk -> Blk \cup {None}]
  /\ last \in [LogicBlk -> -1 .. PageCnt - 1]
  /\ free \in SUBSET Blk
CtlType ==
  ctl \in [mode : {"n", "w", "r"}, lb : LogicBlk \cup {None},
          log : Blk \cup {None}, page : -1 .. PageCnt - 1]
JobType ==
  job \in [kind : {"idle", "write", "read", "flush"},
          lb : LogicBlk \cup {None}, page : -1 .. PageCnt - 1,
          step : {"none", "close", "closed", "read", "log", "page", "try"}]
ManageType ==
  manage \in [step : {"none", "free", "copy", "unusable", "mark"},
             bad : Blk \cup {None}, upto : 0 .. PageCnt,
             dst : Blk \cup {None}, at : 0 .. PageCnt]
HistoryType == held \in SUBSET (LogicBlk \X Page) /\ given \in SUBSET Blk
\* Every variable stays in its type.
TypeOK ==
  /\ FlashType /\ TableType /\ CtlType
  /\ JobType /\ ManageType /\ HistoryType

\* A page that was programmed without failure stays readable through the log
\* block table, however many blocks are given up on the way, whichever copies
\* fail too, and if no block is left.
KeepsWritten ==
  \A h \in held : logs[h[1]] # None /\ pages[logs[h[1]]][h[2]] = h[1]

\* No more blocks are given up than operations have failed, although failures
\* are found late and the marks leave a status of their own.
WasteBounded == Cardinality(given) <= fails

\* Every step of a call leads it to its end: however many copies and marks
\* fail, the call goes on to the next block and ends when none is left.
Stage ==
  IF Managing
  THEN CASE manage.step = "copy" -> 10 + PageCnt - manage.at
         [] manage.step = "mark" -> 9
         [] manage.step = "unusable" -> 8
         [] manage.step = "free" -> 1
  ELSE CASE job.step = "close" -> 8
         [] job.step = "closed" -> 7
         [] job.step = "read" -> 6
         [] job.step = "log" -> 5
         [] job.step = "page" -> 4
         [] job.step = "try" -> 3
         [] OTHER -> 0
ToDo == Cardinality(free) * (PageCnt + 11) + Stage
CallsAdvance ==
  [][job # Idle /\ job' # Idle => ToDo' < ToDo]_vars
=============================================================================
