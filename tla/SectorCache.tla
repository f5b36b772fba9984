----------------------------- MODULE SectorCache -----------------------------
(***************************************************************************)
(* The write cache and the read cache of logic_cache.c, between the sector *)
(* interface of the NAND driver and its page interface (LML_PageRead,      *)
(* LML_PageWrite).  Requests are split into pages; a full page goes        *)
(* straight to the page interface, a part of a page is gathered in a write *)
(* cache entry until the entry is evicted or flushed.                      *)
(*                                                                         *)
(* A sector number stands for itself: the offsets of the copies inside a   *)
(* page buffer are the sector's place in the page.  The bitmap of an entry *)
(* is the domain of its data.                                              *)
(***************************************************************************)
EXTENDS Integers

CONSTANTS SectorCnt,      \* sectors of the logical disk
          SectorsPerPage, \* SECTOR_CNT_OF_LOGIC_PAGE
          EntryCnt,       \* N_NAND_W_CACHE
          CounterWrap,    \* 2^32 in the code: width of g_w_access_cnt
          Value, Blank,   \* contents of a sector
          Devs,           \* values of nand_current_dev_num
          MaxRequest,     \* bound: sectors of one request
          Watched         \* bound: sectors ever written with other than Blank

ASSUME SectorAssumption == SectorCnt \in Nat /\ SectorsPerPage \in Nat \ {0}
ASSUME EntryAssumption == EntryCnt \in Nat \ {0} /\ CounterWrap \in Nat \ {0, 1}
ASSUME ValueAssumption == Blank \in Value
ASSUME DevAssumption == Devs \subseteq Nat

Lba == 0 .. SectorCnt - 1
PageOf(a) == a \div SectorsPerPage
Page == {PageOf(a) : a \in Lba}
SectorsOf(p) == {a \in Lba : PageOf(a) = p}
Entries == 0 .. EntryCnt - 1
NoPage == -1              \* 0xffffffff in hit_page
NoDev == -1               \* 0xffffffff in dev_num
NoData == [a \in {} |-> Blank]

VARIABLES disk,  \* the sectors behind LML_PageRead and LML_PageWrite
          w,     \* nand_w_cache
          r,     \* nand_r_cache
          cnt,   \* g_w_access_cnt
          job,   \* the call in progress: its sectors, the rest of its loop
          buf    \* the caller's buffer

vars == <<disk, w, r, cnt, job, buf>>

FreeEntry == [page |-> NoPage, data |-> NoData, acc |-> 0, dev |-> NoDev]
NoPageRead == [page |-> NoPage, data |-> NoData]
Job(op, range) ==
  [op |-> op, range |-> range, todo |-> range, idx |-> 0, dev |-> NoDev]
Idle == Job("idle", {})
Closed == Job("closed", {})

Overlay(f, g) == [a \in DOMAIN f |-> IF a \in DOMAIN g THEN g[a] ELSE f[a]]
Join(f, g) == [a \in (DOMAIN f) \cup (DOMAIN g) |->
                 IF a \in DOMAIN g THEN g[a] ELSE f[a]]
Part(f, A) == [a \in A |-> f[a]]

\* The sectors of a request are consecutive (blk, nblk).
Ranges == {{a \in Lba : s <= a /\ a < s + n} : s \in Lba, n \in 1 .. MaxRequest}
Buffers(A) ==
  {d \in [A -> Value] : \A a \in A \ Watched : d[a] = Blank}

Init ==
  /\ disk = [a \in Lba |-> Blank]
  /\ w = [i \in Entries |-> FreeEntry]
  /\ r = NoPageRead
  /\ cnt = 0
  /\ job = Idle
  /\ buf = NoData

\* The page the loop of NAND_CacheRead and NAND_CacheWrite closes next, and
\* the sectors of the request that lie in it.
IsNextPage(p) ==
  /\ \E a \in job.todo : PageOf(a) = p
  /\ \A a \in job.todo : p <= PageOf(a)
Chunk(p) == {a \in job.todo : PageOf(a) = p}

(***************************************************************************)
(* The page interface, as seen from the cache.                             *)
(***************************************************************************)
\* LML_PageRead of the missing sectors, LML_PageWrite of the whole page.
WriteBack(i) == disk' = Overlay(disk, w[i].data)
\* Mutant of DropRead: the read cache survives a write of its page.
DropNothing(p) == UNCHANGED r
\* "disable read cache with current page"
DropRead(p) == r' = IF r.page = p THEN NoPageRead ELSE r

(***************************************************************************)
(* NAND_CacheWrite                                                         *)
(***************************************************************************)
StartWrite(A, d) ==
  /\ job = Idle
  /\ job' = Job("write", A)
  /\ buf' = d
  /\ UNCHANGED <<disk, w, r, cnt>>

FullChunk(p) == Chunk(p) = SectorsOf(p)
PrevPage(i, p) == p > 0 /\ w[i].page = p - 1

\* A full page: entries of the page before it are flushed first.
FlushPrevious(p, i) ==
  /\ job.op = "write" /\ IsNextPage(p) /\ FullChunk(p)
  /\ PrevPage(i, p)
  /\ WriteBack(i)
  /\ DropRead(w[i].page)
  /\ w' = [w EXCEPT ![i] = FreeEntry]
  /\ UNCHANGED <<cnt, job, buf>>

\* Mutant of WriteFullPage: the older partial entry of the page stays.
WriteFullPageKeepsEntry(p) ==
  /\ job.op = "write" /\ IsNextPage(p) /\ FullChunk(p)
  /\ \A i \in Entries : ~PrevPage(i, p)
  /\ DropRead(p)
  /\ disk' = Overlay(disk, Part(buf, Chunk(p)))
  /\ job' = [job EXCEPT !.todo = @ \ Chunk(p)]
  /\ UNCHANGED <<w, cnt, buf>>

\* Then the entry of the page itself is dropped and the page is written.
WriteFullPage(p) ==
  /\ job.op = "write" /\ IsNextPage(p) /\ FullChunk(p)
  /\ \A i \in Entries : ~PrevPage(i, p)
  /\ w' = [i \in Entries |->
             IF w[i].page = p THEN [FreeEntry EXCEPT !.acc = w[i].acc] ELSE w[i]]
  /\ DropRead(p)
  /\ disk' = Overlay(disk, Part(buf, Chunk(p)))
  /\ job' = [job EXCEPT !.todo = @ \ Chunk(p)]
  /\ UNCHANGED <<cnt, buf>>

\* Mutant of Count: the counter does not wrap.
CountNoWrap(new, pos) ==
  /\ cnt' = cnt + 1
  /\ w' = [new EXCEPT ![pos].acc = cnt + 1]

\* g_w_access_cnt counts the calls of _fill_nand_cache; when it wraps, all
\* access counts start again from zero.
Count(new, pos) ==
  LET c == (cnt + 1) % CounterWrap IN
  IF c = 0
  THEN /\ cnt' = 1
       /\ w' = [i \in Entries |->
                  [new[i] EXCEPT !.acc = IF i = pos THEN 1 ELSE 0]]
  ELSE /\ cnt' = c
       /\ w' = [new EXCEPT ![pos].acc = c]

\* Mutant of Filled: every fill loses the device number, as line 359 does.
FilledOldDev(p, i, dev) ==
  [page |-> p, data |-> Part(buf, Chunk(p)), acc |-> w[i].acc, dev |-> w[i].dev]
Filled(p, i, dev) ==
  [page |-> p, data |-> Part(buf, Chunk(p)), acc |-> w[i].acc, dev |-> dev]

FillHit(p, i) ==
  /\ job.op = "write" /\ IsNextPage(p) /\ ~FullChunk(p)
  /\ w[i].page = p
  /\ Count([w EXCEPT ![i].data = Join(@, Part(buf, Chunk(p)))], i)
  /\ job' = [job EXCEPT !.todo = @ \ Chunk(p)]
  /\ UNCHANGED <<disk, r, buf>>

FirstFree(i) ==
  /\ w[i].page = NoPage
  /\ \A j \in Entries : j < i => w[j].page # NoPage

\* Mutant of FillFree: no search for an entry that has the page.
FillFreeNoSearch(p, i, dev) ==
  /\ job.op = "write" /\ IsNextPage(p) /\ ~FullChunk(p)
  /\ FirstFree(i)
  /\ Count([w EXCEPT ![i] = Filled(p, i, dev)], i)
  /\ job' = [job EXCEPT !.todo = @ \ Chunk(p)]
  /\ UNCHANGED <<disk, r, buf>>

FillFree(p, i, dev) ==
  /\ job.op = "write" /\ IsNextPage(p) /\ ~FullChunk(p)
  /\ \A j \in Entries : w[j].page # p
  /\ FirstFree(i)
  /\ Count([w EXCEPT ![i] = Filled(p, i, dev)], i)
  /\ job' = [job EXCEPT !.todo = @ \ Chunk(p)]
  /\ UNCHANGED <<disk, r, buf>>

\* The scan for a victim keeps the least recently used entry but stops at an
\* entry, other than the first, that holds the page before p.
StopsAt(i, p) == i > 0 /\ PrevPage(i, p)
IsVictim(i, p) ==
  IF \E j \in Entries : StopsAt(j, p)
  THEN StopsAt(i, p)
  ELSE \A j \in Entries :
         \/ w[i].acc < w[j].acc
         \/ w[i].acc = w[j].acc /\ i <= j

\* When the scan ran to its end its index is past the array, and the store of
\* the device number (line 359) misses the entry, which keeps the number of
\* the page evicted from it; what it hits instead is no state of the caches.
FillEvict(p, i, dev) ==
  /\ job.op = "write" /\ IsNextPage(p) /\ ~FullChunk(p)
  /\ \A j \in Entries : w[j].page \notin {p, NoPage}
  /\ IsVictim(i, p)
  /\ WriteBack(i)
  /\ DropRead(w[i].page)
  /\ Count([w EXCEPT ![i] =
              Filled(p, i, IF StopsAt(i, p) THEN dev ELSE w[i].dev)], i)
  /\ job' = [job EXCEPT !.todo = @ \ Chunk(p)]
  /\ UNCHANGED buf

EndWrite ==
  /\ job.op = "write" /\ job.todo = {}
  /\ job' = Idle /\ buf' = NoData
  /\ UNCHANGED <<disk, w, r, cnt>>

(***************************************************************************)
(* NAND_CacheRead                                                          *)
(***************************************************************************)
StartRead(A) ==
  /\ job = Idle
  /\ job' = Job("read", A)
  /\ UNCHANGED <<disk, w, r, cnt, buf>>

\* _get_one_page: the read cache if it has the page, else the page
\* interface, through the read cache when only part of the page is wanted.
ReadPage(p) ==
  /\ job.op = "read" /\ IsNextPage(p)
  /\ LET src == IF r.page = p THEN r.data ELSE Part(disk, SectorsOf(p)) IN
     /\ buf' = Join(buf, Part(src, Chunk(p)))
     /\ r' = IF r.page = p \/ FullChunk(p)
             THEN r ELSE [page |-> p, data |-> src]
  /\ job' = [job EXCEPT !.todo = @ \ Chunk(p)]
  /\ UNCHANGED <<disk, w, cnt>>

\* Entry i is the first one with sector a of its page in the write cache.
Holds(i, a) == w[i].page = PageOf(a) /\ a \in DOMAIN w[i].data

\* Mutant of RenewFromCache: the read is answered from the pages alone.
RenewNothing ==
  /\ job.op = "read" /\ job.todo = {}
  /\ job' = [job EXCEPT !.op = "answered"]
  /\ UNCHANGED <<disk, w, r, cnt, buf>>

\* _get_data_from_cache: the sectors held by the write cache are newer.
RenewFromCache ==
  /\ job.op = "read" /\ job.todo = {}
  /\ buf' = [a \in job.range |->
               IF \E i \in Entries : Holds(i, a)
               THEN w[CHOOSE i \in Entries :
                        /\ Holds(i, a)
                        /\ \A j \in Entries : Holds(j, a) => i <= j].data[a]
               ELSE buf[a]]
  /\ job' = [job EXCEPT !.op = "answered"]
  /\ UNCHANGED <<disk, w, r, cnt>>

EndRead ==
  /\ job.op = "answered"
  /\ job' = Idle /\ buf' = NoData
  /\ UNCHANGED <<disk, w, r, cnt>>

(***************************************************************************)
(* NAND_CacheFlush, NAND_CacheFlushDev, NAND_CacheClose, NAND_CacheOpen     *)
(***************************************************************************)
StartFlush(op) ==
  /\ job = Idle
  /\ op \in {"flush", "close"}
  /\ job' = Job(op, {})
  /\ UNCHANGED <<disk, w, r, cnt, buf>>

StartFlushDev(dev) ==
  /\ job = Idle
  /\ job' = [Job("flushdev", {}) EXCEPT !.dev = dev]
  /\ UNCHANGED <<disk, w, r, cnt, buf>>

\* _flush_w_cache leaves the device number of the entry, _flush_w_cache_simple
\* clears it.
FlushEntry(i) ==
  /\ job.op \in {"flush", "close", "flushdev"} /\ job.idx = i
  /\ job' = [job EXCEPT !.idx = i + 1]
  /\ IF /\ w[i].page # NoPage
        /\ job.op = "flushdev" => w[i].dev = job.dev
     THEN /\ WriteBack(i)
          /\ DropRead(w[i].page)
          /\ w' = [w EXCEPT ![i] = IF job.op = "flushdev" THEN FreeEntry
                                   ELSE [FreeEntry EXCEPT !.dev = w[i].dev]]
     ELSE UNCHANGED <<disk, w, r>>
  /\ UNCHANGED <<cnt, buf>>

EndFlush ==
  /\ job.op \in {"flush", "flushdev"} /\ job.idx = EntryCnt
  /\ job' = Idle
  /\ UNCHANGED <<disk, w, r, cnt, buf>>

\* NAND_CacheClose frees the buffers: what they hold is gone.
EndClose ==
  /\ job.op = "close" /\ job.idx = EntryCnt
  /\ job' = Closed
  /\ w' = [i \in Entries |-> FreeEntry] /\ r' = NoPageRead
  /\ UNCHANGED <<disk, cnt, buf>>

Open ==
  /\ job = Closed
  /\ job' = Idle /\ cnt' = 0
  /\ w' = [i \in Entries |-> FreeEntry] /\ r' = NoPageRead
  /\ UNCHANGED <<disk, buf>>

\* A loss of power between two accesses of the medium.
Crash ==
  /\ job' = Closed /\ buf' = NoData
  /\ w' = [i \in Entries |-> FreeEntry] /\ r' = NoPageRead
  /\ UNCHANGED <<disk, cnt>>

WriteStep ==
  \/ \E p \in Page :
       \/ \E i \in Entries : FlushPrevious(p, i)
       \/ WriteFullPage(p)
       \/ \E i \in Entries : FillHit(p, i)
       \/ \E i \in Entries, dev \in Devs : FillFree(p, i, dev)
       \/ \E i \in Entries, dev \in Devs : FillEvict(p, i, dev)
  \/ EndWrite
ReadStep ==
  \/ \E p \in Page : ReadPage(p)
  \/ RenewFromCache
  \/ EndRead
FlushStep ==
  \/ \E i \in Entries : FlushEntry(i)
  \/ EndFlush
  \/ EndClose

Call ==
  \/ \E A \in Ranges : \E d \in Buffers(A) : StartWrite(A, d)
  \/ \E A \in Ranges : StartRead(A)
  \/ \E op \in {"flush", "close"} : StartFlush(op)
  \/ \E dev \in Devs : StartFlushDev(dev)
  \/ Open

Work == WriteStep \/ ReadStep \/ FlushStep
Next == Call \/ Work \/ Crash

Spec == Init /\ [][Next]_vars

-----------------------------------------------------------------------------
(***************************************************************************)
(* Properties                                                              *)
(***************************************************************************)
\* PartialData(A): what the buffer of a page can hold.
PartialData(A) == UNION {[D -> Value] : D \in SUBSET A}

EntryType == [page : Page \cup {NoPage}, data : PartialData(Lba),
              acc : 0 .. CounterWrap - 1, dev : Devs \cup {NoDev}]
JobOps == {"idle", "closed", "write", "read", "answered", "flush", "close",
           "flushdev"}
\* Every variable stays in its type (the layout of __nand_cache_t).
TypeOK ==
  /\ disk \in [Lba -> Value]
  /\ w \in [Entries -> EntryType]
  /\ r \in [page : Page \cup {NoPage}, data : PartialData(Lba)]
  /\ cnt \in 0 .. CounterWrap - 1
  /\ job \in [op : JobOps, range : SUBSET Lba, todo : SUBSET Lba,
              idx : Nat, dev : Devs \cup {NoDev}]
  /\ buf \in PartialData(Lba)

\* No page is in two write cache entries, a free entry holds nothing and an
\* entry holds sectors of its own page only: otherwise which of two copies
\* reaches the medium last would depend on the order of the entries.
OneEntryPerPage ==
  /\ \A i, j \in Entries :
       w[i].page = w[j].page /\ w[i].page # NoPage => i = j
  /\ \A i \in Entries :
       /\ DOMAIN w[i].data \subseteq SectorsOf(w[i].page)
       /\ w[i].page = NoPage => w[i].data = NoData

\* The read cache holds the page as it is on the medium: every path that
\* writes a page behind it must have dropped it.
ReadCacheFresh ==
  r.page # NoPage => r.data = Part(disk, SectorsOf(r.page))

\* Where the call in progress stands: a write still owns the data of what it
\* has not served, a read has in its buffer the medium's value of what it has
\* served, a flush has left no page in the entries before its index, and a
\* closed driver holds nothing.
CallProgress ==
  /\ job.todo \subseteq job.range
  /\ job.op = "write" => DOMAIN buf = job.range
  /\ job.op = "read" =>
       /\ DOMAIN buf = job.range \ job.todo
       /\ \A a \in DOMAIN buf : buf[a] = disk[a]
  /\ job.op \notin {"write", "read", "answered"} => buf = NoData
  /\ job.op \in {"flush", "close"} =>
       \A i \in Entries : i < job.idx => w[i].page = NoPage
  /\ job.op = "closed" => \A i \in Entries : w[i].page = NoPage

\* The disk the caller should see: the sectors of the entries e over those
\* of the medium d.
ViewOf(d, e) ==
  [a \in Lba |->
     IF \E i \in Entries : a \in DOMAIN e[i].data
     THEN e[CHOOSE i \in Entries : a \in DOMAIN e[i].data].data[a]
     ELSE d[a]]
View == ViewOf(disk, w)

\* A step changes a sector of the medium only to the newest value of that
\* sector: an eviction, a flush or a full page write never puts an older
\* value over a newer one, whatever the order of the write-backs.
MediumMovesForward ==
  [][\A a \in Lba : disk'[a] # disk[a] => disk'[a] = View'[a]]_vars

\* NAND_CacheFlushDev of the only device leaves nothing unwritten.
FlushDevFlushesAll ==
  job.op = "flushdev" /\ job.idx = EntryCnt /\ Devs = {job.dev} => View = disk

\* The caches implement the sector disk.
Phase ==
  CASE job.op = "write" -> "writing"
    [] job.op = "read" -> "reading"
    [] job.op \in {"flush", "close"} -> "syncing"
    [] job.op = "flushdev" -> "settling"
    [] job.op = "closed" -> "down"
    [] OTHER -> job.op
Left ==
  CASE job.op = "write" -> job.todo
    [] job.op = "read" -> job.range
    [] OTHER -> {}
SD == INSTANCE SectorDisk
        WITH view <- View, stable <- disk, phase <- Phase, left <- Left,
             buf <- IF job.op = "read" THEN NoData ELSE buf
ImplementsDisk == SD!DiskSpec
=============================================================================
