-------------------------- MODULE SectorCacheProofs --------------------------
(***************************************************************************)
(* Proofs about SectorCache, for every number of sectors, page size,       *)
(* number of entries, counter width and set of values.                     *)
(***************************************************************************)
EXTENDS SectorCache, TLAPS

\* Pages are numbered from zero: 0xffffffff is none of them.
LEMMA PageIsNat == \A a \in Lba : PageOf(a) \in Nat
BY SectorAssumption DEF Lba, PageOf

\* The mark of a free entry is not the number of a page.
LEMMA NoPageIsNone == NoPage \notin Page
BY PageIsNat DEF Page, NoPage

\* A function on some of the sectors, in terms of its domain.
LEMMA PartialDataDef ==
  ASSUME NEW A, NEW f
  PROVE  f \in PartialData(A) <=> DOMAIN f \subseteq A /\ f \in [DOMAIN f -> Value]
BY DEF PartialData

\* An empty buffer is a buffer.
LEMMA NoDataType == NoData \in PartialData(Lba) /\ DOMAIN NoData = {}
<1>1. DOMAIN NoData = {} /\ NoData \in [{} -> Value]
  BY DEF NoData
<1> QED BY <1>1, PartialDataDef

\* A part of a buffer is a buffer, with the same values.
LEMMA PartType ==
  ASSUME NEW f \in PartialData(Lba), NEW A \in SUBSET (DOMAIN f)
  PROVE  /\ Part(f, A) \in PartialData(Lba)
         /\ DOMAIN Part(f, A) = A
         /\ \A a \in A : Part(f, A)[a] = f[a]
<1>1. DOMAIN f \subseteq Lba /\ f \in [DOMAIN f -> Value]
  BY PartialDataDef
<1>2. DOMAIN Part(f, A) = A /\ \A a \in A : Part(f, A)[a] = f[a]
  BY DEF Part
<1>3. Part(f, A) \in [A -> Value]
  BY <1>1 DEF Part
<1> QED BY <1>1, <1>2, <1>3, PartialDataDef

\* Two buffers laid over each other: the second one wins.
LEMMA JoinType ==
  ASSUME NEW f \in PartialData(Lba), NEW g \in PartialData(Lba)
  PROVE  /\ Join(f, g) \in PartialData(Lba)
         /\ DOMAIN Join(f, g) = (DOMAIN f) \cup (DOMAIN g)
         /\ \A a \in DOMAIN g : Join(f, g)[a] = g[a]
         /\ \A a \in (DOMAIN f) \ (DOMAIN g) : Join(f, g)[a] = f[a]
<1>1. /\ DOMAIN f \subseteq Lba /\ f \in [DOMAIN f -> Value]
      /\ DOMAIN g \subseteq Lba /\ g \in [DOMAIN g -> Value]
  BY PartialDataDef
<1>2. /\ DOMAIN Join(f, g) = (DOMAIN f) \cup (DOMAIN g)
      /\ \A a \in DOMAIN g : Join(f, g)[a] = g[a]
      /\ \A a \in (DOMAIN f) \ (DOMAIN g) : Join(f, g)[a] = f[a]
  BY DEF Join
<1>3. Join(f, g) \in [(DOMAIN f) \cup (DOMAIN g) -> Value]
  BY <1>1 DEF Join
<1> QED BY <1>1, <1>2, <1>3, PartialDataDef

\* A buffer laid over whole sectors: it wins where it has a value.
LEMMA OverlayType ==
  ASSUME NEW f \in [Lba -> Value], NEW g \in PartialData(Lba)
  PROVE  /\ Overlay(f, g) \in [Lba -> Value]
         /\ \A a \in Lba : Overlay(f, g)[a] = IF a \in DOMAIN g THEN g[a] ELSE f[a]
<1>1. g \in [DOMAIN g -> Value]
  BY PartialDataDef
<1> QED BY <1>1 DEF Overlay

\* What NAND_CacheOpen leaves in the caches has its type.
LEMMA FreeEntryType ==
  /\ FreeEntry \in EntryType
  /\ FreeEntry.page = NoPage /\ FreeEntry.data = NoData
  /\ NoPageRead \in [page : Page \cup {NoPage}, data : PartialData(Lba)]
  /\ NoPageRead.page = NoPage
BY NoDataType, EntryAssumption DEF FreeEntry, NoPageRead, EntryType

\* Counting a call changes the access counts and nothing else.
LEMMA CountEffect ==
  ASSUME NEW new \in [Entries -> EntryType], NEW pos \in Entries,
         cnt \in 0 .. CounterWrap - 1,
         Count(new, pos)
  PROVE  /\ cnt' \in 0 .. CounterWrap - 1
         /\ w' \in [Entries -> EntryType]
         /\ \A i \in Entries : /\ w'[i].page = new[i].page /\ w'[i].data = new[i].data
                               /\ w'[i].dev = new[i].dev
<1> DEFINE c == (cnt + 1) % CounterWrap
<1>1. c \in 0 .. CounterWrap - 1 /\ 1 \in 0 .. CounterWrap - 1 /\ 0 \in 0 .. CounterWrap - 1
  BY EntryAssumption
<1>2. CASE c = 0
  <2>1. /\ cnt' = 1
        /\ w' = [i \in Entries |-> [new[i] EXCEPT !.acc = IF i = pos THEN 1 ELSE 0]]
    BY <1>2 DEF Count
  <2> QED BY <1>1, <2>1 DEF EntryType
<1>3. CASE c # 0
  <2>1. cnt' = c /\ w' = [new EXCEPT ![pos].acc = c]
    BY <1>3 DEF Count
  <2> HIDE DEF c
  <2> QED BY <1>1, <2>1 DEF EntryType
<1> QED BY <1>2, <1>3

(***************************************************************************)
(* The inductive invariant.                                                *)
(***************************************************************************)
IInv == TypeOK /\ OneEntryPerPage /\ ReadCacheFresh /\ CallProgress

\* The invariant holds when the driver starts.
LEMMA InitInv == Init => IInv
<1> SUFFICES ASSUME Init PROVE IInv
  OBVIOUS
<1>1. disk \in [Lba -> Value]
  BY ValueAssumption DEF Init
<1>2. TypeOK
  BY <1>1, FreeEntryType, NoDataType, EntryAssumption
     DEF Init, TypeOK, Idle, Job, JobOps
<1>3. OneEntryPerPage
  BY FreeEntryType, NoDataType DEF Init, OneEntryPerPage
<1>4. ReadCacheFresh
  BY FreeEntryType DEF Init, ReadCacheFresh
<1>5. CallProgress
  BY NoDataType, FreeEntryType DEF Init, CallProgress, Idle, Job
<1> QED BY <1>2, <1>3, <1>4, <1>5 DEF IInv

\* The sectors a write serves next, as its caller gave them.
LEMMA ChunkData ==
  ASSUME IInv, NEW p \in Page, job.op = "write"
  PROVE  /\ Part(buf, Chunk(p)) \in PartialData(Lba)
         /\ DOMAIN Part(buf, Chunk(p)) = Chunk(p)
         /\ \A a \in Chunk(p) : Part(buf, Chunk(p))[a] = buf[a]
         /\ Chunk(p) \subseteq SectorsOf(p)
<1>1. Chunk(p) \subseteq DOMAIN buf /\ Chunk(p) \subseteq SectorsOf(p)
  BY DEF IInv, TypeOK, CallProgress, Chunk, SectorsOf
<1>2. buf \in PartialData(Lba)
  BY DEF IInv, TypeOK
<1> QED BY <1>1, <1>2, PartType

\* A page of the medium that is not written stays as the read cache has it.
LEMMA ReadCacheStep ==
  ASSUME IInv, NEW p,
         DropRead(p),
         \A a \in Lba : disk'[a] # disk[a] => a \in SectorsOf(p)
  PROVE  /\ r' \in [page : Page \cup {NoPage}, data : PartialData(Lba)]
         /\ ReadCacheFresh'
<1>1. r' \in [page : Page \cup {NoPage}, data : PartialData(Lba)]
  BY FreeEntryType DEF IInv, TypeOK, DropRead
<1>2. ASSUME r'.page # NoPage PROVE r'.data = Part(disk', SectorsOf(r'.page))
  <2>1. r' = r /\ r.page # p
    BY <1>2, FreeEntryType DEF DropRead
  <2>2. r.data = Part(disk, SectorsOf(r.page))
    BY <1>2, <2>1 DEF IInv, ReadCacheFresh
  <2>3. \A a \in SectorsOf(r.page) : disk'[a] = disk[a]
    BY <2>1 DEF SectorsOf
  <2> QED BY <2>1, <2>2, <2>3 DEF Part
<1> QED BY <1>1, <1>2 DEF ReadCacheFresh

\* Writing back an entry touches its own page only.
LEMMA WriteBackEffect ==
  ASSUME IInv, NEW i \in Entries, WriteBack(i)
  PROVE  /\ disk' \in [Lba -> Value]
         /\ \A a \in Lba : disk'[a] = IF a \in DOMAIN w[i].data
                                      THEN w[i].data[a] ELSE disk[a]
         /\ \A a \in Lba : disk'[a] # disk[a] => a \in SectorsOf(w[i].page)
<1>1. disk \in [Lba -> Value] /\ w[i].data \in PartialData(Lba)
  BY DEF IInv, TypeOK, EntryType
<1>2. DOMAIN w[i].data \subseteq SectorsOf(w[i].page)
  BY DEF IInv, OneEntryPerPage
<1> QED BY <1>1, <1>2, OverlayType DEF WriteBack

\* A served chunk leaves the rest of the request.
LEMMA ServeChunk ==
  ASSUME IInv, NEW p, job' = [job EXCEPT !.todo = @ \ Chunk(p)]
  PROVE  /\ job' \in [op : JobOps, range : SUBSET Lba, todo : SUBSET Lba,
                      idx : Nat, dev : Devs \cup {NoDev}]
         /\ job'.op = job.op /\ job'.range = job.range
         /\ job'.todo = job.todo \ Chunk(p)
         /\ job'.todo \subseteq job'.range
BY DEF IInv, TypeOK, CallProgress

\* The write actions that leave the entries as they were, but for entries
\* that hold nothing any more.
LEMMA FlushPreviousInv ==
  ASSUME IInv, NEW p \in Page, NEW i \in Entries, FlushPrevious(p, i)
  PROVE  IInv'
<1> USE DEF FlushPrevious
<1>1. /\ disk' \in [Lba -> Value]
      /\ r' \in [page : Page \cup {NoPage}, data : PartialData(Lba)]
      /\ ReadCacheFresh'
  BY WriteBackEffect, ReadCacheStep
<1>2. /\ w' \in [Entries -> EntryType] /\ w'[i] = FreeEntry
      /\ \A j \in Entries \ {i} : w'[j] = w[j]
  BY FreeEntryType DEF IInv, TypeOK
<1>3. TypeOK'
  BY <1>1, <1>2 DEF IInv, TypeOK
<1>4. OneEntryPerPage'
  BY <1>2, FreeEntryType, NoDataType DEF IInv, OneEntryPerPage
<1>5. CallProgress'
  BY DEF IInv, CallProgress
<1> QED BY <1>1, <1>3, <1>4, <1>5 DEF IInv

\* The write of a full page keeps the invariant: the entry of the page and the
\* read page are gone before another version of it is on the medium.
LEMMA WriteFullPageInv ==
  ASSUME IInv, NEW p \in Page, WriteFullPage(p)
  PROVE  IInv'
<1> DEFINE d == Part(buf, Chunk(p))
           freed(i) == [FreeEntry EXCEPT !.acc = w[i].acc]
<1>1. /\ job.op = "write"
      /\ w' = [i \in Entries |-> IF w[i].page = p THEN freed(i) ELSE w[i]]
      /\ DropRead(p)
      /\ disk' = Overlay(disk, d)
      /\ job' = [job EXCEPT !.todo = @ \ Chunk(p)]
      /\ cnt' = cnt /\ buf' = buf
  BY DEF WriteFullPage
<1>2. \A i \in Entries : /\ freed(i) \in EntryType
                        /\ freed(i).page = NoPage /\ freed(i).data = NoData
  BY FreeEntryType DEF IInv, TypeOK, EntryType, FreeEntry
<1>3. d \in PartialData(Lba) /\ DOMAIN d \subseteq SectorsOf(p)
  BY <1>1, ChunkData
<1>4. disk \in [Lba -> Value] /\ w \in [Entries -> EntryType]
  BY DEF IInv, TypeOK
<1> HIDE DEF d, freed
<1>5. /\ disk' \in [Lba -> Value]
      /\ \A a \in Lba : disk'[a] # disk[a] => a \in SectorsOf(p)
  <2>1. /\ Overlay(disk, d) \in [Lba -> Value]
        /\ \A a \in Lba : Overlay(disk, d)[a] = IF a \in DOMAIN d THEN d[a] ELSE disk[a]
    BY <1>3, <1>4, OverlayType
  <2> QED BY <1>1, <1>3, <2>1
<1>6. /\ r' \in [page : Page \cup {NoPage}, data : PartialData(Lba)]
      /\ ReadCacheFresh'
  BY <1>1, <1>5, ReadCacheStep
<1>7. /\ w' \in [Entries -> EntryType]
      /\ \A i \in Entries :
           w'[i] = w[i] \/ (w'[i].page = NoPage /\ w'[i].data = NoData)
  BY <1>1, <1>2, <1>4
<1>8. TypeOK'
  BY <1>1, <1>5, <1>6, <1>7, ServeChunk DEF IInv, TypeOK
<1>9. OneEntryPerPage'
  BY <1>7, NoDataType DEF IInv, OneEntryPerPage
<1>10. CallProgress'
  <2>1. /\ job'.op = "write" /\ job'.range = job.range
        /\ job'.todo \subseteq job'.range
    BY <1>1, ServeChunk
  <2>2. DOMAIN buf' = job'.range
    BY <1>1, <2>1 DEF IInv, CallProgress
  <2> QED BY <2>1, <2>2 DEF CallProgress
<1> QED BY <1>6, <1>8, <1>9, <1>10 DEF IInv

\* An entry that gathers more sectors of its page.
LEMMA FillHitEffect ==
  ASSUME IInv, NEW p \in Page, NEW i \in Entries, FillHit(p, i)
  PROVE  /\ job.op = "write" /\ w[i].page = p
         /\ job' = [job EXCEPT !.todo = @ \ Chunk(p)]
         /\ UNCHANGED <<disk, r, buf>>
         /\ cnt' \in 0 .. CounterWrap - 1
         /\ w' \in [Entries -> EntryType]
         /\ w'[i].page = p
         /\ w'[i].data = Join(w[i].data, Part(buf, Chunk(p)))
         /\ DOMAIN w'[i].data = (DOMAIN w[i].data) \cup Chunk(p)
         /\ DOMAIN w'[i].data \subseteq SectorsOf(p)
         /\ \A a \in Chunk(p) : w'[i].data[a] = buf[a]
         /\ \A a \in (DOMAIN w[i].data) \ Chunk(p) : w'[i].data[a] = w[i].data[a]
         /\ \A j \in Entries \ {i} : w'[j].page = w[j].page /\ w'[j].data = w[j].data
<1> DEFINE c == Part(buf, Chunk(p))
           d == Join(w[i].data, c)
           new == [w EXCEPT ![i].data = Join(@, c)]
<1>1. /\ job.op = "write" /\ w[i].page = p
      /\ job' = [job EXCEPT !.todo = @ \ Chunk(p)]
      /\ UNCHANGED <<disk, r, buf>>
      /\ Count(new, i)
  BY DEF FillHit
<1>2. w \in [Entries -> EntryType] /\ w[i].data \in PartialData(Lba)
  BY DEF IInv, TypeOK, EntryType
<1>3. /\ c \in PartialData(Lba) /\ DOMAIN c = Chunk(p)
      /\ \A a \in Chunk(p) : c[a] = buf[a]
      /\ Chunk(p) \subseteq SectorsOf(p) /\ DOMAIN w[i].data \subseteq SectorsOf(p)
  BY <1>1, ChunkData DEF IInv, OneEntryPerPage
<1> HIDE DEF c
<1>4. /\ d \in PartialData(Lba)
      /\ DOMAIN d = (DOMAIN w[i].data) \cup Chunk(p)
      /\ \A a \in Chunk(p) : d[a] = buf[a]
      /\ \A a \in (DOMAIN w[i].data) \ Chunk(p) : d[a] = w[i].data[a]
  <2> DEFINE f == w[i].data
  <2>1. f \in PartialData(Lba)
    BY <1>2
  <2> HIDE DEF f
  <2>2. /\ Join(f, c) \in PartialData(Lba)
        /\ DOMAIN Join(f, c) = (DOMAIN f) \cup Chunk(p)
        /\ \A a \in Chunk(p) : Join(f, c)[a] = buf[a]
        /\ \A a \in (DOMAIN f) \ Chunk(p) : Join(f, c)[a] = f[a]
    <3>1. /\ Join(f, c) \in PartialData(Lba)
          /\ DOMAIN Join(f, c) = (DOMAIN f) \cup (DOMAIN c)
          /\ \A a \in DOMAIN c : Join(f, c)[a] = c[a]
          /\ \A a \in (DOMAIN f) \ (DOMAIN c) : Join(f, c)[a] = f[a]
      BY <1>3, <2>1, JoinType
    <3> QED BY <1>3, <3>1
  <2> QED BY <2>2 DEF f
<1>5. new = [w EXCEPT ![i].data = d]
  BY <1>2 DEF EntryType
<1> HIDE DEF d, new
<1>6. /\ new \in [Entries -> EntryType]
      /\ new[i].page = p /\ new[i].data = d
      /\ \A j \in Entries \ {i} : new[j] = w[j]
  BY <1>1, <1>2, <1>4, <1>5 DEF EntryType
<1>7. /\ cnt' \in 0 .. CounterWrap - 1
      /\ w' \in [Entries -> EntryType]
      /\ \A j \in Entries : w'[j].page = new[j].page /\ w'[j].data = new[j].data
  BY <1>1, <1>6, CountEffect DEF IInv, TypeOK
<1>8. w'[i].data = Join(w[i].data, Part(buf, Chunk(p)))
  BY <1>6, <1>7 DEF d, c
<1>9. w'[i].page = p /\ w'[i].data = d
  BY <1>6, <1>7
<1>10. \A j \in Entries \ {i} : w'[j].page = w[j].page /\ w'[j].data = w[j].data
  BY <1>6, <1>7
<1> QED BY <1>1, <1>3, <1>4, <1>7, <1>8, <1>9, <1>10

\* Adding sectors to the entry of a page keeps the invariant.
LEMMA FillHitInv ==
  ASSUME IInv, NEW p \in Page, NEW i \in Entries, FillHit(p, i)
  PROVE  IInv'
<1>1. TypeOK'
  BY FillHitEffect, ServeChunk DEF IInv, TypeOK
<1>2. OneEntryPerPage'
  BY FillHitEffect, NoPageIsNone DEF IInv, OneEntryPerPage
<1>3. ReadCacheFresh'
  BY FillHitEffect DEF IInv, ReadCacheFresh
<1>4. CallProgress'
  BY FillHitEffect, ServeChunk DEF IInv, CallProgress
<1> QED BY <1>1, <1>2, <1>3, <1>4 DEF IInv

\* An entry that takes over page p, which no entry had.
LEMMA FilledEffect ==
  ASSUME IInv, NEW p \in Page, NEW i \in Entries,
         NEW dev \in Devs \cup {NoDev}, job.op = "write",
         \A j \in Entries : w[j].page # p,
         Count([w EXCEPT ![i] = Filled(p, i, dev)], i)
  PROVE  /\ cnt' \in 0 .. CounterWrap - 1
         /\ w' \in [Entries -> EntryType]
         /\ w'[i].page = p /\ w'[i].data = Part(buf, Chunk(p))
         /\ \A j \in Entries \ {i} : w'[j].page = w[j].page /\ w'[j].data = w[j].data
         /\ OneEntryPerPage'
<1> DEFINE new == [w EXCEPT ![i] = Filled(p, i, dev)]
<1>1. Filled(p, i, dev) \in EntryType
  BY ChunkData DEF IInv, TypeOK, EntryType, Filled
<1>2. /\ new \in [Entries -> EntryType]
      /\ new[i] = Filled(p, i, dev)
      /\ \A j \in Entries \ {i} : new[j] = w[j]
  BY <1>1 DEF IInv, TypeOK
<1>3. Count(new, i)
  OBVIOUS
<1> HIDE DEF new
<1>4. /\ cnt' \in 0 .. CounterWrap - 1
      /\ w' \in [Entries -> EntryType]
      /\ \A j \in Entries : w'[j].page = new[j].page /\ w'[j].data = new[j].data
  BY <1>2, <1>3, CountEffect DEF IInv, TypeOK
<1>5. /\ w'[i].page = p /\ w'[i].data = Part(buf, Chunk(p))
      /\ \A j \in Entries \ {i} : w'[j].page = w[j].page /\ w'[j].data = w[j].data
  BY <1>2, <1>4 DEF Filled
<1>6. OneEntryPerPage'
  BY <1>5, ChunkData, NoPageIsNone DEF IInv, OneEntryPerPage
<1> QED BY <1>4, <1>5, <1>6

\* Taking a free entry keeps the invariant, as no entry had the page.
LEMMA FillFreeInv ==
  ASSUME IInv, NEW p \in Page, NEW i \in Entries, NEW dev \in Devs,
         FillFree(p, i, dev)
  PROVE  IInv'
<1> USE DEF FillFree
<1>1. /\ cnt' \in 0 .. CounterWrap - 1
      /\ w' \in [Entries -> EntryType]
      /\ OneEntryPerPage'
  BY FilledEffect
<1>2. TypeOK'
  BY <1>1, ServeChunk DEF IInv, TypeOK
<1>3. ReadCacheFresh'
  BY DEF IInv, ReadCacheFresh
<1>4. CallProgress'
  BY ServeChunk DEF IInv, CallProgress
<1> QED BY <1>1, <1>2, <1>3, <1>4 DEF IInv

\* Evicting an entry keeps the invariant: its page is written back first.
LEMMA FillEvictInv ==
  ASSUME IInv, NEW p \in Page, NEW i \in Entries, NEW dev \in Devs,
         FillEvict(p, i, dev)
  PROVE  IInv'
<1> USE DEF FillEvict
<1>1. /\ disk' \in [Lba -> Value]
      /\ r' \in [page : Page \cup {NoPage}, data : PartialData(Lba)]
      /\ ReadCacheFresh'
  BY WriteBackEffect, ReadCacheStep
<1> DEFINE e == IF StopsAt(i, p) THEN dev ELSE w[i].dev
<1>2. e \in Devs \cup {NoDev}
  BY DEF IInv, TypeOK, EntryType
<1>3. Count([w EXCEPT ![i] = Filled(p, i, e)], i) /\ \A j \in Entries : w[j].page # p
  OBVIOUS
<1> HIDE DEF e
<1>4. /\ cnt' \in 0 .. CounterWrap - 1
      /\ w' \in [Entries -> EntryType]
      /\ OneEntryPerPage'
  BY <1>2, <1>3, FilledEffect
<1>5. TypeOK'
  BY <1>1, <1>4, ServeChunk DEF IInv, TypeOK
<1>6. CallProgress'
  BY ServeChunk DEF IInv, CallProgress
<1> QED BY <1>1, <1>4, <1>5, <1>6 DEF IInv

\* The start of a write keeps the invariant: its buffer has its sectors.
LEMMA StartWriteInv ==
  ASSUME IInv, NEW A \in Ranges, NEW d \in Buffers(A), StartWrite(A, d)
  PROVE  IInv'
<1> USE DEF StartWrite
<1>1. A \subseteq Lba /\ d \in PartialData(Lba) /\ DOMAIN d = A
  BY PartialDataDef DEF Ranges, Buffers
<1>2. TypeOK'
  BY <1>1 DEF IInv, TypeOK, Job, JobOps
<1>3. OneEntryPerPage' /\ ReadCacheFresh'
  BY DEF IInv, OneEntryPerPage, ReadCacheFresh
<1>4. CallProgress'
  BY <1>1 DEF CallProgress, Job
<1> QED BY <1>2, <1>3, <1>4 DEF IInv

\* Calls that begin or end without touching the caches.
LEMMA JobStep ==
  ASSUME IInv, UNCHANGED <<disk, w, r, cnt>>,
         buf' \in {buf, NoData},
         job' \in [op : JobOps, range : SUBSET Lba, todo : SUBSET Lba,
                   idx : Nat, dev : Devs \cup {NoDev}],
         CallProgress'
  PROVE  IInv'
<1>1. TypeOK'
  BY NoDataType DEF IInv, TypeOK
<1>2. OneEntryPerPage' /\ ReadCacheFresh'
  BY DEF IInv, OneEntryPerPage, ReadCacheFresh
<1> QED BY <1>1, <1>2 DEF IInv

\* A new call has its type and all of its range to do.
LEMMA JobType ==
  ASSUME NEW op \in JobOps, NEW A \in SUBSET Lba
  PROVE  /\ Job(op, A) \in [op : JobOps, range : SUBSET Lba, todo : SUBSET Lba,
                            idx : Nat, dev : Devs \cup {NoDev}]
         /\ Job(op, A).op = op /\ Job(op, A).range = A /\ Job(op, A).todo = A
         /\ Job(op, A).idx = 0
BY DEF Job

\* Calls that begin or end without touching the caches keep the invariant.
LEMMA BeginEndInv ==
  ASSUME IInv,
         \/ EndWrite \/ EndRead \/ EndFlush
         \/ \E A \in Ranges : StartRead(A)
         \/ \E op \in {"flush", "close"} : StartFlush(op)
         \/ \E dev \in Devs : StartFlushDev(dev)
  PROVE  IInv'
<1>1. Idle = Job("idle", {}) /\ "idle" \in JobOps
  BY DEF Idle, JobOps
<1>2. CASE EndWrite
  <2>1. CallProgress'
    BY <1>1, <1>2, JobType DEF EndWrite, CallProgress
  <2> QED BY <1>1, <1>2, <2>1, JobType, JobStep DEF EndWrite
<1>3. CASE EndRead
  <2>1. CallProgress'
    BY <1>1, <1>3, JobType DEF EndRead, CallProgress
  <2> QED BY <1>1, <1>3, <2>1, JobType, JobStep DEF EndRead
<1>4. CASE EndFlush
  <2>1. CallProgress'
    BY <1>1, <1>4, JobType DEF EndFlush, CallProgress, IInv
  <2> QED BY <1>1, <1>4, <2>1, JobType, JobStep DEF EndFlush
<1>5. ASSUME NEW A \in Ranges, StartRead(A) PROVE IInv'
  <2>1. A \subseteq Lba /\ "read" \in JobOps
    BY DEF Ranges, JobOps
  <2>2. buf = NoData
    BY <1>1, <1>5, JobType DEF StartRead, IInv, CallProgress
  <2>3. CallProgress'
    BY <1>5, <2>1, <2>2, JobType, NoDataType DEF StartRead, CallProgress
  <2> QED BY <1>5, <2>1, <2>3, JobType, JobStep DEF StartRead
<1>6. ASSUME NEW op \in {"flush", "close"}, StartFlush(op) PROVE IInv'
  <2>1. op \in JobOps
    BY DEF JobOps
  <2>2. buf = NoData
    BY <1>1, <1>6, JobType DEF StartFlush, IInv, CallProgress
  <2>3. CallProgress'
    BY <1>6, <2>1, <2>2, JobType DEF StartFlush, CallProgress, Entries
  <2> QED BY <1>6, <2>1, <2>3, JobType, JobStep DEF StartFlush
<1>7. ASSUME NEW dev \in Devs, StartFlushDev(dev) PROVE IInv'
  <2>1. "flushdev" \in JobOps
    BY DEF JobOps
  <2>2. buf = NoData
    BY <1>1, <1>7, JobType DEF StartFlushDev, IInv, CallProgress
  <2>3. /\ job' \in [op : JobOps, range : SUBSET Lba, todo : SUBSET Lba,
                     idx : Nat, dev : Devs \cup {NoDev}]
        /\ job'.op = "flushdev" /\ job'.todo = {} /\ job'.range = {}
    BY <1>7, <2>1 DEF StartFlushDev, Job
  <2>4. CallProgress'
    BY <1>7, <2>2, <2>3 DEF StartFlushDev, CallProgress
  <2> QED BY <1>7, <2>3, <2>4, JobStep DEF StartFlushDev
<1> QED BY <1>2, <1>3, <1>4, <1>5, <1>6, <1>7

\* The driver restarts, or stops, with empty caches.
LEMMA EmptyInv ==
  ASSUME IInv,
         w' = [i \in Entries |-> FreeEntry], r' = NoPageRead, disk' = disk,
         cnt' \in {0, cnt}, job' \in {Idle, Closed}, buf' = NoData
  PROVE  IInv'
<1>1. /\ job' \in [op : JobOps, range : SUBSET Lba, todo : SUBSET Lba,
                   idx : Nat, dev : Devs \cup {NoDev}]
      /\ job'.op \in {"idle", "closed"} /\ job'.todo = {} /\ job'.range = {}
  BY DEF Idle, Closed, Job, JobOps
<1>2. cnt' \in 0 .. CounterWrap - 1
  BY EntryAssumption DEF IInv, TypeOK
<1>3. TypeOK'
  BY <1>1, <1>2, FreeEntryType, NoDataType DEF IInv, TypeOK
<1>4. OneEntryPerPage'
  BY FreeEntryType, NoDataType DEF OneEntryPerPage
<1>5. ReadCacheFresh'
  BY FreeEntryType DEF ReadCacheFresh
<1>6. CallProgress'
  BY <1>1, FreeEntryType DEF CallProgress
<1> QED BY <1>3, <1>4, <1>5, <1>6 DEF IInv

\* Reading a page keeps the invariant: whether it comes from the read cache or
\* from the medium, the buffer gets the values of the medium.
LEMMA ReadPageInv ==
  ASSUME IInv, NEW p \in Page, ReadPage(p)
  PROVE  IInv'
<1> DEFINE src == IF r.page = p THEN r.data ELSE Part(disk, SectorsOf(p))
           c == Part(src, Chunk(p))
<1>1. /\ job.op = "read"
      /\ buf' = Join(buf, c)
      /\ r' = IF r.page = p \/ FullChunk(p)
              THEN r ELSE [page |-> p, data |-> src]
      /\ job' = [job EXCEPT !.todo = @ \ Chunk(p)]
      /\ UNCHANGED <<disk, w, cnt>>
  BY DEF ReadPage
<1>2. disk \in PartialData(Lba) /\ DOMAIN disk = Lba
  BY PartialDataDef DEF IInv, TypeOK
<1>3. SectorsOf(p) \subseteq Lba
  BY DEF SectorsOf
<1>4. /\ src = Part(disk, SectorsOf(p))
      /\ src \in PartialData(Lba)
      /\ DOMAIN src = SectorsOf(p)
      /\ \A a \in SectorsOf(p) : src[a] = disk[a]
  <2>1. src = Part(disk, SectorsOf(p))
    BY NoPageIsNone DEF IInv, ReadCacheFresh
  <2> HIDE DEF src
  <2> QED BY <1>2, <1>3, <2>1, PartType
<1>5. Chunk(p) \subseteq SectorsOf(p) /\ Chunk(p) \subseteq job.todo
  BY DEF Chunk, SectorsOf, IInv, TypeOK
<1> HIDE DEF src
<1>6. /\ c \in PartialData(Lba) /\ DOMAIN c = Chunk(p)
      /\ \A a \in Chunk(p) : c[a] = disk[a]
  <2>1. \A a \in Chunk(p) : c[a] = src[a]
    BY <1>4, <1>5, PartType
  <2> QED BY <1>4, <1>5, <2>1, PartType
<1> HIDE DEF c
<1>7. buf \in PartialData(Lba)
  BY DEF IInv, TypeOK
<1>8. /\ Join(buf, c) \in PartialData(Lba)
      /\ DOMAIN Join(buf, c) = (DOMAIN buf) \cup (DOMAIN c)
      /\ \A a \in DOMAIN c : Join(buf, c)[a] = c[a]
      /\ \A a \in (DOMAIN buf) \ (DOMAIN c) : Join(buf, c)[a] = buf[a]
  BY <1>6, <1>7, JoinType
<1>9. r' \in [page : Page \cup {NoPage}, data : PartialData(Lba)]
  BY <1>1, <1>4 DEF IInv, TypeOK
<1>10. TypeOK'
  BY <1>1, <1>8, <1>9, ServeChunk DEF IInv, TypeOK
<1>11. OneEntryPerPage'
  BY <1>1 DEF IInv, OneEntryPerPage
<1>12. ReadCacheFresh'
  BY <1>1, <1>4 DEF IInv, ReadCacheFresh
<1>13. CallProgress'
  <2>1. /\ job'.op = "read" /\ job'.range = job.range
        /\ job'.todo = job.todo \ Chunk(p)
        /\ job'.todo \subseteq job'.range
    BY <1>1, ServeChunk
  <2>2. /\ DOMAIN buf = job.range \ job.todo
        /\ \A a \in DOMAIN buf : buf[a] = disk[a]
        /\ job.todo \subseteq job.range
    BY <1>1 DEF IInv, CallProgress
  <2>3. DOMAIN buf' = job'.range \ job'.todo
    BY <1>1, <1>5, <1>6, <1>8, <2>1, <2>2
  <2>4. \A a \in DOMAIN buf' : buf'[a] = disk'[a]
    BY <1>1, <1>6, <1>8, <2>2
  <2> QED BY <2>1, <2>3, <2>4 DEF CallProgress
<1> QED BY <1>10, <1>11, <1>12, <1>13 DEF IInv

\* A sector is held by one entry at most, so what the caller should see of it
\* does not depend on the order of the entries.
HeldOnce(e) ==
  \A i, j \in Entries : \A a \in Lba :
     a \in DOMAIN e[i].data /\ a \in DOMAIN e[j].data => i = j

\* With one entry per page no sector is in two entries.
LEMMA HeldOnceInv ==
  ASSUME NEW e,
         \A i, j \in Entries :
           e[i].page = e[j].page /\ e[i].page # NoPage => i = j,
         \A i \in Entries :
           /\ DOMAIN e[i].data \subseteq SectorsOf(e[i].page)
           /\ e[i].page = NoPage => e[i].data = NoData
  PROVE  HeldOnce(e)
<1> SUFFICES ASSUME NEW i \in Entries, NEW j \in Entries, NEW a \in Lba,
                    a \in DOMAIN e[i].data, a \in DOMAIN e[j].data
             PROVE  i = j
  BY DEF HeldOnce
<1>1. e[i].page = PageOf(a) /\ e[j].page = PageOf(a)
  BY DEF SectorsOf
<1>2. e[i].page # NoPage
  BY NoDataType
<1> QED BY <1>1, <1>2

\* The view of a sector: its value in the entry that has it, else the medium's.
LEMMA ViewValue ==
  ASSUME NEW d, NEW e, HeldOnce(e), NEW a \in Lba
  PROVE  /\ \A i \in Entries :
              a \in DOMAIN e[i].data => ViewOf(d, e)[a] = e[i].data[a]
         /\ (\A i \in Entries : a \notin DOMAIN e[i].data) => ViewOf(d, e)[a] = d[a]
<1>1. ASSUME NEW i \in Entries, a \in DOMAIN e[i].data
      PROVE  ViewOf(d, e)[a] = e[i].data[a]
  <2> DEFINE k == CHOOSE j \in Entries : a \in DOMAIN e[j].data
  <2>1. k \in Entries /\ a \in DOMAIN e[k].data
    BY <1>1
  <2>2. k = i
    BY <1>1, <2>1 DEF HeldOnce
  <2>3. ViewOf(d, e)[a] = e[k].data[a]
    BY <1>1 DEF ViewOf
  <2> QED BY <2>2, <2>3
<1>2. ASSUME \A i \in Entries : a \notin DOMAIN e[i].data
      PROVE  ViewOf(d, e)[a] = d[a]
  BY <1>2 DEF ViewOf
<1> QED BY <1>1, <1>2

\* The view before a step.
LEMMA ViewNow ==
  ASSUME IInv, NEW a \in Lba
  PROVE  /\ \A i \in Entries : a \in DOMAIN w[i].data => View[a] = w[i].data[a]
         /\ (\A i \in Entries : a \notin DOMAIN w[i].data) => View[a] = disk[a]
         /\ View[a] \in Value
<1>1. HeldOnce(w)
  BY HeldOnceInv DEF IInv, OneEntryPerPage
<1>2. /\ \A i \in Entries : a \in DOMAIN w[i].data => View[a] = w[i].data[a]
      /\ (\A i \in Entries : a \notin DOMAIN w[i].data) => View[a] = disk[a]
  BY <1>1, ViewValue DEF View
<1>3. disk[a] \in Value /\ \A i \in Entries : w[i].data \in PartialData(Lba)
  BY DEF IInv, TypeOK, EntryType
<1>4. \A i \in Entries : a \in DOMAIN w[i].data => w[i].data[a] \in Value
  BY <1>3, PartialDataDef
<1> QED BY <1>2, <1>3, <1>4

\* The view after a step.
LEMMA ViewNext ==
  ASSUME OneEntryPerPage', NEW a \in Lba
  PROVE  /\ \A i \in Entries : a \in DOMAIN w'[i].data => View'[a] = w'[i].data[a]
         /\ (\A i \in Entries : a \notin DOMAIN w'[i].data) => View'[a] = disk'[a]
<1>1. HeldOnce(w')
  BY HeldOnceInv DEF OneEntryPerPage
<1> QED BY <1>1, ViewValue DEF View

\* The overlay of _get_data_from_cache gives the view.
LEMMA RenewEffect ==
  ASSUME IInv, RenewFromCache
  PROVE  buf' = [a \in job.range |-> View[a]]
<1> DEFINE held(a) == CHOOSE i \in Entries :
                        /\ Holds(i, a)
                        /\ \A j \in Entries : Holds(j, a) => i <= j
<1>1. /\ job.op = "read" /\ job.todo = {}
      /\ buf' = [a \in job.range |->
                   IF \E i \in Entries : Holds(i, a)
                   THEN w[held(a)].data[a] ELSE buf[a]]
  BY DEF RenewFromCache
<1>2. /\ job.range \subseteq Lba /\ DOMAIN buf = job.range
      /\ \A a \in job.range : buf[a] = disk[a]
  BY <1>1 DEF IInv, TypeOK, CallProgress
<1>3. ASSUME NEW a \in job.range
      PROVE  (IF \E i \in Entries : Holds(i, a)
              THEN w[held(a)].data[a] ELSE buf[a]) = View[a]
  <2>1. CASE \E i \in Entries : Holds(i, a)
    <3>1. PICK i \in Entries : Holds(i, a)
      BY <2>1
    <3>2. \A j \in Entries : Holds(j, a) => i = j
      BY <1>2, <3>1, HeldOnceInv DEF Holds, HeldOnce, IInv, OneEntryPerPage
    <3>3. i <= i
      BY DEF Entries
    <3>4. held(a) \in Entries /\ Holds(held(a), a)
      BY <3>1, <3>2, <3>3
    <3> HIDE DEF held
    <3>5. View[a] = w[held(a)].data[a]
      BY <1>2, <3>4, ViewNow DEF Holds
    <3> QED BY <2>1, <3>5
  <2>2. CASE \A i \in Entries : ~Holds(i, a)
    <3>1. \A i \in Entries : a \notin DOMAIN w[i].data
      BY <1>2, <2>2 DEF Holds, IInv, OneEntryPerPage, SectorsOf
    <3> QED BY <1>2, <2>2, <3>1, ViewNow
  <2> QED BY <2>1, <2>2
<1> HIDE DEF held
<1> QED BY <1>1, <1>3

\* The overlay of the write cache keeps the invariant.
LEMMA RenewFromCacheInv ==
  ASSUME IInv, RenewFromCache
  PROVE  IInv'
<1>1. /\ job.op = "read" /\ job' = [job EXCEPT !.op = "answered"]
      /\ UNCHANGED <<disk, w, r, cnt>>
  BY DEF RenewFromCache
<1>2. buf' \in PartialData(Lba)
  <2>1. \A a \in job.range : View[a] \in Value
    BY ViewNow DEF IInv, TypeOK
  <2>2. DOMAIN buf' = job.range /\ buf' \in [job.range -> Value]
    BY <2>1, RenewEffect
  <2> QED BY <2>2, PartialDataDef DEF IInv, TypeOK
<1>3. /\ job' \in [op : JobOps, range : SUBSET Lba, todo : SUBSET Lba,
                   idx : Nat, dev : Devs \cup {NoDev}]
      /\ job'.op = "answered" /\ job'.range = job.range /\ job'.todo = job.todo
  BY <1>1 DEF IInv, TypeOK, JobOps
<1>4. TypeOK'
  BY <1>1, <1>2, <1>3 DEF IInv, TypeOK
<1>5. OneEntryPerPage' /\ ReadCacheFresh'
  BY <1>1 DEF IInv, OneEntryPerPage, ReadCacheFresh
<1>6. CallProgress'
  BY <1>3 DEF IInv, CallProgress
<1> QED BY <1>4, <1>5, <1>6 DEF IInv

\* A step of a flush keeps the invariant: behind its index all is free.
LEMMA FlushEntryInv ==
  ASSUME IInv, NEW i \in Entries, FlushEntry(i)
  PROVE  IInv'
<1>1. /\ job.op \in {"flush", "close", "flushdev"} /\ job.idx = i
      /\ job' = [job EXCEPT !.idx = i + 1]
      /\ UNCHANGED <<cnt, buf>>
  BY DEF FlushEntry
<1>2. /\ job' \in [op : JobOps, range : SUBSET Lba, todo : SUBSET Lba,
                   idx : Nat, dev : Devs \cup {NoDev}]
      /\ job'.op = job.op /\ job'.range = job.range /\ job'.todo = job.todo
      /\ job'.idx = i + 1
  BY <1>1 DEF IInv, TypeOK, Entries
<1>3. CASE UNCHANGED <<disk, w, r>> /\ (w[i].page = NoPage \/ job.op = "flushdev")
  <2>1. TypeOK'
    BY <1>1, <1>2, <1>3 DEF IInv, TypeOK
  <2>2. OneEntryPerPage' /\ ReadCacheFresh'
    BY <1>3 DEF IInv, OneEntryPerPage, ReadCacheFresh
  <2>3. CallProgress'
    BY <1>1, <1>2, <1>3 DEF IInv, CallProgress, Entries
  <2> QED BY <2>1, <2>2, <2>3 DEF IInv
<1>4. CASE /\ w[i].page # NoPage
           /\ WriteBack(i)
           /\ DropRead(w[i].page)
           /\ w' = [w EXCEPT ![i] = IF job.op = "flushdev" THEN FreeEntry
                                    ELSE [FreeEntry EXCEPT !.dev = w[i].dev]]
  <2> DEFINE f == IF job.op = "flushdev" THEN FreeEntry
                  ELSE [FreeEntry EXCEPT !.dev = w[i].dev]
  <2>1. f \in EntryType /\ f.page = NoPage /\ f.data = NoData
    BY FreeEntryType DEF IInv, TypeOK, EntryType, FreeEntry
  <2>2. w' = [w EXCEPT ![i] = f]
    BY <1>4
  <2> HIDE DEF f
  <2>3. /\ w' \in [Entries -> EntryType] /\ w'[i] = f
        /\ \A j \in Entries \ {i} : w'[j] = w[j]
    BY <2>1, <2>2 DEF IInv, TypeOK
  <2>4. /\ disk' \in [Lba -> Value]
        /\ r' \in [page : Page \cup {NoPage}, data : PartialData(Lba)]
        /\ ReadCacheFresh'
    BY <1>4, WriteBackEffect, ReadCacheStep
  <2>5. TypeOK'
    BY <1>1, <1>2, <2>3, <2>4 DEF IInv, TypeOK
  <2>6. OneEntryPerPage'
    BY <2>1, <2>3, NoDataType DEF IInv, OneEntryPerPage
  <2>7. CallProgress'
    BY <1>1, <1>2, <2>1, <2>3 DEF IInv, CallProgress, Entries
  <2> QED BY <2>4, <2>5, <2>6, <2>7 DEF IInv
<1> QED BY <1>3, <1>4 DEF FlushEntry

\* Closing, opening and losses of power keep the invariant.
LEMMA StopStartInv ==
  ASSUME IInv, EndClose \/ Open \/ Crash
  PROVE  IInv'
<1>1. Closed.op = "closed"
  BY DEF Closed, Job
<1>2. CASE EndClose
  BY <1>2, EmptyInv DEF EndClose, IInv, CallProgress
<1>3. CASE Open
  BY <1>1, <1>3, EmptyInv DEF Open, IInv, CallProgress
<1>4. CASE Crash
  BY <1>4, EmptyInv DEF Crash
<1> QED BY <1>2, <1>3, <1>4

\* The invariant is inductive.
LEMMA NextInv == IInv /\ [Next]_vars => IInv'
<1> SUFFICES ASSUME IInv, [Next]_vars PROVE IInv'
  OBVIOUS
<1>1. CASE Call
  BY <1>1, StartWriteInv, BeginEndInv, StopStartInv DEF Call
<1>2. CASE WriteStep
  BY <1>2, FlushPreviousInv, WriteFullPageInv, FillHitInv, FillFreeInv,
     FillEvictInv, BeginEndInv DEF WriteStep
<1>3. CASE ReadStep
  BY <1>3, ReadPageInv, RenewFromCacheInv, BeginEndInv DEF ReadStep
<1>4. CASE FlushStep
  BY <1>4, FlushEntryInv, BeginEndInv, StopStartInv DEF FlushStep
<1>5. CASE Crash
  BY <1>5, StopStartInv
<1>6. CASE UNCHANGED vars
  BY <1>6 DEF vars, IInv, TypeOK, OneEntryPerPage, ReadCacheFresh, CallProgress
<1> QED BY <1>1, <1>2, <1>3, <1>4, <1>5, <1>6 DEF Next, Work

\* The inductive invariant holds in every reachable state: types, one entry per
\* page, a true read cache and the progress of the call (IInv).
THEOREM Invariance == Spec => []IInv
BY InitInv, NextInv, PTL DEF Spec

\* The caches, the medium and the call in progress stay in their types.
THEOREM TypeCorrect == Spec => []TypeOK
<1>1. IInv => TypeOK
  BY DEF IInv
<1> QED BY <1>1, Invariance, PTL

\* No page is in two write cache entries, so that no older copy of a sector can
\* be flushed after a newer one (_fill_nand_cache).
THEOREM UniqueEntries == Spec => []OneEntryPerPage
<1>1. IInv => OneEntryPerPage
  BY DEF IInv
<1> QED BY <1>1, Invariance, PTL

\* The read cache holds its page as it is on the medium: every path of
\* logic_cache.c that writes a page has dropped it.
THEOREM FreshReads == Spec => []ReadCacheFresh
<1>1. IInv => ReadCacheFresh
  BY DEF IInv
<1> QED BY <1>1, Invariance, PTL

(***************************************************************************)
(* What a step does to the medium and to the view.                         *)
(***************************************************************************)
\* Writing back entry i and reusing it: the view keeps its values, but for
\* the sectors of C, which the entry takes from the caller's buffer.
LEMMA EvictView ==
  ASSUME IInv, OneEntryPerPage', NEW i \in Entries, NEW C \in SUBSET Lba,
         WriteBack(i),
         DOMAIN w'[i].data = C,
         \A a \in C : w'[i].data[a] = buf[a],
         \A a \in C : \A j \in Entries : a \notin DOMAIN w[j].data,
         \A j \in Entries \ {i} : w'[j].data = w[j].data
  PROVE  \A a \in Lba : /\ View'[a] = IF a \in C THEN buf[a] ELSE View[a]
                        /\ disk'[a] \in {disk[a], View'[a]}
<1> SUFFICES ASSUME NEW a \in Lba
             PROVE  /\ View'[a] = IF a \in C THEN buf[a] ELSE View[a]
                    /\ disk'[a] \in {disk[a], View'[a]}
  OBVIOUS
<1>1. disk'[a] = IF a \in DOMAIN w[i].data THEN w[i].data[a] ELSE disk[a]
  BY WriteBackEffect
<1>2. HeldOnce(w)
  BY HeldOnceInv DEF IInv, OneEntryPerPage
<1>3. CASE a \in C
  <2>1. View'[a] = buf[a]
    BY <1>3, ViewNext
  <2>2. disk'[a] = disk[a]
    BY <1>1, <1>3
  <2> QED BY <1>3, <2>1, <2>2
<1>4. CASE a \notin C /\ a \in DOMAIN w[i].data
  <2>1. \A j \in Entries : a \notin DOMAIN w'[j].data
    BY <1>2, <1>4 DEF HeldOnce
  <2>2. View'[a] = disk'[a] /\ View[a] = w[i].data[a]
    BY <1>4, <2>1, ViewNow, ViewNext
  <2> QED BY <1>1, <1>4, <2>2
<1>5. CASE a \notin C /\ a \notin DOMAIN w[i].data
  <2>1. disk'[a] = disk[a]
    BY <1>1, <1>5
  <2>2. \A j \in Entries : a \in DOMAIN w'[j].data <=> a \in DOMAIN w[j].data
    BY <1>5
  <2>3. View'[a] = View[a]
    <3>1. CASE \E j \in Entries : a \in DOMAIN w[j].data
      BY <1>5, <2>2, <3>1, ViewNow, ViewNext
    <3>2. CASE \A j \in Entries : a \notin DOMAIN w[j].data
      BY <2>1, <2>2, <3>2, ViewNow, ViewNext
    <3> QED BY <3>1, <3>2
  <2> QED BY <1>5, <2>1, <2>3
<1> QED BY <1>3, <1>4, <1>5

\* Nothing is written to the medium, and the entries keep what they hold.
LEMMA SameView ==
  ASSUME UNCHANGED <<disk, w>>
  PROVE  View' = View
BY DEF View, ViewOf

\* The effect of a step that serves a chunk of a write.
Served(p) ==
  /\ job.op = "write" /\ UNCHANGED buf
  /\ job' = [job EXCEPT !.todo = @ \ Chunk(p)]
  /\ disk' \in [Lba -> Value]
  /\ \A a \in Lba : /\ View'[a] = IF a \in Chunk(p) THEN buf[a] ELSE View[a]
                    /\ disk'[a] \in {disk[a], View'[a]}

\* A page without an entry has no sector in the write cache.
LEMMA ChunkNotHeld ==
  ASSUME IInv, NEW p \in Page,
         \A j \in Entries : w[j].page # p
  PROVE  \A a \in Chunk(p) : \A j \in Entries : a \notin DOMAIN w[j].data
BY DEF IInv, OneEntryPerPage, Chunk, SectorsOf

\* The write of a full page serves its part of the request.
LEMMA WriteFullPageServes ==
  ASSUME IInv, NEW p \in Page, WriteFullPage(p)
  PROVE  Served(p)
<1> DEFINE d == Part(buf, Chunk(p))
<1>1. /\ job.op = "write" /\ FullChunk(p)
      /\ \A i \in Entries : w'[i].data = IF w[i].page = p THEN NoData ELSE w[i].data
      /\ disk' = Overlay(disk, d)
      /\ job' = [job EXCEPT !.todo = @ \ Chunk(p)]
      /\ buf' = buf
  BY FreeEntryType DEF WriteFullPage, FreeEntry
<1>2. /\ d \in PartialData(Lba) /\ DOMAIN d = Chunk(p)
      /\ \A a \in Chunk(p) : d[a] = buf[a]
      /\ Chunk(p) = SectorsOf(p)
  BY <1>1, ChunkData DEF FullChunk
<1>3. disk \in [Lba -> Value]
  BY DEF IInv, TypeOK
<1> HIDE DEF d
<1>4. /\ disk' \in [Lba -> Value]
      /\ \A a \in Lba : disk'[a] = IF a \in Chunk(p) THEN buf[a] ELSE disk[a]
  <2>1. /\ Overlay(disk, d) \in [Lba -> Value]
        /\ \A a \in Lba : Overlay(disk, d)[a] = IF a \in DOMAIN d THEN d[a] ELSE disk[a]
    BY <1>2, <1>3, OverlayType
  <2> QED BY <1>1, <1>2, <2>1
<1>5. OneEntryPerPage'
  BY WriteFullPageInv DEF IInv
<1>6. ASSUME NEW a \in Lba
      PROVE  View'[a] = IF a \in Chunk(p) THEN buf[a] ELSE View[a]
  <2>1. CASE a \in Chunk(p)
    <3>1. \A i \in Entries : a \notin DOMAIN w'[i].data
      BY <1>1, <1>2, <2>1, NoDataType DEF IInv, OneEntryPerPage, SectorsOf
    <3> QED BY <1>4, <1>5, <2>1, <3>1, ViewNext
  <2>2. CASE a \notin Chunk(p)
    <3>1. \A i \in Entries : a \in DOMAIN w[i].data => w'[i].data = w[i].data
      BY <1>1, <1>2, <2>2 DEF IInv, OneEntryPerPage
    <3>2. \A i \in Entries : a \in DOMAIN w'[i].data <=> a \in DOMAIN w[i].data
      BY <1>1, <3>1, NoDataType
    <3>3. CASE \E i \in Entries : a \in DOMAIN w[i].data
      BY <1>5, <2>2, <3>1, <3>2, <3>3, ViewNow, ViewNext
    <3>4. CASE \A i \in Entries : a \notin DOMAIN w[i].data
      BY <1>4, <1>5, <2>2, <3>2, <3>4, ViewNow, ViewNext
    <3> QED BY <3>3, <3>4
  <2> QED BY <2>1, <2>2
<1>7. \A a \in Lba : disk'[a] \in {disk[a], View'[a]}
  BY <1>4, <1>6
<1> QED BY <1>1, <1>4, <1>6, <1>7 DEF Served

\* Adding to the entry of a page serves the page's part of the request.
LEMMA FillHitServes ==
  ASSUME IInv, NEW p \in Page, NEW i \in Entries, FillHit(p, i)
  PROVE  Served(p)
<1>1. /\ OneEntryPerPage' /\ disk' \in [Lba -> Value]
      /\ disk' = disk /\ disk \in [Lba -> Value]
  BY FillHitInv, FillHitEffect DEF IInv, TypeOK
<1>2. \A a \in Chunk(p) : \A j \in Entries \ {i} : a \notin DOMAIN w[j].data
  <2>1. w[i].page = p /\ p # NoPage
    BY FillHitEffect, NoPageIsNone
  <2>2. \A j \in Entries \ {i} : w[j].page # p
    BY <2>1 DEF IInv, OneEntryPerPage
  <2>3. \A j \in Entries : DOMAIN w[j].data \subseteq SectorsOf(w[j].page)
    BY DEF IInv, OneEntryPerPage
  <2> QED BY <2>2, <2>3 DEF Chunk, SectorsOf
<1>3. ASSUME NEW a \in Lba
      PROVE  View'[a] = IF a \in Chunk(p) THEN buf[a] ELSE View[a]
  <2>1. CASE a \in Chunk(p)
    BY <1>1, <2>1, FillHitEffect, ViewNext
  <2>2. CASE a \notin Chunk(p)
    <3>1. \A j \in Entries : a \in DOMAIN w'[j].data <=> a \in DOMAIN w[j].data
      BY <2>2, FillHitEffect
    <3>2. \A j \in Entries : a \in DOMAIN w[j].data => w'[j].data[a] = w[j].data[a]
      BY <2>2, FillHitEffect
    <3>3. CASE \E j \in Entries : a \in DOMAIN w[j].data
      BY <1>1, <2>2, <3>1, <3>2, <3>3, ViewNow, ViewNext
    <3>4. CASE \A j \in Entries : a \notin DOMAIN w[j].data
      BY <1>1, <2>2, <3>1, <3>4, ViewNow, ViewNext
    <3> QED BY <3>3, <3>4
  <2> QED BY <2>1, <2>2
<1> QED BY <1>1, <1>3, FillHitEffect DEF Served

\* Taking a free entry serves the page's part of the request.
LEMMA FillFreeServes ==
  ASSUME IInv, NEW p \in Page, NEW i \in Entries, NEW dev \in Devs,
         FillFree(p, i, dev)
  PROVE  Served(p)
<1>1. /\ job.op = "write" /\ w[i].page = NoPage
      /\ job' = [job EXCEPT !.todo = @ \ Chunk(p)]
      /\ UNCHANGED <<disk, r, buf>>
      /\ \A j \in Entries : w[j].page # p
  BY DEF FillFree, FirstFree
<1>2. /\ w'[i].page = p /\ w'[i].data = Part(buf, Chunk(p))
      /\ \A j \in Entries \ {i} : w'[j].data = w[j].data
      /\ OneEntryPerPage'
  BY FilledEffect DEF FillFree
<1>3. w[i].data = NoData /\ DOMAIN w[i].data = {} /\ disk \in [Lba -> Value]
  BY <1>1, NoDataType DEF IInv, OneEntryPerPage, TypeOK
<1>4. /\ DOMAIN w'[i].data = Chunk(p)
      /\ \A a \in Chunk(p) : w'[i].data[a] = buf[a]
  BY <1>1, <1>2, ChunkData
<1>5. WriteBack(i)
  BY <1>1, <1>3 DEF WriteBack, Overlay
<1>6. /\ \A a \in Chunk(p) : \A j \in Entries : a \notin DOMAIN w[j].data
      /\ Chunk(p) \in SUBSET Lba
  BY <1>1, ChunkNotHeld DEF Chunk, IInv, TypeOK
<1>7. \A a \in Lba : /\ View'[a] = IF a \in Chunk(p) THEN buf[a] ELSE View[a]
                     /\ disk'[a] \in {disk[a], View'[a]}
  BY <1>2, <1>4, <1>5, <1>6, EvictView
<1> QED BY <1>1, <1>3, <1>7 DEF Served

\* Evicting an entry serves the page's part of the request.
LEMMA FillEvictServes ==
  ASSUME IInv, NEW p \in Page, NEW i \in Entries, NEW dev \in Devs,
         FillEvict(p, i, dev)
  PROVE  Served(p)
<1> DEFINE e == IF StopsAt(i, p) THEN dev ELSE w[i].dev
<1>1. /\ job.op = "write" /\ WriteBack(i)
      /\ job' = [job EXCEPT !.todo = @ \ Chunk(p)]
      /\ UNCHANGED buf
      /\ \A j \in Entries : w[j].page # p
      /\ Count([w EXCEPT ![i] = Filled(p, i, e)], i)
  BY DEF FillEvict
<1>2. e \in Devs \cup {NoDev}
  BY DEF IInv, TypeOK, EntryType
<1> HIDE DEF e
<1>3. /\ w'[i].page = p /\ w'[i].data = Part(buf, Chunk(p))
      /\ \A j \in Entries \ {i} : w'[j].data = w[j].data
      /\ OneEntryPerPage'
  BY <1>1, <1>2, FilledEffect
<1>4. /\ DOMAIN w'[i].data = Chunk(p)
      /\ \A a \in Chunk(p) : w'[i].data[a] = buf[a]
  BY <1>1, <1>3, ChunkData
<1>5. /\ \A a \in Chunk(p) : \A j \in Entries : a \notin DOMAIN w[j].data
      /\ Chunk(p) \in SUBSET Lba
  BY <1>1, ChunkNotHeld DEF Chunk, IInv, TypeOK
<1>6. \A a \in Lba : /\ View'[a] = IF a \in Chunk(p) THEN buf[a] ELSE View[a]
                     /\ disk'[a] \in {disk[a], View'[a]}
  BY <1>1, <1>3, <1>4, <1>5, EvictView
<1> QED BY <1>1, <1>6, WriteBackEffect DEF Served

\* The effect of a step of a flush, or of any step that only moves values
\* from the write cache to the medium.
Settled ==
  /\ disk' \in [Lba -> Value]
  /\ \A a \in Lba : View'[a] = View[a] /\ disk'[a] \in {disk[a], View'[a]}

\* Writing an entry back and freeing it leaves the view alone.
LEMMA WriteBackSettles ==
  ASSUME IInv, OneEntryPerPage', NEW i \in Entries, WriteBack(i),
         w'[i].data = NoData,
         \A j \in Entries \ {i} : w'[j].data = w[j].data
  PROVE  Settled
<1>1. DOMAIN w'[i].data = {}
  BY NoDataType
<1>2. \A a \in Lba : View'[a] = View[a] /\ disk'[a] \in {disk[a], View'[a]}
  BY <1>1, EvictView
<1> QED BY <1>2, WriteBackEffect DEF Settled

\* A step that leaves medium and entries alone leaves the view alone.
LEMMA SameSettles ==
  ASSUME IInv, UNCHANGED <<disk, w>>
  PROVE  Settled
BY SameView DEF Settled, IInv, TypeOK

\* Flushing the page before a full page leaves the view alone.
LEMMA FlushPreviousSettles ==
  ASSUME IInv, NEW p \in Page, NEW i \in Entries, FlushPrevious(p, i)
  PROVE  Settled
<1>1. /\ w'[i].data = NoData
      /\ \A j \in Entries \ {i} : w'[j].data = w[j].data
  BY FreeEntryType DEF FlushPrevious, IInv, TypeOK
<1>2. OneEntryPerPage'
  BY FlushPreviousInv DEF IInv
<1> QED BY <1>1, <1>2, WriteBackSettles DEF FlushPrevious

\* A step of a flush leaves the view alone.
LEMMA FlushEntrySettles ==
  ASSUME IInv, NEW i \in Entries, FlushEntry(i)
  PROVE  Settled
<1> DEFINE f == IF job.op = "flushdev" THEN FreeEntry
                ELSE [FreeEntry EXCEPT !.dev = w[i].dev]
<1>1. f.data = NoData
  BY FreeEntryType DEF FreeEntry
<1>2. CASE UNCHANGED <<disk, w, r>>
  BY <1>2, SameSettles
<1>3. CASE WriteBack(i) /\ w' = [w EXCEPT ![i] = f]
  <2> HIDE DEF f
  <2>1. /\ w'[i].data = NoData
        /\ \A j \in Entries \ {i} : w'[j].data = w[j].data
    BY <1>1, <1>3 DEF IInv, TypeOK
  <2>2. OneEntryPerPage'
    BY FlushEntryInv DEF IInv
  <2> QED BY <1>3, <2>1, <2>2, WriteBackSettles
<1> QED BY <1>2, <1>3 DEF FlushEntry

\* Empty entries hide nothing of the medium.
LEMMA EmptyView ==
  ASSUME IInv, \A i \in Entries : w[i].page = NoPage
  PROVE  View = disk
<1>1. \A a \in Lba : View[a] = disk[a]
  BY ViewNow, NoDataType DEF IInv, OneEntryPerPage
<1>2. View = [a \in Lba |-> View[a]] /\ disk = [a \in Lba |-> disk[a]]
  BY DEF View, ViewOf, IInv, TypeOK
<1> QED BY <1>1, <1>2

\* After the caches were emptied the view is the medium.
LEMMA EmptyNextView ==
  ASSUME w' = [i \in Entries |-> FreeEntry], disk' = disk, IInv, IInv'
  PROVE  View' = disk
<1>1. \A a \in Lba : View'[a] = disk[a]
  BY ViewNext, FreeEntryType, NoDataType DEF IInv
<1>2. View' = [a \in Lba |-> View'[a]] /\ disk = [a \in Lba |-> disk[a]]
  BY DEF View, ViewOf, IInv, TypeOK
<1> QED BY <1>1, <1>2

(***************************************************************************)
(* Flushing a device.                                                      *)
(***************************************************************************)
\* Entries in use carry a device number, also the one an eviction has left
\* (line 359), and a flush of the only device leaves none of them behind it.
KnownDevs == \A i \in Entries : w[i].page # NoPage => w[i].dev \in Devs
BehindFree ==
  job.op = "flushdev" /\ Devs = {job.dev} =>
    \A i \in Entries : i < job.idx => w[i].page = NoPage
DevInv == KnownDevs /\ BehindFree

\* Writes keep the numbers of the entries or take that of the call.
LEMMA WriteKnowsDevs ==
  ASSUME IInv, KnownDevs, WriteStep
  PROVE  KnownDevs'
<1>1. w \in [Entries -> EntryType] /\ cnt \in 0 .. CounterWrap - 1 /\ NoPage \notin Page
  BY NoPageIsNone DEF IInv, TypeOK
<1>2. ASSUME NEW p \in Page, NEW i \in Entries, FlushPrevious(p, i)
      PROVE  KnownDevs'
  BY <1>1, <1>2, FreeEntryType DEF FlushPrevious, KnownDevs
<1>3. ASSUME NEW p \in Page, WriteFullPage(p)
      PROVE  KnownDevs'
  BY <1>1, <1>3, FreeEntryType DEF WriteFullPage, KnownDevs, EntryType, FreeEntry
<1>4. ASSUME NEW p \in Page, NEW i \in Entries, FillHit(p, i)
      PROVE  KnownDevs'
  <2> DEFINE d == Join(w[i].data, Part(buf, Chunk(p)))
             new == [w EXCEPT ![i].data = d]
  <2>1. Count(new, i)
    BY <1>4 DEF FillHit
  <2>2. d \in PartialData(Lba)
    <3>1. job.op = "write"
      BY <1>4 DEF FillHit
    <3>2. Part(buf, Chunk(p)) \in PartialData(Lba) /\ w[i].data \in PartialData(Lba)
      BY <1>1, <3>1, ChunkData DEF IInv, EntryType
    <3> QED BY <3>2, JoinType
  <2> HIDE DEF d
  <2>3. /\ new \in [Entries -> EntryType]
        /\ \A j \in Entries : new[j].page = w[j].page /\ new[j].dev = w[j].dev
    BY <1>1, <2>2 DEF EntryType
  <2> HIDE DEF new
  <2> QED BY <1>1, <2>1, <2>3, CountEffect DEF KnownDevs
<1>5. ASSUME NEW p \in Page, NEW i \in Entries, NEW dev \in Devs, job.op = "write",
             Count([w EXCEPT ![i] = Filled(p, i, dev)], i)
      PROVE  KnownDevs'
  <2> DEFINE new == [w EXCEPT ![i] = Filled(p, i, dev)]
  <2>1. Filled(p, i, dev) \in EntryType /\ Filled(p, i, dev).dev = dev
    BY <1>1, <1>5, ChunkData DEF IInv, TypeOK, EntryType, Filled
  <2>2. /\ new \in [Entries -> EntryType]
        /\ \A j \in Entries : new[j].dev = dev \/ new[j] = w[j]
    BY <1>1, <2>1
  <2>3. Count(new, i)
    BY <1>5
  <2> HIDE DEF new
  <2> QED BY <1>1, <2>2, <2>3, CountEffect DEF KnownDevs
<1>6. ASSUME NEW p \in Page, NEW i \in Entries, NEW dev \in Devs, FillEvict(p, i, dev)
      PROVE  KnownDevs'
  <2> DEFINE e == IF StopsAt(i, p) THEN dev ELSE w[i].dev
  <2>1. job.op = "write" /\ Count([w EXCEPT ![i] = Filled(p, i, e)], i)
    BY <1>6 DEF FillEvict
  <2>2. e \in Devs
    BY <1>1, <1>6 DEF FillEvict, KnownDevs
  <2> HIDE DEF e
  <2> QED BY <1>5, <2>1, <2>2
<1>7. CASE EndWrite
  BY <1>7 DEF EndWrite, KnownDevs
<1>8. ASSUME NEW p \in Page, NEW i \in Entries, NEW dev \in Devs, FillFree(p, i, dev)
      PROVE  KnownDevs'
  BY <1>5, <1>8 DEF FillFree
<1> QED BY <1>2, <1>3, <1>4, <1>6, <1>7, <1>8 DEF WriteStep

\* The step of a flush that leaves an entry alone passes a free one, when
\* there is one device.
LEMMA FlushEntryDevs ==
  ASSUME IInv, DevInv, NEW i \in Entries, FlushEntry(i)
  PROVE  DevInv'
<1>1. /\ w \in [Entries -> EntryType] /\ job.idx = i
      /\ job' = [job EXCEPT !.idx = i + 1]
      /\ job'.op = job.op /\ job'.dev = job.dev /\ job'.idx = i + 1
  BY DEF IInv, TypeOK, FlushEntry
<1>2. CASE /\ UNCHANGED w
           /\ w[i].page = NoPage \/ (job.op = "flushdev" /\ w[i].dev # job.dev)
  BY <1>1, <1>2 DEF DevInv, KnownDevs, BehindFree, Entries
<1>3. CASE w' = [w EXCEPT ![i] = IF job.op = "flushdev" THEN FreeEntry
                                 ELSE [FreeEntry EXCEPT !.dev = w[i].dev]]
  <2>1. w'[i].page = NoPage /\ \A j \in Entries \ {i} : w'[j] = w[j]
    BY <1>1, <1>3, FreeEntryType DEF FreeEntry
  <2> QED BY <1>1, <2>1 DEF DevInv, KnownDevs, BehindFree, Entries
<1> QED BY <1>2, <1>3 DEF FlushEntry

\* Every step keeps the numbers and the progress of a flush.
LEMMA DevStep == IInv /\ DevInv /\ [Next]_vars => DevInv'
<1> SUFFICES ASSUME IInv, DevInv, [Next]_vars PROVE DevInv'
  OBVIOUS
<1> USE DEF DevInv
<1>1. CASE WriteStep
  <2>1. /\ job.op = "write"
        /\ job' = Idle \/ job' = job \/ \E p \in Page : job' = [job EXCEPT !.todo = @ \ Chunk(p)]
    BY <1>1 DEF WriteStep, FlushPrevious, WriteFullPage, FillHit, FillFree,
                FillEvict, EndWrite
  <2>2. job'.op # "flushdev"
    BY <2>1 DEF Idle, Job, IInv, TypeOK
  <2> QED BY <1>1, <2>2, WriteKnowsDevs DEF BehindFree
<1>2. CASE \E i \in Entries : FlushEntry(i)
  BY <1>2, FlushEntryDevs
<1>3. CASE EndClose \/ Open \/ Crash
  BY <1>3, FreeEntryType
  DEF EndClose, Open, Crash, KnownDevs, BehindFree, Closed, Idle, Job
<1>4. CASE ReadStep \/ EndFlush
  <2>1. UNCHANGED w /\ job'.op # "flushdev"
    BY <1>4 DEF ReadStep, ReadPage, RenewFromCache, EndRead, EndFlush, Idle, Job,
                IInv, TypeOK
  <2> QED BY <2>1 DEF KnownDevs, BehindFree
<1>5. CASE Call
  <2>1. CASE Open
    BY <1>3, <2>1
  <2>2. CASE ~Open
    <3>1. UNCHANGED w /\ (job'.op = "flushdev" => job'.idx = 0)
      BY <1>5, <2>2 DEF Call, StartWrite, StartRead, StartFlush, StartFlushDev, Job
    <3> QED BY <3>1 DEF KnownDevs, BehindFree, Entries
  <2> QED BY <2>1, <2>2
<1>6. CASE UNCHANGED vars
  BY <1>6 DEF vars, KnownDevs, BehindFree
<1> QED BY <1>1, <1>2, <1>3, <1>4, <1>5, <1>6 DEF Next, Work, FlushStep

\* NAND_CacheFlushDev of the only device writes all back, though the device
\* number of an evicting fill goes astray (line 359).
THEOREM FlushDevComplete == Spec => []FlushDevFlushesAll
<1>1. Init => DevInv
  BY FreeEntryType DEF Init, DevInv, KnownDevs, BehindFree, Idle, Job
<1>2. IInv /\ DevInv => FlushDevFlushesAll
  <2> SUFFICES ASSUME IInv, DevInv, job.op = "flushdev", job.idx = EntryCnt,
                      Devs = {job.dev}
               PROVE  View = disk
    BY DEF FlushDevFlushesAll
  <2>1. \A i \in Entries : i < EntryCnt
    BY EntryAssumption DEF Entries
  <2>2. \A i \in Entries : w[i].page = NoPage
    BY <2>1 DEF DevInv, BehindFree
  <2> QED BY <2>2, EmptyView
<1> QED BY <1>1, <1>2, DevStep, Invariance, PTL DEF Spec

(***************************************************************************)
(* A value on the medium is never replaced by an older one.                *)
(***************************************************************************)
Forward == \A a \in Lba : disk'[a] # disk[a] => disk'[a] = View'[a]

\* No step puts an older value over a newer one on the medium.
LEMMA StepForward == IInv /\ [Next]_vars => Forward
<1> SUFFICES ASSUME IInv, [Next]_vars PROVE Forward
  OBVIOUS
<1>1. CASE disk' = disk
  BY <1>1 DEF Forward
<1>2. ASSUME NEW p \in Page, Served(p) PROVE Forward
  BY <1>2 DEF Served, Forward
<1>3. ASSUME Settled PROVE Forward
  BY <1>3 DEF Settled, Forward
<1>4. CASE WriteStep
  <2>1. CASE EndWrite
    BY <1>1, <2>1 DEF EndWrite
  <2>2. ASSUME NEW p \in Page,
               \/ \E i \in Entries : FlushPrevious(p, i)
               \/ WriteFullPage(p)
               \/ \E i \in Entries : FillHit(p, i)
               \/ \E i \in Entries, dev \in Devs : FillFree(p, i, dev)
               \/ \E i \in Entries, dev \in Devs : FillEvict(p, i, dev)
        PROVE  Forward
    BY <1>2, <1>3, <2>2, FlushPreviousSettles, WriteFullPageServes,
       FillHitServes, FillFreeServes, FillEvictServes
  <2> QED BY <1>4, <2>1, <2>2 DEF WriteStep
<1>5. CASE FlushStep
  BY <1>1, <1>3, <1>5, FlushEntrySettles DEF FlushStep, EndFlush, EndClose
<1>6. CASE Call \/ ReadStep \/ Crash \/ UNCHANGED vars
  BY <1>1, <1>6 DEF Call, ReadStep, Crash, vars, StartWrite, StartRead,
     StartFlush, StartFlushDev, Open, ReadPage, RenewFromCache, EndRead
<1> QED BY <1>4, <1>5, <1>6 DEF Next, Work

\* The medium only moves forward: no eviction, flush or full page write of
\* logic_cache.c ever replaces a sector by anything but its newest value.
THEOREM MediumForward == Spec => MediumMovesForward
<1>1. IInv /\ [Next]_vars =>
        [\A a \in Lba : disk'[a] # disk[a] => disk'[a] = View'[a]]_vars
  BY StepForward DEF Forward
<1> QED BY <1>1, Invariance, PTL DEF Spec, MediumMovesForward

(***************************************************************************)
(* The caches implement the sector disk: initial states and steps map to   *)
(* initial states and steps (or stutters) of SectorDisk.                   *)
(***************************************************************************)
SDBuf == IF job.op = "read" THEN NoData ELSE buf

\* The initial states are initial states of the sector disk.
LEMMA InitRefines == Init => SD!DiskInit
<1> SUFFICES ASSUME Init PROVE SD!DiskInit
  OBVIOUS
<1>1. IInv /\ \A i \in Entries : w[i].page = NoPage
  BY InitInv, FreeEntryType DEF Init
<1>2. View = disk /\ disk = [a \in Lba |-> Blank]
  BY <1>1, EmptyView DEF Init
<1>3. job.op = "idle" /\ buf = NoData
  BY DEF Init, Idle, Job
<1>4. Phase = "idle" /\ Left = {}
  BY <1>3 DEF Phase, Left
<1> QED BY <1>2, <1>3, <1>4 DEF SD!DiskInit, SD!NoData, NoData

\* The two idle states, by name.
LEMMA IdleJob == Idle.op = "idle" /\ Closed.op = "closed"
BY DEF Idle, Closed, Job

\* Serving a page of a write is a Store.
LEMMA ServedRefines ==
  ASSUME IInv, NEW p \in Page, Served(p)
  PROVE  SD!Store
<1>1. /\ Phase = "writing" /\ Phase' = "writing" /\ SDBuf = buf /\ SDBuf' = buf
      /\ Left = job.todo /\ Left' = job.todo \ Chunk(p)
  BY ServeChunk DEF Served, Phase, Left, SDBuf
<1>2. Chunk(p) \subseteq job.todo
  BY DEF Chunk
<1>3. Left \ Left' = Chunk(p) /\ Left' \in SUBSET Left
  BY <1>1, <1>2
<1>4. View' = [a \in Lba |-> IF a \in Left \ Left' THEN buf[a] ELSE View[a]]
  BY <1>3 DEF Served, View, ViewOf
<1>5. SD!Settle(View')
  BY DEF Served, SD!Settle
<1> QED BY <1>1, <1>3, <1>4, <1>5 DEF SD!Store, SDBuf

\* A step that leaves the view alone may move values to the medium.
LEMMA SettledView ==
  ASSUME IInv, Settled
  PROVE  View' = View /\ SD!Settle(View) /\ SD!Settle(View')
<1>1. View' = View
  BY DEF Settled, View, ViewOf
<1> QED BY <1>1 DEF Settled, SD!Settle

\* Flushing the page before a full page is a Store that takes nothing over.
LEMMA FlushPreviousRefines ==
  ASSUME IInv, NEW p \in Page, NEW i \in Entries, FlushPrevious(p, i)
  PROVE  SD!Store
<1>1. /\ Phase = "writing" /\ Phase' = "writing" /\ SDBuf = buf /\ SDBuf' = buf
      /\ Left = job.todo /\ Left' = job.todo
  BY DEF FlushPrevious, Phase, Left, SDBuf
<1>2. View' = View /\ SD!Settle(View')
  BY FlushPreviousSettles, SettledView
<1>3. View' = [a \in Lba |-> IF a \in Left \ Left' THEN buf[a] ELSE View[a]]
  BY <1>1, <1>2 DEF View, ViewOf
<1> QED BY <1>1, <1>2, <1>3 DEF SD!Store, SDBuf

\* A step of a flush is a Progress.
LEMMA FlushEntryRefines ==
  ASSUME IInv, NEW i \in Entries, FlushEntry(i)
  PROVE  SD!Progress
<1>1. job.op \in {"flush", "close", "flushdev"} /\ job'.op = job.op /\ buf' = buf
  BY DEF FlushEntry, IInv, TypeOK
<1>2. /\ Phase \in {"syncing", "settling"} /\ Phase' = Phase
      /\ Left' = Left /\ SDBuf' = SDBuf
  BY <1>1 DEF Phase, Left, SDBuf
<1>3. View' = View /\ SD!Settle(View)
  BY FlushEntrySettles, SettledView
<1> QED BY <1>2, <1>3 DEF SD!Progress, SDBuf

\* A flush that has passed every entry has emptied them all.
LEMMA FlushedEmpty ==
  ASSUME IInv, job.op \in {"flush", "close"}, job.idx = EntryCnt
  PROVE  \A i \in Entries : w[i].page = NoPage
<1>1. \A i \in Entries : i < EntryCnt
  BY EntryAssumption DEF Entries
<1> QED BY <1>1 DEF IInv, CallProgress

\* A flush of all entries ends with the medium up to date.
LEMMA EndFlushRefines ==
  ASSUME IInv, EndFlush
  PROVE  SD!EndSync("idle") \/ SD!EndSettle
<1>1. /\ View' = View /\ disk' = disk /\ Phase' = "idle" /\ Left = {} /\ Left' = {}
      /\ SDBuf' = SDBuf
  BY SameView, IdleJob DEF EndFlush, Phase, Left, SDBuf
<1>2. CASE job.op = "flush"
  <2>1. View = disk
    BY <1>2, FlushedEmpty, EmptyView DEF EndFlush
  <2>2. Phase = "syncing"
    BY <1>2 DEF Phase
  <2> QED BY <1>1, <2>1, <2>2 DEF SD!EndSync, SDBuf
<1>3. CASE job.op = "flushdev"
  <2>1. Phase = "settling"
    BY <1>3 DEF Phase
  <2> QED BY <1>1, <2>1 DEF SD!EndSettle, SDBuf
<1> QED BY <1>2, <1>3 DEF EndFlush

\* So does the flush of NAND_CacheClose.
LEMMA EndCloseRefines ==
  ASSUME IInv, EndClose
  PROVE  SD!EndSync("down")
<1>1. View = disk
  BY FlushedEmpty, EmptyView DEF EndClose
<1>2. View' = disk /\ disk' = disk
  BY EmptyNextView, StopStartInv DEF EndClose
<1>3. /\ Phase = "syncing" /\ Phase' = "down" /\ Left = {} /\ Left' = {}
      /\ SDBuf' = SDBuf
  BY IdleJob DEF EndClose, Phase, Left, SDBuf
<1> QED BY <1>1, <1>2, <1>3 DEF SD!EndSync, SDBuf

\* NAND_CacheOpen is a Restart.
LEMMA OpenRefines ==
  ASSUME IInv, Open
  PROVE  SD!Restart
<1>1. View = disk
  BY EmptyView, IdleJob DEF Open, IInv, CallProgress
<1>2. View' = disk /\ disk' = disk
  BY EmptyNextView, StopStartInv DEF Open
<1>3. /\ Phase = "down" /\ Phase' = "idle" /\ Left = {} /\ Left' = {}
      /\ SDBuf' = SDBuf
  BY IdleJob DEF Open, Phase, Left, SDBuf
<1> QED BY <1>1, <1>2, <1>3 DEF SD!Restart, SDBuf

\* A loss of power takes the view back to the medium.
LEMMA CrashRefines ==
  ASSUME IInv, Crash
  PROVE  SD!PowerLoss
<1>1. View' = disk /\ disk' = disk
  BY EmptyNextView, StopStartInv DEF Crash
<1>2. Phase' = "down" /\ Left' = {} /\ SDBuf' = NoData
  BY IdleJob DEF Crash, Phase, Left, SDBuf
<1> QED BY <1>1, <1>2 DEF SD!PowerLoss, SDBuf, SD!NoData, NoData

\* The start of a call is the start of a request.
LEMMA StartRefines ==
  ASSUME IInv,
         \/ \E A \in Ranges : \E d \in Buffers(A) : StartWrite(A, d)
         \/ \E A \in Ranges : StartRead(A)
         \/ \E op \in {"flush", "close"} : StartFlush(op)
         \/ \E dev \in Devs : StartFlushDev(dev)
  PROVE  SD!DiskNext
<1>1. job = Idle /\ job.op = "idle" /\ View' = View /\ disk' = disk /\ buf = NoData
  BY IdleJob, SameView
     DEF StartWrite, StartRead, StartFlush, StartFlushDev, IInv, CallProgress
<1>2. Phase = "idle" /\ Left = {} /\ SDBuf = NoData
  BY <1>1 DEF Phase, Left, SDBuf
<1>3. ASSUME NEW A \in Ranges, NEW d \in Buffers(A), StartWrite(A, d)
      PROVE  SD!BeginWrite
  <2>1. /\ Phase' = "writing" /\ Left' = A /\ SDBuf' = d
        /\ A \in SUBSET Lba /\ d \in [A -> Value]
    BY <1>3 DEF StartWrite, Job, Phase, Left, SDBuf, Ranges, Buffers
  <2> QED BY <1>1, <1>2, <2>1 DEF SD!BeginWrite, SDBuf
<1>4. ASSUME NEW A \in Ranges, StartRead(A)
      PROVE  SD!BeginRead
  <2>1. Phase' = "reading" /\ Left' = A /\ SDBuf' = NoData /\ A \in SUBSET Lba
    BY <1>4 DEF StartRead, Job, Phase, Left, SDBuf, Ranges
  <2> QED BY <1>1, <1>2, <2>1 DEF SD!BeginRead, SDBuf
<1>5. ASSUME NEW op \in {"flush", "close"}, StartFlush(op)
      PROVE  SD!BeginSync("syncing")
  <2>1. Phase' = "syncing" /\ Left' = {} /\ SDBuf' = buf
    BY <1>5 DEF StartFlush, Job, Phase, Left, SDBuf
  <2> QED BY <1>1, <1>2, <2>1 DEF SD!BeginSync, SDBuf
<1>6. ASSUME NEW dev \in Devs, StartFlushDev(dev)
      PROVE  SD!BeginSync("settling")
  <2>1. Phase' = "settling" /\ Left' = {} /\ SDBuf' = buf
    BY <1>6 DEF StartFlushDev, Job, Phase, Left, SDBuf
  <2> QED BY <1>1, <1>2, <2>1 DEF SD!BeginSync, SDBuf
<1> QED BY <1>3, <1>4, <1>5, <1>6 DEF SD!DiskNext

\* The end of a write is the end of a request.
LEMMA EndWriteRefines ==
  ASSUME IInv, EndWrite
  PROVE  SD!EndWrite
<1>1. View' = View /\ disk' = disk
  BY SameView DEF EndWrite
<1>2. /\ Phase = "writing" /\ Phase' = "idle" /\ Left = {} /\ Left' = {}
      /\ SDBuf' = NoData
  BY IdleJob DEF EndWrite, Phase, Left, SDBuf
<1> QED BY <1>1, <1>2 DEF SD!EndWrite, SDBuf, SD!NoData, NoData

\* A read is answered with the view by the step that overlays the write cache;
\* its other steps are invisible.
LEMMA ReadRefines ==
  ASSUME IInv, ReadStep
  PROVE  SD!DiskNext \/ UNCHANGED SD!diskVars
<1>1. View' = View /\ disk' = disk
  BY SameView DEF ReadStep, ReadPage, RenewFromCache, EndRead
<1>2. ASSUME NEW p \in Page, ReadPage(p)
      PROVE  UNCHANGED SD!diskVars
  <2>1. job.op = "read" /\ job'.op = "read" /\ job'.range = job.range
    BY <1>2, ServeChunk DEF ReadPage
  <2>2. /\ Phase = "reading" /\ Phase' = "reading" /\ Left' = Left
        /\ SDBuf = NoData /\ SDBuf' = NoData
    BY <2>1 DEF Phase, Left, SDBuf
  <2> QED BY <1>1, <2>2 DEF SD!diskVars, SDBuf
<1>3. CASE RenewFromCache
  <2>1. job.op = "read" /\ job'.op = "answered"
    BY <1>3 DEF RenewFromCache, IInv, TypeOK
  <2>2. /\ Phase = "reading" /\ Phase' = "answered"
        /\ Left = job.range /\ Left' = {} /\ SDBuf' = buf'
    BY <2>1 DEF Phase, Left, SDBuf
  <2>3. buf' = [a \in job.range |-> View[a]]
    BY <1>3, RenewEffect
  <2>4. SD!EndRead
    BY <1>1, <2>2, <2>3 DEF SD!EndRead, SDBuf
  <2> QED BY <2>4 DEF SD!DiskNext
<1>4. CASE EndRead
  <2>1. /\ Phase = "answered" /\ Phase' = "idle" /\ Left = {} /\ Left' = {}
        /\ SDBuf' = NoData
    BY <1>4, IdleJob DEF EndRead, Phase, Left, SDBuf
  <2>2. SD!TakeAnswer
    BY <1>1, <2>1 DEF SD!TakeAnswer, SDBuf, SD!NoData, NoData
  <2> QED BY <2>2 DEF SD!DiskNext
<1> QED BY <1>2, <1>3, <1>4 DEF ReadStep

\* Every step of the caches is a step of the sector disk, or invisible.
LEMMA StepRefines == IInv /\ [Next]_vars => [SD!DiskNext]_(SD!diskVars)
<1> SUFFICES ASSUME IInv, [Next]_vars
             PROVE  SD!DiskNext \/ UNCHANGED SD!diskVars
  OBVIOUS
<1>1. CASE Call
  BY <1>1, StartRefines, OpenRefines DEF Call, SD!DiskNext
<1>2. CASE WriteStep
  <2>1. CASE EndWrite
    BY <2>1, EndWriteRefines DEF SD!DiskNext
  <2>2. ASSUME NEW p \in Page,
               \/ \E i \in Entries : FlushPrevious(p, i)
               \/ WriteFullPage(p)
               \/ \E i \in Entries : FillHit(p, i)
               \/ \E i \in Entries, dev \in Devs : FillFree(p, i, dev)
               \/ \E i \in Entries, dev \in Devs : FillEvict(p, i, dev)
        PROVE  SD!Store
    BY <2>2, FlushPreviousRefines, ServedRefines, WriteFullPageServes,
       FillHitServes, FillFreeServes, FillEvictServes
  <2> QED BY <1>2, <2>1, <2>2 DEF WriteStep, SD!DiskNext
<1>3. CASE ReadStep
  BY <1>3, ReadRefines
<1>4. CASE FlushStep
  BY <1>4, FlushEntryRefines, EndFlushRefines, EndCloseRefines
     DEF FlushStep, SD!DiskNext
<1>5. CASE Crash
  BY <1>5, CrashRefines DEF SD!DiskNext
<1>6. CASE UNCHANGED vars
  BY <1>6 DEF vars, SD!diskVars, View, ViewOf, Phase, Left
<1> QED BY <1>1, <1>2, <1>3, <1>4, <1>5, <1>6 DEF Next, Work

\* The caches implement the sector disk: whatever is read is what was written
\* last, and whatever a completed flush covered survives a loss of power.
THEOREM CacheImplementsDisk == Spec => ImplementsDisk
BY InitRefines, StepRefines, Invariance, PTL
   DEF Spec, ImplementsDisk, SD!DiskSpec
=============================================================================
