------------------------------ MODULE FtlProofs ------------------------------
(***************************************************************************)
(* Proofs about Ftl, for every geometry of the flash.                      *)
(***************************************************************************)
EXTENDS Ftl, FiniteSetTheorems, WellFoundedInduction, TLAPS

(***************************************************************************)
(* Constants.                                                              *)
(***************************************************************************)
\* Pages and ages have numbers, and 0xffff is none of them.
LEMMA Numbers ==
  /\ PageCnt \in Nat /\ PageCnt > 1 /\ BlkCnt \in Nat /\ LogicCnt \in Nat /\ LogicCnt > 0
  /\ Banks \in Nat /\ Banks > 0 /\ Banks <= PageCnt /\ AgeCnt \in Nat /\ AgeCnt >= 6
  /\ 0 \in Page /\ Page \subseteq Nat /\ Blk \subseteq Nat
  /\ None \notin Page /\ None \notin Blk /\ None \notin LogicBlk /\ None \notin Slot
  /\ 0 \in Cached
BY GeometryAssumption, AgeAssumption, BankAssumption, SlotAssumption
DEF Page, Blk, LogicBlk, Slot, Cached, None

\* A block is its lines of Banks pages.
LEMMA Lines ==
  /\ LineCnt \in Nat /\ LineCnt >= 3 /\ PageCnt = LineCnt * Banks
<1>1. PageCnt \in Nat /\ Banks \in Nat /\ Banks > 0 /\ PageCnt % Banks = 0
  BY Numbers, BankAssumption
<1>2. PageCnt = Banks * (PageCnt \div Banks) + (PageCnt % Banks)
  BY <1>1
<1>3. LineCnt \in Nat /\ LineCnt >= 3
  BY LineAssumption
<1> QED BY <1>1, <1>2, <1>3 DEF LineCnt

\* A page of a line of the block is a page of the block.
LEMMA PageOfLine ==
  ASSUME NEW l \in 0 .. LineCnt - 1, NEW k \in 0 .. Banks - 1
  PROVE  l * Banks + k \in Page
<1>1. l \in Nat /\ k \in Nat /\ Banks \in Nat /\ LineCnt \in Nat /\ l + 1 <= LineCnt /\ k < Banks
  BY Numbers, Lines
<1>2. (l + 1) * Banks <= LineCnt * Banks
  BY <1>1
<1>3. (l + 1) * Banks = l * Banks + Banks /\ l * Banks \in Nat
  BY <1>1
<1> QED BY <1>1, <1>2, <1>3, Lines DEF Page

\* A set of numbers that holds for n + 1 whenever it holds for n, and for 0,
\* holds for all numbers up to a bound: the least one left out says so.
LEMMA UpTo ==
  ASSUME NEW n \in Nat, NEW S, 0 \in S, \A k \in 0 .. n - 1 : k \in S => k + 1 \in S
  PROVE  \A k \in 0 .. n : k \in S
<1> SUFFICES ASSUME NEW x \in 0 .. n, x \notin S PROVE FALSE
  OBVIOUS
<1> DEFINE T == {k \in Nat : k <= n /\ k \notin S}
<1>1. T \subseteq Nat /\ T # {}
  OBVIOUS
<1> DEFINE R == {ss \in Nat \X Nat : ss[1] < ss[2]}
<1>2. IsWellFoundedOn(R, Nat)
  <2>1. IsWellFoundedOn(OpToRel(<, Nat), Nat)
    BY NatLessThanWellFounded
  <2> QED BY <2>1 DEF OpToRel
<1> HIDE DEF R
<1>3. \E m \in T : \A y \in T : ~(<<y, m>> \in R)
  BY <1>1, <1>2, WFMin
<1>4. PICK m \in T : \A y \in T : ~(y < m)
  BY <1>3 DEF R
<1>5. m # 0 /\ m - 1 \in Nat /\ m - 1 \notin T
  BY <1>4
<1> QED BY <1>5

(***************************************************************************)
(* The search for the last used page.                                      *)
(***************************************************************************)
\* The turns of a search over n lines or pages.
Turns(b, n, t) ==
  /\ t = [k \in 0 .. n |-> t[k]]
  /\ t[0] = Group(n)
  /\ \A k \in 1 .. n : t[k] = Halve(b, t[k - 1])

\* The loop runs: every number of turns can be made.
LEMMA TurnsExist == ASSUME NEW b, NEW n \in Nat
                    PROVE  \E t : Turns(b, n, t)
<1> DEFINE Ok(m, t) == /\ t = [k \in 0 .. m |-> t[k]]
                       /\ t[0] = Group(n)
                       /\ \A k \in 1 .. m : t[k] = Halve(b, t[k - 1])
           S == {m \in 0 .. n : \E t : Ok(m, t)}
<1>1. 0 \in S
  <2> DEFINE u == [k \in 0 .. 0 |-> Group(n)]
  <2>1. u = [k \in 0 .. 0 |-> u[k]] /\ u[0] = Group(n) /\ 1 .. 0 = {}
    OBVIOUS
  <2>2. Ok(0, u)
    BY <2>1
  <2> HIDE DEF u, Ok
  <2> QED BY <2>2
<1>2. ASSUME NEW m \in 0 .. n - 1, m \in S
      PROVE  m + 1 \in S
  <2>1. PICK t : Ok(m, t)
    BY <1>2
  <2> DEFINE u == [k \in 0 .. m + 1 |-> IF k = m + 1 THEN Halve(b, t[m]) ELSE t[k]]
  <2>2. u = [k \in 0 .. m + 1 |-> u[k]] /\ u[0] = Group(n)
    BY <2>1
  <2>3. ASSUME NEW k \in 1 .. m + 1
        PROVE  u[k] = Halve(b, u[k - 1])
    <3>1. k - 1 \in 0 .. m /\ u[k - 1] = t[k - 1]
      OBVIOUS
    <3>2. CASE k = m + 1
      BY <3>1, <3>2
    <3>3. CASE k # m + 1
      <4>1. k \in 1 .. m /\ u[k] = t[k]
        BY <3>3
      <4>2. \A j \in 1 .. m : t[j] = Halve(b, t[j - 1])
        BY <2>1
      <4>3. t[k] = Halve(b, t[k - 1])
        BY <4>1, <4>2
      <4> HIDE DEF u
      <4> QED BY <3>1, <4>1, <4>3
    <3> QED BY <3>2, <3>3
  <2>4. Ok(m + 1, u)
    BY <2>2, <2>3
  <2> HIDE DEF u, Ok
  <2> QED BY <2>4
<1> HIDE DEF S
<1>3. n \in S
  BY <1>1, <1>2, UpTo
<1>4. PICK t : Ok(n, t)
  BY <1>3 DEF S
<1> QED BY <1>4 DEF Turns

\* What a search returns is where its turns have ended.
LEMMA SearchTurns == ASSUME NEW b, NEW n \in Nat
                     PROVE  \E t : Turns(b, n, t) /\ Search(b, n) = t[n].found
<1> DEFINE Is(t) == t = [k \in 0 .. n |->
                          IF k = 0 THEN Group(n) ELSE Halve(b, t[k - 1])]
<1>1. \E t : Is(t)
  <2>1. PICK t : Turns(b, n, t)
    BY TurnsExist
  <2>2. /\ t[0] = Group(n)
        /\ \A k \in 1 .. n : t[k] = Halve(b, t[k - 1])
    BY <2>1 DEF Turns
  <2>4. \A k \in 0 .. n : t[k] = IF k = 0 THEN Group(n) ELSE Halve(b, t[k - 1])
    <3>1. \A k \in 0 .. n : k = 0 \/ k \in 1 .. n
      OBVIOUS
    <3> QED BY <2>2, <3>1
  <2>3. t = [k \in 0 .. n |-> t[k]]
    BY <2>1 DEF Turns
  <2> QED BY <2>3, <2>4
<1>2. Search(b, n) = (CHOOSE t : Is(t))[n].found
  BY DEF Search
<1>3. Is(CHOOSE t : Is(t))
  BY <1>1
<1>4. \A t : Is(t) => Turns(b, n, t)
  BY DEF Turns
<1> HIDE DEF Is
<1> QED BY <1>2, <1>3, <1>4

\* A set of numbers up to a bound has a greatest one.
LEMMA Greatest == ASSUME NEW n \in Nat, NEW S \in SUBSET (0 .. n), S # {}
                  PROVE  \E x \in S : \A y \in S : y <= x
<1> DEFINE B == {k \in 0 .. n : (\E y \in S : n - k <= y)
                                => \E x \in S : \A z \in S : z <= x}
<1>1. 0 \in B
  <2> SUFFICES ASSUME NEW y \in S, n <= y
               PROVE  \E x \in S : \A z \in S : z <= x
    OBVIOUS
  <2>1. \A z \in S : z <= y
    OBVIOUS
  <2> QED BY <2>1
<1>2. ASSUME NEW k \in 0 .. n - 1, k \in B
      PROVE  k + 1 \in B
  <2> SUFFICES ASSUME NEW y \in S, n - (k + 1) <= y
               PROVE  \E x \in S : \A z \in S : z <= x
    OBVIOUS
  <2>1. CASE \E z \in S : n - k <= z
    BY <1>2, <2>1
  <2>2. CASE \A z \in S : z < n - k
    <3>1. \A z \in S : z <= y
      BY <2>2
    <3> QED BY <3>1
  <2> QED BY <2>1, <2>2
<1> HIDE DEF B
<1>3. n \in B
  BY <1>1, <1>2, UpTo
<1>4. \E y \in S : n - n <= y
  <2>1. PICK y : y \in S
    OBVIOUS
  <2>2. y \in 0 .. n
    BY <2>1
  <2> QED BY <2>1, <2>2
<1> QED BY <1>3, <1>4 DEF B

\* The group left stays inside the block, and so does the page looked at.
InGroup(r, n) == r \in [lo : 0 .. n, hi : -1 .. n - 1, found : Page]
Count == IF Align THEN LineCnt ELSE PageCnt
\* The last used page of a line is one of its pages.
LEMMA LastOfLine ==
  ASSUME NEW b, NEW l, UsedOfLine(b, l) # {}
  PROVE  LET k == CHOOSE k \in UsedOfLine(b, l) : \A j \in UsedOfLine(b, l) : j <= k
         IN  k \in UsedOfLine(b, l) /\ k \in 0 .. Banks - 1
             /\ \A j \in UsedOfLine(b, l) : j <= k
<1> DEFINE U == UsedOfLine(b, l)
<1>1. U \in SUBSET (0 .. Banks - 1) /\ Banks - 1 \in Nat
  BY Numbers DEF UsedOfLine
<1>2. \E k \in U : \A j \in U : j <= k
  BY <1>1, Greatest
<1> QED BY <1>1, <1>2
\* A halving leaves a group inside the block.
LEMMA HalveInGroup ==
  ASSUME NEW b, NEW r, InGroup(r, Count)
  PROVE  InGroup(Halve(b, r), Count)
<1> DEFINE mid == (r.lo + r.hi) \div 2
<1>1. Count \in Nat
  BY Numbers, Lines DEF Count
<1>2. r.lo <= r.hi => mid \in 0 .. Count - 1
  BY <1>1 DEF InGroup
<1>3. CASE r.lo > r.hi
  BY <1>3 DEF Halve, HalveLines, HalvePages
<1>4. CASE ~(r.lo > r.hi) /\ Align
  <2>1. mid \in 0 .. LineCnt - 1 /\ Count = LineCnt
    BY <1>1, <1>2, <1>4 DEF Count, InGroup
  <2>2. CASE UsedOfLine(b, mid) = {}
    <3>1. Halve(b, r) = [r EXCEPT !.hi = mid - 1]
      BY <1>4, <2>2 DEF Halve, HalveLines
    <3>2. mid - 1 \in -1 .. Count - 1
      BY <1>1, <2>1
    <3> HIDE DEF mid
    <3> QED BY <3>1, <3>2 DEF InGroup
  <2>3. CASE UsedOfLine(b, mid) # {}
    <3> DEFINE k == CHOOSE k \in UsedOfLine(b, mid) : \A j \in UsedOfLine(b, mid) : j <= k
    <3>1. Halve(b, r) = [r EXCEPT !.lo = mid + 1, !.found = mid * Banks + k]
      BY <1>4, <2>3 DEF Halve, HalveLines
    <3>2. k \in 0 .. Banks - 1
      BY <2>3, LastOfLine
    <3> HIDE DEF k
    <3>3. mid * Banks + k \in Page
      BY <2>1, <3>2, PageOfLine
    <3>4. mid + 1 \in 0 .. Count
      BY <1>1, <2>1
    <3> HIDE DEF mid
    <3> QED BY <3>1, <3>3, <3>4 DEF InGroup
  <2> QED BY <2>2, <2>3
<1>5. CASE ~(r.lo > r.hi) /\ ~Align
  <2>1. mid \in Page /\ mid \in 0 .. Count - 1
    BY <1>1, <1>2, <1>5 DEF Count, InGroup, Page
  <2>2. \/ Halve(b, r) = [r EXCEPT !.lo = mid + 1, !.found = mid]
        \/ Halve(b, r) = [r EXCEPT !.hi = mid - 1, !.found = mid]
    BY <1>5 DEF Halve, HalvePages
  <2>3. mid + 1 \in 0 .. Count /\ mid - 1 \in -1 .. Count - 1
    BY <1>1, <2>1
  <2> HIDE DEF mid
  <2> QED BY <2>1, <2>2, <2>3 DEF InGroup
<1> QED BY <1>3, <1>4, <1>5

\* What the search returns is a page of the block.
LEMMA LastUsedPageType == ASSUME NEW b PROVE LastUsedPage(b) \in Page
<1>1. Count \in Nat /\ LastUsedPage(b) = Search(b, Count)
  BY Numbers, Lines DEF LastUsedPage, Count
<1>2. PICK t : Turns(b, Count, t) /\ Search(b, Count) = t[Count].found
  BY <1>1, SearchTurns
<1> DEFINE S == {k \in 0 .. Count : InGroup(t[k], Count)}
<1>3. 0 \in S
  BY <1>1, <1>2, Numbers DEF Turns, Group, InGroup
<1>4. ASSUME NEW k \in 0 .. Count - 1, k \in S
      PROVE  k + 1 \in S
  <2>1. k + 1 \in 1 .. Count /\ (k + 1) - 1 = k
    BY <1>1
  <2>2. t[k + 1] = Halve(b, t[k])
    BY <1>2, <2>1 DEF Turns
  <2>3. InGroup(t[k], Count)
    BY <1>4
  <2>4. InGroup(t[k + 1], Count)
    BY <2>2, <2>3, HalveInGroup
  <2> QED BY <2>1, <2>4
<1> HIDE DEF S
<1>5. Count \in S
  BY <1>1, <1>3, <1>4, UpTo
<1> QED BY <1>1, <1>2, <1>5 DEF S, InGroup
(***************************************************************************)
(* The inductive invariant.                                                *)
(***************************************************************************)
Used(l) == {s \in Slot : l[s].lb # None}
RecordType == [info : LogicBlk \cup {None}, lpn : Page \cup {None},
               status : 0 .. TableMark, main : Main]
\* A block without a logic info is erased, and a table page holds a table.
Zeroed == \A b \in Blk : flash[b][0].info = None => flash[b] = ErasedBlk
TablesHold ==
  \A b \in Blk, q \in Page :
    IsTable(flash[b][q]) => flash[b][q].main \in [kind : {"table"}, map : Map]
FlashInv == FlashType /\ Zeroed /\ TablesHold

\* Tables d, l and f give a block one role at most,
Roles(d, l, f) ==
  /\ d \in [LogicBlk -> Blk] /\ l \in [Slot -> LogType] /\ f \subseteq Blk
  /\ \A x, y \in LogicBlk : d[x] = d[y] => x = y
  /\ \A s, t \in Used(l) : l[s].lb = l[t].lb \/ l[s].blk = l[t].blk => s = t
  /\ \A s \in Used(l) :
       /\ l[s].blk \in Blk \ f /\ l[s].last \in Page \cup {None}
       /\ \A lb \in LogicBlk : d[lb] # l[s].blk
  /\ \A lb \in LogicBlk : d[lb] \notin f
\* every block but x a role,
Complete(d, l, f, x) ==
  \A b \in Blk : \/ b \in f \/ b = x
                 \/ \E lb \in LogicBlk : d[lb] = b
                 \/ \E s \in Used(l) : l[s].blk = b
\* and the blocks say the same of themselves, the data block of x excepted.
Marks(d, l, f, x) ==
  /\ \A b \in f : flash[b] = ErasedBlk
  /\ \A lb \in LogicBlk : flash[d[lb]][0].info \in {None, lb}
  /\ \A s \in Used(l) :
       /\ \/ flash[l[s].blk][0].info = l[s].lb
          \/ l[s].last = None /\ flash[l[s].blk] = ErasedBlk
       /\ l[s].lb # x => flash[d[l[s].lb]][0].info = l[s].lb
Unnamed == IF op.step = "info" THEN op.lb ELSE None
MountedOk ==
  Mounted => /\ Roles(data, logs, free) /\ Complete(data, logs, free, merge.dst)
             /\ Marks(data, logs, free, Unnamed)
SavedOk ==
  /\ saved \in [clean : BOOLEAN, data : [LogicBlk -> Blk \cup {None}],
                logs : [Slot -> LogType], free : SUBSET Blk]
  /\ saved.clean => /\ Roles(saved.data, saved.logs, saved.free)
                    /\ Complete(saved.data, saved.logs, saved.free, None)
                    /\ Marks(saved.data, saved.logs, saved.free, None)

\* The target of a merge is nobody's block, erased until its page 0 is written.
TargetOk ==
  /\ merge.dst \notin free
  /\ merge.step = "erase" =>
       merge.kind = "simple" /\ merge.next = PageCnt /\ merge.dst = data[merge.lb]
  /\ merge.step # "erase" =>
       /\ \A lb \in LogicBlk : data[lb] # merge.dst
       /\ \A s \in InUse : logs[s].blk # merge.dst
       /\ IF merge.next = 0 /\ merge.step = "copy"
          THEN flash[merge.dst] = ErasedBlk
          ELSE flash[merge.dst][0].info = merge.lb
MergeType ==
  merge \in [kind : {"swap", "simple", "move"}, lb : LogicBlk, dst : Blk,
             next : 0 .. PageCnt, step : {"copy", "copied0", "erase"}]
MergeOk ==
  Merging =>
   /\ Mounted
   /\ MergeType
   /\ EntrySlot # None /\ logs[EntrySlot].lb = merge.lb
   /\ merge.kind = "swap" => /\ merge.dst = logs[EntrySlot].blk
                             /\ logs[EntrySlot].last # None
                             /\ merge.next > 0 /\ merge.step = "copy"
   /\ merge.kind # "swap" => TargetOk
   /\ merge.step = "copied0" => merge.kind = "move"
   /\ merge.kind = "move" => logs[EntrySlot].last # None
\* An entry of the cache is for a log block, and no two are for the same.
PoolOk ==
  /\ pool \in [Cached -> EntryType] /\ cur \in Cached
  /\ \A i \in Cached : pool[i].slot # None =>
       /\ pool[i].slot \in InUse
       /\ logs[pool[i].slot].last = None => pool[i].map = EmptyMap /\ ~pool[i].dirty
  /\ \A i, j \in Cached :
       pool[i].slot # None /\ pool[i].slot = pool[j].slot => i = j
\* A switch that has not found its table in the cache goes on without it.
PostType ==
  post \in [slot : Slot \cup {None}, step : {"find", "write", "merged", "read"}]
PostOk ==
  post # NoPost =>
   /\ Mounted
   /\ PostType
   /\ Merging => post.step = "merged"
   /\ post.slot = None <=> op.kind = "exit"
   /\ post.step = "find" => post.slot # None
   /\ post.slot # None => post.slot \in InUse
   /\ post.step # "find" /\ post.slot # None =>
        \A i \in Cached : pool[i].slot # post.slot
   /\ post.step = "write" => EntrySlot # None
   /\ post.step \in {"write", "merged"} /\ EntrySlot # None =>
        logs[EntrySlot].last # None
OpType ==
  \/ op = Off \/ op = Idle
  \/ op \in [kind : {"scan"}, lb : {None}, bank : {None}, step : {"fill", "erase"},
             again : {FALSE}, slot : {None}]
  \/ op \in [kind : {"read"}, lb : LogicBlk, bank : {None},
             step : {"lookup", "failed"}, again : {FALSE}, slot : {None}]
  \/ op \in [kind : {"write"}, lb : LogicBlk, bank : BankSet,
             step : {"log", "victim", "info", "page", "place", "failed"},
             again : BOOLEAN, slot : Slot \cup {None}]
  \/ op \in [kind : {"exit"}, lb : {None}, bank : {None},
             step : {"flush", "failed"}, again : {FALSE}, slot : {None}]
Quiet == post = NoPost /\ ~Merging
\* Which layer a call waits for, and what it finds when that has answered.
WaitOk ==
  /\ op.kind = "idle" => Quiet
  /\ op.step = "failed" => Quiet
  /\ op.kind = "write" /\ op.step \in {"log", "failed"} => post = NoPost
  /\ op.kind = "write" /\ Merging => op.step \in {"log", "victim", "page"}
  /\ op.kind \in {"read", "exit"} /\ Merging => post # NoPost
VictimOk ==
  op.step = "victim" =>
    /\ ~HasLog(op.lb)
    /\ Quiet => EntrySlot # None
    /\ Merging => post # NoPost
LogOk ==
  /\ op.step = "info" => Quiet /\ HasLog(op.lb)
  /\ op.step \in {"page", "place"} =>
       IF post # NoPost THEN logs[post.slot].lb = op.lb
       ELSE ~Merging /\ EntrySlot # None /\ logs[EntrySlot].lb = op.lb
  /\ op.step = "place" =>
       /\ Quiet /\ logs[EntrySlot].last = None
       /\ flash[logs[EntrySlot].blk][0].info = op.lb
GivenOk ==
  op.slot # None =>
    /\ op.step \in {"log", "failed"}
    /\ op.step = "log" =>
         /\ ~HasLog(op.lb)
         /\ IF Merging THEN merge.kind # "move" /\ op.slot = EntrySlot
            ELSE op.slot \notin InUse
OpOk == OpType /\ WaitOk /\ VictimOk /\ LogOk /\ GivenOk
RestOk ==
  /\ op.kind \in {"off", "scan"} =>
       /\ pool = [i \in Cached |-> NoEntry] /\ cur = 0 /\ ctl = NoCtl
       /\ post = NoPost /\ merge = NoMerge
       /\ free = {}
  /\ op.kind = "off" => /\ data = NoTables.data /\ logs = NoTables.logs
  /\ op.kind # "scan" => scan = NoScan
\* What the scan has seen is in the tables or erased.
Seen ==
  \A b \in Blk : b < scan.next =>
    \/ flash[b] = ErasedBlk
    \/ data[flash[b][0].info] = b
    \/ \E s \in InUse : logs[s].blk = b
ScanTables ==
  /\ data \in [LogicBlk -> Blk \cup {None}]
  /\ logs \in [Slot -> LogType] /\ \A s \in Slot : logs[s].last = None
  /\ \A lb \in LogicBlk : data[lb] # None =>
       data[lb] < scan.next /\ flash[data[lb]][0].info = lb
  /\ \A s \in InUse :
       /\ logs[s].blk \in Blk /\ logs[s].blk < scan.next
       /\ flash[logs[s].blk][0].info = logs[s].lb
       /\ data[logs[s].lb] # None /\ data[logs[s].lb] # logs[s].blk
  /\ \A s, t \in InUse : logs[s].lb = logs[t].lb => s = t
ScanOk ==
  /\ scan \in [next : 0 .. BlkCnt, left : 0 .. 3]
  /\ op.kind = "scan" => /\ op.step = "erase" => scan.left > 0
                         /\ ScanTables /\ Seen
CleanOk ==
  /\ Merging \/ post.step \in {"write", "merged"} \/ op.kind \in {"write", "scan"}
       => ~saved.clean
  /\ CleanTablesCurrent
CtlType ==
  ctl \in [lb : LogicBlk \cup {None}, data : Blk \cup {None}, log : Blk \cup {None}]
IInv ==
  /\ FlashInv /\ MountedOk /\ SavedOk /\ MergeOk /\ PoolOk /\ PostOk /\ OpOk
  /\ RestOk /\ ScanOk /\ CleanOk /\ CtlType
\* A logical block has its log block in one item.
LEMMA OneLog ==
  ASSUME Roles(data, logs, free), NEW s \in Slot, logs[s].lb # None
  PROVE  /\ s \in InUse /\ logs[s].lb \in LogicBlk /\ logs[s].blk \in Blk \ free
         /\ HasLog(logs[s].lb) /\ SlotOf(logs[s].lb) = s /\ LogOf(logs[s].lb) = logs[s]
         /\ \A t \in Slot : logs[t].lb = logs[s].lb => t = s
<1>1. s \in InUse /\ s \in Used(logs)
  BY DEF InUse, Used
<1>2. logs[s].lb \in LogicBlk /\ logs[s].blk \in Blk \ free
  BY <1>1 DEF Roles, LogType
<1>3. \A t \in Slot : logs[t].lb = logs[s].lb => t = s
  BY <1>1 DEF Roles, Used
<1>4. HasLog(logs[s].lb)
  BY DEF HasLog
<1>5. SlotOf(logs[s].lb) = s
  BY <1>3 DEF SlotOf
<1> QED BY <1>1, <1>2, <1>3, <1>4, <1>5 DEF LogOf
\* The slot of a logical block that has a log block is in use, and its own.
LEMMA ItsLog ==
  ASSUME Roles(data, logs, free), NEW lb \in LogicBlk, HasLog(lb)
  PROVE  /\ SlotOf(lb) \in Slot /\ SlotOf(lb) \in InUse /\ logs[SlotOf(lb)].lb = lb
         /\ LogOf(lb) = logs[SlotOf(lb)]
<1>1. PICK s \in Slot : logs[s].lb = lb
  BY DEF HasLog
<1>2. lb # None
  BY Numbers
<1> QED BY <1>1, <1>2, OneLog

\* A step that leaves the flash and the tables alone.
LEMMA TablesKeep ==
  ASSUME IInv, UNCHANGED <<flash, data, logs, free, merge, scan>>,
         Mounted, Mounted', op.step # "info", op'.step # "info",
         saved' = saved \/ saved' = NoTables, ~Merging
  PROVE  /\ FlashInv' /\ MountedOk' /\ SavedOk' /\ MergeOk' /\ RestOk' /\ ScanOk'
         /\ ~Merging' /\ ~NoTables.clean
<1> USE DEF IInv
<1>1. FlashInv'
  BY DEF FlashInv, FlashType, Zeroed, TablesHold, IsTable
<1>2. MountedOk'
  <2>1. Roles(data, logs, free)' /\ Complete(data, logs, free, merge.dst)'
        /\ Marks(data, logs, free, Unnamed)'
    BY DEF MountedOk, Roles, Complete, Marks, Unnamed, Used, LogType
  <2> QED BY <2>1 DEF MountedOk
<1>3. NoTables \in [clean : BOOLEAN, data : [LogicBlk -> Blk \cup {None}],
                logs : [Slot -> LogType], free : SUBSET Blk] /\ ~NoTables.clean
  BY Numbers DEF NoTables, NoLog, LogType, None
<1>4. SavedOk'
  <2>1. CASE saved' = saved
    BY <2>1 DEF SavedOk, Roles, Complete, Marks, Used, LogType
  <2>2. CASE saved' = NoTables
    BY <2>2, <1>3 DEF SavedOk, LogType
  <2> QED BY <2>1, <2>2
<1>5. MergeOk' /\ ~Merging'
  BY DEF Merging, MergeOk
<1>7. RestOk' /\ ScanOk'
  BY DEF RestOk, ScanOk, Mounted
<1> QED BY <1>1, <1>2, <1>3, <1>4, <1>5, <1>7

\* A step that moves control only.
LEMMA ControlKeeps ==
  ASSUME IInv, UNCHANGED <<flash, data, logs, free, pool, merge, scan>>,
         Mounted, Mounted', op.step # "info", op'.step # "info",
         saved' = saved \/ saved' = NoTables, cur' \in Cached, ~Merging
  PROVE  /\ FlashInv' /\ MountedOk' /\ SavedOk' /\ MergeOk' /\ PoolOk' /\ RestOk'
         /\ ScanOk' /\ CleanTablesCurrent'
<1> USE DEF IInv
<1>1. /\ FlashInv' /\ MountedOk' /\ SavedOk' /\ MergeOk' /\ RestOk' /\ ScanOk'
      /\ ~NoTables.clean
  BY TablesKeep
<1>2. PoolOk'
  BY DEF PoolOk, InUse
<1>3. CleanTablesCurrent'
  BY <1>1 DEF CleanOk, CleanTablesCurrent, DirtyEntry, Mounted
<1> QED BY <1>1, <1>2, <1>3
\* The kind of a call says what is known of it.
WriteType ==
  [kind : {"write"}, lb : LogicBlk, bank : BankSet,
   step : {"log", "victim", "info", "page", "place", "failed"},
   again : BOOLEAN, slot : Slot \cup {None}]
\* What a call of each kind looks like.
LEMMA OpKinds ==
  ASSUME OpType
  PROVE  /\ op.kind \in Kinds
         /\ op.kind = "off" => op = Off
         /\ op.kind = "idle" => op = Idle /\ op.step = "none" /\ op.slot = None
         /\ op.kind = "scan" => op.step \in {"fill", "erase"} /\ op.slot = None
         /\ op.kind = "read" => /\ op.lb \in LogicBlk /\ op.slot = None
                               /\ op.step \in {"lookup", "failed"}
         /\ op.kind = "write" => op \in WriteType
         /\ op.kind = "exit" => op.step \in {"flush", "failed"} /\ op.slot = None
<1>1. CASE op = Off
  BY <1>1 DEF Off, Op, Kinds
<1>2. CASE op = Idle
  BY <1>2 DEF Idle, Op, Kinds
<1>3. CASE op # Off /\ op # Idle
  BY <1>3 DEF OpType, WriteType, Kinds
<1> QED BY <1>1, <1>2, <1>3
\* A read begins: the switch it asks for finds the disk at rest.
LEMMA StartReadStep == ASSUME IInv, NEW lb \in LogicBlk, StartRead(lb), UNCHANGED scan
                       PROVE  IInv'
<1> USE DEF IInv
<1>1. /\ op = Idle /\ op.kind = "idle" /\ op.step = "none" /\ ~Merging /\ post = NoPost /\ Mounted
      /\ op' = Op("read", lb, None, "lookup") /\ Mounted'
  <2>1. op.kind = "idle" /\ op.step = "none" /\ ~Merging /\ post = NoPost
        /\ op' = Op("read", lb, None, "lookup")
    BY DEF StartRead, Ready
  <2>2. Mounted /\ Mounted' /\ op = Idle
    BY <2>1, OpKinds DEF Mounted, Op, OpOk
  <2> QED BY <2>1, <2>2
<1>2. /\ FlashInv' /\ MountedOk' /\ SavedOk' /\ MergeOk' /\ PoolOk' /\ RestOk'
      /\ ScanOk' /\ CleanTablesCurrent'
  BY <1>1, ControlKeeps DEF StartRead, Op, tables, maps, PoolOk
<1>3. Roles(data, logs, free)
  BY <1>1 DEF MountedOk
<1>4. /\ post' = NoPost
      \/ \E s \in Slot : post' = [slot |-> s, step |-> "find"] /\ logs[s].lb = lb /\ s \in InUse
  BY <1>1, <1>3, ItsLog DEF StartRead, Switch
<1>5. PostOk'
  BY <1>1, <1>4, Numbers DEF PostOk, StartRead, Op, NoPost, PostType, InUse, Merging, tables, maps
<1>6. OpOk'
  BY <1>1, <1>4 DEF OpOk, OpType, WaitOk, VictimOk, LogOk, GivenOk, StartRead, Op, tables, maps, Merging, Quiet
<1>7. CtlType'
  <2>1. data[lb] \in Blk /\ LogOf(lb).blk \in Blk \cup {None}
    BY <1>3, ItsLog DEF Roles, LogOf, NoLog, LogType, Used
  <2> QED BY <2>1 DEF CtlType, StartRead, Accessed
<1>8. CleanOk'
  BY <1>1, <1>2, <1>4 DEF CleanOk, StartRead, Op, NoPost, Merging
<1> QED BY <1>2, <1>5, <1>6, <1>7, <1>8
\* A read that is answered leaves the disk at rest.
LEMMA EndReadStep == ASSUME IInv, EndRead, UNCHANGED scan
                     PROVE  IInv'
<1> USE DEF IInv
<1>1. /\ op.kind = "read" /\ op.step # "info" /\ ~Merging /\ post = NoPost /\ Mounted
      /\ op' = Idle /\ Mounted' /\ post' = post
  BY OpKinds DEF EndRead, Ready, OpOk, Idle, Op, Mounted
<1>2. /\ FlashInv' /\ MountedOk' /\ SavedOk' /\ MergeOk' /\ PoolOk' /\ RestOk'
      /\ ScanOk' /\ CleanTablesCurrent'
  BY <1>1, ControlKeeps DEF EndRead, Op, Idle, tables, maps, PoolOk
<1>5. PostOk'
  BY <1>1 DEF PostOk
<1>6. OpOk'
  BY <1>1 DEF OpOk, OpType, WaitOk, VictimOk, LogOk, GivenOk, EndRead, Idle, Op, Merging, Quiet
<1>7. CtlType'
  BY DEF CtlType, EndRead
<1>8. CleanOk'
  BY <1>1, <1>2 DEF CleanOk, EndRead, Idle, Op, NoPost, Merging
<1> QED BY <1>2, <1>5, <1>6, <1>7, <1>8
\* A write begins as a read does, and makes the saved tables stale.
LEMMA StartWriteStep ==
  ASSUME IInv, NEW lb \in LogicBlk, NEW bank \in BankSet, StartWrite(lb, bank), UNCHANGED scan
  PROVE  IInv'
<1> USE DEF IInv
<1>1. /\ op.kind = "idle" /\ op.step # "info" /\ ~Merging /\ post = NoPost /\ Mounted
      /\ op' = Op("write", lb, bank, "log") /\ Mounted' /\ post' = post /\ saved' = NoTables
  BY DEF StartWrite, Ready, OpOk, OpType, Off, Idle, Op, Mounted, SetDirtyFlag
<1>2. /\ FlashInv' /\ MountedOk' /\ SavedOk' /\ MergeOk' /\ PoolOk' /\ RestOk'
      /\ ScanOk' /\ CleanTablesCurrent'
  BY <1>1, ControlKeeps DEF StartWrite, Op, Idle, tables, maps, PoolOk
<1>5. PostOk'
  BY <1>1 DEF PostOk
<1>6. OpOk'
  BY <1>1 DEF OpOk, OpType, WaitOk, VictimOk, LogOk, GivenOk, StartWrite, Op, Merging, Quiet
<1>7. CtlType'
  BY DEF CtlType, StartWrite
<1>8. CleanOk'
  BY <1>1, <1>2 DEF CleanOk, StartWrite, Op, NoPost, Merging, NoTables
<1> QED BY <1>2, <1>5, <1>6, <1>7, <1>8
\* An exit begins with the table of the current entry.
LEMMA StartExitStep == ASSUME IInv, StartExit, UNCHANGED scan
                     PROVE  IInv'
<1> USE DEF IInv
<1>1. /\ op.kind = "idle" /\ op.step # "info" /\ ~Merging /\ post = NoPost /\ Mounted
      /\ op' = Op("exit", None, None, "flush") /\ Mounted' /\ post' = post
  BY DEF StartExit, Ready, OpOk, OpType, Off, Idle, Op, Mounted
<1>2. /\ FlashInv' /\ MountedOk' /\ SavedOk' /\ MergeOk' /\ PoolOk' /\ RestOk'
      /\ ScanOk' /\ CleanTablesCurrent'
  BY <1>1, ControlKeeps DEF StartExit, Op, Idle, tables, maps, PoolOk
<1>5. PostOk'
  BY <1>1 DEF PostOk
<1>6. OpOk'
  BY <1>1 DEF OpOk, OpType, WaitOk, VictimOk, LogOk, GivenOk, StartExit, Op, Merging, Quiet
<1>7. CtlType'
  BY DEF CtlType, StartExit
<1>8. CleanOk'
  BY <1>1, <1>2 DEF CleanOk, StartExit, Op, NoPost, Merging
<1> QED BY <1>2, <1>5, <1>6, <1>7, <1>8
\* A write goes on to another step of its own.
LEMMA WriteGoes ==
  ASSUME OpType, op.kind = "write", NEW st \in {"log", "victim", "info", "page", "place", "failed"},
         op' = [op EXCEPT !.step = st]
  PROVE  /\ op \in WriteType /\ op' \in WriteType /\ OpType'
         /\ op'.kind = "write" /\ op'.step = st /\ op'.lb = op.lb /\ op'.slot = op.slot
         /\ op'.bank = op.bank /\ op'.again = op.again /\ op.lb \in LogicBlk
         /\ Mounted /\ Mounted'
<1>1. op \in WriteType
  BY OpKinds
<1>2. /\ op' \in WriteType
      /\ op'.kind = "write" /\ op'.step = st /\ op'.lb = op.lb /\ op'.slot = op.slot
      /\ op'.bank = op.bank /\ op'.again = op.again /\ op.lb \in LogicBlk
  BY <1>1 DEF WriteType
<1>3. OpType'
  BY <1>2 DEF WriteType, OpType
<1> QED BY <1>1, <1>2, <1>3 DEF Mounted
\* A write whose logical block has a log block switches to its table.
LEMMA UseLogStep == ASSUME IInv, UseLog, UNCHANGED scan
                    PROVE  IInv'
<1> USE DEF IInv
<1>1. /\ op.kind = "write" /\ op.step = "log" /\ ~Merging /\ post = NoPost
      /\ op' = [op EXCEPT !.step = "page"] /\ OpType
      /\ UNCHANGED <<flash, data, logs, free, pool, cur, merge, saved, ctl>>
  BY DEF UseLog, Ready, OpOk, GoTo, tables, maps
<1>2. /\ op \in WriteType /\ OpType' /\ op'.kind = "write" /\ op'.step = "page"
      /\ op'.lb = op.lb /\ op'.slot = op.slot /\ op.lb \in LogicBlk /\ Mounted /\ Mounted'
  BY <1>1, WriteGoes
<1>3. Roles(data, logs, free) /\ HasLog(op.lb)
  BY <1>1, <1>2 DEF MountedOk, UseLog
<1>4. \E s \in Slot : post' = [slot |-> s, step |-> "find"] /\ logs[s].lb = op.lb /\ s \in InUse
  BY <1>2, <1>3, ItsLog DEF UseLog, Switch
<1>5. /\ FlashInv' /\ MountedOk' /\ SavedOk' /\ MergeOk' /\ PoolOk' /\ RestOk'
      /\ ScanOk' /\ CleanTablesCurrent'
  BY <1>1, <1>2, ControlKeeps DEF PoolOk
<1>6. PostOk'
  BY <1>1, <1>2, <1>4, Numbers DEF PostOk, NoPost, PostType, InUse, Merging
<1>7. op.slot = None
  BY <1>1, <1>3 DEF OpOk, GivenOk
<1>8. WaitOk' /\ VictimOk' /\ GivenOk'
  BY <1>1, <1>2, <1>7 DEF WaitOk, VictimOk, GivenOk, Quiet, Merging
<1>9. LogOk'
  BY <1>1, <1>2, <1>4, Numbers DEF LogOk, Quiet, Merging, NoPost
<1>10. CleanOk' /\ CtlType'
  BY <1>1, <1>2, <1>4, <1>5 DEF CleanOk, NoPost, Merging, CtlType
<1> QED BY <1>2, <1>5, <1>6, <1>8, <1>9, <1>10 DEF OpOk
\* With every slot in use the one to merge is in use.
LEMMA PickVictimStep == ASSUME IInv, NEW s \in Slot, PickVictim(s), UNCHANGED scan
                        PROVE  IInv'
<1> USE DEF IInv
<1>1. /\ op.kind = "write" /\ op.step = "log" /\ ~Merging /\ post = NoPost
      /\ op' = [op EXCEPT !.step = "victim"] /\ OpType
      /\ UNCHANGED <<flash, data, logs, free, pool, cur, merge, saved, ctl>>
      /\ ~HasLog(op.lb) /\ ~HasLog(None) /\ post' = [slot |-> s, step |-> "find"]
  BY DEF PickVictim, Ready, OpOk, GoTo, tables, maps, Switch
<1>2. /\ op \in WriteType /\ OpType' /\ op'.kind = "write" /\ op'.step = "victim"
      /\ op'.lb = op.lb /\ op'.slot = op.slot /\ op.lb \in LogicBlk /\ Mounted /\ Mounted'
  BY <1>1, WriteGoes
<1>3. s \in InUse /\ op.slot = None
  <2>1. s \in InUse
    BY <1>1 DEF HasLog, InUse
  <2>2. InUse = Slot
    BY <1>1 DEF HasLog, InUse
  <2> QED BY <1>1, <1>2, <2>1, <2>2 DEF OpOk, GivenOk, WriteType
<1>5. /\ FlashInv' /\ MountedOk' /\ SavedOk' /\ MergeOk' /\ PoolOk' /\ RestOk'
      /\ ScanOk' /\ CleanTablesCurrent'
  BY <1>1, <1>2, ControlKeeps DEF PoolOk
<1>6. PostOk'
  BY <1>1, <1>2, <1>3, Numbers DEF PostOk, NoPost, PostType, InUse, Merging
<1>8. WaitOk' /\ LogOk' /\ GivenOk'
  BY <1>1, <1>2, <1>3 DEF WaitOk, LogOk, GivenOk, Quiet, Merging
<1>9. VictimOk'
  BY <1>1, <1>2, Numbers DEF VictimOk, Quiet, Merging, NoPost, HasLog
<1>10. CleanOk' /\ CtlType'
  BY <1>1, <1>2, <1>5 DEF CleanOk, NoPost, Merging, CtlType
<1> QED BY <1>2, <1>5, <1>6, <1>8, <1>9, <1>10 DEF OpOk
\* A call that fails, in a write or in a switch of the page map.
LEMMA FailStep ==
  ASSUME IInv, Fail, UNCHANGED scan, ~Merging, op.kind \in {"read", "write", "exit"},
         op.step # "info"
  PROVE  IInv'
<1> USE DEF IInv
<1>1. /\ op' = [op EXCEPT !.step = "failed"] /\ OpType /\ post' = NoPost
      /\ UNCHANGED <<flash, data, logs, free, pool, cur, merge, saved, ctl>>
  BY DEF Fail, OpOk, GoTo, tables, maps
<1>2. /\ OpType' /\ op'.kind = op.kind /\ op'.step = "failed" /\ op'.slot = op.slot
      /\ Mounted /\ Mounted'
  <2>1. CASE op.kind = "write"
    BY <1>1, <2>1, WriteGoes
  <2>2. CASE op.kind # "write"
    <3>1. /\ op'.kind = op.kind /\ op'.step = "failed" /\ op'.slot = op.slot
          /\ Mounted /\ Mounted'
      BY <1>1, <2>2 DEF OpType, Off, Idle, Op, Mounted
    <3> DEFINE T(k, n, s) == [kind : {k}, lb : n, bank : {None}, step : s,
                              again : {FALSE}, slot : {None}]
    <3>2. \/ op \in T("read", LogicBlk, {"lookup", "failed"})
          \/ op \in T("exit", {None}, {"flush", "failed"})
      <4>1. op # Off /\ op # Idle
        BY DEF Off, Idle, Op
      <4>2. op \notin WriteType /\ op.kind # "scan"
        BY <2>2 DEF WriteType
      <4> QED BY <1>1, <4>1, <4>2 DEF OpType, WriteType
    <3>3. \/ op' \in T("read", LogicBlk, {"lookup", "failed"})
          \/ op' \in T("exit", {None}, {"flush", "failed"})
      <4>1. CASE op \in T("read", LogicBlk, {"lookup", "failed"})
        BY <1>1, <4>1
      <4>2. CASE op \in T("exit", {None}, {"flush", "failed"})
        BY <1>1, <4>2
      <4> QED BY <3>2, <4>1, <4>2
    <3>4. OpType'
      BY <3>3 DEF OpType
    <3> QED BY <3>1, <3>4
  <2> QED BY <2>1, <2>2
<1>5. /\ FlashInv' /\ MountedOk' /\ SavedOk' /\ MergeOk' /\ PoolOk' /\ RestOk'
      /\ ScanOk' /\ CleanTablesCurrent'
  BY <1>1, <1>2, ControlKeeps DEF PoolOk
<1>6. PostOk'
  BY <1>1 DEF PostOk
<1>8. WaitOk' /\ LogOk' /\ GivenOk' /\ VictimOk'
  BY <1>1, <1>2 DEF WaitOk, LogOk, GivenOk, VictimOk, Quiet, Merging
<1>10. CleanOk' /\ CtlType'
  BY <1>1, <1>2, <1>5 DEF CleanOk, NoPost, Merging, CtlType
<1> QED BY <1>2, <1>5, <1>6, <1>8, <1>10 DEF OpOk
\* A write that failed ends with the disk at rest.
LEMMA EndFailedWriteStep == ASSUME IInv, EndFailedWrite, UNCHANGED scan
                     PROVE  IInv'
<1> USE DEF IInv
<1>1. /\ op.kind = "write" /\ op.step = "failed" /\ ~Merging /\ post = NoPost /\ Mounted
      /\ op' = Idle /\ Mounted' /\ post' = post
  BY DEF EndFailedWrite, Ready, Idle, Op, Mounted
<1>2. /\ FlashInv' /\ MountedOk' /\ SavedOk' /\ MergeOk' /\ PoolOk' /\ RestOk'
      /\ ScanOk' /\ CleanTablesCurrent'
  BY <1>1, ControlKeeps DEF EndFailedWrite, Op, Idle, tables, maps, PoolOk
<1>5. PostOk'
  BY <1>1 DEF PostOk
<1>6. OpOk'
  BY <1>1 DEF OpOk, OpType, WaitOk, VictimOk, LogOk, GivenOk, EndFailedWrite, Idle, Op, Merging, Quiet
<1>8. CleanOk' /\ CtlType'
  BY <1>1, <1>2 DEF CleanOk, EndFailedWrite, Idle, Op, NoPost, Merging, CtlType
<1> QED BY <1>2, <1>5, <1>6, <1>8
\* What holds while a page map is switched.
LEMMA InSwitch ==
  ASSUME IInv, Switching
  PROVE  /\ post # NoPost /\ ~Merging /\ Mounted /\ PostType
         /\ op.step \notin {"info", "place", "failed"} /\ op.kind \in {"read", "write", "exit"}
         /\ op.kind = "write" => op.step \in {"victim", "page"}
         /\ post.slot = None <=> op.kind = "exit"
         /\ Roles(data, logs, free) /\ OpType
<1> USE DEF IInv
<1>1. post # NoPost /\ ~Merging
  BY DEF Switching
<1>2. Mounted /\ PostType /\ (post.slot = None <=> op.kind = "exit")
  BY <1>1 DEF PostOk
<1>3. op.step \notin {"info", "place", "failed"} /\ OpType
  BY <1>1 DEF OpOk, LogOk, WaitOk, Quiet
<1>4. op.kind \in {"read", "write", "exit"}
  BY <1>1, <1>2 DEF Mounted, OpOk, WaitOk, Quiet
<1>5. op.kind = "write" => op.step \in {"victim", "page"}
  BY <1>1, <1>3, OpKinds DEF WriteType, OpOk, WaitOk
<1>6. Roles(data, logs, free)
  BY <1>2 DEF MountedOk
<1> QED BY <1>1, <1>2, <1>3, <1>4, <1>5, <1>6
\* A table found in the cache belongs to the slot that was asked for.
LEMMA CacheHitStep == ASSUME IInv, NEW i \in Cached, CacheHit(i), UNCHANGED scan
                      PROVE  IInv'
<1> USE DEF IInv
<1>1. /\ Switching /\ post.step = "find" /\ pool[i].slot = post.slot
      /\ cur' = i /\ post' = NoPost
      /\ UNCHANGED <<flash, data, logs, free, pool, merge, saved, ctl, op>>
  BY DEF CacheHit, tables
<1>2. /\ post # NoPost /\ ~Merging /\ Mounted /\ op.step \notin {"info", "place", "failed"}
      /\ op.kind \in {"read", "write", "exit"} /\ OpType
      /\ op.kind = "write" => op.step \in {"victim", "page"}
  BY <1>1, InSwitch
<1>3. post.slot # None
  BY <1>1, <1>2 DEF PostOk
<1>5. /\ FlashInv' /\ MountedOk' /\ SavedOk' /\ MergeOk' /\ PoolOk' /\ RestOk'
      /\ ScanOk' /\ CleanTablesCurrent'
  BY <1>1, <1>2, ControlKeeps DEF PoolOk, Mounted
<1>6. PostOk'
  BY <1>1 DEF PostOk
<1>7. OpType' /\ WaitOk' /\ GivenOk'
  BY <1>1, <1>2 DEF OpType, WaitOk, GivenOk, Quiet, Merging, OpOk, HasLog, InUse
<1>8. VictimOk' /\ LogOk'
  BY <1>1, <1>2, <1>3 DEF VictimOk, LogOk, Quiet, Merging, OpOk, HasLog, EntrySlot
<1>10. CleanOk' /\ CtlType'
  BY <1>1, <1>2, <1>5 DEF CleanOk, NoPost, Merging, CtlType
<1> QED BY <1>5, <1>6, <1>7, <1>8, <1>10 DEF OpOk
\* A table not in the cache gets an entry, to be written out first if dirty.
LEMMA PickEntryStep == ASSUME IInv, NEW i \in Cached, PickEntry(i), UNCHANGED scan
                       PROVE  IInv'
<1> USE DEF IInv
<1>1. /\ Switching /\ post.step = "find" /\ \A j \in Cached : pool[j].slot # post.slot
      /\ cur' = i
      /\ \/ /\ pool[i].dirty /\ pool[i].slot # None /\ post' = [post EXCEPT !.step = "write"]
            /\ saved' = NoTables
         \/ post' = [post EXCEPT !.step = "read"] /\ saved' = saved
      /\ UNCHANGED <<flash, data, logs, free, pool, merge, ctl, op>>
  BY DEF PickEntry, tables, SetDirtyFlag, PostTo
<1>2. /\ post # NoPost /\ ~Merging /\ Mounted /\ op.step \notin {"info", "place", "failed"}
      /\ op.kind \in {"read", "write", "exit"} /\ OpType /\ PostType
      /\ op.kind = "write" => op.step \in {"victim", "page"}
      /\ post.slot = None <=> op.kind = "exit"
  BY <1>1, InSwitch
<1>3. post.slot # None /\ post.slot \in InUse
  BY <1>1, <1>2 DEF PostOk
<1>4. /\ post'.slot = post.slot /\ post'.step \in {"write", "read"} /\ PostType'
      /\ post' # NoPost
      /\ post'.step = "write" => pool[i].dirty /\ pool[i].slot # None /\ saved' = NoTables
  BY <1>1, <1>2, <1>3 DEF PostType, NoPost
<1>5. /\ FlashInv' /\ MountedOk' /\ SavedOk' /\ MergeOk' /\ PoolOk' /\ RestOk'
      /\ ScanOk' /\ CleanTablesCurrent'
  BY <1>1, <1>2, ControlKeeps DEF PoolOk, Mounted
<1>6. PostOk'
  <2>1. Mounted' /\ ~Merging' /\ (post'.slot = None <=> op'.kind = "exit") /\ post'.slot \in InUse'
    BY <1>1, <1>2, <1>3, <1>4 DEF Mounted, Merging, InUse
  <2>2. post'.step \in {"write", "merged"} => EntrySlot' # None /\ logs'[EntrySlot'].last # None
    <3>1. pool[i].slot # None /\ pool[i].dirty => logs[pool[i].slot].last # None
      BY DEF PoolOk
    <3> QED BY <1>1, <1>4, <3>1 DEF EntrySlot
  <2> QED BY <2>1, <2>2, <1>1, <1>4 DEF PostOk
<1>7. OpType' /\ WaitOk' /\ GivenOk'
  BY <1>1, <1>2, <1>4 DEF OpType, WaitOk, GivenOk, Quiet, Merging, OpOk, HasLog, InUse
<1>8. VictimOk' /\ LogOk'
  BY <1>1, <1>2, <1>3, <1>4 DEF VictimOk, LogOk, Quiet, Merging, OpOk, HasLog
<1>10. CleanOk' /\ CtlType'
  <2>1. ~NoTables.clean
    BY DEF NoTables
  <2> QED BY <1>1, <1>2, <1>4, <1>5, <2>1 DEF CleanOk, Merging, CtlType
<1> QED BY <1>5, <1>6, <1>7, <1>8, <1>10 DEF OpOk
\* A merge for a table that finds no free block fails the call, which rests.
LEMMA NoMergeForTableStep == ASSUME IInv, NoMergeForTable, UNCHANGED scan
                             PROVE  IInv'
<1>1. Switching /\ Fail
  BY DEF NoMergeForTable
<1> QED BY <1>1, InSwitch, FailStep
\* A write that finds no page again fails, at rest.
LEMMA FailWriteStep == ASSUME IInv, FailWrite, UNCHANGED scan
                       PROVE  IInv'
<1>1. Fail /\ ~Merging /\ op.kind = "write" /\ op.step # "info"
  BY DEF FailWrite, Ready, Placing
<1> QED BY <1>1, FailStep
\* The merge for a table was begun with the call waiting for it.
LEMMA TableMergedStep == ASSUME IInv, TableMerged, UNCHANGED scan
                         PROVE  IInv'
<1> USE DEF IInv
<1>1. /\ Switching /\ post.step = "merged"
      /\ post' = [post EXCEPT !.step = "read"]
      /\ UNCHANGED <<flash, data, logs, free, pool, cur, merge, ctl, op, saved>>
  BY DEF TableMerged, tables, maps, PostTo
<1>2. /\ post # NoPost /\ ~Merging /\ Mounted /\ op.step \notin {"info", "place", "failed"}
      /\ op.kind \in {"read", "write", "exit"} /\ OpType /\ PostType
      /\ op.kind = "write" => op.step \in {"victim", "page"}
      /\ post.slot = None <=> op.kind = "exit"
  BY <1>1, InSwitch
<1>4. post'.slot = post.slot /\ post'.step = "read" /\ PostType' /\ post' # NoPost
  BY <1>1, <1>2 DEF PostType, NoPost
<1>5. /\ FlashInv' /\ MountedOk' /\ SavedOk' /\ MergeOk' /\ PoolOk' /\ RestOk'
      /\ ScanOk' /\ CleanTablesCurrent'
  BY <1>1, <1>2, ControlKeeps DEF PoolOk, Mounted
<1>6. PostOk'
  BY <1>1, <1>2, <1>4 DEF PostOk, Mounted, Merging, InUse
<1>7. OpType' /\ WaitOk' /\ GivenOk'
  BY <1>1, <1>2, <1>4 DEF OpType, WaitOk, GivenOk, Quiet, Merging, OpOk, HasLog, InUse
<1>8. VictimOk' /\ LogOk'
  BY <1>1, <1>2, <1>4 DEF VictimOk, LogOk, Quiet, Merging, OpOk, HasLog
<1>10. CleanOk' /\ CtlType'
  BY <1>1, <1>2, <1>4, <1>5 DEF CleanOk, Merging, CtlType
<1> QED BY <1>5, <1>6, <1>7, <1>8, <1>10 DEF OpOk
\* The exit takes the dirty entries one after the other.
LEMMA FlushEntryStep == ASSUME IInv, NEW i \in Cached, FlushEntry(i), UNCHANGED scan
                        PROVE  IInv'
<1> USE DEF IInv
<1>1. /\ op.kind = "exit" /\ op.step = "flush" /\ ~Merging /\ post = NoPost /\ ~saved.clean
      /\ pool[i].slot # None /\ pool[i].dirty /\ cur' = i
      /\ post' = [slot |-> None, step |-> "write"]
      /\ UNCHANGED <<flash, data, logs, free, pool, merge, ctl, op, saved>>
  BY DEF FlushEntry, tables, DirtyEntry, Ready
<1>2. Mounted /\ Mounted' /\ op.slot = None
  BY <1>1, OpKinds DEF Mounted, OpOk
<1>5. /\ FlashInv' /\ MountedOk' /\ SavedOk' /\ MergeOk' /\ PoolOk' /\ RestOk'
      /\ ScanOk' /\ CleanTablesCurrent'
  BY <1>1, <1>2, ControlKeeps DEF PoolOk
<1>6. PostOk'
  <2>1. logs[pool[i].slot].last # None
    BY <1>1 DEF PoolOk
  <2> QED BY <1>1, <1>2, <2>1 DEF PostOk, PostType, Merging, EntrySlot
<1>7. OpOk'
  BY <1>1, <1>2 DEF OpOk, OpType, WaitOk, GivenOk, VictimOk, LogOk, Quiet, Merging
<1>10. CleanOk' /\ CtlType'
  BY <1>1, <1>2, <1>5 DEF CleanOk, Merging, CtlType
<1> QED BY <1>5, <1>6, <1>7, <1>10 DEF OpOk
\* What is rebuilt is a map, and so is what is read.
LEMMA RebuiltMap == ASSUME NEW b PROVE Rebuilt(b) \in Map
<1> SUFFICES ASSUME NEW p \in Page, {q \in Page : flash[b][q].lpn = p} # {}
             PROVE  (CHOOSE q \in {r \in Page : flash[b][r].lpn = p} :
                       \A u \in {r \in Page : flash[b][r].lpn = p} : u <= q) \in Page
  BY DEF Rebuilt, Map
<1> DEFINE V == {q \in Page : flash[b][q].lpn = p}
<1>1. V \in SUBSET (0 .. PageCnt - 1) /\ PageCnt - 1 \in Nat
  BY Numbers DEF Page
<1>2. \E q \in V : \A u \in V : u <= q
  BY <1>1, Greatest
<1> QED BY <1>2
\* The table read for a slot is a map, and empty for a new log block.
LEMMA StoredMapType ==
  ASSUME IInv, Mounted, NEW s \in InUse
  PROVE  /\ StoredMap(s) \in Map /\ MustRebuild(s) \in BOOLEAN
         /\ logs[s].last = None => StoredMap(s) = EmptyMap /\ ~MustRebuild(s)
<1> USE DEF IInv
<1>1. /\ s \in Slot /\ s \in Used(logs) /\ logs[s].last \in Page \cup {None}
      /\ logs[s].blk \in Blk
  BY DEF MountedOk, Roles, InUse, Used
<1>2. EmptyMap \in Map
  BY DEF EmptyMap, Map
<1>3. CASE logs[s].last # None /\ ~MustRebuild(s)
  <2>1. logs[s].last \in Page /\ IsTable(flash[logs[s].blk][logs[s].last])
    BY <1>3 DEF MustRebuild
  <2>2. flash[logs[s].blk][logs[s].last].main \in [kind : {"table"}, map : Map]
    BY <1>1, <2>1 DEF FlashInv, TablesHold
  <2> QED BY <1>3, <2>2 DEF StoredMap, MustRebuild
<1>4. CASE logs[s].last = None
  BY <1>2, <1>4 DEF StoredMap, MustRebuild
<1>5. CASE MustRebuild(s)
  BY <1>5, RebuiltMap DEF StoredMap, MustRebuild
<1> QED BY <1>3, <1>4, <1>5 DEF MustRebuild
\* The entry that was written out or empty is given to the slot.
LEMMA ReadTableStep == ASSUME IInv, ReadTable, UNCHANGED scan
                       PROVE  IInv'
<1> USE DEF IInv
<1> DEFINE e == [slot |-> post.slot, dirty |-> MustRebuild(post.slot),
                 map |-> StoredMap(post.slot)]
<1>1. /\ Switching /\ post.step = "read" /\ post.slot # None /\ post' = NoPost
      /\ pool' = [pool EXCEPT ![cur] = e]
      /\ saved' = IF MustRebuild(post.slot) THEN NoTables ELSE saved
      /\ UNCHANGED <<flash, data, logs, free, cur, merge, ctl, op>>
  BY DEF ReadTable, tables, SetDirtyFlag
<1>2. /\ post # NoPost /\ ~Merging /\ Mounted /\ op.step \notin {"info", "place", "failed"}
      /\ op.kind \in {"read", "write", "exit"} /\ OpType
      /\ op.kind = "write" => op.step \in {"victim", "page"}
  BY <1>1, InSwitch
<1>3. /\ post.slot \in InUse /\ \A i \in Cached : pool[i].slot # post.slot
      /\ pool \in [Cached -> EntryType] /\ cur \in Cached
  BY <1>1, <1>2 DEF PostOk, PoolOk
<1>4. /\ e.slot = post.slot /\ e \in EntryType /\ e.dirty = MustRebuild(post.slot)
      /\ logs[post.slot].last = None => e.map = EmptyMap /\ ~e.dirty
  <2>1. post.slot \in Slot
    BY <1>3 DEF InUse
  <2> QED BY <1>2, <1>3, <2>1, StoredMapType DEF EntryType
<1> HIDE DEF e
<1>5. /\ FlashInv' /\ MountedOk' /\ SavedOk' /\ MergeOk' /\ RestOk' /\ ScanOk' /\ ~Merging'
      /\ ~NoTables.clean /\ Mounted'
  BY <1>1, <1>2, TablesKeep DEF Mounted
<1>6. /\ pool'[cur] = e /\ pool' \in [Cached -> EntryType]
      /\ \A i \in Cached \ {cur} : pool'[i] = pool[i]
  BY <1>1, <1>3, <1>4
<1>7. PoolOk'
  <2>1. \A i \in Cached : pool'[i].slot # None =>
           /\ pool'[i].slot \in InUse'
           /\ logs'[pool'[i].slot].last = None => pool'[i].map = EmptyMap /\ ~pool'[i].dirty
    BY <1>1, <1>3, <1>4, <1>6 DEF PoolOk, InUse
  <2>2. \A i, j \in Cached : pool'[i].slot # None /\ pool'[i].slot = pool'[j].slot => i = j
    BY <1>1, <1>3, <1>4, <1>6 DEF PoolOk
  <2> QED BY <1>1, <1>3, <1>6, <2>1, <2>2 DEF PoolOk
<1>8. CleanOk'
  BY <1>1, <1>2, <1>4, <1>5, <1>6 DEF CleanOk, CleanTablesCurrent, DirtyEntry, NoPost
<1>9. PostOk'
  BY <1>1 DEF PostOk
<1>10. OpType' /\ WaitOk' /\ GivenOk'
  BY <1>1, <1>2 DEF OpType, WaitOk, GivenOk, Quiet, Merging, OpOk, HasLog, InUse
<1>11. VictimOk' /\ LogOk'
  BY <1>1, <1>2, <1>3, <1>4, <1>6 DEF VictimOk, LogOk, Quiet, Merging, OpOk, HasLog, EntrySlot
<1>12. CtlType'
  BY <1>1 DEF CtlType
<1> QED BY <1>5, <1>7, <1>8, <1>9, <1>10, <1>11, <1>12 DEF OpOk
\* A table on flash is no longer dirty in memory.
LEMMA EntryWrittenStep == ASSUME IInv, EntryWritten, UNCHANGED scan
                          PROVE  IInv'
<1> USE DEF IInv
<1>1. /\ Switching /\ post.step = "read" /\ post.slot = None /\ post' = NoPost
      /\ pool' = [pool EXCEPT ![cur].dirty = FALSE]
      /\ UNCHANGED <<flash, data, logs, free, cur, merge, ctl, op, saved>>
  BY DEF EntryWritten, tables
<1>2. /\ post # NoPost /\ ~Merging /\ Mounted /\ op.step \notin {"info", "place", "failed"}
      /\ op.kind = "exit" /\ OpType
  BY <1>1, InSwitch
<1>3. pool \in [Cached -> EntryType] /\ cur \in Cached
  BY <1>1, <1>2 DEF PoolOk
<1>5. /\ FlashInv' /\ MountedOk' /\ SavedOk' /\ MergeOk' /\ RestOk' /\ ScanOk' /\ ~Merging'
      /\ ~NoTables.clean /\ Mounted'
  BY <1>1, <1>2, TablesKeep DEF Mounted
<1>6. /\ pool' \in [Cached -> EntryType]
      /\ \A i \in Cached : /\ pool'[i].slot = pool[i].slot /\ pool'[i].map = pool[i].map
                           /\ pool'[i].dirty => pool[i].dirty
  BY <1>1, <1>3 DEF EntryType
<1>7. PoolOk'
  BY <1>1, <1>3, <1>6 DEF PoolOk, InUse
<1>8. CleanOk'
  BY <1>1, <1>2, <1>5, <1>6 DEF CleanOk, CleanTablesCurrent, DirtyEntry, NoPost
<1>9. PostOk'
  BY <1>1 DEF PostOk
<1>10. OpOk'
  BY <1>1, <1>2, OpKinds DEF OpType, WaitOk, GivenOk, VictimOk, LogOk, Quiet, Merging, OpOk, HasLog, InUse
<1>12. CtlType'
  BY <1>1 DEF CtlType
<1> QED BY <1>5, <1>7, <1>8, <1>9, <1>10, <1>12
\* Whoever asks for it, a merge begins in a state the merge expects.
LEMMA StartMergeKeeps ==
  ASSUME IInv, ~Merging, Mounted, Mounted', EntrySlot # None, ~saved.clean,
         NEW mode \in {"normal", "special"}, StartMerge(mode, logs[EntrySlot].lb),
         mode = "special" => logs[EntrySlot].last # None,
         op.step # "info", op'.step # "info",
         UNCHANGED <<flash, data, logs, pool, cur, saved, scan>>
  PROVE  /\ FlashInv' /\ MountedOk' /\ SavedOk' /\ MergeOk' /\ PoolOk' /\ RestOk' /\ ScanOk'
         /\ CleanOk' /\ Merging' /\ EntrySlot' = EntrySlot
         /\ merge'.kind = "move" => mode = "special"
<1> USE DEF IInv
<1> DEFINE e == EntrySlot
<1>1. e \in Slot /\ logs[e].lb # None
  BY DEF PoolOk, InUse, EntrySlot
<1>2. Roles(data, logs, free) /\ Complete(data, logs, free, None) /\ Marks(data, logs, free, None)
      /\ merge = NoMerge
  BY DEF MountedOk, Unnamed, Merging, NoMerge
<1>3. /\ logs[e].lb \in LogicBlk /\ logs[e].blk \in Blk \ free /\ LogOf(logs[e].lb) = logs[e]
      /\ logs[e].last \in Page \cup {None}
  BY <1>1, <1>2, OneLog DEF Roles, Used
<1>4. \/ /\ logs[e].last >= 0 /\ free' = free
         /\ merge' = [kind |-> "swap", lb |-> logs[e].lb, dst |-> logs[e].blk,
                      next |-> logs[e].last + 1, step |-> "copy"]
      \/ \E b \in free, k \in {"move", "simple"} :
           /\ merge' = [kind |-> k, lb |-> logs[e].lb, dst |-> b, next |-> 0, step |-> "copy"]
           /\ free' = free \ {b} /\ (k = "move" => mode = "special")
  BY <1>3 DEF StartMerge, MergeKind, InOrder
<1> HIDE DEF e
<1> DEFINE Started ==
      /\ MergeType' /\ merge'.lb = logs[e].lb /\ merge'.step = "copy" /\ Merging'
      /\ (merge'.kind = "move" => mode = "special")
      /\ merge'.kind = "swap" => /\ free' = free /\ merge'.dst = logs[e].blk
                                 /\ logs[e].last # None /\ merge'.next > 0
      /\ merge'.kind # "swap" => merge'.dst \in free /\ free' = free \ {merge'.dst}
                                 /\ merge'.next = 0
<1>5. Started
  <2>1. CASE /\ logs[e].last >= 0 /\ free' = free
             /\ merge' = [kind |-> "swap", lb |-> logs[e].lb, dst |-> logs[e].blk,
                          next |-> logs[e].last + 1, step |-> "copy"]
    <3>1. logs[e].last + 1 \in 0 .. PageCnt /\ logs[e].last + 1 > 0 /\ logs[e].last # None
      BY <1>3, <2>1, Numbers DEF Page, None
    <3> QED BY <1>3, <2>1, <3>1 DEF MergeType, Merging, NoMerge
  <2>2. ASSUME NEW b \in free, NEW k \in {"move", "simple"},
               merge' = [kind |-> k, lb |-> logs[e].lb, dst |-> b, next |-> 0, step |-> "copy"],
               free' = free \ {b}, k = "move" => mode = "special"
        PROVE  Started
    <3>1. b \in Blk /\ 0 \in 0 .. PageCnt
      BY <1>2, Numbers DEF Roles
    <3> QED BY <1>3, <2>2, <3>1 DEF MergeType, Merging, NoMerge
  <2> HIDE DEF Started
  <2> QED BY <1>4, <2>1, <2>2
<1>6. e = EntrySlot /\ EntrySlot' = e
  BY DEF e, EntrySlot
<1>7. FlashInv'
  BY DEF FlashInv, FlashType, Zeroed, TablesHold, IsTable
<1>8. MountedOk'
  <2>1. Roles(data, logs, free)'
    BY <1>2, <1>5 DEF Roles, Used, LogType
  <2>2. Complete(data, logs, free, merge.dst)'
    BY <1>2, <1>5, Numbers DEF Complete, Used
  <2>3. Marks(data, logs, free, Unnamed)'
    BY <1>2, <1>5 DEF Marks, Unnamed, Used
  <2> QED BY <2>1, <2>2, <2>3 DEF MountedOk
<1>9. SavedOk'
  BY DEF SavedOk, LogType
<1>10. MergeOk'
  <2>1. merge'.kind # "swap" => TargetOk'
    BY <1>2, <1>5 DEF TargetOk, Roles, Marks, InUse, Used
  <2> QED BY <1>1, <1>3, <1>5, <1>6, <2>1 DEF MergeOk
<1>11. PoolOk'
  BY DEF PoolOk, InUse
<1>12. RestOk' /\ ScanOk'
  BY DEF RestOk, ScanOk, Mounted
<1>13. CleanOk'
  BY DEF CleanOk, CleanTablesCurrent
<1> QED BY <1>5, <1>6, <1>7, <1>8, <1>9, <1>10, <1>11, <1>12, <1>13
\* A table that has no room left in its log block has the block merged.
LEMMA MergeForTableStep == ASSUME IInv, MergeForTable, UNCHANGED scan
                           PROVE  IInv'
<1> USE DEF IInv
<1>1. /\ Switching /\ post.step = "write" /\ TablePage = PageCnt
      /\ StartMerge("special", logs[EntrySlot].lb)
      /\ post' = [post EXCEPT !.step = "merged"]
      /\ UNCHANGED <<flash, data, logs, pool, cur, ctl, saved, op>>
  BY DEF MergeForTable, maps, PostTo
<1>2. /\ post # NoPost /\ ~Merging /\ Mounted /\ op.step \notin {"info", "place", "failed"}
      /\ op.kind \in {"read", "write", "exit"} /\ OpType /\ PostType
      /\ op.kind = "write" => op.step \in {"victim", "page"}
      /\ post.slot = None <=> op.kind = "exit"
  BY <1>1, InSwitch
<1>3. EntrySlot # None /\ logs[EntrySlot].last # None /\ ~saved.clean
  BY <1>1, <1>2 DEF PostOk, CleanOk
<1>4. post'.slot = post.slot /\ post'.step = "merged" /\ PostType' /\ post' # NoPost
  BY <1>1, <1>2 DEF PostType, NoPost
<1>5. /\ FlashInv' /\ MountedOk' /\ SavedOk' /\ MergeOk' /\ PoolOk' /\ RestOk' /\ ScanOk'
      /\ CleanOk' /\ Merging' /\ EntrySlot' = EntrySlot /\ Mounted'
  BY <1>1, <1>2, <1>3, StartMergeKeeps DEF Mounted
<1>6. PostOk'
  BY <1>1, <1>2, <1>3, <1>4, <1>5 DEF PostOk, InUse
<1>7. OpType' /\ WaitOk' /\ VictimOk'
  BY <1>1, <1>2, <1>4 DEF OpType, WaitOk, Quiet, OpOk, HasLog, VictimOk
<1>9. op.slot = None
  BY <1>1, <1>2, OpKinds DEF OpOk, GivenOk
<1>10. LogOk' /\ GivenOk'
  BY <1>1, <1>2, <1>4, <1>9 DEF GivenOk, Quiet, OpOk, LogOk
<1>8. CtlType'
  BY <1>1 DEF CtlType
<1> QED BY <1>5, <1>6, <1>7, <1>8, <1>10 DEF OpOk
\* The merge of a victim concerns the slot of the current entry.
LEMMA MergeVictimStep == ASSUME IInv, MergeVictim, UNCHANGED scan
                         PROVE  IInv'
<1> USE DEF IInv
<1>1. /\ ~Merging /\ post = NoPost /\ op.kind = "write" /\ op.step = "victim"
      /\ StartMerge("normal", logs[EntrySlot].lb)
      /\ op' = [op EXCEPT !.step = "log", !.slot = EntrySlot]
      /\ UNCHANGED <<flash, data, logs, pool, cur, ctl, saved, post>>
  BY DEF MergeVictim, maps, Ready
<1>2. EntrySlot # None /\ ~HasLog(op.lb) /\ ~saved.clean /\ op.slot = None
  BY <1>1 DEF OpOk, VictimOk, Quiet, CleanOk, GivenOk
<1>3. op \in WriteType /\ EntrySlot \in Slot
  BY <1>1, <1>2, OpKinds DEF OpOk, PoolOk, InUse, EntrySlot
<1>4. /\ op' \in WriteType /\ op'.kind = "write" /\ op'.step = "log" /\ op'.lb = op.lb
      /\ op'.slot = EntrySlot /\ Mounted /\ Mounted'
  BY <1>1, <1>3 DEF WriteType, Mounted
<1>5. /\ FlashInv' /\ MountedOk' /\ SavedOk' /\ MergeOk' /\ PoolOk' /\ RestOk' /\ ScanOk'
      /\ CleanOk' /\ Merging' /\ EntrySlot' = EntrySlot /\ merge'.kind # "move"
  BY <1>1, <1>2, <1>4, StartMergeKeeps
<1>6. PostOk'
  BY <1>1 DEF PostOk
<1>7. OpType'
  BY <1>4 DEF OpType, WriteType
<1>8. WaitOk' /\ VictimOk' /\ LogOk' /\ GivenOk'
  BY <1>1, <1>2, <1>4, <1>5 DEF WaitOk, GivenOk, Quiet, OpOk, HasLog, VictimOk, LogOk
<1>9. CtlType'
  BY <1>1 DEF CtlType
<1> QED BY <1>5, <1>6, <1>7, <1>8, <1>9 DEF OpOk
\* The page for a write without a bound is behind a last used page.
LEMMA FullHasLast ==
  ASSUME OpType, op.kind = "write", LastUsed = None PROVE LogPageForWrite \in Page
<1>1. op.bank \in BankSet
  BY OpKinds DEF WriteType
<1>2. \A p \in Page : BankOf(p) \in Page
  BY Numbers DEF Page, BankOf
<1>3. op.bank \in Page /\ 0 \in Page /\ \A p \in Page : p \in Nat /\ p < 65536
  BY <1>1, <1>2, Numbers, PageNumberAssumption DEF BankSet, Page
<1>4. \A p \in Page : U16(p) = p
  BY <1>3 DEF U16
<1>5. CASE Align
  BY <1>3, <1>4, <1>5 DEF LogPageForWrite
<1>6. CASE ~Align
  <2>1. LastUsed + 1 = 0
    BY DEF None
  <2> QED BY <2>1, <1>3, <1>4, <1>6 DEF LogPageForWrite
<1> QED BY <1>5, <1>6
\* The merge of a full log block concerns the block being written.
LEMMA MergeFullLogStep == ASSUME IInv, MergeFullLog, UNCHANGED scan
                          PROVE  IInv'
<1> USE DEF IInv
<1>1. /\ ~Merging /\ post = NoPost /\ op.kind = "write" /\ op.step \in {"page", "place"}
      /\ StartMerge("special", op.lb) /\ LogPageForWrite >= PageCnt
      /\ op' = [op EXCEPT !.step = "log", !.again = TRUE]
      /\ UNCHANGED <<flash, data, logs, pool, cur, ctl, saved, post>>
  BY DEF MergeFullLog, maps, Ready, Placing
<1>2. EntrySlot # None /\ logs[EntrySlot].lb = op.lb /\ ~saved.clean /\ op.slot = None
  BY <1>1 DEF OpOk, LogOk, Quiet, CleanOk, GivenOk
<1>3. op \in WriteType /\ EntrySlot \in Slot /\ OpType
  BY <1>1, <1>2, OpKinds DEF OpOk, PoolOk, InUse, EntrySlot
<1>4. /\ op' \in WriteType /\ op'.kind = "write" /\ op'.step = "log" /\ op'.lb = op.lb
      /\ op'.slot = None /\ Mounted /\ Mounted'
  BY <1>1, <1>2, <1>3 DEF WriteType, Mounted
<1>5. logs[EntrySlot].last # None
  <2>1. LogOf(op.lb) = logs[EntrySlot]
    <3>1. op.lb # None
      BY <1>3, Numbers DEF WriteType
    <3>2. Roles(data, logs, free)
      BY <1>4 DEF MountedOk
    <3> QED BY <1>2, <1>3, <3>1, <3>2, OneLog
  <2>2. LogPageForWrite \notin Page
    BY <1>1, Numbers DEF Page
  <2>3. LastUsed # None
    BY <1>1, <1>3, <2>2, FullHasLast
  <2> QED BY <2>1, <2>3 DEF LastUsed
<1>6. /\ FlashInv' /\ MountedOk' /\ SavedOk' /\ MergeOk' /\ PoolOk' /\ RestOk' /\ ScanOk'
      /\ CleanOk' /\ Merging' /\ EntrySlot' = EntrySlot
  BY <1>1, <1>2, <1>4, <1>5, StartMergeKeeps
<1>7. PostOk'
  BY <1>1 DEF PostOk
<1>8. OpType'
  BY <1>4 DEF OpType, WriteType
<1>9. WaitOk' /\ VictimOk' /\ LogOk' /\ GivenOk'
  BY <1>1, <1>2, <1>4, <1>6 DEF WaitOk, GivenOk, Quiet, OpOk, HasLog, VictimOk, LogOk
<1>10. CtlType'
  BY <1>1 DEF CtlType
<1> QED BY <1>6, <1>7, <1>8, <1>9, <1>10 DEF OpOk
\* Marks and ages.
LEMMA Status ==
  /\ 0 .. AgeCnt - 1 \subseteq 0 .. TableMark /\ FreeMark \in 0 .. AgeCnt - 1
  /\ DataMark \in 0 .. TableMark /\ TableMark \in 0 .. TableMark
  /\ DataMark \notin 0 .. AgeCnt - 1 /\ TableMark \notin 0 .. AgeCnt - 1
  /\ DataMark # TableMark
  /\ \A a \in 0 .. AgeCnt - 1, n \in Nat : Older(a, n) \in 0 .. AgeCnt - 1
BY Numbers DEF FreeMark, DataMark, TableMark, Older
\* What a page holds, and the age of a block, are in their types.
LEMMA RecordsTyped ==
  ASSUME FlashInv
  PROVE  /\ \A b \in Blk, p \in Page : flash[b][p] \in RecordType
         /\ \A b \in Blk : AgeOf(b) \in 0 .. AgeCnt - 1
BY DEF FlashInv, FlashType, RecordType, AgeOf
\* What programming a page and erasing a block do.
LEMMA ProgramKeeps ==
  ASSUME FlashInv, NEW b \in Blk, NEW p \in Page, NEW rec \in RecordType,
         p = 0 => rec.status \in 0 .. AgeCnt - 1 /\ rec.info # None,
         p # 0 => flash[b][0].info # None,
         IsTable(rec) => rec.main \in [kind : {"table"}, map : Map],
         Program(b, p, rec)
  PROVE  /\ FlashInv'
         /\ \A c \in Blk \ {b} : flash'[c] = flash[c]
         /\ flash'[b][p] = rec /\ \A q \in Page \ {p} : flash'[b][q] = flash[b][q]
         /\ flash'[b][0].info = IF p = 0 THEN rec.info ELSE flash[b][0].info
<1>1. flash \in [Blk -> [Page -> RecordType]] /\ 0 \in Page
  BY Numbers DEF FlashInv, FlashType, RecordType
<1>2. flash' \in [Blk -> [Page -> RecordType]]
  BY <1>1 DEF Program
<1>3. /\ \A c \in Blk \ {b} : flash'[c] = flash[c]
      /\ flash'[b][p] = rec /\ \A q \in Page \ {p} : flash'[b][q] = flash[b][q]
  BY <1>1 DEF Program
<1>4. flash'[b][0].info = IF p = 0 THEN rec.info ELSE flash[b][0].info
  BY <1>1, <1>3
<1>5. FlashType'
  <2>1. \A c \in Blk : flash'[c][0].status \in 0 .. AgeCnt - 1
    BY <1>1, <1>3 DEF FlashInv, FlashType
  <2> QED BY <1>2, <2>1 DEF FlashType, RecordType
<1>6. Zeroed'
  BY <1>3, <1>4 DEF FlashInv, Zeroed
<1>7. TablesHold'
  BY <1>3 DEF FlashInv, TablesHold, IsTable
<1> QED BY <1>3, <1>4, <1>5, <1>6, <1>7 DEF FlashInv
\* An erase empties its block and leaves the others.
LEMMA EraseKeeps ==
  ASSUME FlashInv, NEW b \in Blk, flash' = [flash EXCEPT ![b] = ErasedBlk]
  PROVE  /\ FlashInv' /\ flash'[b] = ErasedBlk /\ flash'[b][0].info = None
         /\ \A c \in Blk \ {b} : flash'[c] = flash[c]
<1>1. flash \in [Blk -> [Page -> RecordType]] /\ 0 \in Page
  BY Numbers DEF FlashInv, FlashType, RecordType
<1>2. Erased \in RecordType /\ Erased.status \in 0 .. AgeCnt - 1 /\ Erased.info = None
      /\ Erased.status # TableMark
  BY Status DEF Erased, PageRecord, RecordType, Main
<1>3. /\ ErasedBlk \in [Page -> RecordType] /\ \A p \in Page : ErasedBlk[p] = Erased
  BY <1>2 DEF ErasedBlk
<1>4. /\ flash'[b] = ErasedBlk /\ \A c \in Blk \ {b} : flash'[c] = flash[c]
      /\ flash' \in [Blk -> [Page -> RecordType]]
  BY <1>1, <1>3
<1>5. FlashType'
  <2>1. \A c \in Blk : flash'[c][0].status \in 0 .. AgeCnt - 1
    BY <1>1, <1>2, <1>3, <1>4 DEF FlashInv, FlashType
  <2> QED BY <1>4, <2>1 DEF FlashType, RecordType
<1>6. Zeroed'
  BY <1>4 DEF FlashInv, Zeroed
<1>7. TablesHold'
  BY <1>2, <1>3, <1>4 DEF FlashInv, TablesHold, IsTable
<1> QED BY <1>1, <1>2, <1>3, <1>4, <1>5, <1>6, <1>7 DEF FlashInv
\* What holds during a merge.
LEMMA InMerge ==
  ASSUME IInv, Merging
  PROVE  LET e == EntrySlot IN
         /\ Mounted /\ MergeType /\ Roles(data, logs, free)
         /\ Complete(data, logs, free, merge.dst) /\ Marks(data, logs, free, None)
         /\ e \in Slot /\ e \in InUse /\ merge.lb \in LogicBlk /\ logs[e].lb = merge.lb
         /\ SlotOf(merge.lb) = e /\ LogOf(merge.lb) = logs[e]
         /\ logs[e].blk \in Blk \ free /\ data[merge.lb] \in Blk /\ data[merge.lb] # logs[e].blk
         /\ flash[data[merge.lb]][0].info = merge.lb
         /\ logs[e].last \in Page \cup {None}
         /\ logs[e].last # None => flash[logs[e].blk][0].info = merge.lb
         /\ map \in Map /\ (logs[e].last = None => map = EmptyMap)
         /\ ~saved.clean /\ op.step \notin {"info", "place", "failed"}
         /\ op.kind \in {"read", "write", "exit"}
         /\ op.kind # "write" => post # NoPost
<1> USE DEF IInv
<1> DEFINE e == EntrySlot
<1>1. Mounted /\ MergeType /\ e # None /\ logs[e].lb = merge.lb
  BY DEF MergeOk
<1>2. e \in Slot /\ e \in InUse /\ map \in Map /\ (logs[e].last = None => map = EmptyMap)
  BY <1>1 DEF PoolOk, EntryType, InUse, EntrySlot, map
<1>3. merge.lb \in LogicBlk /\ merge.lb # None
  BY <1>1, Numbers DEF MergeType
<1>4. op.step \notin {"info", "place", "failed"} /\ op.kind \in {"read", "write", "exit"}
      /\ (op.kind # "write" => post # NoPost)
  BY <1>1 DEF OpOk, LogOk, WaitOk, Quiet, Mounted
<1>5. Roles(data, logs, free) /\ Complete(data, logs, free, merge.dst)
      /\ Marks(data, logs, free, None)
  BY <1>1, <1>4 DEF MountedOk, Unnamed
<1>6. SlotOf(merge.lb) = e /\ LogOf(merge.lb) = logs[e] /\ logs[e].blk \in Blk \ free
  BY <1>1, <1>2, <1>3, <1>5, OneLog
<1>7. data[merge.lb] \in Blk /\ data[merge.lb] # logs[e].blk /\ logs[e].last \in Page \cup {None}
  BY <1>1, <1>2, <1>3, <1>5 DEF Roles, Used, InUse
<1>8. /\ flash[data[merge.lb]][0].info = merge.lb
      /\ logs[e].last # None => flash[logs[e].blk][0].info = merge.lb
  BY <1>1, <1>2, <1>3, <1>5 DEF Marks, Used, InUse
<1>9. ~saved.clean
  BY DEF CleanOk
<1> QED BY <1>1, <1>2, <1>3, <1>4, <1>5, <1>6, <1>7, <1>8, <1>9
\* A page is copied to the target of the merge.
LEMMA CopyKeeps ==
  ASSUME IInv, Merging, merge.step # "erase",
         NEW q \in Page, NEW rec \in RecordType, Program(merge.dst, q, rec),
         q = 0 => merge.kind # "swap" /\ rec.info = merge.lb /\ rec.status \in 0 .. AgeCnt - 1,
         q # 0 => merge.kind = "swap" \/ merge.next # 0 \/ merge.step = "copied0",
         IsTable(rec) => rec.main \in [kind : {"table"}, map : Map],
         UNCHANGED <<data, logs, free, cur, ctl, saved, op, post, scan>>,
         MergeType', merge'.kind = merge.kind, merge'.lb = merge.lb, merge'.dst = merge.dst,
         merge'.next > 0 \/ merge'.step = "copied0", merge.kind = "swap" => merge'.next > 0,
         merge'.step \in {"copy", "copied0"}, merge'.step = "copied0" => merge.kind = "move",
         pool' \in [Cached -> EntryType],
         \A i \in Cached :
           /\ pool'[i].slot = pool[i].slot /\ pool'[i].dirty = pool[i].dirty
           /\ pool'[i].map = pool[i].map \/ logs[pool[i].slot].last # None
  PROVE  IInv'
<1> USE DEF IInv
<1> DEFINE e == EntrySlot
<1>1. /\ Mounted /\ MergeType /\ Roles(data, logs, free)
      /\ Complete(data, logs, free, merge.dst) /\ Marks(data, logs, free, None)
      /\ e \in Slot /\ e \in InUse /\ merge.lb \in LogicBlk /\ logs[e].lb = merge.lb
      /\ logs[e].last # None => flash[logs[e].blk][0].info = merge.lb
      /\ ~saved.clean /\ op.step \notin {"info", "place", "failed"}
  BY InMerge
<1>2. /\ merge.kind = "swap" => /\ merge.dst = logs[e].blk /\ logs[e].last # None
                                /\ merge.next > 0 /\ merge.step = "copy"
      /\ merge.kind # "swap" => TargetOk
      /\ merge.kind = "move" => logs[e].last # None
      /\ merge.dst \in Blk /\ merge.lb # None
  BY <1>1, Numbers DEF MergeOk, MergeType
<1> HIDE DEF e
<1>3. q # 0 => flash[merge.dst][0].info = merge.lb
  BY <1>1, <1>2 DEF TargetOk
<1>4. /\ FlashInv'
      /\ \A c \in Blk \ {merge.dst} : flash'[c] = flash[c]
      /\ flash'[merge.dst][0].info = merge.lb
  BY <1>2, <1>3, ProgramKeeps
<1>5. EntrySlot' = e /\ PoolOk' /\ e = EntrySlot
  BY DEF PoolOk, InUse, EntrySlot, e
<1>6. merge.kind # "swap" => /\ merge.dst \notin free /\ \A lb \in LogicBlk : data[lb] # merge.dst
                             /\ \A s \in InUse : logs[s].blk # merge.dst
  BY <1>2 DEF TargetOk
<1>7. Marks(data, logs, free, None)'
  <2>1. CASE merge.kind # "swap"
    <3>1. /\ \A b \in free : b \in Blk \ {merge.dst}
          /\ \A lb \in LogicBlk : data[lb] \in Blk \ {merge.dst}
          /\ \A s \in Used(logs) : logs[s].blk \in Blk \ {merge.dst} /\ logs[s].lb \in LogicBlk
      BY <1>1, <1>6, <2>1 DEF Roles, Used, InUse, LogType
    <3> QED BY <1>1, <1>4, <3>1 DEF Marks, Used
  <2>2. CASE merge.kind = "swap"
    <3>1. merge.dst \notin free /\ \A lb \in LogicBlk : data[lb] # merge.dst
      BY <1>1, <1>2, <2>2 DEF Roles, Used, InUse
    <3>2. \A s \in Used(logs) : logs[s].blk = merge.dst => s = e
      BY <1>1, <1>2, <2>2 DEF Roles, Used, InUse
    <3>3. /\ \A b \in free : b \in Blk \ {merge.dst}
          /\ \A lb \in LogicBlk : data[lb] \in Blk \ {merge.dst}
          /\ \A s \in Used(logs) :
               logs[s].blk \in Blk /\ logs[s].lb \in LogicBlk /\ (s = e \/ logs[s].blk # merge.dst)
      BY <1>1, <3>1, <3>2 DEF Roles, Used, InUse, LogType
    <3> QED BY <1>1, <1>2, <1>4, <2>2, <3>3 DEF Marks, Used
  <2> QED BY <2>1, <2>2
<1>8. MountedOk'
  <2>1. Roles(data, logs, free)' /\ Complete(data, logs, free, merge.dst)'
    BY <1>1 DEF Roles, Complete, Used, LogType
  <2> QED BY <1>1, <1>7, <2>1 DEF MountedOk, Unnamed
<1>9. SavedOk' /\ CleanOk'
  BY <1>1 DEF SavedOk, LogType, CleanOk, CleanTablesCurrent
<1>10. MergeOk'
  <2>1. merge.kind # "swap" => TargetOk'
    BY <1>4, <1>6 DEF TargetOk, InUse
  <2> QED BY <1>1, <1>2, <1>5, <2>1 DEF MergeOk, Mounted
<1>11. PostOk'
  <2>1. Merging'
    BY DEF Merging, NoMerge, MergeType
  <2> QED BY <1>5, <2>1 DEF PostOk, PostType, Mounted, InUse
<1>12. OpOk'
  <2>1. Merging'
    BY DEF Merging, NoMerge, MergeType
  <2> QED BY <1>1, <1>5, <2>1 DEF OpOk, OpType, WaitOk, VictimOk, LogOk, GivenOk, Quiet, HasLog
<1>13. RestOk' /\ ScanOk'
  BY <1>1 DEF RestOk, ScanOk, Mounted
<1>14. CtlType'
  BY DEF CtlType
<1> QED BY <1>4, <1>5, <1>8, <1>9, <1>10, <1>11, <1>12, <1>13, <1>14
(***************************************************************************)
(* Where a move merge puts a page.                                         *)
(***************************************************************************)
LEMMA DivMod ==
  ASSUME NEW n \in Nat, NEW d \in Nat, d > 0
  PROVE  /\ n \div d \in Nat /\ n % d \in 0 .. d - 1 /\ n = d * (n \div d) + (n % d)
OBVIOUS
\* Among pages of one bank the order is that of their lines.
LEMMA DivLess ==
  ASSUME NEW p \in Nat, NEW q \in Nat, NEW d \in Nat, d > 0, p % d = q % d
  PROVE  /\ q < p => q \div d < p \div d
         /\ q \div d = p \div d => q = p
<1> DEFINE a == p \div d
           b == q \div d
           r == p % d
<1>1. a \in Nat /\ b \in Nat /\ p = d * a + r /\ q = d * b + r /\ r \in Nat
  BY DivMod
<1> HIDE DEF a, b, r
<1>2. b >= a => d * b >= d * a
  BY <1>1
<1>3. d * b \in Nat /\ d * a \in Nat
  BY <1>1
<1>4. q < p => ~(b >= a)
  BY <1>1, <1>2, <1>3
<1> QED BY <1>1, <1>4 DEF a, b
\* Multiplication keeps the order.
LEMMA MulLe ==
  ASSUME NEW a \in Nat, NEW b \in Nat, NEW d \in Nat, a <= b
  PROVE  d * a \in Nat /\ d * b \in Nat /\ d * a <= d * b
OBVIOUS
\* A part of an interval is finite.
LEMMA PartOfInterval ==
  ASSUME NEW a \in Int, NEW b \in Int, NEW S \in SUBSET (a .. b)
  PROVE  IsFiniteSet(S) /\ Cardinality(S) \in Nat
<1>1. IsFiniteSet(a .. b)
  BY FS_Interval
<1>2. IsFiniteSet(S)
  BY <1>1, FS_Subset
<1> QED BY <1>2, FS_CardinalityType
\* The pages of its bank before a page are no more than the lines before it.
LEMMA RankBound ==
  ASSUME map \in Map, NEW p \in Mapped(map)
  PROVE  Rank(p) \in Nat /\ Target(p) \in Nat /\ Target(p) <= p /\ Target(p) \in Page
<1> DEFINE S == {q \in Mapped(map) : BankOf(q) = BankOf(p) /\ q < p}
           d == Stride
<1>1. p \in Nat /\ p < PageCnt /\ p \in Page /\ S \subseteq 0 .. p - 1 /\ \A q \in S : q \in Nat
  BY Numbers DEF Mapped, Page
<1>2. d \in Nat /\ d > 0 /\ \A n \in Nat : BankOf(n) = n % d
  BY Numbers DEF Stride, BankOf
<1> HIDE DEF d
<1>3. IsFiniteSet(S) /\ Cardinality(S) \in Nat
  <2>1. 0 \in Int /\ p - 1 \in Int /\ S \in SUBSET (0 .. p - 1)
    BY <1>1
  <2> HIDE DEF S
  <2> QED BY <2>1, PartOfInterval
<1> DEFINE m == p \div d
           T == 0 .. m - 1
<1>4. m \in Nat /\ p = d * m + (p % d) /\ p % d \in Nat
  BY <1>1, <1>2, DivMod
<1> HIDE DEF m
<1>5. IsFiniteSet(T) /\ Cardinality(T) = m
  <2>1. 0 \in Int /\ m - 1 \in Int
    BY <1>4
  <2>2. IsFiniteSet(0 .. m - 1) /\ Cardinality(0 .. m - 1) = IF 0 > m - 1 THEN 0 ELSE m - 1 - 0 + 1
    BY <2>1, FS_Interval
  <2> QED BY <1>4, <2>2
<1>6. Cardinality(S) <= m
  <2> SUFFICES ASSUME m < Cardinality(S)
               PROVE  FALSE
    BY <1>3, <1>4
  <2> DEFINE f == [q \in S |-> q \div d]
  <2>1. \A q \in S : q % d = p % d /\ q < p
    BY <1>1, <1>2
  <2>2. \A q \in S : q \div d \in T
    <3> TAKE q \in S
    <3>1. q \in Nat /\ q \div d \in Nat /\ q \div d < p \div d
      BY <1>1, <1>2, <2>1, DivLess, DivMod
    <3> QED BY <3>1, <1>4 DEF m
  <2>3. f \in [S -> T]
    BY <2>2
  <2>4. PICK x, y \in S : x # y /\ f[x] = f[y]
    <3> HIDE DEF f, S, T
    <3> QED BY <1>3, <1>5, <2>3, FS_PigeonHole
  <2>5. x % d = y % d /\ x \div d = y \div d
    BY <2>1, <2>4
  <2>6. x \in Nat /\ y \in Nat
    BY <1>1
  <2> QED BY <1>2, <2>4, <2>5, <2>6, DivLess
<1>7. Rank(p) = Cardinality(S) /\ Target(p) = (p % d) + d * Rank(p)
  BY <1>1, <1>2 DEF Rank, Target, d
<1> DEFINE r == Rank(p)
<1>8. r \in Nat /\ r <= m
  BY <1>3, <1>6, <1>7
<1> DEFINE x == d * r
           y == d * m
<1>9. x \in Nat /\ y \in Nat /\ x <= y
  <2> HIDE DEF r
  <2> QED BY <1>2, <1>4, <1>8, MulLe
<1>10. Target(p) = (p % d) + x /\ p = y + (p % d)
  BY <1>4, <1>7
<1>11. p % d \in Nat
  BY <1>4
<1> HIDE DEF x, y
<1>12. Target(p) \in Nat /\ Target(p) <= p
  BY <1>1, <1>9, <1>10, <1>11
<1>13. Target(p) \in Page
  BY <1>1, <1>12, Numbers DEF Page
<1> QED BY <1>8, <1>12, <1>13
\* The first page of a move goes to page 0, if one goes there at all.
LEMMA FirstTarget ==
  ASSUME map \in Map, NEW p \in Page, MoveOrder(p), merge.next = 0, 0 \in Targets \/ ~Align
  PROVE  Target(p) = 0
<1> DEFINE B == {q \in Mapped(map) : Before(q, p)}
<1>1. Mapped(map) \subseteq Page /\ p \in Mapped(map) /\ Page \subseteq Nat
  BY Numbers DEF Mapped, MoveOrder
<1>2. IsFiniteSet(B)
  <2>1. 0 \in Int /\ PageCnt - 1 \in Int /\ B \in SUBSET (0 .. PageCnt - 1)
    BY <1>1, Numbers DEF Page
  <2> HIDE DEF B
  <2> QED BY <2>1, PartOfInterval
<1>3. B = {}
  BY <1>2, FS_EmptySet DEF MoveOrder
<1>4. \A q \in Mapped(map) : BankOf(q) \in Nat
  BY <1>1, Numbers DEF BankOf
<1>5. {q \in Mapped(map) : BankOf(q) = BankOf(p) /\ q < p} = {}
  BY <1>3 DEF Before
<1>6. Rank(p) = 0
  BY <1>5, FS_EmptySet DEF Rank
<1>7. BankOf(p) = 0
  <2>1. CASE ~Align
    BY <2>1 DEF BankOf
  <2>2. CASE 0 \in Targets
    <3>1. PICK q \in Mapped(map) : Target(q) = 0
      BY <2>2 DEF Targets
    <3>2. Rank(q) \in Nat /\ Stride \in Nat
      BY RankBound, Numbers DEF Stride
    <3>3. Stride * Rank(q) \in Nat
      BY <3>2
    <3>4. BankOf(q) = 0
      BY <1>4, <3>1, <3>3 DEF Target
    <3>5. ~Before(q, p)
      BY <1>3
    <3> QED BY <1>1, <1>4, <3>4, <3>5 DEF Before
  <2> QED BY <2>1, <2>2
<1>8. Stride * 0 = 0
  BY Numbers DEF Stride
<1> QED BY <1>6, <1>7, <1>8 DEF Target
\* A copied record.
LEMMA CopiedRecord ==
  ASSUME FlashInv, NEW src \in Blk, NEW sp \in Page
  PROVE  /\ flash[src][sp] \in RecordType
         /\ IsTable(flash[src][sp]) => flash[src][sp].main \in [kind : {"table"}, map : Map]
BY RecordsTyped DEF FlashInv, TablesHold
\* So is a page copied to page 0, with an info and an age of its own.
LEMMA CopiedRecord0 ==
  ASSUME FlashInv, NEW src \in Blk, NEW sp \in Page, NEW n \in Nat
  PROVE  LET rec == [flash[src][sp] EXCEPT !.info = flash[src][0].info,
                                           !.status = Older(AgeOf(src), n)]
         IN  /\ rec \in RecordType /\ rec.info = flash[src][0].info
             /\ rec.status \in 0 .. AgeCnt - 1 /\ ~IsTable(rec)
<1>1. flash[src][sp] \in RecordType /\ flash[src][0] \in RecordType
      /\ AgeOf(src) \in 0 .. AgeCnt - 1
  BY RecordsTyped, Numbers
<1>2. Older(AgeOf(src), n) \in 0 .. AgeCnt - 1
  BY <1>1, Status
<1>3. Older(AgeOf(src), n) \in 0 .. TableMark /\ Older(AgeOf(src), n) # TableMark
  BY <1>2, Status
<1> QED BY <1>1, <1>2, <1>3 DEF RecordType, IsTable
\* A swap merge fills the log block from the data block.
LEMMA SwapCopyStep == ASSUME IInv, SwapCopy, UNCHANGED scan
                      PROVE  IInv'
<1> USE DEF IInv
<1>1. Merging
  BY DEF SwapCopy, Merging, NoMerge
<1>2. MergeType /\ data[merge.lb] \in Blk
  BY <1>1, InMerge
<1>3. merge.step = "copy" /\ merge.next > 0 /\ merge.kind = "swap"
  BY <1>1 DEF MergeOk, SwapCopy
<1>4. merge.next \in Page /\ merge.next + 1 \in 0 .. PageCnt /\ merge.next # 0
      /\ merge.next + 1 > 0
  BY <1>2, <1>3, Numbers DEF SwapCopy, MergeType, Page
<1>5. /\ MergeType' /\ merge'.kind = merge.kind /\ merge'.lb = merge.lb
      /\ merge'.dst = merge.dst /\ merge'.next = merge.next + 1 /\ merge'.step = "copy"
  BY <1>2, <1>3, <1>4 DEF SwapCopy, NextPage, MergeType
<1> DEFINE rec == flash[data[merge.lb]][merge.next]
<1>6. rec \in RecordType /\ (IsTable(rec) => rec.main \in [kind : {"table"}, map : Map])
  BY <1>2, <1>4, CopiedRecord
<1>7. Program(merge.dst, merge.next, rec)
  BY DEF SwapCopy, Copy
<1>8. UNCHANGED <<data, logs, free, pool, cur, ctl, saved, op, post, scan>>
  BY DEF SwapCopy, tables, maps
<1>9. pool \in [Cached -> EntryType]
  BY DEF PoolOk
<1> HIDE DEF rec, IInv
<1> QED BY <1>1, <1>3, <1>4, <1>5, <1>6, <1>7, <1>8, <1>9, CopyKeeps
\* A simple merge copies every page to the target.
LEMMA SimpleCopyStep == ASSUME IInv, SimpleCopy, UNCHANGED scan
                        PROVE  IInv'
<1> USE DEF IInv
<1>1. Merging
  BY DEF SimpleCopy, Merging, NoMerge
<1> DEFINE e == EntrySlot
<1>2. /\ MergeType /\ data[merge.lb] \in Blk /\ e \in Slot /\ LogOf(merge.lb) = logs[e]
      /\ logs[e].blk \in Blk /\ map \in Map /\ (logs[e].last = None => map = EmptyMap)
      /\ flash[data[merge.lb]][0].info = merge.lb
      /\ logs[e].last # None => flash[logs[e].blk][0].info = merge.lb
      /\ merge.lb # None
  BY <1>1, InMerge, Numbers
<1>3. merge.step = "copy" /\ merge.kind = "simple"
  <2>1. TargetOk /\ merge.kind = "simple" /\ merge.step # "copied0"
    BY <1>1 DEF MergeOk, SimpleCopy
  <2>2. merge.step # "erase"
    BY <2>1, Numbers DEF SimpleCopy, TargetOk
  <2> QED BY <1>2, <2>1, <2>2 DEF MergeType
<1>4. merge.next \in Page /\ merge.next + 1 \in 0 .. PageCnt /\ merge.next + 1 > 0
  BY <1>2, <1>3, Numbers DEF SimpleCopy, MergeType, Page
<1>5. /\ MergeType' /\ merge'.kind = merge.kind /\ merge'.lb = merge.lb
      /\ merge'.dst = merge.dst /\ merge'.next = merge.next + 1 /\ merge'.step = "copy"
  BY <1>2, <1>3, <1>4 DEF SimpleCopy, NextPage, MergeType
<1> DEFINE inData == map[merge.next] = None
           src == IF inData THEN data[merge.lb] ELSE logs[e].blk
           sp == IF inData THEN merge.next ELSE map[merge.next]
<1>6. src \in Blk /\ sp \in Page /\ flash[src][0].info = merge.lb
  <2>1. map[merge.next] \in Page \cup {None}
    BY <1>2, <1>4 DEF Map
  <2>2. ~inData => logs[e].last # None
    BY <1>2, <1>4 DEF EmptyMap
  <2> QED BY <1>2, <1>4, <2>1, <2>2
<1>7. /\ merge.next = 0 =>
           \E n \in Nat : Program(merge.dst, 0, [flash[src][sp] EXCEPT
                            !.info = flash[src][0].info, !.status = Older(AgeOf(src), n)])
      /\ merge.next # 0 => Program(merge.dst, merge.next, flash[src][sp])
  BY <1>2 DEF SimpleCopy, CopyPage0, Copy
<1>8. UNCHANGED <<data, logs, free, pool, cur, ctl, saved, op, post, scan>>
  BY DEF SimpleCopy, tables, maps
<1>9. pool \in [Cached -> EntryType]
  BY DEF PoolOk
<1> HIDE DEF src, sp, IInv, inData
<1>10. CASE merge.next = 0
  <2>1. PICK n \in Nat : Program(merge.dst, 0, [flash[src][sp] EXCEPT
                            !.info = flash[src][0].info, !.status = Older(AgeOf(src), n)])
    BY <1>7, <1>10
  <2> DEFINE rec == [flash[src][sp] EXCEPT !.info = flash[src][0].info,
                                           !.status = Older(AgeOf(src), n)]
  <2>2. rec \in RecordType /\ rec.info = merge.lb
        /\ rec.status \in 0 .. AgeCnt - 1 /\ ~IsTable(rec)
    BY <1>6, CopiedRecord0 DEF IInv
  <2>3. Program(merge.dst, merge.next, rec)
    BY <1>10, <2>1
  <2> HIDE DEF rec
  <2> QED BY <1>1, <1>3, <1>4, <1>5, <1>8, <1>9, <1>10, <2>2, <2>3, CopyKeeps
<1>11. CASE merge.next # 0
  <2> DEFINE rec == flash[src][sp]
  <2>1. rec \in RecordType /\ (IsTable(rec) => rec.main \in [kind : {"table"}, map : Map])
    BY <1>6, CopiedRecord DEF IInv
  <2>2. Program(merge.dst, merge.next, rec)
    BY <1>7, <1>11
  <2> HIDE DEF rec
  <2> QED BY <1>1, <1>3, <1>4, <1>5, <1>8, <1>9, <1>11, <2>1, <2>2, CopyKeeps
<1> QED BY <1>10, <1>11
\* A move merge copies the mapped pages, each to a page of its bank.
LEMMA MoveCopyStep == ASSUME IInv, NEW p \in Page, MoveCopy(p), UNCHANGED scan
                      PROVE  IInv'
<1> USE DEF IInv
<1>1. Merging
  BY DEF MoveCopy, Merging, NoMerge
<1> DEFINE e == EntrySlot
<1>2. /\ MergeType /\ e \in Slot /\ LogOf(merge.lb) = logs[e]
      /\ logs[e].blk \in Blk /\ map \in Map /\ merge.lb # None
  BY <1>1, InMerge, Numbers
<1>3. merge.kind = "move" /\ merge.step # "erase" /\ logs[e].last # None
      /\ merge.step \in {"copy", "copied0"}
  BY <1>1, <1>2 DEF MergeOk, TargetOk, MoveCopy, MergeType
<1>4. flash[logs[e].blk][0].info = merge.lb
  BY <1>1, <1>3, InMerge
<1>5. merge.next \in Nat /\ merge.next + 1 \in 0 .. PageCnt /\ merge.next + 1 > 0
  <2> DEFINE B == {q \in Mapped(map) : Before(q, p)}
  <2>1. merge.next = Cardinality(B) /\ B \subseteq Page \ {p}
    <3>1. p \in Nat /\ BankOf(p) \in Nat
      BY Numbers DEF BankOf, Page
    <3>2. ~Before(p, p)
      BY <3>1 DEF Before
    <3> QED BY <3>2 DEF MoveCopy, MoveOrder, Mapped
  <2>2. IsFiniteSet(Page) /\ Cardinality(Page) = PageCnt
    <3>1. 0 \in Int /\ PageCnt - 1 \in Int /\ ~(0 > PageCnt - 1)
      BY Numbers
    <3> QED BY <3>1, FS_Interval, Numbers DEF Page
  <2>3. IsFiniteSet(Page \ {p}) /\ Cardinality(Page \ {p}) = PageCnt - 1
    BY <2>2, FS_RemoveElement
  <2>5. B \in SUBSET (Page \ {p})
    BY <2>1
  <2>4. Cardinality(B) <= PageCnt - 1 /\ Cardinality(B) \in Nat
    <3> HIDE DEF B
    <3>1. IsFiniteSet(B) /\ Cardinality(B) <= Cardinality(Page \ {p})
      BY <2>3, <2>5, FS_Subset
    <3> QED BY <2>3, <3>1, FS_CardinalityType
  <2> HIDE DEF B
  <2> QED BY <2>1, <2>4, Numbers
<1>6. /\ MergeType' /\ merge'.kind = merge.kind /\ merge'.lb = merge.lb
      /\ merge'.dst = merge.dst /\ merge'.next = merge.next + 1 /\ merge'.step = merge.step
  BY <1>2, <1>3, <1>5 DEF MoveCopy, NextPage, MergeType
<1>7. p \in Mapped(map) /\ map[p] \in Page
  BY <1>2 DEF MoveCopy, MoveOrder, Mapped, Map
<1>8. Target(p) \in Page
  BY <1>2, <1>7, RankBound
<1> DEFINE src == logs[e].blk
           sp == map[p]
<1>9. /\ Target(p) = 0 => Program(merge.dst, 0, [flash[src][sp] EXCEPT
                            !.info = flash[src][0].info, !.status = Older(AgeOf(src), 0)])
      /\ Target(p) # 0 => Program(merge.dst, Target(p), flash[src][sp])
  BY <1>2 DEF MoveCopy, CopyPage0, Copy
<1>10. UNCHANGED <<data, logs, free, cur, ctl, saved, op, post, scan>>
       /\ pool' = [pool EXCEPT ![cur].map[p] = Target(p)]
  BY DEF MoveCopy, tables
<1>11. /\ pool' \in [Cached -> EntryType]
       /\ \A i \in Cached :
           /\ pool'[i].slot = pool[i].slot /\ pool'[i].dirty = pool[i].dirty
           /\ pool'[i].map = pool[i].map \/ logs[pool[i].slot].last # None
  <2>1. pool \in [Cached -> EntryType] /\ cur \in Cached
    BY DEF PoolOk
  <2>2. [pool[cur].map EXCEPT ![p] = Target(p)] \in Map
    BY <1>2, <1>8 DEF Map, map
  <2>3. pool' = [pool EXCEPT ![cur] = [pool[cur] EXCEPT !.map = [pool[cur].map EXCEPT ![p] = Target(p)]]]
    BY <1>10
  <2> DEFINE m == [pool[cur].map EXCEPT ![p] = Target(p)]
             n == [pool[cur] EXCEPT !.map = m]
  <2>4. n \in EntryType /\ n.slot = pool[cur].slot /\ n.dirty = pool[cur].dirty
    <3> HIDE DEF m
    <3> QED BY <2>1, <2>2 DEF EntryType, m
  <2> HIDE DEF n
  <2> QED BY <1>3, <2>1, <2>3, <2>4 DEF EntrySlot, n
<1>12. Target(p) # 0 => merge.next # 0 \/ merge.step = "copied0"
  <2> SUFFICES ASSUME merge.next = 0, merge.step = "copy"
               PROVE  Target(p) = 0
    BY <1>3
  <2>1. 0 \in Targets \/ ~Align
    BY DEF MoveCopy, NeedsPage0
  <2> QED BY <1>2, <2>1, FirstTarget DEF MoveCopy
<1> HIDE DEF src, sp, IInv
<1>13. CASE Target(p) = 0
  <2> DEFINE rec == [flash[src][sp] EXCEPT !.info = flash[src][0].info,
                                           !.status = Older(AgeOf(src), 0)]
  <2>2. rec \in RecordType /\ rec.info = merge.lb
        /\ rec.status \in 0 .. AgeCnt - 1 /\ ~IsTable(rec)
    BY <1>2, <1>4, <1>7, CopiedRecord0 DEF IInv, src, sp
  <2>3. Program(merge.dst, Target(p), rec)
    BY <1>9, <1>13
  <2> HIDE DEF rec
  <2> QED BY <1>1, <1>3, <1>5, <1>6, <1>8, <1>10, <1>11, <1>13, <2>2, <2>3, CopyKeeps
<1>14. CASE Target(p) # 0
  <2> DEFINE rec == flash[src][sp]
  <2>1. rec \in RecordType /\ (IsTable(rec) => rec.main \in [kind : {"table"}, map : Map])
    BY <1>2, <1>7, CopiedRecord DEF IInv, src, sp
  <2>2. Program(merge.dst, Target(p), rec)
    BY <1>9, <1>14
  <2> HIDE DEF rec
  <2> QED BY <1>1, <1>3, <1>5, <1>6, <1>8, <1>10, <1>11, <1>12, <1>14, <2>1, <2>2, CopyKeeps
<1> QED BY <1>13, <1>14
\* A move merge that has not written page 0 writes the logic info there.
LEMMA MoveInfoStep == ASSUME IInv, MoveInfo, UNCHANGED scan
                      PROVE  IInv'
<1> USE DEF IInv
<1>1. Merging
  BY DEF MoveInfo, Merging, NoMerge
<1> DEFINE e == EntrySlot
<1>2. /\ MergeType /\ e \in Slot /\ LogOf(merge.lb) = logs[e]
      /\ logs[e].blk \in Blk /\ merge.lb # None
  BY <1>1, InMerge, Numbers
<1>3. merge.kind = "move" /\ merge.step = "copy" /\ logs[e].last # None
  BY <1>1, <1>2 DEF MergeOk, MoveInfo, NeedsPage0
<1>4. flash[logs[e].blk][0].info = merge.lb
  BY <1>1, <1>3, InMerge
<1>6. /\ MergeType' /\ merge'.kind = merge.kind /\ merge'.lb = merge.lb
      /\ merge'.dst = merge.dst /\ merge'.step = "copied0"
  BY <1>2, <1>3 DEF MoveInfo, MergeType
<1> DEFINE src == logs[e].blk
<1>10. UNCHANGED <<data, logs, free, pool, cur, ctl, saved, op, post, scan>>
  BY DEF MoveInfo, tables, maps
<1>11. pool \in [Cached -> EntryType]
  BY DEF PoolOk
<1> DEFINE rec == [flash[src][0] EXCEPT !.info = flash[src][0].info,
                                        !.status = Older(AgeOf(src), 0)]
<1>12. rec \in RecordType /\ rec.info = merge.lb
       /\ rec.status \in 0 .. AgeCnt - 1 /\ ~IsTable(rec)
  BY <1>2, <1>4, CopiedRecord0, Numbers DEF IInv, src
<1>13. Program(merge.dst, 0, rec)
  BY <1>2 DEF MoveInfo, CopyPage0
<1> HIDE DEF rec, IInv
<1> QED BY <1>1, <1>3, <1>6, <1>10, <1>11, <1>12, <1>13, CopyKeeps, Numbers
\* A merge is over, and its log block is gone.
LEMMA LogGoneKeeps ==
  ASSUME IInv, Merging, logs' = [logs EXCEPT ![EntrySlot] = NoLog],
         pool' = [pool EXCEPT ![cur] = NoEntry], merge' = NoMerge,
         UNCHANGED <<cur, ctl, saved, op, post, scan>>
  PROVE  /\ SavedOk' /\ MergeOk' /\ PoolOk' /\ PostOk' /\ OpOk' /\ RestOk' /\ ScanOk' /\ CleanOk'
         /\ CtlType' /\ Mounted'
         /\ \A s \in Used(logs)' : s \in Used(logs) /\ s # EntrySlot /\ logs'[s] = logs[s]
         /\ \A s \in Used(logs) : s = EntrySlot \/ (s \in Used(logs)' /\ logs'[s] = logs[s])
         /\ logs' \in [Slot -> LogType]
<1> USE DEF IInv
<1> DEFINE e == EntrySlot
<1>1. /\ Mounted /\ Roles(data, logs, free) /\ e \in Slot /\ e \in InUse
      /\ logs[e].lb = merge.lb /\ merge.lb \in LogicBlk
      /\ ~saved.clean /\ op.step \notin {"info", "place", "failed"}
      /\ op.kind \in {"read", "write", "exit"} /\ (op.kind # "write" => post # NoPost)
  BY InMerge
<1>2. pool \in [Cached -> EntryType] /\ cur \in Cached /\ pool[cur].slot = e /\ e # None
  BY <1>1, Numbers DEF PoolOk, EntrySlot
<1>3. NoEntry \in EntryType /\ NoEntry.slot = None /\ NoLog \in LogType /\ NoLog.lb = None
  BY Numbers DEF NoEntry, EntryType, EmptyMap, Map, NoLog, LogType, None
<1> HIDE DEF e
<1>4. /\ logs' \in [Slot -> LogType] /\ logs'[e] = NoLog /\ \A s \in Slot \ {e} : logs'[s] = logs[s]
      /\ logs \in [Slot -> LogType]
  BY <1>1, <1>3 DEF Roles, e
<1>5. /\ pool' \in [Cached -> EntryType] /\ pool'[cur] = NoEntry
      /\ \A i \in Cached \ {cur} : pool'[i] = pool[i] /\ pool[i].slot # e
  BY <1>2, <1>3 DEF PoolOk
<1>6. /\ \A s \in InUse' : s \in InUse /\ s # e
      /\ \A s \in InUse : s # e => s \in InUse'
  BY <1>3, <1>4 DEF InUse
<1>7. ~Merging' /\ MergeOk' /\ Mounted' /\ RestOk' /\ ScanOk' /\ CtlType'
  BY <1>1 DEF Merging, MergeOk, Mounted, RestOk, ScanOk, CtlType
<1>8. SavedOk' /\ CleanOk'
  BY <1>1 DEF SavedOk, LogType, CleanOk, CleanTablesCurrent
<1>9. PoolOk'
  <2>1. \A i \in Cached : pool'[i].slot # None =>
          /\ pool'[i].slot \in InUse'
          /\ logs'[pool'[i].slot].last = None => pool'[i].map = EmptyMap /\ ~pool'[i].dirty
    BY <1>3, <1>4, <1>5, <1>6 DEF PoolOk, InUse
  <2>2. \A i, j \in Cached : pool'[i].slot # None /\ pool'[i].slot = pool'[j].slot => i = j
    BY <1>3, <1>5 DEF PoolOk
  <2> QED BY <1>2, <1>5, <2>1, <2>2 DEF PoolOk
<1>10. EntrySlot' = None
  BY <1>3, <1>5 DEF EntrySlot
<1>11. post # NoPost => PostType /\ post.step = "merged" /\ post.slot # e
                        /\ (post.slot # None => post.slot \in InUse)
                        /\ (post.slot = None <=> op.kind = "exit")
  BY <1>2 DEF PostOk, EntrySlot, e
<1>12. PostOk'
  <2>1. \A i \in Cached : pool'[i].slot = None \/ pool'[i].slot = pool[i].slot
    BY <1>3, <1>5
  <2> QED BY <1>7, <1>6, <1>10, <1>11, <2>1 DEF PostOk, PostType
<1>13. \A lb \in LogicBlk : HasLog(lb)' => HasLog(lb)
  <2>1. \A lb \in LogicBlk : lb # None
    BY Numbers
  <2> QED BY <1>3, <1>4, <2>1 DEF HasLog
<1>14. op.step = "log" \/ op.step = "victim" \/ op.step = "page" => op \in WriteType
  <2>1. op.kind = "write" => op \in WriteType
    BY OpKinds DEF OpOk
  <2>2. op.kind \in {"read", "exit"} => op.step \in {"lookup", "failed", "flush"}
    BY OpKinds DEF OpOk
  <2> QED BY <1>1, <2>1, <2>2
<1>15. OpType' /\ WaitOk'
  BY <1>1, <1>7 DEF OpOk, OpType, WaitOk, Quiet
<1>16. VictimOk'
  BY <1>7, <1>13, <1>14 DEF OpOk, VictimOk, Quiet, WriteType
<1>17. LogOk'
  <2>1. op.step = "page" => post # NoPost /\ logs[post.slot].lb = op.lb /\ post.slot \in Slot
    BY <1>1, <1>11, <1>14 DEF OpOk, LogOk, InUse, WriteType
  <2>2. op.step = "page" => logs'[post.slot].lb = op.lb
    BY <1>4, <1>11, <2>1
  <2> QED BY <1>1, <2>1, <2>2 DEF LogOk
<1>18. GivenOk'
  <2>1. op.step = "log" /\ op.slot # None => op.slot = e /\ ~HasLog(op.lb)
    BY DEF OpOk, GivenOk, e
  <2> QED BY <1>6, <1>7, <1>13, <1>14, <2>1 DEF OpOk, GivenOk, WriteType
<1>19. /\ \A s \in Used(logs)' : s \in Used(logs) /\ s # EntrySlot /\ logs'[s] = logs[s]
       /\ \A s \in Used(logs) : s = EntrySlot \/ (s \in Used(logs)' /\ logs'[s] = logs[s])
  BY <1>3, <1>4 DEF Used, e
<1> QED BY <1>4, <1>7, <1>8, <1>9, <1>12, <1>15, <1>16, <1>17, <1>18, <1>19 DEF OpOk
\* At the end of a swap merge the log block takes the place of the data block.
LEMMA SwapEndStep == ASSUME IInv, SwapEnd, UNCHANGED scan
                     PROVE  IInv'
<1> USE DEF IInv
<1> DEFINE e == EntrySlot
           old == data[merge.lb]
<1>1. Merging
  BY DEF SwapEnd, Merging, NoMerge
<1>2. /\ MergeType /\ Roles(data, logs, free)
      /\ Complete(data, logs, free, merge.dst) /\ Marks(data, logs, free, None)
      /\ e \in Slot /\ e \in InUse /\ merge.lb \in LogicBlk /\ logs[e].lb = merge.lb
      /\ SlotOf(merge.lb) = e /\ logs[e].blk \in Blk \ free
      /\ old \in Blk /\ old # logs[e].blk
      /\ logs[e].last # None => flash[logs[e].blk][0].info = merge.lb
      /\ op.step # "info" /\ merge.lb # None
  BY <1>1, InMerge, Numbers
<1>3. merge.dst = logs[e].blk /\ logs[e].last # None
  BY <1>1 DEF MergeOk, SwapEnd
<1>4. /\ data' = [data EXCEPT ![merge.lb] = merge.dst]
      /\ logs' = [logs EXCEPT ![EntrySlot] = NoLog]
      /\ flash' = [flash EXCEPT ![old] = ErasedBlk]
      /\ free' = free \cup {old}
      /\ pool' = [pool EXCEPT ![cur] = NoEntry] /\ merge' = NoMerge
      /\ UNCHANGED <<cur, ctl, saved, op, post>>
  BY <1>2 DEF SwapEnd, ClearLog, Erase, ClearCurMap
<1>5. /\ SavedOk' /\ MergeOk' /\ PoolOk' /\ PostOk' /\ OpOk' /\ RestOk' /\ ScanOk' /\ CleanOk'
      /\ CtlType' /\ Mounted'
      /\ \A s \in Used(logs)' : s \in Used(logs) /\ s # e /\ logs'[s] = logs[s]
      /\ \A s \in Used(logs) : s = e \/ (s \in Used(logs)' /\ logs'[s] = logs[s])
      /\ logs' \in [Slot -> LogType]
  BY <1>1, <1>4, LogGoneKeeps
<1>6. /\ FlashInv' /\ flash'[old] = ErasedBlk /\ flash'[old][0].info = None
      /\ \A c \in Blk \ {old} : flash'[c] = flash[c]
  BY <1>2, <1>4, EraseKeeps
<1> HIDE DEF e, old
<1>7. /\ data \in [LogicBlk -> Blk] /\ data' \in [LogicBlk -> Blk]
      /\ data'[merge.lb] = merge.dst /\ data[merge.lb] = old
      /\ \A x \in LogicBlk : x # merge.lb => data'[x] = data[x] /\ data[x] # old
      /\ \A x \in LogicBlk : data[x] # merge.dst
      /\ e \in Used(logs)
  BY <1>2, <1>3, <1>4 DEF Roles, InUse, Used, old
<1>8. \A s \in Used(logs)' : logs'[s].blk # old /\ logs'[s].blk # merge.dst /\ logs'[s].lb # merge.lb
  BY <1>2, <1>3, <1>5, <1>7 DEF Roles
<1>9. Roles(data, logs, free)'
  <2>1. \A x, y \in LogicBlk : data'[x] = data'[y] => x = y
    BY <1>2, <1>7 DEF Roles
  <2>2. \A s, t \in Used(logs)' : logs'[s].lb = logs'[t].lb \/ logs'[s].blk = logs'[t].blk => s = t
    BY <1>2, <1>5 DEF Roles
  <2>3. \A s \in Used(logs)' :
       /\ logs'[s].blk \in Blk \ free' /\ logs'[s].last \in Page \cup {None}
       /\ \A lb \in LogicBlk : data'[lb] # logs'[s].blk
    <3> TAKE s \in Used(logs)'
    <3>1. s \in Used(logs) /\ logs'[s] = logs[s] /\ logs'[s].blk # old /\ logs'[s].blk # merge.dst
      BY <1>5, <1>8
    <3>2. /\ logs[s].blk \in Blk \ free /\ logs[s].last \in Page \cup {None}
          /\ \A lb \in LogicBlk : data[lb] # logs[s].blk
      BY <1>2, <3>1 DEF Roles
    <3>3. logs'[s].blk \notin free'
      BY <1>4, <3>1, <3>2
    <3>4. \A lb \in LogicBlk : data'[lb] # logs'[s].blk
      BY <1>7, <3>1, <3>2
    <3> QED BY <3>1, <3>2, <3>3, <3>4
  <2>4. free' \subseteq Blk /\ \A lb \in LogicBlk : data'[lb] \notin free'
    BY <1>2, <1>3, <1>4, <1>7 DEF Roles
  <2> QED BY <1>5, <1>7, <2>1, <2>2, <2>3, <2>4 DEF Roles
<1>10. Complete(data, logs, free, merge.dst)'
  <2> SUFFICES ASSUME NEW b \in Blk, b \notin free'
               PROVE  \/ \E lb \in LogicBlk : data'[lb] = b
                      \/ \E s \in Used(logs)' : logs'[s].blk = b
    BY DEF Complete
  <2>1. b # old /\ b \notin free
    BY <1>4
  <2>2. CASE b = merge.dst
    BY <1>2, <1>7, <2>2
  <2>3. CASE b # merge.dst
    <3>1. (\E lb \in LogicBlk : data[lb] = b) \/ (\E s \in Used(logs) : logs[s].blk = b)
      BY <1>2, <2>1, <2>3 DEF Complete
    <3>2. ASSUME NEW lb \in LogicBlk, data[lb] = b PROVE data'[lb] = b
      BY <1>7, <2>1, <3>2
    <3>3. ASSUME NEW s \in Used(logs), logs[s].blk = b
          PROVE  s \in Used(logs)' /\ logs'[s].blk = b
      BY <1>3, <1>5, <2>3, <3>3
    <3> QED BY <3>1, <3>2, <3>3
  <2> QED BY <2>2, <2>3
<1>11. Marks(data, logs, free, None)'
  <2>1. \A b \in free' : flash'[b] = ErasedBlk
    BY <1>2, <1>4, <1>6 DEF Marks, Roles
  <2>2. \A lb \in LogicBlk : flash'[data'[lb]][0].info \in {None, lb}
    BY <1>2, <1>3, <1>6, <1>7 DEF Marks
  <2>3. \A s \in Used(logs)' :
       /\ \/ flash'[logs'[s].blk][0].info = logs'[s].lb
          \/ logs'[s].last = None /\ flash'[logs'[s].blk] = ErasedBlk
    BY <1>2, <1>5, <1>6, <1>8 DEF Marks, Roles
  <2>4. \A s \in Used(logs)' : logs'[s].lb # None => flash'[data'[logs'[s].lb]][0].info = logs'[s].lb
    <3>1. \A s \in Used(logs)' : logs'[s].lb \in LogicBlk
      BY <1>5 DEF Used, LogType
    <3> QED BY <1>2, <1>5, <1>6, <1>7, <1>8, <3>1 DEF Marks
  <2> QED BY <2>1, <2>2, <2>3, <2>4 DEF Marks
<1>12. MountedOk'
  <2>1. Unnamed' = None
    BY <1>2, <1>4 DEF Unnamed
  <2> QED BY <1>9, <1>10, <1>11, <2>1 DEF MountedOk
<1> QED BY <1>5, <1>6, <1>12
\* A simple merge frees the log block and makes its target the data block.
LEMMA SimpleEraseDataStep == ASSUME IInv, SimpleEraseData, UNCHANGED scan
                             PROVE  IInv'
<1> USE DEF IInv
<1> DEFINE e == EntrySlot
           old == data[merge.lb]
<1>1. Merging
  BY DEF SimpleEraseData, Merging, NoMerge
<1>2. /\ MergeType /\ Roles(data, logs, free) /\ Mounted
      /\ Complete(data, logs, free, merge.dst) /\ Marks(data, logs, free, None)
      /\ e \in Slot /\ e \in InUse /\ merge.lb \in LogicBlk /\ logs[e].lb = merge.lb
      /\ old \in Blk /\ op.step \notin {"info", "place", "failed"} /\ merge.lb # None
      /\ op.kind \in {"read", "write", "exit"} /\ (op.kind # "write" => post # NoPost)
      /\ ~saved.clean
  BY <1>1, InMerge, Numbers
<1>3. /\ merge.kind = "simple" /\ merge.step = "copy" /\ merge.next = PageCnt /\ e # None
      /\ merge.dst \notin free
      /\ \A lb \in LogicBlk : data[lb] # merge.dst
      /\ \A s \in InUse : logs[s].blk # merge.dst
      /\ flash[merge.dst][0].info = merge.lb /\ merge.dst \in Blk
  BY <1>1, <1>2, Numbers DEF MergeOk, SimpleEraseData, CopyDone, TargetOk, MergeType
<1>4. /\ data' = [data EXCEPT ![merge.lb] = merge.dst]
      /\ flash' = [flash EXCEPT ![old] = ErasedBlk]
      /\ free' = free \cup {old}
      /\ merge' = [merge EXCEPT !.step = "erase"]
      /\ UNCHANGED <<logs, pool, cur, ctl, saved, op, post>>
  BY DEF SimpleEraseData, Erase, maps
<1>6. /\ FlashInv' /\ flash'[old] = ErasedBlk /\ flash'[old][0].info = None
      /\ \A c \in Blk \ {old} : flash'[c] = flash[c]
  BY <1>2, <1>4, EraseKeeps
<1> HIDE DEF e, old
<1>7. /\ data \in [LogicBlk -> Blk] /\ data' \in [LogicBlk -> Blk]
      /\ data'[merge.lb] = merge.dst /\ data[merge.lb] = old /\ old # merge.dst
      /\ \A x \in LogicBlk : x # merge.lb => data'[x] = data[x] /\ data[x] # old
      /\ \A x \in LogicBlk : data[x] # merge.dst
      /\ e \in Used(logs) /\ InUse = Used(logs)
  BY <1>2, <1>3, <1>4 DEF Roles, InUse, Used, old
<1>8. \A s \in Used(logs) : logs[s].blk # old /\ logs[s].blk # merge.dst /\ logs[s].blk \in Blk
                            /\ logs[s].lb \in LogicBlk
  BY <1>2, <1>3, <1>7 DEF Roles, Used, LogType
<1>9. Roles(data, logs, free)'
  <2>1. \A x, y \in LogicBlk : data'[x] = data'[y] => x = y
    BY <1>2, <1>7 DEF Roles
  <2>2. /\ \A s, t \in Used(logs)' : logs'[s].lb = logs'[t].lb \/ logs'[s].blk = logs'[t].blk => s = t
        /\ logs' \in [Slot -> LogType]
    BY <1>2, <1>4 DEF Roles, Used, LogType
  <2>3. \A s \in Used(logs) :
       /\ logs[s].blk \in Blk \ free' /\ logs[s].last \in Page \cup {None}
       /\ \A lb \in LogicBlk : data'[lb] # logs[s].blk
    <3> TAKE s \in Used(logs)
    <3>2. /\ logs[s].blk \in Blk \ free /\ logs[s].last \in Page \cup {None}
          /\ \A lb \in LogicBlk : data[lb] # logs[s].blk
      BY <1>2 DEF Roles
    <3>3. logs[s].blk \notin free'
      BY <1>4, <1>8, <3>2
    <3>4. \A lb \in LogicBlk : data'[lb] # logs[s].blk
      BY <1>7, <1>8, <3>2
    <3> QED BY <3>2, <3>3, <3>4
  <2>4. free' \subseteq Blk /\ \A lb \in LogicBlk : data'[lb] \notin free'
    BY <1>2, <1>3, <1>4, <1>7 DEF Roles
  <2> QED BY <1>4, <1>7, <2>1, <2>2, <2>3, <2>4 DEF Roles, Used
<1>10. Complete(data, logs, free, merge.dst)'
  <2> SUFFICES ASSUME NEW b \in Blk, b \notin free'
               PROVE  \/ b = merge.dst \/ \E lb \in LogicBlk : data'[lb] = b
                      \/ \E s \in Used(logs) : logs[s].blk = b
    BY <1>2, <1>4 DEF Complete, Used, MergeType
  <2>1. b # old /\ b \notin free
    BY <1>4
  <2>2. CASE b = merge.dst
    BY <2>2
  <2>3. CASE b # merge.dst
    <3>1. (\E lb \in LogicBlk : data[lb] = b) \/ (\E s \in Used(logs) : logs[s].blk = b)
      BY <1>2, <2>1, <2>3 DEF Complete
    <3>2. ASSUME NEW lb \in LogicBlk, data[lb] = b PROVE data'[lb] = b
      BY <1>7, <2>1, <3>2
    <3> QED BY <3>1, <3>2
  <2> QED BY <2>2, <2>3
<1>11. Marks(data, logs, free, None)'
  <2>1. \A b \in free' : flash'[b] = ErasedBlk
    BY <1>2, <1>4, <1>6 DEF Marks, Roles
  <2>2. \A lb \in LogicBlk : flash'[data'[lb]][0].info \in {None, lb}
    BY <1>2, <1>3, <1>6, <1>7 DEF Marks
  <2>3. \A s \in Used(logs) :
       /\ \/ flash'[logs[s].blk][0].info = logs[s].lb
          \/ logs[s].last = None /\ flash'[logs[s].blk] = ErasedBlk
       /\ logs[s].lb # None => flash'[data'[logs[s].lb]][0].info = logs[s].lb
    BY <1>2, <1>3, <1>6, <1>7, <1>8 DEF Marks
  <2> QED BY <1>4, <2>1, <2>2, <2>3 DEF Marks, Used
<1>12. MountedOk'
  <2>1. Unnamed' = None
    BY <1>2, <1>4 DEF Unnamed
  <2> QED BY <1>9, <1>10, <1>11, <2>1 DEF MountedOk
<1>13. /\ MergeType' /\ Merging' /\ merge'.kind = "simple" /\ merge'.step = "erase"
       /\ merge'.dst = merge.dst /\ merge'.lb = merge.lb /\ merge'.next = PageCnt
  BY <1>2, <1>3, <1>4 DEF MergeType, Merging, NoMerge
<1>14. MergeOk'
  <2>1. TargetOk'
    BY <1>3, <1>4, <1>7, <1>13 DEF TargetOk
  <2> QED BY <1>1, <1>2, <1>4, <1>13, <2>1 DEF MergeOk, Mounted, EntrySlot
<1>15. PoolOk' /\ RestOk' /\ ScanOk' /\ CtlType'
  BY <1>2, <1>4 DEF PoolOk, InUse, RestOk, ScanOk, Mounted, CtlType
<1>16. SavedOk' /\ CleanOk'
  BY <1>2, <1>4 DEF SavedOk, LogType, CleanOk, CleanTablesCurrent
<1>17. PostOk'
  BY <1>1, <1>2, <1>4, <1>13 DEF PostOk, PostType, Mounted, InUse, EntrySlot
<1>18. OpOk'
  BY <1>1, <1>2, <1>4, <1>13 DEF OpOk, OpType, WaitOk, VictimOk, LogOk, GivenOk, Quiet, HasLog, EntrySlot
<1> QED BY <1>6, <1>12, <1>14, <1>15, <1>16, <1>17, <1>18
\* At the end of a simple merge the slot and the entry are free.
LEMMA SimpleEndStep == ASSUME IInv, SimpleEnd, UNCHANGED scan
                       PROVE  IInv'
<1> USE DEF IInv
<1> DEFINE e == EntrySlot
           old == logs[e].blk
<1>1. Merging
  BY DEF SimpleEnd, Merging, NoMerge
<1>2. /\ MergeType /\ Roles(data, logs, free)
      /\ Complete(data, logs, free, merge.dst) /\ Marks(data, logs, free, None)
      /\ e \in Slot /\ e \in InUse /\ merge.lb \in LogicBlk /\ logs[e].lb = merge.lb
      /\ SlotOf(merge.lb) = e /\ LogOf(merge.lb) = logs[e] /\ old \in Blk \ free
      /\ op.step # "info" /\ merge.lb # None
  BY <1>1, InMerge, Numbers
<1>3. merge.dst = data[merge.lb]
  BY <1>1 DEF MergeOk, SimpleEnd, TargetOk
<1>4. /\ logs' = [logs EXCEPT ![EntrySlot] = NoLog]
      /\ flash' = [flash EXCEPT ![old] = ErasedBlk]
      /\ free' = free \cup {old}
      /\ pool' = [pool EXCEPT ![cur] = NoEntry] /\ merge' = NoMerge
      /\ UNCHANGED <<data, cur, ctl, saved, op, post>>
  BY <1>2 DEF SimpleEnd, ClearLog, Erase, ClearCurMap
<1>5. /\ SavedOk' /\ MergeOk' /\ PoolOk' /\ PostOk' /\ OpOk' /\ RestOk' /\ ScanOk' /\ CleanOk'
      /\ CtlType' /\ Mounted'
      /\ \A s \in Used(logs)' : s \in Used(logs) /\ s # e /\ logs'[s] = logs[s]
      /\ \A s \in Used(logs) : s = e \/ (s \in Used(logs)' /\ logs'[s] = logs[s])
      /\ logs' \in [Slot -> LogType]
  BY <1>1, <1>4, LogGoneKeeps
<1>6. /\ FlashInv' /\ flash'[old] = ErasedBlk /\ flash'[old][0].info = None
      /\ \A c \in Blk \ {old} : flash'[c] = flash[c]
  BY <1>2, <1>4, EraseKeeps
<1>7. /\ \A x \in LogicBlk : data[x] # old /\ data[x] \in Blk
      /\ e \in Used(logs)
  BY <1>2 DEF Roles, InUse, Used
<1>8. \A s \in Used(logs)' : logs'[s].blk # old /\ logs'[s].blk \in Blk \ free /\ logs'[s].lb \in LogicBlk
  BY <1>2, <1>5, <1>7 DEF Roles, Used, LogType
<1> HIDE DEF e, old
<1>9. Roles(data, logs, free)'
  <2>1. data' \in [LogicBlk -> Blk] /\ \A x, y \in LogicBlk : data'[x] = data'[y] => x = y
    BY <1>2, <1>4 DEF Roles
  <2>2. \A s, t \in Used(logs)' : logs'[s].lb = logs'[t].lb \/ logs'[s].blk = logs'[t].blk => s = t
    BY <1>2, <1>5 DEF Roles
  <2>3. \A s \in Used(logs)' :
       /\ logs'[s].blk \in Blk \ free' /\ logs'[s].last \in Page \cup {None}
       /\ \A lb \in LogicBlk : data'[lb] # logs'[s].blk
    <3> TAKE s \in Used(logs)'
    <3>1. s \in Used(logs) /\ logs'[s] = logs[s] /\ logs'[s].blk # old /\ logs'[s].blk \in Blk \ free
      BY <1>5, <1>8
    <3>2. /\ logs[s].last \in Page \cup {None}
          /\ \A lb \in LogicBlk : data[lb] # logs[s].blk
      BY <1>2, <3>1 DEF Roles
    <3> QED BY <1>4, <3>1, <3>2
  <2>4. free' \subseteq Blk /\ \A lb \in LogicBlk : data'[lb] \notin free'
    BY <1>2, <1>4, <1>7 DEF Roles
  <2> QED BY <1>5, <2>1, <2>2, <2>3, <2>4 DEF Roles
<1>10. Complete(data, logs, free, merge.dst)'
  <2> SUFFICES ASSUME NEW b \in Blk, b \notin free'
               PROVE  \/ \E lb \in LogicBlk : data[lb] = b
                      \/ \E s \in Used(logs)' : logs'[s].blk = b
    BY <1>4 DEF Complete
  <2>1. b # old /\ b \notin free
    BY <1>4
  <2>2. (\E lb \in LogicBlk : data[lb] = b) \/ (\E s \in Used(logs) : logs[s].blk = b)
    BY <1>2, <1>3, <2>1 DEF Complete
  <2>3. ASSUME NEW s \in Used(logs), logs[s].blk = b
        PROVE  s \in Used(logs)' /\ logs'[s].blk = b
    BY <1>5, <2>1, <2>3 DEF old
  <2> QED BY <2>2, <2>3
<1>11. Marks(data, logs, free, None)'
  <2>1. \A b \in free' : flash'[b] = ErasedBlk
    <3>1. \A b \in free : b \in Blk /\ flash[b] = ErasedBlk
      BY <1>2 DEF Marks, Roles
    <3> QED BY <1>4, <1>6, <3>1
  <2>2. \A lb \in LogicBlk : flash'[data[lb]] = flash[data[lb]]
    BY <1>6, <1>7
  <2>3. \A s \in Used(logs)' : flash'[logs'[s].blk] = flash[logs'[s].blk]
    BY <1>6, <1>8
  <2>4. \A s \in Used(logs)' : s \in Used(logs) /\ logs'[s] = logs[s] /\ logs[s].lb \in LogicBlk
    BY <1>5, <1>8
  <2>5. \A lb \in LogicBlk : flash'[data'[lb]][0].info \in {None, lb}
    BY <1>2, <1>4, <2>2 DEF Marks
  <2>6. \A s \in Used(logs)' :
       /\ \/ flash'[logs'[s].blk][0].info = logs'[s].lb
          \/ logs'[s].last = None /\ flash'[logs'[s].blk] = ErasedBlk
       /\ logs'[s].lb # None => flash'[data'[logs'[s].lb]][0].info = logs'[s].lb
    <3> TAKE s \in Used(logs)'
    <3>1. /\ \/ flash[logs[s].blk][0].info = logs[s].lb
             \/ logs[s].last = None /\ flash[logs[s].blk] = ErasedBlk
          /\ logs[s].lb # None => flash[data[logs[s].lb]][0].info = logs[s].lb
      BY <1>2, <2>4 DEF Marks
    <3> QED BY <1>4, <2>2, <2>3, <2>4, <3>1
  <2> QED BY <2>1, <2>5, <2>6 DEF Marks
<1>12. MountedOk'
  <2>1. Unnamed' = None
    BY <1>2, <1>4 DEF Unnamed
  <2> QED BY <1>9, <1>10, <1>11, <2>1 DEF MountedOk
<1> QED BY <1>5, <1>6, <1>12
\* A move that has found a page of every bank knows the last page it wrote.
LEMMA LastTargetType ==
  ASSUME map \in Map, \A k \in BankSet : \E p \in Mapped(map) : BankOf(p) = k
  PROVE  LastTarget \in Page /\ LastTarget \in Targets \cup {0} /\ Mapped(map) # {}
<1>1. EmptyBanks = {}
  <2> SUFFICES ASSUME Align, NEW k \in 0 .. Banks - 1, \A p \in Mapped(map) : BankOf(p) # k
               PROVE  FALSE
    BY DEF EmptyBanks
  <2>1. k \in Page /\ BankOf(k) = k
    BY Numbers DEF Page, BankOf
  <2> QED BY <2>1 DEF BankSet
<1>2. Targets \cup {0} \in SUBSET (0 .. PageCnt - 1)
  <2>1. \A p \in Mapped(map) : Target(p) \in Page
    BY RankBound
  <2> QED BY <2>1, Numbers DEF Targets, Page
<1>3. \E t \in Targets \cup {0} : \A u \in Targets \cup {0} : u <= t
  <2>1. PageCnt - 1 \in Nat
    BY Numbers
  <2> QED BY <1>2, <2>1, Greatest
<1>4. LastTarget \in Targets \cup {0}
  BY <1>1, <1>3 DEF LastTarget
<1>5. Mapped(map) # {}
  BY Numbers DEF BankSet
<1> QED BY <1>2, <1>4, <1>5 DEF Page
\* At the end of a move merge the target takes the place of the log block.
LEMMA MoveEndStep == ASSUME IInv, MoveEnd, NoEmptyBank, UNCHANGED scan
                     PROVE  IInv'
<1> USE DEF IInv
<1> DEFINE e == EntrySlot
           old == logs[e].blk
           new == [lb |-> merge.lb, blk |-> merge.dst, last |-> LastTarget]
<1>1. Merging
  BY DEF MoveEnd, Merging, NoMerge
<1>2. /\ MergeType /\ Roles(data, logs, free) /\ Mounted
      /\ Complete(data, logs, free, merge.dst) /\ Marks(data, logs, free, None)
      /\ e \in Slot /\ e \in InUse /\ merge.lb \in LogicBlk /\ logs[e].lb = merge.lb
      /\ SlotOf(merge.lb) = e /\ LogOf(merge.lb) = logs[e] /\ old \in Blk \ free
      /\ op.step \notin {"info", "place", "failed"} /\ merge.lb # None /\ map \in Map
      /\ op.kind \in {"read", "write", "exit"} /\ (op.kind # "write" => post # NoPost)
      /\ ~saved.clean
  BY <1>1, InMerge, Numbers
<1>21. LastTarget \in Page /\ Mapped(map) # {}
  BY <1>2, LastTargetType DEF NoEmptyBank, MoveEnd
<1>3. /\ merge.kind = "move" /\ e # None
      /\ merge.dst \notin free /\ merge.step # "erase"
      /\ \A lb \in LogicBlk : data[lb] # merge.dst
      /\ \A s \in InUse : logs[s].blk # merge.dst
      /\ merge.dst \in Blk
  BY <1>1, <1>2, Numbers DEF MergeOk, MoveEnd, TargetOk, MergeType
<1>22. flash[merge.dst][0].info = merge.lb
  <2>1. merge.next # 0
    <3>1. Mapped(map) \in SUBSET (0 .. PageCnt - 1) /\ 0 \in Int /\ PageCnt - 1 \in Int
      BY Numbers DEF Mapped, Page
    <3>2. IsFiniteSet(Mapped(map))
      BY <3>1, PartOfInterval
    <3> QED BY <1>21, <3>2, FS_EmptySet DEF MoveEnd
  <2> QED BY <1>1, <1>3, <2>1 DEF MergeOk, TargetOk
<1>4. /\ logs' = [logs EXCEPT ![e] = new]
      /\ flash' = [flash EXCEPT ![old] = ErasedBlk]
      /\ free' = free \cup {old}
      /\ merge' = NoMerge
      /\ UNCHANGED <<data, pool, cur, ctl, saved, op, post>>
  BY <1>2 DEF MoveEnd, Erase, maps
<1>5. new.lb = merge.lb /\ new.blk = merge.dst /\ new.last \in Page /\ new \in LogType
      /\ new.last # None
  BY <1>2, <1>3, <1>21, Numbers DEF LogType
<1>6. /\ FlashInv' /\ flash'[old] = ErasedBlk /\ flash'[old][0].info = None
      /\ \A c \in Blk \ {old} : flash'[c] = flash[c]
  BY <1>2, <1>4, EraseKeeps
<1> HIDE DEF new
<1>7. /\ logs' \in [Slot -> LogType] /\ logs'[e] = new
      /\ \A s \in Slot \ {e} : logs'[s] = logs[s]
  BY <1>2, <1>4, <1>5 DEF Roles
<1>8. /\ \A x \in LogicBlk : data[x] # old /\ data[x] \in Blk
      /\ e \in Used(logs) /\ InUse = Used(logs) /\ old # merge.dst
      /\ Used(logs)' = Used(logs) /\ InUse' = InUse
  BY <1>2, <1>3, <1>5, <1>7 DEF Roles, InUse, Used
<1>9. \A s \in Used(logs) \ {e} :
        /\ logs'[s] = logs[s] /\ logs[s].lb # merge.lb /\ logs[s].lb \in LogicBlk
        /\ logs[s].blk # old /\ logs[s].blk # merge.dst /\ logs[s].blk \in Blk \ free
        /\ logs[s].last \in Page \cup {None} /\ \A lb \in LogicBlk : data[lb] # logs[s].blk
  BY <1>2, <1>3, <1>7, <1>8 DEF Roles, Used, LogType
<1> HIDE DEF e, old
<1>10. Roles(data, logs, free)'
  <2>1. data' \in [LogicBlk -> Blk] /\ \A x, y \in LogicBlk : data'[x] = data'[y] => x = y
    BY <1>2, <1>4 DEF Roles
  <2>2. \A s, t \in Used(logs) : logs'[s].lb = logs'[t].lb \/ logs'[s].blk = logs'[t].blk => s = t
    <3> SUFFICES ASSUME NEW s \in Used(logs), NEW t \in Used(logs),
                        logs'[s].lb = logs'[t].lb \/ logs'[s].blk = logs'[t].blk
                 PROVE  s = t
      OBVIOUS
    <3>1. CASE s # e /\ t # e
      BY <1>2, <1>9, <3>1 DEF Roles
    <3>2. CASE s = e /\ t # e
      BY <1>5, <1>7, <1>9, <3>2
    <3>3. CASE s # e /\ t = e
      BY <1>5, <1>7, <1>9, <3>3
    <3> QED BY <3>1, <3>2, <3>3
  <2>3. \A s \in Used(logs) :
       /\ logs'[s].blk \in Blk \ free' /\ logs'[s].last \in Page \cup {None}
       /\ \A lb \in LogicBlk : data'[lb] # logs'[s].blk
    <3> TAKE s \in Used(logs)
    <3>1. CASE s # e
      BY <1>4, <1>9, <3>1
    <3>2. CASE s = e
      BY <1>3, <1>4, <1>5, <1>7, <1>8, <3>2
    <3> QED BY <3>1, <3>2
  <2>4. free' \subseteq Blk /\ \A lb \in LogicBlk : data'[lb] \notin free'
    BY <1>2, <1>4, <1>8 DEF Roles
  <2> QED BY <1>7, <1>8, <2>1, <2>2, <2>3, <2>4 DEF Roles
<1>11. Complete(data, logs, free, merge.dst)'
  <2> SUFFICES ASSUME NEW b \in Blk, b \notin free'
               PROVE  \/ \E lb \in LogicBlk : data[lb] = b
                      \/ \E s \in Used(logs) : logs'[s].blk = b
    BY <1>4, <1>8 DEF Complete
  <2>1. b # old /\ b \notin free
    BY <1>4
  <2>2. CASE b = merge.dst
    BY <1>5, <1>7, <1>8, <2>2
  <2>3. CASE b # merge.dst
    <3>1. (\E lb \in LogicBlk : data[lb] = b) \/ (\E s \in Used(logs) : logs[s].blk = b)
      BY <1>2, <2>1, <2>3 DEF Complete
    <3>2. ASSUME NEW s \in Used(logs), logs[s].blk = b
          PROVE  logs'[s].blk = b
      BY <1>9, <2>1, <3>2 DEF old
    <3> QED BY <3>1, <3>2
  <2> QED BY <2>2, <2>3
<1>12. Marks(data, logs, free, None)'
  <2>1. \A b \in free' : flash'[b] = ErasedBlk
    <3>1. \A b \in free : b \in Blk /\ flash[b] = ErasedBlk
      BY <1>2 DEF Marks, Roles
    <3> QED BY <1>4, <1>6, <3>1
  <2>2. \A lb \in LogicBlk : flash'[data[lb]] = flash[data[lb]]
    BY <1>6, <1>8
  <2>5. \A lb \in LogicBlk : flash'[data'[lb]][0].info \in {None, lb}
    BY <1>2, <1>4, <2>2 DEF Marks
  <2>6. \A s \in Used(logs) :
       /\ \/ flash'[logs'[s].blk][0].info = logs'[s].lb
          \/ logs'[s].last = None /\ flash'[logs'[s].blk] = ErasedBlk
       /\ logs'[s].lb # None => flash'[data'[logs'[s].lb]][0].info = logs'[s].lb
    <3> TAKE s \in Used(logs)
    <3>1. /\ \/ flash[logs[s].blk][0].info = logs[s].lb
             \/ logs[s].last = None /\ flash[logs[s].blk] = ErasedBlk
          /\ logs[s].lb # None => flash[data[logs[s].lb]][0].info = logs[s].lb
      BY <1>2 DEF Marks
    <3>2. logs[s].lb \in LogicBlk
      BY <1>2, <1>9
    <3>3. CASE s # e
      BY <1>4, <1>6, <1>9, <2>2, <3>1, <3>2, <3>3
    <3>4. CASE s = e
      BY <1>2, <1>3, <1>4, <1>5, <1>6, <1>7, <1>8, <1>22, <2>2, <3>1, <3>4
    <3> QED BY <3>3, <3>4
  <2> QED BY <1>8, <2>1, <2>5, <2>6 DEF Marks
<1>13. MountedOk'
  <2>1. Unnamed' = None
    BY <1>2, <1>4 DEF Unnamed
  <2> QED BY <1>10, <1>11, <1>12, <2>1 DEF MountedOk
<1>14. ~Merging' /\ MergeOk' /\ Mounted' /\ RestOk' /\ ScanOk' /\ CtlType'
  BY <1>2, <1>4 DEF Merging, MergeOk, Mounted, RestOk, ScanOk, CtlType
<1>15. SavedOk' /\ CleanOk'
  BY <1>2, <1>4 DEF SavedOk, LogType, CleanOk, CleanTablesCurrent
<1>16. PoolOk'
  <2>1. \A i \in Cached : pool[i].slot # None =>
          /\ pool[i].slot \in InUse
          /\ logs'[pool[i].slot].last = None => pool[i].map = EmptyMap /\ ~pool[i].dirty
    <3> TAKE i \in Cached
    <3>1. pool[i].slot = e => logs'[pool[i].slot].last # None
      BY <1>5, <1>7
    <3>2. pool[i].slot # None /\ pool[i].slot # e => logs'[pool[i].slot] = logs[pool[i].slot]
      BY <1>7 DEF PoolOk, InUse
    <3> QED BY <3>1, <3>2 DEF PoolOk
  <2> QED BY <1>4, <1>8, <2>1 DEF PoolOk
<1>17. \A s \in Slot : logs'[s].lb = logs[s].lb
  BY <1>2, <1>5, <1>7
<1>18. PostOk'
  <2>1. logs'[e].last # None
    BY <1>5, <1>7
  <2>2. post # NoPost => PostType /\ post.step = "merged"
                         /\ (post.slot # None => post.slot \in InUse)
                         /\ (post.slot = None <=> op.kind = "exit")
                         /\ (post.slot # None => \A i \in Cached : pool[i].slot # post.slot)
    BY <1>1 DEF PostOk
  <2>3. EntrySlot' = e
    BY <1>4 DEF EntrySlot, e
  <2> QED BY <1>4, <1>8, <1>14, <2>1, <2>2, <2>3 DEF PostOk, PostType
<1>19. \A lb : HasLog(lb)' <=> HasLog(lb)
  BY <1>17 DEF HasLog
<1>20. OpType' /\ WaitOk' /\ VictimOk'
  BY <1>1, <1>2, <1>4, <1>14, <1>19 DEF OpOk, OpType, WaitOk, VictimOk, Quiet
<1>23. LogOk'
  <2>1. op.step = "page" => post # NoPost /\ logs[post.slot].lb = op.lb
    BY <1>1 DEF OpOk, LogOk
  <2>3. op.step = "page" => op.kind = "write"
    BY <1>2, OpKinds DEF OpOk
  <2>2. op.step = "page" => post.slot \in Slot
    BY <1>2, <2>1, <2>3 DEF PostOk, InUse
  <2> QED BY <1>2, <1>4, <1>17, <2>1, <2>2 DEF LogOk
<1>24. op.step = "log" => op.slot = None
  BY <1>1, <1>3 DEF OpOk, GivenOk
<1>25. GivenOk'
  BY <1>4, <1>24 DEF OpOk, GivenOk
<1> QED BY <1>6, <1>13, <1>14, <1>15, <1>16, <1>18, <1>20, <1>23, <1>25 DEF OpOk
\* A write to the data block or the log block of a logical block while no
\* merge runs: the tables stay true.
LEMMA WrittenKeeps ==
  ASSUME IInv, ~Merging, Mounted, Mounted', ~saved.clean,
         NEW lb \in LogicBlk, NEW b \in Blk,
         \/ b = data[lb]
         \/ \E s \in Used(logs) : logs[s].blk = b /\ logs[s].lb = lb,
         Unnamed = None \/ (Unnamed = lb /\ b = data[lb]), Unnamed' = None,
         flash'[b][0].info = lb,
         \A c \in Blk \ {b} : /\ flash'[c][0].info = flash[c][0].info
                              /\ flash[c] = ErasedBlk => flash'[c] = ErasedBlk,
         logs' \in [Slot -> LogType],
         \A s \in Slot :
           /\ logs'[s].lb = logs[s].lb /\ logs'[s].blk = logs[s].blk
           /\ \/ logs'[s].last = logs[s].last
              \/ logs[s].blk = b /\ logs'[s].last \in Page,
         UNCHANGED <<data, free, saved, merge, scan>>
  PROVE  MountedOk' /\ SavedOk' /\ MergeOk' /\ RestOk' /\ ScanOk' /\ ~Merging'
         /\ InUse' = InUse /\ Used(logs)' = Used(logs) /\ InUse = Used(logs)
         /\ \A l : HasLog(l)' <=> HasLog(l)
<1> USE DEF IInv
<1>1. Roles(data, logs, free) /\ Complete(data, logs, free, merge.dst)
      /\ Marks(data, logs, free, Unnamed) /\ merge = NoMerge
  BY DEF MountedOk, Merging
<1>2. /\ Used(logs)' = Used(logs) /\ InUse = Used(logs) /\ InUse' = InUse
      /\ \A l : HasLog(l)' <=> HasLog(l)
  BY DEF Used, InUse, HasLog
<1>3. /\ \A x \in LogicBlk : data[x] \in Blk /\ (data[x] = b => x = lb)
      /\ \A s \in Used(logs) : /\ logs[s].lb \in LogicBlk /\ logs[s].blk \in Blk \ free
                               /\ logs[s].blk = b => logs[s].lb = lb
      /\ b \notin free
  <2>1. CASE b = data[lb]
    BY <1>1, <2>1 DEF Roles, Used, LogType
  <2>2. ASSUME NEW s \in Used(logs), logs[s].blk = b, logs[s].lb = lb
        PROVE  <1>3!1 /\ <1>3!2 /\ <1>3!3
    <3>1. \A t \in Used(logs) : logs[t].blk = b => t = s
      BY <1>1, <2>2 DEF Roles
    <3> QED BY <1>1, <2>2, <3>1 DEF Roles, Used, LogType
  <2> QED BY <2>1, <2>2
<1>4. Roles(data, logs, free)'
  <2>1. \A s, t \in Used(logs) : logs'[s].lb = logs'[t].lb \/ logs'[s].blk = logs'[t].blk => s = t
    BY <1>1 DEF Roles, Used
  <2>2. \A s \in Used(logs) :
       /\ logs'[s].blk \in Blk \ free /\ logs'[s].last \in Page \cup {None}
       /\ \A x \in LogicBlk : data[x] # logs'[s].blk
    BY <1>1 DEF Roles, Used
  <2> QED BY <1>1, <1>2, <2>1, <2>2 DEF Roles
<1>5. Complete(data, logs, free, merge.dst)'
  BY <1>1, <1>2 DEF Complete, Used
<1>6. Marks(data, logs, free, Unnamed)'
  <2>1. \A c \in free : flash'[c] = ErasedBlk
    BY <1>1, <1>3 DEF Marks, Roles
  <2>2. \A x \in LogicBlk : flash'[data[x]][0].info \in {None, x}
    BY <1>1, <1>3 DEF Marks
  <2>3. \A s \in Used(logs) :
           \/ flash'[logs'[s].blk][0].info = logs'[s].lb
           \/ logs'[s].last = None /\ flash'[logs'[s].blk] = ErasedBlk
    <3> TAKE s \in Used(logs)
    <3>0. s \in Slot
      BY DEF Used
    <3>1. CASE logs[s].blk = b
      BY <1>3, <3>0, <3>1
    <3>2. CASE logs[s].blk # b
      BY <1>1, <1>3, <3>0, <3>2 DEF Marks
    <3> QED BY <3>1, <3>2
  <2>4. \A s \in Used(logs) : flash'[data[logs'[s].lb]][0].info = logs'[s].lb
    <3> TAKE s \in Used(logs)
    <3>0. s \in Slot /\ logs'[s].lb = logs[s].lb /\ logs[s].lb \in LogicBlk
      BY <1>3 DEF Used
    <3>1. CASE data[logs[s].lb] = b
      BY <1>3, <3>0, <3>1
    <3>2. CASE data[logs[s].lb] # b
      <4>1. logs[s].lb # Unnamed
        BY <3>0, <3>2, Numbers
      <4> QED BY <1>1, <1>3, <3>0, <3>2, <4>1 DEF Marks
    <3> QED BY <3>1, <3>2
  <2> QED BY <1>2, <2>1, <2>2, <2>3, <2>4 DEF Marks
<1>7. MountedOk' /\ MergeOk' /\ ~Merging'
  BY <1>1, <1>4, <1>5, <1>6 DEF MountedOk, MergeOk, Merging
<1>8. SavedOk' /\ RestOk' /\ ScanOk'
  BY DEF SavedOk, LogType, RestOk, ScanOk, Mounted
<1> QED BY <1>2, <1>7, <1>8
\* A new log block comes out of the free blocks.
LEMMA CreateLogStep ==
  ASSUME IInv, NEW s \in Slot, NEW b \in Blk, CreateLog(s, b), UNCHANGED scan
  PROVE  IInv'
<1> USE DEF IInv
<1> DEFINE new == [lb |-> op.lb, blk |-> b, last |-> None]
<1>1. /\ op.kind = "write" /\ op.step = "log" /\ ~Merging /\ post = NoPost
      /\ b \in free /\ free' = free \ {b} /\ ~HasLog(op.lb)
      /\ logs' = [logs EXCEPT ![s] = new]
      /\ op' = [op EXCEPT !.step = "info", !.slot = None]
      /\ UNCHANGED <<flash, data, pool, cur, ctl, saved, post, merge>>
  BY DEF CreateLog, Ready, maps
<1>2. op \in WriteType /\ Mounted /\ Mounted'
  BY <1>1, OpKinds DEF OpOk, Mounted
<1>3. /\ op' \in WriteType /\ op'.kind = "write" /\ op'.step = "info" /\ op'.lb = op.lb
      /\ op'.slot = None /\ op.lb \in LogicBlk /\ op.lb # None
  BY <1>1, <1>2, Numbers DEF WriteType
<1>4. s \notin InUse
  BY <1>1 DEF CreateLog, EmptySlot, InUse, OpOk, GivenOk
<1>5. /\ Roles(data, logs, free) /\ Complete(data, logs, free, None)
      /\ Marks(data, logs, free, None) /\ merge = NoMerge
  BY <1>1, <1>2 DEF MountedOk, Unnamed, Merging, NoMerge
<1>6. /\ new.lb = op.lb /\ new.blk = b /\ new.last = None /\ new \in LogType
      /\ None \in Page \cup -Banks .. -1
  BY <1>3, Numbers DEF LogType, None
<1> HIDE DEF new
<1>7. /\ logs' \in [Slot -> LogType] /\ logs'[s] = new
      /\ \A t \in Slot \ {s} : logs'[t] = logs[t]
  BY <1>1, <1>5, <1>6 DEF Roles
<1>8. Used(logs)' = Used(logs) \cup {s} /\ InUse' = InUse \cup {s} /\ InUse = Used(logs)
  BY <1>3, <1>6, <1>7 DEF Used, InUse
<1>9. \A t \in Used(logs) :
        /\ logs'[t] = logs[t] /\ t # s /\ logs[t].lb # op.lb /\ logs[t].lb \in LogicBlk
        /\ logs[t].blk # b /\ logs[t].blk \in Blk \ free
        /\ logs[t].last \in Page \cup {None} /\ \A lb \in LogicBlk : data[lb] # logs[t].blk
  BY <1>1, <1>4, <1>5, <1>7, <1>8 DEF Roles, Used, HasLog, LogType
<1>10. Roles(data, logs, free)'
  <2>1. data' \in [LogicBlk -> Blk] /\ \A x, y \in LogicBlk : data'[x] = data'[y] => x = y
    BY <1>1, <1>5 DEF Roles
  <2>2. \A t, u \in Used(logs)' : logs'[t].lb = logs'[u].lb \/ logs'[t].blk = logs'[u].blk => t = u
    <3> SUFFICES ASSUME NEW t \in Used(logs)', NEW u \in Used(logs)',
                        logs'[t].lb = logs'[u].lb \/ logs'[t].blk = logs'[u].blk
                 PROVE  t = u
      OBVIOUS
    <3>1. CASE t # s /\ u # s
      BY <1>5, <1>8, <1>9, <3>1 DEF Roles
    <3>2. CASE t = s /\ u # s
      BY <1>6, <1>7, <1>8, <1>9, <3>2
    <3>3. CASE t # s /\ u = s
      BY <1>6, <1>7, <1>8, <1>9, <3>3
    <3> QED BY <3>1, <3>2, <3>3
  <2>3. \A t \in Used(logs)' :
       /\ logs'[t].blk \in Blk \ free' /\ logs'[t].last \in Page \cup {None}
       /\ \A lb \in LogicBlk : data'[lb] # logs'[t].blk
    <3> TAKE t \in Used(logs)'
    <3>1. CASE t # s
      <4>1. t \in Used(logs)
        BY <1>8, <3>1
      <4>2. /\ logs'[t] = logs[t] /\ logs[t].blk \in Blk \ free
            /\ logs[t].last \in Page \cup {None} /\ \A lb \in LogicBlk : data[lb] # logs[t].blk
        BY <1>9, <4>1
      <4>3. logs[t].blk \notin free' /\ data' = data
        BY <1>1, <4>2
      <4> QED BY <4>2, <4>3
    <3>2. CASE t = s
      <4>1. b \notin free' /\ \A lb \in LogicBlk : data[lb] # b
        BY <1>1, <1>5 DEF Roles
      <4> QED BY <1>1, <1>6, <1>7, <3>2, <4>1
    <3> QED BY <3>1, <3>2
  <2>4. free' \subseteq Blk /\ \A lb \in LogicBlk : data'[lb] \notin free'
    BY <1>1, <1>5 DEF Roles
  <2> QED BY <1>7, <2>1, <2>2, <2>3, <2>4 DEF Roles
<1>11. Complete(data, logs, free, merge.dst)'
  <2> SUFFICES ASSUME NEW c \in Blk, c \notin free'
               PROVE  \/ c = None \/ \E lb \in LogicBlk : data[lb] = c
                      \/ \E t \in Used(logs)' : logs'[t].blk = c
    BY <1>1, <1>5 DEF Complete, NoMerge
  <2>2. CASE c = b
    BY <1>6, <1>7, <1>8, <2>2
  <2>3. CASE c # b
    <3>1. c = None \/ (\E lb \in LogicBlk : data[lb] = c) \/ (\E t \in Used(logs) : logs[t].blk = c)
      BY <1>1, <1>5, <2>3 DEF Complete
    <3> QED BY <1>8, <1>9, <3>1
  <2> QED BY <2>2, <2>3
<1>12. Marks(data, logs, free, op.lb)'
  <2>1. \A c \in free' : flash'[c] = ErasedBlk
    BY <1>1, <1>5 DEF Marks
  <2>2. \A lb \in LogicBlk : flash'[data'[lb]][0].info \in {None, lb}
    BY <1>1, <1>5 DEF Marks
  <2>3. \A t \in Used(logs)' :
       /\ \/ flash'[logs'[t].blk][0].info = logs'[t].lb
          \/ logs'[t].last = None /\ flash'[logs'[t].blk] = ErasedBlk
       /\ logs'[t].lb # op'.lb => flash'[data'[logs'[t].lb]][0].info = logs'[t].lb
    <3> TAKE t \in Used(logs)'
    <3>1. CASE t # s
      <4>1. t \in Used(logs) /\ logs'[t] = logs[t] /\ logs[t].lb \in LogicBlk /\ logs[t].lb # None
        BY <1>8, <1>9, <3>1, Numbers
      <4> QED BY <1>1, <1>5, <4>1 DEF Marks
    <3>2. CASE t = s
      <4>1. flash[b] = ErasedBlk
        BY <1>1, <1>5 DEF Marks
      <4> QED BY <1>1, <1>3, <1>6, <1>7, <3>2, <4>1
    <3> QED BY <3>1, <3>2
  <2> QED BY <2>1, <2>2, <2>3 DEF Marks
<1>13. MountedOk'
  BY <1>3, <1>10, <1>11, <1>12 DEF MountedOk, Unnamed
<1>14. FlashInv' /\ ~Merging' /\ MergeOk' /\ RestOk' /\ ScanOk' /\ CtlType' /\ ~saved.clean
  BY <1>1, <1>2 DEF FlashInv, FlashType, Zeroed, TablesHold, IsTable, Merging, MergeOk, Mounted,
                    RestOk, ScanOk, CtlType, CleanOk
<1>15. SavedOk' /\ CleanOk'
  BY <1>1, <1>14 DEF SavedOk, LogType, CleanOk, CleanTablesCurrent
<1>16. PoolOk'
  <2>1. \A i \in Cached : pool[i].slot # None =>
          /\ pool[i].slot \in InUse' /\ pool[i].slot \in InUse /\ logs'[pool[i].slot] = logs[pool[i].slot]
    BY <1>8, <1>9 DEF PoolOk
  <2> QED BY <1>1, <2>1 DEF PoolOk
<1>17. PostOk'
  BY <1>1 DEF PostOk
<1>18. HasLog(op.lb)'
  BY <1>6, <1>7, <1>3 DEF HasLog
<1>19. OpOk'
  <2>1. OpType'
    BY <1>3 DEF OpType, WriteType
  <2> QED BY <1>1, <1>3, <1>14, <1>18, <2>1 DEF OpOk, WaitOk, VictimOk, LogOk, GivenOk, Quiet
<1> QED BY <1>13, <1>14, <1>15, <1>16, <1>17, <1>19
\* The data block of a log block gets its logic info.
LEMMA WriteDataInfoStep == ASSUME IInv, WriteDataInfo, UNCHANGED scan
                           PROVE  IInv'
<1> USE DEF IInv
<1> DEFINE rec == PageRecord(op.lb, None, FreeMark, Nothing)
           d == data[op.lb]
<1>1. /\ op.kind = "write" /\ op.step = "info" /\ ~Merging /\ post = NoPost /\ OpType
      /\ IF flash[d][0].info = None THEN Program(d, 0, rec) ELSE UNCHANGED flash
      /\ op' = [op EXCEPT !.step = "log"]
      /\ UNCHANGED <<data, logs, free, pool, cur, ctl, saved, post, merge>>
  BY DEF WriteDataInfo, Ready, tables, maps, GoTo, OpOk
<1>2. /\ op \in WriteType /\ OpType' /\ op'.kind = "write" /\ op'.step = "log"
      /\ op'.lb = op.lb /\ op'.slot = op.slot /\ op.lb \in LogicBlk /\ Mounted /\ Mounted'
  BY <1>1, WriteGoes
<1>3. HasLog(op.lb) /\ op.slot = None /\ op.lb # None /\ ~saved.clean
  BY <1>1, <1>2, Numbers DEF OpOk, LogOk, GivenOk, CleanOk
<1>4. Roles(data, logs, free) /\ Marks(data, logs, free, op.lb)
  BY <1>1, <1>2 DEF MountedOk, Unnamed
<1>5. d \in Blk /\ 0 \in Page /\ flash[d][0].info \in {None, op.lb}
  BY <1>2, <1>4, Numbers DEF Roles, Marks
<1>6. /\ rec \in RecordType /\ rec.status \in 0 .. AgeCnt - 1 /\ rec.info = op.lb
      /\ ~IsTable(rec)
  BY <1>2, Status DEF PageRecord, RecordType, Main, IsTable
<1> HIDE DEF rec, d
<1>7. /\ FlashInv' /\ flash'[d][0].info = op.lb
      /\ \A c \in Blk \ {d} : flash'[c] = flash[c]
  <2>1. CASE flash[d][0].info = None
    BY <1>1, <1>3, <1>5, <1>6, <2>1, ProgramKeeps
  <2>2. CASE flash[d][0].info # None
    BY <1>1, <1>5, <2>2 DEF FlashInv, FlashType, Zeroed, TablesHold, IsTable
  <2> QED BY <2>1, <2>2
<1>8. /\ MountedOk' /\ SavedOk' /\ MergeOk' /\ RestOk' /\ ScanOk' /\ ~Merging'
      /\ InUse' = InUse /\ HasLog(op.lb)'
  <2>1. Unnamed = op.lb /\ Unnamed' = None
    BY <1>1, <1>2 DEF Unnamed
  <2>2. logs' \in [Slot -> LogType]
    BY <1>1, <1>4 DEF Roles
  <2> QED BY <1>1, <1>2, <1>3, <1>5, <1>7, <2>1, <2>2, WrittenKeeps DEF d
<1>9. PoolOk' /\ CtlType' /\ CleanOk'
  BY <1>1, <1>2, <1>3, <1>8 DEF PoolOk, CtlType, CleanOk, CleanTablesCurrent
<1>10. PostOk'
  BY <1>1 DEF PostOk
<1>11. OpOk'
  BY <1>1, <1>2, <1>3, <1>8 DEF OpOk, WaitOk, VictimOk, LogOk, GivenOk, Quiet
<1> QED BY <1>7, <1>8, <1>9, <1>10, <1>11
\* Writing behind page 0 of a log block, or its page 0, leaves it the log
\* block of its logical block: what a write in placement knows of it.
LEMMA AtLog ==
  ASSUME IInv, op.kind = "write", op.step \in {"page", "place"}, ~Merging, post = NoPost
  PROVE  LET e == EntrySlot IN
         /\ Mounted /\ Mounted /\ op \in WriteType /\ op.lb \in LogicBlk /\ op.lb # None
         /\ op.slot = None /\ ~saved.clean
         /\ Roles(data, logs, free) /\ Marks(data, logs, free, None)
         /\ e # None /\ e \in Slot /\ e \in InUse /\ e \in Used(logs) /\ logs[e].lb = op.lb
         /\ SlotOf(op.lb) = e /\ LogOf(op.lb) = logs[e] /\ LastUsed = logs[e].last
         /\ logs[e].last \in Page \cup {None}
         /\ logs[e].blk \in Blk \ free /\ data[op.lb] \in Blk
         /\ AgeOf(data[op.lb]) \in 0 .. AgeCnt - 1
         /\ logs[e].last # None \/ op.step = "place" => flash[logs[e].blk][0].info = op.lb
<1> USE DEF IInv
<1> DEFINE e == EntrySlot
<1>1. op \in WriteType /\ Mounted /\ op.lb \in LogicBlk /\ op.lb # None
  BY OpKinds, Numbers DEF OpOk, Mounted, WriteType
<1>2. op.slot = None /\ ~saved.clean /\ e # None /\ logs[e].lb = op.lb
  BY DEF OpOk, GivenOk, LogOk, CleanOk, Quiet
<1>3. Roles(data, logs, free) /\ Marks(data, logs, free, None)
  BY <1>1 DEF MountedOk, Unnamed
<1>4. e \in Slot /\ e \in InUse /\ e \in Used(logs)
  BY <1>2 DEF PoolOk, InUse, Used, EntrySlot
<1>5. SlotOf(op.lb) = e /\ LogOf(op.lb) = logs[e] /\ logs[e].blk \in Blk \ free
  BY <1>1, <1>2, <1>3, <1>4, OneLog
<1>6. LastUsed = logs[e].last /\ logs[e].last \in Page \cup {None}
  BY <1>3, <1>4, <1>5 DEF LastUsed, Roles
<1>7. data[op.lb] \in Blk /\ AgeOf(data[op.lb]) \in 0 .. AgeCnt - 1
  BY <1>1, <1>3, RecordsTyped DEF Roles
<1>8. logs[e].last # None \/ op.step = "place" => flash[logs[e].blk][0].info = op.lb
  BY <1>2, <1>3, <1>4 DEF Marks, OpOk, LogOk
<1> QED BY <1>1, <1>2, <1>3, <1>4, <1>5, <1>6, <1>7, <1>8
\* The first write to a log block names it.
LEMMA WriteLogInfoStep == ASSUME IInv, WriteLogInfo, UNCHANGED scan
                          PROVE  IInv'
<1> USE DEF IInv
<1> DEFINE e == EntrySlot
           b == logs[e].blk
           rec == PageRecord(op.lb, None, Older(AgeOf(data[op.lb]), 1), Nothing)
<1>1. /\ op.kind = "write" /\ op.step = "page" /\ ~Merging /\ post = NoPost /\ OpType
      /\ LastUsed = None /\ Program(LogOf(op.lb).blk, 0, rec)
      /\ op' = [op EXCEPT !.step = "place"]
      /\ UNCHANGED <<data, logs, free, pool, cur, ctl, saved, post, merge>>
  BY DEF WriteLogInfo, Ready, tables, maps, GoTo, OpOk, NeedsLogInfo
<1>2. /\ Mounted /\ op.lb \in LogicBlk /\ op.lb # None
      /\ op.slot = None /\ ~saved.clean
      /\ Roles(data, logs, free) /\ Marks(data, logs, free, None)
      /\ e # None /\ e \in Slot /\ e \in InUse /\ e \in Used(logs) /\ logs[e].lb = op.lb
      /\ LogOf(op.lb) = logs[e] /\ LastUsed = logs[e].last
      /\ b \in Blk \ free /\ data[op.lb] \in Blk
      /\ AgeOf(data[op.lb]) \in 0 .. AgeCnt - 1
  BY <1>1, AtLog
<1>3. /\ OpType' /\ op'.kind = "write" /\ op'.step = "place"
      /\ op'.lb = op.lb /\ op'.slot = op.slot /\ Mounted'
  BY <1>1, WriteGoes
<1>4. /\ rec \in RecordType /\ rec.status \in 0 .. AgeCnt - 1 /\ rec.info = op.lb
      /\ ~IsTable(rec) /\ 0 \in Page
  BY <1>2, Status, Numbers DEF PageRecord, RecordType, Main, IsTable
<1>5. Program(b, 0, rec) /\ logs[e].last = None
  BY <1>1, <1>2
<1> HIDE DEF rec, b, e
<1>6. /\ FlashInv' /\ flash'[b][0].info = op.lb
      /\ \A c \in Blk \ {b} : flash'[c] = flash[c]
  BY <1>2, <1>4, <1>5, ProgramKeeps
<1>7. /\ MountedOk' /\ SavedOk' /\ MergeOk' /\ RestOk' /\ ScanOk' /\ ~Merging'
      /\ InUse' = InUse
  <2>1. Unnamed = None /\ Unnamed' = None
    BY <1>1, <1>3 DEF Unnamed
  <2>2. logs' \in [Slot -> LogType]
    BY <1>1, <1>2 DEF Roles
  <2>3. \E s \in Used(logs) : logs[s].blk = b /\ logs[s].lb = op.lb
    BY <1>2 DEF b
  <2>4. b \in Blk
    BY <1>2
  <2>5. \A c \in Blk \ {b} : /\ flash'[c][0].info = flash[c][0].info
                              /\ flash[c] = ErasedBlk => flash'[c] = ErasedBlk
    BY <1>6
  <2>6. logs' = logs /\ UNCHANGED <<data, free, saved, merge, scan>>
    BY <1>1
  <2>7. Mounted /\ Mounted' /\ ~Merging /\ ~saved.clean /\ op.lb \in LogicBlk /\ IInv
    BY <1>1, <1>2, <1>3
  <2>8. \A s \in Slot : logs'[s] = logs[s]
    BY <2>6
  <2> QED BY <1>6, <2>1, <2>2, <2>3, <2>4, <2>5, <2>6, <2>7, <2>8, WrittenKeeps
<1>8. PoolOk' /\ CtlType' /\ CleanOk'
  BY <1>1, <1>2, <1>7 DEF PoolOk, CtlType, CleanOk, CleanTablesCurrent
<1>9. PostOk'
  BY <1>1 DEF PostOk
<1>10. EntrySlot' = e /\ EntrySlot = e /\ logs'[e].blk = b
  BY <1>1 DEF EntrySlot, e, b
<1>11. OpOk'
  BY <1>1, <1>2, <1>3, <1>5, <1>6, <1>7, <1>10 DEF OpOk, WaitOk, VictimOk, LogOk, GivenOk, Quiet
<1> QED BY <1>6, <1>7, <1>8, <1>9, <1>11
\* A table goes to a page behind the last one used.
LEMMA WriteTableStep == ASSUME IInv, WriteTable, UNCHANGED scan
                        PROVE  IInv'
<1> USE DEF IInv
<1> DEFINE e == EntrySlot
           b == logs[e].blk
           rec == PageRecord(None, None, TableMark, Table(map))
<1>1. /\ Switching /\ post.step \in {"write", "merged"} /\ e # None
      /\ TablePage < PageCnt /\ Program(b, TablePage, rec)
      /\ logs' = [logs EXCEPT ![e].last = TablePage]
      /\ pool' = [pool EXCEPT ![cur].slot = None]
      /\ post' = [post EXCEPT !.step = "read"]
      /\ UNCHANGED <<data, free, cur, ctl, saved, op, merge>>
  BY DEF WriteTable, PostTo
<1>2. /\ post # NoPost /\ ~Merging /\ Mounted /\ op.step \notin {"info", "place", "failed"}
      /\ op.kind \in {"read", "write", "exit"} /\ OpType /\ PostType
      /\ op.kind = "write" => op.step \in {"victim", "page"}
      /\ post.slot = None <=> op.kind = "exit"
  BY <1>1, InSwitch
<1>3. /\ logs[e].last # None /\ ~saved.clean /\ e \in InUse /\ e \in Slot
      /\ (post.slot # None => post.slot \in InUse)
      /\ (post.slot # None => \A i \in Cached : pool[i].slot # post.slot)
  BY <1>1, <1>2 DEF PostOk, CleanOk, PoolOk, InUse, EntrySlot
<1>4. Roles(data, logs, free) /\ Marks(data, logs, free, None)
  BY <1>2 DEF MountedOk, Unnamed
<1>5. /\ e \in Used(logs) /\ logs[e].last \in Page /\ b \in Blk /\ logs[e].lb \in LogicBlk
      /\ flash[b][0].info = logs[e].lb
  BY <1>3, <1>4 DEF Roles, Marks, Used, InUse, LogType
<1>6. TablePage \in Page /\ TablePage # 0 /\ TablePage # None
  <2>1. logs[e].last + 1 \in 1 .. PageCnt /\ PageCnt < 65536
    BY <1>5, Numbers, PageNumberAssumption DEF Page
  <2>2. \A n \in 1 .. PageCnt : n \in Nat /\ U16(n) = n
    BY <2>1, Numbers DEF U16
  <2>3. TablePage = logs[e].last + 1
    BY <2>1, <2>2 DEF TablePage
  <2> QED BY <1>1, <2>1, <2>3, Numbers DEF Page, None
<1>7. map \in Map /\ pool \in [Cached -> EntryType] /\ cur \in Cached
  BY DEF PoolOk, EntryType, map
<1>8. rec \in RecordType /\ rec.main \in [kind : {"table"}, map : Map]
  BY <1>7, Status DEF PageRecord, RecordType, Main, Table
<1> HIDE DEF rec, b, e
<1>9. /\ FlashInv' /\ flash'[b][0].info = logs[e].lb
      /\ \A c \in Blk \ {b} : flash'[c] = flash[c]
  <2>1. flash[b][0].info # None
    BY <1>5, Numbers
  <2> QED BY <1>1, <1>5, <1>6, <1>8, <2>1, ProgramKeeps
<1>10. /\ logs' \in [Slot -> LogType] /\ logs'[e].last = TablePage
       /\ \A s \in Slot : /\ logs'[s].lb = logs[s].lb /\ logs'[s].blk = logs[s].blk
                          /\ s # e => logs'[s] = logs[s]
  <2>1. logs \in [Slot -> LogType] /\ e \in Slot
    BY <1>3, <1>4 DEF Roles
  <2>2. TablePage \in Page \cup -Banks .. -1
    BY <1>6
  <2> QED BY <1>1, <2>1, <2>2 DEF LogType
<1>11. /\ MountedOk' /\ SavedOk' /\ MergeOk' /\ RestOk' /\ ScanOk' /\ ~Merging' /\ Mounted'
       /\ InUse' = InUse /\ \A l : HasLog(l)' <=> HasLog(l)
  <2>1. Unnamed = None /\ Unnamed' = None /\ Mounted'
    BY <1>1, <1>2 DEF Unnamed, Mounted
  <2>2. \A s \in Slot :
           /\ logs'[s].lb = logs[s].lb /\ logs'[s].blk = logs[s].blk
           /\ \/ logs'[s].last = logs[s].last
              \/ logs[s].blk = b /\ logs'[s].last \in Page
    BY <1>6, <1>10 DEF b
  <2>3. \E s \in Used(logs) : logs[s].blk = b /\ logs[s].lb = logs[e].lb
    BY <1>5 DEF b
  <2> QED BY <1>1, <1>2, <1>3, <1>5, <1>9, <1>10, <2>1, <2>2, <2>3, WrittenKeeps
<1>12. /\ pool' \in [Cached -> EntryType] /\ pool'[cur].slot = None
       /\ \A i \in Cached : /\ i # cur => pool'[i] = pool[i]
                            /\ pool'[i].slot # None => pool'[i] = pool[i]
  BY <1>1, <1>7 DEF EntryType
<1>13. PoolOk'
  <2>1. \A i \in Cached : pool'[i].slot # None =>
           /\ pool'[i].slot \in InUse
           /\ logs'[pool'[i].slot].last = None => pool'[i].map = EmptyMap /\ ~pool'[i].dirty
    <3> SUFFICES ASSUME NEW i \in Cached, pool'[i].slot # None
                 PROVE  /\ pool'[i].slot \in InUse
                        /\ logs'[pool'[i].slot].last = None =>
                             pool'[i].map = EmptyMap /\ ~pool'[i].dirty
      OBVIOUS
    <3>1. pool'[i] = pool[i]
      BY <1>12
    <3>2. pool[i].slot \in InUse /\ pool[i].slot \in Slot
      BY <3>1 DEF PoolOk, InUse
    <3>3. CASE pool[i].slot = e
      BY <1>6, <1>10, <3>1, <3>2, <3>3
    <3>4. CASE pool[i].slot # e
      BY <1>10, <3>1, <3>2, <3>4 DEF PoolOk
    <3> QED BY <3>3, <3>4
  <2>2. \A i, j \in Cached : pool'[i].slot # None /\ pool'[i].slot = pool'[j].slot => i = j
    BY <1>12 DEF PoolOk
  <2> QED BY <1>1, <1>7, <1>11, <1>12, <2>1, <2>2 DEF PoolOk
<1>14. CtlType' /\ CleanOk'
  BY <1>1, <1>3 DEF CtlType, CleanOk, CleanTablesCurrent
<1>15. post' \in [slot : Slot \cup {None}, step : {"read"}] /\ post'.slot = post.slot
  BY <1>1, <1>2 DEF PostType
<1>16. PostOk'
  <2>1. post'.slot # None => \A i \in Cached : pool'[i].slot # post'.slot
    BY <1>3, <1>12, <1>15
  <2> QED BY <1>1, <1>2, <1>3, <1>11, <1>15, <2>1 DEF PostOk, PostType
<1>17. post' # NoPost
  BY <1>15 DEF NoPost
<1>18. OpType' /\ WaitOk' /\ VictimOk' /\ GivenOk'
  BY <1>1, <1>2, <1>11, <1>17 DEF OpOk, OpType, WaitOk, VictimOk, GivenOk, Quiet
<1>19. LogOk'
  <2>1. op.step = "page" => logs[post.slot].lb = op.lb
    BY <1>2 DEF OpOk, LogOk
  <2>2. op.step = "page" => post.slot \in Slot
    BY <1>2, <1>3, OpKinds DEF InUse
  <2> QED BY <1>1, <1>2, <1>10, <1>15, <1>17, <2>1, <2>2 DEF LogOk
<1> QED BY <1>9, <1>11, <1>13, <1>14, <1>16, <1>18, <1>19 DEF OpOk
\* What programming new data of a logical page does: every other block keeps
\* its logic info, and an erased one stays erased.
LEMMA DataKeeps ==
  ASSUME FlashInv, NEW b \in Blk, NEW p \in Page, NEW lb \in LogicBlk, NEW lp \in Page,
         NEW st \in 0 .. TableMark, st # TableMark,
         p = 0 => st \in 0 .. AgeCnt - 1,
         p # 0 => flash[b][0].info = lb,
         ProgramData(b, p, st, lb, lp)
  PROVE  /\ FlashInv' /\ flash'[b][0].info = lb
         /\ \A c \in Blk \ {b} : /\ flash'[c][0].info = flash[c][0].info
                                 /\ flash[c] = ErasedBlk => flash'[c] = ErasedBlk
<1> DEFINE new == PageRecord(lb, lp, st, Latest)
           At(c, q) == IF c = b /\ q = p THEN new
                       ELSE IF flash[c][q].info = lb /\ flash[c][q].lpn = lp
                            THEN [flash[c][q] EXCEPT !.main = Stale]
                            ELSE flash[c][q]
<1>1. flash \in [Blk -> [Page -> RecordType]] /\ 0 \in Page
  BY Numbers DEF FlashInv, FlashType, RecordType
<1>2. new \in RecordType /\ new.info = lb /\ new.lpn = lp /\ new.status = st
  BY DEF PageRecord, RecordType, Main
<1>3. \A c \in Blk, q \in Page : flash'[c][q] = At(c, q)
  BY DEF ProgramData
<1>4. \A c \in Blk, q \in Page : c # b \/ q # p =>
        /\ flash'[c][q] \in RecordType
        /\ flash'[c][q].info = flash[c][q].info /\ flash'[c][q].lpn = flash[c][q].lpn
        /\ flash'[c][q].status = flash[c][q].status
        /\ flash'[c][q] = flash[c][q] \/ flash[c][q].lpn = lp
  <2> SUFFICES ASSUME NEW c \in Blk, NEW q \in Page, c # b \/ q # p
               PROVE  /\ flash'[c][q] \in RecordType
                      /\ flash'[c][q].info = flash[c][q].info /\ flash'[c][q].lpn = flash[c][q].lpn
                      /\ flash'[c][q].status = flash[c][q].status
                      /\ flash'[c][q] = flash[c][q] \/ flash[c][q].lpn = lp
    OBVIOUS
  <2>1. flash[c][q] \in RecordType /\ Stale \in Main
    BY <1>1 DEF Main
  <2>2. \/ flash'[c][q] = flash[c][q]
        \/ flash[c][q].lpn = lp /\ flash'[c][q] = [flash[c][q] EXCEPT !.main = Stale]
    BY <1>3
  <2> QED BY <2>1, <2>2 DEF RecordType
<1>5. flash'[b][p] = new
  BY <1>3
<1> HIDE DEF new, At
<1>6. flash' \in [Blk -> [Page -> RecordType]]
  <2>1. \A c \in Blk, q \in Page : flash'[c][q] \in RecordType
    BY <1>2, <1>4, <1>5
  <2>2. flash' = [c \in Blk |-> [q \in Page |-> flash'[c][q]]]
    <3>1. \E F : flash' = [c \in Blk |-> [q \in Page |-> F[c][q]]]
      <4>1. flash' = [c \in Blk |-> [q \in Page |-> At(c, q)]]
        BY DEF ProgramData, At, new
      <4>2. flash' = [c \in Blk |-> [q \in Page |-> [x \in Blk |-> [y \in Page |-> At(x, y)]][c][q]]]
        BY <4>1
      <4> QED BY <4>2
    <3> QED BY <3>1
  <2> QED BY <2>1, <2>2
<1>7. \A c \in Blk : flash'[c][0].info = IF c = b THEN lb ELSE flash[c][0].info
  BY <1>1, <1>2, <1>4, <1>5
<1>8. FlashType'
  <2>1. \A c \in Blk : flash'[c][0].status \in 0 .. AgeCnt - 1
    <3> TAKE c \in Blk
    <3>1. CASE c = b /\ p = 0
      BY <1>2, <1>5, <3>1
    <3>2. CASE c # b \/ p # 0
      BY <1>1, <1>4, <3>2 DEF FlashInv, FlashType
    <3> QED BY <3>1, <3>2
  <2> QED BY <1>6, <2>1 DEF FlashType, RecordType
<1>9. \A c \in Blk \ {b} : flash[c] = ErasedBlk => flash'[c] = ErasedBlk
  <2> SUFFICES ASSUME NEW c \in Blk \ {b}, flash[c] = ErasedBlk
               PROVE  flash'[c] = ErasedBlk
    OBVIOUS
  <2>1. \A q \in Page : flash[c][q] = Erased /\ Erased.lpn # lp
    BY Numbers DEF ErasedBlk, Erased, PageRecord
  <2>2. \A q \in Page : flash'[c][q] = Erased
    BY <1>4, <2>1
  <2> QED BY <1>6, <2>2 DEF ErasedBlk
<1>10. Zeroed'
  <2>1. lb # None
    BY Numbers
  <2> QED BY <1>7, <1>9, <2>1 DEF FlashInv, Zeroed
<1>11. TablesHold'
  <2> SUFFICES ASSUME NEW c \in Blk, NEW q \in Page, IsTable(flash'[c][q])
               PROVE  flash'[c][q].main \in [kind : {"table"}, map : Map]
    BY DEF TablesHold, IsTable
  <2>1. c # b \/ q # p
    BY <1>2, <1>5 DEF IsTable
  <2>2. flash'[c][q] = flash[c][q]
    BY <1>4, <2>1, Numbers DEF IsTable
  <2> QED BY <2>2 DEF FlashInv, TablesHold
<1> QED BY <1>7, <1>8, <1>9, <1>10, <1>11 DEF FlashInv
\* The page a write goes to, if it is one of the log block.
LEMMA WritesPage ==
  ASSUME IInv, op.kind = "write", op.step \in {"page", "place"}, ~Merging, post = NoPost,
         LogPageForWrite < PageCnt
  PROVE  LogPageForWrite \in Page
<1>1. LastUsed \in Page \cup {None} /\ op \in WriteType
  BY AtLog
<1>2. LastUsed \in Int /\ op.bank \in Int
  <2>1. op.bank \in BankSet
    BY <1>1 DEF WriteType
  <2>2. \A p \in Page : BankOf(p) \in Int
    BY Numbers DEF BankOf
  <2> QED BY <1>1, <2>1, <2>2, Numbers DEF BankSet, None
<1>3. \A n \in Int : U16(n) \in Nat
  BY DEF U16
<1>4. LogPageForWrite \in Nat
  <2>1. LastUsed % Banks \in Int
    BY <1>2, Numbers
  <2> QED BY <1>2, <1>3, <2>1, Numbers DEF LogPageForWrite
<1> QED BY <1>4, Numbers DEF Page
\* A page goes to the bank it belongs to, and into the table.
LEMMA WritePageStep == ASSUME IInv, NEW lp \in Page, WritePage(lp), UNCHANGED scan
                       PROVE  IInv'
<1> USE DEF IInv
<1> DEFINE e == EntrySlot
           b == logs[e].blk
           page == LogPageForWrite
           age == IF page = 0 THEN Older(AgeOf(data[op.lb]), 1) ELSE DataMark
<1>1. /\ op.kind = "write" /\ op.step \in {"page", "place"} /\ ~Merging /\ post = NoPost
      /\ page < PageCnt /\ OpType
      /\ op.step = "page" => ~NeedsLogInfo
  BY DEF WritePage, Placing, Ready, OpOk
<1>2. /\ Mounted /\ op.lb \in LogicBlk /\ op.lb # None /\ ~saved.clean
      /\ Roles(data, logs, free)
      /\ e # None /\ e \in Slot /\ e \in InUse /\ e \in Used(logs) /\ logs[e].lb = op.lb
      /\ SlotOf(op.lb) = e /\ LogOf(op.lb) = logs[e] /\ LastUsed = logs[e].last
      /\ b \in Blk \ free /\ data[op.lb] \in Blk
      /\ AgeOf(data[op.lb]) \in 0 .. AgeCnt - 1
      /\ logs[e].last # None \/ op.step = "place" => flash[b][0].info = op.lb
  BY <1>1, AtLog
<1>3. page \in Page
  BY <1>1, WritesPage
<1>4. /\ logs' = [logs EXCEPT ![e].last = page]
      /\ pool' = [pool EXCEPT ![cur].map[lp] = page, ![cur].dirty = TRUE]
      /\ ctl' = Accessed(op.lb)
      /\ ProgramData(b, page, age, op.lb, lp)
      /\ op' = Idle
      /\ UNCHANGED <<data, free, cur, saved, post, merge>>
  BY <1>2 DEF WritePage
<1>5. page # 0 => flash[b][0].info = op.lb
  BY <1>1, <1>2 DEF NeedsLogInfo
<1>6. /\ age \in 0 .. TableMark /\ age # TableMark
      /\ page = 0 => age \in 0 .. AgeCnt - 1
  BY <1>2, Status
<1> HIDE DEF age, page, b, e
<1>7. /\ FlashInv' /\ flash'[b][0].info = op.lb
      /\ \A c \in Blk \ {b} : /\ flash'[c][0].info = flash[c][0].info
                              /\ flash[c] = ErasedBlk => flash'[c] = ErasedBlk
  BY <1>2, <1>3, <1>4, <1>5, <1>6, DataKeeps
<1>8. /\ logs' \in [Slot -> LogType] /\ logs'[e].last = page
      /\ \A s \in Slot : /\ logs'[s].lb = logs[s].lb /\ logs'[s].blk = logs[s].blk
                         /\ s # e => logs'[s] = logs[s]
  <2>1. logs \in [Slot -> LogType] /\ e \in Slot
    BY <1>2 DEF Roles
  <2> QED BY <1>3, <1>4, <2>1 DEF LogType
<1>9. Mounted' /\ Unnamed = None /\ Unnamed' = None
  BY <1>1, <1>4 DEF Mounted, Unnamed, Idle, Op
<1>10. /\ MountedOk' /\ SavedOk' /\ MergeOk' /\ RestOk' /\ ScanOk' /\ ~Merging'
       /\ InUse' = InUse
  <2>2. \A s \in Slot :
           /\ logs'[s].lb = logs[s].lb /\ logs'[s].blk = logs[s].blk
           /\ \/ logs'[s].last = logs[s].last
              \/ logs[s].blk = b /\ logs'[s].last \in Page
    BY <1>3, <1>8 DEF b
  <2>3. \E s \in Used(logs) : logs[s].blk = b /\ logs[s].lb = op.lb
    BY <1>2 DEF b
  <2>4. UNCHANGED <<data, free, saved, merge, scan>> /\ b \in Blk /\ IInv
    BY <1>2, <1>4
  <2> QED BY <1>1, <1>2, <1>7, <1>8, <1>9, <2>2, <2>3, <2>4, WrittenKeeps
<1>11. /\ pool \in [Cached -> EntryType] /\ cur \in Cached /\ pool[cur].slot = e
       /\ pool[cur].map \in Map
  BY DEF PoolOk, EntryType, e, EntrySlot
<1>12. /\ pool' \in [Cached -> EntryType] /\ pool'[cur].slot = e
       /\ \A i \in Cached : i # cur => pool'[i] = pool[i]
  <2>1. [pool[cur].map EXCEPT ![lp] = page] \in Map
    BY <1>3, <1>11 DEF Map
  <2> QED BY <1>4, <1>11, <2>1 DEF EntryType
<1>13. PoolOk'
  <2>1. \A i \in Cached : pool'[i].slot = pool[i].slot
    BY <1>11, <1>12
  <2>2. \A i \in Cached : pool'[i].slot # None /\ logs'[pool'[i].slot].last = None =>
           pool'[i].map = EmptyMap /\ ~pool'[i].dirty
    <3> SUFFICES ASSUME NEW i \in Cached, pool'[i].slot # None,
                        logs'[pool'[i].slot].last = None
                 PROVE  pool'[i].map = EmptyMap /\ ~pool'[i].dirty
      OBVIOUS
    <3>1. pool[i].slot \in InUse /\ pool[i].slot \in Slot
      BY <2>1 DEF PoolOk, InUse
    <3>2. pool[i].slot # e
      BY <1>3, <1>8, <2>1, Numbers
    <3>3. i # cur
      BY <1>11, <3>2
    <3> QED BY <1>8, <1>12, <3>1, <3>2, <3>3 DEF PoolOk
  <2> QED BY <1>4, <1>10, <1>11, <1>12, <2>1, <2>2 DEF PoolOk
<1>14. CtlType'
  <2>1. Accessed(op.lb) = [lb |-> op.lb, data |-> data[op.lb], log |-> b]
    BY <1>2 DEF Accessed, b
  <2> QED BY <1>2, <1>4, <2>1 DEF CtlType
<1>15. CleanOk'
  BY <1>2, <1>4 DEF CleanOk, CleanTablesCurrent
<1>16. PostOk'
  BY <1>1, <1>4 DEF PostOk
<1>17. OpOk'
  BY <1>1, <1>4, <1>10 DEF OpOk, OpType, WaitOk, VictimOk, LogOk, GivenOk, Quiet, Idle, Op
<1> QED BY <1>7, <1>10, <1>13, <1>14, <1>15, <1>16, <1>17
\* What is in memory goes, and what the table block holds stays true.
LEMMA ForgetKeeps ==
  ASSUME IInv, Forget, flash' = flash, scan' = NoScan, SavedOk'
  PROVE  IInv'
<1> USE DEF IInv
<1>1. op' = Off /\ op'.kind = "off" /\ op'.step = "none" /\ op'.slot = None /\ ~Mounted'
  BY DEF Forget, Off, Op, Mounted
<1>2. FlashInv'
  BY DEF FlashInv, FlashType, Zeroed, TablesHold, IsTable
<1>3. ~Merging' /\ post' = NoPost /\ post'.step = "idle"
  BY DEF Forget, Merging, NoPost
<1>4. pool' \in [Cached -> EntryType] /\ cur' \in Cached /\ \A i \in Cached : pool'[i].slot = None
  BY Numbers DEF Forget, NoEntry, EntryType, EmptyMap, Map
<1>5. MountedOk' /\ MergeOk' /\ PoolOk' /\ PostOk'
  BY <1>1, <1>3, <1>4 DEF MountedOk, MergeOk, PoolOk, PostOk
<1>6. OpOk'
  BY <1>1, <1>3 DEF OpOk, OpType, WaitOk, VictimOk, LogOk, GivenOk, Quiet
<1>7. RestOk'
  BY <1>1 DEF RestOk, Forget, NoTables
<1>8. ScanOk'
  BY <1>1, Numbers DEF ScanOk, NoScan
<1>9. CleanOk' /\ CtlType'
  BY <1>1, <1>3 DEF CleanOk, CleanTablesCurrent, CtlType, Forget, NoCtl
<1> QED BY <1>2, <1>5, <1>6, <1>7, <1>8, <1>9
\* A loss of power leaves the flash.
LEMMA PowerLossStep == ASSUME IInv, PowerLoss, scan' = NoScan
                       PROVE  IInv'
<1>1. SavedOk'
  BY DEF IInv, PowerLoss, SavedOk, Roles, Complete, Marks, Used, LogType
<1> QED BY <1>1, ForgetKeeps DEF PowerLoss
\* An exit that failed ends with the disk at rest.
LEMMA EndFailedExitStep == ASSUME IInv, EndFailedExit, UNCHANGED scan
                           PROVE  IInv'
<1>1. SavedOk'
  BY DEF IInv, EndFailedExit, SavedOk, Roles, Complete, Marks, Used, LogType
<1>2. scan' = NoScan
  BY DEF IInv, EndFailedExit, Ready, RestOk
<1> QED BY <1>1, <1>2, ForgetKeeps DEF EndFailedExit
\* An exit that wrote every table saves the ones in memory.
LEMMA SaveTablesStep == ASSUME IInv, SaveTables, UNCHANGED scan
                        PROVE  IInv'
<1> USE DEF IInv
<1>1. /\ op.kind = "exit" /\ op.step = "flush" /\ ~Merging /\ Mounted
      /\ flash' = flash
  BY DEF SaveTables, Ready, Mounted
<1>2. scan' = NoScan
  BY <1>1 DEF RestOk
<1>3. SavedOk'
  <2>1. CASE saved.clean
    BY <2>1 DEF SaveTables, SavedOk, Roles, Complete, Marks, Used, LogType
  <2>2. CASE ~saved.clean
    <3>1. saved' = [clean |-> TRUE, data |-> data, logs |-> logs, free |-> free]
      BY <2>2 DEF SaveTables
    <3>2. Roles(data, logs, free) /\ Complete(data, logs, free, None) /\ Marks(data, logs, free, None)
      BY <1>1 DEF MountedOk, Merging, NoMerge, Unnamed
    <3>3. /\ data \in [LogicBlk -> Blk \cup {None}] /\ logs \in [Slot -> LogType]
          /\ free \in SUBSET Blk
      BY <3>2 DEF Roles
    <3>4. Roles(saved'.data, saved'.logs, saved'.free)
          /\ Complete(saved'.data, saved'.logs, saved'.free, None)
      BY <3>1, <3>2
    <3>5. Marks(saved.data, saved.logs, saved.free, None)'
      BY <1>1, <3>1, <3>2 DEF Marks, Used
    <3> QED BY <3>1, <3>3, <3>4, <3>5 DEF SavedOk, Roles, Complete, LogType, Used
  <2> QED BY <2>1, <2>2
<1> QED BY <1>1, <1>2, <1>3, ForgetKeeps DEF SaveTables
\* The disk is mounted with tables that are true.
LEMMA MountKeeps ==
  ASSUME IInv, NEW d, NEW l, NEW f, Mount(d, l, f), op.kind \in {"off", "scan"},
         Roles(d, l, f), Complete(d, l, f, None), Marks(d, l, f, None),
         saved'.clean, saved'.data = d, saved'.logs = l, saved'.free = f,
         SavedOk', scan' = NoScan, UNCHANGED <<flash, maps, ctl, post, merge>>
  PROVE  IInv'
<1> USE DEF IInv
<1>1. op' = Idle /\ op'.kind = "idle" /\ op'.step = "none" /\ op'.slot = None /\ Mounted'
  BY DEF Mount, Idle, Op, Mounted
<1>2. /\ pool = [i \in Cached |-> NoEntry] /\ cur = 0 /\ ctl = NoCtl
      /\ post = NoPost /\ merge = NoMerge /\ data' = d /\ logs' = l /\ free' = f
      /\ UNCHANGED <<flash, pool, cur, ctl, post, merge>>
  BY DEF RestOk, Mount, maps
<1>3. FlashInv' /\ ~Merging'
  BY <1>2 DEF FlashInv, FlashType, Zeroed, TablesHold, IsTable, Merging
<1>4. MountedOk'
  <2>1. Unnamed' = None /\ merge'.dst = None
    BY <1>1, <1>2 DEF Unnamed, NoMerge
  <2>2. Roles(data, logs, free)' /\ Complete(data, logs, free, merge.dst)'
        /\ Marks(data, logs, free, None)'
    BY <1>2, <2>1 DEF Roles, Complete, Marks, Used, LogType
  <2> QED BY <2>1, <2>2 DEF MountedOk
<1>5. pool' \in [Cached -> EntryType] /\ cur' \in Cached
      /\ \A i \in Cached : pool'[i].slot = None /\ ~pool'[i].dirty
  BY <1>2, Numbers DEF NoEntry, EntryType, EmptyMap, Map
<1>6. MergeOk' /\ PoolOk' /\ PostOk'
  BY <1>2, <1>3, <1>5 DEF MergeOk, PoolOk, PostOk
<1>7. OpOk'
  BY <1>1, <1>2, <1>3 DEF OpOk, OpType, WaitOk, VictimOk, LogOk, GivenOk, Quiet
<1>8. RestOk' /\ ScanOk'
  BY <1>1, Numbers DEF RestOk, ScanOk, NoScan
<1>9. CleanOk' /\ CtlType'
  BY <1>1, <1>2, <1>3, <1>5 DEF CleanOk, CleanTablesCurrent, DirtyEntry, NoPost, CtlType, NoCtl
<1> QED BY <1>3, <1>4, <1>6, <1>7, <1>8, <1>9
\* A mount finds the saved tables true.
LEMMA LoadTablesStep == ASSUME IInv, LoadTables
                        PROVE  IInv'
<1> USE DEF IInv
<1>1. /\ op.kind = "off" /\ saved.clean /\ Mount(saved.data, saved.logs, saved.free)
      /\ UNCHANGED <<flash, maps, ctl, saved, post, merge, scan>> /\ scan' = NoScan
  BY DEF LoadTables, Off, Op, RestOk
<1>2. /\ Roles(saved.data, saved.logs, saved.free)
      /\ Complete(saved.data, saved.logs, saved.free, None)
      /\ Marks(saved.data, saved.logs, saved.free, None)
  BY <1>1 DEF SavedOk
<1>3. SavedOk'
  BY <1>1 DEF SavedOk, Roles, Complete, Marks, Used, LogType
<1> QED BY <1>1, <1>2, <1>3, MountKeeps
\* A mount without them begins with empty tables.
LEMMA StartScanStep == ASSUME IInv, StartScan
                       PROVE  IInv'
<1> USE DEF IInv
<1>1. /\ op = Off /\ op.kind = "off" /\ ~saved.clean
      /\ op' = Op("scan", None, None, "fill") /\ scan' = NoScan
      /\ UNCHANGED <<flash, data, logs, free, pool, cur, ctl, saved, post, merge>>
  BY DEF StartScan, Off, Op, tables, maps
<1>2. op'.kind = "scan" /\ op'.step = "fill" /\ op'.slot = None /\ ~Mounted' /\ OpType'
  BY <1>1 DEF Op, Mounted, OpType
<1>3. /\ post = NoPost /\ merge = NoMerge /\ free = {} /\ ~Merging'
      /\ data = NoTables.data /\ logs = NoTables.logs
  BY <1>1 DEF RestOk, Merging
<1>4. FlashInv' /\ SavedOk' /\ PoolOk' /\ CtlType'
  BY <1>1 DEF FlashInv, FlashType, Zeroed, TablesHold, IsTable, SavedOk, Roles, Complete, Marks,
              Used, LogType, PoolOk, InUse, CtlType
<1>5. MountedOk' /\ MergeOk' /\ PostOk'
  BY <1>1, <1>2, <1>3 DEF MountedOk, MergeOk, PostOk
<1>6. OpOk' /\ RestOk'
  BY <1>1, <1>2, <1>3 DEF OpOk, WaitOk, VictimOk, LogOk, GivenOk, Quiet, RestOk
<1>7. ScanOk'
  <2>1. scan' \in [next : 0 .. BlkCnt, left : 0 .. 3] /\ scan'.next = 0
    BY <1>1, Numbers DEF NoScan
  <2>2. NoLog \in LogType /\ NoLog.lb = None /\ NoLog.last = None
    BY Numbers DEF NoLog, LogType, None
  <2>3. /\ \A s \in Slot : logs'[s] = NoLog
        /\ logs' = [s \in Slot |-> NoLog] /\ data' = [lb \in LogicBlk |-> None]
        /\ InUse' = {}
    BY <1>1, <1>3, <2>2 DEF NoTables, InUse
  <2>4. ScanTables'
    <3>1. logs' \in [Slot -> LogType] /\ \A s \in Slot : logs'[s].last = None
      BY <2>2, <2>3
    <3>2. data' \in [LogicBlk -> Blk \cup {None}] /\ \A lb \in LogicBlk : data'[lb] = None
      BY <2>3
    <3> QED BY <2>3, <3>1, <3>2 DEF ScanTables, LogType
  <2>5. Seen'
    BY <2>1, Numbers DEF Seen, Blk
  <2> QED BY <1>2, <2>1, <2>4, <2>5 DEF ScanOk
<1>8. CleanOk'
  BY <1>1, <1>2, <1>3 DEF CleanOk, CleanTablesCurrent, NoPost
<1> QED BY <1>4, <1>5, <1>6, <1>7, <1>8
\* The scan erases only blocks that are erased.
LEMMA EraseMoreStep == ASSUME IInv, EraseMore(None)
                       PROVE  IInv'
<1> USE DEF IInv
<1>1. /\ op.kind = "scan" /\ op.step = "erase" /\ op' = [op EXCEPT !.step = "fill"]
      /\ scan' = [scan EXCEPT !.left = @ - 1]
      /\ UNCHANGED <<flash, data, logs, free, pool, cur, ctl, saved, post, merge>>
  BY DEF EraseMore, tables, maps, GoTo
<1>2. op'.kind = "scan" /\ op'.step = "fill" /\ op'.slot = None /\ ~Mounted' /\ OpType'
  <2>1. op \in [kind : {"scan"}, lb : {None}, bank : {None}, step : {"fill", "erase"},
                again : {FALSE}, slot : {None}]
    <3>1. OpType /\ op # Off /\ op # Idle
      BY <1>1 DEF OpOk, Off, Idle, Op
    <3>2. op \notin WriteType
      BY <1>1 DEF WriteType
    <3> QED BY <1>1, <3>1, <3>2 DEF OpType, WriteType
  <2>2. op' \in [kind : {"scan"}, lb : {None}, bank : {None}, step : {"fill", "erase"},
                again : {FALSE}, slot : {None}]
    BY <1>1, <2>1
  <2> QED BY <1>1, <2>1, <2>2 DEF OpType, Mounted
<1>3. post = NoPost /\ merge = NoMerge /\ ~Merging' /\ ~saved.clean
  BY <1>1 DEF RestOk, Merging, CleanOk
<1>4. FlashInv' /\ SavedOk' /\ PoolOk' /\ CtlType'
  <2>1. FlashInv'
    BY <1>1 DEF FlashInv, FlashType, Zeroed, TablesHold, IsTable
  <2>2. SavedOk'
    BY <1>1 DEF SavedOk, Roles, Complete, Marks, Used, LogType
  <2>3. PoolOk' /\ CtlType'
    BY <1>1 DEF PoolOk, InUse, CtlType
  <2> QED BY <2>1, <2>2, <2>3
<1>5. MountedOk' /\ MergeOk' /\ PostOk'
  BY <1>1, <1>2, <1>3 DEF MountedOk, MergeOk, PostOk
<1>6. OpOk' /\ RestOk'
  BY <1>1, <1>2, <1>3 DEF OpOk, WaitOk, VictimOk, LogOk, GivenOk, Quiet, RestOk
<1>7. ScanOk'
  <2>1. scan' \in [next : 0 .. BlkCnt, left : 0 .. 3] /\ scan'.next = scan.next
    BY <1>1 DEF ScanOk
  <2> QED BY <1>1, <1>2, <2>1 DEF ScanOk, ScanTables, LogType, InUse, Seen
<1>8. CleanOk'
  BY <1>1, <1>2, <1>3 DEF CleanOk, CleanTablesCurrent, NoPost
<1> QED BY <1>4, <1>5, <1>6, <1>7, <1>8
\* What the scan decides of the blocks of a logical block: each is its data
\* block, its log block or erased, and a log block more is only taken with an
\* item left.
LEMMA Decides ==
  ASSUME NEW d \in Blk \cup {None}, NEW l \in Blk \cup {None}, NEW n \in Blk,
         NEW full \in BOOLEAN, d # n, l # n, d = None => l = None, d # None => d # l,
         NEW v, v = Fill(d, l, n, full)
  PROVE  /\ v.data \in {d, n} \ {None}
         /\ v.log \in {d, l, n, None} /\ v.log # v.data
         /\ v.erase \in {d, l, n, None}
         /\ v.erase # None => v.erase # v.data /\ v.erase # v.log
         /\ {d, l, n} \subseteq {v.data, v.log, v.erase, None}
         /\ l # None => v.log # None
         /\ l = None /\ v.log # None => ~full
<1>0. n # None
  BY Numbers
<1>1. CASE d = None
  <2>1. v = Verdict(n, l, None) /\ l = None
    BY <1>1 DEF Fill
  <2> QED BY <1>0, <1>1, <2>1 DEF Verdict
<1>2. CASE d # None
  <2>1. \/ v = Verdict(n, l, d)
        \/ v = Verdict(d, l, n)
        \/ l # None /\ v = Verdict(d, n, l)
        \/ l = None /\ ~full /\ v = Verdict(d, n, None)
        \/ l # None /\ v = Verdict(n, d, l)
        \/ l = None /\ full /\ v = Verdict(n, None, d)
        \/ l = None /\ ~full /\ v = Verdict(n, d, None)
    <3> DEFINE older == CompareAge(AgeOf(n), AgeOf(d))
    <3>0. v = CASE older = 0 ->
                    IF LastUsedPage(n) > LastUsedPage(d)
                    THEN Verdict(n, l, d) ELSE Verdict(d, l, n)
                [] older > 0 /\ AgeOf(n) = Older(AgeOf(d), 1) ->
                    IF l # None
                    THEN IF LastUsedPage(n) > LastUsedPage(l)
                         THEN Verdict(d, n, l) ELSE Verdict(d, l, n)
                    ELSE IF full THEN Verdict(d, l, n) ELSE Verdict(d, n, None)
                [] older > 0 /\ AgeOf(n) # Older(AgeOf(d), 1) -> Verdict(d, l, n)
                [] older < 0 /\ AgeOf(d) = Older(AgeOf(n), 1) ->
                    IF l # None THEN Verdict(n, d, l)
                    ELSE IF full THEN Verdict(n, None, d) ELSE Verdict(n, d, None)
                [] OTHER -> Verdict(n, l, d)
      BY <1>2 DEF Fill
    <3> HIDE DEF older
    <3>1. CASE older = 0
      BY <3>0, <3>1
    <3>2. CASE older > 0 /\ older # 0
      BY <3>0, <3>2
    <3>3. CASE ~(older > 0) /\ older # 0
      BY <3>0, <3>3
    <3> QED BY <3>1, <3>2, <3>3
  <2> QED BY <1>0, <1>2, <2>1 DEF Verdict
<1> QED BY <1>1, <1>2
\* What a step of the scan keeps of everything but the tables it fills.
LEMMA ScanKeeps ==
  ASSUME IInv, op.kind = "scan", op.step = "fill",
         NEW st \in {"fill", "erase"}, op' = [op EXCEPT !.step = st],
         FlashInv', ScanTables', Seen',
         scan' \in [next : 0 .. BlkCnt, left : 0 .. 3], st = "erase" => scan'.left > 0,
         UNCHANGED <<free, pool, cur, ctl, saved, post, merge>>
  PROVE  IInv'
<1> USE DEF IInv
<1>1. op'.kind = "scan" /\ op'.step = st /\ op'.slot = None /\ ~Mounted' /\ OpType'
  <2>1. OpType /\ op # Off /\ op # Idle /\ op \notin WriteType
    BY DEF OpOk, Off, Idle, Op, WriteType
  <2>2. op \in [kind : {"scan"}, lb : {None}, bank : {None}, step : {"fill", "erase"},
                again : {FALSE}, slot : {None}]
    BY <2>1 DEF OpType, WriteType
  <2>3. op' \in [kind : {"scan"}, lb : {None}, bank : {None}, step : {"fill", "erase"},
                again : {FALSE}, slot : {None}]
    BY <2>2
  <2> QED BY <2>2, <2>3 DEF OpType, Mounted
<1>2. /\ post = NoPost /\ merge = NoMerge /\ ~Merging' /\ ~saved.clean /\ CtlType'
      /\ pool = [i \in Cached |-> NoEntry]
  BY DEF RestOk, Merging, CleanOk, CtlType
<1>3. PoolOk'
  <2>1. \A i \in Cached : pool'[i].slot = None
    BY <1>2 DEF NoEntry
  <2> QED BY <2>1 DEF PoolOk
<1>4. SavedOk'
  BY <1>2 DEF SavedOk, LogType
<1>5. MountedOk' /\ MergeOk' /\ PostOk'
  BY <1>1, <1>2 DEF MountedOk, MergeOk, PostOk
<1>6. OpOk'
  BY <1>1, <1>2 DEF OpOk, WaitOk, VictimOk, LogOk, GivenOk, Quiet
<1>7. RestOk'
  BY <1>1 DEF RestOk
<1>8. ScanOk'
  BY <1>1 DEF ScanOk
<1>9. CleanOk'
  BY <1>1, <1>2 DEF CleanOk, CleanTablesCurrent
<1> QED BY <1>2, <1>3, <1>4, <1>5, <1>6, <1>7, <1>8, <1>9
\* The scan decides about one block after the other.
LEMMA ScanBlockStep == ASSUME IInv, NEW n \in Blk, ScanBlock(n)
                       PROVE  IInv'
<1> USE DEF IInv
<1> DEFINE lb == flash[n][0].info
           d == data[lb]
           l == LogOf(lb).blk
           full == ~HasLog(None)
           v == Fill(d, l, n, full)
           s == IF HasLog(lb) THEN SlotOf(lb) ELSE SlotOf(None)
<1>1. /\ op.kind = "scan" /\ op.step = "fill" /\ scan.next = n
      /\ UNCHANGED <<free, pool, cur, ctl, saved, post, merge>>
      /\ scan' = [next |-> n + 1, left |-> IF op'.step = "erase" THEN 3 ELSE 0]
  BY DEF ScanBlock, maps
<1>2. /\ ScanTables /\ Seen /\ op = [op EXCEPT !.step = "fill"]
      /\ op \in [kind : {"scan"}, lb : {None}, bank : {None}, step : {"fill", "erase"},
                 again : {FALSE}, slot : {None}]
  <2>1. OpType /\ op # Off /\ op # Idle /\ op \notin WriteType
    BY <1>1 DEF OpOk, Off, Idle, Op, WriteType
  <2>2. op \in [kind : {"scan"}, lb : {None}, bank : {None}, step : {"fill", "erase"},
                again : {FALSE}, slot : {None}]
    BY <1>1, <2>1 DEF OpType, WriteType
  <2> QED BY <1>1, <2>2 DEF ScanOk
<1>3. scan' \in [next : 0 .. BlkCnt, left : 0 .. 3] /\ scan'.next = n + 1
      /\ (op'.step = "erase" => scan'.left > 0)
  BY <1>1, Numbers DEF Blk
<1>4. \A c \in Blk : c < n + 1 <=> c < n \/ c = n
  BY Numbers
<1>5. CASE lb = None
  <2>1. UNCHANGED <<flash, data, logs, op>>
    BY <1>5 DEF ScanBlock
  <2>2. FlashInv'
    BY <2>1 DEF FlashInv, FlashType, Zeroed, TablesHold, IsTable
  <2>3. flash[n] = ErasedBlk
    BY <1>5 DEF FlashInv, Zeroed
  <2>4. Seen'
    BY <1>1, <1>2, <1>3, <1>4, <2>1, <2>3 DEF Seen, InUse
  <2>5. ScanTables'
    BY <1>1, <1>2, <1>3, <2>1, Numbers DEF ScanTables, LogType, InUse
  <2> QED BY <1>1, <1>2, <1>3, <2>1, <2>2, <2>4, <2>5, ScanKeeps
<1>6. CASE lb # None
  <2>1. lb \in LogicBlk
    BY <1>6, RecordsTyped, Numbers DEF RecordType
  <2>2. /\ data \in [LogicBlk -> Blk \cup {None}] /\ logs \in [Slot -> LogType]
        /\ d \in Blk \cup {None} /\ d # n /\ \A t \in Slot : logs[t].last = None
    BY <1>1, <1>2, <2>1, Numbers DEF ScanTables
  <2>3. HasLog(lb) => /\ SlotOf(lb) \in InUse /\ SlotOf(lb) \in Slot /\ logs[SlotOf(lb)].lb = lb
                      /\ l = logs[SlotOf(lb)].blk /\ l \in Blk /\ l # n /\ d # None /\ d # l
                      /\ l < n
    <3> HAVE HasLog(lb)
    <3>1. PICK t \in Slot : logs[t].lb = lb
      BY DEF HasLog
    <3>2. SlotOf(lb) \in Slot /\ logs[SlotOf(lb)].lb = lb
      BY <3>1 DEF SlotOf
    <3>3. SlotOf(lb) \in InUse /\ l = logs[SlotOf(lb)].blk
      BY <1>6, <3>2 DEF InUse, LogOf
    <3> QED BY <1>1, <1>2, <3>2, <3>3, Numbers DEF ScanTables
  <2>4. ~HasLog(lb) => l = None
    BY DEF LogOf, NoLog
  <2>5. HasLog(None) => SlotOf(None) \in Slot /\ logs[SlotOf(None)].lb = None
    BY DEF HasLog, SlotOf
  <2>6. /\ v.data \in {d, n} \ {None}
        /\ v.log \in {d, l, n, None} /\ v.log # v.data
        /\ v.erase \in {d, l, n, None}
        /\ v.erase # None => v.erase # v.data /\ v.erase # v.log
        /\ {d, l, n} \subseteq {v.data, v.log, v.erase, None}
        /\ l # None => v.log # None
        /\ l = None /\ v.log # None => ~full
    <3> HIDE DEF d, l, full
    <3>1. full \in BOOLEAN
      BY DEF full
    <3>2. l \in Blk \cup {None} /\ l # n /\ (d = None => l = None) /\ (d # None => d # l)
      BY <2>3, <2>4, Numbers
    <3> HIDE DEF v
    <3>3. v = Fill(d, l, n, full)
      BY DEF v
    <3> QED BY <2>2, <3>1, <3>2, <3>3, Decides
  <2>7. /\ data' = [data EXCEPT ![lb] = v.data]
        /\ logs' = IF v.log = None THEN logs
                   ELSE [logs EXCEPT ![s].lb = lb, ![s].blk = v.log]
        /\ IF v.erase = None THEN UNCHANGED <<flash, op>>
           ELSE flash' = [flash EXCEPT ![v.erase] = ErasedBlk] /\ op' = [op EXCEPT !.step = "erase"]
    BY <1>6 DEF ScanBlock, Erase, GoTo
  <2>8. v.log # None => s \in Slot /\ logs[s].lb \in {None, lb} /\ (HasLog(lb) <=> logs[s].lb = lb)
    <3>1. CASE HasLog(lb)
      BY <2>3, <3>1
    <3>2. CASE ~HasLog(lb)
      BY <1>6, <2>4, <2>5, <2>6, <3>2
    <3> QED BY <3>1, <3>2
  <2>9. /\ d # None => d < n /\ flash[d][0].info = lb
        /\ l # None => l \in Blk /\ flash[l][0].info = lb
    BY <1>1, <1>2, <2>1, <2>3, <2>4 DEF ScanTables
  <2>10. /\ \A x \in {v.data, v.log, v.erase} : x # None =>
               x \in Blk /\ flash[x][0].info = lb /\ x < n + 1
         /\ v.data # None
    <3>1. \A x \in {d, l, n} : x # None => x \in Blk /\ flash[x][0].info = lb /\ x < n + 1
      <4>1. n < n + 1 /\ \A x \in Blk : x < n => x < n + 1
        BY Numbers
      <4>2. (d # None => d \in Blk /\ d < n) /\ (l # None => l < n) /\ flash[n][0].info = lb
        BY <2>2, <2>3, <2>4, <2>9
      <4> HIDE DEF d, l, lb
      <4> QED BY <2>9, <4>1, <4>2
    <3> HIDE DEF v, d, l, lb, full
    <3> QED BY <2>6, <3>1
  <2>11. HasLog(lb) => v.log # None /\ s = SlotOf(lb)
    BY <2>3, <2>6, Numbers
  <2> HIDE DEF v, s, d, l, full, lb
  <2>12. /\ FlashInv'
         /\ \A c \in Blk : flash'[c] = flash[c] \/ (c = v.erase /\ flash'[c] = ErasedBlk)
         /\ v.erase # None => flash'[v.erase] = ErasedBlk
    <3>1. CASE v.erase = None
      BY <2>7, <3>1 DEF FlashInv, FlashType, Zeroed, TablesHold, IsTable
    <3>2. CASE v.erase # None
      <4>1. v.erase \in Blk
        BY <2>10, <3>2
      <4> QED BY <2>7, <3>2, <4>1, EraseKeeps
    <3> QED BY <3>1, <3>2
  <2>13. /\ data' \in [LogicBlk -> Blk \cup {None}] /\ data'[lb] = v.data
         /\ \A x \in LogicBlk : x # lb => data'[x] = data[x]
    BY <2>1, <2>2, <2>7, <2>10
  <2>14. /\ logs' \in [Slot -> LogType]
         /\ \A t \in Slot : logs'[t].last = None
         /\ \A t \in Slot : v.log = None \/ t # s => logs'[t] = logs[t]
         /\ v.log # None => logs'[s].lb = lb /\ logs'[s].blk = v.log
    <3>1. CASE v.log = None
      BY <2>2, <2>7, <3>1
    <3>2. CASE v.log # None
      <4>1. s \in Slot /\ v.log \in Blk
        BY <2>8, <2>10, <3>2
      <4> QED BY <2>1, <2>2, <2>7, <3>2, <4>1 DEF LogType
    <3> QED BY <3>1, <3>2
  <2>15. \A t \in InUse' :
           /\ t \in Slot
           /\ \/ v.log # None /\ t = s /\ logs'[t].lb = lb /\ logs'[t].blk = v.log
              \/ t \in InUse /\ logs[t].lb # lb /\ logs'[t] = logs[t]
    <3> SUFFICES ASSUME NEW t \in Slot, logs'[t].lb # None
                 PROVE  \/ v.log # None /\ t = s /\ logs'[t].lb = lb /\ logs'[t].blk = v.log
                        \/ t \in InUse /\ logs[t].lb # lb /\ logs'[t] = logs[t]
      BY DEF InUse
    <3>1. CASE v.log # None /\ t = s
      BY <2>14, <3>1
    <3>2. CASE v.log = None \/ t # s
      <4>1. logs'[t] = logs[t] /\ t \in InUse
        BY <2>14, <3>2 DEF InUse
      <4>2. logs[t].lb # lb
        <5> SUFFICES ASSUME logs[t].lb = lb PROVE FALSE
          OBVIOUS
        <5>1. HasLog(lb)
          BY DEF HasLog
        <5>2. t = SlotOf(lb)
          BY <1>2, <2>3, <4>1, <5>1 DEF ScanTables
        <5> QED BY <2>11, <3>2, <5>1, <5>2
      <4> QED BY <4>1, <4>2
    <3> QED BY <3>1, <3>2
  <2>16. \A x \in LogicBlk : x # lb /\ data[x] # None =>
           data[x] \in Blk /\ data[x] < n /\ flash[data[x]][0].info = x
           /\ flash'[data[x]] = flash[data[x]]
    <3> SUFFICES ASSUME NEW x \in LogicBlk, x # lb, data[x] # None
                 PROVE  data[x] \in Blk /\ data[x] < n /\ flash[data[x]][0].info = x
                        /\ flash'[data[x]] = flash[data[x]]
      OBVIOUS
    <3>1. data[x] \in Blk /\ data[x] < n /\ flash[data[x]][0].info = x
      BY <1>1, <1>2, <2>2 DEF ScanTables
    <3>2. data[x] # v.erase
      BY <2>10, <3>1, Numbers
    <3> QED BY <2>12, <3>1, <3>2
  <2>17. \A t \in InUse : logs[t].lb # lb =>
           /\ logs[t].blk \in Blk /\ logs[t].blk < n /\ flash[logs[t].blk][0].info = logs[t].lb
           /\ flash'[logs[t].blk] = flash[logs[t].blk] /\ logs[t].lb \in LogicBlk
           /\ data[logs[t].lb] # None /\ data[logs[t].lb] # logs[t].blk
    <3> SUFFICES ASSUME NEW t \in InUse, logs[t].lb # lb
                 PROVE  /\ logs[t].blk \in Blk /\ logs[t].blk < n
                        /\ flash[logs[t].blk][0].info = logs[t].lb
                        /\ flash'[logs[t].blk] = flash[logs[t].blk] /\ logs[t].lb \in LogicBlk
                        /\ data[logs[t].lb] # None /\ data[logs[t].lb] # logs[t].blk
      OBVIOUS
    <3>1. /\ logs[t].blk \in Blk /\ logs[t].blk < n /\ flash[logs[t].blk][0].info = logs[t].lb
          /\ data[logs[t].lb] # None /\ data[logs[t].lb] # logs[t].blk
      BY <1>1, <1>2 DEF ScanTables
    <3>2. logs[t].blk # v.erase
      BY <2>10, <3>1, Numbers
    <3>3. logs[t].lb \in LogicBlk
      BY <1>2 DEF ScanTables, InUse, LogType
    <3> QED BY <2>12, <3>1, <3>2, <3>3
  <2>18. v.data \in Blk /\ flash'[v.data] = flash[v.data]
         /\ (v.log # None => v.log \in Blk /\ flash'[v.log] = flash[v.log])
    <3>1. v.erase # v.data /\ (v.log # None => v.log # v.erase)
      BY <2>6, <2>10
    <3> QED BY <2>10, <2>12, <3>1
  <2>19. ScanTables'
    <3>1. \A x \in LogicBlk : data'[x] # None =>
            data'[x] < n + 1 /\ flash'[data'[x]][0].info = x
      <4> SUFFICES ASSUME NEW x \in LogicBlk, data'[x] # None
                   PROVE  data'[x] < n + 1 /\ flash'[data'[x]][0].info = x
        OBVIOUS
      <4>1. CASE x = lb
        BY <2>10, <2>13, <2>18, <4>1
      <4>2. CASE x # lb
        <5>1. data'[x] = data[x] /\ data[x] \in Blk /\ data[x] < n /\ flash[data[x]][0].info = x
              /\ flash'[data[x]] = flash[data[x]]
          BY <2>13, <2>16, <4>2
        <5>2. data[x] \in Int /\ n \in Int /\ data[x] < n
          <6>1. data[x] \in Nat /\ n \in Nat
            BY <5>1, Numbers
          <6> QED BY <5>1, <6>1
        <5>3. \A i, j \in Int : i < j => i < j + 1
          OBVIOUS
        <5>4. data[x] < n + 1
          BY <5>1, <5>2, <5>3
        <5> QED BY <5>1, <5>4
      <4> QED BY <4>1, <4>2
    <3>2. \A t \in InUse' :
       /\ logs'[t].blk \in Blk /\ logs'[t].blk < n + 1
       /\ flash'[logs'[t].blk][0].info = logs'[t].lb
       /\ data'[logs'[t].lb] # None /\ data'[logs'[t].lb] # logs'[t].blk
      <4> TAKE t \in InUse'
      <4>1. CASE v.log # None /\ t = s /\ logs'[t].lb = lb /\ logs'[t].blk = v.log
        BY <2>6, <2>10, <2>13, <2>18, <4>1
      <4>2. CASE t \in InUse /\ logs[t].lb # lb /\ logs'[t] = logs[t]
        <5>1. /\ logs[t].blk \in Blk /\ logs[t].blk < n /\ flash[logs[t].blk][0].info = logs[t].lb
              /\ flash'[logs[t].blk] = flash[logs[t].blk] /\ logs[t].lb \in LogicBlk
              /\ data[logs[t].lb] # None /\ data[logs[t].lb] # logs[t].blk
          BY <2>17, <4>2
        <5>2. data'[logs[t].lb] = data[logs[t].lb]
          BY <2>13, <4>2, <5>1
        <5>3. logs[t].blk < n + 1
          BY <1>4, <5>1
        <5>4. logs'[t].blk = logs[t].blk /\ logs'[t].lb = logs[t].lb
          BY <4>2
        <5>5. flash'[logs'[t].blk][0].info = logs'[t].lb
          <6>1. flash'[logs'[t].blk] = flash[logs[t].blk]
            BY <5>1, <5>4
          <6> QED BY <5>1, <5>4, <6>1
        <5>6. data'[logs'[t].lb] # None /\ data'[logs'[t].lb] # logs'[t].blk
          BY <5>1, <5>2, <5>4
        <5> QED BY <5>1, <5>3, <5>4, <5>5, <5>6
      <4> QED BY <2>15, <4>1, <4>2
    <3>3. \A t, u \in InUse' : logs'[t].lb = logs'[u].lb => t = u
      <4> SUFFICES ASSUME NEW t \in InUse', NEW u \in InUse', logs'[t].lb = logs'[u].lb
                   PROVE  t = u
        OBVIOUS
      <4>1. CASE t \in InUse /\ logs[t].lb # lb /\ logs'[t] = logs[t]
        <5>1. u \in InUse /\ logs'[u] = logs[u]
          BY <2>15, <4>1
        <5> QED BY <1>2, <4>1, <5>1 DEF ScanTables
      <4>2. CASE t = s /\ logs'[t].lb = lb
        BY <2>15, <4>2
      <4> QED BY <2>15, <4>1, <4>2
    <3> QED BY <1>3, <2>13, <2>14, <3>1, <3>2, <3>3 DEF ScanTables, LogType
  <2>20. Seen'
    <3> SUFFICES ASSUME NEW c \in Blk, c < n + 1
                 PROVE  \/ flash'[c] = ErasedBlk
                        \/ data'[flash'[c][0].info] = c
                        \/ \E t \in InUse' : logs'[t].blk = c
      BY <1>3 DEF Seen
    <3> DEFINE Found == \/ flash'[c] = ErasedBlk
                        \/ data'[flash'[c][0].info] = c
                        \/ \E t \in InUse' : logs'[t].blk = c
    <3>1. c \in {d, l, n} /\ c # None => Found
      <4> SUFFICES ASSUME c \in {v.data, v.log, v.erase}, c # None PROVE Found
        BY <2>6
      <4>1. CASE c = v.erase
        BY <2>12, <4>1
      <4>2. CASE c = v.data
        BY <2>10, <2>13, <2>18, <4>2
      <4>3. CASE c = v.log
        <5>1. s \in InUse'
          BY <1>6, <2>8, <2>14, <4>3 DEF InUse
        <5> QED BY <2>14, <4>3, <5>1
      <4> QED BY <4>1, <4>2, <4>3
    <3>2. CASE c = n
      BY <3>1, <3>2, Numbers
    <3>3. CASE c < n /\ c \notin {d, l, n}
      <4>1. \/ flash[c] = ErasedBlk
            \/ data[flash[c][0].info] = c
            \/ \E t \in InUse : logs[t].blk = c
        BY <1>1, <1>2, <3>3 DEF Seen
      <4>2. CASE flash[c] = ErasedBlk
        BY <2>12, <4>2
      <4>3. CASE data[flash[c][0].info] = c /\ flash[c] # ErasedBlk
        <5>1. flash[c][0].info \in LogicBlk
          BY <4>3, RecordsTyped, Numbers DEF FlashInv, Zeroed, RecordType
        <5>2. flash[c][0].info # lb
          BY <3>3, <4>3 DEF d
        <5>3. data'[flash[c][0].info] = c
          BY <2>13, <4>3, <5>1, <5>2
        <5> QED BY <2>12, <5>3
      <4>4. ASSUME NEW t \in InUse, logs[t].blk = c PROVE Found
        <5>1. logs[t].lb # lb
          <6> SUFFICES ASSUME logs[t].lb = lb PROVE FALSE
            OBVIOUS
          <6>1. HasLog(lb)
            BY DEF HasLog, InUse
          <6>2. t = SlotOf(lb)
            BY <1>2, <2>3, <6>1 DEF ScanTables
          <6> QED BY <2>3, <3>3, <4>4, <6>1, <6>2
        <5>2. t \in Slot /\ (v.log # None => t # s)
          BY <2>8, <5>1 DEF InUse
        <5>3. logs'[t] = logs[t]
          BY <2>14, <5>2
        <5> QED BY <4>4, <5>3 DEF InUse
      <4> QED BY <4>1, <4>2, <4>3, <4>4
    <3> QED BY <1>4, <3>1, <3>2, <3>3, Numbers
  <2>21. PICK st \in {"fill", "erase"} : op' = [op EXCEPT !.step = st]
    BY <1>2, <2>7
  <2>22. op'.step = st
    BY <1>2, <2>21
  <2> QED BY <1>1, <1>2, <1>3, <2>12, <2>19, <2>20, <2>21, <2>22, ScanKeeps
<1> QED BY <1>5, <1>6
\* The scan is over: every block that is not erased is in the tables, and the
\* logical blocks without a data block get erased ones.
LEMMA EndScanStep == ASSUME IInv, EndScan
                     PROVE  IInv'
<1> USE DEF IInv
<1>1. /\ op.kind = "scan" /\ op.step = "fill" /\ scan.next = BlkCnt /\ scan' = NoScan
      /\ UNCHANGED <<flash, maps, ctl, post, merge>>
  BY DEF EndScan
<1> DEFINE D(given) == [lb \in LogicBlk |-> IF lb \in Unset THEN given[lb] ELSE data[lb]]
           L == [s \in Slot |->
                   IF logs[s].lb = None THEN logs[s]
                   ELSE [logs[s] EXCEPT !.last = LastUsedPage(logs[s].blk)]]
           F(given) == Blank \ {given[lb] : lb \in Unset}
<1>2. PICK given \in [Unset -> Blank] :
        /\ \A x, y \in Unset : given[x] = given[y] => x = y
        /\ Mount(D(given), L, F(given))
        /\ saved' = [clean |-> TRUE, data |-> D(given), logs |-> L, free |-> F(given)]
  BY DEF EndScan
<1> DEFINE d == D(given)
           f == F(given)
<1>3. ScanTables /\ Seen
  BY <1>1 DEF ScanOk
<1>4. /\ data \in [LogicBlk -> Blk \cup {None}] /\ logs \in [Slot -> LogType]
      /\ \A lb \in LogicBlk : data[lb] # None => data[lb] \in Blk /\ flash[data[lb]][0].info = lb
      /\ \A s \in InUse :
           /\ s \in Slot /\ logs[s].lb \in LogicBlk /\ logs[s].lb # None /\ logs[s].blk \in Blk
           /\ flash[logs[s].blk][0].info = logs[s].lb
           /\ data[logs[s].lb] # None /\ data[logs[s].lb] # logs[s].blk
      /\ \A s, t \in InUse : logs[s].lb = logs[t].lb => s = t
  BY <1>3 DEF ScanTables, InUse, LogType
<1>5. /\ \A lb \in LogicBlk : lb \in Unset <=> data[lb] = None
      /\ \A b \in Blk : b \in Blank <=> flash[b][0].info = None
      /\ Unset \subseteq LogicBlk /\ Blank \subseteq Blk
  BY DEF Unset, Blank
<1>6. /\ \A lb \in Unset : d[lb] = given[lb] /\ d[lb] \in Blank
      /\ \A lb \in LogicBlk \ Unset : d[lb] = data[lb] /\ d[lb] \in Blk
                                     /\ flash[d[lb]][0].info = lb
      /\ d \in [LogicBlk -> Blk]
  BY <1>4, <1>5
<1>7. /\ f \subseteq Blank /\ \A b \in Blank : b \notin f => \E lb \in Unset : given[lb] = b
      /\ \A lb \in Unset : given[lb] \notin f
  OBVIOUS
<1>8. /\ L \in [Slot -> LogType] /\ Used(L) = InUse
      /\ \A s \in Slot : L[s].lb = logs[s].lb /\ L[s].blk = logs[s].blk
      /\ \A s \in InUse : L[s].last \in Page
  <2>1. \A s \in Slot : logs[s].lb # None => LastUsedPage(logs[s].blk) \in Page
    <3> SUFFICES ASSUME NEW s \in Slot, logs[s].lb # None
                 PROVE  LastUsedPage(logs[s].blk) \in Page
      OBVIOUS
    <3> QED BY LastUsedPageType
  <2>2. \A s \in Slot : /\ L[s] \in LogType /\ L[s].lb = logs[s].lb /\ L[s].blk = logs[s].blk
                        /\ logs[s].lb # None => L[s].last \in Page
    <3> TAKE s \in Slot
    <3>1. logs[s] \in LogType
      BY <1>4
    <3>2. CASE logs[s].lb = None
      BY <3>1, <3>2
    <3>3. CASE logs[s].lb # None
      BY <2>1, <3>1, <3>3 DEF LogType
    <3> QED BY <3>2, <3>3
  <2>3. L \in [Slot -> LogType]
    BY <2>2
  <2> HIDE DEF L
  <2> QED BY <2>2, <2>3 DEF Used, InUse
<1> HIDE DEF D, L, F, d, f
<1>9. \A lb \in LogicBlk : lb # None
  BY Numbers
<1>10. Roles(d, L, f)
  <2>1. \A x, y \in LogicBlk : d[x] = d[y] => x = y
    <3> SUFFICES ASSUME NEW x \in LogicBlk, NEW y \in LogicBlk, d[x] = d[y] PROVE x = y
      OBVIOUS
    <3>1. CASE x \in Unset /\ y \in Unset
      BY <1>2, <1>6, <3>1
    <3>2. CASE x \notin Unset /\ y \notin Unset
      BY <1>6, <3>2
    <3>3. CASE x \in Unset <=> y \notin Unset
      BY <1>5, <1>6, <1>9, <3>3
    <3> QED BY <3>1, <3>2, <3>3
  <2>2. \A s, t \in InUse : L[s].lb = L[t].lb \/ L[s].blk = L[t].blk => s = t
    BY <1>4, <1>8
  <2>3. \A s \in InUse :
       /\ L[s].blk \in Blk \ f /\ L[s].last \in Page \cup {None}
       /\ \A lb \in LogicBlk : d[lb] # L[s].blk
    <3> TAKE s \in InUse
    <3>1. /\ s \in Slot /\ L[s].blk = logs[s].blk /\ logs[s].blk \in Blk
          /\ logs[s].lb \in LogicBlk /\ flash[logs[s].blk][0].info = logs[s].lb
          /\ logs[s].blk \notin Blank /\ logs[s].lb \notin Unset
          /\ data[logs[s].lb] # logs[s].blk
      BY <1>4, <1>5, <1>8
    <3>2. ASSUME NEW lb \in LogicBlk, d[lb] = logs[s].blk PROVE FALSE
      <4>1. lb \notin Unset
        BY <1>6, <3>1, <3>2
      <4>2. lb = logs[s].lb
        BY <1>6, <3>1, <3>2, <4>1
      <4> QED BY <1>6, <3>1, <3>2, <4>1, <4>2
    <3> QED BY <1>7, <1>8, <3>1, <3>2
  <2>4. f \subseteq Blk /\ \A lb \in LogicBlk : d[lb] \notin f
    BY <1>5, <1>6, <1>7, <1>9
  <2> QED BY <1>6, <1>8, <2>1, <2>2, <2>3, <2>4 DEF Roles
<1>11. Complete(d, L, f, None)
  <2> SUFFICES ASSUME NEW b \in Blk, b \notin f
               PROVE  \/ \E lb \in LogicBlk : d[lb] = b
                      \/ \E s \in Used(L) : L[s].blk = b
    BY DEF Complete
  <2>1. CASE b \in Blank
    BY <1>5, <1>6, <1>7, <2>1
  <2>2. CASE b \notin Blank
    <3>1. flash[b][0].info # None /\ flash[b] # ErasedBlk
      <4>1. ErasedBlk[0].info = None
        BY Numbers DEF ErasedBlk, Erased, PageRecord
      <4> QED BY <1>5, <2>2, <4>1
    <3>2. flash[b][0].info \in LogicBlk
      BY <3>1, RecordsTyped, Numbers DEF RecordType
    <3>3. data[flash[b][0].info] = b \/ \E s \in InUse : logs[s].blk = b
      <4>1. b < BlkCnt
        BY Numbers DEF Blk
      <4> QED BY <1>1, <1>3, <3>1, <4>1 DEF Seen
    <3>4. b # None
      BY Numbers
    <3>5. CASE data[flash[b][0].info] = b
      BY <1>5, <1>6, <3>2, <3>4, <3>5
    <3>6. CASE \E s \in InUse : logs[s].blk = b
      BY <1>4, <1>8, <3>6
    <3> QED BY <3>3, <3>5, <3>6
  <2> QED BY <2>1, <2>2
<1>12. Marks(d, L, f, None)
  <2>1. \A b \in f : flash[b] = ErasedBlk
    BY <1>5, <1>7 DEF FlashInv, Zeroed
  <2>2. \A lb \in LogicBlk : flash[d[lb]][0].info \in {None, lb}
    BY <1>5, <1>6
  <2>3. \A s \in Used(L) :
       /\ \/ flash[L[s].blk][0].info = L[s].lb
          \/ L[s].last = None /\ flash[L[s].blk] = ErasedBlk
       /\ L[s].lb # None => flash[d[L[s].lb]][0].info = L[s].lb
    BY <1>4, <1>5, <1>6, <1>8
  <2> QED BY <2>1, <2>2, <2>3 DEF Marks
<1>13. SavedOk'
  <2>1. saved'.clean /\ saved'.data = d /\ saved'.logs = L /\ saved'.free = f
    BY <1>2 DEF d, f
  <2>2. saved' \in [clean : BOOLEAN, data : [LogicBlk -> Blk \cup {None}],
                    logs : [Slot -> LogType], free : SUBSET Blk]
    <3>1. /\ d \in [LogicBlk -> Blk \cup {None}] /\ L \in [Slot -> LogType]
          /\ f \in SUBSET Blk
      BY <1>6, <1>8, <1>10 DEF Roles
    <3> QED BY <1>2, <3>1 DEF d, f
  <2>3. Marks(saved.data, saved.logs, saved.free, None)'
    BY <1>1, <1>12, <2>1 DEF Marks, Used
  <2>4. Roles(saved'.data, saved'.logs, saved'.free)
        /\ Complete(saved'.data, saved'.logs, saved'.free, None)
    BY <1>10, <1>11, <2>1
  <2> QED BY <2>2, <2>3, <2>4 DEF SavedOk, Roles, Complete, LogType, Used
<1>14. saved'.clean /\ saved'.data = d /\ saved'.logs = L /\ saved'.free = f /\ Mount(d, L, f)
  BY <1>2 DEF d, f
<1> QED BY <1>1, <1>10, <1>11, <1>12, <1>13, <1>14, MountKeeps
\* The dense disk of Init satisfies the invariant.
LEMMA InitHolds == Init => IInv
<1> SUFFICES ASSUME Init PROVE IInv
  OBVIOUS
<1>1. /\ flash = [b \in Blk |-> DenseBlk(b)]
      /\ saved = [clean |-> TRUE, data |-> [lb \in LogicBlk |-> lb],
                  logs |-> [s \in Slot |-> NoLog], free |-> Blk \ LogicBlk]
      /\ data = NoTables.data /\ logs = NoTables.logs /\ free = {}
      /\ pool = [i \in Cached |-> NoEntry] /\ cur = 0 /\ ctl = NoCtl
      /\ op = Off /\ post = NoPost /\ merge = NoMerge /\ scan = NoScan
  BY DEF Init, NoTables
<1>2. op.kind = "off" /\ op.step = "none" /\ op.slot = None /\ ~Mounted
  BY <1>1 DEF Off, Op, Mounted
<1>3. LogicBlk \subseteq Blk
  BY GeometryAssumption DEF LogicBlk, Blk
<1>4. /\ Erased \in RecordType /\ Erased.info = None /\ Erased.status \in 0 .. AgeCnt - 1
      /\ ~IsTable(Erased)
  BY Status DEF Erased, PageRecord, RecordType, Main, IsTable
<1>5. \A lb \in LogicBlk, p \in Page :
        /\ DensePage(lb, p) \in RecordType /\ DensePage(lb, p).info = lb
        /\ p = 0 => DensePage(lb, p).status \in 0 .. AgeCnt - 1
        /\ ~IsTable(DensePage(lb, p))
  <2> SUFFICES ASSUME NEW lb \in LogicBlk, NEW p \in Page
               PROVE  /\ DensePage(lb, p) \in RecordType /\ DensePage(lb, p).info = lb
                      /\ p = 0 => DensePage(lb, p).status \in 0 .. AgeCnt - 1
                      /\ ~IsTable(DensePage(lb, p))
    OBVIOUS
  <2>1. 0 \in 0 .. AgeCnt - 1 /\ 0 \in 0 .. TableMark /\ Latest \in Main
    BY Numbers DEF TableMark, Main
  <2> QED BY <2>1, Status, Numbers DEF DensePage, PageRecord, RecordType, IsTable
<1>6. /\ flash \in [Blk -> [Page -> RecordType]] /\ 0 \in Page
      /\ \A lb \in LogicBlk, p \in Page : flash[lb][p] = DensePage(lb, p)
      /\ \A b \in Blk \ LogicBlk : flash[b] = ErasedBlk
      /\ \A b \in Blk \ LogicBlk, p \in Page : flash[b][p] = Erased
  <2>1. \A b \in Blk : DenseBlk(b) \in [Page -> RecordType]
    BY <1>4, <1>5 DEF DenseBlk, ErasedBlk
  <2> QED BY <1>1, <1>3, <2>1, Numbers DEF DenseBlk, ErasedBlk
<1>7. FlashInv
  <2>1. \A b \in Blk : flash[b][0].status \in 0 .. AgeCnt - 1
    BY <1>4, <1>5, <1>6
  <2>2. Zeroed
    BY <1>5, <1>6, Numbers DEF Zeroed
  <2>3. TablesHold
    BY <1>4, <1>5, <1>6 DEF TablesHold
  <2> QED BY <1>6, <2>1, <2>2, <2>3 DEF FlashInv, FlashType, RecordType
<1>8. NoLog \in LogType /\ NoLog.lb = None
  BY Numbers DEF NoLog, LogType, None
<1>9. SavedOk
  <2> DEFINE d == [lb \in LogicBlk |-> lb]
             l == [s \in Slot |-> NoLog]
             f == Blk \ LogicBlk
  <2>1. d \in [LogicBlk -> Blk] /\ l \in [Slot -> LogType] /\ f \subseteq Blk
        /\ \A lb \in LogicBlk : d[lb] = lb
    BY <1>3, <1>8
  <2>2. Used(l) = {}
    BY <1>8 DEF Used
  <2> HIDE DEF d, l
  <2>3. Roles(d, l, f)
    BY <2>1, <2>2 DEF Roles
  <2>4. Complete(d, l, f, None)
    BY <2>1 DEF Complete
  <2>5. Marks(d, l, f, None)
    BY <1>5, <1>6, <2>1, <2>2 DEF Marks
  <2>6. saved.clean = TRUE /\ saved.data = d /\ saved.logs = l /\ saved.free = f
        /\ saved = [clean |-> TRUE, data |-> d, logs |-> l, free |-> f]
    BY <1>1 DEF d, l
  <2>7. d \in [LogicBlk -> Blk \cup {None}] /\ f \in SUBSET Blk
    BY <2>1
  <2> QED BY <2>1, <2>3, <2>4, <2>5, <2>6, <2>7 DEF SavedOk
<1>10. PoolOk
  <2>1. NoEntry \in EntryType /\ NoEntry.slot = None
    BY DEF NoEntry, EntryType, EmptyMap, Map
  <2> QED BY <1>1, <2>1, Numbers DEF PoolOk
<1>11. ~Merging /\ post.step = "idle"
  BY <1>1 DEF Merging, NoPost
<1>12. MountedOk /\ MergeOk /\ PostOk
  BY <1>1, <1>2, <1>11 DEF MountedOk, MergeOk, PostOk
<1>13. OpOk
  BY <1>1, <1>2, <1>11 DEF OpOk, OpType, WaitOk, VictimOk, LogOk, GivenOk, Quiet
<1>14. RestOk /\ ScanOk /\ CtlType
  BY <1>1, <1>2, Numbers DEF RestOk, ScanOk, NoScan, CtlType, NoCtl
<1>15. CleanOk
  BY <1>2, <1>11 DEF CleanOk, CleanTablesCurrent
<1> QED BY <1>7, <1>9, <1>10, <1>12, <1>13, <1>14, <1>15 DEF IInv
\* A step that changes nothing.
LEMMA StutterKeeps == ASSUME IInv, UNCHANGED allVars PROVE IInv'
<1> USE DEF IInv
<1>1. UNCHANGED <<flash, data, logs, free, pool, cur, ctl, saved, op, post, merge, scan>>
  BY DEF allVars, vars
<1>2. FlashInv' /\ SavedOk' /\ PoolOk'
  BY <1>1 DEF FlashInv, FlashType, Zeroed, TablesHold, IsTable, SavedOk, Roles, Complete, Marks,
              Used, LogType, PoolOk, InUse
<1>3. MountedOk'
  BY <1>1 DEF MountedOk, Mounted, Roles, Complete, Marks, Unnamed, Used, LogType
<1>4. MergeOk' /\ PostOk'
  BY <1>1 DEF MergeOk, Merging, Mounted, MergeType, TargetOk, EntrySlot, InUse, PostOk, PostType
<1>5. OpOk'
  BY <1>1 DEF OpOk, OpType, WaitOk, VictimOk, LogOk, GivenOk, Quiet, Merging, HasLog, EntrySlot,
              InUse
<1>6. RestOk' /\ ScanOk'
  BY <1>1 DEF RestOk, ScanOk, ScanTables, LogType, InUse, Seen
<1>7. CleanOk' /\ CtlType'
  BY <1>1 DEF CleanOk, Merging, CleanTablesCurrent, Mounted, DirtyEntry, CtlType
<1> QED BY <1>2, <1>3, <1>4, <1>5, <1>6, <1>7
\* Every step, if what was on the stack of the scan names no block.
LEMMA NextKeeps ==
  ASSUME StackBlk = {None}, IInv, NoEmptyBank, [Next]_allVars
  PROVE  IInv'
<1>1. CASE UNCHANGED allVars
  BY <1>1, StutterKeeps
<1>2. CASE Call /\ UNCHANGED scan
  <2>1. ASSUME NEW w \in WrittenBanks, StartWrite(w[1], w[2]) PROVE IInv'
    <3>1. w[1] \in LogicBlk /\ w[2] \in BankSet
      BY WrittenAssumption DEF WrittenBanks, BankSet
    <3> QED BY <1>2, <2>1, <3>1, StartWriteStep
  <2> QED BY <1>2, <2>1, StartReadStep, StartExitStep DEF Call
<1>3. CASE WriteStep /\ UNCHANGED scan
  BY <1>3, UseLogStep, PickVictimStep, MergeVictimStep, CreateLogStep, WriteDataInfoStep,
     WriteLogInfoStep, MergeFullLogStep, WritePageStep, FailWriteStep, EndFailedWriteStep
     DEF WriteStep
<1>4. CASE EndRead /\ UNCHANGED scan
  BY <1>4, EndReadStep
<1>5. CASE ExitStep /\ UNCHANGED scan
  BY <1>5, FlushEntryStep, SaveTablesStep, EndFailedExitStep DEF ExitStep
<1>6. CASE SwitchStep /\ UNCHANGED scan
  BY <1>6, CacheHitStep, PickEntryStep, WriteTableStep, MergeForTableStep, NoMergeForTableStep,
     TableMergedStep, ReadTableStep, EntryWrittenStep DEF SwitchStep
<1>7. CASE MergeStep /\ UNCHANGED scan
  BY <1>7, SwapCopyStep, SwapEndStep, SimpleCopyStep, SimpleEraseDataStep, SimpleEndStep,
     MoveCopyStep, MoveInfoStep, MoveEndStep DEF MergeStep
<1>8. CASE ScanStep
  BY <1>8, ScanBlockStep, EraseMoreStep, EndScanStep DEF ScanStep
<1> QED BY <1>1, <1>2, <1>3, <1>4, <1>5, <1>6, <1>7, <1>8, PowerLossStep, LoadTablesStep,
        StartScanStep DEF Next, Work
\* The invariant holds.
LEMMA InvHolds == ASSUME StackBlk = {None} PROVE Spec /\ []NoEmptyBank => []IInv
<1>1. IInv /\ NoEmptyBank /\ [Next]_allVars => IInv'
  BY NextKeeps
<1> QED BY <1>1, InitHolds, PTL DEF Spec
\* It bounds the variables.
LEMMA TypesHold == IInv => TypeOK
<1> SUFFICES ASSUME IInv PROVE TypeOK
  OBVIOUS
<1> USE DEF IInv
<1>1. \/ Mounted
      \/ op.kind = "off" /\ op = Off
      \/ op.kind = "scan"
  BY OpKinds DEF OpOk, Mounted, Kinds
<1>2. TablesType(data, logs, free)
  <2>1. CASE Mounted
    BY <2>1 DEF MountedOk, Roles, TablesType
  <2>2. CASE op.kind = "off"
    <3>1. NoLog \in LogType
      BY Numbers DEF NoLog, LogType, None
    <3> QED BY <2>2, <3>1 DEF RestOk, NoTables, TablesType
  <2>3. CASE op.kind = "scan"
    BY <2>3 DEF ScanOk, ScanTables, RestOk, TablesType
  <2> QED BY <1>1, <2>1, <2>2, <2>3
<1>3. /\ pool \in [Cached -> EntryType] /\ cur \in Cached
      /\ ctl \in [lb : LogicBlk \cup {None}, data : Blk \cup {None}, log : Blk \cup {None}]
      /\ saved.clean \in BOOLEAN /\ TablesType(saved.data, saved.logs, saved.free)
      /\ FlashType /\ scan \in [next : 0 .. BlkCnt, left : 0 .. 3]
  BY DEF PoolOk, CtlType, SavedOk, TablesType, FlashInv, ScanOk
<1>4. op \in [kind : Kinds, lb : LogicBlk \cup {None}, bank : BankSet \cup {None},
              step : Steps, again : BOOLEAN, slot : Slot \cup {None}]
  <2>1. CASE op = Off \/ op = Idle
    <3>1. /\ "off" \in Kinds /\ "idle" \in Kinds /\ "none" \in Steps
          /\ None \in LogicBlk \cup {None} /\ None \in BankSet \cup {None}
          /\ None \in Slot \cup {None} /\ FALSE \in BOOLEAN
      BY DEF Kinds, Steps
    <3>2. \A k \in Kinds : Op(k, None, None, "none") \in
            [kind : Kinds, lb : LogicBlk \cup {None}, bank : BankSet \cup {None},
             step : Steps, again : BOOLEAN, slot : Slot \cup {None}]
      BY <3>1 DEF Op
    <3>3. op = Op("off", None, None, "none") \/ op = Op("idle", None, None, "none")
      BY <2>1 DEF Off, Idle
    <3> QED BY <3>1, <3>2, <3>3
  <2>2. CASE ~(op = Off \/ op = Idle)
    BY <2>2 DEF OpOk, OpType, Kinds, Steps
  <2> QED BY <2>1, <2>2
<1>5. post \in [slot : Slot \cup {None}, step : {"idle", "find", "write", "merged", "read"}]
  BY DEF PostOk, PostType, NoPost
<1>6. merge \in [kind : {"none", "swap", "simple", "move"}, lb : LogicBlk \cup {None},
                 dst : Blk \cup {None}, next : 0 .. PageCnt \cup {None},
                 step : {"copy", "copied0", "erase"}]
  BY DEF MergeOk, Merging, MergeType, NoMerge
<1> QED BY <1>2, <1>3, <1>4, <1>5, <1>6 DEF TypeOK
\* It gives every block one role.
LEMMA RolesHold == IInv => OneRole
<1> SUFFICES ASSUME IInv, Mounted PROVE OneRole
  BY DEF OneRole
<1> USE DEF IInv
<1>1. Roles(data, logs, free) /\ Marks(data, logs, free, Unnamed) /\ InUse = Used(logs)
  BY DEF MountedOk, InUse, Used
<1>2. /\ merge.dst \notin free
      /\ merge.kind \in {"simple", "move"} /\ merge.step # "erase" =>
           /\ \A lb \in LogicBlk : data[lb] # merge.dst
           /\ \A s \in InUse : logs[s].blk # merge.dst
  <2>1. CASE ~Merging
    <3>1. merge.dst = None /\ merge.kind = "none"
      BY <2>1 DEF Merging, NoMerge
    <3>2. None \notin free
      BY <1>1, Numbers DEF Roles
    <3> QED BY <3>1, <3>2
  <2>2. CASE Merging /\ merge.kind # "swap"
    BY <2>2 DEF MergeOk, TargetOk
  <2>3. CASE Merging /\ merge.kind = "swap"
    <3>1. EntrySlot \in InUse /\ merge.dst = logs[EntrySlot].blk
      BY <2>3, InMerge DEF MergeOk
    <3> QED BY <1>1, <2>3, <3>1 DEF Roles
  <2> QED BY <2>1, <2>2, <2>3
<1> QED BY <1>1, <1>2 DEF OneRole, Roles, Marks

(***************************************************************************)
(* What holds as long as there is a block more than the roles need.        *)
(***************************************************************************)
NoFailure == op.step # "failed"
\* A log block with this last used page has room for a page of any bank.
Room(last) ==
  IF Align THEN last = None \/ last \div Banks < LineCnt - 1 ELSE last < PageCnt - 1
\* A write whose log block was merged finds room when it tries again.
AgainOk ==
  op.again =>
    \/ Merging /\ post = NoPost /\ merge.lb = op.lb
    \/ \A s \in Slot : logs[s].lb = op.lb => Room(logs[s].last)
MoveFew ==
  merge.kind = "move" => Cardinality(Mapped(map)) < PageCnt \div (Banks + 1)
\* LogicalCtl is that of the block it names, but while that is written.
CtlFresh == op.kind \in {"idle", "read"} /\ ctl.lb # None => ctl = Accessed(ctl.lb)
ReadAt ==
  op.kind = "read" => /\ ctl.lb = op.lb
                      /\ post # NoPost => logs[post.slot].lb = op.lb
JInv == NoFailure /\ AgainOk /\ MoveFew /\ CtlFresh /\ ReadAt

\* The values of a function are no more than its arguments.
LEMMA FewValues ==
  ASSUME NEW S, IsFiniteSet(S), NEW f, f = [x \in S |-> f[x]]
  PROVE  IsFiniteSet({f[x] : x \in S}) /\ Cardinality({f[x] : x \in S}) <= Cardinality(S)
<1>1. f \in [S -> {f[x] : x \in S}]
  OBVIOUS
<1>2. f \in Surjection(S, {f[x] : x \in S})
  BY <1>1 DEF Surjection
<1>3. \A T : f \in Surjection(S, T) => IsFiniteSet(T) /\ Cardinality(T) <= Cardinality(S)
  BY FS_Surjection
<1> QED BY <1>2, <1>3, Zenon
\* With a block more than the roles need, one is free when no merge holds it.
LEMMA FreeLeft ==
  ASSUME BlkCnt > LogicCnt + SlotCnt, IInv, Mounted, ~Merging
  PROVE  free # {}
<1> SUFFICES ASSUME free = {} PROVE FALSE
  OBVIOUS
<1> DEFINE D == {data[lb] : lb \in LogicBlk}
           blk == [s \in Slot |-> logs[s].blk]
           L == {blk[s] : s \in Slot}
<1>1. Roles(data, logs, free) /\ Complete(data, logs, free, None)
  BY DEF IInv, MountedOk, Merging, NoMerge
<1>2. LogicCnt \in Nat /\ SlotCnt \in Nat /\ BlkCnt \in Nat
  BY Numbers, SlotAssumption
<1>3. IsFiniteSet(LogicBlk) /\ Cardinality(LogicBlk) = LogicCnt
  <2>1. 0 \in Int /\ LogicCnt - 1 \in Int
    BY <1>2
  <2> QED BY <1>2, <2>1, FS_Interval DEF LogicBlk
<1>4. IsFiniteSet(Slot) /\ Cardinality(Slot) = SlotCnt
  <2>1. 0 \in Int /\ SlotCnt - 1 \in Int
    BY <1>2
  <2> QED BY <1>2, <2>1, FS_Interval DEF Slot
<1>5. IsFiniteSet(Blk) /\ Cardinality(Blk) = BlkCnt
  <2>1. 0 \in Int /\ BlkCnt - 1 \in Int
    BY <1>2
  <2> QED BY <1>2, <2>1, FS_Interval DEF Blk
<1>6. IsFiniteSet(D) /\ Cardinality(D) <= LogicCnt
  BY <1>1, <1>3, FewValues DEF Roles
<1>7. IsFiniteSet(L) /\ Cardinality(L) <= SlotCnt
  BY <1>4, FewValues
<1>8. \A b \in Blk : b \in D \cup L
  <2> SUFFICES ASSUME NEW b \in Blk PROVE b \in D \cup L
    OBVIOUS
  <2>1. (\E lb \in LogicBlk : data[lb] = b) \/ (\E s \in Used(logs) : logs[s].blk = b)
    BY <1>1, Numbers DEF Complete
  <2> QED BY <2>1 DEF Used
<1> HIDE DEF D, L
<1>9. /\ IsFiniteSet(D \cup L) /\ Cardinality(D) \in Nat /\ Cardinality(L) \in Nat
      /\ Cardinality(D \cap L) \in Nat /\ Cardinality(D \cup L) \in Nat
      /\ Cardinality(D \cup L) = Cardinality(D) + Cardinality(L) - Cardinality(D \cap L)
  <2>1. IsFiniteSet(D \cap L)
    BY <1>6, FS_Subset
  <2> QED BY <1>6, <1>7, <2>1, FS_Union, FS_CardinalityType
<1>10. Cardinality(Blk) <= Cardinality(D \cup L)
  BY <1>8, <1>9, FS_Subset
<1> QED BY <1>2, <1>5, <1>6, <1>7, <1>9, <1>10

\* The page for a write is inside a log block that has room.
LEMMA RoomForWrite ==
  ASSUME IInv, op.kind = "write", op.step \in {"page", "place"}, ~Merging, post = NoPost,
         Room(logs[EntrySlot].last)
  PROVE  LogPageForWrite < PageCnt
<1> DEFINE last == logs[EntrySlot].last
<1>1. LastUsed = last /\ last \in Page \cup {None} /\ op.bank \in BankSet
  BY AtLog DEF WriteType
<1>2. /\ PageCnt \in Nat /\ PageCnt < 65536 /\ Banks \in Nat /\ Banks > 0
      /\ LineCnt \in Nat /\ LineCnt >= 3 /\ PageCnt = LineCnt * Banks /\ None = -1
  BY Numbers, Lines, PageNumberAssumption DEF None
<1> HIDE DEF last
<1>3. CASE ~Align
  <2>1. last + 1 \in 0 .. PageCnt - 1
    BY <1>1, <1>2, <1>3 DEF Room, Page, last
  <2>2. LogPageForWrite = U16(last + 1)
    BY <1>1, <1>3 DEF LogPageForWrite
  <2> QED BY <1>2, <2>1, <2>2 DEF U16
<1>4. CASE Align
  <2>1. op.bank \in 0 .. Banks - 1
    BY <1>1, <1>2, <1>4, Numbers DEF BankSet, BankOf
  <2>2. CASE last = None
    <3>1. LogPageForWrite = U16(op.bank)
      BY <1>1, <1>4, <2>2 DEF LogPageForWrite
    <3> QED BY <1>2, <2>1, <3>1, Numbers DEF U16
  <2>3. CASE last # None
    <3> DEFINE q == last \div Banks
               r == last % Banks
    <3>1. last \in Nat /\ q \in Nat /\ r \in 0 .. Banks - 1 /\ last = Banks * q + r
      BY <1>1, <1>2, <2>3, Numbers, DivMod
    <3>2. q + 2 <= LineCnt
      BY <1>2, <1>4, <2>3, <3>1 DEF Room, last
    <3> HIDE DEF q, r
    <3>3. Banks * (q + 2) <= Banks * LineCnt
      BY <1>2, <3>1, <3>2, MulLe
    <3>4. Banks * (q + 2) = Banks * q + Banks + Banks /\ Banks * LineCnt = PageCnt
      BY <1>2, <3>1
    <3> DEFINE line == Banks * q
               page == IF op.bank > r THEN line + op.bank ELSE line + Banks + op.bank
    <3>5. line \in Nat
      BY <1>2, <3>1
    <3>6. LogPageForWrite = U16(page)
      <4>1. LastUsed - (LastUsed % Banks) = line
        <5>1. last - r = line
          BY <1>2, <3>1, <3>5
        <5> QED BY <1>1, <5>1 DEF r
      <4> QED BY <1>1, <1>4, <2>3, <4>1 DEF LogPageForWrite, r
    <3>7. page \in 0 .. PageCnt - 1
      <4> HIDE DEF line
      <4>1. line + Banks + Banks <= PageCnt
        BY <3>3, <3>4 DEF line
      <4> QED BY <1>2, <2>1, <3>5, <4>1
    <3> HIDE DEF page
    <3> QED BY <1>2, <3>6, <3>7 DEF U16
  <2> QED BY <2>2, <2>3
<1> QED BY <1>3, <1>4

\* So nothing that fails for want of a block happens.
LEMMA NothingFails ==
  ASSUME BlkCnt > LogicCnt + SlotCnt, IInv, JInv
  PROVE  ~FailWrite /\ ~NoMergeForTable
<1>1. ASSUME ~Merging, Mounted PROVE \A mode, lb : CanMerge(mode, lb)
  BY <1>1, FreeLeft DEF CanMerge
<1>2. ~NoMergeForTable
  <2> SUFFICES ASSUME NoMergeForTable PROVE FALSE
    OBVIOUS
  <2>1. ~Merging /\ post # NoPost /\ ~CanMerge("special", logs[EntrySlot].lb)
    BY DEF NoMergeForTable, Switching
  <2>2. Mounted
    BY <2>1 DEF IInv, PostOk
  <2> QED BY <1>1, <2>1, <2>2
<1>3. ~FailWrite
  <2> SUFFICES ASSUME FailWrite PROVE FALSE
    OBVIOUS
  <2>1. ~Merging /\ post = NoPost /\ op.kind = "write"
    BY DEF FailWrite, Placing, Ready
  <2>2. Mounted /\ free # {} /\ \A mode, lb : CanMerge(mode, lb)
    BY <1>1, <2>1, FreeLeft DEF Mounted
  <2>3. Placing /\ LogPageForWrite >= PageCnt /\ op.again
    BY <2>2 DEF FailWrite
  <2>4. op.step \in {"page", "place"}
    BY <2>3 DEF Placing, Ready
  <2>5. EntrySlot \in Slot /\ logs[EntrySlot].lb = op.lb
    BY <2>1, <2>4, AtLog
  <2>6. Room(logs[EntrySlot].last)
    BY <2>1, <2>3, <2>5 DEF JInv, AgainOk
  <2>7. LogPageForWrite < PageCnt
    BY <2>1, <2>4, <2>6, RoomForWrite
  <2>8. LogPageForWrite \in Int
    <3>1. LastUsed \in Int /\ op.bank \in Int /\ Banks \in Nat /\ Banks > 0
      BY <2>1, <2>4, AtLog, Numbers DEF WriteType, BankSet, BankOf, None, Page
    <3> QED BY <3>1 DEF LogPageForWrite, U16
  <2> QED BY <2>3, <2>7, <2>8, Numbers
<1> QED BY <1>2, <1>3
\* A move that has few pages to pack leaves room behind them.
LEMMA RoomAfterMove ==
  ASSUME map \in Map, Cardinality(Mapped(map)) < PageCnt \div (Banks + 1),
         \A k \in BankSet : \E p \in Mapped(map) : BankOf(p) = k
  PROVE  Room(LastTarget)
<1> DEFINE n == Cardinality(Mapped(map))
           t == LastTarget
<1>1. /\ PageCnt \in Nat /\ Banks \in Nat /\ Banks > 0 /\ LineCnt \in Nat /\ LineCnt >= 3
      /\ PageCnt = LineCnt * Banks
  BY Numbers, Lines
<1>2. IsFiniteSet(Mapped(map)) /\ n \in Nat
  <2>1. 0 \in Int /\ PageCnt - 1 \in Int /\ Mapped(map) \in SUBSET (0 .. PageCnt - 1)
    BY <1>1 DEF Mapped, Page
  <2> QED BY <2>1, PartOfInterval
<1>3. n + 1 < LineCnt
  <2> DEFINE d == Banks + 1
             q == PageCnt \div d
  <2>1. q \in Nat /\ PageCnt = d * q + (PageCnt % d) /\ PageCnt % d \in Nat
    BY <1>1, DivMod
  <2> HIDE DEF q
  <2>2. d * q <= LineCnt * Banks
    BY <1>1, <2>1
  <2>3. ASSUME LineCnt <= q PROVE FALSE
    <3>1. d * LineCnt <= d * q
      BY <1>1, <2>1, <2>3, MulLe
    <3>2. d * LineCnt = LineCnt * Banks + LineCnt
      BY <1>1
    <3>3. d * q \in Nat /\ d * LineCnt \in Nat /\ LineCnt * Banks \in Nat
      BY <1>1, <2>1
    <3> QED BY <1>1, <2>2, <3>1, <3>2, <3>3
  <2> QED BY <1>1, <1>2, <2>1, <2>3 DEF q
<1>4. LineCnt <= PageCnt
  <2>1. LineCnt * 1 <= LineCnt * Banks
    BY <1>1, MulLe
  <2> QED BY <1>1, <2>1
<1>5. t \in Targets \cup {0} /\ Mapped(map) # {}
  BY LastTargetType
<1>6. n > 0
  BY <1>2, <1>5, FS_EmptySet
<1>7. \A p \in Mapped(map) : Rank(p) \in Nat /\ Rank(p) < n
  <2> SUFFICES ASSUME NEW p \in Mapped(map) PROVE Rank(p) \in Nat /\ Rank(p) < n
    OBVIOUS
  <2> DEFINE S == {q \in Mapped(map) : BankOf(q) = BankOf(p) /\ q < p}
  <2>1. p \in Nat /\ p \notin S /\ S \subseteq Mapped(map) /\ S # Mapped(map)
    BY Numbers DEF Mapped
  <2> HIDE DEF S
  <2>2. IsFiniteSet(S) /\ Cardinality(S) \in Nat /\ Cardinality(S) < n
    <3>1. IsFiniteSet(S) /\ Cardinality(S) <= n /\ (n = Cardinality(S) => Mapped(map) = S)
      BY <1>2, <2>1, FS_Subset
    <3>2. Cardinality(S) \in Nat
      BY <3>1, FS_CardinalityType
    <3> QED BY <1>2, <2>1, <3>1, <3>2
  <2> QED BY <2>2 DEF Rank, S
<1>8. CASE ~Align
  <2>1. t \in Int /\ t < n
    <3>1. \A p \in Mapped(map) : Target(p) = Rank(p)
      BY <1>7, <1>8 DEF Target, BankOf, Stride
    <3> QED BY <1>2, <1>5, <1>6, <1>7, <3>1 DEF Targets
  <2> HIDE DEF t, n
  <2>2. t < PageCnt - 1
    BY <1>1, <1>2, <1>3, <1>4, <2>1
  <2> QED BY <1>8, <2>2 DEF Room, t
<1>9. CASE Align
  <2> SUFFICES t \div Banks < LineCnt - 1
    BY <1>9 DEF Room
  <2>1. \A p \in Mapped(map) : Target(p) \div Banks = Rank(p)
    <3> SUFFICES ASSUME NEW p \in Mapped(map) PROVE Target(p) \div Banks = Rank(p)
      OBVIOUS
    <3>1. BankOf(p) \in 0 .. Banks - 1 /\ Target(p) = BankOf(p) + Banks * Rank(p)
      BY <1>1, <1>9, Numbers DEF BankOf, Target, Stride, Mapped
    <3> QED BY <1>1, <1>7, <3>1
  <2> QED BY <1>1, <1>2, <1>3, <1>5, <1>6, <1>7, <2>1 DEF Targets
<1> QED BY <1>8, <1>9
\* The log block a call has its table switched to is not the one of the entry
\* that makes way for it.
LEMMA NotItsOwn ==
  ASSUME IInv, post # NoPost, post.step # "find", op.kind # "exit",
         op.lb \in LogicBlk, logs[post.slot].lb = op.lb
  PROVE  /\ post.slot \in Slot /\ EntrySlot # post.slot
         /\ EntrySlot # None => logs[EntrySlot].lb # op.lb
<1>1. Mounted /\ post.slot \in Slot /\ post.slot \in InUse /\ pool[cur].slot # post.slot
  BY DEF IInv, PostOk, PoolOk, InUse
<1>2. Roles(data, logs, free) /\ op.lb # None
  BY <1>1, Numbers DEF IInv, MountedOk
<1>3. EntrySlot # None => EntrySlot \in Slot
  BY DEF IInv, PoolOk, EntrySlot, InUse
<1> QED BY <1>1, <1>2, <1>3, OneLog DEF EntrySlot
\* Nor is that the log block of a block being written.
LEMMA NotTheWritten ==
  ASSUME IInv, op.kind = "write", post # NoPost, post.step # "find", EntrySlot # None
  PROVE  logs[EntrySlot].lb # op.lb
<1> USE DEF IInv
<1>1. op \in WriteType /\ op.lb \in LogicBlk /\ op.step \in {"victim", "page", "place"}
  <2>1. op \in WriteType
    BY OpKinds DEF OpOk
  <2>2. op.step \notin {"log", "failed", "info"}
    BY DEF OpOk, WaitOk, LogOk, Quiet
  <2> QED BY <2>1, <2>2 DEF WriteType
<1>2. EntrySlot \in Slot
  BY DEF PoolOk, EntrySlot, InUse
<1>3. CASE op.step = "victim"
  BY <1>2, <1>3 DEF OpOk, VictimOk, HasLog
<1>4. CASE op.step # "victim"
  <2>1. logs[post.slot].lb = op.lb
    BY <1>1, <1>4 DEF OpOk, LogOk
  <2> QED BY <1>1, <2>1, NotItsOwn
<1> QED BY <1>3, <1>4
\* The blocks of a logical block as long as its tables stay.
LEMMA AccessedSame ==
  ASSUME Roles(data, logs, free), NEW lb \in LogicBlk, data'[lb] = data[lb],
         \A s \in Slot : logs'[s].lb = lb <=> logs[s].lb = lb,
         \A s \in Slot : logs[s].lb = lb => logs'[s].blk = logs[s].blk
  PROVE  Accessed(lb)' = Accessed(lb)
<1>1. lb # None
  BY Numbers
<1>2. CASE HasLog(lb)
  <2>1. PICK s \in Slot : logs[s].lb = lb
    BY <1>2 DEF HasLog
  <2>2. LogOf(lb) = logs[s] /\ \A t \in Slot : logs[t].lb = lb => t = s
    BY <1>1, <2>1, OneLog
  <2>3. HasLog(lb)' /\ SlotOf(lb)' = s
    BY <2>1, <2>2 DEF HasLog, SlotOf
  <2> QED BY <2>1, <2>2, <2>3 DEF Accessed, LogOf
<1>3. CASE ~HasLog(lb)
  <2>1. ~HasLog(lb)'
    BY <1>3 DEF HasLog
  <2> QED BY <1>3, <2>1 DEF Accessed, LogOf
<1> QED BY <1>2, <1>3
\* A step that keeps the tables keeps what is known of them.
LEMMA AccessKeeps ==
  ASSUME IInv, UNCHANGED <<data, logs>>, NEW lb \in LogicBlk, Mounted
  PROVE  Accessed(lb)' = Accessed(lb)
BY AccessedSame DEF IInv, MountedOk

\* Calls of the disk.
LEMMA CallsKeep ==
  ASSUME IInv, JInv, Call \/ EndRead
  PROVE  JInv'
<1> USE DEF IInv
<1>1. /\ UNCHANGED <<data, logs, free, pool, cur, merge>> /\ ~Merging /\ ~Merging' /\ post = NoPost
      /\ op'.step # "failed" /\ op'.again = FALSE /\ Mounted
      /\ op.kind \in {"idle", "read"}
  BY DEF Call, StartRead, StartWrite, StartExit, EndRead, Ready, Merging, Op, Idle, tables, maps,
         Mounted
<1>2. NoFailure' /\ AgainOk' /\ MoveFew'
  BY <1>1 DEF NoFailure, AgainOk, MoveFew, Merging, NoMerge
<1>3. ASSUME NEW lb \in LogicBlk, StartRead(lb) PROVE CtlFresh' /\ ReadAt'
  <2>1. /\ op'.kind = "read" /\ op'.lb = lb /\ op.kind = "idle"
        /\ ctl' = IF ctl.lb = lb THEN ctl ELSE Accessed(lb)
        /\ post' = NoPost \/ (HasLog(lb) /\ post'.slot = SlotOf(lb))
    BY <1>1, <1>3 DEF StartRead, Op, Ready, Switch
  <2>2. ctl' = Accessed(lb) /\ ctl'.lb = lb
    <3>1. Accessed(lb).lb = lb /\ lb # None
      BY Numbers DEF Accessed
    <3> QED BY <2>1, <3>1 DEF JInv, CtlFresh
  <2>3. Accessed(lb)' = Accessed(lb)
    BY <1>1, AccessKeeps
  <2>4. HasLog(lb) => logs[SlotOf(lb)].lb = lb
    BY <1>1, ItsLog DEF MountedOk
  <2> QED BY <1>1, <2>1, <2>2, <2>3, <2>4 DEF CtlFresh, ReadAt
<1>4. ASSUME EndRead PROVE CtlFresh' /\ ReadAt'
  <2>1. op'.kind = "idle" /\ op.kind = "read" /\ UNCHANGED ctl
    BY <1>4 DEF EndRead, Ready, Idle, Op
  <2>2. ctl.lb # None => ctl.lb \in LogicBlk
    <3>1. ctl.lb \in LogicBlk \cup {None}
      BY DEF CtlType
    <3> QED BY <3>1
  <2>3. ctl.lb # None => Accessed(ctl.lb)' = Accessed(ctl.lb)
    BY <1>1, <2>1, <2>2, AccessKeeps
  <2> QED BY <2>1, <2>3 DEF CtlFresh, ReadAt, JInv
<1>5. ASSUME op'.kind \notin {"idle", "read"} PROVE CtlFresh' /\ ReadAt'
  BY <1>5 DEF CtlFresh, ReadAt
<1>6. op'.kind \notin {"idle", "read"} \/ EndRead \/ \E lb \in LogicBlk : StartRead(lb)
  BY DEF Call, StartWrite, StartExit, Op
<1> QED BY <1>2, <1>3, <1>4, <1>5, <1>6 DEF JInv
\* Steps of a write that do not fail.
LEMMA WritesKeep ==
  ASSUME IInv, JInv, WriteStep, ~FailWrite
  PROVE  JInv'
<1> USE DEF IInv
<1>1. ~EndFailedWrite
  BY DEF EndFailedWrite, Ready, JInv, NoFailure
<1>2. /\ op.kind = "write" /\ ~Merging /\ post = NoPost /\ Mounted /\ UNCHANGED data
      /\ op \in WriteType /\ op.lb \in LogicBlk /\ op.lb # None /\ Roles(data, logs, free)
  <2>1. op.kind = "write" /\ ~Merging /\ post = NoPost /\ UNCHANGED data
    BY <1>1 DEF WriteStep, UseLog, PickVictim, MergeVictim, CreateLog, WriteDataInfo, WriteLogInfo,
                MergeFullLog, WritePage, Ready, Placing, tables
  <2>2. Mounted /\ op \in WriteType
    BY <2>1, OpKinds DEF OpOk, Mounted
  <2>3. op.lb \in LogicBlk
    BY <2>2 DEF WriteType
  <2> QED BY <2>1, <2>2, <2>3, Numbers DEF MountedOk
<1>3. ASSUME UseLog \/ (\E s \in Slot : PickVictim(s)) \/ WriteDataInfo \/ WriteLogInfo
      PROVE  JInv'
  <2>1. /\ UNCHANGED <<data, logs, pool, cur, ctl, merge>>
        /\ \E st \in {"page", "victim", "log", "place"} : op' = [op EXCEPT !.step = st]
    BY <1>3 DEF UseLog, PickVictim, WriteDataInfo, WriteLogInfo, GoTo, tables, maps
  <2>2. op'.again = op.again /\ op'.lb = op.lb /\ op'.kind = "write" /\ op'.step # "failed"
    BY <1>2, <2>1 DEF WriteType
  <2>3. ~Merging' /\ merge' = NoMerge
    BY <1>2, <2>1 DEF Merging
  <2>4. AgainOk'
    BY <1>2, <2>1, <2>2 DEF AgainOk, JInv
  <2> QED BY <2>2, <2>3, <2>4 DEF JInv, NoFailure, MoveFew, NoMerge, CtlFresh, ReadAt
<1>4. ASSUME MergeVictim \/ MergeFullLog PROVE JInv'
  <2>1. /\ UNCHANGED <<data, logs, pool, cur, ctl, post>>
        /\ op'.kind = "write" /\ op'.step = "log" /\ op'.lb = op.lb
        /\ \E mode, lb : StartMerge(mode, lb)
    BY <1>2, <1>4 DEF MergeVictim, MergeFullLog, maps, WriteType
  <2>2. MoveFew'
    <3>1. merge'.kind = "move" => Cardinality(Mapped(map)) < PageCnt \div (Banks + 1)
      BY <2>1 DEF StartMerge, MergeKind
    <3>2. Mapped(map)' = Mapped(map)
      BY <2>1 DEF map, Mapped
    <3> QED BY <3>1, <3>2 DEF MoveFew
  <2>3. AgainOk'
    <3>1. CASE MergeVictim
      <4>1. op'.again = op.again
        BY <3>1, <1>2 DEF MergeVictim, WriteType
      <4> QED BY <1>2, <2>1, <4>1 DEF AgainOk, JInv
    <3>2. CASE MergeFullLog
      <4>1. merge'.lb = op.lb /\ merge'.step = "copy" /\ merge'.kind # "none"
        BY <3>2 DEF MergeFullLog, StartMerge, MergeKind
      <4>2. Merging' /\ post' = NoPost
        BY <1>2, <2>1, <4>1 DEF Merging, NoMerge
      <4> QED BY <2>1, <4>1, <4>2 DEF AgainOk
    <3> QED BY <1>4, <3>1, <3>2
  <2> QED BY <2>1, <2>2, <2>3 DEF JInv, NoFailure, CtlFresh, ReadAt
<1>5. ASSUME NEW s \in Slot, NEW b \in Blk, CreateLog(s, b) PROVE JInv'
  <2>1. /\ logs' = [logs EXCEPT ![s] = [lb |-> op.lb, blk |-> b, last |-> None]]
        /\ op' = [op EXCEPT !.step = "info", !.slot = None] /\ UNCHANGED merge
    BY <1>5 DEF CreateLog
  <2>2. op'.again = op.again /\ op'.lb = op.lb /\ op'.kind = "write" /\ op'.step # "failed"
    BY <1>2, <2>1 DEF WriteType
  <2>3. Room(None)
    BY Numbers DEF Room, None
  <2>4. AgainOk'
    <3>1. logs \in [Slot -> LogType]
      BY <1>2 DEF Roles
    <3>2. \A t \in Slot : logs'[t].last = None \/ logs'[t] = logs[t]
      BY <2>1, <3>1
    <3> QED BY <1>2, <2>2, <2>3, <3>2 DEF AgainOk, JInv, Room
  <2> QED BY <1>2, <2>1, <2>2, <2>4 DEF JInv, NoFailure, MoveFew, Merging, NoMerge, CtlFresh, ReadAt
<1>6. ASSUME NEW lp \in Page, WritePage(lp) PROVE JInv'
  <2>1. /\ logs' = [logs EXCEPT ![SlotOf(op.lb)].last = LogPageForWrite] /\ op' = Idle
        /\ ctl' = Accessed(op.lb) /\ UNCHANGED merge
    BY <1>6 DEF WritePage
  <2>2. op'.kind = "idle" /\ op'.step # "failed" /\ op'.again = FALSE
    BY <2>1 DEF Idle, Op
  <2>3. logs \in [Slot -> LogType]
    BY <1>2 DEF Roles
  <2>4. \A s \in Slot : logs'[s].lb = logs[s].lb /\ logs'[s].blk = logs[s].blk
    BY <2>1, <2>3 DEF LogType
  <2>5. PICK lb \in LogicBlk : op.lb = lb
    BY <1>2
  <2>6. Accessed(lb)' = Accessed(lb)
    BY <1>2, <2>4, AccessedSame
  <2>7. ctl' = Accessed(lb) /\ ctl'.lb = lb
    BY <2>1, <2>5 DEF Accessed
  <2>8. CtlFresh' /\ ReadAt'
    BY <2>2, <2>6, <2>7 DEF CtlFresh, ReadAt
  <2> QED BY <1>2, <2>1, <2>2, <2>8 DEF JInv, NoFailure, AgainOk, MoveFew, Merging, NoMerge
<1> QED BY <1>1, <1>3, <1>4, <1>5, <1>6 DEF WriteStep
\* Only a write tries again.
LEMMA AgainWrites == ASSUME OpType, op.again PROVE op.kind = "write"
<1>1. Off.again = FALSE /\ Idle.again = FALSE
  BY DEF Off, Idle, Op
<1>2. ~(FALSE = TRUE) /\ op # Off /\ op # Idle
  BY <1>1
<1> QED BY <1>2 DEF OpType
\* Steps of a switch that do not fail.
LEMMA SwitchKeeps ==
  ASSUME IInv, IInv', JInv, SwitchStep, ~NoMergeForTable
  PROVE  JInv'
<1> USE DEF IInv
<1>1. ~Merging /\ post # NoPost /\ Mounted /\ op.kind \in {"read", "write", "exit"}
  <2>1. ~Merging /\ post # NoPost
    BY DEF SwitchStep, CacheHit, PickEntry, WriteTable, MergeForTable, TableMerged, ReadTable,
           EntryWritten, Switching
  <2> QED BY <2>1 DEF PostOk, OpOk, WaitOk, Quiet, Mounted
<1>2. UNCHANGED <<data, ctl, op>> /\ post'.slot \in {post.slot, None}
      /\ (post' # NoPost => post'.slot = post.slot)
  BY DEF SwitchStep, CacheHit, PickEntry, WriteTable, MergeForTable, TableMerged, ReadTable,
         EntryWritten, PostTo, NoPost, PostOk, PostType, tables, maps
<1>3. Roles(data, logs, free) /\ logs \in [Slot -> LogType]
  BY <1>1 DEF MountedOk, Roles
<1>4. CASE ~WriteTable
  <2>1. UNCHANGED logs
    BY <1>4 DEF SwitchStep, CacheHit, PickEntry, MergeForTable, TableMerged, ReadTable,
         EntryWritten, tables
  <2>2. AgainOk'
    BY <1>1, <1>2, <2>1 DEF AgainOk, JInv
  <2>3. CtlFresh' /\ ReadAt'
    <3>1. CASE op.kind # "read"
      BY <1>1, <1>2, <3>1 DEF CtlFresh, ReadAt
    <3>2. CASE op.kind = "read"
      <4>1. ctl.lb = op.lb /\ logs[post.slot].lb = op.lb /\ op.lb \in LogicBlk /\ ctl.lb # None
        BY <1>1, <3>2, OpKinds, Numbers DEF JInv, ReadAt, OpOk
      <4>2. PICK lb \in LogicBlk : ctl.lb = lb
        BY <4>1
      <4>3. Accessed(lb)' = Accessed(lb)
        BY <1>1, <1>2, <2>1, AccessKeeps
      <4>4. ctl = Accessed(lb)
        BY <3>2, <4>1, <4>2 DEF JInv, CtlFresh
      <4> QED BY <1>2, <2>1, <4>1, <4>2, <4>3, <4>4 DEF CtlFresh, ReadAt
    <3> QED BY <3>1, <3>2
  <2>4. MoveFew'
    <3>1. CASE MergeForTable
      <4>1. UNCHANGED <<pool, cur>> /\ \E mode, lb : StartMerge(mode, lb)
        BY <3>1 DEF MergeForTable, maps
      <4>2. merge'.kind = "move" => Cardinality(Mapped(map)) < PageCnt \div (Banks + 1)
        BY <4>1 DEF StartMerge, MergeKind
      <4>3. Mapped(map)' = Mapped(map)
        BY <4>1 DEF map, Mapped
      <4> QED BY <4>2, <4>3 DEF MoveFew
    <3>2. CASE ~MergeForTable
      <4>1. merge' = NoMerge
        BY <1>1, <1>4, <3>2 DEF SwitchStep, CacheHit, PickEntry, TableMerged, ReadTable,
           EntryWritten, Merging
      <4> QED BY <4>1 DEF MoveFew, NoMerge
    <3> QED BY <3>1, <3>2
  <2> QED BY <1>2, <2>2, <2>3, <2>4 DEF JInv, NoFailure
<1>5. CASE WriteTable
  <2> DEFINE e == EntrySlot
  <2>1. /\ logs' = [logs EXCEPT ![e].last = TablePage] /\ merge' = merge /\ post.step # "find"
        /\ e # None
    BY <1>5 DEF WriteTable
  <2>2. e \in Slot
    BY <2>1 DEF PoolOk, EntrySlot, InUse
  <2> HIDE DEF e
  <2>3. /\ \A s \in Slot : logs'[s].lb = logs[s].lb /\ logs'[s].blk = logs[s].blk
        /\ \A s \in Slot : s # e => logs'[s] = logs[s]
    BY <1>3, <2>1, <2>2 DEF LogType
  <2>4. MoveFew' /\ NoFailure'
    BY <1>1, <1>2, <2>1 DEF MoveFew, Merging, NoMerge, NoFailure, JInv
  <2>5. AgainOk'
    <3> SUFFICES ASSUME op.again PROVE \A s \in Slot : logs'[s].lb = op.lb => Room(logs'[s].last)
      BY <1>2 DEF AgainOk, Room
    <3>1. op.kind = "write"
      BY AgainWrites DEF OpOk
    <3>2. logs[e].lb # op.lb
      BY <1>1, <2>1, <3>1, NotTheWritten DEF e
    <3> QED BY <1>1, <2>3, <3>2 DEF AgainOk, JInv, Room
  <2>6. CtlFresh' /\ ReadAt'
    <3>1. CASE op.kind # "read"
      BY <1>1, <1>2, <3>1 DEF CtlFresh, ReadAt
    <3>2. CASE op.kind = "read"
      <4>1. ctl.lb = op.lb /\ logs[post.slot].lb = op.lb /\ op.lb \in LogicBlk /\ ctl.lb # None
        BY <1>1, <3>2, OpKinds, Numbers DEF JInv, ReadAt, OpOk
      <4>2. PICK lb \in LogicBlk : ctl.lb = lb
        BY <4>1
      <4>3. Accessed(lb)' = Accessed(lb)
        BY <1>2, <1>3, <2>3, <3>2, AccessedSame
      <4>4. ctl = Accessed(lb)
        BY <3>2, <4>1, <4>2 DEF JInv, CtlFresh
      <4>5. post.slot \in Slot
        BY <1>1, <2>1, <3>2, <4>1, NotItsOwn
      <4> QED BY <1>2, <2>3, <4>1, <4>2, <4>3, <4>4, <4>5 DEF CtlFresh, ReadAt
    <3> QED BY <3>1, <3>2
  <2> QED BY <2>4, <2>5, <2>6 DEF JInv
<1> QED BY <1>4, <1>5
\* Copying a page does not change which pages are mapped.
LEMMA MappedSame ==
  ASSUME IInv, Merging, NEW p \in Page, MoveCopy(p)
  PROVE  Mapped(map)' = Mapped(map)
<1>1. map \in Map /\ pool \in [Cached -> EntryType] /\ cur \in Cached /\ p \in Mapped(map)
  BY InMerge DEF IInv, PoolOk, MoveCopy, MoveOrder
<1>2. Target(p) # None
  BY <1>1, RankBound, Numbers
<1>3. pool' = [pool EXCEPT ![cur].map[p] = Target(p)] /\ cur' = cur
  BY DEF MoveCopy
<1>4. map' = [map EXCEPT ![p] = Target(p)]
  BY <1>1, <1>3 DEF map, EntryType
<1>5. \A q \in Page : map'[q] # None <=> map[q] # None
  BY <1>1, <1>2, <1>4 DEF Map, Mapped
<1> QED BY <1>5 DEF Mapped
\* Steps of a merge.
LEMMA MergesKeep ==
  ASSUME IInv, JInv, MergeStep, NoEmptyBank
  PROVE  JInv'
<1> USE DEF IInv
<1> DEFINE e == EntrySlot
           lm == merge.lb
<1>1. Merging /\ UNCHANGED <<op, post, ctl>>
  BY DEF MergeStep, SwapCopy, SwapEnd, SimpleCopy, SimpleEraseData, SimpleEnd, MoveCopy, MoveInfo,
         MoveEnd, Merging, NoMerge
<1>2. /\ Mounted /\ Roles(data, logs, free) /\ e \in Slot /\ lm \in LogicBlk /\ logs[e].lb = lm
      /\ SlotOf(lm) = e /\ map \in Map /\ op.kind \in {"read", "write", "exit"}
      /\ op.kind # "write" => post # NoPost
      /\ lm # None /\ logs \in [Slot -> LogType] /\ data \in [LogicBlk -> Blk]
  BY <1>1, InMerge, Numbers DEF Roles
<1>3. ASSUME MoveEnd PROVE Room(LastTarget)
  <2>1. merge.kind = "move" /\ \A k \in BankSet : \E p \in Mapped(map) : BankOf(p) = k
    BY <1>3 DEF MoveEnd, NoEmptyBank
  <2>2. Cardinality(Mapped(map)) < PageCnt \div (Banks + 1)
    BY <2>1 DEF JInv, MoveFew
  <2> QED BY <1>2, <2>1, <2>2, RoomAfterMove
<1>4. \/ Merging' /\ merge'.lb = lm /\ merge'.kind = merge.kind /\ UNCHANGED logs
      \/ /\ merge' = NoMerge /\ \E x : logs' = [logs EXCEPT ![e] = x] /\ x.lb \in {None, lm}
         /\ logs'[e].lb = None \/ Room(logs'[e].last)
  <2>1. CASE SwapEnd \/ SimpleEnd
    <3>1. logs' = [logs EXCEPT ![e] = NoLog] /\ merge' = NoMerge /\ NoLog.lb = None
      BY <1>2, <2>1 DEF SwapEnd, SimpleEnd, ClearLog, NoLog
    <3>2. logs'[e] = NoLog
      BY <1>2, <3>1
    <3> QED BY <3>1, <3>2
  <2>2. CASE MoveEnd
    <3> DEFINE new == [lb |-> lm, blk |-> merge.dst, last |-> LastTarget]
    <3>1. logs' = [logs EXCEPT ![e] = new] /\ merge' = NoMerge /\ new.lb = lm /\ new.last = LastTarget
      BY <1>2, <2>2 DEF MoveEnd
    <3>2. Room(new.last)
      BY <1>3, <2>2, <3>1
    <3> HIDE DEF new
    <3>3. logs'[e] = new
      BY <1>2, <3>1
    <3> QED BY <3>1, <3>2, <3>3 DEF Room
  <2>3. CASE ~(SwapEnd \/ SimpleEnd \/ MoveEnd)
    <3>1. merge \in [kind : {"swap", "simple", "move"}, lb : LogicBlk, dst : Blk,
                      next : 0 .. PageCnt, step : {"copy", "copied0", "erase"}]
      BY <1>1, InMerge DEF MergeType
    <3>2. /\ UNCHANGED logs
          /\ \/ merge' = [merge EXCEPT !.next = merge.next + 1]
             \/ \E st : merge' = [merge EXCEPT !.step = st]
      BY <2>3 DEF MergeStep, SwapCopy, SimpleCopy, SimpleEraseData, MoveCopy, MoveInfo, NextPage,
                  tables
    <3>3. merge'.lb = lm /\ merge'.kind = merge.kind /\ merge.kind # "none"
      BY <3>1, <3>2
    <3>4. NoMerge.kind = "none"
      BY DEF NoMerge
    <3>5. Merging'
      BY <3>3, <3>4 DEF Merging
    <3> QED BY <3>2, <3>3, <3>5
  <2> QED BY <2>1, <2>2, <2>3
<1> HIDE DEF e
<1>5. \A s \in Slot : s # e => logs'[s] = logs[s]
  BY <1>2, <1>4
<1>6. \A s \in Slot : logs[s].lb = lm => s = e
  BY <1>2, OneLog
<1>7. \A lb \in LogicBlk : lb # lm => data'[lb] = data[lb]
  BY <1>2 DEF MergeStep, SwapCopy, SwapEnd, SimpleCopy, SimpleEraseData, SimpleEnd, MoveCopy,
              MoveInfo, MoveEnd, tables
<1>8. NoFailure'
  BY <1>1 DEF NoFailure, JInv
<1>9. MoveFew'
  <2> SUFFICES ASSUME merge'.kind = "move"
               PROVE  (Cardinality(Mapped(map)) < PageCnt \div (Banks + 1))'
    BY DEF MoveFew
  <2>1. merge.kind = "move" /\ Merging'
    BY <1>4 DEF NoMerge
  <2>2. Cardinality(Mapped(map)) < PageCnt \div (Banks + 1)
    BY <2>1 DEF JInv, MoveFew
  <2>3. Mapped(map)' = Mapped(map)
    <3>1. CASE \E p \in Page : MoveCopy(p)
      BY <1>1, <3>1, MappedSame
    <3>2. CASE MoveInfo
      BY <3>2 DEF MoveInfo, maps, map, Mapped
    <3>3. MoveInfo \/ \E p \in Page : MoveCopy(p)
      BY <2>1 DEF MergeStep, SwapCopy, SwapEnd, SimpleCopy, SimpleEraseData, SimpleEnd, MoveEnd,
                  Merging
    <3> QED BY <3>1, <3>2, <3>3
  <2> QED BY <2>2, <2>3
<1>10. AgainOk'
  <2> SUFFICES ASSUME op.again, ~(Merging' /\ post = NoPost /\ merge'.lb = op.lb),
                      NEW s \in Slot, logs'[s].lb = op.lb
               PROVE  Room(logs'[s].last)
    BY <1>1 DEF AgainOk, Room
  <2>1. op.lb # None
    <3>1. op.kind = "write"
      BY AgainWrites DEF OpOk
    <3> QED BY <3>1, OpKinds, Numbers DEF OpOk, WriteType
  <2>2. CASE s = e
    <3>1. CASE Merging' /\ merge'.lb = lm /\ UNCHANGED logs
      <4>1. op.lb = lm /\ ~(post = NoPost)
        BY <1>2, <2>2, <3>1
      <4>2. logs[s].lb = op.lb /\ \A t \in Slot : logs[t].lb = op.lb => Room(logs[t].last)
        BY <2>2, <3>1, <4>1 DEF JInv, AgainOk
      <4> QED BY <3>1, <4>2 DEF Room
    <3>2. CASE logs'[e].lb = None \/ Room(logs'[e].last)
      BY <2>1, <2>2, <3>2
    <3> QED BY <1>4, <3>1, <3>2
  <2>3. CASE s # e
    <3>1. logs'[s] = logs[s] /\ op.lb # lm
      BY <1>5, <1>6, <2>3
    <3>2. \A t \in Slot : logs[t].lb = op.lb => Room(logs[t].last)
      BY <3>1 DEF JInv, AgainOk
    <3> QED BY <3>1, <3>2 DEF Room
  <2> QED BY <2>2, <2>3
<1>11. CtlFresh' /\ ReadAt'
  <2>1. CASE op.kind # "read"
    BY <1>1, <1>2, <2>1 DEF CtlFresh, ReadAt
  <2>2. CASE op.kind = "read"
    <3>1. /\ post # NoPost /\ ctl.lb = op.lb /\ logs[post.slot].lb = op.lb /\ op.lb \in LogicBlk
          /\ ctl.lb # None
      BY <1>2, <2>2, OpKinds, Numbers DEF JInv, ReadAt, OpOk
    <3>2. post.slot \in Slot /\ e # post.slot /\ op.lb # lm
      <4>1. post.step # "find"
        BY <1>1, <3>1 DEF PostOk
      <4> QED BY <1>2, <2>2, <3>1, <4>1, NotItsOwn, Numbers DEF e
    <3>3. logs'[post.slot] = logs[post.slot]
      BY <1>5, <3>2
    <3>4. PICK lb \in LogicBlk : ctl.lb = lb /\ op.lb = lb
      BY <3>1
    <3>5. Accessed(lb)' = Accessed(lb)
      <4>1. logs'[e].lb # lb /\ logs[e].lb # lb
        BY <1>2, <1>4, <3>1, <3>2, <3>4
      <4>2. \A s \in Slot : (logs'[s].lb = lb <=> logs[s].lb = lb)
                            /\ (logs[s].lb = lb => logs'[s].blk = logs[s].blk)
        BY <1>5, <4>1
      <4>3. data'[lb] = data[lb]
        BY <1>7, <3>2, <3>4
      <4> QED BY <1>2, <4>2, <4>3, AccessedSame
    <3>6. ctl = Accessed(lb)
      BY <2>2, <3>1, <3>4 DEF JInv, CtlFresh
    <3> QED BY <1>1, <3>1, <3>3, <3>4, <3>5, <3>6 DEF CtlFresh, ReadAt
  <2> QED BY <2>1, <2>2
<1> QED BY <1>8, <1>9, <1>10, <1>11 DEF JInv
\* Exits, losses of power and mounts leave LogicalCtl empty.
LEMMA RestKeeps ==
  ASSUME StackBlk = {None}, IInv, JInv,
         ExitStep \/ PowerLoss \/ LoadTables \/ StartScan \/ ScanStep
  PROVE  JInv'
<1> USE DEF IInv
<1>1. ASSUME NEW i \in Cached, FlushEntry(i) PROVE JInv'
  <2>1. UNCHANGED <<op, merge>> /\ op.kind = "exit" /\ op.step = "flush" /\ ~Merging
    BY <1>1 DEF FlushEntry, Ready
  <2>2. ~op.again
    BY <2>1, AgainWrites DEF OpOk
  <2> QED BY <2>1, <2>2 DEF JInv, NoFailure, AgainOk, MoveFew, Merging, NoMerge, CtlFresh, ReadAt
<1>2. ASSUME SaveTables \/ EndFailedExit \/ PowerLoss PROVE JInv'
  <2>1. op' = Off /\ merge' = NoMerge
    BY <1>2 DEF SaveTables, EndFailedExit, PowerLoss, Forget
  <2> QED BY <2>1 DEF Off, Op, JInv, NoFailure, AgainOk, MoveFew, NoMerge, CtlFresh, ReadAt
<1>3. ASSUME LoadTables \/ StartScan \/ ScanStep PROVE JInv'
  <2>1. op.kind \in {"off", "scan"} /\ UNCHANGED <<ctl, merge>>
    <3>1. CASE LoadTables \/ StartScan
      BY <3>1 DEF LoadTables, StartScan, Off, Op
    <3>2. CASE EndScan
      BY <3>2 DEF EndScan
    <3>3. CASE ScanStep /\ ~EndScan
      BY <3>3 DEF ScanStep, ScanBlock, EraseMore
    <3> QED BY <1>3, <3>1, <3>2, <3>3
  <2>2. ctl' = NoCtl /\ merge' = NoMerge
    BY <2>1 DEF RestOk
  <2>3. op'.step # "failed" /\ op'.again = FALSE /\ op'.kind \in {"idle", "scan"}
    <3>1. CASE LoadTables \/ StartScan \/ EndScan
      BY <3>1 DEF LoadTables, StartScan, EndScan, Mount, Idle, Op
    <3>2. CASE ~(LoadTables \/ StartScan \/ EndScan)
      <4>1. op.kind = "scan" /\ (UNCHANGED op \/ \E st \in {"fill", "erase"} : GoTo(st))
        BY <1>3, <3>2 DEF ScanStep, ScanBlock, EraseMore
      <4>2. op \in [kind : {"scan"}, lb : {None}, bank : {None}, step : {"fill", "erase"},
                    again : {FALSE}, slot : {None}]
        <5>1. OpType /\ op # Off /\ op # Idle
          BY <4>1 DEF OpOk, Off, Idle, Op
        <5>2. op \notin WriteType
          BY <4>1 DEF WriteType
        <5> QED BY <4>1, <5>1, <5>2 DEF OpType, WriteType
      <4> QED BY <4>1, <4>2 DEF GoTo
    <3> QED BY <3>1, <3>2
  <2>4. ctl'.lb = None /\ merge'.kind = "none"
    BY <2>2 DEF NoCtl, NoMerge
  <2> QED BY <2>3, <2>4 DEF JInv, NoFailure, AgainOk, MoveFew, CtlFresh, ReadAt
<1> QED BY <1>1, <1>2, <1>3 DEF ExitStep
\* Every step.
LEMMA CallsGoWell ==
  ASSUME StackBlk = {None}, BlkCnt > LogicCnt + SlotCnt,
         IInv, IInv', JInv, NoEmptyBank, [Next]_allVars
  PROVE  JInv'
<1>1. ~FailWrite /\ ~NoMergeForTable
  BY NothingFails
<1>2. CASE UNCHANGED allVars
  BY <1>2 DEF allVars, vars, JInv, NoFailure, AgainOk, Merging, Room, MoveFew, Mapped, map,
              CtlFresh, Accessed, LogOf, HasLog, SlotOf, ReadAt
<1>3. CASE Call \/ EndRead
  BY <1>3, CallsKeep
<1>4. CASE WriteStep
  BY <1>1, <1>4, WritesKeep
<1>5. CASE SwitchStep
  BY <1>1, <1>5, SwitchKeeps
<1>6. CASE MergeStep
  BY <1>6, MergesKeep
<1> QED BY <1>2, <1>3, <1>4, <1>5, <1>6, RestKeeps DEF Next, Work
\* Both invariants together.
LEMMA CallsHold ==
  ASSUME StackBlk = {None}, BlkCnt > LogicCnt + SlotCnt
  PROVE  Spec /\ []NoEmptyBank => []JInv
<1>1. Init => JInv
  BY DEF Init, JInv, NoFailure, AgainOk, MoveFew, NoMerge, CtlFresh, ReadAt, Off, Op
<1>2. IInv /\ IInv' /\ JInv /\ NoEmptyBank /\ [Next]_allVars => JInv'
  BY CallsGoWell
<1> QED BY <1>1, <1>2, InvHolds, PTL DEF Spec
-----------------------------------------------------------------------------
\* Every variable keeps its type.
THEOREM TypesKept ==
  ASSUME StackBlk = {None} PROVE Spec /\ []NoEmptyBank => []TypeOK
<1>1. IInv => TypeOK
  BY TypesHold
<1> QED BY <1>1, InvHolds, PTL
\* No block has two roles, and free blocks are erased (OneRole), whatever
\* calls, merges, exits, losses of power and mounts come.
THEOREM RolesKept ==
  ASSUME StackBlk = {None} PROVE Spec /\ []NoEmptyBank => []OneRole
<1>1. IInv => OneRole
  BY RolesHold
<1> QED BY <1>1, InvHolds, PTL
\* Tables that count as clean are the current ones (CleanTablesCurrent).
THEOREM CleanTablesKept ==
  ASSUME StackBlk = {None} PROVE Spec /\ []NoEmptyBank => []CleanTablesCurrent
<1>1. IInv => CleanTablesCurrent
  BY DEF IInv, CleanOk
<1> QED BY <1>1, InvHolds, PTL
\* No read, write or exit fails as long as there is a block more than data and
\* log blocks need (CallsSucceed): every merge finds its free block, and a
\* write whose full log block was merged finds a page the second time.
THEOREM CallsNeverFail ==
  ASSUME StackBlk = {None}, BlkCnt > LogicCnt + SlotCnt
  PROVE  Spec /\ []NoEmptyBank => []CallsSucceed
<1>1. JInv => CallsSucceed
  BY DEF JInv, NoFailure, CallsSucceed
<1> QED BY <1>1, CallsHold, PTL
\* Under the same condition LogicalCtl names the blocks of the logical block it
\* remembers (ControlFresh), whatever merges moved blocks between two calls.
THEOREM ControlKept ==
  ASSUME StackBlk = {None}, BlkCnt > LogicCnt + SlotCnt
  PROVE  Spec /\ []NoEmptyBank => []ControlFresh
<1>1. JInv => ControlFresh
  BY DEF JInv, CtlFresh, ControlFresh, Idle, Op
<1> QED BY <1>1, CallsHold, PTL
=============================================================================
