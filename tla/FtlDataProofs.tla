---------------------------- MODULE FtlDataProofs ----------------------------
(***************************************************************************)
(* Proofs about what the pages hold in Ftl: no page is programmed twice,   *)
(* the last used page of a log block is known, page map tables are true,   *)
(* and what was written last is found and read.                            *)
(***************************************************************************)
EXTENDS FtlProofs

(***************************************************************************)
(* The inductive invariant.                                                *)
(***************************************************************************)
LineUsed(b, l) == UsedOfLine(b, l) # {}
\* q is the last used page of block b, or 0 as long as none is used.
HasLast(b, q) ==
  /\ \A p \in Page : p > q => ~IsUsed(flash[b][p])
  /\ q > 0 => IsUsed(flash[b][q])
\* A page with data is its block's and stays in its bank, a page not used is
\* erased, the lines that are used have no gap (but perhaps the first, whose
\* page 0 may have an age that is the free mark), and a page map table at the
\* end of the block is true.
Shape(b) ==
  /\ \A q \in Page : flash[b][q].lpn # None =>
       /\ flash[b][q].info = flash[b][0].info
       /\ BankOf(flash[b][q].lpn) = BankOf(q)
  /\ \A q \in Page : q > 0 /\ ~IsUsed(flash[b][q]) => flash[b][q] = Erased
  /\ \A l \in 1 .. LineCnt - 2 : LineUsed(b, l + 1) => LineUsed(b, l)
  /\ \A q \in Page :
       IsTable(flash[b][q]) /\ (\A p \in Page : p > q => ~IsUsed(flash[b][p]))
         => flash[b][q].main.map = Rebuilt(b)

\* The data last written to page p of logical block lb.
Good(rec, lb, p) == rec.info = lb /\ rec.lpn = p /\ rec.main = Latest
FoundAt(d, l, p) ==
  IF l = None \/ Rebuilt(l)[p] = None THEN flash[d][p] ELSE flash[l][Rebuilt(l)[p]]
\* The blocks of a logical block: its data block, its log block, and the
\* target of a merge, which has an age of its own, or that of the log block and
\* not as many pages.
Of(lb) == {b \in Blk : flash[b][0].info = lb}
Target2(d, x) == AgeOf(x) = Older(AgeOf(d), 2)
TargetMove(l, x) ==
  /\ l # None /\ AgeOf(x) = AgeOf(l)
  /\ LineUsed(l, LineCnt - 1) /\ ~LineUsed(x, LineCnt - 1)
Fam(lb, d, l, x) ==
  /\ Of(lb) = {d, l, x} \ {None}
  /\ d # None /\ d # l /\ d # x /\ (l = x => l = None)
  /\ l # None => AgeOf(l) = Older(AgeOf(d), 1)
  /\ x # None => Target2(d, x) \/ TargetMove(l, x)
  /\ \A p \in Page : Good(FoundAt(d, l, p), lb, p)
SomeFam(lb) == \E d, l, x \in Blk \cup {None} : Fam(lb, d, l, x)

\* A block counts once its page 0 is written.
Written0(b) == IF flash[b][0].info = None THEN None ELSE b
LogIn(l, lb) ==
  IF \E s \in Slot : l[s].lb = lb
  THEN Written0(l[CHOOSE s \in Slot : l[s].lb = lb].blk) ELSE None
InMerges(lb) == Merging /\ merge.kind # "swap" /\ merge.lb = lb
Own(d, l, lb) == Fam(lb, d[lb], LogIn(l, lb), None)

\* What a slot says of its log block.
LastOk(l, s) ==
  IF l[s].last = None THEN flash[l[s].blk] = ErasedBlk
  ELSE HasLast(l[s].blk, l[s].last)
Placed == op.step = "place"
LastsOk ==
  \A s \in InUse :
    \/ Merging /\ merge.kind = "swap" /\ s = EntrySlot
    \/ Placed /\ s = EntrySlot
    \/ LastOk(logs, s)
\* While page 0 of a log block has its logic info only.
PlaceOk ==
  Placed => /\ NeedsLogInfo
            /\ flash[LogOf(op.lb).blk][0].lpn = None
            /\ \A p \in Page : p > 0 => flash[LogOf(op.lb).blk][p] = Erased
MapTrue(i) == pool[i].map = Rebuilt(logs[pool[i].slot].blk)
MapsOk ==
  \A i \in Cached : pool[i].slot # None /\ ~(Merging /\ i = cur) => MapTrue(i)
Dense(b, lb, n) == \A p \in Page : p < n => Good(flash[b][p], lb, p)
EmptyFrom(b, n) == \A p \in Page : p >= n => flash[b][p] = Erased
Place(p) == Cardinality({q \in Mapped(map) : Before(q, p)})
Done(p) == Place(p) < merge.next
MoveData(log, dst, lb) ==
  /\ LineUsed(log, LineCnt - 1)
  /\ merge.step = "copied0" => 0 \notin Targets
  /\ Written0(dst) # None => AgeOf(dst) = AgeOf(log)
  /\ Mapped(map) = Mapped(Rebuilt(log))
  /\ \A p \in Mapped(map) :
       IF Done(p) THEN map[p] = Target(p) /\ Good(flash[dst][Target(p)], lb, p)
       ELSE map[p] = Rebuilt(log)[p]
  /\ \A t \in Page :
       (\A p \in Mapped(map) : Done(p) => Target(p) # t) =>
         IF t = 0 THEN flash[dst][0].lpn = None ELSE flash[dst][t] = Erased
MergeData ==
  Merging =>
   LET log == logs[EntrySlot].blk
       lb == merge.lb IN
   /\ merge.kind # "move" =>
        Dense(merge.dst, lb, merge.next) /\ EmptyFrom(merge.dst, merge.next)
   /\ merge.kind = "simple" /\ merge.step # "erase" =>
        map = Rebuilt(log) /\ (Written0(merge.dst) # None => Target2(data[lb], merge.dst))
   /\ merge.kind = "move" => MoveData(log, merge.dst, lb)
   /\ merge.kind # "swap" /\ merge.step # "erase" =>
        Fam(lb, data[lb], Written0(log), Written0(merge.dst))
   /\ merge.step = "erase" =>
        IF Written0(log) = None THEN Fam(lb, merge.dst, None, None)
        ELSE Fam(lb, log, merge.dst, None)

\* A read that has come back has the table of its log block at hand.
ReadOk ==
  op.kind = "read" /\ op.step # "failed" /\ Quiet /\ HasLog(op.lb) =>
    EntrySlot # None /\ logs[EntrySlot].lb = op.lb

\* No more logical blocks have two blocks than there are slots.
SlotsEnough ==
  \E S \in SUBSET LogicBlk :
    /\ Cardinality(S) <= SlotCnt
    /\ \A lb \in LogicBlk : lb \in S \/ \E b \in Blk : Of(lb) = {b}
\* What the scan has found of a logical block.
LogFound(lb) == IF HasLog(lb) THEN logs[SlotOf(lb)].blk ELSE None
Pair(lb, d, l, x) ==
  LET D == data[lb]
      L == LogFound(lb) IN
  \/ D = None /\ L = None
  \/ D \in {d, l, x} /\ L = None
  \/ l # None /\ D = d /\ L = l
  \/ x # None /\ Target2(d, x) /\ l # None /\ D = l /\ L = x
  \/ x # None /\ TargetMove(l, x) /\ D = d /\ L = x
ScanFam(lb) ==
  \E d, l, x \in Blk \cup {None} : Fam(lb, d, l, x) /\ Pair(lb, d, l, x)

\* The tables of the table block lead to the data, if they are clean.
SavedTrue ==
  saved.clean =>
    /\ \A lb \in LogicBlk : Own(saved.data, saved.logs, lb)
    /\ \A s \in Used(saved.logs) : LastOk(saved.logs, s)

DMounted ==
  Mounted => /\ \A lb \in LogicBlk : InMerges(lb) \/ Own(data, logs, lb)
             /\ LastsOk /\ PlaceOk /\ MapsOk /\ MergeData /\ ReadOk
DRest ==
  ~Mounted => /\ SlotsEnough
              /\ \A lb \in LogicBlk : SomeFam(lb)
              /\ op.kind = "scan" => \A lb \in LogicBlk : ScanFam(lb)
              /\ SavedTrue
DInv == (\A b \in Blk : Shape(b)) /\ DMounted /\ DRest

(***************************************************************************)
(* Pages and lines.                                                        *)
(***************************************************************************)
\* A page is a page of its line.
LEMMA LineOfPage ==
  ASSUME NEW q \in Page
  PROVE  /\ q \div Banks \in 0 .. LineCnt - 1 /\ q % Banks \in 0 .. Banks - 1
         /\ q = (q \div Banks) * Banks + (q % Banks)
<1> DEFINE l == q \div Banks
           k == q % Banks
<1>1. q \in Nat /\ q < PageCnt /\ Banks \in Nat /\ Banks > 0
  BY Numbers DEF Page
<1>2. l \in Nat /\ k \in 0 .. Banks - 1 /\ q = Banks * l + k
  BY <1>1, DivMod
<1>3. LineCnt \in Nat /\ PageCnt = LineCnt * Banks
  BY Lines
<1> HIDE DEF l, k
<1>4. Banks * l = l * Banks /\ l * Banks \in Nat
  BY <1>1, <1>2
<1>5. ~(LineCnt <= l)
  <2> SUFFICES ASSUME LineCnt <= l PROVE FALSE
    OBVIOUS
  <2>1. Banks * LineCnt <= Banks * l
    BY <1>1, <1>2, <1>3, MulLe
  <2>2. Banks * LineCnt = LineCnt * Banks /\ Banks * LineCnt \in Nat /\ Banks * l \in Nat
    BY <1>1, <1>2, <1>3
  <2> QED BY <1>1, <1>2, <1>3, <2>1, <2>2
<1> QED BY <1>2, <1>3, <1>4, <1>5 DEF l, k
\* The line of page k of a line is that line.
LEMMA PageInLine ==
  ASSUME NEW l \in Nat, NEW k \in 0 .. Banks - 1
  PROVE  (l * Banks + k) \div Banks = l /\ (l * Banks + k) % Banks = k
<1> DEFINE q == l * Banks + k
           m == q \div Banks
           r == q % Banks
<1>1. Banks \in Nat /\ Banks > 0 /\ k \in Nat /\ k < Banks
  BY Numbers
<1>2. l * Banks \in Nat /\ q \in Nat /\ l * Banks = Banks * l
  BY <1>1
<1> HIDE DEF q
<1>3. m \in Nat /\ r \in 0 .. Banks - 1 /\ q = Banks * m + r
  BY <1>1, <1>2, DivMod
<1> HIDE DEF m, r
<1>4. q = Banks * l + k
  BY <1>2 DEF q
<1>5. ~(l + 1 <= m)
  <2> SUFFICES ASSUME l + 1 <= m PROVE FALSE
    OBVIOUS
  <2>1. Banks * (l + 1) <= Banks * m
    BY <1>1, <1>3, MulLe
  <2>2. Banks * (l + 1) = Banks * l + Banks /\ Banks * l \in Nat /\ Banks * m \in Nat
    BY <1>1, <1>3
  <2> QED BY <1>1, <1>3, <1>4, <2>1, <2>2
<1>6. ~(m + 1 <= l)
  <2> SUFFICES ASSUME m + 1 <= l PROVE FALSE
    OBVIOUS
  <2>1. Banks * (m + 1) <= Banks * l
    BY <1>1, <1>3, MulLe
  <2>2. Banks * (m + 1) = Banks * m + Banks /\ Banks * l \in Nat /\ Banks * m \in Nat
    BY <1>1, <1>3
  <2> QED BY <1>1, <1>3, <1>4, <2>1, <2>2
<1>7. m = l
  BY <1>3, <1>5, <1>6
<1>8. r = k
  <2>1. Banks * l \in Nat
    BY <1>1
  <2> QED BY <1>1, <1>3, <1>4, <1>7, <2>1
<1> QED BY <1>7, <1>8 DEF m, r, q
\* Pages of later lines are later pages.
LEMMA LinesInOrder ==
  ASSUME NEW p \in Page, NEW q \in Page
  PROVE  /\ p \div Banks < q \div Banks => p < q
         /\ p <= q => p \div Banks <= q \div Banks
<1> DEFINE a == p \div Banks
           b == q \div Banks
           x == p % Banks
           y == q % Banks
<1>1. Banks \in Nat /\ Banks > 0
  BY Numbers
<1>2. a \in Nat /\ x \in 0 .. Banks - 1 /\ p = a * Banks + x
  BY LineOfPage, Lines
<1>3. b \in Nat /\ y \in 0 .. Banks - 1 /\ q = b * Banks + y
  BY LineOfPage, Lines
<1>4. p \in Nat /\ q \in Nat
  BY Numbers
<1> HIDE DEF a, b, x, y
<1>5. a + 1 <= b => p < q
  <2> SUFFICES ASSUME a + 1 <= b PROVE p < q
    OBVIOUS
  <2>1. Banks * (a + 1) <= Banks * b
    BY <1>1, <1>2, <1>3, MulLe
  <2>2. Banks * (a + 1) = Banks * a + Banks /\ Banks * a = a * Banks /\ Banks * b = b * Banks
        /\ a * Banks \in Nat /\ b * Banks \in Nat
    BY <1>1, <1>2, <1>3
  <2> QED BY <1>1, <1>2, <1>3, <2>1, <2>2
<1>6. b + 1 <= a => q < p
  <2> SUFFICES ASSUME b + 1 <= a PROVE q < p
    OBVIOUS
  <2>1. Banks * (b + 1) <= Banks * a
    BY <1>1, <1>2, <1>3, MulLe
  <2>2. Banks * (b + 1) = Banks * b + Banks /\ Banks * a = a * Banks /\ Banks * b = b * Banks
        /\ a * Banks \in Nat /\ b * Banks \in Nat
    BY <1>1, <1>2, <1>3
  <2> QED BY <1>1, <1>2, <1>3, <2>1, <2>2
<1> QED BY <1>2, <1>3, <1>4, <1>5, <1>6 DEF a, b
\* A line is used if one of its pages is.
LEMMA UsedLine ==
  ASSUME NEW b, NEW l \in 0 .. LineCnt - 1
  PROVE  LineUsed(b, l) <=> \E q \in Page : q \div Banks = l /\ IsUsed(flash[b][q])
<1>1. ASSUME LineUsed(b, l)
      PROVE  \E q \in Page : q \div Banks = l /\ IsUsed(flash[b][q])
  <2>1. PICK k \in 0 .. Banks - 1 : IsUsed(flash[b][l * Banks + k])
    BY <1>1 DEF LineUsed, UsedOfLine
  <2>2. l * Banks + k \in Page /\ (l * Banks + k) \div Banks = l
    BY PageOfLine, PageInLine, Lines
  <2> QED BY <2>1, <2>2
<1>2. ASSUME NEW q \in Page, q \div Banks = l, IsUsed(flash[b][q])
      PROVE  LineUsed(b, l)
  <2>1. q % Banks \in 0 .. Banks - 1 /\ q = l * Banks + (q % Banks)
    BY <1>2, LineOfPage
  <2> DEFINE k == q % Banks
  <2>2. k \in 0 .. Banks - 1 /\ IsUsed(flash[b][l * Banks + k])
    BY <1>2, <2>1
  <2> HIDE DEF k
  <2>3. k \in UsedOfLine(b, l)
    BY <2>2 DEF UsedOfLine
  <2> QED BY <2>3 DEF LineUsed
<1> QED BY <1>1, <1>2

(***************************************************************************)
(* The search finds the last used page, when pages keep their bank.        *)
(***************************************************************************)
\* As long as the search has not gone right, where its group can end: line 1
\* is looked at before line 0.
Ends == {1023, 511, 255, 127, 63, 31, 15, 7, 3,
         510, 254, 126, 62, 30, 14, 6, 2, 0, -1}
\* The ends of the search interval stay in Ends when it is halved.
LEMMA EndsHalve ==
  /\ LineCnt - 1 \in Ends
  /\ \A h \in Ends : h >= 0 => (0 + h) \div 2 - 1 \in Ends
  /\ \A h \in Ends : h >= 0 /\ (0 + h) \div 2 = 0 => h = 0
BY LineAssumption DEF Ends
\* Behind a line that is not used, but the first, no line is.
LEMMA LinesEnd ==
  ASSUME NEW b, NEW l \in 1 .. LineCnt - 1, ~LineUsed(b, l),
         \A m \in 1 .. LineCnt - 2 : LineUsed(b, m + 1) => LineUsed(b, m)
  PROVE  \A m \in 1 .. LineCnt - 1 : l <= m => ~LineUsed(b, m)
<1> DEFINE n == LineCnt - 1 - l
           S == {k \in 0 .. n : ~LineUsed(b, l + k)}
<1>1. n \in Nat /\ LineCnt \in Nat /\ l \in Nat
  BY Lines
<1>2. 0 \in S
  BY <1>1
<1>3. ASSUME NEW k \in 0 .. n - 1, k \in S
      PROVE  k + 1 \in S
  <2>1. l + k \in 1 .. LineCnt - 2 /\ l + (k + 1) = (l + k) + 1 /\ k + 1 \in 0 .. n
    BY <1>1
  <2> DEFINE m == l + k
  <2>2. m \in 1 .. LineCnt - 2 /\ ~LineUsed(b, m)
    BY <1>3, <2>1
  <2> HIDE DEF m
  <2>3. ~LineUsed(b, m + 1)
    BY <2>2
  <2> QED BY <2>1, <2>3 DEF m
<1> HIDE DEF S
<1>4. \A k \in 0 .. n : k \in S
  BY <1>1, <1>2, <1>3, UpTo
<1> SUFFICES ASSUME NEW m \in 1 .. LineCnt - 1, l <= m PROVE ~LineUsed(b, m)
  OBVIOUS
<1>5. m - l \in 0 .. n /\ l + (m - l) = m
  BY <1>1
<1>6. m - l \in S
  BY <1>4, <1>5
<1> QED BY <1>5, <1>6 DEF S
\* What the search knows when k turns are over.
Searched(b, r, k) ==
  /\ r.lo \in 0 .. LineCnt /\ r.hi \in -1 .. LineCnt - 1 /\ r.lo <= r.hi + 1
  /\ \A l \in 0 .. LineCnt - 1 : l > r.hi => ~LineUsed(b, l)
  /\ r.lo = 0 => r.hi \in Ends /\ r.found = 0
  /\ r.lo > 0 => /\ r.found \in Page /\ r.found \div Banks = r.lo - 1
                 /\ IsUsed(flash[b][r.found])
                 /\ \A q \in Page : q \div Banks = r.lo - 1 /\ IsUsed(flash[b][q])
                                      => q <= r.found
  /\ r.lo <= r.hi => r.hi - r.lo + 1 <= LineCnt - k
SearchedType(r) == r \in [lo : Int, hi : Int, found : Int]
\* One turn of the search for the last used line keeps what Searched says.
LEMMA TurnSearches ==
  ASSUME Align, NEW b, NEW r, NEW k \in Nat, SearchedType(r), Searched(b, r, k),
         \A m \in 1 .. LineCnt - 2 : LineUsed(b, m + 1) => LineUsed(b, m)
  PROVE  SearchedType(Halve(b, r)) /\ Searched(b, Halve(b, r), k + 1)
<1> DEFINE mid == (r.lo + r.hi) \div 2
<1>1. LineCnt \in Nat /\ LineCnt >= 3
  BY Lines
<1>2. CASE r.lo > r.hi
  <2>1. Halve(b, r) = r
    BY <1>2 DEF Halve, HalveLines
  <2> QED BY <1>2, <2>1 DEF Searched
<1>3. CASE ~(r.lo > r.hi) /\ UsedOfLine(b, mid) = {}
  <2>1. Halve(b, r) = [r EXCEPT !.hi = mid - 1]
    BY <1>3 DEF Halve, HalveLines
  <2>2. mid \in Nat /\ r.lo <= mid /\ mid <= r.hi /\ mid \in 0 .. LineCnt - 1
    BY <1>1, <1>3 DEF Searched
  <2>3. ~LineUsed(b, mid)
    BY <1>3 DEF LineUsed
  <2>4. r.lo = 0 => mid - 1 \in Ends /\ (mid = 0 => r.hi = 0)
    <3> SUFFICES ASSUME r.lo = 0 PROVE mid - 1 \in Ends /\ (mid = 0 => r.hi = 0)
      OBVIOUS
    <3>1. r.hi \in Ends /\ r.hi >= 0 /\ mid = (0 + r.hi) \div 2
      BY <2>2 DEF Searched
    <3> HIDE DEF mid
    <3> QED BY <3>1, EndsHalve
  <2> HIDE DEF mid
  <2>5. \A l \in 0 .. LineCnt - 1 : l > mid - 1 => ~LineUsed(b, l)
    <3>1. CASE mid = 0
      <4>1. r.hi = 0
        BY <2>2, <2>4, <3>1 DEF Searched
      <4>2. \A l \in 0 .. LineCnt - 1 : l = mid \/ l > r.hi
        BY <3>1, <4>1
      <4> QED BY <2>3, <4>2 DEF Searched
    <3>2. CASE mid # 0
      <4>1. mid \in 1 .. LineCnt - 1
        BY <2>2, <3>2
      <4>2. \A l \in 1 .. LineCnt - 1 : mid <= l => ~LineUsed(b, l)
        BY <2>3, <4>1, LinesEnd
      <4>3. \A l \in 0 .. LineCnt - 1 : l > mid - 1 => l \in 1 .. LineCnt - 1 /\ mid <= l
        BY <1>1, <4>1
      <4> QED BY <4>2, <4>3
    <3> QED BY <3>1, <3>2
  <2> DEFINE h == Halve(b, r)
  <2>6. h.lo = r.lo /\ h.hi = mid - 1 /\ h.found = r.found /\ SearchedType(h)
    BY <2>1, <2>2 DEF SearchedType
  <2> HIDE DEF h
  <2>7. h.lo \in 0 .. LineCnt /\ h.hi \in -1 .. LineCnt - 1 /\ h.lo <= h.hi + 1
    BY <1>1, <2>2, <2>6 DEF Searched
  <2>8. h.lo <= h.hi => h.hi - h.lo + 1 <= LineCnt - (k + 1)
    BY <1>1, <2>2, <2>6 DEF Searched
  <2> QED BY <2>4, <2>5, <2>6, <2>7, <2>8 DEF Searched, h
<1>4. CASE ~(r.lo > r.hi) /\ UsedOfLine(b, mid) # {}
  <2> DEFINE U == UsedOfLine(b, mid)
             u == CHOOSE u \in U : \A j \in U : j <= u
             h == Halve(b, r)
  <2>1. h = [r EXCEPT !.lo = mid + 1, !.found = mid * Banks + u]
    BY <1>4 DEF Halve, HalveLines
  <2>2. mid \in Nat /\ r.lo <= mid /\ mid <= r.hi /\ mid \in 0 .. LineCnt - 1
    BY <1>1, <1>4 DEF Searched
  <2>3. u \in U /\ u \in 0 .. Banks - 1 /\ \A j \in U : j <= u
    BY <1>4, LastOfLine
  <2> HIDE DEF u
  <2> DEFINE f == mid * Banks + u
  <2>4. f \in Page /\ f \div Banks = mid /\ f % Banks = u
    BY <2>2, <2>3, PageOfLine, PageInLine
  <2>5. IsUsed(flash[b][f])
    BY <2>3 DEF UsedOfLine
  <2>6. \A q \in Page : q \div Banks = mid /\ IsUsed(flash[b][q]) => q <= f
    <3> SUFFICES ASSUME NEW q \in Page, q \div Banks = mid, IsUsed(flash[b][q]) PROVE q <= f
      OBVIOUS
    <3> DEFINE j == q % Banks
    <3>1. q = mid * Banks + j /\ j \in 0 .. Banks - 1
      BY LineOfPage
    <3> HIDE DEF j
    <3>2. j \in U
      BY <3>1 DEF UsedOfLine
    <3>3. j <= u /\ mid * Banks \in Nat /\ Banks \in Nat
      BY <2>2, <2>3, <3>2, Numbers
    <3> QED BY <2>3, <3>1, <3>3
  <2>13. h = [r EXCEPT !.lo = mid + 1, !.found = f]
    BY <2>1
  <2> HIDE DEF U, mid, f
  <2>7. h.lo = mid + 1 /\ h.hi = r.hi /\ h.found = f /\ SearchedType(h)
    <3>1. f \in Int /\ mid \in Int
      BY <2>2, <2>4, Numbers
    <3> DEFINE r1 == [r EXCEPT !.lo = mid + 1]
    <3>2. r1.lo = mid + 1 /\ r1.hi = r.hi /\ r1 \in [lo : Int, hi : Int, found : Int]
      BY <3>1 DEF SearchedType
    <3>3. h = [r1 EXCEPT !.found = f]
      BY <2>13
    <3> HIDE DEF h, r1
    <3> QED BY <3>1, <3>2, <3>3 DEF SearchedType
  <2> HIDE DEF h
  <2>8. /\ h.lo \in 0 .. LineCnt /\ h.hi \in -1 .. LineCnt - 1 /\ h.lo <= h.hi + 1
        /\ h.lo > 0 /\ h.lo - 1 = mid
        /\ h.lo <= h.hi => h.hi - h.lo + 1 <= LineCnt - (k + 1)
    BY <1>1, <2>2, <2>7 DEF Searched
  <2>9. \A l \in 0 .. LineCnt - 1 : l > h.hi => ~LineUsed(b, l)
    BY <2>7 DEF Searched
  <2>10. h.found \in Page /\ h.found \div Banks = h.lo - 1 /\ IsUsed(flash[b][h.found])
         /\ \A q \in Page : q \div Banks = h.lo - 1 /\ IsUsed(flash[b][q]) => q <= h.found
    BY <2>4, <2>5, <2>6, <2>7, <2>8
  <2>11. h.lo = 0 => h.hi \in Ends /\ h.found = 0
    BY <2>8
  <2>12. Searched(b, h, k + 1)
    BY <2>8, <2>9, <2>10, <2>11 DEF Searched
  <2> QED BY <2>7, <2>12 DEF h
<1> QED BY <1>2, <1>3, <1>4
\* The search of a mount finds the last used page of a block.
LEMMA SearchFinds ==
  ASSUME Align, NEW b, Shape(b)
  PROVE  LastUsedPage(b) \in Page /\ HasLast(b, LastUsedPage(b))
<1> DEFINE n == LineCnt
<1>1. n \in Nat /\ n >= 3 /\ LastUsedPage(b) = Search(b, n)
  BY Lines DEF LastUsedPage
<1>2. PICK t : Turns(b, n, t) /\ Search(b, n) = t[n].found
  BY <1>1, SearchTurns
<1>3. \A m \in 1 .. LineCnt - 2 : LineUsed(b, m + 1) => LineUsed(b, m)
  BY DEF Shape
<1> DEFINE S == {k \in 0 .. n : SearchedType(t[k]) /\ Searched(b, t[k], k)}
<1>4. 0 \in S
  <2>1. t[0] = [lo |-> 0, hi |-> LineCnt - 1, found |-> 0]
    BY <1>2 DEF Turns, Group
  <2>2. \A l \in 0 .. LineCnt - 1 : ~(l > LineCnt - 1)
    BY <1>1
  <2>3. SearchedType(t[0]) /\ Searched(b, t[0], 0)
    BY <1>1, <2>1, <2>2, EndsHalve DEF SearchedType, Searched
  <2> QED BY <1>1, <2>3
<1>5. ASSUME NEW k \in 0 .. n - 1, k \in S
      PROVE  k + 1 \in S
  <2>1. k + 1 \in 1 .. n /\ (k + 1) - 1 = k /\ k \in Nat
    BY <1>1
  <2>2. t[k + 1] = Halve(b, t[k])
    BY <1>2, <2>1 DEF Turns
  <2>3. SearchedType(t[k]) /\ Searched(b, t[k], k)
    BY <1>5
  <2>4. SearchedType(t[k + 1]) /\ Searched(b, t[k + 1], k + 1)
    BY <1>3, <2>1, <2>2, <2>3, TurnSearches
  <2> QED BY <2>1, <2>4
<1> HIDE DEF S
<1>6. n \in S
  BY <1>1, <1>4, <1>5, UpTo
<1> DEFINE r == t[n]
<1>7. SearchedType(r) /\ Searched(b, r, n) /\ LastUsedPage(b) = r.found
  BY <1>1, <1>2, <1>6 DEF S
<1> HIDE DEF r
<1>8. r.lo = r.hi + 1
  BY <1>1, <1>7 DEF Searched, SearchedType
<1>9. \A q \in Page : IsUsed(flash[b][q]) => q \div Banks <= r.hi
  <2> SUFFICES ASSUME NEW q \in Page, IsUsed(flash[b][q]) PROVE q \div Banks <= r.hi
    OBVIOUS
  <2> DEFINE l == q \div Banks
  <2>1. l \in 0 .. LineCnt - 1
    BY LineOfPage
  <2>2. LineUsed(b, l)
    BY <2>1, UsedLine
  <2> HIDE DEF l
  <2>3. ~(l > r.hi)
    BY <1>7, <2>1, <2>2 DEF Searched
  <2>4. l <= r.hi
    BY <1>1, <1>7, <2>1, <2>3 DEF SearchedType
  <2> QED BY <2>4 DEF l
<1> DEFINE g == r.found
<1>12. LastUsedPage(b) = g
  BY <1>7
<1>10. CASE r.lo = 0
  <2>1. \A q \in Page : ~IsUsed(flash[b][q])
    <3> SUFFICES ASSUME NEW q \in Page, IsUsed(flash[b][q]) PROVE FALSE
      OBVIOUS
    <3>1. q \div Banks \in Nat
      BY LineOfPage, <1>1
    <3>2. r.hi = -1
      BY <1>7, <1>8, <1>10 DEF SearchedType
    <3> QED BY <1>9, <3>1, <3>2
  <2>2. g = 0
    BY <1>7, <1>10 DEF Searched
  <2> HIDE DEF g
  <2>3. g \in Page /\ ~(g > 0)
    BY <2>2, Numbers
  <2> QED BY <1>12, <2>1, <2>3 DEF HasLast
<1>11. CASE r.lo > 0
  <2> DEFINE h == r.hi
  <2>1. /\ g \in Page /\ g \div Banks = r.lo - 1 /\ IsUsed(flash[b][g])
        /\ \A q \in Page : q \div Banks = r.lo - 1 /\ IsUsed(flash[b][q]) => q <= g
    BY <1>7, <1>11 DEF Searched
  <2>4. r.lo - 1 = h /\ h \in Int /\ \A q \in Page : IsUsed(flash[b][q]) => q \div Banks <= h
    BY <1>7, <1>8, <1>9 DEF SearchedType
  <2> HIDE DEF g, h
  <2>2. \A q \in Page : q > g => ~IsUsed(flash[b][q])
    <3> SUFFICES ASSUME NEW q \in Page, q > g, IsUsed(flash[b][q]) PROVE FALSE
      OBVIOUS
    <3>1. q \in Nat /\ g \in Nat
      BY <2>1, Numbers
    <3>2. g \div Banks <= q \div Banks
      <4>1. g <= q
        BY <3>1
      <4> QED BY <2>1, <4>1, LinesInOrder
    <3>3. q \div Banks \in Nat
      BY LineOfPage, <1>1
    <3>4. q \div Banks = h
      BY <2>1, <2>4, <3>2, <3>3
    <3>5. q <= g
      BY <2>1, <2>4, <3>4
    <3> QED BY <3>1, <3>5
  <2> QED BY <1>12, <2>1, <2>2 DEF HasLast
<1> QED BY <1>7, <1>10, <1>11 DEF Searched, SearchedType

(***************************************************************************)
(* What depends on a block only.                                           *)
(***************************************************************************)
\* A rebuilt map names the last version of each page.
LEMMA RebuiltIs ==
  ASSUME NEW b, NEW p \in Page
  PROVE  /\ Rebuilt(b)[p] \in Page \cup {None}
         /\ Rebuilt(b)[p] = None => \A q \in Page : flash[b][q].lpn # p
         /\ Rebuilt(b)[p] # None =>
              /\ flash[b][Rebuilt(b)[p]].lpn = p
              /\ \A u \in Page : flash[b][u].lpn = p => u <= Rebuilt(b)[p]
<1> DEFINE V == {q \in Page : flash[b][q].lpn = p}
<1>1. Rebuilt(b)[p] = IF V = {} THEN None ELSE CHOOSE q \in V : \A u \in V : u <= q
  BY DEF Rebuilt
<1>2. V \in SUBSET (0 .. PageCnt - 1) /\ PageCnt - 1 \in Nat
  BY Numbers DEF Page
<1>3. CASE V = {}
  BY <1>1, <1>3
<1>4. CASE V # {}
  <2>1. \E q \in V : \A u \in V : u <= q
    BY <1>2, <1>4, Greatest
  <2> DEFINE r == CHOOSE q \in V : \A u \in V : u <= q
  <2>2. r \in V /\ \A u \in V : u <= r
    BY <2>1
  <2>3. Rebuilt(b)[p] = r /\ r \in Page /\ flash[b][r].lpn = p
    BY <1>1, <1>4, <2>2
  <2>4. \A u \in Page : flash[b][u].lpn = p => u <= r
    BY <2>2
  <2> HIDE DEF r
  <2> QED BY <2>3, <2>4, Numbers
<1> QED BY <1>3, <1>4
\* It is the only one that does.
LEMMA RebuiltFinds ==
  ASSUME NEW b, NEW p \in Page, NEW r \in Page, flash[b][r].lpn = p,
         \A u \in Page : flash[b][u].lpn = p => u <= r
  PROVE  Rebuilt(b)[p] = r
<1> DEFINE s == Rebuilt(b)[p]
<1>1. s \in Page \cup {None} /\ (s # None => flash[b][s].lpn = p)
      /\ (s = None => \A q \in Page : flash[b][q].lpn # p)
      /\ (s # None => \A u \in Page : flash[b][u].lpn = p => u <= s)
  BY RebuiltIs
<1> HIDE DEF s
<1>2. s \in Page /\ r <= s /\ s <= r
  BY <1>1
<1>3. s \in Nat /\ r \in Nat
  BY <1>2, Numbers
<1>4. s = r
  BY <1>2, <1>3
<1> QED BY <1>4 DEF s
\* A logical page no page holds has no version.
LEMMA RebuiltNone ==
  ASSUME NEW b, NEW p \in Page, \A q \in Page : flash[b][q].lpn # p
  PROVE  Rebuilt(b)[p] = None
BY RebuiltIs
\* Two maps are the same if they agree on every page.
LEMMA SameMap ==
  ASSUME NEW m \in Map, NEW n \in Map, \A p \in Page : m[p] = n[p]
  PROVE  m = n
BY DEF Map
\* The logical pages of a block decide its map.
LEMMA RebuiltSame ==
  ASSUME NEW b, \A q \in Page : flash'[b][q].lpn = flash[b][q].lpn
  PROVE  Rebuilt(b)' = Rebuilt(b)
<1> DEFINE W(x) == {q \in Page : flash'[b][q].lpn = x}
           V(x) == {q \in Page : flash[b][q].lpn = x}
<1>1. \A x : W(x) = V(x)
  OBVIOUS
<1>2. Rebuilt(b)' = [x \in Page |-> IF W(x) = {} THEN None
                                    ELSE CHOOSE q \in W(x) : \A u \in W(x) : u <= q]
  BY DEF Rebuilt
<1>3. Rebuilt(b) = [x \in Page |-> IF V(x) = {} THEN None
                                   ELSE CHOOSE q \in V(x) : \A u \in V(x) : u <= q]
  BY DEF Rebuilt
<1> HIDE DEF W, V
<1> QED BY <1>1, <1>2, <1>3
\* A block without data has the empty map.
LEMMA RebuiltErased ==
  ASSUME NEW b, \A q \in Page : flash[b][q].lpn = None
  PROVE  Rebuilt(b) = EmptyMap
<1>1. \A p \in Page : {q \in Page : flash[b][q].lpn = p} = {}
  BY Numbers
<1> QED BY <1>1 DEF Rebuilt, EmptyMap
\* A new page is the version of its logical page, if none behind it is one.
LEMMA RebuiltNext ==
  ASSUME FlashInv, NEW b \in Blk, NEW r \in Page, NEW p \in Page,
         \A q \in Page \ {r} : flash'[b][q].lpn = flash[b][q].lpn,
         flash'[b][r].lpn = p, flash[b][r].lpn = None,
         \A q \in Page : flash[b][q].lpn = p => q <= r
  PROVE  Rebuilt(b)' = [Rebuilt(b) EXCEPT ![p] = r]
<1> DEFINE W(x) == {q \in Page : flash'[b][q].lpn = x}
           V(x) == {q \in Page : flash[b][q].lpn = x}
<1>1. p # None
  BY Numbers
<1>2. \A x \in Page : x # p => W(x) = V(x)
  <2> SUFFICES ASSUME NEW x \in Page, x # p, NEW q \in Page
               PROVE  flash'[b][q].lpn = x <=> flash[b][q].lpn = x
    OBVIOUS
  <2>1. x # None
    BY Numbers
  <2>2. CASE q = r
    BY <2>1, <2>2
  <2>3. CASE q # r
    BY <2>3
  <2> QED BY <2>2, <2>3
<1>3. r \in W(p) /\ \A u \in W(p) : u <= r
  BY Numbers
<1>4. W(p) # {} /\ (CHOOSE q \in W(p) : \A u \in W(p) : u <= q) = r
  <2>1. \A x \in W(p) : (\A u \in W(p) : u <= x) => x = r
    BY <1>3, Numbers
  <2> QED BY <1>3, <2>1
<1>5. Rebuilt(b)' = [x \in Page |-> IF W(x) = {} THEN None
                                    ELSE CHOOSE q \in W(x) : \A u \in W(x) : u <= q]
  BY DEF Rebuilt
<1>6. Rebuilt(b) = [x \in Page |-> IF V(x) = {} THEN None
                                   ELSE CHOOSE q \in V(x) : \A u \in V(x) : u <= q]
  BY DEF Rebuilt
<1> HIDE DEF W, V
<1> DEFINE w == Rebuilt(b)'
           v == Rebuilt(b)
<1>7. \A x \in Page : w[x] = IF x = p THEN r ELSE v[x]
  <2> SUFFICES ASSUME NEW x \in Page PROVE w[x] = IF x = p THEN r ELSE v[x]
    OBVIOUS
  <2>1. CASE x = p
    BY <1>4, <1>5, <2>1
  <2>2. CASE x # p
    <3>1. W(x) = V(x)
      BY <1>2, <2>2
    <3> QED BY <1>5, <1>6, <2>2, <3>1
  <2> QED BY <2>1, <2>2
<1>8. w = [x \in Page |-> w[x]] /\ v = [x \in Page |-> v[x]]
  BY <1>5, <1>6
<1> HIDE DEF w, v
<1>9. w = [v EXCEPT ![p] = r]
  BY <1>7, <1>8
<1> QED BY <1>9 DEF w, v
\* A block that stays as it was.
LEMMA SameBlock ==
  ASSUME NEW b, flash'[b] = flash[b]
  PROVE  /\ Rebuilt(b)' = Rebuilt(b) /\ AgeOf(b)' = AgeOf(b) /\ Written0(b)' = Written0(b)
         /\ \A l : LineUsed(b, l)' = LineUsed(b, l)
         /\ Shape(b) => Shape(b)'
         /\ \A q : HasLast(b, q) <=> HasLast(b, q)'
<1>1. Rebuilt(b)' = Rebuilt(b)
  BY DEF Rebuilt
<1>2. AgeOf(b)' = AgeOf(b) /\ Written0(b)' = Written0(b)
  BY DEF AgeOf, Written0
<1>3. \A l : LineUsed(b, l)' = LineUsed(b, l)
  BY DEF LineUsed, UsedOfLine
<1>4. Shape(b) => Shape(b)'
  BY <1>1, <1>3 DEF Shape
<1>5. \A q : HasLast(b, q) <=> HasLast(b, q)'
  BY DEF HasLast
<1> QED BY <1>1, <1>2, <1>3, <1>4, <1>5
\* An erased block has nothing.
LEMMA ErasedShape ==
  ASSUME NEW b, flash[b] = ErasedBlk
  PROVE  /\ Shape(b) /\ Rebuilt(b) = EmptyMap /\ Written0(b) = None
         /\ \A q \in Page : ~IsUsed(flash[b][q]) /\ flash[b][q].lpn = None /\ ~IsTable(flash[b][q])
                            /\ flash[b][q] = Erased
         /\ \A l \in 0 .. LineCnt - 1 : ~LineUsed(b, l)
<1>1. \A q \in Page : flash[b][q] = Erased
  BY DEF ErasedBlk
<1>2. Erased.lpn = None /\ Erased.status = FreeMark /\ Erased.info = None /\ FreeMark # TableMark
  BY Status DEF Erased, PageRecord
<1>3. \A q \in Page : ~IsUsed(flash[b][q]) /\ flash[b][q].lpn = None /\ ~IsTable(flash[b][q])
                      /\ flash[b][q] = Erased
  BY <1>1, <1>2 DEF IsUsed, IsTable
<1>4. Rebuilt(b) = EmptyMap
  BY <1>3, RebuiltErased
<1>5. \A l \in 0 .. LineCnt - 1 : ~LineUsed(b, l)
  BY <1>3, UsedLine
<1>6. Shape(b)
  <2>1. \A l \in 1 .. LineCnt - 2 : ~LineUsed(b, l + 1)
    BY <1>5, Lines
  <2> QED BY <1>3, <2>1 DEF Shape
<1>7. Written0(b) = None
  BY <1>1, <1>2, Numbers DEF Written0
<1> QED BY <1>3, <1>4, <1>5, <1>6, <1>7
\* The same of the next state.
ErasedFacts(b) ==
  /\ Shape(b) /\ Rebuilt(b) = EmptyMap /\ Written0(b) = None
  /\ \A q \in Page : ~IsUsed(flash[b][q]) /\ flash[b][q].lpn = None
RebuiltFacts(b, p) ==
  /\ Rebuilt(b)[p] \in Page \cup {None}
  /\ Rebuilt(b)[p] = None => \A q \in Page : flash[b][q].lpn # p
  /\ Rebuilt(b)[p] # None =>
       /\ flash[b][Rebuilt(b)[p]].lpn = p
       /\ \A u \in Page : flash[b][u].lpn = p => u <= Rebuilt(b)[p]
LineFacts(b, l) == LineUsed(b, l) <=> \E q \in Page : q \div Banks = l /\ IsUsed(flash[b][q])
\* ErasedShape of every block at once.
LEMMA ErasedNow == \A b : flash[b] = ErasedBlk => ErasedFacts(b)
BY ErasedShape DEF ErasedFacts
\* The same of the version of a page.
LEMMA RebuiltNow == \A b : \A p \in Page : RebuiltFacts(b, p)
BY RebuiltIs DEF RebuiltFacts
\* The same of the used lines.
LEMMA LinesNow == \A b : \A l \in 0 .. LineCnt - 1 : LineFacts(b, l)
BY UsedLine DEF LineFacts
\* The same of an erased block after the step.
LEMMA ErasedNext == \A b : flash'[b] = ErasedBlk => ErasedFacts(b)'
<1>1. (\A b : flash[b] = ErasedBlk => ErasedFacts(b))'
  BY ErasedNow, PTL
<1> QED BY <1>1
\* The same of the version of a page after the step.
LEMMA RebuiltLater == \A b : \A p \in Page : RebuiltFacts(b, p)'
<1>1. (\A b : \A p \in Page : RebuiltFacts(b, p))'
  BY RebuiltNow, PTL
<1> QED BY <1>1
\* The same of the used lines after the step.
LEMMA LinesNext == \A b : \A l \in 0 .. LineCnt - 1 : LineFacts(b, l)'
<1>1. (\A b : \A l \in 0 .. LineCnt - 1 : LineFacts(b, l))'
  BY LinesNow, PTL
<1> QED BY <1>1

(***************************************************************************)
(* Ages.                                                                   *)
(***************************************************************************)
\* Sums and differences of ages around the clock.
LEMMA AroundTheClock ==
  ASSUME NEW n \in Nat, n > 0, NEW x \in Int
  PROVE  /\ 0 <= x /\ x < n => x % n = x
         /\ n <= x /\ x < 2 * n => x % n = x - n
         /\ -n <= x /\ x < 0 => x % n = x + n
<1> DEFINE r == x % n
           q == x \div n
<1>1. r \in 0 .. n - 1 /\ q \in Int /\ x = n * q + r
  OBVIOUS
<1> HIDE DEF r, q
<1>2. q >= 2 => n * q >= 2 * n
  BY <1>1
<1>3. q <= -2 => n * q <= -2 * n
  BY <1>1
<1>4. n * q \in Int
  BY <1>1
<1>5. -n <= x /\ x < 2 * n => q \in {-1, 0, 1}
  BY <1>1, <1>2, <1>3, <1>4
<1>6. CASE q = 0
  BY <1>1, <1>6 DEF r
<1>7. CASE q = 1
  BY <1>1, <1>7 DEF r
<1>8. CASE q = -1
  <2>1. x = r - n
    BY <1>1, <1>8
  <2> QED BY <1>1, <2>1 DEF r
<1>9. CASE q \notin {-1, 0, 1}
  BY <1>5, <1>9
<1> QED BY <1>6, <1>7, <1>8, <1>9
\* The age of a log block and that of the target of a merge are told apart
\* from the age of the data block and from each other.
AgeFacts(a) ==
  LET b == Older(a, 1)
      c == Older(a, 2) IN
  /\ b \in 0 .. AgeCnt - 1 /\ c \in 0 .. AgeCnt - 1
  /\ Older(b, 1) = c /\ Older(a, 0) = a /\ a # b /\ a # c /\ b # c
  /\ Older(b, 1) # a /\ Older(c, 1) # a /\ Older(c, 1) # b
  /\ CompareAge(a, a) = 0
  /\ CompareAge(b, a) = 1 /\ CompareAge(a, b) = -1
  /\ CompareAge(c, a) = 2 /\ CompareAge(a, c) = -2
\* The ages next to an age, as CompareAge and Older see them.
LEMMA Ages == ASSUME NEW a \in 0 .. AgeCnt - 1 PROVE AgeFacts(a)
<1> DEFINE n == AgeCnt
           h == AgeCnt \div 2
           b == Older(a, 1)
           c == Older(a, 2)
<1>1. n \in Nat /\ n >= 6 /\ h \in Nat /\ h >= 3 /\ h < n /\ h <= n - 2
  BY Numbers
<1>2. \A x \in Int : /\ 0 <= x /\ x < n => x % n = x
                     /\ n <= x /\ x < 2 * n => x % n = x - n
                     /\ -n <= x /\ x < 0 => x % n = x + n
  BY <1>1, AroundTheClock
<1>3. /\ Older(a, 0) = a % n /\ b = (a + 1) % n /\ c = (a + 2) % n
      /\ Older(b, 1) = (b + 1) % n /\ Older(c, 1) = (c + 1) % n
  BY <1>1 DEF Older
<1> HIDE DEF n, h
<1>4. a \in Nat /\ a < n
  BY <1>1 DEF n
<1> HIDE DEF b, c
<1>5. b = IF a + 1 < n THEN a + 1 ELSE a + 1 - n
  BY <1>1, <1>2, <1>3, <1>4
<1>6. c = IF a + 2 < n THEN a + 2 ELSE a + 2 - n
  BY <1>1, <1>2, <1>3, <1>4
<1>7. b \in Nat /\ b < n /\ c \in Nat /\ c < n /\ a # b /\ a # c /\ b # c
  BY <1>1, <1>4, <1>5, <1>6
<1>8. Older(b, 1) = IF b + 1 < n THEN b + 1 ELSE b + 1 - n
  BY <1>1, <1>2, <1>3, <1>7
<1>9. Older(c, 1) = IF c + 1 < n THEN c + 1 ELSE c + 1 - n
  BY <1>1, <1>2, <1>3, <1>7
<1>10. Older(b, 1) = c /\ Older(c, 1) # a /\ Older(c, 1) # b /\ Older(a, 0) = a
  BY <1>1, <1>2, <1>3, <1>4, <1>5, <1>6, <1>7, <1>8, <1>9
<1>11. \A x, y : CompareAge(x, y) = IF (x - y) % n < h THEN (x - y) % n ELSE ((x - y) % n) - n
  BY DEF CompareAge, n, h
<1>12. CompareAge(a, a) = 0
  <2>1. (a - a) % n = 0
    BY <1>1, <1>2, <1>4
  <2> QED BY <1>1, <1>11, <2>1
<1>13. CompareAge(b, a) = 1 /\ CompareAge(a, b) = -1
  <2>1. (b - a) % n = 1 /\ (a - b) % n = n - 1
    BY <1>1, <1>2, <1>4, <1>5
  <2> QED BY <1>1, <1>11, <2>1
<1>14. CompareAge(c, a) = 2
  <2>1. (c - a) % n = 2
    BY <1>1, <1>2, <1>4, <1>6
  <2> QED BY <1>1, <1>11, <2>1
<1>15. CompareAge(a, c) = -2
  <2>1. (a - c) % n = n - 2 /\ ~(n - 2 < h) /\ (n - 2) - n = -2
    BY <1>1, <1>2, <1>4, <1>6
  <2>2. CompareAge(a, c) = (n - 2) - n
    BY <1>11, <2>1
  <2> QED BY <2>1, <2>2
<1> QED BY <1>1, <1>7, <1>10, <1>12, <1>13, <1>14, <1>15 DEF AgeFacts, b, c, n

(***************************************************************************)
(* Steps of the flash.                                                     *)
(***************************************************************************)
\* A page whose data is perhaps not the latest any more.
Agree(r, s) ==
  /\ r.info = s.info /\ r.lpn = s.lpn /\ r.status = s.status
  /\ s.lpn = None => r = s
SameLooks(b) == \A q \in Page : Agree(flash'[b][q], flash[b][q])
\* A block whose pages keep their info, lpn and use keeps its map, age and shape.
LEMMA LooksSame ==
  ASSUME NEW b, SameLooks(b)
  PROVE  /\ Rebuilt(b)' = Rebuilt(b) /\ AgeOf(b)' = AgeOf(b) /\ Written0(b)' = Written0(b)
         /\ \A l \in 0 .. LineCnt - 1 : LineUsed(b, l)' <=> LineUsed(b, l)
         /\ Shape(b) => Shape(b)'
         /\ \A q \in Page : HasLast(b, q) => HasLast(b, q)'
<1>1. \A q \in Page : /\ flash'[b][q].info = flash[b][q].info /\ flash'[b][q].lpn = flash[b][q].lpn
                      /\ flash'[b][q].status = flash[b][q].status
                      /\ flash[b][q].lpn = None => flash'[b][q] = flash[b][q]
  BY DEF SameLooks, Agree
<1>2. Rebuilt(b)' = Rebuilt(b)
  BY <1>1, RebuiltSame
<1>3. AgeOf(b)' = AgeOf(b) /\ Written0(b)' = Written0(b)
  BY <1>1, Numbers DEF AgeOf, Written0
<1>4. \A q \in Page : IsUsed(flash'[b][q]) <=> IsUsed(flash[b][q])
  BY <1>1 DEF IsUsed
<1>5. \A l \in 0 .. LineCnt - 1 : LineUsed(b, l)' <=> LineUsed(b, l)
  <2> SUFFICES ASSUME NEW l \in 0 .. LineCnt - 1 PROVE LineUsed(b, l)' <=> LineUsed(b, l)
    OBVIOUS
  <2>1. LineFacts(b, l) /\ LineFacts(b, l)'
    BY LinesNow, LinesNext
  <2> QED BY <1>4, <2>1 DEF LineFacts
<1>6. ASSUME Shape(b) PROVE Shape(b)'
  <2>1. \A q \in Page : flash'[b][q].lpn # None =>
       /\ flash'[b][q].info = flash'[b][0].info
       /\ BankOf(flash'[b][q].lpn) = BankOf(q)
    BY <1>1, <1>6, Numbers DEF Shape
  <2>2. \A q \in Page : q > 0 /\ ~IsUsed(flash'[b][q]) => flash'[b][q] = Erased
    <3> SUFFICES ASSUME NEW q \in Page, q > 0, ~IsUsed(flash'[b][q]) PROVE flash'[b][q] = Erased
      OBVIOUS
    <3>1. flash[b][q] = Erased
      BY <1>4, <1>6 DEF Shape
    <3> QED BY <1>1, <3>1 DEF Erased, PageRecord
  <2>3. \A l \in 1 .. LineCnt - 2 : LineUsed(b, l + 1)' => LineUsed(b, l)'
    <3> SUFFICES ASSUME NEW l \in 1 .. LineCnt - 2 PROVE LineUsed(b, l + 1)' => LineUsed(b, l)'
      OBVIOUS
    <3>1. l \in 0 .. LineCnt - 1 /\ l + 1 \in 0 .. LineCnt - 1
      BY Lines
    <3>2. LineUsed(b, l + 1) => LineUsed(b, l)
      BY <1>6 DEF Shape
    <3> DEFINE m == l + 1
    <3>3. LineUsed(b, m)' <=> LineUsed(b, m)
      BY <1>5, <3>1
    <3> QED BY <1>5, <3>1, <3>2, <3>3
  <2>4. \A q \in Page :
       IsTable(flash'[b][q]) /\ (\A p \in Page : p > q => ~IsUsed(flash'[b][p]))
         => flash'[b][q].main.map = Rebuilt(b)'
    <3> SUFFICES ASSUME NEW q \in Page, IsTable(flash'[b][q]),
                        \A p \in Page : p > q => ~IsUsed(flash'[b][p])
                 PROVE  flash'[b][q].main.map = Rebuilt(b)'
      OBVIOUS
    <3>1. flash'[b][q] = flash[b][q] /\ IsTable(flash[b][q])
      BY <1>1 DEF IsTable
    <3>2. \A p \in Page : p > q => ~IsUsed(flash[b][p])
      BY <1>4
    <3> QED BY <1>2, <1>6, <3>1, <3>2 DEF Shape
  <2> QED BY <2>1, <2>2, <2>3, <2>4 DEF Shape
<1>7. \A q \in Page : HasLast(b, q) => HasLast(b, q)'
  BY <1>4 DEF HasLast
<1> QED BY <1>2, <1>3, <1>5, <1>6, <1>7
\* One page of a block is programmed: rec is what it holds then.
OnePage(b, r, rec) ==
  /\ flash'[b][r] = rec
  /\ \A q \in Page : q # r => Agree(flash'[b][q], flash[b][q])
\* Pages not programmed and not erased keep what they say of themselves, and a
\* page is programmed only when it is erased.
Fresh ==
  \A b \in Blk : flash'[b] = ErasedBlk \/ \A p \in Page :
    flash[b][p] # Erased => flash'[b][p].lpn = flash[b][p].lpn
                         /\ flash'[b][p].status = flash[b][p].status
Only(b) == \A c \in Blk : c # b => flash'[c] = flash[c]
\* A step that programs one erased page and only marks others is Fresh.
LEMMA FreshPage ==
  ASSUME NEW b \in Blk, NEW r \in Page, NEW rec, flash[b][r] = Erased, OnePage(b, r, rec),
         \A c \in Blk : c # b => SameLooks(c)
  PROVE  Fresh
BY DEF Fresh, OnePage, SameLooks, Agree
\* A step that programs one erased page is Fresh.
LEMMA FreshProgram ==
  ASSUME NEW b \in Blk, NEW r \in Page, NEW rec, flash[b][r] = Erased, OnePage(b, r, rec), Only(b)
  PROVE  Fresh
<1>1. \A c \in Blk : c # b => SameLooks(c)
  BY DEF Only, SameLooks, Agree
<1> QED BY <1>1, FreshPage
\* A step that erases one block is Fresh.
LEMMA FreshErase ==
  ASSUME NEW b, Only(b), flash'[b] = ErasedBlk PROVE Fresh
BY DEF Only, Fresh
\* A block stays in shape when a page behind the used ones is programmed.
LEMMA ShapeKeeps ==
  ASSUME FlashInv, NEW b \in Blk, NEW r \in Page, NEW rec, OnePage(b, r, rec), Shape(b),
         ~IsUsed(flash[b][r]), r # 0 => IsUsed(rec),
         rec.lpn # None => /\ BankOf(rec.lpn) = BankOf(r)
                           /\ r # 0 => rec.info = flash[b][0].info,
         r = 0 => \A q \in Page : flash[b][q].lpn = None,
         r \div Banks > 1 => LineUsed(b, r \div Banks - 1),
         \A q \in Page : IsTable(flash[b][q]) => q < r,
         IsTable(rec) => rec.main.map = Rebuilt(b)
  PROVE  Shape(b)'
<1>1. /\ flash'[b][r] = rec
      /\ \A q \in Page : q # r =>
           /\ flash'[b][q].info = flash[b][q].info
           /\ flash'[b][q].lpn = flash[b][q].lpn
           /\ flash'[b][q].status = flash[b][q].status
           /\ flash[b][q].lpn = None => flash'[b][q] = flash[b][q]
  BY DEF OnePage, Agree
<1>2. \A q \in Page : q # r => (IsUsed(flash'[b][q]) <=> IsUsed(flash[b][q]))
  BY <1>1 DEF IsUsed
<1>3. \A q \in Page : flash'[b][q].lpn # None =>
       /\ flash'[b][q].info = flash'[b][0].info
       /\ BankOf(flash'[b][q].lpn) = BankOf(q)
  <2> SUFFICES ASSUME NEW q \in Page, flash'[b][q].lpn # None
               PROVE  /\ flash'[b][q].info = flash'[b][0].info
                      /\ BankOf(flash'[b][q].lpn) = BankOf(q)
    OBVIOUS
  <2>1. CASE r = 0
    <3>1. q = r
      BY <1>1, <2>1
    <3> QED BY <1>1, <2>1, <3>1
  <2>2. CASE r # 0 /\ q = r
    BY <1>1, <2>2, Numbers
  <2>3. CASE r # 0 /\ q # r
    <3>1. flash'[b][0].info = flash[b][0].info
      BY <1>1, <2>3, Numbers
    <3> QED BY <1>1, <2>3, <3>1 DEF Shape
  <2> QED BY <2>1, <2>2, <2>3
<1>4. \A q \in Page : q > 0 /\ ~IsUsed(flash'[b][q]) => flash'[b][q] = Erased
  <2> SUFFICES ASSUME NEW q \in Page, q > 0, ~IsUsed(flash'[b][q]) PROVE flash'[b][q] = Erased
    OBVIOUS
  <2>1. q # r
    BY <1>1
  <2>2. flash[b][q] = Erased
    BY <1>2, <2>1 DEF Shape
  <2> QED BY <1>1, <2>1, <2>2 DEF Erased, PageRecord
<1>5. \A l \in 1 .. LineCnt - 2 : LineUsed(b, l + 1)' => LineUsed(b, l)'
  <2> SUFFICES ASSUME NEW l \in 1 .. LineCnt - 2, LineUsed(b, l + 1)' PROVE LineUsed(b, l)'
    OBVIOUS
  <2> DEFINE m == l + 1
  <2>1. l \in 0 .. LineCnt - 1 /\ m \in 0 .. LineCnt - 1 /\ m > 1 /\ m - 1 = l
    BY Lines
  <2>2. LineFacts(b, l) /\ LineFacts(b, l)' /\ LineFacts(b, m) /\ LineFacts(b, m)'
    BY <2>1, LinesNow, LinesNext
  <2>3. LineUsed(b, m)' /\ (LineUsed(b, m) => LineUsed(b, l))
    BY DEF Shape
  <2> HIDE DEF m
  <2>4. PICK q \in Page : q \div Banks = m /\ IsUsed(flash'[b][q])
    BY <2>2, <2>3 DEF LineFacts
  <2>5. LineUsed(b, l)
    <3>1. CASE q = r
      BY <2>1, <2>4, <3>1
    <3>2. CASE q # r
      <4>1. LineUsed(b, m)
        BY <1>2, <2>2, <2>4, <3>2 DEF LineFacts
      <4> QED BY <2>3, <4>1
    <3> QED BY <3>1, <3>2
  <2>6. PICK p \in Page : p \div Banks = l /\ IsUsed(flash[b][p])
    BY <2>2, <2>5 DEF LineFacts
  <2>7. IsUsed(flash'[b][p])
    BY <1>2, <2>6
  <2> QED BY <2>2, <2>6, <2>7 DEF LineFacts
<1>6. \A q \in Page :
       IsTable(flash'[b][q]) /\ (\A p \in Page : p > q => ~IsUsed(flash'[b][p]))
         => flash'[b][q].main.map = Rebuilt(b)'
  <2> SUFFICES ASSUME NEW q \in Page, IsTable(flash'[b][q]),
                      \A p \in Page : p > q => ~IsUsed(flash'[b][p])
               PROVE  flash'[b][q].main.map = Rebuilt(b)'
    OBVIOUS
  <2>1. q = r
    <3> SUFFICES ASSUME q # r PROVE FALSE
      OBVIOUS
    <3>1. q < r
      BY <1>1 DEF IsTable
    <3>2. r # 0 /\ r > q
      BY <3>1, Numbers
    <3> QED BY <1>1, <3>2
  <2>2. \A p \in Page : flash'[b][p].lpn = flash[b][p].lpn
    <3>1. flash[b][r].lpn = None /\ rec.lpn = None
      BY <1>1, <2>1 DEF IsUsed, IsTable
    <3> QED BY <1>1, <3>1
  <2>3. Rebuilt(b)' = Rebuilt(b)
    BY <2>2, RebuiltSame
  <2> QED BY <1>1, <2>1, <2>3
<1> QED BY <1>3, <1>4, <1>5, <1>6 DEF Shape

(***************************************************************************)
(* The blocks of a logical block.                                          *)
(***************************************************************************)
\* A block filled in order has every page in its place.
DenseFacts(b, lb, n) ==
  Dense(b, lb, n) /\ EmptyFrom(b, n) => \A p \in Page : Rebuilt(b)[p] = IF p < n THEN p ELSE None
\* The map of a block filled in order up to page n.
LEMMA DenseMap == ASSUME NEW b, NEW lb, NEW n \in 0 .. PageCnt PROVE DenseFacts(b, lb, n)
<1> SUFFICES ASSUME Dense(b, lb, n), EmptyFrom(b, n), NEW p \in Page
             PROVE  Rebuilt(b)[p] = IF p < n THEN p ELSE None
  BY DEF DenseFacts
<1>1. \A u \in Page : flash[b][u].lpn = p => u = p /\ u < n
  <2> SUFFICES ASSUME NEW u \in Page, flash[b][u].lpn = p PROVE u = p /\ u < n
    OBVIOUS
  <2>1. CASE u < n
    BY <2>1 DEF Dense, Good
  <2>2. CASE ~(u < n)
    <3>1. u >= n
      BY <2>2, Numbers
    <3>2. flash[b][u].lpn = None
      BY <3>1 DEF EmptyFrom, Erased, PageRecord
    <3> QED BY <3>2, Numbers
  <2> QED BY <2>1, <2>2
<1>2. CASE p < n
  <2>1. flash[b][p].lpn = p
    BY <1>2 DEF Dense, Good
  <2>2. \A u \in Page : flash[b][u].lpn = p => u <= p
    BY <1>1, Numbers
  <2> QED BY <1>2, <2>1, <2>2, RebuiltFinds
<1>3. CASE ~(p < n)
  <2>1. \A u \in Page : flash[b][u].lpn # p
    BY <1>1, <1>3
  <2> QED BY <1>3, <2>1, RebuiltNone
<1> QED BY <1>2, <1>3
\* DenseMap of every block, before and after a step.
LEMMA DenseNow == \A b, lb : \A n \in 0 .. PageCnt : DenseFacts(b, lb, n)
BY DenseMap
\* The same of a block filled in order after the step.
LEMMA DenseNext == \A b, lb : \A n \in 0 .. PageCnt : DenseFacts(b, lb, n)'
<1>1. (\A b, lb : \A n \in 0 .. PageCnt : DenseFacts(b, lb, n))'
  BY DenseNow, PTL
<1> QED BY <1>1
\* A step that touches blocks of lb and blank blocks only.
NearOnly(lb) ==
  \A c \in Blk : \/ flash'[c] = flash[c]
                 \/ flash[c][0].info \in {lb, None} /\ flash'[c][0].info \in {lb, None}
\* The blocks of the other logical blocks stay theirs when only lb's are touched.
LEMMA OfOther ==
  ASSUME NEW lb, NearOnly(lb), NEW x \in LogicBlk, x # lb
  PROVE  Of(x)' = Of(x) /\ \A c \in Of(x) : flash'[c] = flash[c]
BY Numbers DEF Of, NearOnly
\* A family whose blocks stay as they are.
LEMMA FamSame ==
  ASSUME NEW x, NEW d \in Blk \cup {None}, NEW l \in Blk \cup {None}, NEW y \in Blk \cup {None},
         Fam(x, d, l, y), Of(x)' = Of(x), \A c \in Of(x) : flash'[c] = flash[c]
  PROVE  Fam(x, d, l, y)'
<1>1. /\ Of(x) = {d, l, y} \ {None} /\ d # None
      /\ d # l /\ d # y /\ (l = y => l = None)
      /\ l # None => AgeOf(l) = Older(AgeOf(d), 1)
      /\ y # None => Target2(d, y) \/ TargetMove(l, y)
      /\ \A p \in Page : Good(FoundAt(d, l, p), x, p)
  BY DEF Fam
<1>2. /\ flash'[d] = flash[d]
      /\ l # None => flash'[l] = flash[l]
      /\ y # None => flash'[y] = flash[y]
  BY <1>1
<1>3. /\ AgeOf(d)' = AgeOf(d)
      /\ l # None => /\ AgeOf(l)' = AgeOf(l) /\ Rebuilt(l)' = Rebuilt(l)
                     /\ LineUsed(l, LineCnt - 1)' = LineUsed(l, LineCnt - 1)
      /\ y # None => AgeOf(y)' = AgeOf(y) /\ LineUsed(y, LineCnt - 1)' = LineUsed(y, LineCnt - 1)
  BY <1>2, SameBlock
<1>4. l # None => AgeOf(l)' = Older(AgeOf(d)', 1)
  BY <1>1, <1>3
<1>5. y # None => Target2(d, y)' \/ TargetMove(l, y)'
  BY <1>1, <1>3 DEF Target2, TargetMove
<1>6. \A p \in Page : Good(FoundAt(d, l, p), x, p)'
  <2> SUFFICES ASSUME NEW p \in Page PROVE Good(FoundAt(d, l, p), x, p)'
    OBVIOUS
  <2>1. FoundAt(d, l, p)' = FoundAt(d, l, p)
    BY <1>2, <1>3 DEF FoundAt
  <2> QED BY <1>1, <2>1 DEF Good
<1> QED BY <1>1, <1>4, <1>5, <1>6 DEF Fam
\* So the families of the others stay.
LEMMA FamOther ==
  ASSUME NEW lb, NearOnly(lb), NEW x \in LogicBlk, x # lb,
         NEW d \in Blk \cup {None}, NEW l \in Blk \cup {None}, NEW y \in Blk \cup {None},
         Fam(x, d, l, y)
  PROVE  Fam(x, d, l, y)'
<1>1. Of(x)' = Of(x) /\ \A c \in Of(x) : flash'[c] = flash[c]
  BY OfOther
<1> QED BY <1>1, FamSame
\* The log block of a logical block, once its page 0 is written.
LEMMA LogInIs ==
  ASSUME NEW d, NEW l, NEW f, Roles(d, l, f), NEW s \in Slot, NEW lb \in LogicBlk, l[s].lb = lb
  PROVE  LogIn(l, lb) = Written0(l[s].blk)
<1>1. s \in Used(l) /\ \A t \in Slot : l[t].lb = lb => t \in Used(l)
  BY Numbers DEF Used
<1>2. \A t \in Slot : l[t].lb = lb => t = s
  BY <1>1 DEF Roles
<1>3. (CHOOSE t \in Slot : l[t].lb = lb) = s
  BY <1>2
<1> QED BY <1>3 DEF LogIn
\* A logical block without an entry has no log block.
LEMMA LogInNone ==
  ASSUME NEW l, NEW lb, \A s \in Slot : l[s].lb # lb
  PROVE  LogIn(l, lb) = None
BY DEF LogIn
\* The log block of a logical block whose entry stays.
LEMMA LogInKeeps ==
  ASSUME NEW x, NEW e \in Slot, logs[e].lb # x, logs'[e].lb # x,
         \A s \in Slot : s # e => logs'[s] = logs[s],
         \A s \in Slot : s # e /\ logs[s].lb = x => flash'[logs[s].blk] = flash[logs[s].blk]
  PROVE  LogIn(logs, x)' = LogIn(logs, x)
<1> DEFINE V == {s \in Slot : logs[s].lb = x}
           W == {s \in Slot : logs'[s].lb = x}
           c == CHOOSE s \in V : TRUE
<1>1. V = W
  OBVIOUS
<1>2. (CHOOSE s \in Slot : logs[s].lb = x) = CHOOSE s \in Slot : s \in V
  OBVIOUS
<1>3. (CHOOSE s \in Slot : logs'[s].lb = x) = CHOOSE s \in Slot : s \in W
  OBVIOUS
<1>4. CASE V = {}
  BY <1>1, <1>4 DEF LogIn
<1>5. CASE V # {}
  <2> DEFINE t == CHOOSE s \in Slot : s \in V
  <2>1. t \in V
    BY <1>5
  <2>2. t = (CHOOSE s \in Slot : logs[s].lb = x) /\ t = (CHOOSE s \in Slot : logs'[s].lb = x)
    BY <1>1, <1>2, <1>3
  <2> HIDE DEF t
  <2>3. t \in Slot /\ logs'[t] = logs[t] /\ flash'[logs[t].blk] = flash[logs[t].blk]
        /\ logs[t].lb = x
    BY <2>1
  <2>4. LogIn(logs, x) = Written0(logs[t].blk)
    BY <2>2, <2>3 DEF LogIn
  <2>5. LogIn(logs, x)' = IF flash'[logs'[t].blk][0].info = None THEN None ELSE logs'[t].blk
    BY <2>2, <2>3 DEF LogIn, Written0
  <2> QED BY <2>3, <2>4, <2>5 DEF Written0
<1> QED BY <1>4, <1>5
\* The data block and the log block in the tables are blocks.
LEMMA LogInBlk ==
  ASSUME Roles(data, logs, free), NEW x \in LogicBlk
  PROVE  data[x] \in Blk /\ LogIn(logs, x) \in Blk \cup {None}
<1>1. CASE HasLog(x)
  <2>1. PICK s \in Slot : logs[s].lb = x
    BY <1>1 DEF HasLog
  <2>2. logs[s].blk \in Blk
    BY <2>1, OneLog, Numbers
  <2>3. LogIn(logs, x) = Written0(logs[s].blk)
    BY <2>1, LogInIs
  <2> QED BY <2>2, <2>3 DEF Roles, Written0
<1>2. CASE ~HasLog(x)
  BY <1>2, LogInNone DEF Roles, HasLog
<1> QED BY <1>1, <1>2
\* What a step with the blocks of lb, whose log block has item e, leaves alone.
OthersStay(lb, e) ==
  /\ NearOnly(lb)
  /\ logs[e].lb \in {lb, None} /\ logs'[e].lb \in {lb, None}
  /\ \A s \in Slot : s # e => logs'[s] = logs[s]
  /\ \A s \in Slot : s # e /\ logs[s].lb # None => flash'[logs[s].blk] = flash[logs[s].blk]
  /\ \A x \in LogicBlk : x # lb => data'[x] = data[x]
\* What the tables say of a logical block is left true by a step on another one.
LEMMA OwnKeeps ==
  ASSUME Roles(data, logs, free), NEW lb, NEW e \in Slot, OthersStay(lb, e),
         NEW x \in LogicBlk, x # lb, Own(data, logs, x)
  PROVE  Own(data, logs, x)'
<1>1. PICK d \in Blk : d = data[x]
  BY LogInBlk
<1>2. PICK l \in Blk \cup {None} : l = LogIn(logs, x)
  BY LogInBlk
<1>3. Fam(x, d, l, None)
  BY <1>1, <1>2 DEF Own
<1>4. Fam(x, d, l, None)'
  BY <1>3, FamOther DEF OthersStay
<1>5. LogIn(logs, x)' = l
  <2>1. x # None
    BY Numbers
  <2>2. LogIn(logs, x)' = LogIn(logs, x)
    BY <2>1, LogInKeeps DEF OthersStay
  <2> QED BY <1>2, <2>2
<1>6. data'[x] = d
  BY <1>1 DEF OthersStay
<1> QED BY <1>4, <1>5, <1>6 DEF Own
\* So are all the others, their last pages and their maps.
LEMMA OthersKeep ==
  ASSUME Roles(data, logs, free), NEW lb, NEW e \in Slot, OthersStay(lb, e)
  PROVE  /\ \A x \in LogicBlk : x # lb /\ Own(data, logs, x) => Own(data, logs, x)'
         /\ \A s \in Slot : s # e /\ logs[s].lb # None /\ LastOk(logs, s) => LastOk(logs, s)'
         /\ \A s \in Slot : s # e /\ logs[s].lb # None =>
              Rebuilt(logs[s].blk)' = Rebuilt(logs[s].blk)
<1>1. \A x \in LogicBlk : x # lb /\ Own(data, logs, x) => Own(data, logs, x)'
  BY OwnKeeps
<1>2. ASSUME NEW s \in Slot, s # e, logs[s].lb # None
      PROVE  /\ LastOk(logs, s) => LastOk(logs, s)'
             /\ Rebuilt(logs[s].blk)' = Rebuilt(logs[s].blk)
  <2>1. logs'[s] = logs[s] /\ flash'[logs[s].blk] = flash[logs[s].blk]
    BY <1>2 DEF OthersStay
  <2>2. LastOk(logs, s) => LastOk(logs, s)'
    BY <2>1 DEF LastOk, HasLast
  <2>3. Rebuilt(logs[s].blk)' = Rebuilt(logs[s].blk)
    BY <2>1 DEF Rebuilt
  <2> QED BY <2>2, <2>3
<1> QED BY <1>1, <1>2
\* What a family is but for its blocks.
FamCore(lb, d, l, x) ==
  /\ d # None /\ d # l /\ d # x /\ (l = x => l = None)
  /\ l # None => AgeOf(l) = Older(AgeOf(d), 1)
  /\ x # None => Target2(d, x) \/ TargetMove(l, x)
  /\ \A p \in Page : Good(FoundAt(d, l, p), lb, p)
\* A family that loses block b.
LEMMA FamErase ==
  ASSUME NEW lb \in LogicBlk, NEW b \in Blk, flash'[b] = ErasedBlk, Only(b),
         NEW d \in Blk \cup {None}, NEW l \in Blk \cup {None}, NEW x \in Blk \cup {None},
         b \notin {d, l, x}, Of(lb) \ {b} = {d, l, x} \ {None}, FamCore(lb, d, l, x)
  PROVE  Fam(lb, d, l, x)'
<1>1. /\ d # None /\ d # l /\ d # x /\ (l = x => l = None)
      /\ l # None => AgeOf(l) = Older(AgeOf(d), 1)
      /\ x # None => Target2(d, x) \/ TargetMove(l, x)
      /\ \A p \in Page : Good(FoundAt(d, l, p), lb, p)
  BY DEF FamCore
<1>2. /\ flash'[d] = flash[d]
      /\ l # None => flash'[l] = flash[l]
      /\ x # None => flash'[x] = flash[x]
  BY <1>1 DEF Only
<1>3. /\ AgeOf(d)' = AgeOf(d)
      /\ l # None => /\ AgeOf(l)' = AgeOf(l) /\ Rebuilt(l)' = Rebuilt(l)
                     /\ LineUsed(l, LineCnt - 1)' = LineUsed(l, LineCnt - 1)
      /\ x # None => AgeOf(x)' = AgeOf(x) /\ LineUsed(x, LineCnt - 1)' = LineUsed(x, LineCnt - 1)
  BY <1>2, SameBlock
<1>4. l # None => AgeOf(l)' = Older(AgeOf(d)', 1)
  BY <1>1, <1>3
<1>5. x # None => Target2(d, x)' \/ TargetMove(l, x)'
  BY <1>1, <1>3 DEF Target2, TargetMove
<1>6. \A p \in Page : Good(FoundAt(d, l, p), lb, p)'
  <2> SUFFICES ASSUME NEW p \in Page PROVE Good(FoundAt(d, l, p), lb, p)'
    OBVIOUS
  <2>1. FoundAt(d, l, p)' = FoundAt(d, l, p)
    BY <1>2, <1>3 DEF FoundAt
  <2> QED BY <1>1, <2>1 DEF Good
<1>7. Of(lb)' = {d, l, x} \ {None}
  <2>1. flash'[b][0].info = None /\ lb # None
    BY Numbers DEF ErasedBlk, Erased, PageRecord
  <2>2. Of(lb)' = Of(lb) \ {b}
    BY <2>1 DEF Of, Only
  <2> QED BY <2>2
<1> QED BY <1>1, <1>4, <1>5, <1>6, <1>7 DEF Fam
\* The target of a merge is dropped.
LEMMA DropTarget ==
  ASSUME NEW lb \in LogicBlk, NEW d \in Blk \cup {None}, NEW l \in Blk \cup {None}, NEW x \in Blk,
         Fam(lb, d, l, x), flash'[x] = ErasedBlk, Only(x)
  PROVE  Fam(lb, d, l, None)'
<1>1. Of(lb) \ {x} = {d, l, None} \ {None} /\ x \notin {d, l, None}
  BY Numbers DEF Fam
<1>2. FamCore(lb, d, l, None)
  BY DEF Fam, FamCore
<1> QED BY <1>1, <1>2, FamErase
\* The data block is erased when another block has all its pages.
LEMMA DropData ==
  ASSUME NEW lb \in LogicBlk, NEW d \in Blk, NEW l \in Blk,
         Fam(lb, d, l, None) \/ Fam(lb, d, None, l),
         flash'[d] = ErasedBlk, Only(d), \A p \in Page : Good(flash[l][p], lb, p)
  PROVE  Fam(lb, l, None, None)'
<1>1. Of(lb) \ {d} = {l, None, None} \ {None} /\ d \notin {l, None, None}
  BY Numbers DEF Fam
<1>2. FamCore(lb, l, None, None)
  BY Numbers DEF FamCore, FoundAt
<1> QED BY <1>1, <1>2, FamErase
\* Or when the target of the merge has them, and the log block is left.
LEMMA DropOld ==
  ASSUME FlashInv, NEW lb \in LogicBlk, NEW d \in Blk, NEW l \in Blk, NEW x \in Blk,
         Fam(lb, d, l, x), Target2(d, x),
         flash'[d] = ErasedBlk, Only(d), \A p \in Page : Good(flash[x][p], lb, p)
  PROVE  Fam(lb, l, x, None)'
<1>1. Of(lb) \ {d} = {l, x, None} \ {None} /\ d \notin {l, x, None}
  BY Numbers DEF Fam
<1>2. AgeOf(x) = Older(AgeOf(l), 1)
  <2>1. AgeFacts(AgeOf(d))
    BY RecordsTyped, Ages
  <2> QED BY <2>1, Numbers DEF AgeFacts, Fam, Target2
<1>3. \A p \in Page : Good(FoundAt(l, x, p), lb, p)
  <2>1. Dense(x, lb, PageCnt) /\ EmptyFrom(x, PageCnt) /\ PageCnt \in 0 .. PageCnt
    BY Numbers DEF Dense, EmptyFrom, Page
  <2>2. \A p \in Page : Rebuilt(x)[p] = IF p < PageCnt THEN p ELSE None
    BY <2>1, DenseMap DEF DenseFacts
  <2>3. \A p \in Page : Rebuilt(x)[p] = p /\ p # None
    BY <2>2, Numbers DEF Page
  <2> QED BY <2>3, Numbers DEF FoundAt
<1>4. FamCore(lb, l, x, None)
  BY <1>2, <1>3, Numbers DEF FamCore, Fam
<1> QED BY <1>1, <1>4, FamErase
\* The log block is erased when the target of a move has its pages.
LEMMA DropLog ==
  ASSUME NEW lb \in LogicBlk, NEW d \in Blk, NEW l \in Blk, NEW x \in Blk,
         Fam(lb, d, l, x), AgeOf(x) = AgeOf(l),
         flash'[l] = ErasedBlk, Only(l), \A p \in Page : Good(FoundAt(d, x, p), lb, p)
  PROVE  Fam(lb, d, x, None)'
<1>1. Of(lb) \ {l} = {d, x, None} \ {None} /\ l \notin {d, x, None}
  BY Numbers DEF Fam
<1>2. FamCore(lb, d, x, None)
  BY Numbers DEF FamCore, Fam
<1> QED BY <1>1, <1>2, FamErase
\* The target gets a page.
LEMMA FamTarget ==
  ASSUME NEW lb \in LogicBlk, NEW d \in Blk, NEW l \in Blk \cup {None}, NEW x \in Blk,
         Only(x), d # x, l # x, Fam(lb, d, l, Written0(x)), flash'[x][0].info = lb,
         Target2(d, x)' \/ TargetMove(l, x)'
  PROVE  Fam(lb, d, l, x)'
<1>1. /\ Of(lb) = {d, l, Written0(x)} \ {None} /\ d # None
      /\ d # l
      /\ l # None => AgeOf(l) = Older(AgeOf(d), 1)
      /\ \A p \in Page : Good(FoundAt(d, l, p), lb, p)
  BY DEF Fam
<1>2. flash'[d] = flash[d] /\ (l # None => flash'[l] = flash[l])
  BY DEF Only
<1>3. /\ AgeOf(d)' = AgeOf(d)
      /\ l # None => AgeOf(l)' = AgeOf(l) /\ Rebuilt(l)' = Rebuilt(l)
  BY <1>2, SameBlock
<1>4. l # None => AgeOf(l)' = Older(AgeOf(d)', 1)
  BY <1>1, <1>3
<1>5. \A p \in Page : Good(FoundAt(d, l, p), lb, p)'
  <2> SUFFICES ASSUME NEW p \in Page PROVE Good(FoundAt(d, l, p), lb, p)'
    OBVIOUS
  <2>1. FoundAt(d, l, p)' = FoundAt(d, l, p)
    BY <1>2, <1>3 DEF FoundAt
  <2> QED BY <1>1, <2>1 DEF Good
<1>6. Of(lb)' = {d, l, x} \ {None}
  <2>1. Of(lb)' = Of(lb) \cup {x}
    BY DEF Of, Only
  <2>2. Written0(x) \in {x, None} /\ x # None
    BY Numbers DEF Written0
  <2> QED BY <1>1, <2>1, <2>2
<1> QED BY <1>1, <1>4, <1>5, <1>6, Numbers DEF Fam
\* The log block gets a page, or its first.
LEMMA FamLog ==
  ASSUME NEW lb \in LogicBlk, NEW d \in Blk, NEW l \in Blk, d # l,
         \A c \in Blk : c # d /\ c # l => flash'[c] = flash[c],
         Fam(lb, d, Written0(l), None), flash'[d][0].info = lb, flash'[l][0].info = lb,
         AgeOf(l)' = Older(AgeOf(d)', 1),
         \A p \in Page : Good(FoundAt(d, l, p), lb, p)'
  PROVE  Fam(lb, d, l, None)'
<1>1. Of(lb) = {d, Written0(l), None} \ {None}
  BY DEF Fam
<1>2. Of(lb)' = Of(lb) \cup {d, l}
  BY DEF Of
<1>3. Written0(l) \in {l, None} /\ l # None /\ d # None
  BY Numbers DEF Written0
<1>4. Of(lb)' = {d, l, None} \ {None}
  BY <1>1, <1>2, <1>3
<1> QED BY <1>3, <1>4 DEF Fam

(***************************************************************************)
(* Steps that move control and the cache only.                             *)
(***************************************************************************)
LEMMA OwnSame ==
  ASSUME Roles(data, logs, free), UNCHANGED <<flash, data, logs>>,
         NEW lb \in LogicBlk, Own(data, logs, lb)
  PROVE  Own(data, logs, lb)'
<1>1. PICK d \in Blk : d = data[lb]
  BY LogInBlk
<1>2. PICK l \in Blk \cup {None} : l = LogIn(logs, lb)
  BY LogInBlk
<1>3. Fam(lb, d, l, None)
  BY <1>1, <1>2 DEF Own
<1>4. Of(lb)' = Of(lb)
  BY DEF Of
<1>5. Fam(lb, d, l, None)'
  BY <1>3, <1>4, FamSame
<1>6. LogIn(logs, lb)' = l
  BY <1>2 DEF LogIn, Written0
<1> QED BY <1>1, <1>5, <1>6 DEF Own
\* A step that touches neither flash nor block tables nor merges.
LEMMA ControlData ==
  ASSUME IInv, DInv, UNCHANGED <<flash, data, logs, merge>>, Mounted, Mounted', ~Merging,
         ~Placed, ~Placed', MapsOk', ReadOk'
  PROVE  DInv'
<1>1. \A b \in Blk : Shape(b)'
  BY SameBlock DEF DInv
<1>2. ~Merging'
  BY DEF Merging
<1>3. \A lb \in LogicBlk : Own(data, logs, lb)'
  <2> SUFFICES ASSUME NEW lb \in LogicBlk PROVE Own(data, logs, lb)'
    OBVIOUS
  <2>1. Own(data, logs, lb)
    BY DEF DInv, DMounted, InMerges
  <2>2. Roles(data, logs, free)
    BY DEF IInv, MountedOk
  <2> QED BY <2>1, <2>2, OwnSame
<1>4. LastsOk'
  BY DEF DInv, DMounted, LastsOk, LastOk, HasLast, InUse
<1>5. PlaceOk' /\ MergeData'
  BY <1>2 DEF PlaceOk, MergeData
<1>6. DMounted' /\ DRest'
  BY <1>3, <1>4, <1>5 DEF DMounted, DRest
<1> QED BY <1>1, <1>6 DEF DInv
\* A table of the cache that stays true.
LEMMA MapIs ==
  ASSUME NEW i, NEW s, NEW b, pool'[i].slot = s, logs'[s].blk = b, pool'[i].map = Rebuilt(b)'
  PROVE  MapTrue(i)'
BY DEF MapTrue, Rebuilt
\* A true map stays true if the entry, its log block and the pages stay.
LEMMA MapStays ==
  ASSUME NEW i, MapTrue(i), pool'[i].slot = pool[i].slot, pool'[i].map = pool[i].map,
         logs'[pool[i].slot].blk = logs[pool[i].slot].blk,
         flash'[logs[pool[i].slot].blk] = flash[logs[pool[i].slot].blk]
  PROVE  MapTrue(i)'
<1>1. PICK s : s = pool[i].slot
  OBVIOUS
<1>2. PICK b : b = logs[s].blk
  OBVIOUS
<1>3. Rebuilt(b)' = Rebuilt(b)
  BY <1>1, <1>2, SameBlock
<1>4. pool'[i].map = Rebuilt(b)'
  BY <1>1, <1>2, <1>3 DEF MapTrue
<1> QED BY <1>1, <1>2, <1>4, MapIs
\* The tables of the cache stay as they are.
LEMMA PoolData ==
  ASSUME IInv, DInv, UNCHANGED <<flash, data, logs, merge, pool>>, Mounted, Mounted', ~Merging,
         ~Placed, ~Placed', ReadOk'
  PROVE  DInv'
<1>1. MapsOk'
  <2> SUFFICES ASSUME NEW i \in Cached, pool'[i].slot # None PROVE MapTrue(i)'
    BY DEF MapsOk
  <2>1. MapTrue(i)
    BY DEF DInv, DMounted, MapsOk
  <2> QED BY <2>1, MapStays
<1> QED BY <1>1, ControlData
\* Step StartRead.
LEMMA StartReadData ==
  ASSUME IInv, JInv, DInv, NEW lb \in LogicBlk, StartRead(lb) PROVE DInv'
<1>1. /\ ~Merging /\ post = NoPost /\ op.kind = "idle" /\ op.step = "none"
      /\ op' = Op("read", lb, None, "lookup")
      /\ ctl' = IF ctl.lb = lb THEN ctl ELSE Accessed(lb)
      /\ IF ctl'.log # None /\ HasLog(lb) THEN post' = [slot |-> SlotOf(lb), step |-> "find"]
         ELSE UNCHANGED post
      /\ UNCHANGED <<flash, data, logs, merge, pool>>
  BY DEF StartRead, Ready, tables, maps, Switch
<1>2. Mounted /\ Mounted' /\ ~Placed /\ ~Placed' /\ op'.lb = lb
  BY <1>1 DEF Mounted, Placed, Op
<1>3. ReadOk'
  <2>1. HasLog(lb)' <=> HasLog(lb)
    BY <1>1 DEF HasLog
  <2>2. CASE ~HasLog(lb)
    BY <1>2, <2>1, <2>2 DEF ReadOk
  <2>3. CASE HasLog(lb)
    <3>1. ctl' = Accessed(lb)
      BY <1>1, Numbers DEF JInv, CtlFresh
    <3>2. LogOf(lb).blk \in Blk
      <4>1. Roles(data, logs, free)
        BY <1>2 DEF IInv, MountedOk
      <4>2. SlotOf(lb) \in Slot /\ logs[SlotOf(lb)].lb = lb /\ LogOf(lb) = logs[SlotOf(lb)]
        BY <2>3, <4>1, ItsLog
      <4> QED BY <4>1, <4>2, OneLog, Numbers
    <3>3. ctl'.log # None
      BY <3>1, <3>2, Numbers DEF Accessed
    <3>4. post' # NoPost
      BY <1>1, <2>3, <3>3 DEF NoPost
    <3> QED BY <3>4 DEF ReadOk, Quiet
  <2> QED BY <2>2, <2>3
<1> QED BY <1>1, <1>2, <1>3, PoolData
\* Step EndRead.
LEMMA EndReadData == ASSUME IInv, DInv, EndRead PROVE DInv'
<1>1. /\ ~Merging /\ op.kind = "read" /\ op' = Idle
      /\ UNCHANGED <<flash, data, logs, merge, pool>>
  BY DEF EndRead, Ready, tables, maps
<1>2. Mounted /\ Mounted' /\ ~Placed' /\ op'.kind # "read"
  BY <1>1 DEF Mounted, Placed, Op, Idle
<1>3. ~Placed
  BY <1>1, OpKinds DEF Placed, IInv, OpOk
<1> QED BY <1>1, <1>2, <1>3, PoolData DEF ReadOk
\* Step StartWrite.
LEMMA StartWriteData ==
  ASSUME IInv, DInv, NEW lb \in LogicBlk, NEW bank, StartWrite(lb, bank) PROVE DInv'
<1>1. /\ ~Merging /\ op.kind = "idle" /\ op.step = "none" /\ op' = Op("write", lb, bank, "log")
      /\ UNCHANGED <<flash, data, logs, merge, pool>>
  BY DEF StartWrite, Ready, tables, maps
<1>2. Mounted /\ Mounted' /\ ~Placed /\ ~Placed' /\ op'.kind # "read"
  BY <1>1 DEF Mounted, Placed, Op
<1> QED BY <1>1, <1>2, PoolData DEF ReadOk
\* Step StartExit.
LEMMA StartExitData == ASSUME IInv, DInv, StartExit PROVE DInv'
<1>1. /\ ~Merging /\ op.kind = "idle" /\ op.step = "none" /\ op' = Op("exit", None, None, "flush")
      /\ UNCHANGED <<flash, data, logs, merge, pool>>
  BY DEF StartExit, Ready, tables, maps
<1>2. Mounted /\ Mounted' /\ ~Placed /\ ~Placed' /\ op'.kind # "read"
  BY <1>1 DEF Mounted, Placed, Op
<1> QED BY <1>1, <1>2, PoolData DEF ReadOk
\* A write goes on to its next step.
LEMMA WriteGoesOn ==
  ASSUME IInv, DInv, op.kind = "write", op.step \in {"log", "info"}, ~Merging,
         NEW step \in {"page", "victim", "log"}, op' = [op EXCEPT !.step = step],
         UNCHANGED <<flash, data, logs, merge, pool>>
  PROVE  DInv'
<1>1. op \in WriteType
  BY OpKinds DEF IInv, OpOk
<1>2. Mounted /\ Mounted' /\ ~Placed /\ ~Placed' /\ op'.kind # "read"
  BY <1>1 DEF Mounted, Placed, WriteType
<1> QED BY <1>2, PoolData DEF ReadOk
\* Step UseLog.
LEMMA UseLogData == ASSUME IInv, DInv, UseLog PROVE DInv'
<1>1. /\ ~Merging /\ op.kind = "write" /\ op.step = "log" /\ op' = [op EXCEPT !.step = "page"]
      /\ UNCHANGED <<flash, data, logs, merge, pool>>
  BY DEF UseLog, Ready, tables, maps, GoTo
<1> QED BY <1>1, WriteGoesOn
\* Step PickVictim.
LEMMA PickVictimData == ASSUME IInv, DInv, NEW s \in Slot, PickVictim(s) PROVE DInv'
<1>1. /\ ~Merging /\ op.kind = "write" /\ op.step = "log" /\ op' = [op EXCEPT !.step = "victim"]
      /\ UNCHANGED <<flash, data, logs, merge, pool>>
  BY DEF PickVictim, Ready, tables, maps, GoTo
<1> QED BY <1>1, WriteGoesOn
\* The data block of a log block is known for what it is.
LEMMA WriteDataInfoData == ASSUME IInv, DInv, WriteDataInfo PROVE DInv' /\ UNCHANGED flash
<1>1. /\ ~Merging /\ op.kind = "write" /\ op.step = "info" /\ op' = [op EXCEPT !.step = "log"]
      /\ IF flash[data[op.lb]][0].info = None
         THEN Program(data[op.lb], 0, PageRecord(op.lb, None, FreeMark, Nothing))
         ELSE UNCHANGED flash
      /\ UNCHANGED <<data, logs, merge, pool>>
  BY DEF WriteDataInfo, Ready, tables, maps, GoTo
<1>2. op.lb \in LogicBlk /\ Mounted
  BY <1>1, OpKinds DEF WriteType, IInv, OpOk, Mounted
<1>3. Own(data, logs, op.lb)
  BY <1>1, <1>2 DEF DInv, DMounted, InMerges
<1>4. data[op.lb] \in Of(op.lb)
  BY <1>3 DEF Own, Fam
<1>5. flash[data[op.lb]][0].info # None
  BY <1>2, <1>4, Numbers DEF Of
<1>6. UNCHANGED <<flash, data, logs, merge, pool>>
  BY <1>1, <1>5
<1> QED BY <1>1, <1>6, WriteGoesOn
\* A step of a switch is one of a call.
LEMMA SwitchCalm ==
  ASSUME IInv, Switching, op' = op
  PROVE  /\ Mounted /\ Mounted' /\ ~Merging /\ post # NoPost /\ ~Placed /\ ~Placed'
         /\ op.kind = "read" => post.slot # None
<1>1. /\ post # NoPost /\ ~Merging /\ Mounted /\ op.step \notin {"info", "place", "failed"}
      /\ post.slot = None <=> op.kind = "exit"
  BY InSwitch
<1> QED BY <1>1 DEF Mounted, Placed
\* Step CacheHit.
LEMMA CacheHitData == ASSUME IInv, JInv, DInv, NEW i \in Cached, CacheHit(i) PROVE DInv'
<1>1. /\ Switching /\ pool[i].slot = post.slot /\ cur' = i /\ op' = op
      /\ UNCHANGED <<flash, data, logs, merge, pool>>
  BY DEF CacheHit, tables
<1>2. /\ Mounted /\ Mounted' /\ ~Merging /\ post # NoPost /\ ~Placed /\ ~Placed'
      /\ op.kind = "read" => post.slot # None
  BY <1>1, SwitchCalm
<1>3. ReadOk'
  BY <1>1, <1>2 DEF ReadOk, EntrySlot, JInv, ReadAt
<1> QED BY <1>1, <1>2, <1>3, PoolData
\* Step PickEntry.
LEMMA PickEntryData == ASSUME IInv, DInv, NEW i \in Cached, PickEntry(i) PROVE DInv'
<1>1. /\ Switching /\ op' = op /\ UNCHANGED <<flash, data, logs, merge, pool>>
      /\ post' = [post EXCEPT !.step = "write"] \/ post' = [post EXCEPT !.step = "read"]
  BY DEF PickEntry, tables, PostTo
<1>2. /\ Mounted /\ Mounted' /\ ~Merging /\ post # NoPost /\ ~Placed /\ ~Placed'
      /\ op.kind = "read" => post.slot # None
  BY <1>1, SwitchCalm
<1>3. post' # NoPost
  <2>1. PostType
    BY <1>2 DEF IInv, PostOk
  <2> QED BY <1>1, <2>1 DEF PostType, NoPost
<1> QED BY <1>1, <1>2, <1>3, PoolData DEF ReadOk, Quiet
\* Step TableMerged.
LEMMA TableMergedData == ASSUME IInv, DInv, TableMerged PROVE DInv'
<1>1. /\ Switching /\ op' = op /\ UNCHANGED <<flash, data, logs, merge, pool>>
      /\ post' = [post EXCEPT !.step = "read"]
  BY DEF TableMerged, tables, maps, PostTo
<1>2. /\ Mounted /\ Mounted' /\ ~Merging /\ post # NoPost /\ ~Placed /\ ~Placed'
      /\ op.kind = "read" => post.slot # None
  BY <1>1, SwitchCalm
<1>3. post' # NoPost
  <2>1. PostType
    BY <1>2 DEF IInv, PostOk
  <2> QED BY <1>1, <2>1 DEF PostType, NoPost
<1> QED BY <1>1, <1>2, <1>3, PoolData DEF ReadOk, Quiet
\* Step FlushEntry.
LEMMA FlushEntryData == ASSUME IInv, DInv, NEW i \in Cached, FlushEntry(i) PROVE DInv'
<1>1. /\ ~Merging /\ op.kind = "exit" /\ op.step = "flush" /\ op' = op
      /\ UNCHANGED <<flash, data, logs, merge, pool>>
  BY DEF FlushEntry, tables, Ready
<1>2. Mounted /\ Mounted' /\ ~Placed /\ ~Placed' /\ op'.kind # "read"
  BY <1>1 DEF Mounted, Placed
<1> QED BY <1>1, <1>2, PoolData DEF ReadOk
\* Step EntryWritten.
LEMMA EntryWrittenData == ASSUME IInv, DInv, EntryWritten PROVE DInv'
<1>1. /\ Switching /\ op' = op /\ UNCHANGED <<flash, data, logs, merge>>
      /\ pool' = [pool EXCEPT ![cur].dirty = FALSE] /\ post.slot = None
  BY DEF EntryWritten, tables
<1>2. /\ Mounted /\ Mounted' /\ ~Merging /\ post # NoPost /\ ~Placed /\ ~Placed'
      /\ op.kind = "read" => post.slot # None
  BY <1>1, SwitchCalm
<1>3. \A i \in Cached : pool'[i].slot = pool[i].slot /\ pool'[i].map = pool[i].map
  BY <1>1 DEF IInv, PoolOk, EntryType
<1>4. MapsOk'
  <2> SUFFICES ASSUME NEW i \in Cached, pool'[i].slot # None PROVE MapTrue(i)'
    BY DEF MapsOk
  <2>1. MapTrue(i)
    BY <1>2, <1>3 DEF DInv, DMounted, MapsOk
  <2> QED BY <1>1, <1>3, <2>1, MapStays
<1> QED BY <1>1, <1>2, <1>4, ControlData DEF ReadOk
\* A table that is read is the one a rebuild would give.
LEMMA StoredTrue ==
  ASSUME IInv, DInv, Mounted, NEW s \in InUse, LastOk(logs, s)
  PROVE  StoredMap(s) = Rebuilt(logs[s].blk)
<1>1. logs[s].blk \in Blk /\ logs[s].last \in Page \cup {None} /\ s \in Slot
  BY DEF IInv, MountedOk, Roles, Used, InUse
<1> DEFINE b == logs[s].blk
           q == logs[s].last
<1>2. CASE q = None
  BY <1>2, ErasedShape DEF LastOk, StoredMap
<1>3. CASE q # None /\ MustRebuild(s)
  BY <1>3 DEF StoredMap
<1>4. CASE q # None /\ ~MustRebuild(s)
  <2>1. q \in Page /\ IsTable(flash[b][q]) /\ HasLast(b, q) /\ Shape(b)
    BY <1>1, <1>4 DEF MustRebuild, LastOk, DInv
  <2>2. flash[b][q].main.map = Rebuilt(b)
    BY <2>1 DEF Shape, HasLast
  <2> QED BY <1>4, <2>2 DEF StoredMap
<1> QED BY <1>2, <1>3, <1>4
\* Step ReadTable.
LEMMA ReadTableData == ASSUME IInv, JInv, DInv, ReadTable PROVE DInv'
<1> DEFINE s == post.slot
           m == StoredMap(post.slot)
<1>1. /\ Switching /\ op' = op /\ UNCHANGED <<flash, data, logs, merge, cur>> /\ s # None
      /\ pool' = [pool EXCEPT ![cur] = [slot |-> s, dirty |-> MustRebuild(s), map |-> m]]
  BY DEF ReadTable, tables
<1>2. /\ Mounted /\ Mounted' /\ ~Merging /\ post # NoPost /\ ~Placed /\ ~Placed'
  BY <1>1, SwitchCalm
<1>3. s \in InUse /\ cur \in Cached
  BY <1>1, <1>2 DEF IInv, PostOk, PoolOk
<1>4. m = Rebuilt(logs[s].blk)
  <2>1. LastOk(logs, s)
    BY <1>2, <1>3 DEF DInv, DMounted, LastsOk
  <2> QED BY <1>2, <1>3, <2>1, StoredTrue
<1> HIDE DEF s, m
<1>5. /\ pool'[cur].slot = s /\ pool'[cur].map = m
      /\ \A i \in Cached : i # cur => pool'[i] = pool[i]
  <2>1. pool = [i \in Cached |-> pool[i]]
    BY DEF IInv, PoolOk
  <2> QED BY <1>1, <1>3, <2>1
<1>6. MapsOk'
  <2> SUFFICES ASSUME NEW i \in Cached, pool'[i].slot # None PROVE MapTrue(i)'
    BY DEF MapsOk
  <2>1. CASE i = cur
    <3>1. PICK b : b = logs[s].blk
      OBVIOUS
    <3>2. Rebuilt(b)' = Rebuilt(b)
      BY <1>1, SameBlock
    <3>3. PICK t : t = s
      OBVIOUS
    <3>4. pool'[i].slot = t /\ logs'[t].blk = b /\ pool'[i].map = Rebuilt(b)'
      BY <1>1, <1>4, <1>5, <2>1, <3>1, <3>2, <3>3
    <3> QED BY <3>4, MapIs
  <2>2. CASE i # cur
    <3>1. MapTrue(i) /\ pool'[i] = pool[i]
      BY <1>2, <1>5, <2>2 DEF DInv, DMounted, MapsOk
    <3> QED BY <1>1, <3>1, MapStays
  <2> QED BY <2>1, <2>2
<1>7. ReadOk'
  <2>1. op.kind = "read" => logs[s].lb = op.lb
    BY <1>2 DEF JInv, ReadAt, s
  <2> QED BY <1>1, <1>5, <2>1 DEF ReadOk, EntrySlot
<1> QED BY <1>1, <1>2, <1>6, <1>7, ControlData

(***************************************************************************)
(* The beginning of a merge, and of a log block.                           *)
(***************************************************************************)
\* What a merge knows after a step, in terms of its blocks.
LEMMA MergeDataIs ==
  ASSUME NEW kind, NEW step, NEW lb, NEW e, NEW log, NEW dst, NEW n, NEW d,
         merge'.kind = kind, merge'.step = step, merge'.lb = lb, merge'.dst = dst,
         merge'.next = n, EntrySlot' = e, logs'[e].blk = log, data'[lb] = d,
         kind # "move" => Dense(dst, lb, n)' /\ EmptyFrom(dst, n)',
         kind = "simple" /\ step # "erase" =>
           map' = Rebuilt(log)' /\ (Written0(dst)' # None => Target2(d, dst)'),
         kind = "move" => MoveData(log, dst, lb)',
         kind # "swap" /\ step # "erase" => Fam(lb, d, Written0(log), Written0(dst))',
         step = "erase" => IF Written0(log)' = None THEN Fam(lb, dst, None, None)'
                           ELSE Fam(lb, log, dst, None)'
  PROVE  MergeData'
<1>1. kind # "move" => Dense(merge.dst, merge.lb, merge.next)' /\ EmptyFrom(merge.dst, merge.next)'
  BY DEF Dense, EmptyFrom, Good
<1> QED BY <1>1 DEF MergeData
\* Outside merges the tables are true of every logical block.
LEMMA AllOwn ==
  ASSUME IInv, DInv, Mounted, ~Merging, UNCHANGED <<flash, data, logs>>
  PROVE  \A lb \in LogicBlk : Own(data, logs, lb) /\ Own(data, logs, lb)'
<1> SUFFICES ASSUME NEW lb \in LogicBlk PROVE Own(data, logs, lb) /\ Own(data, logs, lb)'
  OBVIOUS
<1>1. Own(data, logs, lb)
  BY DEF DInv, DMounted, InMerges
<1>2. Roles(data, logs, free)
  BY DEF IInv, MountedOk
<1> QED BY <1>1, <1>2, OwnSame
\* A log block with every mapped page in its place has them without a gap.
LEMMA InOrderDense ==
  ASSUME FlashInv, NEW lb \in LogicBlk, NEW log \in Blk, NEW q \in Page, NEW d \in Blk,
         Shape(log), HasLast(log, q), map = Rebuilt(log), Fam(lb, d, log, None),
         \A p \in Mapped(map) : map[p] = p, Cardinality(Mapped(map)) >= q + 1
  PROVE  Dense(log, lb, q + 1) /\ EmptyFrom(log, q + 1)
<1>1. \A p \in Mapped(map) : p \in Page /\ p <= q
  <2> SUFFICES ASSUME NEW p \in Mapped(map) PROVE p \in Page /\ p <= q
    OBVIOUS
  <2>1. p \in Page /\ Rebuilt(log)[p] = p /\ p # None
    BY Numbers DEF Mapped
  <2>2. flash[log][p].lpn = p
    BY <2>1, RebuiltIs
  <2>3. IsUsed(flash[log][p])
    BY <2>1, <2>2 DEF IsUsed
  <2>4. ~(p > q)
    BY <2>1, <2>3 DEF HasLast
  <2> QED BY <2>1, <2>4, Numbers
<1>2. Mapped(map) \subseteq 0 .. q /\ q \in Nat
  <2>1. q \in Nat /\ \A p \in Page : p \in Nat
    BY Numbers
  <2> DEFINE M == Mapped(map)
  <2>2. \A p \in M : p \in Nat /\ p <= q
    BY <1>1, <2>1
  <2> HIDE DEF M
  <2>3. M \subseteq 0 .. q
    BY <2>1, <2>2
  <2> QED BY <2>1, <2>3 DEF M
<1>3. Mapped(map) = 0 .. q
  <2>1. IsFiniteSet(0 .. q) /\ Cardinality(0 .. q) = q + 1
    BY <1>2, FS_Interval
  <2> DEFINE M == Mapped(map)
  <2>2. M \subseteq 0 .. q
    BY <1>2
  <2> HIDE DEF M
  <2>3. IsFiniteSet(M) /\ Cardinality(M) <= q + 1 /\ (Cardinality(M) = q + 1 => M = 0 .. q)
    BY <2>1, <2>2, FS_Subset
  <2>4. Cardinality(M) \in Nat
    BY <2>3, FS_CardinalityType
  <2> QED BY <1>2, <2>3, <2>4 DEF M
<1>4. Dense(log, lb, q + 1)
  <2> SUFFICES ASSUME NEW p \in Page, p < q + 1 PROVE Good(flash[log][p], lb, p)
    BY DEF Dense
  <2>1. p \in Mapped(map) /\ log # None /\ p # None
    BY <1>2, <1>3, Numbers
  <2>2. Rebuilt(log)[p] = p
    BY <2>1
  <2>3. FoundAt(d, log, p) = flash[log][p]
    BY <2>1, <2>2 DEF FoundAt
  <2> QED BY <2>3 DEF Fam
<1>5. EmptyFrom(log, q + 1)
  <2> SUFFICES ASSUME NEW p \in Page, p >= q + 1 PROVE flash[log][p] = Erased
    BY DEF EmptyFrom
  <2>1. p > q /\ p > 0
    BY <1>2, Numbers
  <2> QED BY <2>1 DEF HasLast, Shape
<1> QED BY <1>4, <1>5
\* The beginning of a merge, whatever has asked for it.
LEMMA StartMergeData ==
  ASSUME IInv, DInv, ~Merging, Mounted, Mounted', EntrySlot # None,
         NEW mode \in {"normal", "special"}, StartMerge(mode, logs[EntrySlot].lb),
         mode = "special" => LineUsed(logs[EntrySlot].blk, LineCnt - 1),
         ~Placed, ~Placed', op'.kind = "read" => post' # NoPost,
         UNCHANGED <<flash, data, logs, pool, cur>>
  PROVE  DInv'
<1>1. PICK e : e = EntrySlot
  OBVIOUS
<1>2. PICK lb, log, q : lb = logs[e].lb /\ log = logs[e].blk /\ q = logs[e].last
  OBVIOUS
<1>3. PICK d : d = data[lb]
  OBVIOUS
<1>4. e \in Slot /\ lb # None /\ EntrySlot' = e /\ cur \in Cached
  BY <1>1, <1>2 DEF IInv, PoolOk, InUse, EntrySlot
<1>5. Roles(data, logs, free) /\ Marks(data, logs, free, Unnamed)
  BY DEF IInv, MountedOk
<1>6. lb \in LogicBlk /\ log \in Blk /\ LogOf(lb) = logs[e] /\ d \in Blk /\ q \in Page \cup {None}
  BY <1>2, <1>3, <1>4, <1>5, OneLog DEF Roles, Used
<1>7. map = Rebuilt(log) /\ LastOk(logs, e) /\ e \in InUse
  <2>1. e \in InUse
    BY <1>2, <1>4 DEF InUse
  <2>2. MapTrue(cur)
    BY <1>1, <1>4 DEF DInv, DMounted, MapsOk, EntrySlot
  <2> QED BY <1>1, <1>2, <2>1, <2>2 DEF MapTrue, map, EntrySlot, DInv, DMounted, LastsOk
<1>8. \A x \in LogicBlk : Own(data, logs, x) /\ Own(data, logs, x)'
  BY AllOwn
<1>9. Fam(lb, d, Written0(log), None)
  <2>1. LogIn(logs, lb) = Written0(log)
    BY <1>2, <1>4, <1>5, <1>6, LogInIs
  <2> QED BY <1>3, <1>6, <1>8, <2>1 DEF Own
<1>10. Written0(log)' = Written0(log) /\ Written0(log) \in Blk \cup {None} /\ Rebuilt(log)' = Rebuilt(log)
  BY <1>6, SameBlock DEF Written0
<1>11. \/ /\ InOrder(lb)
          /\ merge' = [kind |-> "swap", lb |-> lb, dst |-> log, next |-> q + 1, step |-> "copy"]
       \/ \E b \in free, k \in {"move", "simple"} :
            /\ merge' = [kind |-> k, lb |-> lb, dst |-> b, next |-> 0, step |-> "copy"]
            /\ k = "move" => mode = "special"
  BY <1>1, <1>2, <1>6 DEF StartMerge, MergeKind
<1>12. MergeData' /\ Merging'
  <2>1. CASE /\ InOrder(lb)
             /\ merge' = [kind |-> "swap", lb |-> lb, dst |-> log, next |-> q + 1, step |-> "copy"]
    <3>1. /\ \A p \in Mapped(map) : map[p] = p
          /\ q >= 0 /\ Cardinality(Mapped(map)) >= q + 1
      BY <1>2, <1>6, <2>1 DEF InOrder
    <3>2. q # None /\ q \in Page
      BY <1>6, <3>1 DEF None
    <3>3. HasLast(log, q) /\ Shape(log)
      BY <1>2, <1>6, <1>7, <3>2 DEF LastOk, DInv
    <3>4. Written0(log) = log
      <4>1. flash[log][0].info = lb
        BY <1>2, <1>4, <1>5, <1>7, <3>2 DEF Marks, Used
      <4> QED BY <1>4, <4>1 DEF Written0
    <3>5. Dense(log, lb, q + 1) /\ EmptyFrom(log, q + 1)
      BY <1>6, <1>7, <1>9, <3>1, <3>2, <3>3, <3>4, InOrderDense DEF IInv
    <3> DEFINE n == q + 1
    <3>6. Dense(log, lb, n)' /\ EmptyFrom(log, n)'
      BY <3>5 DEF Dense, EmptyFrom, Good
    <3>7. merge'.kind = "swap" /\ merge'.step = "copy" /\ merge'.lb = lb /\ merge'.dst = log
          /\ merge'.next = n /\ logs'[e].blk = log /\ data'[lb] = d /\ Merging'
      BY <1>2, <1>3, <2>1 DEF Merging, NoMerge
    <3> HIDE DEF n
    <3> QED BY <1>4, <3>6, <3>7, MergeDataIs
  <2>2. ASSUME NEW b \in free, NEW k \in {"move", "simple"},
               merge' = [kind |-> k, lb |-> lb, dst |-> b, next |-> 0, step |-> "copy"],
               k = "move" => mode = "special"
        PROVE  MergeData' /\ Merging'
    <3>1. merge'.kind = k /\ merge'.step = "copy" /\ merge'.lb = lb /\ merge'.dst = b
          /\ merge'.next = 0 /\ logs'[e].blk = log /\ data'[lb] = d /\ Merging'
      BY <1>2, <1>3, <2>2 DEF Merging, NoMerge
    <3>2. flash[b] = ErasedBlk /\ flash'[b] = ErasedBlk
      BY <1>5 DEF Marks
    <3>3. Dense(b, lb, 0)' /\ EmptyFrom(b, 0)'
      BY <3>2, Numbers DEF Dense, EmptyFrom, ErasedBlk
    <3>4. Written0(b)' = None
      BY <3>2, ErasedNext DEF ErasedFacts
    <3>5. k = "simple" => map' = Rebuilt(log)' /\ (Written0(b)' # None => Target2(d, b)')
      <4>1. map' = map
        BY DEF map
      <4> QED BY <1>7, <1>10, <3>4, <4>1
    <3>6. Fam(lb, d, Written0(log), Written0(b))'
      <4>1. PICK l \in Blk \cup {None} : l = Written0(log)
        BY <1>10
      <4>2. Of(lb)' = Of(lb)
        BY DEF Of
      <4>3. Fam(lb, d, l, None)'
        BY <1>6, <1>9, <4>1, <4>2, FamSame
      <4> QED BY <1>10, <3>4, <4>1, <4>3
    <3>7. k = "move" => MoveData(log, b, lb)'
      <4> SUFFICES ASSUME k = "move" PROVE MoveData(log, b, lb)'
        OBVIOUS
      <4>1. LineUsed(log, LineCnt - 1)'
        BY <1>1, <1>2, <2>2, SameBlock
      <4>2. map' = map /\ Mapped(map)' = Mapped(map)
        BY DEF map, Mapped
      <4>3. \A p \in Mapped(map)' : ~(Done(p))'
        <5> SUFFICES ASSUME NEW p \in Mapped(map)' PROVE ~(Done(p))'
          OBVIOUS
        <5> DEFINE S == {x \in Mapped(map) : Before(x, p)}
        <5>1. Place(p)' = Cardinality(S)
          BY <4>2 DEF Place
        <5>2. S \in SUBSET (0 .. PageCnt - 1) /\ 0 \in Int /\ PageCnt - 1 \in Int
          BY Numbers DEF Mapped, Page
        <5> HIDE DEF S
        <5>3. Cardinality(S) \in Nat
          BY <5>2, PartOfInterval
        <5> QED BY <3>1, <5>1, <5>3 DEF Done
      <4>4. \A p \in Mapped(map)' : map'[p] = Rebuilt(log)'[p]
        BY <1>7, <1>10, <4>2
      <4>5. \A t \in Page : flash'[b][t] = Erased /\ flash'[b][t].lpn = None
        BY <3>2 DEF ErasedBlk, Erased, PageRecord
      <4>6. Mapped(map)' = Mapped(Rebuilt(log))'
        BY <1>7, <1>10, <4>2 DEF Mapped
      <4> QED BY <3>1, <3>4, <4>1, <4>3, <4>4, <4>5, <4>6 DEF MoveData
    <3>8. k # "move" => Dense(b, lb, 0)' /\ EmptyFrom(b, 0)'
      BY <3>3
    <3> QED BY <1>4, <3>1, <3>5, <3>6, <3>7, <3>8, MergeDataIs
  <2> QED BY <1>11, <2>1, <2>2
<1>13. LastsOk' /\ PlaceOk' /\ ReadOk'
  BY <1>12 DEF DInv, DMounted, LastsOk, LastOk, HasLast, InUse, PlaceOk, ReadOk, Quiet
<1>14. MapsOk'
  <2> SUFFICES ASSUME NEW i \in Cached, pool'[i].slot # None PROVE MapTrue(i)'
    BY DEF MapsOk
  <2>1. MapTrue(i)
    BY DEF DInv, DMounted, MapsOk
  <2> QED BY <2>1, MapStays
<1>15. \A b \in Blk : Shape(b)'
  BY SameBlock DEF DInv
<1> QED BY <1>8, <1>12, <1>13, <1>14, <1>15 DEF DInv, DMounted, DRest
\* The last page of a block is in its last line.
LEMMA LastLine ==
  ASSUME NEW b \in Blk, NEW q \in Page, HasLast(b, q), q > 0, q \div Banks >= LineCnt - 1
  PROVE  LineUsed(b, LineCnt - 1)
<1>1. LineCnt - 1 \in 0 .. LineCnt - 1 /\ q \div Banks = LineCnt - 1
  BY Lines, LineOfPage
<1>2. IsUsed(flash[b][q])
  BY DEF HasLast
<1> QED BY <1>1, <1>2, UsedLine
\* Step MergeForTable.
LEMMA MergeForTableData == ASSUME IInv, DInv, MergeForTable PROVE DInv'
<1>1. /\ Switching /\ post.step = "write" /\ TablePage = PageCnt
      /\ StartMerge("special", logs[EntrySlot].lb)
      /\ post' = [post EXCEPT !.step = "merged"] /\ op' = op
      /\ UNCHANGED <<flash, data, logs, pool, cur>>
  BY DEF MergeForTable, maps, PostTo
<1>2. Mounted /\ Mounted' /\ ~Merging /\ post # NoPost /\ ~Placed /\ ~Placed'
  BY <1>1, SwitchCalm
<1>3. post' # NoPost
  <2>1. PostType
    BY <1>2 DEF IInv, PostOk
  <2> QED BY <1>1, <2>1 DEF PostType, NoPost
<1> DEFINE e == EntrySlot
           q == logs[e].last
<1>4. e # None /\ q # None /\ e \in InUse /\ e \in Slot
  BY <1>1, <1>2 DEF IInv, PostOk, PoolOk, EntrySlot, InUse
<1>5. q \in Page /\ logs[e].blk \in Blk
  <2>1. Roles(data, logs, free) /\ e \in Used(logs)
    BY <1>2, <1>4 DEF IInv, MountedOk, Used, InUse
  <2> HIDE DEF e
  <2>2. logs[e].blk \in Blk /\ logs[e].last \in Page \cup {None}
    BY <2>1 DEF Roles
  <2> QED BY <1>4, <2>2
<1>6. HasLast(logs[e].blk, q)
  BY <1>2, <1>4 DEF DInv, DMounted, LastsOk, LastOk
<1>7. (q + 1) % 65536 = PageCnt
  BY <1>1 DEF TablePage, U16
<1> HIDE DEF q
<1>8. q = PageCnt - 1 /\ q > 0
  <2>1. q + 1 \in 0 .. PageCnt /\ PageCnt < 65536 /\ PageCnt \in Nat /\ q \in Nat /\ PageCnt > 1
    BY <1>5, Numbers, PageNumberAssumption DEF Page
  <2>2. (q + 1) % 65536 = q + 1
    BY <2>1
  <2> QED BY <1>7, <2>1, <2>2
<1>9. q \div Banks >= LineCnt - 1
  <2> DEFINE l == q \div Banks
  <2>1. l \in 0 .. LineCnt - 1 /\ q % Banks \in 0 .. Banks - 1 /\ q = l * Banks + (q % Banks)
    BY <1>5, LineOfPage
  <2>2. Banks \in Nat /\ LineCnt \in Nat /\ PageCnt = LineCnt * Banks
    BY Numbers, Lines
  <2> HIDE DEF l
  <2>3. ~(l + 1 <= LineCnt - 1)
    <3> SUFFICES ASSUME l + 1 <= LineCnt - 1 PROVE FALSE
      OBVIOUS
    <3>1. Banks * (l + 2) <= Banks * LineCnt
      BY <2>1, <2>2, MulLe
    <3>2. Banks * (l + 2) = l * Banks + Banks + Banks /\ Banks * LineCnt = PageCnt /\ l * Banks \in Nat
      BY <2>1, <2>2
    <3> QED BY <1>8, <2>1, <2>2, <3>1, <3>2
  <2> QED BY <2>1, <2>2, <2>3 DEF l
<1>10. LineUsed(logs[e].blk, LineCnt - 1)
  BY <1>5, <1>6, <1>8, <1>9, LastLine
<1> QED BY <1>1, <1>2, <1>3, <1>4, <1>10, StartMergeData
\* Step MergeVictim.
LEMMA MergeVictimData == ASSUME IInv, DInv, MergeVictim PROVE DInv'
<1>1. /\ ~Merging /\ post = NoPost /\ op.kind = "write" /\ op.step = "victim"
      /\ StartMerge("normal", logs[EntrySlot].lb)
      /\ op' = [op EXCEPT !.step = "log", !.slot = EntrySlot]
      /\ UNCHANGED <<flash, data, logs, pool, cur>>
  BY DEF MergeVictim, maps, Ready
<1>2. EntrySlot # None /\ op \in WriteType /\ EntrySlot \in Slot
  BY <1>1, OpKinds DEF IInv, OpOk, VictimOk, Quiet, PoolOk, InUse, EntrySlot
<1>3. Mounted /\ Mounted' /\ ~Placed /\ ~Placed' /\ op'.kind # "read"
  BY <1>1, <1>2 DEF WriteType, Mounted, Placed
<1> QED BY <1>1, <1>2, <1>3, StartMergeData
\* Step MergeFullLog.
LEMMA MergeFullLogData == ASSUME Align, IInv, DInv, MergeFullLog PROVE DInv'
<1>1. /\ ~Merging /\ post = NoPost /\ op.kind = "write" /\ op.step \in {"page", "place"}
      /\ StartMerge("special", op.lb) /\ LogPageForWrite >= PageCnt
      /\ op' = [op EXCEPT !.step = "log", !.again = TRUE]
      /\ UNCHANGED <<flash, data, logs, pool, cur>>
  BY DEF MergeFullLog, maps, Ready, Placing
<1> DEFINE e == EntrySlot
           q == logs[e].last
<1>2. /\ e # None /\ logs[e].lb = op.lb /\ op \in WriteType /\ e \in Slot
      /\ LastUsed = q /\ q \in Page \cup {None} /\ logs[e].blk \in Blk /\ e \in InUse
  BY <1>1, AtLog, OpKinds DEF IInv, OpOk, WriteType
<1>3. Mounted /\ Mounted' /\ ~Placed' /\ op'.kind # "read"
  BY <1>1, <1>2 DEF WriteType, Mounted, Placed
<1>4. ~Room(q)
  <2> SUFFICES ASSUME Room(q) PROVE FALSE
    OBVIOUS
  <2>1. LogPageForWrite < PageCnt
    BY <1>1, RoomForWrite
  <2>2. LogPageForWrite \in Int
    <3>1. LastUsed \in Int /\ op.bank \in Int /\ Banks \in Nat /\ Banks > 0
      BY <1>2, Numbers DEF WriteType, BankSet, BankOf, None, Page
    <3> QED BY <3>1 DEF LogPageForWrite, U16
  <2> QED BY <1>1, <2>1, <2>2, Numbers
<1>5. q # None /\ q \in Page /\ q \div Banks >= LineCnt - 1
  <2>1. q # None /\ q \in Page /\ ~(q \div Banks < LineCnt - 1)
    BY <1>2, <1>4 DEF Room
  <2>2. q \div Banks \in 0 .. LineCnt - 1 /\ LineCnt \in Nat
    BY <2>1, LineOfPage, Lines
  <2> QED BY <2>1, <2>2
<1>6. ~Placed
  BY <1>2, <1>5 DEF Placed, NeedsLogInfo, DInv, DMounted, PlaceOk, Mounted, WriteType
<1>7. HasLast(logs[e].blk, q)
  BY <1>1, <1>2, <1>3, <1>5, <1>6 DEF DInv, DMounted, LastsOk, LastOk
<1>8. q > 0
  <2>1. q \in Nat /\ q # 0
    <3>1. CASE q = 0
      <4>1. 0 \div Banks = 0
        BY Numbers
      <4> HIDE DEF q
      <4> QED BY <1>5, <3>1, <4>1, Lines
    <3> QED BY <1>5, <3>1, Numbers
  <2> HIDE DEF q
  <2> QED BY <2>1
<1>9. LineUsed(logs[e].blk, LineCnt - 1)
  <2> HIDE DEF q, e
  <2> QED BY <1>2, <1>5, <1>7, <1>8, LastLine
<1>10. StartMerge("special", logs[EntrySlot].lb)
  BY <1>1, <1>2
<1> QED BY <1>1, <1>2, <1>3, <1>6, <1>9, <1>10, StartMergeData

(***************************************************************************)
(* Steps that write a log block or the target of a merge.                  *)
(***************************************************************************)
\* The log block of a logical block before and after a step.
LogInFacts(e, lb) == Roles(data, logs, free) /\ logs[e].lb = lb => LogIn(logs, lb) = Written0(logs[e].blk)
\* LogInIs of every slot and logical block, before and after a step.
LEMMA LogInNow == \A e \in Slot, lb \in LogicBlk : LogInFacts(e, lb)
BY LogInIs DEF LogInFacts
\* The same of the log block after the step.
LEMMA LogInNext == \A e \in Slot, lb \in LogicBlk : LogInFacts(e, lb)'
<1>1. (\A e \in Slot, lb \in LogicBlk : LogInFacts(e, lb))'
  BY LogInNow, PTL
<1> QED BY <1>1
\* What is left to show of a step with the blocks of lb, whose item is e.
LEMMA StepData ==
  ASSUME IInv, DInv, Mounted, Mounted', NEW lb \in LogicBlk, NEW e \in Slot, OthersStay(lb, e),
         Merging => merge.lb = lb, Merging \/ Placed => EntrySlot = e,
         \A c \in Blk : flash'[c] = flash[c] \/ Shape(c)',
         InMerges(lb)' \/ Own(data, logs, lb)',
         \/ logs'[e].lb = None
         \/ Merging' /\ merge'.kind = "swap" /\ e = EntrySlot'
         \/ Placed' /\ e = EntrySlot'
         \/ LastOk(logs, e)',
         \A i \in Cached : pool'[i].slot \notin {None, e} =>
           pool[i].slot = pool'[i].slot /\ pool[i].map = pool'[i].map,
         \A i \in Cached : pool'[i].slot = e => (Merging' /\ i = cur') \/ MapTrue(i)',
         PlaceOk', MergeData', ReadOk'
  PROVE  DInv'
<1>1. Roles(data, logs, free)
  BY DEF IInv, MountedOk
<1>2. /\ \A x \in LogicBlk : x # lb /\ Own(data, logs, x) => Own(data, logs, x)'
      /\ \A s \in Slot : s # e /\ logs[s].lb # None /\ LastOk(logs, s) => LastOk(logs, s)'
      /\ \A s \in Slot : s # e /\ logs[s].lb # None =>
           Rebuilt(logs[s].blk)' = Rebuilt(logs[s].blk)
  BY <1>1, OthersKeep
<1>3. ASSUME NEW x \in LogicBlk PROVE InMerges(x)' \/ Own(data, logs, x)'
  <2>1. CASE x = lb
    BY <2>1
  <2>2. CASE x # lb
    <3>1. Own(data, logs, x)
      BY <2>2 DEF DInv, DMounted, InMerges
    <3> QED BY <1>2, <2>2, <3>1
  <2> QED BY <2>1, <2>2
<1>4. LastsOk'
  <2> SUFFICES ASSUME NEW s \in InUse'
               PROVE  \/ Merging' /\ merge'.kind = "swap" /\ s = EntrySlot'
                      \/ Placed' /\ s = EntrySlot'
                      \/ LastOk(logs, s)'
    BY DEF LastsOk
  <2>1. s \in Slot /\ logs'[s].lb # None
    BY DEF InUse
  <2>2. CASE s = e
    BY <2>1, <2>2
  <2>3. CASE s # e
    <3>1. logs'[s] = logs[s] /\ s \in InUse /\ logs[s].lb # None
      BY <2>1, <2>3 DEF OthersStay, InUse
    <3>2. LastOk(logs, s)
      BY <2>3, <3>1 DEF DInv, DMounted, LastsOk
    <3> QED BY <1>2, <2>1, <2>3, <3>1, <3>2
  <2> QED BY <2>2, <2>3
<1>5. MapsOk'
  <2> SUFFICES ASSUME NEW i \in Cached, pool'[i].slot # None, ~(Merging' /\ i = cur')
               PROVE  MapTrue(i)'
    BY DEF MapsOk
  <2>1. CASE pool'[i].slot = e
    BY <2>1
  <2>2. CASE pool'[i].slot # e
    <3>1. PICK s : s = pool'[i].slot
      OBVIOUS
    <3>2. pool[i].slot = s /\ pool[i].map = pool'[i].map /\ s # e /\ s # None
      BY <2>2, <3>1
    <3>3. s \in Slot /\ logs[s].lb # None
      BY <3>2 DEF IInv, PoolOk, InUse
    <3>4. logs'[s] = logs[s] /\ Rebuilt(logs[s].blk)' = Rebuilt(logs[s].blk)
      BY <1>2, <3>2, <3>3 DEF OthersStay
    <3>5. ~(Merging /\ i = cur)
      BY <3>2 DEF EntrySlot
    <3>6. MapTrue(i)
      BY <3>2, <3>5 DEF DInv, DMounted, MapsOk
    <3>7. PICK b : b = logs[s].blk
      OBVIOUS
    <3>8. flash'[b] = flash[b]
      BY <3>2, <3>3, <3>7 DEF OthersStay
    <3> QED BY <3>1, <3>2, <3>4, <3>6, <3>7, <3>8, MapStays
  <2> QED BY <2>1, <2>2
<1>6. \A b \in Blk : Shape(b)'
  BY SameBlock DEF DInv
<1> QED BY <1>3, <1>4, <1>5, <1>6 DEF DInv, DMounted, DRest
\* Step CreateLog.
LEMMA CreateLogData ==
  ASSUME IInv, IInv', DInv, NEW s \in Slot, NEW b \in Blk, CreateLog(s, b) PROVE DInv'
<1>1. /\ ~Merging /\ post = NoPost /\ op.kind = "write" /\ op.step = "log" /\ ~HasLog(op.lb)
      /\ IF op.slot = None THEN EmptySlot(s) ELSE s = op.slot
      /\ b \in free
      /\ logs' = [logs EXCEPT ![s] = [lb |-> op.lb, blk |-> b, last |-> None]]
      /\ op' = [op EXCEPT !.step = "info", !.slot = None]
      /\ UNCHANGED <<flash, data, pool, cur, merge>>
  BY DEF CreateLog, Ready, maps
<1>2. op \in WriteType
  BY <1>1, OpKinds DEF IInv, OpOk
<1>3. op'.kind = "write" /\ op'.step = "info"
  BY <1>1, <1>2 DEF WriteType
<1>4. PICK lb \in LogicBlk : lb = op.lb
  BY <1>2 DEF WriteType
<1>5. Mounted /\ Mounted' /\ ~Placed /\ ~Placed' /\ ~Merging'
  BY <1>1, <1>3 DEF Mounted, Placed, Merging
<1>6. Roles(data, logs, free) /\ Marks(data, logs, free, Unnamed) /\ Roles(data, logs, free)'
  BY <1>5 DEF IInv, MountedOk
<1>7. logs[s].lb = None /\ flash[b] = ErasedBlk
  BY <1>1, <1>6 DEF IInv, OpOk, GivenOk, EmptySlot, InUse, Marks
<1>8. logs'[s].lb = lb /\ logs'[s].blk = b /\ logs'[s].last = None
      /\ \A t \in Slot : t # s => logs'[t] = logs[t]
  BY <1>1, <1>4, <1>6 DEF Roles
<1>9. OthersStay(lb, s)
  BY <1>1, <1>7, <1>8 DEF OthersStay, NearOnly
<1>10. Own(data, logs, lb)'
  <2>1. LogIn(logs, lb)' = Written0(b)'
    BY <1>6, <1>8, LogInNext DEF LogInFacts
  <2>2. Written0(b)' = None
    BY <1>1, <1>7, ErasedNext DEF ErasedFacts
  <2>3. LogIn(logs, lb) = None
    BY <1>1, <1>4, LogInNone DEF HasLog
  <2>4. PICK d \in Blk : d = data[lb] /\ data'[lb] = d
    BY <1>1, <1>6 DEF Roles
  <2>5. Fam(lb, d, None, None)
    <3>1. Own(data, logs, lb)
      BY <1>1, <1>5 DEF DInv, DMounted, InMerges
    <3> QED BY <2>3, <2>4, <3>1 DEF Own
  <2>6. Of(lb)' = Of(lb)
    BY <1>1 DEF Of
  <2>7. Fam(lb, d, None, None)'
    BY <1>1, <2>5, <2>6, FamSame
  <2> QED BY <2>1, <2>2, <2>4, <2>7 DEF Own
<1>11. LastOk(logs, s)'
  BY <1>1, <1>7, <1>8 DEF LastOk
<1>12. \A i \in Cached : pool'[i].slot # s
  BY <1>1, <1>7, Numbers DEF IInv, PoolOk, InUse
<1>13. PlaceOk' /\ MergeData' /\ ReadOk'
  BY <1>3, <1>5 DEF PlaceOk, MergeData, ReadOk
<1> QED BY <1>1, <1>5, <1>9, <1>10, <1>11, <1>12, <1>13, StepData

\* Room of a new page: in the line of the last used page or in the next one.
LEMMA LineBefore ==
  ASSUME NEW b \in Blk, NEW q \in Page, NEW r \in Page, Shape(b), HasLast(b, q),
         r \div Banks <= (q \div Banks) + 1, r \div Banks > 1
  PROVE  LineUsed(b, r \div Banks - 1)
<1> DEFINE m == q \div Banks
           n == r \div Banks
<1>1. m \in 0 .. LineCnt - 1 /\ n \in 0 .. LineCnt - 1 /\ LineCnt \in Nat /\ q \in Nat
      /\ q = m * Banks + (q % Banks) /\ q % Banks \in 0 .. Banks - 1
  BY LineOfPage, Lines, Numbers
<1>2. n <= m + 1 /\ n > 1
  OBVIOUS
<1> HIDE DEF n
<1>3. q # 0
  <2> SUFFICES ASSUME q = 0 PROVE FALSE
    OBVIOUS
  <2>1. 0 \div Banks = 0
    BY Numbers
  <2> QED BY <1>1, <1>2, <2>1
<1>4. IsUsed(flash[b][q])
  BY <1>1, <1>3 DEF HasLast
<1>5. LineUsed(b, m)
  BY <1>1, <1>4, UsedLine
<1> HIDE DEF m
<1>6. CASE n = m + 1
  BY <1>1, <1>5, <1>6 DEF n
<1>7. CASE n # m + 1
  <2>1. n - 1 < m /\ m \in Nat /\ n - 1 \in 1 .. LineCnt - 1
    BY <1>1, <1>2, <1>7
  <2>2. ASSUME ~LineUsed(b, n - 1) PROVE FALSE
    <3>1. \A k \in 1 .. LineCnt - 1 : n - 1 <= k => ~LineUsed(b, k)
      BY <2>1, <2>2, LinesEnd DEF Shape
    <3>2. m \in 1 .. LineCnt - 1 /\ n - 1 <= m
      BY <1>1, <2>1
    <3> QED BY <1>5, <3>1, <3>2
  <2> QED BY <2>2 DEF n
<1> QED BY <1>6, <1>7
\* Program as the lemmas about pages see it.
LEMMA ProgramIs ==
  ASSUME FlashType, NEW b \in Blk, NEW r \in Page, NEW rec, Program(b, r, rec)
  PROVE  /\ OnePage(b, r, rec) /\ Only(b) /\ flash'[b][r] = rec
         /\ \A q \in Page : q # r => flash'[b][q] = flash[b][q]
<1>1. \A c \in Blk : flash'[c] = IF c = b THEN [flash[b] EXCEPT ![r] = rec] ELSE flash[c]
  BY DEF Program, FlashType
<1>2. \A q \in Page : flash'[b][q] = IF q = r THEN rec ELSE flash[b][q]
  BY <1>1 DEF FlashType
<1>3. \A q \in Page : q # r => Agree(flash'[b][q], flash[b][q])
  BY <1>2 DEF Agree
<1> QED BY <1>1, <1>2, <1>3 DEF OnePage, Only
\* Step WriteLogInfo.
LEMMA WriteLogInfoData == ASSUME IInv, IInv', DInv, WriteLogInfo PROVE DInv' /\ Fresh
<1>1. /\ ~Merging /\ post = NoPost /\ op.kind = "write" /\ op.step = "page" /\ NeedsLogInfo
      /\ Program(LogOf(op.lb).blk, 0,
             PageRecord(op.lb, None, Older(AgeOf(data[op.lb]), 1), Nothing))
      /\ op' = [op EXCEPT !.step = "place"]
      /\ UNCHANGED <<data, logs, free, pool, cur, post, merge>>
  BY DEF WriteLogInfo, Ready, GoTo, tables, maps
<1>2. PICK e : e = EntrySlot
  OBVIOUS
<1>3. PICK lb, l, d : lb = op.lb /\ l = logs[e].blk /\ d = data[lb]
  OBVIOUS
<1>4. /\ Mounted /\ op \in WriteType /\ lb \in LogicBlk /\ lb # None
      /\ Roles(data, logs, free) /\ Marks(data, logs, free, None)
      /\ e \in Slot /\ e \in InUse /\ logs[e].lb = lb /\ LogOf(lb) = logs[e] /\ LastUsed = logs[e].last
      /\ l \in Blk /\ d \in Blk /\ AgeOf(d) \in 0 .. AgeCnt - 1
  BY <1>1, <1>2, <1>3, AtLog
<1>5. /\ op'.kind = "write" /\ op'.step = "place" /\ op'.lb = lb /\ op'.bank = op.bank /\ Mounted'
      /\ ~Placed /\ Placed' /\ ~Merging' /\ e = EntrySlot' /\ e # None
  BY <1>1, <1>2, <1>3, <1>4, Numbers DEF WriteType, Mounted, Placed, Merging, EntrySlot
<1>6. logs[e].last = None /\ LastOk(logs, e)
  BY <1>1, <1>4, <1>5 DEF NeedsLogInfo, DInv, DMounted, LastsOk
<1>7. flash[l] = ErasedBlk
  BY <1>3, <1>6 DEF LastOk
<1>8. d # l /\ flash[d][0].info = lb
  BY <1>3, <1>4 DEF Roles, Marks, Used, InUse
<1> DEFINE rec == PageRecord(lb, None, Older(AgeOf(d), 1), Nothing)
<1>9. OnePage(l, 0, rec) /\ Only(l) /\ flash'[l][0] = rec /\ \A q \in Page : q # 0 => flash'[l][q] = flash[l][q]
  BY <1>1, <1>3, <1>4, Numbers, ProgramIs DEF IInv, FlashInv
<1>10. rec.info = lb /\ rec.lpn = None /\ rec.status = Older(AgeOf(d), 1) /\ ~IsTable(rec)
  <2>1. Older(AgeOf(d), 1) \in 0 .. AgeCnt - 1
    BY <1>4, Ages DEF AgeFacts
  <2> QED BY <2>1, Numbers DEF PageRecord, IsTable, TableMark
<1> HIDE DEF rec
<1>11. \A q \in Page : ~IsUsed(flash[l][q]) /\ flash[l][q].lpn = None /\ ~IsTable(flash[l][q])
                       /\ flash[l][q] = Erased
  BY <1>7, ErasedShape
<1>12. Shape(l)'
  <2>1. 0 \div Banks = 0 /\ Shape(l)
    BY <1>4, Numbers DEF DInv
  <2> QED BY <1>4, <1>9, <1>10, <1>11, <2>1, Numbers, ShapeKeeps DEF IInv
<1>13. \A q \in Page : flash'[l][q].lpn = None
  BY <1>9, <1>10, <1>11
<1>14. Rebuilt(l)' = EmptyMap /\ Rebuilt(l) = EmptyMap
  <2>1. Rebuilt(l)' = Rebuilt(l)
    BY <1>11, <1>13, RebuiltSame
  <2> QED BY <1>7, <2>1, ErasedShape
<1>15. OthersStay(lb, e)
  <2>1. flash[l][0].info = None
    BY <1>11, Numbers DEF Erased, PageRecord
  <2>2. flash'[l][0].info = lb
    BY <1>9, <1>10
  <2>3. NearOnly(lb)
    BY <1>9, <2>1, <2>2 DEF NearOnly, Only
  <2>4. \A s \in Slot : s # e /\ logs[s].lb # None => logs[s].blk # l /\ logs[s].blk \in Blk
    BY <1>3, <1>4, <1>5 DEF Roles, Used, InUse
  <2> QED BY <1>1, <1>4, <1>9, <2>3, <2>4 DEF OthersStay, Only
<1>16. Own(data, logs, lb)'
  <2>1. LogIn(logs, lb) = Written0(l) /\ Written0(l) = None
    BY <1>3, <1>4, <1>7, LogInIs, ErasedShape
  <2>2. Own(data, logs, lb)
    BY <1>1, <1>4 DEF DInv, DMounted, InMerges
  <2>3. Fam(lb, d, None, None)
    BY <1>3, <2>1, <2>2 DEF Own
  <2>4. \A p \in Page : Good(flash[d][p], lb, p)
    BY <2>3 DEF Fam, FoundAt
  <2>5. \A p \in Page : Good(FoundAt(d, l, p), lb, p)'
    <3> SUFFICES ASSUME NEW p \in Page PROVE Good(FoundAt(d, l, p), lb, p)'
      OBVIOUS
    <3>1. Rebuilt(l)'[p] = None
      BY <1>14 DEF EmptyMap
    <3>2. flash'[d] = flash[d]
      BY <1>4, <1>8, <1>9 DEF Only
    <3> QED BY <2>4, <3>1, <3>2 DEF FoundAt, Good
  <2>6. AgeOf(l)' = Older(AgeOf(d)', 1) /\ flash'[l][0].info = lb /\ flash'[d][0].info = lb
    BY <1>4, <1>8, <1>9, <1>10 DEF Only, AgeOf
  <2>7. \A c \in Blk : c # d /\ c # l => flash'[c] = flash[c]
    BY <1>9 DEF Only
  <2>8. Fam(lb, d, Written0(l), None)
    BY <2>1, <2>3
  <2>9. Fam(lb, d, l, None)'
    BY <1>4, <1>8, <2>5, <2>6, <2>7, <2>8, FamLog
  <2>10. Written0(l)' = l
    BY <1>4, <2>6 DEF Written0
  <2>11. LogIn(logs, lb)' = Written0(l)' /\ data'[lb] = d
    <3>1. Roles(data, logs, free)'
      BY <1>5 DEF IInv, MountedOk
    <3>2. logs'[e].lb = lb /\ logs'[e].blk = l
      BY <1>1, <1>3, <1>4
    <3> QED BY <1>1, <1>3, <1>4, <3>1, <3>2, LogInNext DEF LogInFacts
  <2> QED BY <2>9, <2>10, <2>11 DEF Own
<1>17. PlaceOk'
  <2>1. LogOf(lb)' = logs'[e] /\ logs'[e].blk = l
    BY <1>1, <1>3, <1>4 DEF LogOf, HasLog, SlotOf
  <2>2. NeedsLogInfo'
    BY <1>1, <1>3, <1>5 DEF NeedsLogInfo, LastUsed, LogPageForWrite, LogOf, HasLog, SlotOf
  <2>3. \A p \in Page : p > 0 => flash'[l][p] = Erased
    BY <1>9, <1>11, Numbers
  <2>4. flash'[l][0].lpn = None
    BY <1>9, <1>10
  <2> QED BY <1>5, <2>1, <2>2, <2>3, <2>4 DEF PlaceOk
<1>18. \A i \in Cached : pool'[i].slot = e => MapTrue(i)'
  <2> SUFFICES ASSUME NEW i \in Cached, pool'[i].slot = e PROVE MapTrue(i)'
    OBVIOUS
  <2>1. MapTrue(i)
    BY <1>1, <1>4, <1>5 DEF DInv, DMounted, MapsOk
  <2>2. pool'[i].map = Rebuilt(l)'
    BY <1>1, <1>3, <1>14, <2>1 DEF MapTrue
  <2>3. logs'[e].blk = l
    BY <1>1, <1>3
  <2> QED BY <2>2, <2>3, MapIs
<1>19. MergeData' /\ ReadOk'
  BY <1>5 DEF MergeData, ReadOk
<1>20. Fresh
  BY <1>4, <1>9, <1>11, Numbers, FreshProgram
<1> QED BY <1>1, <1>4, <1>5, <1>9, <1>12, <1>15, <1>16, <1>17, <1>18, <1>19, <1>20, StepData DEF Only
\* Step WriteTable.
LEMMA WriteTableData == ASSUME IInv, IInv', DInv, WriteTable PROVE DInv' /\ Fresh
<1>1. PICK e : e = EntrySlot
  OBVIOUS
<1>2. PICK lb, l, q, r : lb = logs[e].lb /\ l = logs[e].blk /\ q = logs[e].last /\ r = TablePage
  OBVIOUS
<1>3. PICK d, rec : d = data[lb] /\ rec = PageRecord(None, None, TableMark, Table(map))
  OBVIOUS
<1>4. /\ Switching /\ post.step \in {"write", "merged"} /\ e # None
      /\ r < PageCnt /\ Program(l, r, rec)
      /\ logs' = [logs EXCEPT ![e].last = r]
      /\ pool' = [pool EXCEPT ![cur].slot = None]
      /\ post' = [post EXCEPT !.step = "read"]
      /\ UNCHANGED <<data, free, cur, ctl, saved, op, merge>>
  BY <1>1, <1>2, <1>3 DEF WriteTable, PostTo
<1>5. /\ post # NoPost /\ ~Merging /\ Mounted /\ Mounted' /\ ~Placed /\ ~Placed' /\ ~Merging'
      /\ PostType
  BY <1>4, SwitchCalm DEF IInv, PostOk, Merging
<1>6. e \in Slot /\ e \in InUse /\ q # None /\ cur \in Cached
  BY <1>1, <1>2, <1>4, <1>5 DEF IInv, PostOk, PoolOk, InUse, EntrySlot
<1>7. Roles(data, logs, free) /\ Marks(data, logs, free, Unnamed) /\ Roles(data, logs, free)'
  BY <1>5 DEF IInv, MountedOk
<1>8. /\ e \in Used(logs) /\ q \in Page /\ l \in Blk /\ lb \in LogicBlk /\ lb # None /\ d \in Blk
      /\ flash[l][0].info = lb /\ d # l
  BY <1>2, <1>3, <1>6, <1>7 DEF Roles, Marks, Used, InUse, LogType
<1>9. r \in Page /\ r = q + 1
  <2>1. q + 1 \in 1 .. PageCnt /\ PageCnt < 65536
    BY <1>8, Numbers, PageNumberAssumption DEF Page
  <2>2. \A n \in 1 .. PageCnt : n \in Nat /\ U16(n) = n
    BY <2>1, Numbers DEF U16
  <2>3. TablePage = q + 1
    BY <1>1, <1>2, <2>1, <2>2 DEF TablePage
  <2> QED BY <1>2, <1>4, <2>1, <2>3, Numbers DEF Page
<1>10. q \in Nat /\ r # 0 /\ r > q /\ q < r /\ \A x \in Page : x > q => x >= r
  BY <1>8, <1>9, Numbers
<1>11. rec.info = None /\ rec.lpn = None /\ IsUsed(rec) /\ rec.main.map = map
  BY <1>3, Numbers DEF PageRecord, IsUsed, TableMark, FreeMark, Table
<1>12. map = Rebuilt(l) /\ HasLast(l, q) /\ Shape(l)
  <2>1. MapTrue(cur) /\ LastOk(logs, e)
    BY <1>1, <1>4, <1>5, <1>6 DEF DInv, DMounted, MapsOk, EntrySlot, LastsOk
  <2> QED BY <1>1, <1>2, <1>6, <1>8, <2>1 DEF MapTrue, map, EntrySlot, LastOk, DInv
<1>13. OnePage(l, r, rec) /\ Only(l) /\ flash'[l][r] = rec
       /\ \A x \in Page : x # r => flash'[l][x] = flash[l][x]
  BY <1>4, <1>8, <1>9, ProgramIs DEF IInv, FlashInv
<1>14. ~IsUsed(flash[l][r]) /\ flash[l][r].lpn = None
  BY <1>9, <1>10, <1>12 DEF HasLast, IsUsed
<1>15. Shape(l)'
  <2>1. r \div Banks > 1 => LineUsed(l, r \div Banks - 1)
    <3>1. r \div Banks <= (q \div Banks) + 1
      <4> DEFINE m == q \div Banks
                 k == q % Banks
                 n == r \div Banks
                 j == r % Banks
      <4>1. m \in Nat /\ k \in 0 .. Banks - 1 /\ q = m * Banks + k
        BY <1>8, LineOfPage, Lines
      <4>2. n \in Nat /\ j \in 0 .. Banks - 1 /\ r = n * Banks + j
        BY <1>9, LineOfPage, Lines
      <4>3. Banks \in Nat /\ Banks > 0
        BY Numbers
      <4> HIDE DEF m, k, n, j
      <4>4. ~(m + 2 <= n)
        <5> SUFFICES ASSUME m + 2 <= n PROVE FALSE
          OBVIOUS
        <5>1. Banks * (m + 2) <= Banks * n
          BY <4>1, <4>2, <4>3, MulLe
        <5>2. Banks * (m + 2) = m * Banks + Banks + Banks /\ Banks * n = n * Banks
              /\ m * Banks \in Nat /\ n * Banks \in Nat
          BY <4>1, <4>2, <4>3
        <5> QED BY <1>9, <4>1, <4>2, <4>3, <5>1, <5>2
      <4>5. n <= m + 1
        BY <4>1, <4>2, <4>4
      <4> QED BY <4>5 DEF n, m
    <3> QED BY <1>8, <1>9, <1>12, <3>1, LineBefore
  <2>2. \A x \in Page : IsTable(flash[l][x]) => x < r
    <3> SUFFICES ASSUME NEW x \in Page, IsTable(flash[l][x]) PROVE x < r
      OBVIOUS
    <3>1. IsUsed(flash[l][x])
      BY Numbers DEF IsTable, IsUsed, TableMark, FreeMark
    <3>2. ~(x > q)
      BY <1>12, <3>1 DEF HasLast
    <3> QED BY <1>8, <1>9, <3>2, Numbers
  <2> QED BY <1>8, <1>9, <1>10, <1>11, <1>12, <1>13, <1>14, <2>1, <2>2, ShapeKeeps DEF IInv
<1>16. Rebuilt(l)' = Rebuilt(l)
  <2>1. \A x \in Page : flash'[l][x].lpn = flash[l][x].lpn
    BY <1>11, <1>13, <1>14
  <2> QED BY <2>1, RebuiltSame
<1>17. HasLast(l, r)'
  <2>1. \A x \in Page : x > r => x # r /\ x > q
    BY <1>8, <1>9, Numbers
  <2> QED BY <1>11, <1>12, <1>13, <2>1 DEF HasLast
<1>18. /\ logs'[e].lb = lb /\ logs'[e].blk = l /\ logs'[e].last = r
       /\ \A s \in Slot : s # e => logs'[s] = logs[s]
  BY <1>2, <1>4, <1>6, <1>7 DEF Roles, LogType
<1>19. OthersStay(lb, e)
  <2>1. flash'[l][0].info = lb
    BY <1>8, <1>10, <1>13, Numbers
  <2>2. NearOnly(lb)
    BY <1>8, <1>13, <2>1 DEF NearOnly, Only
  <2>3. \A s \in Slot : s # e /\ logs[s].lb # None => logs[s].blk # l /\ logs[s].blk \in Blk
    BY <1>2, <1>7, <1>8 DEF Roles, Used
  <2> QED BY <1>2, <1>4, <1>13, <1>18, <2>2, <2>3 DEF OthersStay, Only
<1>20. Own(data, logs, lb)'
  <2>1. LogIn(logs, lb) = Written0(l) /\ Written0(l) = l
    BY <1>2, <1>6, <1>7, <1>8, LogInIs DEF Written0
  <2>2. Own(data, logs, lb)
    BY <1>5, <1>8 DEF DInv, DMounted, InMerges
  <2>3. Fam(lb, d, l, None)
    BY <1>3, <2>1, <2>2 DEF Own
  <2>4. flash'[d] = flash[d] /\ l # None
    BY <1>8, <1>13, Numbers DEF Only
  <2>5. \A p \in Page : Good(FoundAt(d, l, p), lb, p)'
    <3> SUFFICES ASSUME NEW p \in Page PROVE Good(FoundAt(d, l, p), lb, p)'
      OBVIOUS
    <3>1. Good(FoundAt(d, l, p), lb, p)
      BY <2>3 DEF Fam
    <3>2. CASE Rebuilt(l)[p] = None
      BY <1>16, <2>4, <3>1, <3>2 DEF FoundAt, Good
    <3>3. CASE Rebuilt(l)[p] # None
      <4>1. PICK x : x = Rebuilt(l)[p]
        OBVIOUS
      <4>2. x \in Page /\ flash[l][x].lpn = p /\ p # None
        BY <3>3, <4>1, RebuiltIs, Numbers
      <4>3. flash'[l][x] = flash[l][x]
        BY <1>13, <1>14, <4>2
      <4> QED BY <1>16, <2>4, <3>1, <3>3, <4>1, <4>3 DEF FoundAt, Good
    <3> QED BY <3>2, <3>3
  <2>6. AgeOf(l)' = AgeOf(l) /\ AgeOf(d)' = AgeOf(d) /\ flash'[l][0].info = lb
    BY <1>8, <1>10, <1>13, <2>4, Numbers DEF AgeOf
  <2>7. flash'[d][0].info = lb
    BY <2>3, <2>4, <1>8, Numbers DEF Fam, Of
  <2>8. AgeOf(l)' = Older(AgeOf(d)', 1)
    BY <2>3, <2>4, <2>6 DEF Fam
  <2>9. \A c \in Blk : c # d /\ c # l => flash'[c] = flash[c]
    BY <1>13 DEF Only
  <2>10. Fam(lb, d, l, None)'
    BY <1>8, <2>1, <2>3, <2>5, <2>6, <2>7, <2>8, <2>9, FamLog
  <2>11. Written0(l)' = l
    BY <1>8, <2>6 DEF Written0
  <2>12. LogIn(logs, lb)' = Written0(l)' /\ data'[lb] = d
    BY <1>3, <1>4, <1>6, <1>7, <1>8, <1>18, LogInNext DEF LogInFacts
  <2> QED BY <2>10, <2>11, <2>12 DEF Own
<1>21. LastOk(logs, e)'
  BY <1>9, <1>17, <1>18, Numbers DEF LastOk
<1>22. \A i \in Cached : pool'[i].slot # e
       /\ (pool'[i].slot # None => pool'[i].slot = pool[i].slot /\ pool'[i].map = pool[i].map)
  <2>1. pool \in [Cached -> EntryType] /\ \A i, j \in Cached :
       pool[i].slot # None /\ pool[i].slot = pool[j].slot => i = j
    BY DEF IInv, PoolOk
  <2>2. \A i \in Cached : i # cur => pool'[i] = pool[i] /\ pool[i].slot # e
    BY <1>1, <1>4, <1>6, <2>1 DEF EntrySlot
  <2>3. pool'[cur].slot = None
    BY <1>4, <1>6, <2>1 DEF EntryType
  <2> QED BY <1>4, <2>2, <2>3
<1>23. PlaceOk' /\ MergeData' /\ ReadOk'
  <2>1. post'.step = "read"
    BY <1>4, <1>5 DEF PostType
  <2>2. post' # NoPost
    BY <2>1 DEF NoPost
  <2> QED BY <1>5, <2>2 DEF PlaceOk, MergeData, ReadOk, Quiet
<1>24. Fresh
  <2>1. flash[l][r] = Erased
    BY <1>9, <1>10, <1>12, <1>14, Numbers DEF Shape
  <2> QED BY <1>8, <1>9, <1>13, <2>1, FreshProgram
<1> QED BY <1>1, <1>4, <1>5, <1>6, <1>8, <1>13, <1>15, <1>19, <1>20, <1>21, <1>22, <1>23, <1>24, StepData
    DEF Only
\* Where a page goes.
LEMMA PageToWrite ==
  ASSUME Align, IInv, op.kind = "write", op.step \in {"page", "place"}, ~Merging, post = NoPost,
         LogPageForWrite < PageCnt
  PROVE  LET r == LogPageForWrite IN
         /\ r \in Page /\ r % Banks = op.bank
         /\ LastUsed = None => r \div Banks = 0
         /\ LastUsed # None => r > LastUsed /\ r \div Banks <= (LastUsed \div Banks) + 1
<1> DEFINE q == LastUsed
           r == LogPageForWrite
           k == op.bank
<1>1. q \in Page \cup {None} /\ k \in BankSet
  BY AtLog DEF WriteType
<1>2. k \in 0 .. Banks - 1 /\ Banks \in Nat /\ Banks > 0
  <2>1. PICK p \in Page : k = p % Banks
    BY <1>1 DEF BankSet, BankOf
  <2> QED BY <2>1, LineOfPage, Numbers
<1>3. r \in Page
  BY WritesPage
<1>4. CASE q = None
  <2>1. r = U16(k)
    BY <1>4 DEF LogPageForWrite
  <2>2. k < 65536 /\ k \in Nat
    BY <1>2, Numbers, PageNumberAssumption
  <2>3. U16(k) = k
    <3> HIDE DEF k
    <3> QED BY <2>2 DEF U16
  <2>4. 0 * Banks + k = k
    BY <1>2
  <2>5. k \div Banks = 0 /\ k % Banks = k
    <3>1. (0 * Banks + k) \div Banks = 0 /\ (0 * Banks + k) % Banks = k
      BY <1>2, PageInLine
    <3> HIDE DEF k
    <3> QED BY <2>4, <3>1
  <2> HIDE DEF r, k, q
  <2> QED BY <1>3, <1>4, <2>1, <2>3, <2>5 DEF r, k, q
<1>5. CASE q # None
  <2> DEFINE m == q \div Banks
             j == q % Banks
  <2>1. q \in Page
    BY <1>1, <1>5
  <2>2. m \in 0 .. LineCnt - 1 /\ j \in 0 .. Banks - 1 /\ q = m * Banks + j /\ q < PageCnt /\ q \in Nat
    <3>1. m \in 0 .. LineCnt - 1 /\ j \in 0 .. Banks - 1 /\ q = m * Banks + j
      BY <2>1, LineOfPage
    <3>2. \A x \in Page : x \in Nat /\ x < PageCnt
      BY Numbers DEF Page
    <3> HIDE DEF m, j, q
    <3> QED BY <2>1, <3>1, <3>2
  <2>3. LineCnt \in Nat /\ PageCnt = LineCnt * Banks /\ PageCnt + Banks < 65536
    BY Lines, PageNumberAssumption
  <2>4. r = U16(IF k > j THEN (q - j) + k ELSE (q - j) + Banks + k)
    BY <1>5 DEF LogPageForWrite
  <2>5. (m * Banks + k) \div Banks = m /\ (m * Banks + k) % Banks = k
        /\ ((m + 1) * Banks + k) \div Banks = m + 1 /\ ((m + 1) * Banks + k) % Banks = k
    <3>1. m \in Nat /\ m + 1 \in Nat
      BY <2>2, <2>3
    <3> HIDE DEF m, k
    <3> QED BY <1>2, <3>1, PageInLine
  <2> HIDE DEF m, j, q, r, k
  <2>6. m * Banks \in Nat /\ (m + 1) * Banks = m * Banks + Banks /\ q - j = m * Banks
    BY <1>2, <2>2, <2>3
  <2>7. CASE k > j
    <3>1. r = U16(m * Banks + k)
      BY <2>4, <2>6, <2>7
    <3>2. m * Banks + k \in Nat /\ m * Banks + k < 65536 /\ m * Banks + k > q
      BY <1>2, <2>2, <2>3, <2>6, <2>7
    <3>3. r = m * Banks + k
      BY <3>1, <3>2 DEF U16
    <3>4. r \div Banks = m /\ r % Banks = k /\ r > q /\ m \in Nat
      BY <2>2, <2>3, <2>5, <3>2, <3>3
    <3> QED BY <1>3, <1>5, <3>4 DEF r, k, q, m
  <2>8. CASE ~(k > j)
    <3>1. r = U16((m + 1) * Banks + k)
      BY <1>2, <2>4, <2>6, <2>8
    <3> DEFINE t == (m + 1) * Banks + k
    <3>2. t \in Nat /\ t < 65536 /\ t > q
      BY <1>2, <2>2, <2>3, <2>6, <2>8
    <3> HIDE DEF t
    <3>3. r = t
      BY <3>1, <3>2 DEF U16, t
    <3>4. r \div Banks = m + 1 /\ r % Banks = k /\ r > q /\ m + 1 <= m + 1
      BY <2>2, <2>3, <2>5, <3>2, <3>3 DEF t
    <3> QED BY <1>3, <1>5, <3>4 DEF r, k, q, m
  <2> QED BY <2>7, <2>8
<1> QED BY <1>4, <1>5
\* New data: older data of the same page is stale, and nothing else changes.
DataPaged(l, r, st, lb, lp) ==
  /\ OnePage(l, r, PageRecord(lb, lp, st, Latest))
  /\ \A c \in Blk : c # l => SameLooks(c)
  /\ \A c \in Blk, x \in Page :
       ~(c = l /\ x = r) /\ flash[c][x].lpn # lp => flash'[c][x] = flash[c][x]
  /\ \A c \in Blk : c # l /\ flash[c][0].info # lb => flash'[c] = flash[c]
\* What WritePage does to the block it programs and to those of the same page.
LEMMA DataPage ==
  ASSUME FlashInv, \A b \in Blk : Shape(b), NEW l \in Blk, NEW r \in Page, NEW st,
         NEW lb \in LogicBlk, NEW lp \in Page, ProgramData(l, r, st, lb, lp)
  PROVE  DataPaged(l, r, st, lb, lp)
<1> DEFINE rec == PageRecord(lb, lp, st, Latest)
           At(c, x) == IF c = l /\ x = r THEN rec
                       ELSE IF flash[c][x].info = lb /\ flash[c][x].lpn = lp
                            THEN [flash[c][x] EXCEPT !.main = Stale]
                            ELSE flash[c][x]
<1>1. flash \in [Blk -> [Page -> RecordType]]
  BY DEF FlashInv, FlashType, RecordType
<1>2. flash' = [c \in Blk |-> [x \in Page |-> At(c, x)]]
  BY DEF ProgramData
<1>3. lp # None
  BY Numbers
<1>4. \A c \in Blk, x \in Page : flash[c][x] \in RecordType
  BY <1>1
<1>5. \A s \in RecordType :
        LET t == [s EXCEPT !.main = Stale] IN
        t.info = s.info /\ t.lpn = s.lpn /\ t.status = s.status
  BY DEF RecordType
<1>6. ASSUME NEW c \in Blk, NEW x \in Page, ~(c = l /\ x = r)
      PROVE  /\ Agree(flash'[c][x], flash[c][x])
             /\ (flash[c][x].lpn # lp \/ flash[c][x].info # lb) => flash'[c][x] = flash[c][x]
  <2>1. flash'[c][x] = At(c, x)
    BY <1>2
  <2>2. CASE flash[c][x].info = lb /\ flash[c][x].lpn = lp
    <3>1. flash'[c][x] = [flash[c][x] EXCEPT !.main = Stale]
      BY <1>6, <2>1, <2>2
    <3> QED BY <1>3, <1>4, <1>5, <2>2, <3>1 DEF Agree
  <2>3. CASE ~(flash[c][x].info = lb /\ flash[c][x].lpn = lp)
    BY <1>6, <2>1, <2>3 DEF Agree
  <2> QED BY <2>2, <2>3
<1>7. flash'[l][r] = rec
  BY <1>2
<1>8. ASSUME NEW c \in Blk, c # l, flash[c][0].info # lb
      PROVE  flash'[c] = flash[c]
  <2>1. flash[c] = [x \in Page |-> flash[c][x]] /\ flash'[c] = [x \in Page |-> flash'[c][x]]
    BY <1>1, <1>2
  <2>2. \A x \in Page : flash'[c][x] = flash[c][x]
    <3> SUFFICES ASSUME NEW x \in Page PROVE flash'[c][x] = flash[c][x]
      OBVIOUS
    <3>1. flash[c][x].lpn = None \/ flash[c][x].info # lb
      BY <1>8 DEF Shape
    <3> QED BY <1>3, <1>6, <1>8, <3>1
  <2> QED BY <2>1, <2>2
<1> HIDE DEF rec
<1>9. OnePage(l, r, rec)
  BY <1>6, <1>7 DEF OnePage
<1> QED BY <1>6, <1>8, <1>9 DEF SameLooks, DataPaged, rec
\* Step WritePage.
LEMMA WritePageData ==
  ASSUME Align, IInv, IInv', DInv, NEW lp \in Page, WritePage(lp) PROVE DInv' /\ Fresh
<1>1. PICK e, r : e = EntrySlot /\ r = LogPageForWrite
  OBVIOUS
<1>2. PICK lb, l, q : lb = op.lb /\ l = logs[e].blk /\ q = logs[e].last
  OBVIOUS
<1>3. PICK d, st : d = data[lb] /\ st = IF r = 0 THEN Older(AgeOf(data[lb]), 1) ELSE DataMark
  OBVIOUS
<1>4. /\ op.kind = "write" /\ op.step \in {"page", "place"} /\ ~Merging /\ post = NoPost
      /\ r < PageCnt
      /\ op.step = "page" => ~NeedsLogInfo
  BY <1>1 DEF WritePage, Placing, Ready
<1>5. /\ Mounted /\ op \in WriteType /\ lb \in LogicBlk /\ lb # None
      /\ Roles(data, logs, free) /\ Marks(data, logs, free, None)
      /\ e # None /\ e \in Slot /\ e \in InUse /\ e \in Used(logs) /\ logs[e].lb = lb
      /\ SlotOf(lb) = e /\ LogOf(lb) = logs[e] /\ LastUsed = q
      /\ q \in Page \cup {None} /\ l \in Blk /\ d \in Blk /\ AgeOf(d) \in 0 .. AgeCnt - 1
      /\ q # None \/ op.step = "place" => flash[l][0].info = lb
  BY <1>1, <1>2, <1>3, <1>4, AtLog
<1>6. /\ r \in Page /\ r % Banks = op.bank
      /\ q = None => r \div Banks = 0
      /\ q # None => r > q /\ r \div Banks <= (q \div Banks) + 1
  <2>1. /\ LogPageForWrite \in Page /\ LogPageForWrite % Banks = op.bank
        /\ LastUsed = None => LogPageForWrite \div Banks = 0
        /\ LastUsed # None => LogPageForWrite > LastUsed
                              /\ LogPageForWrite \div Banks <= (LastUsed \div Banks) + 1
    <3>1. LogPageForWrite < PageCnt
      BY <1>1, <1>4
    <3> QED BY <1>4, <3>1, PageToWrite
  <2> QED BY <1>1, <1>5, <2>1
<1>6a. r \in Page /\ r \in Nat /\ (q # None => r > q /\ q < r) /\ (\A x \in Page : x \in Nat)
       /\ (q # None => q \in Nat)
  BY <1>5, <1>6, Numbers
<1>7. /\ logs' = [logs EXCEPT ![e].last = r]
      /\ pool' = [pool EXCEPT ![cur].map[lp] = r, ![cur].dirty = TRUE]
      /\ ProgramData(l, r, st, lb, lp)
      /\ BankOf(lp) = op.bank
      /\ op' = Idle
      /\ UNCHANGED <<data, free, cur, saved, post, merge>>
  BY <1>1, <1>2, <1>3, <1>5 DEF WritePage
<1>8. Mounted' /\ ~Placed' /\ ~Merging' /\ op'.kind = "idle"
  BY <1>4, <1>7 DEF Mounted, Placed, Merging, Idle, Op
<1> DEFINE rec == PageRecord(lb, lp, st, Latest)
<1>9. rec.info = lb /\ rec.lpn = lp /\ rec.status = st /\ rec.main = Latest /\ lp # None
      /\ IsUsed(rec) /\ ~IsTable(rec) /\ Good(rec, lb, lp)
  BY Numbers DEF PageRecord, IsUsed, IsTable, Good
<1> HIDE DEF rec
<1>10. /\ OnePage(l, r, rec)
       /\ \A c \in Blk : c # l => SameLooks(c)
       /\ \A c \in Blk, x \in Page :
            ~(c = l /\ x = r) /\ flash[c][x].lpn # lp => flash'[c][x] = flash[c][x]
       /\ \A c \in Blk : c # l /\ flash[c][0].info # lb => flash'[c] = flash[c]
  <2>1. FlashInv /\ \A b \in Blk : Shape(b)
    BY DEF IInv, DInv
  <2>2. l \in Blk /\ r \in Page /\ lb \in LogicBlk /\ ProgramData(l, r, st, lb, lp)
    BY <1>5, <1>6a, <1>7
  <2>3. DataPaged(l, r, st, lb, lp)
    BY <2>1, <2>2, DataPage
  <2> QED BY <2>3 DEF DataPaged, rec
<1>11. d # l /\ flash[d][0].info = lb /\ Shape(l)
  BY <1>2, <1>3, <1>5 DEF Roles, Marks, Used, DInv
<1>12. MapTrue(cur) /\ cur \in Cached /\ pool[cur].slot = e /\ map = Rebuilt(l)
  <2>1. cur \in Cached /\ pool[cur].slot = e
    BY <1>1, <1>5 DEF IInv, PoolOk, EntrySlot
  <2>2. MapTrue(cur)
    BY <1>4, <1>5, <2>1 DEF DInv, DMounted, MapsOk
  <2> QED BY <1>2, <2>1, <2>2 DEF MapTrue, map
\* What the log block was like: erased, or with its logic info, or in use.
<1>13. /\ q = None /\ r = 0 => flash[l] = ErasedBlk
       /\ q = None /\ r # 0 => /\ op.step = "place" /\ flash[l][0].lpn = None
                              /\ \A p \in Page : p > 0 => flash[l][p] = Erased
       /\ q # None => q \in Page /\ HasLast(l, q) /\ op.step = "page"
  <2>1. CASE Placed
    <3>1. NeedsLogInfo /\ op.step = "place" /\ flash[l][0].lpn = None
          /\ \A p \in Page : p > 0 => flash[l][p] = Erased
      BY <1>2, <1>5, <2>1 DEF DInv, DMounted, PlaceOk, Placed
    <3>2. q = None /\ r # 0
      BY <1>1, <1>5, <3>1 DEF NeedsLogInfo
    <3> QED BY <3>1, <3>2
  <2>2. CASE ~Placed
    <3>1. LastOk(logs, e) /\ op.step = "page" /\ ~NeedsLogInfo
      <4>1. op.step = "page"
        BY <1>4, <2>2 DEF Placed
      <4>2. LastOk(logs, e)
        BY <1>4, <1>5, <2>2 DEF DInv, DMounted, LastsOk
      <4> QED BY <1>4, <4>1, <4>2
    <3>2. q = None => r = 0 /\ flash[l] = ErasedBlk
      BY <1>1, <1>2, <1>5, <3>1 DEF NeedsLogInfo, LastOk
    <3>3. q # None => q \in Page /\ HasLast(l, q)
      BY <1>2, <1>5, <3>1 DEF LastOk
    <3> QED BY <3>1, <3>2, <3>3
  <2> QED BY <2>1, <2>2
<1>14. q # None \/ r # 0 => flash[l][0].info = lb
  BY <1>5, <1>13
<1>15. flash[l][r] = Erased /\ ~IsUsed(flash[l][r]) /\ flash[l][r].lpn = None
  <2>1. ~IsUsed(Erased) /\ Erased.lpn = None
    BY DEF IsUsed, Erased, PageRecord
  <2>2. CASE q = None
    <3>1. flash[l][r] = Erased
      BY <1>6a, <1>13, <2>2, Numbers DEF ErasedBlk
    <3> QED BY <2>1, <3>1
  <2>3. CASE q # None
    <3>1. r > q /\ r > 0 /\ ~IsUsed(flash[l][r])
      BY <1>6a, <1>13, <2>3, Numbers DEF HasLast
    <3>2. flash[l][r] = Erased
      BY <1>6a, <1>11, <3>1 DEF Shape
    <3> QED BY <2>1, <3>2
  <2> QED BY <2>2, <2>3
<1>16. \A x \in Page : flash[l][x].lpn # None => x < r
  <2> SUFFICES ASSUME NEW x \in Page, flash[l][x].lpn # None PROVE x < r
    OBVIOUS
  <2>1. Erased.lpn = None
    BY DEF Erased, PageRecord
  <2>2. CASE q = None
    BY <1>6a, <1>13, <2>1, <2>2, Numbers DEF ErasedBlk
  <2>3. CASE q # None
    <3>1. ~(x > q)
      BY <1>13, <2>3 DEF HasLast, IsUsed
    <3> QED BY <1>6a, <1>13, <2>3, <3>1, Numbers
  <2> QED BY <2>2, <2>3
<1>17. Shape(l)'
  <2>1. r \div Banks > 1 => LineUsed(l, r \div Banks - 1)
    <3>1. CASE q = None
      BY <1>6, <3>1
    <3>2. CASE q # None
      BY <1>5, <1>6, <1>11, <1>13, <3>2, LineBefore
    <3> QED BY <3>1, <3>2
  <2>2. \A x \in Page : IsTable(flash[l][x]) => x < r
    <3> SUFFICES ASSUME NEW x \in Page, IsTable(flash[l][x]) PROVE x < r
      OBVIOUS
    <3>1. flash[l][x].status = TableMark /\ TableMark # FreeMark
      BY Numbers DEF IsTable, TableMark, FreeMark
    <3>2. IsUsed(flash[l][x])
      BY <3>1 DEF IsUsed
    <3>3. ~IsUsed(Erased)
      BY DEF Erased, PageRecord, IsUsed
    <3>4. CASE q # None
      <4>1. ~(x > q)
        BY <1>13, <3>2, <3>4 DEF HasLast
      <4> QED BY <1>6a, <1>13, <3>4, <4>1, Numbers
    <3>5. CASE q = None
      <4>1. x = 0 /\ r # 0
        BY <1>6a, <1>13, <3>2, <3>3, <3>5, Numbers DEF ErasedBlk
      <4> QED BY <1>6a, <4>1, Numbers
    <3> QED BY <3>4, <3>5
  <2>3. r = 0 => \A x \in Page : flash[l][x].lpn = None
    BY <1>6a, <1>16, Numbers
  <2>4. BankOf(rec.lpn) = BankOf(r)
    BY <1>6, <1>7, <1>9 DEF BankOf
  <2> QED BY <1>5, <1>6a, <1>9, <1>10, <1>11, <1>14, <1>15, <2>1, <2>2, <2>3, <2>4, ShapeKeeps DEF IInv
<1>18. \A c \in Blk : Shape(c)'
  <2> SUFFICES ASSUME NEW c \in Blk PROVE Shape(c)'
    OBVIOUS
  <2>1. CASE c = l
    BY <1>17, <2>1
  <2>2. CASE c # l
    <3>1. SameLooks(c) /\ Shape(c)
      BY <1>10, <2>2 DEF DInv
    <3> QED BY <3>1, LooksSame
  <2> QED BY <2>1, <2>2
<1>19. Fresh
  BY <1>5, <1>6a, <1>10, <1>15, FreshPage
<1>20. Rebuilt(l)' = [Rebuilt(l) EXCEPT ![lp] = r]
  <2>1. \A x \in Page \ {r} : flash'[l][x].lpn = flash[l][x].lpn
    BY <1>10 DEF OnePage, Agree
  <2>2. flash'[l][r].lpn = lp
    BY <1>9, <1>10 DEF OnePage
  <2>3. \A x \in Page : flash[l][x].lpn = lp => x <= r
    BY <1>6a, <1>9, <1>16, Numbers
  <2> QED BY <1>5, <1>6a, <1>15, <2>1, <2>2, <2>3, RebuiltNext DEF IInv
<1>21. HasLast(l, r)'
  <2>1. \A x \in Page : x > r => ~IsUsed(flash[l][x])
    <3> SUFFICES ASSUME NEW x \in Page, x > r PROVE ~IsUsed(flash[l][x])
      OBVIOUS
    <3>1. ~IsUsed(Erased) /\ x > 0
      BY <1>6a, Numbers DEF Erased, PageRecord, IsUsed
    <3>2. CASE q = None
      BY <1>13, <3>1, <3>2 DEF ErasedBlk
    <3>3. CASE q # None
      <4>1. x > q
        BY <1>6a, <3>3
      <4> QED BY <1>13, <3>3, <4>1 DEF HasLast
    <3> QED BY <3>2, <3>3
  <2>2. \A x \in Page : x > r => ~IsUsed(flash'[l][x])
    <3> SUFFICES ASSUME NEW x \in Page, x > r PROVE ~IsUsed(flash'[l][x])
      OBVIOUS
    <3>1. x # r
      BY <1>6a, Numbers
    <3>2. Agree(flash'[l][x], flash[l][x])
      BY <1>10, <3>1 DEF OnePage
    <3> QED BY <2>1, <3>2 DEF Agree, IsUsed
  <2>3. IsUsed(flash'[l][r])
    BY <1>9, <1>10 DEF OnePage
  <2> QED BY <2>2, <2>3 DEF HasLast
<1>22. /\ logs'[e].lb = lb /\ logs'[e].blk = l /\ logs'[e].last = r
       /\ \A s \in Slot : s # e => logs'[s] = logs[s]
  BY <1>2, <1>5, <1>7 DEF Roles, LogType
<1>23. flash'[l][0].info = lb /\ flash'[d][0].info = lb
  <2>1. flash'[l][0].info = lb
    <3>1. CASE r = 0
      BY <1>9, <1>10, <3>1 DEF OnePage
    <3>2. CASE r # 0
      BY <1>10, <1>14, <3>2, Numbers DEF OnePage, Agree
    <3> QED BY <3>1, <3>2
  <2>2. flash'[d][0].info = lb
    BY <1>5, <1>10, <1>11, Numbers DEF SameLooks, Agree
  <2> QED BY <2>1, <2>2
<1>24. OthersStay(lb, e)
  <2>1. ASSUME NEW c \in Blk
        PROVE \/ flash'[c] = flash[c]
              \/ flash[c][0].info \in {lb, None} /\ flash'[c][0].info \in {lb, None}
    <3>1. CASE c = l
      <4>1. flash[l][0].info \in {lb, None}
        <5>1. CASE q # None \/ r # 0
          BY <1>14, <5>1
        <5>2. CASE ~(q # None \/ r # 0)
          BY <1>13, <5>2, Numbers DEF ErasedBlk, Erased, PageRecord
        <5> QED BY <5>1, <5>2
      <4> QED BY <1>23, <3>1, <4>1
    <3>2. CASE c # l
      <4>1. Agree(flash'[c][0], flash[c][0])
        BY <1>10, <3>2, Numbers DEF SameLooks
      <4> QED BY <1>10, <3>2, <4>1 DEF Agree
    <3> QED BY <3>1, <3>2
  <2>2. NearOnly(lb)
    BY <2>1 DEF NearOnly
  <2>3. ASSUME NEW s \in Slot, s # e, logs[s].lb # None PROVE flash'[logs[s].blk] = flash[logs[s].blk]
    <3>1. logs[s].blk # l /\ logs[s].blk \in Blk /\ logs[s].lb # lb /\ s \in Used(logs)
      BY <1>2, <1>5, <2>3 DEF Roles, Used
    <3>2. flash[logs[s].blk][0].info = logs[s].lb \/ flash[logs[s].blk] = ErasedBlk
      BY <1>5, <3>1 DEF Marks
    <3>3. flash[logs[s].blk][0].info # lb
      BY <1>5, <3>1, <3>2, Numbers DEF ErasedBlk, Erased, PageRecord
    <3> QED BY <1>10, <3>1, <3>3
  <2> QED BY <1>2, <1>5, <1>7, <1>22, <2>2, <2>3 DEF OthersStay
<1>25. Own(data, logs, lb)'
  <2>1. LogIn(logs, lb) = Written0(l)
    BY <1>2, <1>5, LogInIs
  <2>2. Own(data, logs, lb)
    BY <1>4, <1>5 DEF DInv, DMounted, InMerges
  <2>3. Fam(lb, d, Written0(l), None)
    BY <1>3, <2>1, <2>2 DEF Own
  <2>4. l # None /\ d # None
    BY <1>5, Numbers
  <2>5. Written0(l) \in {l, None} /\ (Written0(l) = None => flash[l] = ErasedBlk)
        /\ (Written0(l) = None => r = 0 /\ q = None) /\ (r = 0 => Written0(l) = None)
    <3>1. Written0(l) = None => flash[l] = ErasedBlk /\ r = 0 /\ q = None
      BY <1>5, <1>14, <2>4 DEF Written0, IInv, FlashInv, Zeroed
    <3>2. r = 0 => Written0(l) = None
      <4>1. r = 0 => q = None
        BY <1>6a, <1>13, Numbers
      <4> QED BY <1>13, <4>1, Numbers DEF Written0, ErasedBlk, Erased, PageRecord
    <3> QED BY <3>1, <3>2 DEF Written0
  <2>6. \A p \in Page : FoundAt(d, l, p) = FoundAt(d, Written0(l), p)
    <3>1. Written0(l) = None => Rebuilt(l) = EmptyMap
      BY <2>5, ErasedShape
    <3> QED BY <2>4, <2>5, <3>1 DEF FoundAt, EmptyMap
  <2>7. \A p \in Page : Good(FoundAt(d, l, p), lb, p)
    BY <2>3, <2>6 DEF Fam
  <2>8. \A p \in Page : Good(FoundAt(d, l, p), lb, p)'
    <3> SUFFICES ASSUME NEW p \in Page PROVE Good(FoundAt(d, l, p), lb, p)'
      OBVIOUS
    <3>1. Rebuilt(l) \in Map
      BY RebuiltMap
    <3>2. CASE p = lp
      <4>1. Rebuilt(l)'[p] = r /\ r # None
        BY <1>6a, <1>20, <3>1, <3>2, Numbers DEF Map
      <4>2. flash'[l][r] = rec
        BY <1>10 DEF OnePage
      <4> QED BY <1>9, <2>4, <3>2, <4>1, <4>2 DEF FoundAt, Good
    <3>3. CASE p # lp
      <4>1. Rebuilt(l)'[p] = Rebuilt(l)[p]
        BY <1>20, <3>1, <3>3 DEF Map
      <4>2. Good(FoundAt(d, l, p), lb, p)
        BY <2>7
      <4>3. CASE Rebuilt(l)[p] = None
        <5>1. flash[d][p].lpn = p
          BY <4>2, <4>3 DEF FoundAt, Good
        <5>2. flash'[d][p] = flash[d][p]
          BY <1>5, <1>10, <1>11, <3>3, <5>1
        <5> QED BY <4>1, <4>2, <4>3, <5>2 DEF FoundAt, Good
      <4>4. CASE Rebuilt(l)[p] # None
        <5>1. PICK x : x = Rebuilt(l)[p]
          OBVIOUS
        <5>2. x \in Page /\ flash[l][x].lpn = p /\ p # None
          BY <4>4, <5>1, RebuiltIs, Numbers
        <5>3. flash'[l][x] = flash[l][x]
          BY <1>5, <1>10, <1>15, <3>3, <5>2
        <5> QED BY <2>4, <4>1, <4>2, <4>4, <5>1, <5>3 DEF FoundAt, Good
      <4> QED BY <4>3, <4>4
    <3> QED BY <3>2, <3>3
  <2>9. AgeOf(l)' = Older(AgeOf(d)', 1)
    <3>1. AgeOf(d)' = AgeOf(d)
      BY <1>5, <1>10, <1>11, LooksSame
    <3>2. CASE r = 0
      BY <1>3, <1>9, <1>10, <3>1, <3>2 DEF OnePage, AgeOf
    <3>3. CASE r # 0
      <4>1. AgeOf(l)' = AgeOf(l)
        BY <1>10, <3>3, Numbers DEF OnePage, Agree, AgeOf
      <4>2. Written0(l) = l
        BY <2>5, <3>3
      <4> QED BY <2>3, <2>4, <3>1, <4>1, <4>2 DEF Fam
    <3> QED BY <3>2, <3>3
  <2>10. ASSUME NEW c \in Blk, c # d, c # l PROVE flash'[c] = flash[c]
    <3>1. c \notin Of(lb)
      BY <2>3, <2>5, <2>10, Numbers DEF Fam
    <3> QED BY <1>10, <2>10, <3>1 DEF Of
  <2>11. Fam(lb, d, l, None)'
    BY <1>5, <1>11, <1>23, <2>3, <2>8, <2>9, <2>10, FamLog
  <2>12. Written0(l)' = l
    BY <1>5, <1>23 DEF Written0
  <2>13. LogIn(logs, lb)' = Written0(l)' /\ data'[lb] = d
    <3>1. Roles(data, logs, free)'
      BY <1>8 DEF IInv, MountedOk
    <3> QED BY <1>3, <1>5, <1>7, <1>22, <3>1, LogInNext DEF LogInFacts
  <2> QED BY <2>11, <2>12, <2>13 DEF Own
<1>26. LastOk(logs, e)'
  <2>1. r # None
    BY <1>6a, Numbers
  <2> QED BY <1>21, <1>22, <2>1 DEF LastOk
<1>27. pool \in [Cached -> EntryType] /\ \A i, j \in Cached :
       pool[i].slot # None /\ pool[i].slot = pool[j].slot => i = j
  BY DEF IInv, PoolOk
<1>28. /\ \A i \in Cached : i # cur => pool'[i] = pool[i]
       /\ pool'[cur].slot = e /\ pool'[cur].map = [map EXCEPT ![lp] = r]
  <2>1. pool[cur] \in EntryType
    BY <1>12, <1>27
  <2>2. pool'[cur] = [[pool[cur] EXCEPT !.map[lp] = r] EXCEPT !.dirty = TRUE]
        /\ \A i \in Cached : i # cur => pool'[i] = pool[i]
    BY <1>7, <1>12, <1>27
  <2>3. PICK x : x = [pool[cur] EXCEPT !.map[lp] = r]
    OBVIOUS
  <2>4. x.slot = pool[cur].slot /\ x.map = [pool[cur].map EXCEPT ![lp] = r]
        /\ x = [slot |-> x.slot, dirty |-> x.dirty, map |-> x.map]
    BY <2>1, <2>3 DEF EntryType
  <2>5. pool'[cur].slot = x.slot /\ pool'[cur].map = x.map
    BY <2>2, <2>3, <2>4
  <2> QED BY <1>12, <2>2, <2>4, <2>5 DEF map
<1>29. \A i \in Cached : pool'[i].slot = e => MapTrue(i)'
  <2> SUFFICES ASSUME NEW i \in Cached, pool'[i].slot = e PROVE MapTrue(i)'
    OBVIOUS
  <2>1. i = cur
    BY <1>5, <1>12, <1>27, <1>28
  <2>2. pool'[i].map = Rebuilt(l)'
    BY <1>12, <1>20, <1>28, <2>1
  <2> QED BY <1>22, <2>2, MapIs
<1>30. \A i \in Cached : pool'[i].slot \notin {None, e} =>
         pool[i].slot = pool'[i].slot /\ pool[i].map = pool'[i].map
  BY <1>28
<1>31. PlaceOk' /\ MergeData' /\ ReadOk'
  BY <1>8 DEF PlaceOk, MergeData, ReadOk
<1> QED BY <1>1, <1>4, <1>5, <1>8, <1>18, <1>19, <1>24, <1>25, <1>26, <1>29, <1>30, <1>31, StepData
\* A block that is filled in order gets its next page.
CopiedIn(b, lb, n) ==
  Shape(b)' /\ Dense(b, lb, n + 1)' /\ EmptyFrom(b, n + 1)' /\ flash[b][n] = Erased
\* One page copied in order into the target of a merge.
LEMMA CopyIn ==
  ASSUME FlashInv, NEW b \in Blk, NEW lb \in LogicBlk, NEW n \in Page, NEW rec, Shape(b),
         OnePage(b, n, rec), \A q \in Page : q # n => flash'[b][q] = flash[b][q],
         Dense(b, lb, n), EmptyFrom(b, n), Good(rec, lb, n)
  PROVE  CopiedIn(b, lb, n)
<1>1. n \in Nat /\ \A x \in Page : x \in Nat /\ x # None
  BY Numbers
<1>2. ~IsUsed(Erased) /\ Erased.lpn = None /\ ~IsTable(Erased)
  BY Numbers DEF IsUsed, IsTable, Erased, PageRecord, TableMark, FreeMark
<1>3. flash[b][n] = Erased /\ ~IsUsed(flash[b][n])
  BY <1>1, <1>2 DEF EmptyFrom
<1>4. rec.lpn = n /\ rec.info = lb /\ IsUsed(rec) /\ ~IsTable(rec)
  BY <1>1 DEF Good, IsUsed, IsTable
<1>5. n # 0 => rec.info = flash[b][0].info
  BY <1>1, <1>4, Numbers DEF Dense, Good
<1>6. n = 0 => \A q \in Page : flash[b][q].lpn = None
  <2>1. \A q \in Page : n = 0 => q >= n
    BY <1>1
  <2> QED BY <1>2, <2>1 DEF EmptyFrom
<1>7. ASSUME n \div Banks > 1 PROVE LineUsed(b, n \div Banks - 1)
  <2> DEFINE m == n \div Banks
             k == n % Banks
  <2>1. m \in 0 .. LineCnt - 1 /\ k \in 0 .. Banks - 1 /\ n = m * Banks + k /\ m > 1
    BY <1>7, LineOfPage
  <2>2. LineCnt \in Nat /\ Banks \in Nat /\ Banks > 0
    BY Lines, Numbers
  <2> HIDE DEF m, k
  <2> DEFINE j == m - 1
             x == j * Banks + 0
  <2>3. j \in Nat /\ j \in 0 .. LineCnt - 1 /\ 0 \in 0 .. Banks - 1 /\ m = j + 1
    BY <2>1, <2>2
  <2> HIDE DEF j
  <2>4. x \in Page /\ x \div Banks = j
    BY <2>3, PageOfLine, PageInLine
  <2>5. x < n
    <3>1. m * Banks = j * Banks + Banks /\ j * Banks \in Nat
      BY <2>2, <2>3
    <3> QED BY <2>1, <2>2, <3>1
  <2> HIDE DEF x
  <2>6. Good(flash[b][x], lb, x)
    BY <2>4, <2>5 DEF Dense
  <2>7. IsUsed(flash[b][x])
    BY <1>1, <2>4, <2>6 DEF Good, IsUsed
  <2>8. LineUsed(b, j)
    BY <2>3, <2>4, <2>7, UsedLine
  <2> QED BY <2>8 DEF j, m
<1>8. \A q \in Page : IsTable(flash[b][q]) => q < n
  BY <1>1, <1>2 DEF EmptyFrom
<1>9. Shape(b)'
  BY <1>3, <1>4, <1>5, <1>6, <1>7, <1>8, ShapeKeeps
<1>10. Dense(b, lb, n + 1)'
  <2> SUFFICES ASSUME NEW p \in Page, p < n + 1 PROVE Good(flash'[b][p], lb, p)
    BY DEF Dense, Good
  <2>1. CASE p = n
    BY <2>1 DEF OnePage
  <2>2. CASE p # n
    <3>1. p < n
      BY <1>1, <2>2
    <3> QED BY <2>2, <3>1 DEF Dense
  <2> QED BY <2>1, <2>2
<1>11. EmptyFrom(b, n + 1)'
  <2> SUFFICES ASSUME NEW p \in Page, p >= n + 1 PROVE flash'[b][p] = Erased
    BY DEF EmptyFrom
  <2>1. p # n /\ p >= n
    BY <1>1
  <2> QED BY <2>1 DEF EmptyFrom
<1> QED BY <1>3, <1>9, <1>10, <1>11 DEF CopiedIn
\* Blocks of other log blocks than that of item e are not its data block, nor it.
LEMMA OtherBlocks ==
  ASSUME Roles(data, logs, free), NEW e \in Slot, logs[e].lb # None
  PROVE  \A s \in Slot : s # e /\ logs[s].lb # None =>
           /\ logs[s].blk # logs[e].blk /\ logs[s].blk \in Blk /\ logs[s].lb # logs[e].lb
           /\ \A x \in LogicBlk : data[x] # logs[s].blk
BY DEF Roles, Used
\* Step SwapCopy.
LEMMA SwapCopyData == ASSUME IInv, IInv', DInv, SwapCopy PROVE DInv' /\ Fresh
<1>1. PICK e : e = EntrySlot
  OBVIOUS
<1>2. PICK lb, l, n : lb = merge.lb /\ l = logs[e].blk /\ n = merge.next
  OBVIOUS
<1>3. PICK d : d = data[lb]
  OBVIOUS
<1>4. PICK rec : rec = flash[d][n]
  OBVIOUS
<1>5. /\ Merging /\ Merging'
      /\ merge.kind = "swap" /\ n < PageCnt /\ merge' = [merge EXCEPT !.next = n + 1]
      /\ UNCHANGED <<data, logs, free, pool, cur, ctl, saved, op, post>>
  BY <1>2 DEF SwapCopy, Merging, NoMerge, NextPage, tables, maps
<1>6. /\ Mounted /\ MergeType /\ Roles(data, logs, free) /\ Marks(data, logs, free, None)
      /\ e \in Slot /\ e \in InUse /\ lb \in LogicBlk /\ logs[e].lb = lb
      /\ l \in Blk /\ d \in Blk /\ d # l /\ flash[d][0].info = lb
      /\ logs[e].last \in Page \cup {None} /\ map \in Map
      /\ op.step \notin {"info", "place", "failed"} /\ (op.kind # "write" => post # NoPost)
  BY <1>1, <1>2, <1>3, <1>5, InMerge
<1>7. merge.dst = l /\ n \in Nat /\ n > 0 /\ n \in Page /\ merge.step = "copy"
  BY <1>1, <1>2, <1>5, <1>6, Numbers DEF IInv, MergeOk, MergeType, Page
<1>8. Mounted' /\ ~Placed /\ ~Placed' /\ EntrySlot' = e /\ lb # None /\ l # None /\ d # None
  BY <1>1, <1>5, <1>6, Numbers DEF Mounted, Placed, EntrySlot
<1>9. Program(l, n, rec)
  BY <1>2, <1>3, <1>4, <1>7 DEF SwapCopy, Copy
<1>10. OnePage(l, n, rec) /\ Only(l) /\ flash'[l][n] = rec
       /\ \A q \in Page : q # n => flash'[l][q] = flash[l][q]
  BY <1>6, <1>7, <1>9, ProgramIs DEF IInv, FlashInv
<1>11. Dense(l, lb, n) /\ EmptyFrom(l, n) /\ Shape(l)
  BY <1>2, <1>5, <1>6, <1>7 DEF DInv, DMounted, MergeData
<1>12. flash[l][0].info = lb
  BY <1>7, <1>11, Numbers DEF Dense, Good
<1>13. Fam(lb, d, l, None)
  <2>1. LogIn(logs, lb) = Written0(l) /\ Written0(l) = l
    BY <1>2, <1>6, <1>8, <1>12, LogInIs DEF Written0
  <2>2. Own(data, logs, lb)
    BY <1>5, <1>6 DEF DInv, DMounted, InMerges
  <2> QED BY <1>3, <2>1, <2>2 DEF Own
<1>14. \A p \in Page : Rebuilt(l)[p] = IF p < n THEN p ELSE None
  <2>1. n \in 0 .. PageCnt
    BY <1>5, <1>7, Numbers
  <2> QED BY <1>11, <2>1, DenseNow DEF DenseFacts
<1>15. Good(rec, lb, n)
  <2>1. Rebuilt(l)[n] = None /\ Good(FoundAt(d, l, n), lb, n)
    BY <1>7, <1>13, <1>14 DEF Fam
  <2> QED BY <1>4, <2>1 DEF FoundAt
<1>16. CopiedIn(l, lb, n)
  BY <1>6, <1>7, <1>10, <1>11, <1>15, CopyIn DEF IInv
<1>17. Shape(l)' /\ Fresh
  <2>1. flash[l][n] = Erased
    BY <1>16 DEF CopiedIn
  <2> QED BY <1>6, <1>7, <1>10, <1>16, <2>1, FreshProgram DEF CopiedIn
<1>18. n + 1 \in 0 .. PageCnt /\ \A p \in Page : p < n + 1 <=> (p < n \/ p = n)
  BY <1>5, <1>7, Numbers
<1>19. \A p \in Page : Rebuilt(l)'[p] = IF p < n + 1 THEN p ELSE None
  <2>1. DenseFacts(l, lb, n + 1)'
    BY <1>18, DenseNext
  <2>2. (Dense(l, lb, n + 1) /\ EmptyFrom(l, n + 1))'
    BY <1>16 DEF CopiedIn
  <2> QED BY <2>1, <2>2 DEF DenseFacts
<1>20. Own(data, logs, lb)'
  <2>1. flash'[d] = flash[d] /\ flash'[l][0] = flash[l][0]
    BY <1>6, <1>7, <1>10, Numbers DEF Only
  <2>2. \A p \in Page : Good(FoundAt(d, l, p), lb, p)'
    <3> SUFFICES ASSUME NEW p \in Page PROVE Good(FoundAt(d, l, p), lb, p)'
      OBVIOUS
    <3>1. Good(FoundAt(d, l, p), lb, p) /\ p # None
      BY <1>13, Numbers DEF Fam
    <3>2. CASE p = n
      <4>1. Rebuilt(l)'[p] = p
        BY <1>18, <1>19, <3>2
      <4> QED BY <1>8, <1>10, <1>15, <3>1, <3>2, <4>1 DEF FoundAt, Good
    <3>3. CASE p < n /\ p # n
      <4>1. Rebuilt(l)'[p] = p /\ Rebuilt(l)[p] = p /\ flash'[l][p] = flash[l][p]
        BY <1>10, <1>14, <1>18, <1>19, <3>3
      <4> QED BY <1>8, <3>1, <4>1 DEF FoundAt, Good
    <3>4. CASE ~(p < n) /\ p # n
      <4>1. Rebuilt(l)'[p] = None /\ Rebuilt(l)[p] = None
        BY <1>14, <1>18, <1>19, <3>4
      <4> QED BY <2>1, <3>1, <4>1 DEF FoundAt, Good
    <3> QED BY <3>2, <3>3, <3>4
  <2>3. AgeOf(l)' = Older(AgeOf(d)', 1)
    <3>1. AgeOf(l) = Older(AgeOf(d), 1)
      BY <1>8, <1>13 DEF Fam
    <3> QED BY <2>1, <3>1 DEF AgeOf
  <2>4. \A c \in Blk : c # d /\ c # l => flash'[c] = flash[c]
    BY <1>10 DEF Only
  <2>5. Fam(lb, d, Written0(l), None) /\ flash'[d][0].info = lb /\ flash'[l][0].info = lb
    BY <1>6, <1>8, <1>12, <1>13, <2>1 DEF Written0
  <2>6. Fam(lb, d, l, None)'
    BY <1>6, <2>2, <2>3, <2>4, <2>5, FamLog
  <2>7. LogIn(logs, lb)' = Written0(l)' /\ Written0(l)' = l /\ data'[lb] = d
    <3>1. Roles(data, logs, free)' /\ logs'[e].lb = lb /\ logs'[e].blk = l
      BY <1>2, <1>5, <1>6, <1>8 DEF IInv, MountedOk
    <3> QED BY <1>3, <1>5, <1>6, <1>8, <2>5, <3>1, LogInNext DEF LogInFacts, Written0
  <2> QED BY <2>6, <2>7 DEF Own
<1>21. OthersStay(lb, e)
  <2>1. NearOnly(lb)
    <3>1. flash'[l][0].info = lb
      BY <1>7, <1>10, <1>12, Numbers
    <3> QED BY <1>10, <1>12, <3>1 DEF NearOnly, Only
  <2>2. \A s \in Slot : s # e /\ logs[s].lb # None => logs[s].blk # l /\ logs[s].blk \in Blk
    BY <1>2, <1>6, <1>8, OtherBlocks
  <2> QED BY <1>5, <1>6, <1>10, <2>1, <2>2 DEF OthersStay, Only
<1>22. merge'.kind = "swap" /\ merge'.step = "copy" /\ merge'.lb = lb /\ merge'.dst = l /\ merge'.next = n + 1
  BY <1>2, <1>5, <1>6, <1>7 DEF MergeType
<1>23. MergeData'
  <2> DEFINE k == n + 1
  <2>1. Dense(l, lb, k)' /\ EmptyFrom(l, k)'
    BY <1>16 DEF CopiedIn
  <2>2. merge'.next = k /\ logs'[e].blk = l /\ data'[lb] = d
    BY <1>2, <1>3, <1>5, <1>22
  <2> HIDE DEF k
  <2> QED BY <1>8, <1>22, <2>1, <2>2, MergeDataIs
<1>24. \A i \in Cached : pool'[i].slot = e => (Merging' /\ i = cur') \/ MapTrue(i)'
  <2>1. pool'[cur].slot = e /\ \A i, j \in Cached :
       pool[i].slot # None /\ pool[i].slot = pool[j].slot => i = j
    BY <1>1, <1>5 DEF IInv, PoolOk, EntrySlot
  <2>2. cur \in Cached /\ e # None
    BY <1>6, Numbers DEF IInv, PoolOk
  <2> QED BY <1>5, <2>1, <2>2
<1>25. PlaceOk' /\ ReadOk'
  BY <1>5, <1>8 DEF PlaceOk, ReadOk, Quiet
<1> QED BY <1>1, <1>2, <1>5, <1>6, <1>8, <1>10, <1>17, <1>20, <1>21, <1>22, <1>23, <1>24, <1>25, StepData
    DEF Only

\* Erase as the lemmas about blocks see it.
LEMMA EraseIs ==
  ASSUME FlashType, NEW b \in Blk, Erase(b) PROVE Only(b) /\ flash'[b] = ErasedBlk /\ Fresh
<1>1. Only(b) /\ flash'[b] = ErasedBlk
  BY DEF Erase, FlashType, Only
<1> QED BY <1>1, FreshErase
\* The log block of item e is gone.
LEMMA LogGone ==
  ASSUME IInv, NEW e \in Slot, e # None, e = EntrySlot, logs \in [Slot -> LogType],
         logs' = [logs EXCEPT ![e] = NoLog],
         pool' = [pool EXCEPT ![cur] = NoEntry]
  PROVE  /\ logs'[e].lb = None /\ \A s \in Slot : s # e => logs'[s] = logs[s]
         /\ \A i \in Cached : /\ pool'[i].slot # e
                              /\ pool'[i].slot # None => pool'[i] = pool[i]
<1>1. logs'[e].lb = None /\ \A s \in Slot : s # e => logs'[s] = logs[s]
  BY DEF NoLog
<1>2. cur \in Cached /\ pool[cur].slot = e /\ pool \in [Cached -> EntryType]
      /\ \A i, j \in Cached : pool[i].slot # None /\ pool[i].slot = pool[j].slot => i = j
  BY DEF IInv, PoolOk, EntrySlot
<1>3. pool'[cur] = NoEntry /\ \A i \in Cached : i # cur => pool'[i] = pool[i]
  BY <1>2
<1> QED BY <1>1, <1>2, <1>3 DEF NoEntry
\* Step SwapEnd.
LEMMA SwapEndData == ASSUME IInv, IInv', DInv, SwapEnd PROVE DInv' /\ Fresh
<1>1. PICK e : e = EntrySlot
  OBVIOUS
<1>2. PICK lb, l, n : lb = merge.lb /\ l = logs[e].blk /\ n = merge.next
  OBVIOUS
<1>3. PICK d : d = data[lb]
  OBVIOUS
<1>6. Merging /\ merge.kind = "swap"
  BY DEF SwapEnd, Merging, NoMerge
<1>4. /\ Mounted /\ MergeType /\ Roles(data, logs, free) /\ Marks(data, logs, free, None)
      /\ e \in Slot /\ e \in InUse /\ lb \in LogicBlk /\ logs[e].lb = lb /\ SlotOf(lb) = e
      /\ l \in Blk /\ d \in Blk /\ d # l /\ flash[d][0].info = lb
      /\ op.step \notin {"info", "place", "failed"} /\ (op.kind # "write" => post # NoPost)
  BY <1>1, <1>2, <1>3, <1>6, InMerge
<1>5. /\ n = PageCnt /\ merge' = NoMerge
      /\ data' = [data EXCEPT ![lb] = l] /\ logs' = [logs EXCEPT ![e] = NoLog]
      /\ pool' = [pool EXCEPT ![cur] = NoEntry]
      /\ Erase(d) /\ UNCHANGED <<cur, op, post>>
  <2>1. merge.dst = l
    BY <1>1, <1>2, <1>6 DEF IInv, MergeOk
  <2> QED BY <1>2, <1>3, <1>4, <2>1 DEF SwapEnd, CopyDone, ClearLog, ClearCurMap
<1>7. merge.dst = l /\ n \in Nat /\ n > 0
  BY <1>1, <1>2, <1>5, <1>6, Numbers DEF IInv, MergeOk
<1>8. Mounted' /\ ~Placed /\ ~Placed' /\ ~Merging' /\ lb # None /\ l # None /\ d # None /\ e # None
  BY <1>4, <1>5, Numbers DEF Mounted, Placed, Merging
<1>9. Only(d) /\ flash'[d] = ErasedBlk /\ Fresh
  BY <1>4, <1>5, EraseIs DEF IInv, FlashInv
<1>10. \A p \in Page : Good(flash[l][p], lb, p)
  <2>1. Dense(l, lb, n)
    BY <1>2, <1>4, <1>6, <1>7 DEF DInv, DMounted, MergeData
  <2>2. \A p \in Page : p < n
    BY <1>5, Numbers DEF Page
  <2> QED BY <2>1, <2>2 DEF Dense
<1>11. Fam(lb, d, l, None)
  <2>1. flash[l][0].info = lb
    BY <1>10, Numbers DEF Good
  <2>2. LogIn(logs, lb) = Written0(l) /\ Written0(l) = l
    BY <1>2, <1>4, <1>8, <2>1, LogInIs DEF Written0
  <2>3. Own(data, logs, lb)
    BY <1>4, <1>6 DEF DInv, DMounted, InMerges
  <2> QED BY <1>3, <2>2, <2>3 DEF Own
<1>12. Fam(lb, l, None, None)'
  BY <1>4, <1>9, <1>10, <1>11, DropData
<1>13. /\ logs'[e].lb = None /\ \A s \in Slot : s # e => logs'[s] = logs[s]
       /\ \A i \in Cached : /\ pool'[i].slot # e
                            /\ pool'[i].slot # None => pool'[i] = pool[i]
  BY <1>1, <1>4, <1>5, <1>8, LogGone DEF Roles
<1>14. data'[lb] = l /\ \A x \in LogicBlk : x # lb => data'[x] = data[x]
  BY <1>4, <1>5 DEF Roles
<1>15. \A s \in Slot : logs'[s].lb # lb
  BY <1>4, <1>8, <1>13 DEF Roles, Used
<1>16. Own(data, logs, lb)'
  <2>1. LogIn(logs, lb)' = None
    BY <1>15 DEF LogIn
  <2> QED BY <1>12, <1>14, <2>1 DEF Own
<1>17. OthersStay(lb, e)
  <2>1. flash'[d][0].info = None
    BY <1>9, Numbers DEF ErasedBlk, Erased, PageRecord
  <2>2. NearOnly(lb)
    BY <1>4, <1>9, <2>1 DEF NearOnly, Only
  <2>3. \A s \in Slot : s # e /\ logs[s].lb # None => logs[s].blk # d /\ logs[s].blk \in Blk
    BY <1>3, <1>4, <1>8, OtherBlocks
  <2> QED BY <1>4, <1>9, <1>13, <1>14, <2>2, <2>3 DEF OthersStay, Only
<1>18. Shape(d)'
  BY <1>9, ErasedNext DEF ErasedFacts
<1>19. PlaceOk' /\ MergeData' /\ ReadOk'
  BY <1>4, <1>5, <1>8 DEF PlaceOk, MergeData, ReadOk, Quiet
<1> QED BY <1>1, <1>2, <1>4, <1>8, <1>9, <1>13, <1>16, <1>17, <1>18, <1>19, StepData DEF Only
\* What a step of a merge into a block of its own can go by.
Copying(e, lb, l, d, x, n) ==
  /\ e \in Slot /\ e \in InUse /\ e = EntrySlot /\ e # None
  /\ lb \in LogicBlk /\ lb # None /\ lb = merge.lb /\ logs[e].lb = lb
  /\ SlotOf(lb) = e /\ LogOf(lb) = logs[e]
  /\ l \in Blk /\ l = logs[e].blk /\ l # None
  /\ d \in Blk /\ d = data[lb] /\ d # l /\ d # None /\ flash[d][0].info = lb
  /\ x \in Blk /\ x = merge.dst /\ x # l /\ x # None
  /\ n \in Nat /\ n <= PageCnt /\ n = merge.next
  /\ map \in Map /\ cur \in Cached
  /\ logs[e].last \in Page \cup {None}
  /\ logs[e].last # None => flash[l][0].info = lb
  /\ Roles(data, logs, free) /\ Marks(data, logs, free, None)
  /\ op.step \notin {"info", "place", "failed"} /\ (op.kind # "write" => post # NoPost)
  /\ Mounted /\ ~Placed
\* What is known of the blocks in a merge that copies in order.
LEMMA WhileCopying ==
  ASSUME IInv, Merging, merge.kind # "swap"
  PROVE  /\ Copying(EntrySlot, merge.lb, logs[EntrySlot].blk, data[merge.lb], merge.dst, merge.next)
         /\ merge.step # "erase" =>
              /\ merge.dst # data[merge.lb]
              /\ \A s \in InUse : logs[s].blk # merge.dst
              /\ IF merge.next = 0 /\ merge.step = "copy"
                 THEN flash[merge.dst] = ErasedBlk
                 ELSE flash[merge.dst][0].info = merge.lb
         /\ merge.step = "erase" =>
              merge.kind = "simple" /\ merge.dst = data[merge.lb]
<1>1. PICK e : e = EntrySlot
  OBVIOUS
<1>2. PICK lb, x, n : lb = merge.lb /\ x = merge.dst /\ n = merge.next
  OBVIOUS
<1>3. PICK l, d : l = logs[e].blk /\ d = data[lb]
  OBVIOUS
<1>4. /\ Mounted /\ MergeType /\ Roles(data, logs, free) /\ Marks(data, logs, free, None)
      /\ e \in Slot /\ e \in InUse /\ lb \in LogicBlk /\ logs[e].lb = lb
      /\ SlotOf(lb) = e /\ LogOf(lb) = logs[e]
      /\ l \in Blk /\ d \in Blk /\ d # l /\ flash[d][0].info = lb
      /\ logs[e].last \in Page \cup {None} /\ (logs[e].last # None => flash[l][0].info = lb)
      /\ map \in Map
      /\ op.step \notin {"info", "place", "failed"} /\ (op.kind # "write" => post # NoPost)
  BY <1>1, <1>2, <1>3, InMerge
<1>5. x \in Blk /\ n \in Nat /\ n <= PageCnt
  BY <1>2, <1>4, Numbers DEF MergeType
<1>6. TargetOk
  BY DEF IInv, MergeOk
<1>7. x # l
  BY <1>2, <1>3, <1>4, <1>6 DEF TargetOk
<1>8. e # None /\ lb # None /\ l # None /\ d # None /\ x # None /\ ~Placed /\ cur \in Cached
  BY <1>4, <1>5, Numbers DEF Placed, IInv, PoolOk
<1>9. Copying(e, lb, l, d, x, n)
  BY <1>1, <1>2, <1>3, <1>4, <1>5, <1>7, <1>8 DEF Copying
<1>10. Copying(EntrySlot, merge.lb, logs[EntrySlot].blk, data[merge.lb], merge.dst, merge.next)
  BY <1>1, <1>2, <1>3, <1>9
<1>11. merge.lb \in LogicBlk
  BY <1>2, <1>4
<1> QED BY <1>6, <1>10, <1>11 DEF TargetOk
\* The blocks of a logical block that is merged, and where its pages are.
LEMMA MergedFam ==
  ASSUME IInv, DInv, Merging, merge.kind # "swap", merge.step # "erase",
         NEW e, NEW lb, NEW l, NEW d, NEW x, NEW n, Copying(e, lb, l, d, x, n)
  PROVE  /\ Fam(lb, d, Written0(l), Written0(x))
         /\ Written0(l) \in {l, None} /\ Written0(x) \in {x, None}
         /\ Written0(l) = None => Rebuilt(l) = EmptyMap
         /\ \A p \in Page : Good(FoundAt(d, l, p), lb, p)
<1>1. Fam(lb, d, Written0(l), Written0(x))
  BY DEF Copying, DInv, DMounted, MergeData
<1>2. Written0(l) \in {l, None} /\ Written0(x) \in {x, None}
  BY DEF Written0
<1>3. Written0(l) = None => Rebuilt(l) = EmptyMap
  BY ErasedShape DEF Written0, IInv, FlashInv, Zeroed, Copying
<1>4. \A p \in Page : FoundAt(d, l, p) = FoundAt(d, Written0(l), p)
  BY <1>2, <1>3 DEF FoundAt, EmptyMap, Copying
<1> QED BY <1>1, <1>2, <1>3, <1>4 DEF Fam
\* A step that writes the target of a merge only.
LEMMA TargetStep ==
  ASSUME IInv, DInv, Merging, Merging', merge.kind # "swap", merge.step # "erase", merge'.kind # "swap",
         NEW e, NEW lb, NEW l, NEW d, NEW x, NEW n, Copying(e, lb, l, d, x, n),
         Only(x), Shape(x)', flash'[x][0].info = lb, merge'.lb = lb,
         UNCHANGED <<data, logs, cur, op, post>>,
         \A i \in Cached : pool'[i].slot = pool[i].slot /\ (i # cur => pool'[i] = pool[i]),
         MergeData'
  PROVE  DInv'
<1>1. /\ x # d /\ (\A s \in InUse : logs[s].blk # x)
      /\ flash[x] = ErasedBlk \/ flash[x][0].info = lb
  BY WhileCopying DEF Copying
<1>2. flash[x][0].info \in {lb, None}
  BY <1>1, Numbers DEF ErasedBlk, Erased, PageRecord
<1>3. NearOnly(lb)
  BY <1>2 DEF NearOnly, Only
<1>4. OthersStay(lb, e)
  <2>1. \A s \in Slot : logs[s].lb # None => logs[s].blk # x /\ logs[s].blk \in Blk
    BY <1>1 DEF InUse, Copying, Roles, Used
  <2> QED BY <1>3, <2>1 DEF OthersStay, Copying, Only
<1>5. Mounted' /\ ~Placed' /\ EntrySlot' = e /\ InMerges(lb)'
  BY DEF Copying, Mounted, Placed, EntrySlot, InMerges
<1>6. LastOk(logs, e)'
  <2>1. LastOk(logs, e)
    BY DEF Copying, DInv, DMounted, LastsOk
  <2>2. l \in Blk /\ l # x /\ l = logs[e].blk
    BY DEF Copying
  <2>3. flash'[l] = flash[l]
    BY <2>2 DEF Only
  <2> QED BY <2>1, <2>2, <2>3 DEF LastOk, HasLast
<1>7. \A i \in Cached : pool'[i].slot = e => i = cur'
  BY DEF Copying, IInv, PoolOk, EntrySlot
<1>8. \A i \in Cached : pool'[i].slot \notin {None, e} =>
        pool[i].slot = pool'[i].slot /\ pool[i].map = pool'[i].map
  BY DEF Copying, EntrySlot
<1>9. PlaceOk' /\ ReadOk'
  BY <1>5 DEF PlaceOk, ReadOk, Quiet
<1>10. /\ Mounted /\ lb \in LogicBlk /\ e \in Slot /\ merge.lb = lb /\ EntrySlot = e
       /\ \A c \in Blk : flash'[c] = flash[c] \/ Shape(c)'
  BY DEF Copying, Only
<1> QED BY <1>4, <1>5, <1>6, <1>7, <1>8, <1>9, <1>10, StepData
\* Step SimpleCopy.
LEMMA SimpleCopyData == ASSUME IInv, DInv, SimpleCopy PROVE DInv' /\ Fresh
<1>1. PICK e : e = EntrySlot
  OBVIOUS
<1>2. PICK lb, l, x, n : lb = merge.lb /\ l = logs[e].blk /\ x = merge.dst /\ n = merge.next
  OBVIOUS
<1>3. PICK d : d = data[lb]
  OBVIOUS
<1>4. /\ Merging /\ Merging' /\ merge.kind = "simple" /\ n < PageCnt
      /\ merge' = [merge EXCEPT !.next = n + 1]
      /\ UNCHANGED <<data, logs, free, pool, cur, ctl, saved, op, post>>
  BY <1>2 DEF SimpleCopy, Merging, NoMerge, NextPage, tables, maps
<1>5. Copying(e, lb, l, d, x, n)
  BY <1>1, <1>2, <1>3, <1>4, WhileCopying
<1> USE DEF Copying
<1>6. MergeType
  BY <1>4 DEF IInv, MergeOk
<1>7. n \in Page /\ n \in 0 .. PageCnt
  BY <1>4, <1>5, Numbers DEF Page
<1>8. merge.step = "copy"
  <2>1. merge.step # "erase"
    BY <1>2, <1>4, <1>7 DEF IInv, MergeOk, TargetOk
  <2> QED BY <1>4, <1>6, <2>1 DEF IInv, MergeOk, MergeType
<1>9. /\ x # d
      /\ IF n = 0 THEN flash[x] = ErasedBlk ELSE flash[x][0].info = lb
  BY <1>2, <1>3, <1>4, <1>5, <1>8, WhileCopying
<1>10. /\ Fam(lb, d, Written0(l), Written0(x))
       /\ Written0(l) \in {l, None} /\ Written0(x) \in {x, None}
       /\ Written0(l) = None => Rebuilt(l) = EmptyMap
       /\ \A p \in Page : Good(FoundAt(d, l, p), lb, p)
  BY <1>4, <1>5, <1>8, MergedFam
<1>11. /\ map = Rebuilt(l) /\ (Written0(x) # None => Target2(d, x))
       /\ Dense(x, lb, n) /\ EmptyFrom(x, n) /\ Shape(x)
  BY <1>4, <1>5, <1>8 DEF DInv, DMounted, MergeData
\* The page it copies is the one a read would find.
<1>12. PICK src, sp, plus :
         /\ src = IF map[n] = None THEN d ELSE l
         /\ sp = IF map[n] = None THEN n ELSE map[n]
         /\ plus = IF map[n] = None THEN 2 ELSE 1
  OBVIOUS
<1>13. src \in Blk /\ sp \in Page /\ Good(flash[src][sp], lb, n)
  <2>1. map[n] \in Page \cup {None} /\ Good(FoundAt(d, l, n), lb, n)
    BY <1>5, <1>7, <1>10 DEF Map
  <2> QED BY <1>5, <1>7, <1>11, <1>12, <2>1 DEF FoundAt
<1>14. flash[src][0].info = lb /\ Older(AgeOf(src), plus) = Older(AgeOf(d), 2) /\ AgeOf(d) \in 0 .. AgeCnt - 1
  <2>1. AgeOf(d) \in 0 .. AgeCnt - 1
    BY <1>5 DEF IInv, FlashInv, FlashType, AgeOf
  <2>2. CASE map[n] = None
    BY <1>5, <1>12, <2>1, <2>2
  <2>3. CASE map[n] # None
    <3>1. Written0(l) = l
      BY <1>7, <1>10, <1>11, <2>3 DEF EmptyMap
    <3>2. flash[l][0].info = lb /\ AgeOf(l) = Older(AgeOf(d), 1)
      <4>1. l \in Of(lb)
        BY <1>5, <1>10, <3>1 DEF Fam
      <4> QED BY <1>5, <1>10, <3>1, <4>1 DEF Fam, Of
    <3>3. Older(Older(AgeOf(d), 1), 1) = Older(AgeOf(d), 2)
      BY <2>1, Ages DEF AgeFacts
    <3> QED BY <1>12, <2>1, <2>3, <3>2, <3>3
  <2> QED BY <2>2, <2>3
<1>15. PICK rec : rec = IF n = 0 THEN [flash[src][sp] EXCEPT !.info = flash[src][0].info,
                                                           !.status = Older(AgeOf(src), plus)]
                        ELSE flash[src][sp]
  OBVIOUS
<1>16. Program(x, n, rec)
  <2>1. map[n] = map[merge.next] /\ LogOf(merge.lb).blk = l /\ data[merge.lb] = d
    BY <1>5
  <2>2. CASE n = 0
    BY <1>5, <1>12, <1>15, <2>1, <2>2 DEF SimpleCopy, CopyPage0
  <2>3. CASE n # 0
    BY <1>5, <1>12, <1>15, <2>1, <2>3 DEF SimpleCopy, Copy
  <2> QED BY <2>2, <2>3
<1>17. Good(rec, lb, n) /\ (n = 0 => rec.status = Older(AgeOf(d), 2))
  <2>1. flash[src][sp] \in RecordType
    BY <1>13, CopiedRecord DEF IInv
  <2>2. \A i, s : LET t == [flash[src][sp] EXCEPT !.info = i, !.status = s] IN
          t.info = i /\ t.status = s /\ t.lpn = flash[src][sp].lpn /\ t.main = flash[src][sp].main
    BY <2>1 DEF RecordType
  <2>3. CASE n = 0
    BY <1>13, <1>14, <1>15, <2>2, <2>3 DEF Good
  <2>4. CASE n # 0
    BY <1>13, <1>15, <2>4
  <2> QED BY <2>3, <2>4
<1>18. OnePage(x, n, rec) /\ Only(x) /\ flash'[x][n] = rec
       /\ \A q \in Page : q # n => flash'[x][q] = flash[x][q]
  BY <1>5, <1>7, <1>16, ProgramIs DEF IInv, FlashInv
<1>19. CopiedIn(x, lb, n)
  BY <1>5, <1>7, <1>11, <1>17, <1>18, CopyIn DEF IInv
<1>20. Shape(x)' /\ Dense(x, lb, n + 1)' /\ EmptyFrom(x, n + 1)' /\ Fresh
  <2>1. flash[x][n] = Erased
    BY <1>19 DEF CopiedIn
  <2> QED BY <1>5, <1>7, <1>18, <1>19, <2>1, FreshProgram DEF CopiedIn
<1>21. flash'[x][0].info = lb
  BY <1>9, <1>17, <1>18, Numbers DEF Good
<1>22. Target2(d, x)'
  <2>1. flash'[d] = flash[d]
    BY <1>5, <1>9, <1>18 DEF Only
  <2>2. CASE n = 0
    BY <1>17, <1>18, <2>1, <2>2 DEF Target2, AgeOf
  <2>3. CASE n # 0
    <3>1. Written0(x) = x /\ flash'[x][0] = flash[x][0]
      BY <1>5, <1>9, <1>18, <2>3, Numbers DEF Written0
    <3> QED BY <1>5, <1>11, <2>1, <3>1 DEF Target2, AgeOf
  <2> QED BY <2>2, <2>3
<1>23. Written0(x)' = x /\ flash'[l] = flash[l] /\ Written0(l)' = Written0(l) /\ Rebuilt(l)' = Rebuilt(l)
  BY <1>5, <1>18, <1>21, SameBlock DEF Written0, Only
<1>24. Fam(lb, d, Written0(l), x)'
  <2>1. PICK w : w = Written0(l)
    OBVIOUS
  <2>2. w \in Blk \cup {None} /\ w # x
    BY <1>5, <1>10, <2>1
  <2>3. Fam(lb, d, w, x)'
    BY <1>5, <1>9, <1>10, <1>18, <1>21, <1>22, <2>1, <2>2, FamTarget
  <2> QED BY <1>23, <2>1, <2>3
<1>25. merge'.kind = "simple" /\ merge'.step = "copy" /\ merge'.lb = lb /\ merge'.dst = x /\ merge'.next = n + 1
  BY <1>2, <1>4, <1>6, <1>8 DEF MergeType
<1>26. MergeData'
  <2> DEFINE k == n + 1
  <2>1. Dense(x, lb, k)' /\ EmptyFrom(x, k)'
    BY <1>20
  <2>2. merge'.next = k /\ logs'[e].blk = l /\ data'[lb] = d /\ EntrySlot' = e /\ map' = Rebuilt(l)'
    BY <1>4, <1>5, <1>11, <1>23, <1>25 DEF EntrySlot, map
  <2> HIDE DEF k
  <2>3. Fam(lb, d, Written0(l), Written0(x))'
    BY <1>23, <1>24
  <2> QED BY <1>22, <1>25, <2>1, <2>2, <2>3, MergeDataIs
<1>27. \A i \in Cached : pool'[i].slot = pool[i].slot /\ (i # cur => pool'[i] = pool[i])
  BY <1>4
<1> QED BY <1>4, <1>5, <1>8, <1>18, <1>20, <1>21, <1>25, <1>26, <1>27, TargetStep
\* Step SimpleEraseData.
LEMMA SimpleEraseDataData == ASSUME IInv, DInv, SimpleEraseData PROVE DInv' /\ Fresh
<1>1. PICK e : e = EntrySlot
  OBVIOUS
<1>2. PICK lb, l, x, n : lb = merge.lb /\ l = logs[e].blk /\ x = merge.dst /\ n = merge.next
  OBVIOUS
<1>3. PICK d : d = data[lb]
  OBVIOUS
<1>4. /\ Merging /\ Merging' /\ merge.kind = "simple" /\ merge.step = "copy" /\ n = PageCnt
      /\ merge' = [merge EXCEPT !.step = "erase"]
      /\ data' = [data EXCEPT ![lb] = x] /\ Erase(d)
      /\ UNCHANGED <<logs, pool, cur, ctl, saved, op, post>>
  BY <1>2, <1>3 DEF SimpleEraseData, CopyDone, Merging, NoMerge, maps
<1>5. Copying(e, lb, l, d, x, n)
  BY <1>1, <1>2, <1>3, <1>4, WhileCopying
<1> USE DEF Copying
<1>6. x # d /\ flash[x][0].info = lb
  BY <1>2, <1>3, <1>4, <1>5, Numbers, WhileCopying
<1>7. /\ Fam(lb, d, Written0(l), Written0(x))
      /\ Written0(l) \in {l, None} /\ Written0(x) \in {x, None}
  BY <1>4, <1>5, MergedFam
<1>8. Dense(x, lb, n) /\ EmptyFrom(x, n) /\ (Written0(x) # None => Target2(d, x))
  BY <1>4, <1>5 DEF DInv, DMounted, MergeData
<1>9. \A p \in Page : Good(flash[x][p], lb, p)
  <2>1. \A p \in Page : p < n
    BY <1>4, Numbers DEF Page
  <2> QED BY <1>8, <2>1 DEF Dense
<1>10. Written0(x) = x /\ Target2(d, x)
  BY <1>5, <1>6, <1>8 DEF Written0
<1>11. Only(d) /\ flash'[d] = ErasedBlk /\ Fresh
  BY <1>4, <1>5, EraseIs DEF IInv, FlashInv
<1>12. flash'[x] = flash[x] /\ flash'[l] = flash[l] /\ Written0(l)' = Written0(l)
  BY <1>5, <1>6, <1>11, SameBlock DEF Only
<1>13. IF Written0(l)' = None THEN Fam(lb, x, None, None)' ELSE Fam(lb, l, x, None)'
  <2>1. CASE Written0(l) = None
    <3>1. Fam(lb, d, None, x)
      BY <1>7, <1>10, <2>1
    <3>2. Fam(lb, x, None, None)'
      BY <1>5, <1>9, <1>11, <3>1, DropData
    <3> QED BY <1>12, <2>1, <3>2
  <2>2. CASE Written0(l) # None
    <3>1. Fam(lb, d, l, x) /\ Written0(l) = l
      BY <1>7, <1>10, <2>2
    <3>2. Fam(lb, l, x, None)'
      BY <1>5, <1>9, <1>10, <1>11, <3>1, DropOld DEF IInv
    <3> QED BY <1>12, <2>2, <3>2
  <2> QED BY <2>1, <2>2
<1>14. MergeType
  BY <1>4 DEF IInv, MergeOk
<1>15. merge'.kind = "simple" /\ merge'.step = "erase" /\ merge'.lb = lb /\ merge'.dst = x /\ merge'.next = n
  BY <1>2, <1>4, <1>14 DEF MergeType
<1>16. data'[lb] = x /\ \A y \in LogicBlk : y # lb => data'[y] = data[y]
  BY <1>4, <1>5 DEF Roles
<1>17. MergeData'
  <2>1. Dense(x, lb, n)' /\ EmptyFrom(x, n)'
    BY <1>8, <1>12 DEF Dense, EmptyFrom, Good
  <2>2. logs'[e].blk = l /\ EntrySlot' = e
    BY <1>4, <1>5 DEF EntrySlot
  <2> QED BY <1>13, <1>15, <1>16, <2>1, <2>2, MergeDataIs
<1>18. OthersStay(lb, e)
  <2>1. flash'[d][0].info = None
    BY <1>11, Numbers DEF ErasedBlk, Erased, PageRecord
  <2>2. NearOnly(lb)
    BY <1>5, <1>11, <2>1 DEF NearOnly, Only
  <2>3. \A s \in Slot : s # e /\ logs[s].lb # None => logs[s].blk # d /\ logs[s].blk \in Blk
    BY <1>5, OtherBlocks
  <2> QED BY <1>4, <1>5, <1>11, <1>16, <2>2, <2>3 DEF OthersStay, Only
<1>19. Mounted' /\ ~Placed' /\ EntrySlot' = e /\ InMerges(lb)'
  BY <1>4, <1>5, <1>15 DEF Mounted, Placed, EntrySlot, InMerges
<1>20. LastOk(logs, e)'
  <2>1. LastOk(logs, e)
    BY <1>4, <1>5 DEF DInv, DMounted, LastsOk
  <2> QED BY <1>4, <1>5, <1>12, <2>1 DEF LastOk, HasLast
<1>21. \A i \in Cached : pool'[i].slot = e => i = cur'
  BY <1>4, <1>5 DEF IInv, PoolOk, EntrySlot
<1>22. PlaceOk' /\ ReadOk'
  BY <1>4, <1>19 DEF PlaceOk, ReadOk, Quiet
<1>23. \A c \in Blk : flash'[c] = flash[c] \/ Shape(c)'
  BY <1>11, ErasedNext DEF ErasedFacts, Only
<1>24. Mounted /\ merge.lb = lb /\ EntrySlot = e /\ lb \in LogicBlk /\ e \in Slot
  BY <1>5
<1> QED BY <1>4, <1>11, <1>17, <1>18, <1>19, <1>20, <1>21, <1>22, <1>23, <1>24, StepData
\* Step SimpleEnd.
LEMMA SimpleEndData == ASSUME IInv, DInv, SimpleEnd PROVE DInv' /\ Fresh
<1>1. PICK e : e = EntrySlot
  OBVIOUS
<1>2. PICK lb, l, x, n : lb = merge.lb /\ l = logs[e].blk /\ x = merge.dst /\ n = merge.next
  OBVIOUS
<1>3. PICK d : d = data[lb]
  OBVIOUS
<1>4. Merging /\ merge.kind = "simple" /\ merge.step = "erase"
  BY DEF SimpleEnd, Merging, NoMerge
<1>5. Copying(e, lb, l, d, x, n)
  BY <1>1, <1>2, <1>3, <1>4, WhileCopying
<1> USE DEF Copying
<1>6. /\ merge' = NoMerge /\ ~Merging' /\ Erase(l) /\ logs' = [logs EXCEPT ![e] = NoLog]
      /\ pool' = [pool EXCEPT ![cur] = NoEntry]
      /\ UNCHANGED <<data, cur, ctl, saved, op, post>>
  BY <1>5 DEF SimpleEnd, ClearLog, ClearCurMap, Merging
<1>7. x = d
  BY <1>4, <1>5, WhileCopying
<1>8. IF Written0(l) = None THEN Fam(lb, x, None, None) ELSE Fam(lb, l, x, None)
  BY <1>4, <1>5 DEF DInv, DMounted, MergeData
<1>9. Dense(x, lb, n) /\ n = PageCnt
  BY <1>4, <1>5 DEF DInv, DMounted, MergeData, IInv, MergeOk, TargetOk
<1>10. \A p \in Page : Good(flash[x][p], lb, p)
  <2>1. \A p \in Page : p < n
    BY <1>9, Numbers DEF Page
  <2> QED BY <1>9, <2>1 DEF Dense
<1>11. Only(l) /\ flash'[l] = ErasedBlk /\ Fresh
  BY <1>5, <1>6, EraseIs DEF IInv, FlashInv
<1>12. Fam(lb, x, None, None)'
  <2>1. CASE Written0(l) = None
    <3>1. Fam(lb, x, None, None)
      BY <1>8, <2>1
    <3>2. flash[l] = ErasedBlk
      BY <1>5, <2>1 DEF Written0, IInv, FlashInv, Zeroed
    <3>3. \A c \in Blk : flash'[c] = flash[c]
      BY <1>11, <3>2 DEF Only
    <3>4. Of(lb)' = Of(lb) /\ \A c \in Of(lb) : flash'[c] = flash[c]
      BY <3>3 DEF Of
    <3> QED BY <1>5, <3>1, <3>4, FamSame
  <2>2. CASE Written0(l) # None
    <3>1. Fam(lb, l, x, None)
      BY <1>8, <2>2
    <3> QED BY <1>5, <1>10, <1>11, <3>1, DropData
  <2> QED BY <2>1, <2>2
<1>13. /\ logs'[e].lb = None /\ \A s \in Slot : s # e => logs'[s] = logs[s]
       /\ \A i \in Cached : /\ pool'[i].slot # e
                            /\ pool'[i].slot # None => pool'[i] = pool[i]
  BY <1>5, <1>6, LogGone DEF Roles
<1>14. \A s \in Slot : logs'[s].lb # lb
  BY <1>5, <1>13 DEF Roles, Used
<1>15. Own(data, logs, lb)'
  <2>1. LogIn(logs, lb)' = None
    BY <1>14 DEF LogIn
  <2> QED BY <1>5, <1>6, <1>7, <1>12, <2>1 DEF Own
<1>16. OthersStay(lb, e)
  <2>1. flash'[l][0].info = None
    BY <1>11, Numbers DEF ErasedBlk, Erased, PageRecord
  <2>2. flash[l][0].info \in {lb, None}
    BY <1>5, Numbers DEF Marks, Used, InUse, ErasedBlk, Erased, PageRecord
  <2>3. NearOnly(lb)
    BY <1>5, <1>11, <2>1, <2>2 DEF NearOnly, Only
  <2>4. \A s \in Slot : s # e /\ logs[s].lb # None => logs[s].blk # l /\ logs[s].blk \in Blk
    BY <1>5, OtherBlocks
  <2> QED BY <1>5, <1>6, <1>11, <1>13, <2>3, <2>4 DEF OthersStay, Only
<1>17. Mounted' /\ ~Placed'
  BY <1>5, <1>6 DEF Mounted, Placed
<1>18. PlaceOk' /\ MergeData' /\ ReadOk'
  BY <1>5, <1>6, <1>17 DEF PlaceOk, MergeData, ReadOk, Quiet
<1>19. \A c \in Blk : flash'[c] = flash[c] \/ Shape(c)'
  BY <1>11, ErasedNext DEF ErasedFacts, Only
<1>20. Mounted /\ merge.lb = lb /\ EntrySlot = e /\ lb \in LogicBlk /\ e \in Slot
  BY <1>5
<1> QED BY <1>11, <1>13, <1>15, <1>16, <1>17, <1>18, <1>19, <1>20, StepData
(***************************************************************************)
(* Where a move puts its pages.                                            *)
(***************************************************************************)
\* Pages are finitely many.
LEMMA FewPages ==
  ASSUME NEW S \in SUBSET Page PROVE IsFiniteSet(S) /\ Cardinality(S) \in Nat
<1>1. S \in SUBSET (0 .. PageCnt - 1) /\ 0 \in Int /\ PageCnt - 1 \in Int
  BY Numbers DEF Page
<1> QED BY <1>1, PartOfInterval
\* A page goes to the line its rank says, in its bank.
LEMMA TargetIs ==
  ASSUME Align, map \in Map, NEW p \in Mapped(map)
  PROVE  /\ p \in Page /\ Target(p) \in Page /\ Rank(p) \in Nat /\ BankOf(p) \in 0 .. Banks - 1
         /\ Target(p) = Rank(p) * Banks + BankOf(p)
         /\ Target(p) \div Banks = Rank(p) /\ Target(p) % Banks = BankOf(p)
         /\ BankOf(Target(p)) = BankOf(p)
<1>1. p \in Page /\ Rank(p) \in Nat /\ Target(p) \in Page
  BY RankBound DEF Mapped
<1>2. BankOf(p) = p % Banks /\ BankOf(p) \in 0 .. Banks - 1
  BY <1>1, LineOfPage DEF BankOf
<1>3. Target(p) = BankOf(p) + Banks * Rank(p)
  BY DEF Target, Stride
<1> DEFINE r == Rank(p)
           k == BankOf(p)
<1>4. r \in Nat /\ k \in 0 .. Banks - 1 /\ Banks \in Nat
  BY <1>1, <1>2, Numbers
<1>5. BankOf(Target(p)) = Target(p) % Banks
  BY DEF BankOf
<1> HIDE DEF r, k
<1>6. k + Banks * r = r * Banks + k
  BY <1>4
<1>7. (r * Banks + k) \div Banks = r /\ (r * Banks + k) % Banks = k
  BY <1>4, PageInLine
<1> QED BY <1>1, <1>2, <1>3, <1>5, <1>6, <1>7 DEF r, k
\* Of two pages of a bank the later one has the higher rank.
LEMMA RanksGrow ==
  ASSUME map \in Map, NEW p \in Mapped(map), NEW q \in Mapped(map), BankOf(q) = BankOf(p), q < p
  PROVE  Rank(q) < Rank(p)
<1> DEFINE S == {u \in Mapped(map) : BankOf(u) = BankOf(q) /\ u < q}
           T == {u \in Mapped(map) : BankOf(u) = BankOf(p) /\ u < p}
<1>1. \A u \in Mapped(map) : u \in Page /\ u \in Nat
  BY Numbers DEF Mapped
<1>2. S \subseteq T /\ q \in T /\ q \notin S /\ S \in SUBSET Page /\ T \in SUBSET Page
  BY <1>1
<1>3. Rank(q) = Cardinality(S) /\ Rank(p) = Cardinality(T)
  BY DEF Rank
<1> HIDE DEF S, T
<1>4. IsFiniteSet(T) /\ Cardinality(S) \in Nat /\ Cardinality(T) \in Nat
  BY <1>2, FewPages
<1>5. Cardinality(S) <= Cardinality(T) /\ Cardinality(S) # Cardinality(T)
  BY <1>2, <1>4, FS_Subset
<1> QED BY <1>3, <1>4, <1>5
\* The page before a page in its bank has the rank before.
LEMMA RankBefore ==
  ASSUME map \in Map, NEW p \in Mapped(map), Rank(p) > 0
  PROVE  \E q \in Mapped(map) : BankOf(q) = BankOf(p) /\ q < p /\ Rank(q) = Rank(p) - 1
<1> DEFINE T == {u \in Mapped(map) : BankOf(u) = BankOf(p) /\ u < p}
<1>1. \A u \in Mapped(map) : u \in Page /\ u \in Nat
  BY Numbers DEF Mapped
<1>2. T \in SUBSET Page /\ Rank(p) = Cardinality(T) /\ T \in SUBSET (0 .. PageCnt - 1)
  BY <1>1 DEF Rank, Page
<1> HIDE DEF T
<1>3. IsFiniteSet(T) /\ T # {} /\ PageCnt - 1 \in Nat
  BY <1>2, FewPages, FS_EmptySet, Numbers
<1>4. PICK q \in T : \A u \in T : u <= q
  BY <1>2, <1>3, Greatest
<1>5. q \in Mapped(map) /\ BankOf(q) = BankOf(p) /\ q < p
  BY DEF T
<1> DEFINE S == {u \in Mapped(map) : BankOf(u) = BankOf(q) /\ u < q}
<1>6. S = T \ {q}
  <2>1. \A u \in S : u \in T /\ u # q
    BY <1>1, <1>5 DEF T
  <2>2. \A u \in T : u # q => u \in S
    BY <1>1, <1>4, <1>5 DEF T
  <2> QED BY <2>1, <2>2
<1>7. Cardinality(T \ {q}) = Cardinality(T) - 1
  BY <1>3, <1>4, FS_RemoveElement
<1>8. Rank(q) = Cardinality(S)
  BY DEF Rank
<1> QED BY <1>2, <1>5, <1>6, <1>7, <1>8
\* No two pages go to the same place.
LEMMA TargetsDiffer ==
  ASSUME Align, map \in Map, NEW p \in Mapped(map), NEW q \in Mapped(map), Target(p) = Target(q)
  PROVE  p = q
<1>1. /\ p \in Nat /\ q \in Nat /\ BankOf(p) = BankOf(q) /\ Rank(p) = Rank(q) /\ Rank(p) \in Nat
  BY TargetIs, Numbers DEF Mapped
<1>2. ~(p < q)
  BY <1>1, RanksGrow
<1>3. ~(q < p)
  BY <1>1, RanksGrow
<1> QED BY <1>1, <1>2, <1>3
\* One is moved before the other.
LEMMA PlacesGrow ==
  ASSUME map \in Map, NEW p \in Mapped(map), NEW q \in Mapped(map), Before(p, q)
  PROVE  Place(p) < Place(q)
<1> DEFINE S == {u \in Mapped(map) : Before(u, p)}
           T == {u \in Mapped(map) : Before(u, q)}
<1>1. \A u \in Mapped(map) : u \in Page /\ u \in Nat /\ BankOf(u) \in Nat
  BY Numbers, LineOfPage DEF Mapped, BankOf
<1>2. S \subseteq T /\ p \in T /\ p \notin S /\ S \in SUBSET Page /\ T \in SUBSET Page
  BY <1>1 DEF Before
<1>3. Place(p) = Cardinality(S) /\ Place(q) = Cardinality(T)
  BY DEF Place
<1> HIDE DEF S, T
<1>4. IsFiniteSet(T) /\ Cardinality(S) \in Nat /\ Cardinality(T) \in Nat
  BY <1>2, FewPages
<1>5. Cardinality(S) <= Cardinality(T) /\ Cardinality(S) # Cardinality(T)
  BY <1>2, <1>4, FS_Subset
<1> QED BY <1>3, <1>4, <1>5
\* A move puts two pages in two places.
LEMMA PlacesDiffer ==
  ASSUME map \in Map, NEW p \in Mapped(map), NEW q \in Mapped(map), Place(p) = Place(q)
  PROVE  p = q
<1>1. /\ p \in Nat /\ q \in Nat /\ BankOf(p) \in Nat /\ BankOf(q) \in Nat
      /\ Place(p) \in Nat
  <2>1. Place(p) \in Nat
    <3> DEFINE S == {u \in Mapped(map) : Before(u, p)}
    <3>1. S \in SUBSET Page /\ Place(p) = Cardinality(S)
      BY DEF Mapped, Place
    <3> HIDE DEF S
    <3> QED BY <3>1, FewPages
  <2> QED BY <2>1, Numbers, LineOfPage DEF Mapped, BankOf
<1>2. ~Before(p, q)
  BY <1>1, PlacesGrow
<1>3. ~Before(q, p)
  BY <1>1, PlacesGrow
<1> QED BY <1>1, <1>2, <1>3 DEF Before
\* A move of few pages leaves the last line of its target empty.
LEMMA RanksFew ==
  ASSUME map \in Map, Cardinality(Mapped(map)) < PageCnt \div (Banks + 1), NEW p \in Mapped(map)
  PROVE  Rank(p) \in Nat /\ Rank(p) < LineCnt - 1
<1> DEFINE n == Cardinality(Mapped(map))
<1>1. /\ PageCnt \in Nat /\ Banks \in Nat /\ Banks > 0 /\ LineCnt \in Nat /\ LineCnt >= 3
      /\ PageCnt = LineCnt * Banks
  BY Numbers, Lines
<1>2. IsFiniteSet(Mapped(map)) /\ n \in Nat
  BY FewPages DEF Mapped
<1>3. n + 1 < LineCnt
  <2> DEFINE d == Banks + 1
             q == PageCnt \div d
  <2>1. q \in Nat /\ PageCnt = d * q + (PageCnt % d) /\ PageCnt % d \in Nat
    BY <1>1, DivMod
  <2> HIDE DEF q
  <2>2. d * q <= LineCnt * Banks
    BY <1>1, <2>1
  <2>3. ASSUME LineCnt <= q PROVE FALSE
    <3>1. d * LineCnt <= d * q
      BY <1>1, <2>1, <2>3, MulLe
    <3>2. d * LineCnt = LineCnt * Banks + LineCnt
      BY <1>1
    <3>3. d * q \in Nat /\ d * LineCnt \in Nat /\ LineCnt * Banks \in Nat
      BY <1>1, <2>1
    <3> QED BY <1>1, <2>2, <3>1, <3>2, <3>3
  <2> QED BY <1>1, <1>2, <2>1, <2>3 DEF q
<1> DEFINE S == {q \in Mapped(map) : BankOf(q) = BankOf(p) /\ q < p}
<1>4. p \in Nat /\ p \notin S /\ S \subseteq Mapped(map) /\ S # Mapped(map) /\ Rank(p) = Cardinality(S)
      /\ S \in SUBSET Page
  BY Numbers DEF Mapped, Rank
<1> HIDE DEF S
<1>5. Cardinality(S) \in Nat /\ Cardinality(S) < n
  <2>1. Cardinality(S) <= n /\ (n = Cardinality(S) => Mapped(map) = S)
    BY <1>2, <1>4, FS_Subset
  <2>2. Cardinality(S) \in Nat
    BY <1>4, FewPages
  <2> QED BY <1>2, <1>4, <2>1, <2>2
<1> HIDE DEF n
<1> QED BY <1>1, <1>2, <1>3, <1>4, <1>5
\* What a move knows before a step.
Moving(e, lb, l, d, x, n) ==
  /\ Merging /\ merge.kind = "move" /\ merge.step \in {"copy", "copied0"}
  /\ Copying(e, lb, l, d, x, n)
  /\ x # d /\ Written0(l) = l /\ flash[l][0].info = lb
  /\ IF n = 0 /\ merge.step = "copy" THEN flash[x] = ErasedBlk ELSE flash[x][0].info = lb
  /\ Fam(lb, d, l, Written0(x)) /\ Written0(x) \in {x, None}
  /\ MoveData(l, x, lb) /\ Shape(x) /\ Shape(l)
  /\ \A p \in Mapped(map) : Rebuilt(l)[p] \in Page /\ Good(flash[l][Rebuilt(l)[p]], lb, p)
\* What is known of the blocks in a move merge.
LEMMA WhileMoving ==
  ASSUME IInv, DInv, merge.kind = "move"
  PROVE  Moving(EntrySlot, merge.lb, logs[EntrySlot].blk, data[merge.lb], merge.dst, merge.next)
<1>1. PICK e : e = EntrySlot
  OBVIOUS
<1>2. PICK lb, l, x, n : lb = merge.lb /\ l = logs[e].blk /\ x = merge.dst /\ n = merge.next
  OBVIOUS
<1>3. PICK d : d = data[lb]
  OBVIOUS
<1>4. Merging
  BY DEF Merging, NoMerge
<1>5. Copying(e, lb, l, d, x, n)
  BY <1>1, <1>2, <1>3, <1>4, WhileCopying
<1>6. merge.step \in {"copy", "copied0"}
  <2>1. MergeType
    BY <1>4 DEF IInv, MergeOk
  <2>2. merge.step # "erase"
    BY <1>4 DEF IInv, MergeOk, TargetOk
  <2> QED BY <2>1, <2>2 DEF MergeType
<1>7. x # d /\ IF n = 0 /\ merge.step = "copy" THEN flash[x] = ErasedBlk ELSE flash[x][0].info = lb
  BY <1>2, <1>3, <1>4, <1>6, WhileCopying
<1>8. /\ Fam(lb, d, Written0(l), Written0(x)) /\ Written0(x) \in {x, None}
      /\ \A p \in Page : Good(FoundAt(d, l, p), lb, p)
  BY <1>4, <1>5, <1>6, MergedFam
<1>9. Written0(l) = l /\ flash[l][0].info = lb
  <2>1. logs[e].last # None
    BY <1>1, <1>4 DEF IInv, MergeOk
  <2> QED BY <1>5, <2>1 DEF Copying, Written0
<1>10. MoveData(l, x, lb) /\ Shape(x) /\ Shape(l)
  BY <1>4, <1>5 DEF DInv, DMounted, MergeData, Copying
<1>11. ASSUME NEW p \in Mapped(map)
       PROVE  Rebuilt(l)[p] \in Page /\ Good(flash[l][Rebuilt(l)[p]], lb, p)
  <2>1. p \in Mapped(Rebuilt(l)) /\ p \in Page
    BY <1>10 DEF MoveData, Mapped
  <2>2. Rebuilt(l)[p] # None /\ Rebuilt(l)[p] \in Page
    BY <2>1, RebuiltIs DEF Mapped
  <2>3. Good(FoundAt(d, l, p), lb, p) /\ l # None
    BY <1>5, <1>8, <2>1 DEF Copying
  <2> QED BY <2>2, <2>3 DEF FoundAt
<1>12. Moving(e, lb, l, d, x, n)
  BY <1>4, <1>5, <1>6, <1>7, <1>8, <1>9, <1>10, <1>11 DEF Moving
<1> QED BY <1>1, <1>2, <1>3, <1>12
\* A page of the target holds a page that was moved, or it is page 0 with the
\* logic info, or it is not used.
LEMMA TargetPages ==
  ASSUME IInv, NEW e, NEW lb, NEW l, NEW d, NEW x, NEW n, Moving(e, lb, l, d, x, n), NEW q \in Page
  PROVE  /\ \/ \E p \in Mapped(map) : Done(p) /\ Target(p) = q /\ Good(flash[x][q], lb, p) /\ p \in Page
            \/ q = 0 /\ flash[x][0].lpn = None
            \/ q > 0 /\ flash[x][q] = Erased
         /\ ~IsTable(flash[x][q])
<1>1. \/ \E p \in Mapped(map) : Done(p) /\ Target(p) = q /\ Good(flash[x][q], lb, p) /\ p \in Page
      \/ q = 0 /\ flash[x][0].lpn = None
      \/ q > 0 /\ flash[x][q] = Erased
  <2>1. CASE \A p \in Mapped(map) : Done(p) => Target(p) # q
    BY <2>1, Numbers DEF Moving, MoveData
  <2>2. ASSUME NEW p \in Mapped(map), Done(p), Target(p) = q
        PROVE  Good(flash[x][q], lb, p) /\ p \in Page
    BY <2>2 DEF Moving, MoveData, Mapped
  <2> QED BY <2>1, <2>2
<1>2. ~IsTable(flash[x][q])
  <2>1. CASE q = 0
    <3>1. AgeOf(x) \in 0 .. AgeCnt - 1
      BY DEF IInv, FlashInv, FlashType, AgeOf, Moving, Copying
    <3> QED BY <2>1, <3>1, Status DEF IsTable, AgeOf
  <2>2. CASE flash[x][q] = Erased
    BY <2>2, Status DEF IsTable, Erased, PageRecord
  <2>3. ASSUME NEW p \in Page, Good(flash[x][q], lb, p)
        PROVE  ~IsTable(flash[x][q])
    BY <2>3, Numbers DEF IsTable, Good
  <2> QED BY <1>1, <2>1, <2>2, <2>3
<1> QED BY <1>1, <1>2
\* Its last line is empty.
LEMMA TargetEnd ==
  ASSUME Align, IInv, MoveFew, NEW e, NEW lb, NEW l, NEW d, NEW x, NEW n, Moving(e, lb, l, d, x, n)
  PROVE  \A q \in Page : q \div Banks = LineCnt - 1 => ~IsUsed(flash[x][q])
<1> SUFFICES ASSUME NEW q \in Page, q \div Banks = LineCnt - 1, IsUsed(flash[x][q]) PROVE FALSE
  OBVIOUS
<1>1. map \in Map /\ Cardinality(Mapped(map)) < PageCnt \div (Banks + 1)
  BY DEF Moving, Copying, MoveFew
<1>2. q # 0
  <2>1. 0 \div Banks = 0
    <3>1. 0 * Banks + 0 = 0 /\ 0 \in 0 .. Banks - 1
      BY Numbers
    <3> QED BY <3>1, PageInLine
  <2> QED BY <2>1, Lines
<1>3. flash[x][q] # Erased
  BY DEF IsUsed, Erased, PageRecord
<1>4. PICK p \in Mapped(map) : Target(p) = q
  BY <1>2, <1>3, TargetPages
<1>5. Rank(p) = LineCnt - 1
  BY <1>1, <1>4, TargetIs
<1>6. Rank(p) \in Nat /\ Rank(p) < LineCnt - 1
  BY <1>1, RanksFew
<1> QED BY <1>5, <1>6
\* A step of a move that writes its target.
LEMMA MoveStep ==
  ASSUME Align, IInv, DInv, NEW e, NEW lb, NEW l, NEW d, NEW x, NEW n, Moving(e, lb, l, d, x, n),
         Only(x), Shape(x)', flash'[x][0].info = lb, AgeOf(x)' = AgeOf(l),
         \A q \in Page : q \div Banks = LineCnt - 1 => ~IsUsed(flash'[x][q]),
         merge'.kind = "move", merge'.step # "erase", merge'.lb = lb, merge'.dst = x,
         UNCHANGED <<data, logs, cur, op, post>>,
         \A i \in Cached : pool'[i].slot = pool[i].slot /\ (i # cur => pool'[i] = pool[i]),
         MoveData(l, x, lb)'
  PROVE  DInv'
<1>1. /\ Copying(e, lb, l, d, x, n) /\ Merging /\ merge.kind = "move" /\ merge.step # "erase"
      /\ x # d /\ Fam(lb, d, l, Written0(x)) /\ Written0(l) = l /\ MoveData(l, x, lb)
  BY DEF Moving
<1>2. /\ l \in Blk /\ l # x /\ l # None /\ x \in Blk /\ x # None /\ d \in Blk /\ lb \in LogicBlk /\ lb # None
      /\ l = logs[e].blk /\ d = data[lb] /\ e = EntrySlot /\ cur \in Cached
  BY <1>1 DEF Copying
<1>3. flash'[l] = flash[l]
  BY <1>2 DEF Only
<1>4. AgeOf(l)' = AgeOf(l) /\ Written0(l)' = l /\ LineUsed(l, LineCnt - 1)'
  BY <1>1, <1>3, SameBlock DEF MoveData
<1>5. ~LineUsed(x, LineCnt - 1)'
  <2>1. LineFacts(x, LineCnt - 1)'
    <3>1. LineCnt - 1 \in 0 .. LineCnt - 1
      BY Lines
    <3> QED BY <3>1, LinesNext
  <2> QED BY <2>1 DEF LineFacts
<1>6. TargetMove(l, x)'
  BY <1>2, <1>4, <1>5 DEF TargetMove
<1>7. Fam(lb, d, l, x)'
  BY <1>1, <1>2, <1>6, FamTarget
<1>8. Written0(x)' = x
  BY <1>2 DEF Written0
<1>9. MergeData'
  <2>1. PICK k, s : k = merge'.next /\ s = merge'.step
    OBVIOUS
  <2>2. Fam(lb, d, Written0(l), Written0(x))'
    BY <1>4, <1>7, <1>8
  <2>3. EntrySlot' = e /\ logs'[e].blk = l /\ data'[lb] = d
    BY <1>2 DEF EntrySlot
  <2> QED BY <2>1, <2>2, <2>3, MergeDataIs
<1>10. Merging' /\ merge'.kind # "swap" /\ merge.kind # "swap"
  BY <1>1 DEF Merging, NoMerge
<1> QED BY <1>1, <1>9, <1>10, TargetStep
\* A move that begins with the logic info has a log block without data in page 0.
LEMMA NoDataInPage0 ==
  ASSUME Align, IInv, NEW l \in Blk, NEW x, NEW lb, Shape(l), MoveData(l, x, lb), map \in Map,
         0 \notin Targets
  PROVE  flash[l][0].lpn = None
<1>1. PICK p : p = flash[l][0].lpn
  OBVIOUS
<1> SUFFICES ASSUME p # None PROVE FALSE
  BY <1>1
<1>2. p \in Page /\ BankOf(p) = BankOf(0)
  <2>1. flash[l][0] \in RecordType
    BY Numbers, CopiedRecord DEF IInv
  <2> QED BY <1>1, <2>1, Numbers DEF RecordType, Shape
<1>3. Rebuilt(l)[p] # None
  BY <1>1, <1>2, RebuiltIs, Numbers
<1>4. p \in Mapped(map)
  BY <1>2, <1>3 DEF MoveData, Mapped
<1>5. BankOf(0) = 0
  <2>1. 0 * Banks + 0 = 0 /\ 0 \in 0 .. Banks - 1
    BY Numbers
  <2> QED BY <2>1, PageInLine DEF BankOf
<1>6. \E q \in Mapped(map) : BankOf(q) = 0 /\ \A u \in Mapped(map) : BankOf(u) = 0 => q <= u
  <2> DEFINE S == {k \in 0 .. PageCnt - 1 : PageCnt - 1 - k \in Mapped(map) /\ BankOf(PageCnt - 1 - k) = 0}
  <2>1. PageCnt - 1 - p \in S /\ PageCnt - 1 \in Nat
    <3>1. p \in Nat /\ p <= PageCnt - 1 /\ PageCnt - 1 - (PageCnt - 1 - p) = p
      BY <1>2, Numbers DEF Page
    <3> QED BY <1>2, <1>4, <1>5, <3>1, Numbers
  <2>2. S \in SUBSET (0 .. PageCnt - 1) /\ S # {}
    BY <2>1
  <2> HIDE DEF S
  <2>3. PICK k \in S : \A j \in S : j <= k
    BY <2>1, <2>2, Greatest
  <2>4. PageCnt - 1 - k \in Mapped(map) /\ BankOf(PageCnt - 1 - k) = 0 /\ k \in 0 .. PageCnt - 1
    BY DEF S
  <2>5. ASSUME NEW u \in Mapped(map), BankOf(u) = 0
        PROVE  PageCnt - 1 - k <= u
    <3>1. u \in Nat /\ u <= PageCnt - 1 /\ PageCnt - 1 - (PageCnt - 1 - u) = u
      BY Numbers DEF Page, Mapped
    <3>2. PageCnt - 1 - u \in S
      BY <2>5, <3>1, Numbers DEF S
    <3> QED BY <2>3, <2>4, <3>1, <3>2, Numbers
  <2> QED BY <2>4, <2>5
<1>7. PICK q \in Mapped(map) : BankOf(q) = 0 /\ \A u \in Mapped(map) : BankOf(u) = 0 => q <= u
  BY <1>6
<1>8. Rank(q) = 0
  <2>2. \A u \in Mapped(map) : u \in Nat
    BY Numbers DEF Mapped
  <2>1. {u \in Mapped(map) : BankOf(u) = BankOf(q) /\ u < q} = {}
    BY <1>7, <2>2
  <2> QED BY <2>1, FS_EmptySet DEF Rank
<1>9. Target(q) = 0
  <2>1. 0 * Banks + 0 = 0
    BY Numbers
  <2> QED BY <1>7, <1>8, <2>1, TargetIs
<1> QED BY <1>9 DEF Targets
\* Step MoveInfo.
LEMMA MoveInfoData == ASSUME Align, IInv, JInv, DInv, MoveInfo PROVE DInv' /\ Fresh
<1>1. PICK e : e = EntrySlot
  OBVIOUS
<1>2. PICK lb, l, x, n : lb = merge.lb /\ l = logs[e].blk /\ x = merge.dst /\ n = merge.next
  OBVIOUS
<1>3. PICK d : d = data[lb]
  OBVIOUS
<1>4. /\ merge.kind = "move" /\ n = 0 /\ merge.step = "copy" /\ 0 \notin Targets
      /\ CopyPage0(LogOf(merge.lb).blk, 0, merge.dst, 0)
      /\ merge' = [merge EXCEPT !.step = "copied0"]
      /\ UNCHANGED <<data, logs, free, pool, cur, ctl, saved, op, post>>
  BY <1>2 DEF MoveInfo, NeedsPage0, tables, maps
<1>5. Moving(e, lb, l, d, x, n)
  BY <1>1, <1>2, <1>3, <1>4, WhileMoving
<1>6. /\ Copying(e, lb, l, d, x, n) /\ Written0(l) = l /\ flash[l][0].info = lb
      /\ flash[x] = ErasedBlk /\ Shape(l) /\ Shape(x) /\ MoveData(l, x, lb)
  BY <1>4, <1>5 DEF Moving
<1>7. l \in Blk /\ x \in Blk /\ l # x /\ e \in Slot /\ LogOf(merge.lb).blk = l /\ map \in Map /\ cur \in Cached
  BY <1>6 DEF Copying
<1>8. flash[l][0].lpn = None
  BY <1>4, <1>6, <1>7, NoDataInPage0
<1>9. PICK rec : rec = [flash[l][0] EXCEPT !.info = flash[l][0].info, !.status = Older(AgeOf(l), 0)]
  OBVIOUS
<1>10. rec.info = lb /\ rec.lpn = None /\ rec.status = AgeOf(l) /\ ~IsTable(rec)
  <2>1. flash[l][0] \in RecordType
    BY <1>7, Numbers, CopiedRecord DEF IInv
  <2>2. \A i, s : LET t == [flash[l][0] EXCEPT !.info = i, !.status = s] IN
          t.info = i /\ t.status = s /\ t.lpn = flash[l][0].lpn
    BY <2>1 DEF RecordType
  <2>3. AgeOf(l) \in 0 .. AgeCnt - 1
    BY <1>7 DEF IInv, FlashInv, FlashType, AgeOf
  <2>4. Older(AgeOf(l), 0) = AgeOf(l)
    BY <2>3, Ages DEF AgeFacts
  <2> QED BY <1>6, <1>8, <1>9, <2>2, <2>3, <2>4, Status DEF IsTable
<1>11. Program(x, 0, rec)
  BY <1>2, <1>4, <1>7, <1>9 DEF CopyPage0
<1>12. OnePage(x, 0, rec) /\ Only(x) /\ flash'[x][0] = rec
       /\ \A q \in Page : q # 0 => flash'[x][q] = flash[x][q]
  BY <1>7, <1>11, Numbers, ProgramIs DEF IInv, FlashInv
<1>13. \A q \in Page : flash[x][q] = Erased /\ ~IsUsed(flash[x][q]) /\ flash[x][q].lpn = None
                       /\ ~IsTable(flash[x][q])
  BY <1>6, ErasedShape
<1>14. Shape(x)'
  <2>1. 0 \div Banks = 0
    <3>1. 0 * Banks + 0 = 0 /\ 0 \in 0 .. Banks - 1
      BY Numbers
    <3> QED BY <3>1, PageInLine
  <2>2. ~(0 \div Banks > 1)
    BY <2>1
  <2> QED BY <1>6, <1>7, <1>10, <1>12, <1>13, <2>2, Numbers, ShapeKeeps DEF IInv
<1>15. Fresh
  BY <1>7, <1>12, <1>13, Numbers, FreshProgram
<1>16. \A q \in Page : q \div Banks = LineCnt - 1 => ~IsUsed(flash'[x][q])
  <2> SUFFICES ASSUME NEW q \in Page, q \div Banks = LineCnt - 1 PROVE ~IsUsed(flash'[x][q])
    OBVIOUS
  <2>1. q # 0
    <3>1. 0 * Banks + 0 = 0 /\ 0 \in 0 .. Banks - 1
      BY Numbers
    <3>2. 0 \div Banks = 0
      BY <3>1, PageInLine
    <3> QED BY <3>2, Lines
  <2> QED BY <1>12, <1>13, <2>1
<1>17. MoveData(l, x, lb)'
  <2>1. LineUsed(l, LineCnt - 1)' /\ Rebuilt(l)' = Rebuilt(l) /\ AgeOf(l)' = AgeOf(l)
    <3>1. flash'[l] = flash[l]
      BY <1>7, <1>12 DEF Only
    <3> QED BY <1>6, <3>1, SameBlock DEF MoveData
  <2>2. AgeOf(x)' = AgeOf(l)'
    BY <1>10, <1>12, <2>1 DEF AgeOf
  <2>3. map' = map /\ Mapped(map)' = Mapped(map) /\ Targets' = Targets
    BY <1>4 DEF map, Mapped, Targets, Target, Rank
  <2>4. merge'.next = 0 /\ merge.next = 0
    <3>1. MergeType
      BY <1>5 DEF Moving, IInv, MergeOk
    <3> QED BY <1>2, <1>4, <3>1 DEF MergeType
  <2>5. \A p \in Mapped(map) : ~Done(p) /\ ~(Done(p))'
    <3> SUFFICES ASSUME NEW p \in Mapped(map) PROVE ~Done(p) /\ ~(Done(p))'
      OBVIOUS
    <3> DEFINE S == {u \in Mapped(map) : Before(u, p)}
    <3>1. Place(p)' = Cardinality(S) /\ Place(p) = Cardinality(S)
      BY <2>3 DEF Place
    <3>2. S \in SUBSET Page
      BY DEF Mapped
    <3> HIDE DEF S
    <3>3. Cardinality(S) \in Nat
      BY <3>2, FewPages
    <3> QED BY <2>4, <3>1, <3>3 DEF Done
  <2>6. Mapped(map)' = Mapped(Rebuilt(l))' /\ \A p \in Mapped(map)' : map'[p] = Rebuilt(l)'[p]
    BY <1>6, <2>1, <2>3, <2>5 DEF MoveData, Mapped
  <2>7. \A t \in Page : IF t = 0 THEN flash'[x][0].lpn = None ELSE flash'[x][t] = Erased
    BY <1>10, <1>12, <1>13
  <2> QED BY <1>4, <2>1, <2>2, <2>3, <2>5, <2>6, <2>7 DEF MoveData
<1>18. merge'.kind = "move" /\ merge'.step = "copied0" /\ merge'.lb = lb /\ merge'.dst = x
  <2>1. MergeType
    BY <1>5 DEF Moving, IInv, MergeOk
  <2> QED BY <1>2, <1>4, <2>1 DEF MergeType
<1>19. AgeOf(x)' = AgeOf(l) /\ flash'[x][0].info = lb
  BY <1>10, <1>12 DEF AgeOf
<1> QED BY <1>4, <1>5, <1>12, <1>14, <1>15, <1>16, <1>17, <1>18, <1>19, MoveStep
\* Step MoveCopy.
LEMMA MoveCopyData ==
  ASSUME Align, IInv, JInv, DInv, NEW p \in Page, MoveCopy(p) PROVE DInv' /\ Fresh
<1>1. PICK e : e = EntrySlot
  OBVIOUS
<1>2. PICK lb, l, x, n : lb = merge.lb /\ l = logs[e].blk /\ x = merge.dst /\ n = merge.next
  OBVIOUS
<1>3. PICK d : d = data[lb]
  OBVIOUS
<1>4. PICK t, q : t = Target(p) /\ q = map[p]
  OBVIOUS
<1>5. /\ merge.kind = "move" /\ MoveOrder(p) /\ ~NeedsPage0
      /\ IF t = 0 THEN CopyPage0(LogOf(merge.lb).blk, q, merge.dst, 0)
         ELSE Copy(LogOf(merge.lb).blk, q, merge.dst, t)
      /\ pool' = [pool EXCEPT ![cur].map[p] = t]
      /\ merge' = [merge EXCEPT !.next = n + 1]
      /\ UNCHANGED <<data, logs, free, cur, ctl, saved, op, post>>
  BY <1>2, <1>4 DEF MoveCopy, NextPage, tables
<1>6. Moving(e, lb, l, d, x, n) /\ Merging
  BY <1>1, <1>2, <1>3, <1>5, WhileMoving DEF Moving
<1>7. /\ Copying(e, lb, l, d, x, n) /\ Written0(l) = l /\ flash[l][0].info = lb
      /\ IF n = 0 /\ merge.step = "copy" THEN flash[x] = ErasedBlk ELSE flash[x][0].info = lb
      /\ Shape(l) /\ Shape(x) /\ MoveData(l, x, lb) /\ merge.step \in {"copy", "copied0"}
      /\ \A u \in Mapped(map) : Rebuilt(l)[u] \in Page /\ Good(flash[l][Rebuilt(l)[u]], lb, u)
  BY <1>6 DEF Moving
<1>8. l \in Blk /\ x \in Blk /\ l # x /\ e \in Slot /\ LogOf(merge.lb).blk = l /\ map \in Map /\ cur \in Cached
      /\ n \in Nat /\ lb # None
  BY <1>7 DEF Copying
<1>9. /\ p \in Mapped(map) /\ Place(p) = n /\ ~Done(p)
  <2>1. p \in Mapped(map) /\ Place(p) = n
    BY <1>2, <1>5 DEF MoveOrder, Place
  <2> QED BY <1>2, <1>8, <2>1 DEF Done
<1>10. q = Rebuilt(l)[p] /\ q \in Page /\ Good(flash[l][q], lb, p)
  BY <1>4, <1>7, <1>9 DEF MoveData
<1>11. /\ t \in Page /\ Rank(p) \in Nat /\ BankOf(p) \in 0 .. Banks - 1 /\ t = Rank(p) * Banks + BankOf(p)
       /\ t \div Banks = Rank(p) /\ BankOf(t) = BankOf(p)
  BY <1>4, <1>8, <1>9, TargetIs
<1>12. \A u \in Mapped(map) : Done(u) => Target(u) # t
  BY <1>4, <1>8, <1>9, TargetsDiffer
\* Page 0 is written first, or has the logic info.
<1>13. t = 0 => n = 0 /\ merge.step = "copy" /\ flash[x] = ErasedBlk
  <2> SUFFICES ASSUME t = 0 PROVE n = 0 /\ merge.step = "copy"
    BY <1>7
  <2>1. 0 * Banks + 0 = 0 /\ 0 \in 0 .. Banks - 1 /\ 0 % Banks = 0 /\ 0 \div Banks = 0
    <3>1. 0 * Banks + 0 = 0 /\ 0 \in 0 .. Banks - 1
      BY Numbers
    <3> QED BY <3>1, PageInLine
  <2>2. BankOf(p) = 0 /\ Rank(p) = 0
    BY <1>11, <2>1 DEF BankOf
  <2>3. \A u \in Mapped(map) : u \in Nat /\ BankOf(u) \in Nat
    BY <1>8, TargetIs, Numbers DEF Mapped
  <2> DEFINE S == {u \in Mapped(map) : BankOf(u) = BankOf(p) /\ u < p}
             T == {u \in Mapped(map) : Before(u, p)}
  <2>4. S \in SUBSET Page /\ Rank(p) = Cardinality(S)
    BY DEF Rank, Mapped
  <2>5. S = {}
    <3> HIDE DEF S
    <3> QED BY <2>2, <2>4, FewPages, FS_EmptySet
  <2>6. T = {}
    BY <2>2, <2>3, <2>5 DEF Before
  <2>7. Place(p) = 0
    BY <2>6, FS_EmptySet DEF Place
  <2>8. 0 \in Targets
    BY <1>4, <1>9 DEF Targets
  <2> QED BY <1>7, <1>9, <2>7, <2>8 DEF MoveData
<1>14. t # 0 => flash[x][0].info = lb
  <2> SUFFICES ASSUME t # 0, n = 0, merge.step = "copy" PROVE FALSE
    BY <1>7
  <2>1. 0 \in Targets
    BY <1>2, <1>5 DEF NeedsPage0
  <2> QED BY <1>2, <1>4, <1>5, <1>8, <2>1, FirstTarget
<1>15. PICK rec : rec = IF t = 0 THEN [flash[l][q] EXCEPT !.info = flash[l][0].info,
                                                          !.status = Older(AgeOf(l), 0)]
                        ELSE flash[l][q]
  OBVIOUS
<1>16. Program(x, t, rec)
  BY <1>2, <1>5, <1>8, <1>15 DEF CopyPage0, Copy
<1>17. Good(rec, lb, p) /\ (t = 0 => rec.status = AgeOf(l))
  <2>1. flash[l][q] \in RecordType
    BY <1>8, <1>10, CopiedRecord DEF IInv
  <2>2. \A i, s : LET r == [flash[l][q] EXCEPT !.info = i, !.status = s] IN
          r.info = i /\ r.status = s /\ r.lpn = flash[l][q].lpn /\ r.main = flash[l][q].main
    BY <2>1 DEF RecordType
  <2>3. AgeOf(l) \in 0 .. AgeCnt - 1
    BY <1>8 DEF IInv, FlashInv, FlashType, AgeOf
  <2>4. Older(AgeOf(l), 0) = AgeOf(l)
    BY <2>3, Ages DEF AgeFacts
  <2>5. CASE t = 0
    BY <1>7, <1>10, <1>15, <2>2, <2>4, <2>5 DEF Good
  <2>6. CASE t # 0
    BY <1>10, <1>15, <2>6
  <2> QED BY <2>5, <2>6
<1>18. rec.lpn = p /\ rec.lpn # None /\ rec.info = lb /\ IsUsed(rec) /\ ~IsTable(rec)
  BY <1>17, Numbers DEF Good, IsUsed, IsTable
<1>19. OnePage(x, t, rec) /\ Only(x) /\ flash'[x][t] = rec
       /\ \A u \in Page : u # t => flash'[x][u] = flash[x][u]
  BY <1>8, <1>11, <1>16, ProgramIs DEF IInv, FlashInv
<1>20. flash[x][t] = Erased /\ ~IsUsed(flash[x][t])
  <2>1. flash[x][t] = Erased
    <3>1. CASE t = 0
      BY <1>11, <1>13, <3>1, ErasedShape
    <3>2. CASE t # 0
      BY <1>7, <1>11, <1>12, <3>2 DEF MoveData
    <3> QED BY <3>1, <3>2
  <2> QED BY <2>1 DEF IsUsed, Erased, PageRecord
<1>21. Fresh
  BY <1>8, <1>11, <1>19, <1>20, FreshProgram
\* The page of its bank before it has been moved.
<1>22. t \div Banks > 1 => LineUsed(x, t \div Banks - 1)
  <2> SUFFICES ASSUME Rank(p) > 1 PROVE LineUsed(x, Rank(p) - 1)
    BY <1>11
  <2>1. PICK u \in Mapped(map) : BankOf(u) = BankOf(p) /\ u < p /\ Rank(u) = Rank(p) - 1
    BY <1>8, <1>9, <1>11, RankBefore
  <2>2. Place(u) < Place(p)
    BY <1>8, <1>9, <2>1, PlacesGrow DEF Before
  <2>3. Done(u)
    BY <1>2, <1>9, <2>2 DEF Done
  <2>4. Good(flash[x][Target(u)], lb, u) /\ u \in Page
    BY <1>7, <2>3 DEF MoveData, Mapped
  <2>5. Target(u) \in Page /\ Target(u) \div Banks = Rank(u)
    BY <1>8, TargetIs
  <2>6. IsUsed(flash[x][Target(u)])
    BY <2>4, Numbers DEF Good, IsUsed
  <2>7. Rank(u) \in 0 .. LineCnt - 1
    BY <2>5, LineOfPage
  <2> QED BY <2>1, <2>5, <2>6, <2>7, UsedLine
<1>23. Shape(x)'
  <2>1. t = 0 => \A u \in Page : flash[x][u].lpn = None
    BY <1>13, ErasedShape
  <2>2. \A u \in Page : ~IsTable(flash[x][u])
    BY <1>6, TargetPages
  <2> QED BY <1>7, <1>8, <1>11, <1>14, <1>18, <1>19, <1>20, <1>22, <2>1, <2>2, ShapeKeeps DEF IInv
<1>24. AgeOf(x)' = AgeOf(l) /\ flash'[x][0].info = lb
  <2>1. CASE t = 0
    BY <1>17, <1>18, <1>19, <2>1 DEF AgeOf
  <2>2. CASE t # 0
    <3>1. flash'[x][0] = flash[x][0] /\ flash[x][0].info = lb
      BY <1>14, <1>19, <2>2, Numbers
    <3>2. Written0(x) # None
      BY <1>8, <3>1, Numbers DEF Written0
    <3> QED BY <1>7, <3>1, <3>2 DEF MoveData, AgeOf
  <2> QED BY <2>1, <2>2
<1>25. \A u \in Page : u \div Banks = LineCnt - 1 => ~IsUsed(flash'[x][u])
  <2>1. Rank(p) < LineCnt - 1
    BY <1>5, <1>8, <1>9, RanksFew DEF JInv, MoveFew
  <2>2. \A u \in Page : u \div Banks = LineCnt - 1 => ~IsUsed(flash[x][u]) /\ u # t
    BY <1>6, <1>11, <2>1, TargetEnd, Lines DEF JInv
  <2> QED BY <1>19, <2>2
<1>26. /\ map' = [map EXCEPT ![p] = t] /\ Mapped(map)' = Mapped(map)
       /\ \A i \in Cached : pool'[i].slot = pool[i].slot /\ (i # cur => pool'[i] = pool[i])
  <2>1. pool \in [Cached -> EntryType]
    BY DEF IInv, PoolOk
  <2>2. Mapped(map)' = Mapped(map)
    BY <1>6, MappedSame
  <2> QED BY <1>5, <1>8, <2>1, <2>2 DEF map, EntryType
<1>27. merge'.kind = "move" /\ merge'.step = merge.step /\ merge'.lb = lb /\ merge'.dst = x /\ merge'.next = n + 1
  <2>1. MergeType
    BY <1>6 DEF IInv, MergeOk
  <2> QED BY <1>2, <1>5, <2>1 DEF MergeType
<1>28. /\ \A u \in Mapped(map) : Target(u)' = Target(u) /\ Place(u)' = Place(u)
       /\ Targets' = Targets
  BY <1>26 DEF Target, Rank, Place, Targets
<1>29. \A u \in Mapped(map) : (Done(u))' <=> Done(u) \/ u = p
  <2> SUFFICES ASSUME NEW u \in Mapped(map) PROVE (Done(u))' <=> Done(u) \/ u = p
    OBVIOUS
  <2>1. Place(u) \in Nat
    <3> DEFINE S == {v \in Mapped(map) : Before(v, u)}
    <3>1. S \in SUBSET Page /\ Place(u) = Cardinality(S)
      BY DEF Mapped, Place
    <3> HIDE DEF S
    <3> QED BY <3>1, FewPages
  <2>2. Place(u) = n <=> u = p
    BY <1>8, <1>9, PlacesDiffer
  <2>3. (Done(u))' <=> Place(u) < n + 1
    BY <1>27, <1>28 DEF Done
  <2>4. Done(u) <=> Place(u) < n
    BY <1>2 DEF Done
  <2> QED BY <1>8, <2>1, <2>2, <2>3, <2>4
<1>30. Rebuilt(l)' = Rebuilt(l) /\ LineUsed(l, LineCnt - 1)' /\ AgeOf(l)' = AgeOf(l)
  <2>1. flash'[l] = flash[l]
    BY <1>8, <1>19 DEF Only
  <2> QED BY <1>7, <2>1, SameBlock DEF MoveData
<1>31. MoveData(l, x, lb)'
  <2>1. Mapped(map)' = Mapped(Rebuilt(l))'
    BY <1>7, <1>26, <1>30 DEF MoveData, Mapped
  <2>2. ASSUME NEW u \in Mapped(map)
        PROVE  IF (Done(u))' THEN map'[u] = Target(u) /\ Good(flash'[x][Target(u)], lb, u)
               ELSE map'[u] = Rebuilt(l)[u]
    <3>1. CASE u = p
      BY <1>4, <1>8, <1>9, <1>17, <1>19, <1>26, <1>29, <3>1 DEF Map
    <3>2. CASE u # p
      <4>1. map'[u] = map[u]
        BY <1>8, <1>26, <3>2 DEF Map, Mapped
      <4>2. CASE Done(u)
        <5>1. Target(u) # t /\ Target(u) \in Page
          BY <1>8, <1>12, <4>2, TargetIs
        <5>2. map[u] = Target(u) /\ Good(flash[x][Target(u)], lb, u)
          BY <1>7, <4>2 DEF MoveData
        <5> QED BY <1>19, <1>29, <4>1, <4>2, <5>1, <5>2
      <4>3. CASE ~Done(u)
        BY <1>7, <1>29, <3>2, <4>1, <4>3 DEF MoveData
      <4> QED BY <4>2, <4>3
    <3> QED BY <3>1, <3>2
  <2>3. ASSUME NEW r \in Page, \A u \in Mapped(map) : (Done(u))' => Target(u) # r
        PROVE  IF r = 0 THEN flash'[x][0].lpn = None ELSE flash'[x][r] = Erased
    <3>1. r # t
      BY <1>4, <1>9, <1>29, <2>3
    <3>2. \A u \in Mapped(map) : Done(u) => Target(u) # r
      BY <1>29, <2>3
    <3>3. IF r = 0 THEN flash[x][0].lpn = None ELSE flash[x][r] = Erased
      BY <1>7, <3>2 DEF MoveData
    <3> QED BY <1>19, <3>1, <3>3, Numbers
  <2>4. AgeOf(x)' = AgeOf(l)' /\ (merge'.step = "copied0" => 0 \notin Targets')
    BY <1>7, <1>24, <1>27, <1>28, <1>30 DEF MoveData
  <2>5. \A u \in Mapped(map)' :
          IF (Done(u))' THEN map'[u] = Target(u)' /\ Good(flash'[x][Target(u)'], lb, u)
          ELSE map'[u] = Rebuilt(l)'[u]
    <3> SUFFICES ASSUME NEW u \in Mapped(map)
                 PROVE  IF (Done(u))' THEN map'[u] = Target(u)' /\ Good(flash'[x][Target(u)'], lb, u)
                        ELSE map'[u] = Rebuilt(l)'[u]
      BY <1>26
    <3>1. Target(u)' = Target(u)
      BY <1>28
    <3> QED BY <1>30, <2>2, <3>1
  <2>6. \A r \in Page :
          (\A u \in Mapped(map)' : (Done(u))' => Target(u)' # r) =>
            IF r = 0 THEN flash'[x][0].lpn = None ELSE flash'[x][r] = Erased
    <3> SUFFICES ASSUME NEW r \in Page, \A u \in Mapped(map)' : (Done(u))' => Target(u)' # r
                 PROVE  IF r = 0 THEN flash'[x][0].lpn = None ELSE flash'[x][r] = Erased
      OBVIOUS
    <3>1. \A u \in Mapped(map) : (Done(u))' => Target(u) # r
      BY <1>26, <1>28
    <3> QED BY <2>3, <3>1
  <2> QED BY <1>30, <2>1, <2>4, <2>5, <2>6 DEF MoveData, Good
<1>32. merge'.step # "erase"
  BY <1>7, <1>27
<1>33. UNCHANGED <<data, logs, cur, op, post>>
  BY <1>5
<1> QED BY <1>6, <1>19, <1>21, <1>23, <1>24, <1>25, <1>26, <1>27, <1>31, <1>32, <1>33, MoveStep
\* The last of the targets.
LEMMA LastTargetIs ==
  ASSUME Align, map \in Map, \A k \in BankSet : \E p \in Mapped(map) : BankOf(p) = k
  PROVE  /\ LastTarget \in Page /\ LastTarget \in Targets \cup {0} /\ Mapped(map) # {}
         /\ \A u \in Targets : u <= LastTarget
<1>1. LastTarget \in Page /\ LastTarget \in Targets \cup {0} /\ Mapped(map) # {}
  BY LastTargetType
<1>2. EmptyBanks = {}
  <2> SUFFICES ASSUME NEW k \in 0 .. Banks - 1, \A p \in Mapped(map) : BankOf(p) # k PROVE FALSE
    BY DEF EmptyBanks
  <2>1. k \in Page /\ BankOf(k) = k
    BY Numbers DEF Page, BankOf
  <2> QED BY <2>1 DEF BankSet
<1>3. Targets \cup {0} \in SUBSET (0 .. PageCnt - 1) /\ Targets \cup {0} # {} /\ PageCnt - 1 \in Nat
  <2>1. \A p \in Mapped(map) : Target(p) \in Page
    BY RankBound
  <2> QED BY <2>1, Numbers DEF Targets, Page
<1>4. \E t \in Targets \cup {0} : \A u \in Targets \cup {0} : u <= t
  BY <1>3, Greatest
<1>5. \A u \in Targets : u <= LastTarget
  BY <1>2, <1>4 DEF LastTarget
<1> QED BY <1>1, <1>5
\* Step MoveEnd.
LEMMA MoveEndData ==
  ASSUME Align, IInv, IInv', DInv, NoEmptyBank, MoveEnd PROVE DInv' /\ Fresh
<1>1. PICK e : e = EntrySlot
  OBVIOUS
<1>2. PICK lb, l, x, n : lb = merge.lb /\ l = logs[e].blk /\ x = merge.dst /\ n = merge.next
  OBVIOUS
<1>3. PICK d : d = data[lb]
  OBVIOUS
<1>4. PICK q : q = LastTarget
  OBVIOUS
<1>5. /\ merge.kind = "move" /\ ~NeedsPage0 /\ n = Cardinality(Mapped(map))
      /\ \A k \in BankSet : \E p \in Mapped(map) : BankOf(p) = k
  BY <1>2 DEF MoveEnd, NoEmptyBank
<1>6. Moving(e, lb, l, d, x, n) /\ Merging
  BY <1>1, <1>2, <1>3, <1>5, WhileMoving DEF Moving
<1>7. /\ Copying(e, lb, l, d, x, n) /\ Written0(l) = l /\ flash[l][0].info = lb
      /\ IF n = 0 /\ merge.step = "copy" THEN flash[x] = ErasedBlk ELSE flash[x][0].info = lb
      /\ Fam(lb, d, l, Written0(x)) /\ MoveData(l, x, lb)
      /\ \A u \in Mapped(map) : Rebuilt(l)[u] \in Page /\ Good(flash[l][Rebuilt(l)[u]], lb, u)
  BY <1>6 DEF Moving
<1>8. /\ l \in Blk /\ x \in Blk /\ l # x /\ e \in Slot /\ e # None /\ logs[e].lb = lb /\ map \in Map
      /\ d \in Blk /\ cur \in Cached /\ lb \in LogicBlk /\ lb # None /\ SlotOf(merge.lb) = e
      /\ LogOf(merge.lb).blk = l /\ Roles(data, logs, free) /\ Marks(data, logs, free, None)
      /\ op.kind # "write" => post # NoPost
  BY <1>7 DEF Copying
<1>9. /\ merge' = NoMerge /\ ~Merging' /\ Erase(l)
      /\ logs' = [logs EXCEPT ![e] = [lb |-> lb, blk |-> x, last |-> q]]
      /\ UNCHANGED <<data, pool, cur, ctl, saved, op, post>>
  BY <1>2, <1>4, <1>8 DEF MoveEnd, maps, Merging
<1>10. q \in Page /\ q \in Targets \cup {0} /\ Mapped(map) # {} /\ (\A u \in Targets : u <= q) /\ q # None
  BY <1>4, <1>5, <1>8, LastTargetIs, Numbers
<1>11. \A p \in Mapped(map) : Done(p) /\ p \in Page /\ Target(p) \in Targets
  <2> SUFFICES ASSUME NEW p \in Mapped(map) PROVE Done(p)
    BY DEF Mapped, Targets
  <2> DEFINE S == {u \in Mapped(map) : Before(u, p)}
  <2>4. p \in Page /\ BankOf(p) \in 0 .. Banks - 1
    BY <1>8, TargetIs
  <2>1. p \in Nat /\ BankOf(p) \in Nat
    BY <2>4, Numbers
  <2>2. p \notin S /\ S \subseteq Mapped(map) /\ Place(p) = Cardinality(S) /\ S \in SUBSET Page
    BY <2>1 DEF Before, Place, Mapped
  <2> HIDE DEF S
  <2>3. IsFiniteSet(Mapped(map)) /\ Cardinality(Mapped(map)) \in Nat /\ Cardinality(S) \in Nat
    BY <2>2, FewPages DEF Mapped
  <2>5. Cardinality(S) <= Cardinality(Mapped(map)) /\ Cardinality(S) # Cardinality(Mapped(map))
    BY <2>2, <2>3, FS_Subset
  <2> QED BY <1>2, <1>5, <2>2, <2>3, <2>5 DEF Done
<1>12. flash[x][0].info = lb /\ Written0(x) = x /\ AgeOf(x) = AgeOf(l)
  <2>1. n # 0
    <3>1. IsFiniteSet(Mapped(map))
      BY FewPages DEF Mapped
    <3> QED BY <1>5, <1>10, <3>1, FS_EmptySet
  <2>2. flash[x][0].info = lb
    BY <1>7, <2>1
  <2>3. Written0(x) = x /\ x # None
    BY <1>8, <2>2, Numbers DEF Written0
  <2> QED BY <1>7, <2>2, <2>3 DEF MoveData
<1>13. \A p \in Mapped(map) : map[p] = Target(p) /\ Target(p) \in Page /\ Good(flash[x][Target(p)], lb, p)
  <2>1. \A p \in Mapped(map) : Target(p) \in Page
    BY <1>8, TargetIs
  <2> QED BY <1>7, <1>11, <2>1 DEF MoveData
<1>14. \A r \in Page : \/ \E p \in Mapped(map) : Target(p) = r /\ Good(flash[x][r], lb, p)
                       \/ r = 0 /\ flash[x][0].lpn = None
                       \/ r > 0 /\ flash[x][r] = Erased
  BY <1>6, TargetPages
<1>15. map = Rebuilt(x)
  <2>1. ASSUME NEW p \in Page PROVE map[p] = Rebuilt(x)[p]
    <3>1. CASE p \in Mapped(map)
      <4>1. ASSUME NEW u \in Page, flash[x][u].lpn = p PROVE u = Target(p)
        <5>1. p # None /\ Erased.lpn = None
          BY Numbers DEF Erased, PageRecord
        <5>2. PICK v \in Mapped(map) : Target(v) = u /\ Good(flash[x][u], lb, v)
          BY <1>14, <4>1, <5>1
        <5> QED BY <4>1, <5>2 DEF Good
      <4>2. Target(p) \in Page /\ flash[x][Target(p)].lpn = p /\ map[p] = Target(p)
        BY <1>13, <3>1 DEF Good
      <4>4. Target(p) \in Nat
        BY <4>2, Numbers
      <4>3. \A u \in Page : flash[x][u].lpn = p => u <= Target(p)
        BY <4>1, <4>4
      <4> QED BY <4>2, <4>3, RebuiltFinds
    <3>2. CASE p \notin Mapped(map)
      <4>1. map[p] = None /\ p # None /\ Erased.lpn = None
        BY <3>2, Numbers DEF Mapped, Erased, PageRecord
      <4>2. \A u \in Page : flash[x][u].lpn # p
        BY <1>14, <3>2, <4>1 DEF Good
      <4> QED BY <4>1, <4>2, RebuiltNone
    <3> QED BY <3>1, <3>2
  <2>2. Rebuilt(x) \in Map
    <3>1. \A p \in Page : Rebuilt(x)[p] \in Page \cup {None}
      BY RebuiltIs
    <3>2. Rebuilt(x) = [p \in Page |-> Rebuilt(x)[p]]
      BY DEF Rebuilt
    <3> QED BY <3>1, <3>2 DEF Map
  <2> QED BY <1>8, <2>1, <2>2, SameMap
<1>16. HasLast(x, q)
  <2>1. \A r \in Page : r > q => ~IsUsed(flash[x][r])
    <3> SUFFICES ASSUME NEW r \in Page, r > q PROVE ~IsUsed(flash[x][r])
      OBVIOUS
    <3>1. r > 0 /\ r # 0
      BY <1>10, Numbers
    <3>2. \A p \in Mapped(map) : Target(p) # r
      BY <1>10, <1>11, Numbers
    <3>3. flash[x][r] = Erased
      BY <1>14, <3>1, <3>2
    <3> QED BY <3>3 DEF IsUsed, Erased, PageRecord
  <2>2. q > 0 => IsUsed(flash[x][q])
    <3> SUFFICES ASSUME q > 0 PROVE IsUsed(flash[x][q])
      OBVIOUS
    <3>1. PICK p \in Mapped(map) : q = Target(p)
      BY <1>10 DEF Targets
    <3> QED BY <1>11, <1>13, <3>1, Numbers DEF Good, IsUsed
  <2> QED BY <2>1, <2>2 DEF HasLast
<1>17. \A p \in Page : Good(FoundAt(d, x, p), lb, p)
  <2> SUFFICES ASSUME NEW p \in Page PROVE Good(FoundAt(d, x, p), lb, p)
    OBVIOUS
  <2>1. Good(FoundAt(d, l, p), lb, p)
    BY <1>7 DEF Fam
  <2>2. CASE p \in Mapped(map)
    BY <1>8, <1>13, <1>15, <2>2, Numbers DEF FoundAt
  <2>3. CASE p \notin Mapped(map)
    <3>1. Rebuilt(x)[p] = None /\ Rebuilt(l)[p] = None
      BY <1>7, <1>15, <2>3 DEF MoveData, Mapped
    <3> QED BY <2>1, <3>1 DEF FoundAt
  <2> QED BY <2>2, <2>3
<1>18. Only(l) /\ flash'[l] = ErasedBlk /\ Fresh
  BY <1>8, <1>9, EraseIs DEF IInv, FlashInv
<1>19. Fam(lb, d, x, None)'
  BY <1>7, <1>8, <1>12, <1>17, <1>18, DropLog
<1>20. flash'[x] = flash[x] /\ Rebuilt(x)' = Rebuilt(x) /\ HasLast(x, q)' /\ Written0(x)' = x
  <2>1. flash'[x] = flash[x]
    BY <1>8, <1>18 DEF Only
  <2> QED BY <1>12, <1>16, <2>1, SameBlock
<1>21. /\ logs'[e].lb = lb /\ logs'[e].blk = x /\ logs'[e].last = q
       /\ \A s \in Slot : s # e => logs'[s] = logs[s]
  BY <1>8, <1>9 DEF Roles
<1>22. Mounted' /\ ~Placed' /\ Mounted /\ ~Placed
  BY <1>7, <1>9 DEF Mounted, Placed, Copying
<1>23. Own(data, logs, lb)'
  <2>1. Roles(data, logs, free)'
    BY <1>22 DEF IInv, MountedOk
  <2>2. LogIn(logs, lb)' = Written0(x)'
    BY <1>8, <1>21, <2>1, LogInNext DEF LogInFacts
  <2> QED BY <1>3, <1>9, <1>19, <1>20, <2>2 DEF Own
<1>24. OthersStay(lb, e)
  <2>1. flash'[l][0].info = None
    BY <1>18, Numbers DEF ErasedBlk, Erased, PageRecord
  <2>2. NearOnly(lb)
    BY <1>7, <1>8, <1>18, <2>1 DEF NearOnly, Only
  <2>3. \A s \in Slot : s # e /\ logs[s].lb # None => logs[s].blk # l /\ logs[s].blk \in Blk
    BY <1>2, <1>8, OtherBlocks
  <2> QED BY <1>8, <1>9, <1>18, <1>21, <2>2, <2>3 DEF OthersStay, Only
<1>25. LastOk(logs, e)'
  BY <1>10, <1>20, <1>21 DEF LastOk
<1>26. \A i \in Cached : pool'[i].slot = e => MapTrue(i)'
  <2> SUFFICES ASSUME NEW i \in Cached, pool'[i].slot = e PROVE MapTrue(i)'
    OBVIOUS
  <2>1. i = cur
    BY <1>1, <1>8, <1>9 DEF IInv, PoolOk, EntrySlot
  <2>2. pool'[i].map = Rebuilt(x)'
    BY <1>9, <1>15, <1>20, <2>1 DEF map
  <2> QED BY <1>21, <2>2, MapIs
<1>27. PlaceOk' /\ MergeData' /\ ReadOk'
  BY <1>8, <1>9, <1>22 DEF PlaceOk, MergeData, ReadOk, Quiet
<1>28. \A c \in Blk : flash'[c] = flash[c] \/ Shape(c)'
  BY <1>18, ErasedNext DEF ErasedFacts, Only
<1>29. merge.lb = lb /\ EntrySlot = e /\ lb \in LogicBlk /\ e \in Slot
  BY <1>1, <1>2, <1>8
<1>30. \A i \in Cached : pool'[i].slot \notin {None, e} =>
         pool[i].slot = pool'[i].slot /\ pool[i].map = pool'[i].map
  BY <1>9
<1> QED BY <1>18, <1>22, <1>23, <1>24, <1>25, <1>26, <1>27, <1>28, <1>29, <1>30, StepData
(***************************************************************************)
(* The disk at rest.                                                       *)
(***************************************************************************)
\* What the flash says of a logical block stays as long as the flash does.
LEMMA FlashStays ==
  ASSUME flash' = flash
  PROVE  /\ \A lb \in LogicBlk : SomeFam(lb) => SomeFam(lb)'
         /\ SlotsEnough => SlotsEnough'
         /\ \A b : Shape(b) => Shape(b)'
<1>1. \A lb : Of(lb)' = Of(lb)
  BY DEF Of
<1>2. \A lb \in LogicBlk : SomeFam(lb) => SomeFam(lb)'
  <2> SUFFICES ASSUME NEW lb \in LogicBlk, SomeFam(lb) PROVE SomeFam(lb)'
    OBVIOUS
  <2>1. PICK d, l, x \in Blk \cup {None} : Fam(lb, d, l, x)
    BY DEF SomeFam
  <2>2. Fam(lb, d, l, x)'
    BY <1>1, <2>1, FamSame
  <2> QED BY <2>2 DEF SomeFam
<1>3. SlotsEnough => SlotsEnough'
  BY <1>1 DEF SlotsEnough
<1>4. \A b : Shape(b) => Shape(b)'
  BY SameBlock
<1> QED BY <1>2, <1>3, <1>4
\* So does what tables say that stay the same.
LEMMA OwnStays ==
  ASSUME NEW d, NEW l, NEW f, Roles(d, l, f), flash' = flash, NEW lb \in LogicBlk, Own(d, l, lb)
  PROVE  Own(d, l, lb)'
<1>1. PICK y : y = LogIn(l, lb)
  OBVIOUS
<1>2. LogIn(l, lb)' = y
  BY <1>1 DEF LogIn, Written0
<1>3. y \in Blk \cup {None} /\ d[lb] \in Blk
  <2>1. CASE \E s \in Slot : l[s].lb = lb
    <3>1. PICK s \in Slot : l[s].lb = lb
      BY <2>1
    <3>2. LogIn(l, lb) = Written0(l[s].blk) /\ l[s].blk \in Blk
      BY <3>1, LogInIs, Numbers DEF Roles, Used
    <3> QED BY <1>1, <3>2 DEF Written0, Roles
  <2>2. CASE ~\E s \in Slot : l[s].lb = lb
    BY <1>1, <2>2 DEF LogIn, Roles
  <2> QED BY <2>1, <2>2
<1>4. Of(lb)' = Of(lb) /\ \A c \in Of(lb) : flash'[c] = flash[c]
  BY DEF Of
<1>5. PICK z : z = d[lb]
  OBVIOUS
<1>6. Fam(lb, z, y, None)
  BY <1>1, <1>5 DEF Own
<1>7. Fam(lb, z, y, None)'
  BY <1>3, <1>4, <1>5, <1>6, FamSame
<1> QED BY <1>2, <1>5, <1>7 DEF Own
\* When the power fails the blocks of every logical block are there.
LEMMA MountedRest ==
  ASSUME IInv, DInv, Mounted PROVE SlotsEnough /\ \A lb \in LogicBlk : SomeFam(lb)
<1>1. Roles(data, logs, free)
  BY DEF IInv, MountedOk
<1>2. ASSUME NEW lb \in LogicBlk PROVE SomeFam(lb)
  <2>1. CASE Own(data, logs, lb)
    BY <1>1, <2>1, LogInBlk DEF Own, SomeFam
  <2>2. CASE InMerges(lb)
    <3>1. Merging /\ merge.kind # "swap" /\ merge.lb = lb
      BY <2>2 DEF InMerges
    <3>2. PICK e, d, l, x : e = EntrySlot /\ d = data[lb] /\ l = logs[e].blk /\ x = merge.dst
      OBVIOUS
    <3>3. Copying(e, lb, l, d, x, merge.next)
      BY <3>1, <3>2, WhileCopying
    <3>4. l \in Blk /\ d \in Blk /\ x \in Blk
      BY <3>3 DEF Copying
    <3>5. Written0(l) \in Blk \cup {None} /\ Written0(x) \in Blk \cup {None}
      BY <3>4 DEF Written0
    <3>6. CASE merge.step # "erase"
      <4>1. Fam(lb, d, Written0(l), Written0(x))
        BY <3>1, <3>2, <3>6 DEF DInv, DMounted, MergeData
      <4> QED BY <3>4, <3>5, <4>1 DEF SomeFam
    <3>7. CASE merge.step = "erase"
      <4>1. IF Written0(l) = None THEN Fam(lb, x, None, None) ELSE Fam(lb, l, x, None)
        BY <3>1, <3>2, <3>7 DEF DInv, DMounted, MergeData
      <4> QED BY <3>4, <3>5, <4>1 DEF SomeFam
    <3> QED BY <3>6, <3>7
  <2> QED BY <2>1, <2>2 DEF DInv, DMounted
<1>3. SlotsEnough
  <2> DEFINE f == [s \in Slot |-> logs[s].lb]
             T == {f[s] : s \in Slot}
             S == {logs[s].lb : s \in InUse}
  <2>1. IsFiniteSet(Slot) /\ Cardinality(Slot) = SlotCnt
    <3>1. SlotCnt \in Nat /\ SlotCnt > 0
      BY SlotAssumption
    <3>2. IsFiniteSet(0 .. SlotCnt - 1) /\ Cardinality(0 .. SlotCnt - 1) = SlotCnt
      BY <3>1, FS_Interval
    <3> QED BY <3>2 DEF Slot
  <2>2. S \subseteq T
    BY DEF InUse
  <2>3. IsFiniteSet(T) /\ Cardinality(T) <= SlotCnt
    <3>1. f = [s \in Slot |-> f[s]]
      OBVIOUS
    <3> HIDE DEF f
    <3> QED BY <2>1, <3>1, FewValues
  <2>4. S \in SUBSET LogicBlk
    BY <1>1 DEF Roles, Used, InUse, LogType
  <2> HIDE DEF f, T
  <2>5. Cardinality(S) <= SlotCnt
    <3>1. IsFiniteSet(S) /\ Cardinality(S) <= Cardinality(T)
      BY <2>2, <2>3, FS_Subset
    <3>2. Cardinality(S) \in Nat /\ Cardinality(T) \in Nat /\ SlotCnt \in Nat
      BY <2>3, <3>1, FS_CardinalityType, SlotAssumption
    <3> QED BY <2>3, <3>1, <3>2
  <2>6. ASSUME NEW lb \in LogicBlk, lb \notin S PROVE \E b \in Blk : Of(lb) = {b}
    <3>1. \A s \in Slot : logs[s].lb # lb
      BY <2>6, Numbers DEF InUse
    <3>2. ~InMerges(lb)
      <4> SUFFICES ASSUME InMerges(lb) PROVE FALSE
        OBVIOUS
      <4>1. Merging /\ merge.lb = lb
        BY DEF InMerges
      <4>2. EntrySlot \in Slot /\ logs[EntrySlot].lb = lb
        BY <4>1, InMerge
      <4> QED BY <3>1, <4>2
    <3>3. LogIn(logs, lb) = None
      BY <3>1, LogInNone
    <3>4. Fam(lb, data[lb], None, None)
      BY <3>2, <3>3 DEF DInv, DMounted, Own
    <3>5. data[lb] \in Blk /\ None \notin Blk
      BY <1>1, Numbers DEF Roles
    <3>6. Of(lb) = {data[lb]}
      BY <3>4, <3>5 DEF Fam
    <3> QED BY <3>5, <3>6
  <2> HIDE DEF S
  <2> QED BY <2>4, <2>5, <2>6 DEF SlotsEnough
<1> QED BY <1>2, <1>3
\* The tables in memory are those of the table block when these are clean.
LEMMA CleanTrue == ASSUME IInv, DInv, Mounted, saved.clean PROVE SavedTrue
<1>1. /\ ~Merging /\ op.kind # "write"
      /\ saved.data = data /\ saved.logs = logs
  BY DEF IInv, CleanOk, CleanTablesCurrent
<1>2. ~Placed
  BY <1>1, OpKinds DEF Placed, IInv, OpOk, Kinds, Mounted
<1>3. \A s \in InUse : LastOk(logs, s)
  BY <1>1, <1>2 DEF DInv, DMounted, LastsOk
<1>4. \A lb \in LogicBlk : Own(data, logs, lb)
  BY <1>1 DEF DInv, DMounted, InMerges
<1> QED BY <1>1, <1>3, <1>4 DEF SavedTrue, Used, InUse
\* Tables of the table block that stay.
LEMMA SavedStays ==
  ASSUME IInv, SavedTrue, flash' = flash, saved' = saved PROVE SavedTrue'
<1> SUFFICES ASSUME saved.clean PROVE SavedTrue'
  BY DEF SavedTrue
<1>1. Roles(saved.data, saved.logs, saved.free)
  BY DEF IInv, SavedOk
<1>2. \A lb \in LogicBlk : Own(saved.data, saved.logs, lb)'
  <2>1. PICK d, l, f : d = saved.data /\ l = saved.logs /\ f = saved.free
    OBVIOUS
  <2>2. \A lb \in LogicBlk : Own(d, l, lb)'
    BY <1>1, <2>1, OwnStays DEF SavedTrue
  <2>3. saved'.data = d /\ saved'.logs = l
    BY <2>1
  <2> QED BY <2>2, <2>3 DEF Own, LogIn
<1>3. \A s \in Used(saved.logs)' : LastOk(saved.logs, s)'
  BY DEF SavedTrue, LastOk, HasLast, Used
<1> QED BY <1>2, <1>3 DEF SavedTrue
\* The power is gone, the disk at rest.
LEMMA OffData ==
  ASSUME IInv, DInv, flash' = flash, op' = Off, SavedTrue' PROVE DInv'
<1>1. SlotsEnough /\ \A lb \in LogicBlk : SomeFam(lb)
  BY MountedRest DEF DInv, DRest
<1>2. ~Mounted' /\ op'.kind # "scan"
  BY DEF Off, Op, Mounted
<1>3. SlotsEnough' /\ (\A lb \in LogicBlk : SomeFam(lb)') /\ \A b \in Blk : Shape(b)'
  BY <1>1, FlashStays DEF DInv
<1> QED BY <1>2, <1>3 DEF DInv, DMounted, DRest
\* Tables that could be saved now would be true.
LEMMA SavedKnown == ASSUME IInv, DInv PROVE SavedTrue
<1>1. CASE Mounted
  BY <1>1, CleanTrue DEF SavedTrue
<1>2. CASE ~Mounted
  BY <1>2 DEF DInv, DRest
<1> QED BY <1>1, <1>2
\* Step PowerLoss.
LEMMA PowerLossData == ASSUME IInv, DInv, PowerLoss PROVE DInv'
<1>1. flash' = flash /\ saved' = saved /\ op' = Off
  BY DEF PowerLoss, Forget
<1> QED BY <1>1, SavedKnown, SavedStays, OffData
\* Step SaveTables.
LEMMA SaveTablesData == ASSUME IInv, DInv, SaveTables PROVE DInv'
<1>1. flash' = flash /\ op' = Off /\ op.kind = "exit" /\ op.step = "flush" /\ ~Merging /\ Mounted /\ ~Placed
  BY DEF SaveTables, Forget, Ready, Mounted, Placed
<1>2. CASE saved.clean
  <2>1. saved' = saved
    BY <1>2 DEF SaveTables
  <2> QED BY <1>1, <2>1, SavedKnown, SavedStays, OffData
<1>3. CASE ~saved.clean
  <2>1. saved' = [clean |-> TRUE, data |-> data, logs |-> logs, free |-> free]
    BY <1>3 DEF SaveTables
  <2>2. PICK d, l, f : d = data /\ l = logs /\ f = free
    OBVIOUS
  <2>3. Roles(d, l, f) /\ \A lb \in LogicBlk : Own(d, l, lb)
    BY <1>1, <2>2 DEF IInv, MountedOk, DInv, DMounted, InMerges
  <2>4. \A lb \in LogicBlk : Own(d, l, lb)'
    BY <1>1, <2>3, OwnStays
  <2>5. \A s \in InUse : LastOk(logs, s)
    BY <1>1 DEF DInv, DMounted, LastsOk
  <2>6. saved'.data = d /\ saved'.logs = l
    BY <2>1, <2>2
  <2>7. \A lb \in LogicBlk : Own(saved.data, saved.logs, lb)'
    BY <2>4, <2>6 DEF Own, LogIn
  <2>8. \A s \in Used(saved.logs)' : LastOk(saved.logs, s)'
    <3>1. \A s \in Used(saved.logs)' : s \in InUse
      BY <2>2, <2>6 DEF Used, InUse
    <3> QED BY <1>1, <2>2, <2>5, <2>6, <3>1 DEF LastOk, HasLast
  <2>9. SavedTrue'
    BY <2>7, <2>8 DEF SavedTrue
  <2> QED BY <1>1, <2>9, OffData
<1> QED BY <1>2, <1>3
\* The disk is mounted with tables that lead to the data.
LEMMA MountData ==
  ASSUME IInv, DInv, NEW d, NEW l, NEW f, Mount(d, l, f), op.kind \in {"off", "scan"},
         flash' = flash, UNCHANGED <<maps, merge>>, Roles(d, l, f),
         \A lb \in LogicBlk : Own(d, l, lb), \A s \in Used(l) : LastOk(l, s)
  PROVE  DInv'
<1>1. op' = Idle /\ op'.kind = "idle" /\ op'.step = "none" /\ Mounted' /\ ~Placed'
  BY DEF Mount, Idle, Op, Mounted, Placed
<1>2. /\ data' = d /\ logs' = l /\ pool' = pool /\ ~Merging' /\ Used(l) = InUse'
      /\ \A i \in Cached : pool'[i].slot = None
  BY DEF IInv, RestOk, Mount, maps, NoEntry, Merging, NoMerge, Used, InUse
<1>3. \A lb \in LogicBlk : Own(data, logs, lb)'
  <2>1. \A lb \in LogicBlk : Own(d, l, lb)'
    BY OwnStays
  <2> QED BY <1>2, <2>1 DEF Own, LogIn
<1>4. LastsOk'
  BY <1>2 DEF LastsOk, LastOk, HasLast
<1>5. PlaceOk' /\ MapsOk' /\ MergeData' /\ ReadOk'
  BY <1>1, <1>2 DEF PlaceOk, MapsOk, MergeData, ReadOk
<1>6. \A b \in Blk : Shape(b)'
  BY FlashStays DEF DInv
<1> QED BY <1>1, <1>3, <1>4, <1>5, <1>6 DEF DInv, DMounted, DRest
\* Step LoadTables.
LEMMA LoadTablesData == ASSUME IInv, DInv, LoadTables PROVE DInv'
<1>1. /\ op.kind = "off" /\ saved.clean /\ Mount(saved.data, saved.logs, saved.free)
      /\ flash' = flash /\ UNCHANGED <<maps, merge>> /\ Roles(saved.data, saved.logs, saved.free)
  BY DEF LoadTables, Off, Op, IInv, SavedOk
<1>2. SavedTrue
  BY SavedKnown
<1> QED BY <1>1, <1>2, MountData DEF SavedTrue
\* A step of the scan that leaves the flash and the tables.
LEMMA ScanStays ==
  ASSUME IInv, DInv, ~Mounted, ~Mounted', flash' = flash, saved' = saved,
         op'.kind = "scan" => \A lb \in LogicBlk : ScanFam(lb)'
  PROVE  DInv'
<1>1. SavedTrue'
  BY SavedKnown, SavedStays
<1>2. SlotsEnough' /\ (\A lb \in LogicBlk : SomeFam(lb)') /\ \A b \in Blk : Shape(b)'
  BY FlashStays DEF DInv, DRest
<1> QED BY <1>1, <1>2 DEF DInv, DMounted, DRest
\* Step StartScan.
LEMMA StartScanData == ASSUME IInv, DInv, StartScan PROVE DInv'
<1>1. /\ op.kind = "off" /\ op'.kind = "scan" /\ ~Mounted /\ ~Mounted'
      /\ UNCHANGED <<flash, data, logs, saved>>
      /\ data = NoTables.data /\ logs = NoTables.logs
  BY DEF StartScan, Off, Op, Mounted, tables, IInv, RestOk
<1>2. \A lb \in LogicBlk : data'[lb] = None /\ ~HasLog(lb)'
  BY <1>1, Numbers DEF NoTables, HasLog, NoLog
<1>3. ASSUME NEW lb \in LogicBlk PROVE ScanFam(lb)'
  <2>1. SomeFam(lb)'
    BY <1>1, FlashStays DEF DInv, DRest
  <2>2. PICK d, l, x \in Blk \cup {None} : Fam(lb, d, l, x)'
    BY <2>1 DEF SomeFam
  <2>3. Pair(lb, d, l, x)'
    BY <1>2 DEF Pair, LogFound
  <2> QED BY <2>2, <2>3 DEF ScanFam
<1> QED BY <1>1, <1>3, ScanStays
\* What the scan has found stays as long as flash and tables do.
LEMMA FoundStays ==
  ASSUME flash' = flash, UNCHANGED <<data, logs>>, NEW lb \in LogicBlk, ScanFam(lb)
  PROVE  ScanFam(lb)'
<1>1. PICK d, l, x \in Blk \cup {None} : Fam(lb, d, l, x) /\ Pair(lb, d, l, x)
  BY DEF ScanFam
<1>2. Of(lb)' = Of(lb)
  BY DEF Of
<1>3. Fam(lb, d, l, x)'
  BY <1>1, <1>2, FamSame
<1>4. LogFound(lb)' = LogFound(lb)
  BY DEF LogFound, HasLog, SlotOf
<1>5. Pair(lb, d, l, x)'
  BY <1>1, <1>4 DEF Pair, Target2, AgeOf, TargetMove, LineUsed, UsedOfLine
<1> QED BY <1>3, <1>5 DEF ScanFam
\* Step EraseMore.
LEMMA EraseMoreData == ASSUME IInv, DInv, EraseMore(None) PROVE DInv'
<1>1. /\ op.kind = "scan" /\ op' = [op EXCEPT !.step = "fill"]
      /\ UNCHANGED <<flash, data, logs, saved>>
  BY DEF EraseMore, tables, GoTo
<1>2. op'.kind = "scan" /\ ~Mounted /\ ~Mounted'
  <2>1. op'.kind = op.kind
    BY <1>1, OpKinds DEF IInv, OpOk, OpType, Off, Idle, Op
  <2> QED BY <1>1, <2>1 DEF Mounted
<1>3. \A lb \in LogicBlk : ScanFam(lb)'
  BY <1>1, <1>2, FoundStays DEF DInv, DRest
<1> QED BY <1>1, <1>2, <1>3, ScanStays
\* Step Stutter.
LEMMA StutterData == ASSUME IInv, DInv, UNCHANGED allVars PROVE DInv'
<1>1. UNCHANGED <<flash, data, logs, free, pool, cur, ctl, saved, op, post, merge, scan>>
  BY DEF allVars, vars
<1>2. CASE ~Mounted
  <2>1. ~Mounted' /\ op' = op
    BY <1>1, <1>2 DEF Mounted
  <2>2. op.kind = "scan" => \A lb \in LogicBlk : ScanFam(lb)'
    BY <1>1, <1>2, FoundStays DEF DInv, DRest
  <2> QED BY <1>1, <1>2, <2>1, <2>2, ScanStays
<1>3. CASE Mounted
  <2>1. \A b \in Blk : Shape(b)'
    BY <1>1, FlashStays DEF DInv
  <2>2. Mounted' /\ Roles(data, logs, free)
    BY <1>1, <1>3 DEF Mounted, IInv, MountedOk
  <2>3. \A lb \in LogicBlk : InMerges(lb)' \/ Own(data, logs, lb)'
    <3>1. ASSUME NEW lb \in LogicBlk, Own(data, logs, lb) PROVE Own(data, logs, lb)'
      BY <1>1, <2>2, <3>1, OwnSame
    <3>2. ASSUME NEW lb \in LogicBlk, InMerges(lb) PROVE InMerges(lb)'
      BY <1>1, <3>2 DEF InMerges, Merging
    <3> QED BY <1>3, <3>1, <3>2 DEF DInv, DMounted
  <2>4. LastsOk'
    BY <1>1, <1>3 DEF DInv, DMounted, LastsOk, LastOk, HasLast, InUse, Merging, Placed, EntrySlot
  <2>5. PlaceOk'
    BY <1>1, <1>3 DEF DInv, DMounted, PlaceOk, Placed, NeedsLogInfo, LogOf, HasLog, SlotOf, LastUsed,
                      LogPageForWrite
  <2>6. MapsOk'
    <3> SUFFICES ASSUME NEW i \in Cached, pool'[i].slot # None, ~(Merging /\ i = cur) PROVE MapTrue(i)'
      BY <1>1 DEF MapsOk, Merging
    <3>1. MapTrue(i)
      BY <1>1, <1>3 DEF DInv, DMounted, MapsOk
    <3> QED BY <1>1, <3>1, MapStays
  <2>7. MergeData'
    <3>1. /\ \A b : Rebuilt(b)' = Rebuilt(b) /\ AgeOf(b)' = AgeOf(b) /\ Written0(b)' = Written0(b)
          /\ \A b : \A m : LineUsed(b, m)' = LineUsed(b, m)
      BY <1>1, SameBlock
    <3>2. EntrySlot' = EntrySlot /\ map' = map /\ (Merging <=> Merging')
      BY <1>1 DEF EntrySlot, map, Merging
    <3>3. \A lb, d, l, x : Fam(lb, d, l, x) <=> Fam(lb, d, l, x)'
      <4>1. \A lb : Of(lb)' = Of(lb)
        BY <1>1 DEF Of
      <4>2. \A d, l, p : FoundAt(d, l, p)' = FoundAt(d, l, p)
        BY <1>1, <3>1 DEF FoundAt
      <4> QED BY <3>1, <4>1, <4>2 DEF Fam, Target2, TargetMove, Good
    <3>4. /\ \A p : Target(p)' = Target(p) /\ Place(p)' = Place(p) /\ (Done(p) <=> Done(p)')
          /\ Targets' = Targets
      BY <1>1, <3>2 DEF Target, Targets, Place, Done, Rank, Before, Mapped, map, EntrySlot
    <3>5. \A log, dst, lb : MoveData(log, dst, lb) => MoveData(log, dst, lb)'
      BY <1>1, <3>1, <3>2, <3>4 DEF MoveData, Mapped, Good
    <3>6. /\ \A b, lb, n : Dense(b, lb, n) <=> Dense(b, lb, n)'
          /\ \A b, n : EmptyFrom(b, n) <=> EmptyFrom(b, n)'
      BY <1>1 DEF Dense, EmptyFrom, Good
    <3>7. MergeData
      BY <1>3 DEF DInv, DMounted
    <3> QED BY <1>1, <3>1, <3>2, <3>3, <3>5, <3>6, <3>7 DEF MergeData, Target2
  <2>8. ReadOk'
    BY <1>1, <1>3 DEF DInv, DMounted, ReadOk, Quiet, Merging, HasLog, EntrySlot
  <2> QED BY <2>1, <2>2, <2>3, <2>4, <2>5, <2>6, <2>7, <2>8 DEF DInv, DMounted, DRest
<1> QED BY <1>2, <1>3
\* The flash as formatted.
LEMMA InitData == Init => DInv
<1> SUFFICES ASSUME Init PROVE DInv
  OBVIOUS
<1>1. /\ flash = [b \in Blk |-> DenseBlk(b)] /\ op = Off
      /\ saved = [clean |-> TRUE, data |-> [lb \in LogicBlk |-> lb],
                  logs |-> [s \in Slot |-> NoLog], free |-> Blk \ LogicBlk]
  BY DEF Init, NoTables
<1>2. ~Mounted /\ op.kind # "scan"
  BY <1>1 DEF Off, Op, Mounted
<1>3. LogicBlk \subseteq Blk /\ None \notin LogicBlk /\ None \notin Page
  BY GeometryAssumption, Numbers DEF LogicBlk, Blk
<1>4. \A b \in LogicBlk, p \in Page :
        /\ flash[b][p].info = b /\ flash[b][p].lpn = p /\ flash[b][p].main = Latest
        /\ IsUsed(flash[b][p]) /\ ~IsTable(flash[b][p])
  BY <1>1, <1>3 DEF DenseBlk, DensePage, PageRecord, IsUsed, IsTable
<1>5. \A b \in Blk \ LogicBlk : flash[b] = ErasedBlk
  BY <1>1 DEF DenseBlk
<1>6. ASSUME NEW b \in Blk PROVE Shape(b)
  <2>1. CASE b \in LogicBlk
    <3>1. \A m \in 1 .. LineCnt - 2 : LineUsed(b, m)
      <4> SUFFICES ASSUME NEW m \in 1 .. LineCnt - 2 PROVE LineUsed(b, m)
        OBVIOUS
      <4>1. m \in 0 .. LineCnt - 1 /\ 0 \in 0 .. Banks - 1
        BY Lines, Numbers
      <4>2. m * Banks + 0 \in Page
        BY <4>1, PageOfLine
      <4> QED BY <1>4, <2>1, <4>1, <4>2 DEF LineUsed, UsedOfLine
    <3> QED BY <1>4, <2>1, <3>1, Numbers DEF Shape
  <2>2. CASE b \notin LogicBlk
    BY <1>5, <2>2, ErasedShape
  <2> QED BY <2>1, <2>2
<1>7. ASSUME NEW lb \in LogicBlk PROVE Fam(lb, lb, None, None) /\ Of(lb) = {lb} /\ lb \in Blk
  <2>1. Of(lb) = {lb}
    <3>1. ASSUME NEW b \in Blk PROVE (flash[b][0].info = lb) <=> (b = lb)
      <4>1. CASE b \in LogicBlk
        <5>1. flash[b][0].info = b
          BY <1>4, <4>1, Numbers
        <5> QED BY <5>1
      <4>2. CASE b \notin LogicBlk
        <5>1. flash[b] = ErasedBlk
          BY <1>5, <4>2
        <5>2. flash[b][0].info = None
          BY <5>1, Numbers DEF ErasedBlk, Erased, PageRecord
        <5> QED BY <1>3, <4>2, <5>2
      <4> QED BY <4>1, <4>2
    <3>2. lb \in Blk
      BY <1>3
    <3>3. \A b \in Blk : (flash[b][0].info = lb) <=> (b = lb)
      BY <3>1
    <3> QED BY <3>2, <3>3 DEF Of
  <2> QED BY <1>3, <1>4, <2>1 DEF Fam, FoundAt, Good
<1>8. SlotsEnough
  <2>1. Cardinality({}) = 0 /\ {} \in SUBSET LogicBlk /\ 0 <= SlotCnt
    BY FS_EmptySet, SlotAssumption
  <2> QED BY <1>7, <2>1 DEF SlotsEnough
<1>9. \A lb \in LogicBlk : SomeFam(lb)
  BY <1>7 DEF SomeFam
<1>10. SavedTrue
  <2>1. \A s \in Slot : saved.logs[s].lb = None
    BY <1>1 DEF NoLog
  <2>2. \A lb \in LogicBlk : LogIn(saved.logs, lb) = None /\ saved.data[lb] = lb
    BY <1>1, <1>3, <2>1 DEF LogIn
  <2> QED BY <1>7, <2>1, <2>2 DEF SavedTrue, Own, Used
<1> QED BY <1>2, <1>6, <1>8, <1>9, <1>10 DEF DInv, DMounted, DRest
(***************************************************************************)
(* The scan of the mount.                                                  *)
(***************************************************************************)
\* A log block used to its last line has its last used page behind that of the
\* target of its move.
LEMMA MoveEndsLater ==
  ASSUME Align, NEW l \in Blk, NEW x \in Blk, Shape(l), Shape(x), TargetMove(l, x)
  PROVE  LastUsedPage(l) > LastUsedPage(x)
<1>1. LineCnt - 1 \in 0 .. LineCnt - 1 /\ LineCnt - 1 # 0 /\ LineCnt \in Nat
  BY Lines
<1>2. PICK q \in Page : q \div Banks = LineCnt - 1 /\ IsUsed(flash[l][q])
  BY <1>1, UsedLine DEF TargetMove
<1>3. /\ LastUsedPage(l) \in Page /\ HasLast(l, LastUsedPage(l))
      /\ LastUsedPage(x) \in Page /\ HasLast(x, LastUsedPage(x))
  BY SearchFinds
<1> DEFINE t == LastUsedPage(l)
           r == LastUsedPage(x)
<1> HIDE DEF t, r
<1>4. t \in Page /\ r \in Page /\ t \in Nat /\ r \in Nat /\ q \in Nat
  BY <1>3, Numbers DEF t, r
<1>5. t >= q
  BY <1>2, <1>3, <1>4 DEF HasLast, t
<1>6. r \div Banks # LineCnt - 1
  <2>1. CASE r > 0
    <3>1. IsUsed(flash[x][r])
      BY <1>3, <2>1 DEF HasLast, r
    <3> QED BY <1>1, <1>4, <3>1, UsedLine DEF TargetMove
  <2>2. CASE ~(r > 0)
    <3>1. r = 0 * Banks + 0 /\ 0 \in Nat /\ 0 \in 0 .. Banks - 1
      BY <1>4, <2>2, Numbers
    <3>2. r \div Banks = 0
      BY <3>1, PageInLine
    <3> QED BY <1>1, <3>2
  <2> QED BY <2>1, <2>2
<1>7. r \div Banks \in 0 .. LineCnt - 1
  BY <1>4, LineOfPage
<1>8. r \div Banks < q \div Banks
  BY <1>1, <1>2, <1>6, <1>7
<1>9. r < q
  BY <1>4, <1>8, LinesInOrder
<1> QED BY <1>4, <1>5, <1>9 DEF t, r
\* What the verdict is, case by case of the difference of the ages.
FillFacts(d, l, n, full, v) ==
  LET older == CompareAge(AgeOf(n), AgeOf(d)) IN
  /\ older = 0 => v = IF LastUsedPage(n) > LastUsedPage(d)
                      THEN Verdict(n, l, d) ELSE Verdict(d, l, n)
  /\ older \in {1, 2} /\ AgeOf(n) = Older(AgeOf(d), 1) =>
       v = IF l # None
           THEN IF LastUsedPage(n) > LastUsedPage(l)
                THEN Verdict(d, n, l) ELSE Verdict(d, l, n)
           ELSE IF full THEN Verdict(d, l, n) ELSE Verdict(d, n, None)
  /\ older \in {1, 2} /\ AgeOf(n) # Older(AgeOf(d), 1) => v = Verdict(d, l, n)
  /\ older \in {-1, -2} /\ AgeOf(d) = Older(AgeOf(n), 1) =>
       v = IF l # None THEN Verdict(n, d, l)
           ELSE IF full THEN Verdict(n, None, d) ELSE Verdict(n, d, None)
  /\ older \in {-1, -2} /\ AgeOf(d) # Older(AgeOf(n), 1) => v = Verdict(n, l, d)
\* What FillInDataLogBlk answers, from the ages of the two blocks.
LEMMA FillIs ==
  ASSUME NEW d \in Blk, NEW l, NEW n, NEW full, NEW v, v = Fill(d, l, n, full)
  PROVE  FillFacts(d, l, n, full, v)
<1> DEFINE older == CompareAge(AgeOf(n), AgeOf(d))
<1>1. d # None
  BY Numbers
<1>2. v = CASE older = 0 ->
                    IF LastUsedPage(n) > LastUsedPage(d)
                    THEN Verdict(n, l, d) ELSE Verdict(d, l, n)
                [] older > 0 /\ AgeOf(n) = Older(AgeOf(d), 1) ->
                    IF l # None
                    THEN IF LastUsedPage(n) > LastUsedPage(l)
                         THEN Verdict(d, n, l) ELSE Verdict(d, l, n)
                    ELSE IF full THEN Verdict(d, l, n) ELSE Verdict(d, n, None)
                [] older > 0 /\ AgeOf(n) # Older(AgeOf(d), 1) -> Verdict(d, l, n)
                [] older < 0 /\ AgeOf(d) = Older(AgeOf(n), 1) ->
                    IF l # None THEN Verdict(n, d, l)
                    ELSE IF full THEN Verdict(n, None, d) ELSE Verdict(n, d, None)
                [] OTHER -> Verdict(n, l, d)
  BY <1>1 DEF Fill
<1>6. FillFacts(d, l, n, full, v) <=>
        /\ older = 0 => v = IF LastUsedPage(n) > LastUsedPage(d)
                            THEN Verdict(n, l, d) ELSE Verdict(d, l, n)
        /\ older \in {1, 2} /\ AgeOf(n) = Older(AgeOf(d), 1) =>
             v = IF l # None
                 THEN IF LastUsedPage(n) > LastUsedPage(l)
                      THEN Verdict(d, n, l) ELSE Verdict(d, l, n)
                 ELSE IF full THEN Verdict(d, l, n) ELSE Verdict(d, n, None)
        /\ older \in {1, 2} /\ AgeOf(n) # Older(AgeOf(d), 1) => v = Verdict(d, l, n)
        /\ older \in {-1, -2} /\ AgeOf(d) = Older(AgeOf(n), 1) =>
             v = IF l # None THEN Verdict(n, d, l)
                 ELSE IF full THEN Verdict(n, None, d) ELSE Verdict(n, d, None)
        /\ older \in {-1, -2} /\ AgeOf(d) # Older(AgeOf(n), 1) => v = Verdict(n, l, d)
  BY DEF FillFacts
<1> HIDE DEF older
<1>3. CASE older = 0
  BY <1>2, <1>3, <1>6
<1>4. CASE older \in {1, 2}
  BY <1>2, <1>4, <1>6
<1>5. CASE older \in {-1, -2}
  BY <1>2, <1>5, <1>6
<1> QED BY <1>3, <1>4, <1>5, <1>6
\* What is found of a logical block with data block d, log block l and target x.
Found(D, L, d, l, x) ==
  \/ D = None /\ L = None
  \/ D \in {d, l, x} /\ L = None
  \/ l # None /\ D = d /\ L = l
  \/ x # None /\ Target2(d, x) /\ l # None /\ D = l /\ L = x
  \/ x # None /\ TargetMove(l, x) /\ D = d /\ L = x
\* The scan erases none but the target of a merge, and what it has found still
\* holds the data.
LEMMA FillFinds ==
  ASSUME Align, FlashInv, \A b \in Blk : Shape(b), NEW lb \in LogicBlk,
         NEW d \in Blk \cup {None}, NEW l \in Blk \cup {None}, NEW x \in Blk \cup {None},
         Fam(lb, d, l, x), NEW D, NEW L, Found(D, L, d, l, x),
         NEW n \in Blk, flash[n][0].info = lb, n # D, n # L,
         NEW full \in BOOLEAN, full /\ L = None /\ D # None => l = None,
         NEW v, v = Fill(D, L, n, full)
  PROVE  \/ v.erase = None /\ Found(v.data, v.log, d, l, x)
         \/ v.erase = x /\ x # None /\ Found(v.data, v.log, d, l, None)
<1>1. /\ d # None /\ d # l /\ d # x /\ (l = x => l = None) /\ n \in {d, l, x} /\ n # None
      /\ l # None => AgeOf(l) = Older(AgeOf(d), 1)
      /\ x # None => Target2(d, x) \/ TargetMove(l, x)
  BY Numbers DEF Fam, Of
<1>2. d \in Blk /\ AgeFacts(AgeOf(d))
  BY <1>1, RecordsTyped, Ages
<1> DEFINE a == AgeOf(d)
           b == Older(a, 1)
           c == Older(a, 2)
<1>3. /\ Older(b, 1) = c /\ a # b /\ a # c /\ b # c /\ Older(c, 1) # a /\ Older(c, 1) # b
      /\ Older(b, 1) # a
      /\ CompareAge(a, a) = 0 /\ CompareAge(b, a) = 1 /\ CompareAge(a, b) = -1
      /\ CompareAge(c, a) = 2 /\ CompareAge(a, c) = -2
  BY <1>2 DEF AgeFacts
<1>4. l # None => /\ l \in Blk /\ AgeOf(l) = b /\ AgeFacts(b)
  BY <1>1, RecordsTyped, Ages
<1>5. l # None => CompareAge(c, b) = 1 /\ CompareAge(b, c) = -1 /\ CompareAge(b, b) = 0
  BY <1>3, <1>4 DEF AgeFacts
<1>6. /\ x # None /\ Target2(d, x) => AgeOf(x) = c
      /\ x # None /\ TargetMove(l, x) => l # None /\ AgeOf(x) = b /\ LastUsedPage(l) > LastUsedPage(x)
  <2>1. x # None => x \in Blk
    OBVIOUS
  <2>2. l # None => l \in Blk
    OBVIOUS
  <2> QED BY <1>4, <2>1, <2>2, MoveEndsLater DEF Target2, TargetMove
<1>7. l # None /\ x # None /\ TargetMove(l, x) => ~(LastUsedPage(x) > LastUsedPage(l))
  <2> SUFFICES ASSUME l # None, x # None, TargetMove(l, x) PROVE ~(LastUsedPage(x) > LastUsedPage(l))
    OBVIOUS
  <2>1. LastUsedPage(l) \in Page /\ LastUsedPage(x) \in Page
    BY SearchFinds
  <2>2. LastUsedPage(l) \in Nat /\ LastUsedPage(x) \in Nat
    BY <2>1, Numbers
  <2> QED BY <1>6, <2>2
<1> HIDE DEF a, b, c
<1>8. AgeOf(d) = a /\ Older(AgeOf(d), 1) = b
  BY DEF a, b
<1>9. CASE D = None
  <2>1. L = None /\ v = Verdict(n, L, None)
    BY <1>1, <1>9, Numbers DEF Found, Fill
  <2> QED BY <1>1, <2>1 DEF Verdict, Found
<1>10. CASE D # None
  <2>1. D \in Blk
    BY <1>10 DEF Found
  <2>2. FillFacts(D, L, n, full, v)
    BY <2>1, FillIs
  <2> USE DEF Verdict, Found, FillFacts
  <2>3. CASE x = None
    <3>1. \/ D = d /\ n = l /\ L = None /\ l # None
          \/ D = l /\ n = d /\ L = None /\ l # None
      BY <1>1, <1>10, <2>3
    <3> QED BY <1>1, <1>3, <1>4, <1>8, <1>10, <2>2, <2>3, <3>1
  <2>4. CASE x # None /\ Target2(d, x)
    <3>0. ~TargetMove(l, x) /\ AgeOf(x) = c
      BY <1>3, <1>6, <2>4
    <3>1. CASE D = d
      <4>1. CASE n = l
        BY <1>1, <1>3, <1>4, <1>8, <1>10, <2>2, <2>4, <3>0, <3>1, <4>1
      <4>2. CASE n = x
        BY <1>1, <1>3, <1>4, <1>8, <1>10, <2>2, <2>4, <3>0, <3>1, <4>2
      <4> QED BY <1>1, <3>1, <4>1, <4>2
    <3>2. CASE D = l
      <4>1. CASE n = d
        BY <1>1, <1>3, <1>4, <1>8, <1>10, <2>2, <2>4, <3>0, <3>2, <4>1
      <4>2. CASE n = x
        BY <1>1, <1>3, <1>4, <1>5, <1>8, <1>10, <2>2, <2>4, <3>0, <3>2, <4>2
      <4> QED BY <1>1, <3>2, <4>1, <4>2
    <3>3. CASE D = x
      <4>0. L = None
        BY <1>1, <2>4, <3>3
      <4>1. CASE n = d
        BY <1>1, <1>3, <1>4, <1>8, <1>10, <2>2, <2>4, <3>0, <3>3, <4>0, <4>1
      <4>2. CASE n = l
        BY <1>1, <1>3, <1>4, <1>5, <1>8, <1>10, <2>2, <2>4, <3>0, <3>3, <4>0, <4>2
      <4> QED BY <1>1, <3>3, <4>1, <4>2
    <3> QED BY <1>10, <2>4, <3>1, <3>2, <3>3
  <2>5. CASE x # None /\ TargetMove(l, x)
    <3>0. ~Target2(d, x) /\ AgeOf(x) = b /\ l # None
      BY <1>3, <1>6, <2>5
    <3>1. CASE D = d
      <4>1. CASE n = l
        BY <1>1, <1>3, <1>4, <1>6, <1>8, <1>10, <2>2, <2>5, <3>0, <3>1, <4>1
      <4>2. CASE n = x
        BY <1>1, <1>3, <1>4, <1>7, <1>8, <1>10, <2>2, <2>5, <3>0, <3>1, <4>2
      <4> QED BY <1>1, <3>1, <4>1, <4>2
    <3>2. CASE D = l
      <4>0. L = None
        BY <1>1, <2>5, <3>0, <3>2
      <4>1. CASE n = d
        BY <1>1, <1>3, <1>4, <1>8, <1>10, <2>2, <2>5, <3>0, <3>2, <4>0, <4>1
      <4>2. CASE n = x
        BY <1>1, <1>3, <1>4, <1>5, <1>7, <1>8, <1>10, <2>2, <2>5, <3>0, <3>2, <4>0, <4>2
      <4> QED BY <1>1, <3>2, <4>1, <4>2
    <3>3. CASE D = x
      <4>0. L = None
        BY <1>1, <2>5, <3>0, <3>3
      <4>1. CASE n = d
        BY <1>1, <1>3, <1>4, <1>8, <1>10, <2>2, <2>5, <3>0, <3>3, <4>0, <4>1
      <4>2. CASE n = l
        BY <1>1, <1>3, <1>4, <1>5, <1>6, <1>8, <1>10, <2>2, <2>5, <3>0, <3>3, <4>0, <4>2
      <4> QED BY <1>1, <3>3, <4>1, <4>2
    <3> QED BY <1>10, <2>5, <3>1, <3>2, <3>3
  <2> QED BY <1>1, <2>3, <2>4, <2>5
<1> QED BY <1>9, <1>10
\* With a log block found for every item of the table, every logical block with
\* two blocks has its log block found.
LEMMA ItemsSuffice ==
  ASSUME ScanTables, SlotsEnough, NEW lb \in LogicBlk, ~HasLog(lb), ~HasLog(None),
         NEW d \in Blk \cup {None}, NEW l \in Blk \cup {None}, NEW x \in Blk \cup {None},
         Fam(lb, d, l, x)
  PROVE  l = None
<1> SUFFICES ASSUME l # None PROVE FALSE
  OBVIOUS
<1>1. PICK S \in SUBSET LogicBlk :
        /\ Cardinality(S) <= SlotCnt
        /\ \A y \in LogicBlk : y \in S \/ \E b \in Blk : Of(y) = {b}
  BY DEF SlotsEnough
<1>2. lb \in S
  <2>1. d \in Of(lb) /\ l \in Of(lb) /\ d # l
    BY DEF Fam
  <2> QED BY <1>1, <2>1
<1>3. \A s \in Slot : /\ logs[s].lb \in LogicBlk /\ logs[s].lb # lb /\ logs[s].lb \in S
                      /\ \A t \in Slot : logs[s].lb = logs[t].lb => s = t
  <2> SUFFICES ASSUME NEW s \in Slot
               PROVE  /\ logs[s].lb \in LogicBlk /\ logs[s].lb # lb /\ logs[s].lb \in S
                      /\ \A t \in Slot : logs[s].lb = logs[t].lb => s = t
    OBVIOUS
  <2>1. logs[s].lb # None /\ s \in InUse /\ logs[s].lb # lb
    BY DEF HasLog, InUse
  <2>2. logs[s].lb \in LogicBlk
    BY <2>1 DEF ScanTables, LogType
  <2>3. /\ data[logs[s].lb] \in Of(logs[s].lb) /\ logs[s].blk \in Of(logs[s].lb)
        /\ data[logs[s].lb] # logs[s].blk
    BY <2>1, <2>2, Numbers DEF ScanTables, Of
  <2>4. logs[s].lb \in S
    BY <1>1, <2>2, <2>3
  <2>5. \A t \in Slot : logs[s].lb = logs[t].lb => s = t
    BY <2>1 DEF ScanTables, InUse
  <2> QED BY <2>1, <2>2, <2>4, <2>5
<1> DEFINE f == [s \in Slot |-> logs[s].lb]
<1>4. f \in Injection(Slot, S \ {lb})
  BY <1>3 DEF Injection, IsInjective
<1>5. IsFiniteSet(LogicBlk) /\ SlotCnt \in Nat /\ IsFiniteSet(Slot) /\ Cardinality(Slot) = SlotCnt
  <2>1. LogicCnt \in Nat /\ SlotCnt \in Nat /\ Slot = 0 .. SlotCnt - 1
    BY Numbers, SlotAssumption DEF Slot
  <2>2. IsFiniteSet(0 .. LogicCnt - 1)
    BY <2>1, FS_Interval
  <2>3. IsFiniteSet(0 .. SlotCnt - 1) /\ Cardinality(0 .. SlotCnt - 1) = SlotCnt
    BY <2>1, FS_Interval
  <2> QED BY <2>1, <2>2, <2>3 DEF LogicBlk
<1>6. IsFiniteSet(S) /\ Cardinality(S) \in Nat
  BY <1>1, <1>5, FS_Subset, FS_CardinalityType
<1>7. IsFiniteSet(S \ {lb}) /\ Cardinality(S \ {lb}) = Cardinality(S) - 1
  BY <1>2, <1>6, FS_RemoveElement
<1>8. Cardinality(Slot) <= Cardinality(S \ {lb})
  BY <1>4, <1>7, FS_Injection
<1> QED BY <1>1, <1>5, <1>6, <1>7, <1>8
\* A step of the scan that erases block x or nothing.
LEMMA ScanErases ==
  ASSUME IInv, DInv, op.kind = "scan", op'.kind = "scan", saved' = saved,
         NEW lb \in LogicBlk,
         NEW d \in Blk \cup {None}, NEW l \in Blk \cup {None}, NEW x \in Blk \cup {None},
         Fam(lb, d, l, x),
         \/ flash' = flash /\ Pair(lb, d, l, x)'
         \/ x # None /\ flash' = [flash EXCEPT ![x] = ErasedBlk] /\ Pair(lb, d, l, None)',
         \A y \in LogicBlk : y # lb => data'[y] = data[y] /\ LogFound(y)' = LogFound(y)
  PROVE  DInv' /\ Fresh
<1>1. /\ ~Mounted /\ ~Mounted' /\ ~saved.clean /\ SlotsEnough
      /\ \A y \in LogicBlk : SomeFam(y) /\ ScanFam(y)
      /\ \A b \in Blk : Shape(b)
  BY DEF Mounted, IInv, CleanOk, DInv, DRest
<1>2. SavedTrue'
  BY <1>1 DEF SavedTrue
<1>3. flash \in [Blk -> [Page -> RecordType]]
  BY DEF IInv, FlashInv, FlashType, RecordType
<1>4. Only(x) /\ (x # None => flash'[x] = flash[x] \/ flash'[x] = ErasedBlk)
  BY <1>3 DEF Only
<1>5. NearOnly(lb)
  <2>1. x # None => x \in Blk /\ flash[x][0].info = lb
    BY DEF Fam, Of
  <2>2. ErasedBlk[0].info = None
    BY Numbers DEF ErasedBlk, Erased, PageRecord
  <2> QED BY <1>4, <2>1, <2>2 DEF NearOnly, Only
<1>6. \A b \in Blk : Shape(b)'
  BY <1>1, <1>4, SameBlock, ErasedNext DEF ErasedFacts, Only
<1>7. PICK y \in Blk \cup {None} : Fam(lb, d, l, y)' /\ Pair(lb, d, l, y)' /\ (y = x \/ y = None)
  <2>1. CASE flash' = flash /\ Pair(lb, d, l, x)'
    <3>1. Of(lb)' = Of(lb)
      BY <2>1 DEF Of
    <3> QED BY <2>1, <3>1, FamSame
  <2>2. CASE x # None /\ flash' = [flash EXCEPT ![x] = ErasedBlk] /\ Pair(lb, d, l, None)'
    <3>1. x \in Blk /\ flash'[x] = ErasedBlk
      BY <1>3, <2>2
    <3> QED BY <1>4, <2>2, <3>1, DropTarget
  <2> QED BY <2>1, <2>2
<1>8. ScanFam(lb)' /\ SomeFam(lb)'
  BY <1>7 DEF ScanFam, SomeFam
<1>9. ASSUME NEW z \in LogicBlk, z # lb PROVE ScanFam(z)' /\ SomeFam(z)' /\ Of(z)' = Of(z)
  <2>1. PICK e, m, t \in Blk \cup {None} : Fam(z, e, m, t) /\ Pair(z, e, m, t)
    BY <1>1 DEF ScanFam
  <2>2. Of(z)' = Of(z) /\ \A c \in Of(z) : flash'[c] = flash[c]
    BY <1>5, <1>9, OfOther
  <2>3. Fam(z, e, m, t)'
    BY <2>1, <2>2, FamSame
  <2>4. Of(z) = {e, m, t} \ {None}
    BY <2>1 DEF Fam
  <2>5. /\ e # None => flash'[e] = flash[e]
        /\ m # None => flash'[m] = flash[m]
        /\ t # None => flash'[t] = flash[t]
    BY <2>2, <2>4
  <2>6. e # None
    BY <2>1 DEF Fam
  <2>7. /\ t # None => (Target2(e, t)' <=> Target2(e, t)) /\ (TargetMove(m, t)' <=> TargetMove(m, t))
    BY <2>5, <2>6 DEF Target2, TargetMove, AgeOf, LineUsed, UsedOfLine
  <2>8. data'[z] = data[z] /\ LogFound(z)' = LogFound(z)
    BY <1>9
  <2>9. Pair(z, e, m, t)'
    BY <2>1, <2>7, <2>8 DEF Pair
  <2> QED BY <2>2, <2>3, <2>9 DEF ScanFam, SomeFam
<1>10. SlotsEnough'
  <2>1. PICK S \in SUBSET LogicBlk :
          /\ Cardinality(S) <= SlotCnt
          /\ \A z \in LogicBlk : z \in S \/ \E b \in Blk : Of(z) = {b}
    BY <1>1 DEF SlotsEnough
  <2>2. ASSUME NEW z \in LogicBlk, z \notin S PROVE \E b \in Blk : Of(z)' = {b}
    <3>1. PICK b \in Blk : Of(z) = {b}
      BY <2>1, <2>2
    <3>2. CASE z # lb
      BY <1>9, <3>1, <3>2
    <3>3. CASE z = lb
      <4>1. d = b /\ l = None /\ x = None
        BY <3>1, <3>3 DEF Fam
      <4>2. Of(lb)' = {b}
        BY <1>7, <4>1, Numbers DEF Fam
      <4> QED BY <3>3, <4>2
    <3> QED BY <3>2, <3>3
  <2> QED BY <2>1, <2>2 DEF SlotsEnough
<1>11. Fresh
  <2>1. CASE flash' = flash
    BY <2>1 DEF Fresh
  <2>2. CASE x # None /\ flash' = [flash EXCEPT ![x] = ErasedBlk]
    BY <1>3, <1>4, <2>2, FreshErase
  <2> QED BY <2>1, <2>2
<1> QED BY <1>1, <1>2, <1>6, <1>8, <1>9, <1>10, <1>11 DEF DInv, DMounted, DRest
\* Step ScanBlock.
LEMMA ScanBlockData == ASSUME Align, IInv, DInv, NEW n \in Blk, ScanBlock(n) PROVE DInv' /\ Fresh
<1> DEFINE full == ~HasLog(None)
<1>0. PICK lb, D, L, v, s :
        /\ lb = flash[n][0].info /\ D = data[lb] /\ L = LogOf(lb).blk
        /\ v = Fill(D, L, n, full)
        /\ s = IF HasLog(lb) THEN SlotOf(lb) ELSE SlotOf(None)
  OBVIOUS
<1>1. /\ op.kind = "scan" /\ op.step = "fill" /\ scan.next = n /\ saved' = saved
  BY DEF ScanBlock, maps
<1>2. ScanTables /\ ~Mounted /\ \A y \in LogicBlk : ScanFam(y)
  BY <1>1 DEF IInv, ScanOk, Mounted, DInv, DRest
<1>3. op' = op \/ op' = [op EXCEPT !.step = "erase"]
  BY DEF ScanBlock, GoTo
<1>4. op'.kind = "scan" /\ ~Mounted'
  <2>1. op'.kind = op.kind
    BY <1>3, OpKinds DEF IInv, OpOk, OpType, Off, Idle, Op
  <2> QED BY <1>1, <2>1 DEF Mounted
<1>5. CASE lb = None
  <2>1. UNCHANGED <<flash, data, logs>>
    BY <1>0, <1>5 DEF ScanBlock
  <2>2. \A y \in LogicBlk : ScanFam(y)'
    BY <1>2, <2>1, FoundStays
  <2> QED BY <1>1, <1>2, <1>4, <2>1, <2>2, ScanStays DEF Fresh
<1>6. CASE lb # None
  <2>1. lb \in LogicBlk
    BY <1>0, <1>6, RecordsTyped, Numbers DEF RecordType, IInv
  <2>2. /\ data' = [data EXCEPT ![lb] = v.data]
        /\ logs' = IF v.log = None THEN logs
                   ELSE [logs EXCEPT ![s].lb = lb, ![s].blk = v.log]
        /\ IF v.erase = None THEN UNCHANGED <<flash, op>>
           ELSE flash' = [flash EXCEPT ![v.erase] = ErasedBlk] /\ op' = [op EXCEPT !.step = "erase"]
    BY <1>0, <1>6 DEF ScanBlock, Erase, GoTo
  <2>3. /\ data \in [LogicBlk -> Blk \cup {None}] /\ logs \in [Slot -> LogType]
        /\ D \in Blk \cup {None} /\ n # D
    BY <1>0, <1>1, <1>2, <2>1, Numbers DEF ScanTables
  <2>4. /\ HasLog(lb) => /\ SlotOf(lb) \in Slot /\ logs[SlotOf(lb)].lb = lb
                         /\ L = logs[SlotOf(lb)].blk /\ L \in Blk /\ L # n /\ D # None
        /\ ~HasLog(lb) => L = None
        /\ L = LogFound(lb)
    <3>1. ASSUME HasLog(lb)
          PROVE  /\ SlotOf(lb) \in Slot /\ logs[SlotOf(lb)].lb = lb
                 /\ L = logs[SlotOf(lb)].blk /\ L \in Blk /\ L # n /\ D # None
      <4>1. SlotOf(lb) \in Slot /\ logs[SlotOf(lb)].lb = lb
        BY <3>1 DEF HasLog, SlotOf
      <4>2. SlotOf(lb) \in InUse /\ L = logs[SlotOf(lb)].blk
        BY <1>0, <1>6, <3>1, <4>1 DEF InUse, LogOf
      <4> QED BY <1>0, <1>1, <1>2, <4>1, <4>2, Numbers DEF ScanTables
    <3>2. ~HasLog(lb) => L = None
      BY <1>0 DEF LogOf, NoLog
    <3>3. L = LogFound(lb)
      BY <3>1, <3>2 DEF LogFound
    <3> QED BY <3>1, <3>2, <3>3
  <2>5. HasLog(None) => SlotOf(None) \in Slot /\ logs[SlotOf(None)].lb = None
    BY DEF HasLog, SlotOf
  <2>6. PICK d, l, x \in Blk \cup {None} : Fam(lb, d, l, x) /\ Pair(lb, d, l, x)
    BY <1>2, <2>1 DEF ScanFam
  <2>7. Found(D, L, d, l, x)
    BY <1>0, <2>4, <2>6 DEF Pair, Found
  <2>8. full /\ L = None /\ D # None => l = None
    <3>1. L = None => ~HasLog(lb)
      BY <2>4, Numbers
    <3>2. SlotsEnough
      BY <1>2 DEF DInv, DRest
    <3> QED BY <1>0, <1>2, <2>1, <2>6, <3>1, <3>2, ItemsSuffice
  <2>9. /\ L # None => v.log # None
        /\ L = None /\ v.log # None => ~full
    <3>1. full \in BOOLEAN
      OBVIOUS
    <3>2. /\ L \in Blk \cup {None} /\ L # n /\ (D = None => L = None) /\ (D # None => D # L)
      <4>1. HasLog(lb) => D # L
        BY <1>0, <1>2, <1>6, <2>4 DEF ScanTables, InUse
      <4> QED BY <2>4, <4>1, Numbers
    <3>3. v = Fill(D, L, n, full)
      BY <1>0
    <3> HIDE DEF full
    <3>4. D \in Blk \cup {None} /\ L \in Blk \cup {None} /\ n \in Blk /\ D # n /\ L # n
      BY <2>3, <3>2
    <3>5. (D = None => L = None) /\ (D # None => D # L)
      BY <3>2
    <3>6. /\ v.data \in {D, n} \ {None}
          /\ v.log \in {D, L, n, None} /\ v.log # v.data
          /\ v.erase \in {D, L, n, None}
          /\ v.erase # None => v.erase # v.data /\ v.erase # v.log
          /\ {D, L, n} \subseteq {v.data, v.log, v.erase, None}
          /\ L # None => v.log # None
          /\ L = None /\ v.log # None => ~full
      BY <3>1, <3>3, <3>4, <3>5, Decides
    <3> QED BY <3>6
  <2>10. \/ v.erase = None /\ Found(v.data, v.log, d, l, x)
         \/ v.erase = x /\ x # None /\ Found(v.data, v.log, d, l, None)
    <3>1. FlashInv /\ (\A b \in Blk : Shape(b)) /\ n # L /\ full \in BOOLEAN
      BY <1>0, <2>4, Numbers DEF IInv, DInv
    <3>2. flash[n][0].info = lb /\ v = Fill(D, L, n, full)
      BY <1>0
    <3> HIDE DEF full
    <3>3. FlashInv /\ (\A b \in Blk : Shape(b)) /\ n # D /\ n # L
      BY <2>3, <3>1
    <3>4. full \in BOOLEAN /\ flash[n][0].info = lb
      BY <3>1, <3>2
    <3>5. Fam(lb, d, l, x)
      BY <2>6
    <3>6. v = Fill(D, L, n, full)
      BY <3>2
    <3> QED BY <2>1, <2>7, <2>8, <3>3, <3>4, <3>5, <3>6, FillFinds
  <2>11. v.log # None => /\ s \in Slot /\ logs[s].lb \in {None, lb}
                         /\ s = IF HasLog(lb) THEN SlotOf(lb) ELSE SlotOf(None)
    <3>1. CASE HasLog(lb)
      BY <1>0, <2>4, <3>1
    <3>2. CASE ~HasLog(lb)
      BY <1>0, <2>4, <2>5, <2>9, <3>2
    <3> QED BY <3>1, <3>2
  <2>12. LogFound(lb)' = v.log
    <3>1. CASE v.log = None
      <4>1. logs' = logs /\ L = None
        BY <2>2, <2>9, <3>1
      <4>2. LogFound(lb)' = LogFound(lb)
        BY <4>1 DEF LogFound, HasLog, SlotOf
      <4> QED BY <2>4, <3>1, <4>1, <4>2
    <3>2. CASE v.log # None
      <4>1. logs'[s].lb = lb /\ logs'[s].blk = v.log /\ \A t \in Slot : t # s => logs'[t] = logs[t]
        BY <2>2, <2>3, <2>11, <3>2 DEF LogType
      <4>2. \A t \in Slot : t # s => logs[t].lb # lb
        <5> SUFFICES ASSUME NEW t \in Slot, t # s, logs[t].lb = lb PROVE FALSE
          OBVIOUS
        <5>1. HasLog(lb)
          BY DEF HasLog
        <5>2. s \in Slot /\ logs[s].lb = lb
          BY <2>4, <2>11, <3>2, <5>1
        <5> QED BY <1>2, <1>6, <5>2 DEF ScanTables, InUse
      <4>3. \A t \in Slot : logs'[t].lb = lb <=> t = s
        BY <4>1, <4>2, <2>11, <3>2
      <4>4. (CHOOSE t \in Slot : logs'[t].lb = lb) = s /\ \E t \in Slot : logs'[t].lb = lb
        BY <4>3, <2>11, <3>2
      <4> QED BY <4>1, <4>4 DEF LogFound, HasLog, SlotOf
    <3> QED BY <3>1, <3>2
  <2>13. ASSUME NEW y \in LogicBlk, y # lb PROVE data'[y] = data[y] /\ LogFound(y)' = LogFound(y)
    <3>1. data'[y] = data[y]
      BY <2>2, <2>3, <2>13
    <3>2. \A t \in Slot : /\ logs'[t].lb = y <=> logs[t].lb = y
                          /\ logs[t].lb = y => logs'[t] = logs[t]
      <4>1. CASE v.log = None
        BY <2>2, <4>1
      <4>2. CASE v.log # None
        <5>1. logs'[s].lb = lb /\ \A t \in Slot : t # s => logs'[t] = logs[t]
          BY <2>2, <2>3, <2>11, <4>2 DEF LogType
        <5>2. y # None
          BY Numbers
        <5> QED BY <2>11, <2>13, <4>2, <5>1, <5>2
      <4> QED BY <4>1, <4>2
    <3>3. (CHOOSE t \in Slot : logs'[t].lb = y) = (CHOOSE t \in Slot : logs[t].lb = y)
      BY <3>2
    <3>4. HasLog(y)' <=> HasLog(y)
      BY <3>2 DEF HasLog
    <3>5. HasLog(y) => SlotOf(y) \in Slot /\ logs[SlotOf(y)].lb = y /\ SlotOf(y)' = SlotOf(y)
      BY <3>3 DEF HasLog, SlotOf
    <3>6. LogFound(y)' = LogFound(y)
      BY <3>2, <3>4, <3>5 DEF LogFound
    <3> QED BY <3>1, <3>6
  <2>14. data'[lb] = v.data
    BY <2>1, <2>2, <2>3
  <2>15. x # None => x \in Blk
    OBVIOUS
  <2>16. CASE v.erase = None /\ Found(v.data, v.log, d, l, x)
    <3>1. flash' = flash
      BY <2>2, <2>16
    <3>2. Pair(lb, d, l, x)'
      BY <2>12, <2>14, <2>16, <3>1 DEF Pair, Found, Target2, AgeOf, TargetMove, LineUsed, UsedOfLine
    <3> QED BY <1>1, <1>4, <2>1, <2>6, <2>13, <3>1, <3>2, ScanErases
  <2>17. CASE v.erase = x /\ x # None /\ Found(v.data, v.log, d, l, None)
    <3>1. flash' = [flash EXCEPT ![x] = ErasedBlk]
      BY <2>2, <2>17
    <3>2. Pair(lb, d, l, None)'
      BY <2>12, <2>14, <2>17 DEF Pair, Found
    <3> QED BY <1>1, <1>4, <2>1, <2>6, <2>13, <2>17, <3>1, <3>2, ScanErases
  <2> QED BY <2>10, <2>16, <2>17
<1> QED BY <1>5, <1>6
\* What the scan has found when it is over.
LEMMA AllFound ==
  ASSUME IInv, DInv, op.kind = "scan", scan.next = BlkCnt, NEW lb \in LogicBlk
  PROVE  data[lb] \in Blk /\ Fam(lb, data[lb], LogFound(lb), None)
<1>1. ScanTables /\ Seen /\ ScanFam(lb)
  BY DEF IInv, ScanOk, DInv, DRest, Mounted
<1>2. PICK d, l, x \in Blk \cup {None} : Fam(lb, d, l, x) /\ Pair(lb, d, l, x)
  BY <1>1 DEF ScanFam
<1>3. /\ d # None /\ d # l /\ d # x /\ (l = x => l = None) /\ Of(lb) = {d, l, x} \ {None}
  BY <1>2 DEF Fam
<1>4. ASSUME NEW b \in Of(lb) PROVE data[lb] # None /\ b \in {data[lb], LogFound(lb)}
  <2>1. b \in Blk /\ flash[b][0].info = lb /\ b < BlkCnt /\ b # None /\ lb # None
    BY Numbers DEF Of, Blk
  <2>2. flash[b] # ErasedBlk
    BY <2>1, Numbers DEF ErasedBlk, Erased, PageRecord
  <2>3. data[lb] = b \/ \E s \in InUse : logs[s].blk = b
    BY <1>1, <2>1, <2>2 DEF Seen
  <2>4. ASSUME NEW s \in InUse, logs[s].blk = b PROVE data[lb] # None /\ LogFound(lb) = b
    <3>1. s \in Slot /\ logs[s].lb = lb /\ data[lb] # None
      BY <1>1, <2>1, <2>4 DEF ScanTables, InUse
    <3>2. \A t \in Slot : logs[t].lb = lb => t = s
      BY <1>1, <2>1, <3>1 DEF ScanTables, InUse
    <3>3. HasLog(lb) /\ SlotOf(lb) = s
      BY <3>1, <3>2 DEF HasLog, SlotOf
    <3> QED BY <2>4, <3>1, <3>3 DEF LogFound
  <2> QED BY <2>1, <2>3, <2>4
<1>5. data[lb] # None /\ d \in {data[lb], LogFound(lb)}
  BY <1>3, <1>4
<1>6. /\ l # None => l \in {data[lb], LogFound(lb)}
      /\ x # None => x \in {data[lb], LogFound(lb)}
  BY <1>3, <1>4
<1>7. x = None /\ data[lb] = d /\ LogFound(lb) = l
  BY <1>2, <1>3, <1>5, <1>6 DEF Pair, TargetMove
<1> QED BY <1>2, <1>3, <1>7
\* Step EndScan.
LEMMA EndScanData == ASSUME Align, IInv, IInv', DInv, EndScan PROVE DInv'
<1>1. /\ op.kind = "scan" /\ scan.next = BlkCnt
      /\ flash' = flash /\ UNCHANGED <<maps, merge>>
  BY DEF EndScan
<1>2. \A lb \in LogicBlk : data[lb] \in Blk /\ Fam(lb, data[lb], LogFound(lb), None)
  BY <1>1, AllFound
<1> DEFINE D(given) == [lb \in LogicBlk |-> IF lb \in Unset THEN given[lb] ELSE data[lb]]
           L == [s \in Slot |->
                   IF logs[s].lb = None THEN logs[s]
                   ELSE [logs[s] EXCEPT !.last = LastUsedPage(logs[s].blk)]]
           F(given) == Blank \ {given[lb] : lb \in Unset}
<1>3. PICK given \in [Unset -> Blank] : Mount(D(given), L, F(given))
  BY DEF EndScan
<1> DEFINE d == D(given)
           f == F(given)
<1>4. ScanTables
  BY <1>1 DEF IInv, ScanOk
<1>5. \A lb \in LogicBlk : d[lb] = data[lb]
  BY <1>2, Numbers DEF Unset
<1>6. /\ \A s \in Slot : L[s].lb = logs[s].lb /\ L[s].blk = logs[s].blk
      /\ \A s \in InUse : L[s].last = LastUsedPage(logs[s].blk)
      /\ Used(L) = InUse
  <2>1. logs \in [Slot -> LogType]
    BY <1>4 DEF ScanTables
  <2>2. \A s \in Slot : /\ L[s].lb = logs[s].lb /\ L[s].blk = logs[s].blk
                        /\ logs[s].lb # None => L[s].last = LastUsedPage(logs[s].blk)
    BY <2>1 DEF LogType
  <2> HIDE DEF L
  <2> QED BY <2>2 DEF Used, InUse
<1>7. Mount(d, L, f)
  BY <1>3
<1> HIDE DEF D, F, L, d, f
<1>8. Roles(d, L, f)
  <2>1. data' = d /\ logs' = L /\ free' = f /\ op' = Idle
    BY <1>7 DEF Mount
  <2>2. Roles(data, logs, free)'
    BY <2>1 DEF IInv, MountedOk, Mounted, Idle, Op
  <2> QED BY <2>1, <2>2 DEF Roles, Used
<1>9. ASSUME NEW lb \in LogicBlk PROVE Own(d, L, lb)
  <2>1. CASE HasLog(lb)
    <3>1. PICK s \in Slot : logs[s].lb = lb /\ s = SlotOf(lb)
      BY <2>1 DEF HasLog, SlotOf
    <3>2. LogIn(L, lb) = Written0(L[s].blk)
      BY <1>6, <1>8, <3>1, LogInIs
    <3>3. L[s].blk = logs[s].blk /\ flash[logs[s].blk][0].info = lb /\ lb # None
      BY <1>4, <1>6, <3>1, Numbers DEF ScanTables, InUse
    <3>4. LogIn(L, lb) = LogFound(lb)
      BY <2>1, <3>1, <3>2, <3>3 DEF Written0, LogFound
    <3> QED BY <1>2, <1>5, <3>4 DEF Own
  <2>2. CASE ~HasLog(lb)
    <3>1. LogIn(L, lb) = None
      BY <1>6, <2>2, LogInNone DEF HasLog
    <3>2. LogFound(lb) = None
      BY <2>2 DEF LogFound
    <3> QED BY <1>2, <1>5, <3>1, <3>2 DEF Own
  <2> QED BY <2>1, <2>2
<1>10. ASSUME NEW s \in Used(L) PROVE LastOk(L, s)
  <2>1. s \in Slot /\ s \in InUse /\ L[s].blk = logs[s].blk /\ L[s].last = LastUsedPage(logs[s].blk)
    BY <1>6, <1>10 DEF InUse
  <2>2. logs[s].blk \in Blk
    BY <1>4, <2>1 DEF ScanTables
  <2>3. LastUsedPage(logs[s].blk) \in Page /\ HasLast(logs[s].blk, LastUsedPage(logs[s].blk))
    BY <2>2, SearchFinds DEF DInv
  <2> QED BY <2>1, <2>3, Numbers DEF LastOk
<1> QED BY <1>1, <1>7, <1>8, <1>9, <1>10, MountData
(***************************************************************************)
(* Every step.                                                             *)
(***************************************************************************)
LEMMA StillFresh == flash' = flash => Fresh
BY DEF Fresh
\* Every step keeps the data invariant and programs only erased pages.
LEMMA NextData ==
  ASSUME Align, StackBlk = {None}, BlkCnt > LogicCnt + SlotCnt,
         IInv, IInv', JInv, DInv, NoEmptyBank, [Next]_allVars
  PROVE  DInv' /\ Fresh
<1>1. ~FailWrite /\ ~NoMergeForTable /\ ~EndFailedWrite /\ ~EndFailedExit
  BY NothingFails DEF JInv, NoFailure, EndFailedWrite, EndFailedExit, Ready
<1>2. CASE UNCHANGED allVars
  BY <1>2, StutterData, StillFresh DEF allVars, vars
<1>3. CASE Call
  <2>1. flash' = flash
    BY <1>3 DEF Call, StartRead, StartWrite, StartExit
  <2>2. ASSUME NEW w \in WrittenBanks, StartWrite(w[1], w[2]) PROVE DInv'
    <3>1. w[1] \in LogicBlk
      BY WrittenAssumption DEF WrittenBanks
    <3> QED BY <2>2, <3>1, StartWriteData
  <2>3. DInv'
    BY <1>3, <2>2, StartReadData, StartExitData DEF Call
  <2> QED BY <2>1, <2>3, StillFresh
<1>4. CASE WriteStep
  <2>1. CASE UseLog \/ (\E s \in Slot : PickVictim(s)) \/ MergeVictim \/ MergeFullLog
    <3>1. flash' = flash
      BY <2>1 DEF UseLog, PickVictim, MergeVictim, MergeFullLog
    <3>2. DInv'
      BY <2>1, UseLogData, PickVictimData, MergeVictimData, MergeFullLogData
    <3> QED BY <3>1, <3>2, StillFresh
  <2>2. CASE \E s \in Slot, b \in Blk : CreateLog(s, b)
    <3>1. flash' = flash
      BY <2>2 DEF CreateLog
    <3>2. DInv'
      BY <2>2, CreateLogData
    <3> QED BY <3>1, <3>2, StillFresh
  <2>3. CASE WriteDataInfo \/ WriteLogInfo \/ \E lp \in Page : WritePage(lp)
    BY <2>3, WriteDataInfoData, WriteLogInfoData, WritePageData, StillFresh
  <2> QED BY <1>1, <1>4, <2>1, <2>2, <2>3 DEF WriteStep
<1>5. CASE EndRead
  <2>1. flash' = flash
    BY <1>5 DEF EndRead
  <2> QED BY <1>5, <2>1, EndReadData, StillFresh
<1>6. CASE ExitStep
  <2>1. flash' = flash
    BY <1>1, <1>6 DEF ExitStep, FlushEntry, SaveTables
  <2>2. DInv'
    BY <1>1, <1>6, FlushEntryData, SaveTablesData DEF ExitStep
  <2> QED BY <2>1, <2>2, StillFresh
<1>7. CASE SwitchStep
  <2>1. CASE WriteTable
    BY <2>1, WriteTableData
  <2>2. CASE ~WriteTable
    <3>1. flash' = flash
      BY <1>1, <1>7, <2>2 DEF SwitchStep, CacheHit, PickEntry, MergeForTable, TableMerged, ReadTable,
                              EntryWritten
    <3>2. DInv'
      BY <1>1, <1>7, <2>2, CacheHitData, PickEntryData, MergeForTableData, TableMergedData,
         ReadTableData, EntryWrittenData DEF SwitchStep
    <3> QED BY <3>1, <3>2, StillFresh
  <2> QED BY <2>1, <2>2
<1>8. CASE MergeStep
  BY <1>8, SwapCopyData, SwapEndData, SimpleCopyData, SimpleEraseDataData, SimpleEndData,
     MoveCopyData, MoveInfoData, MoveEndData DEF MergeStep
<1>9. CASE PowerLoss \/ LoadTables \/ StartScan \/ EndScan
  <2>1. flash' = flash
    BY <1>9 DEF PowerLoss, LoadTables, StartScan, EndScan
  <2>2. DInv'
    BY <1>9, PowerLossData, LoadTablesData, StartScanData, EndScanData
  <2> QED BY <2>1, <2>2, StillFresh
<1>10. CASE \E b \in Blk : ScanBlock(b)
  BY <1>10, ScanBlockData
<1>11. CASE \E b \in StackBlk : EraseMore(b)
  <2>1. EraseMore(None)
    BY <1>11
  <2>2. flash' = flash
    BY <2>1 DEF EraseMore
  <2> QED BY <2>1, <2>2, EraseMoreData, StillFresh
<1> QED BY <1>2, <1>3, <1>4, <1>5, <1>6, <1>7, <1>8, <1>9, <1>10, <1>11 DEF Next, Work, ScanStep
\* The invariant holds.
LEMMA DataHolds ==
  ASSUME Align, StackBlk = {None}, BlkCnt > LogicCnt + SlotCnt
  PROVE  Spec /\ []NoEmptyBank => []DInv
<1>1. IInv /\ IInv' /\ JInv /\ DInv /\ NoEmptyBank /\ [Next]_allVars => DInv'
  BY NextData
<1> QED BY <1>1, InitData, InvHolds, CallsHold, PTL DEF Spec
\* The log block of a mounted disk without a merge, and the table of it.
LEMMA LogKnown ==
  ASSUME IInv, DInv, Mounted, ~Merging, ~Placed, NEW s \in Slot, logs[s].lb # None
  PROVE  /\ LastOk(logs, s) /\ MapOf(s) = Rebuilt(logs[s].blk)
         /\ logs[s].lb \in LogicBlk /\ LogIn(logs, logs[s].lb) = Written0(logs[s].blk)
         /\ LogOf(logs[s].lb) = logs[s] /\ SlotOf(logs[s].lb) = s /\ logs[s].blk \in Blk
<1>1. /\ s \in InUse /\ logs[s].lb \in LogicBlk /\ Roles(data, logs, free)
      /\ LogOf(logs[s].lb) = logs[s] /\ SlotOf(logs[s].lb) = s /\ logs[s].blk \in Blk
  BY OneLog DEF IInv, MountedOk
<1>2. LastOk(logs, s)
  BY <1>1 DEF DInv, DMounted, LastsOk
<1>3. StoredMap(s) = Rebuilt(logs[s].blk)
  BY <1>1, <1>2, StoredTrue
<1>4. MapOf(s) = Rebuilt(logs[s].blk)
  <2>1. CASE \E i \in Cached : pool[i].slot = s
    <3>1. PICK i : i = (CHOOSE j \in Cached : pool[j].slot = s)
      OBVIOUS
    <3>2. i \in Cached /\ pool[i].slot = s
      BY <2>1, <3>1
    <3>3. MapTrue(i)
      BY <3>2, Numbers DEF DInv, DMounted, MapsOk
    <3> QED BY <2>1, <3>1, <3>2, <3>3 DEF MapOf, MapTrue
  <2>2. CASE ~\E i \in Cached : pool[i].slot = s
    BY <1>3, <2>2 DEF MapOf
  <2> QED BY <2>1, <2>2
<1>5. LogIn(logs, logs[s].lb) = Written0(logs[s].blk)
  BY <1>1, LogInIs
<1> QED BY <1>1, <1>2, <1>4, <1>5
\* The tables lead to the data.
LEMMA TablesLead ==
  ASSUME IInv, DInv, Mounted, ~Merging, NEW lb \in LogicBlk, NEW p \in Page, NEW q,
         IF HasLog(lb) THEN q = Rebuilt(LogOf(lb).blk)[p] ELSE q = None
  PROVE  IF q = None THEN flash[data[lb]][p].main = Latest
         ELSE flash[LogOf(lb).blk][q].main = Latest
<1>1. Roles(data, logs, free) /\ Own(data, logs, lb)
  BY DEF IInv, MountedOk, DInv, DMounted, InMerges
<1> DEFINE w == LogIn(logs, lb)
<1>2. Good(FoundAt(data[lb], w, p), lb, p)
  BY <1>1 DEF Own, Fam
<1>3. CASE ~HasLog(lb)
  <2>1. w = None
    BY <1>3, LogInNone DEF HasLog
  <2> HIDE DEF w
  <2> QED BY <1>2, <1>3, <2>1 DEF FoundAt, Good
<1>4. CASE HasLog(lb)
  <2>1. PICK s \in Slot : logs[s].lb = lb
    BY <1>4 DEF HasLog
  <2>2. logs[s].lb # None
    BY <2>1, Numbers
  <2>3. LogOf(lb) = logs[s] /\ w = Written0(logs[s].blk) /\ logs[s].blk \in Blk
    BY <1>1, <2>1, <2>2, OneLog, LogInIs
  <2>4. q = Rebuilt(logs[s].blk)[p]
    BY <1>4, <2>3
  <2> HIDE DEF w
  <2>5. CASE flash[logs[s].blk][0].info = None
    <3>1. w = None
      BY <2>3, <2>5 DEF Written0
    <3>2. flash[logs[s].blk] = ErasedBlk
      BY <2>3, <2>5 DEF IInv, FlashInv, Zeroed
    <3>3. q = None
      BY <2>4, <3>2, ErasedShape DEF EmptyMap
    <3> QED BY <1>2, <3>1, <3>3 DEF FoundAt, Good
  <2>6. CASE flash[logs[s].blk][0].info # None
    <3>1. w = logs[s].blk /\ w # None
      BY <2>3, <2>6, Numbers DEF Written0
    <3> QED BY <1>2, <2>3, <2>4, <3>1 DEF FoundAt, Good
  <2> QED BY <2>5, <2>6
<1> QED BY <1>3, <1>4
-----------------------------------------------------------------------------
\* LastUsedPage of every log block is what it is called (LastUsedFound).
THEOREM LastUsedKnown ==
  ASSUME Align, StackBlk = {None}, BlkCnt > LogicCnt + SlotCnt
  PROVE  Spec /\ []NoEmptyBank => []LastUsedFound
<1>1. IInv /\ DInv => LastUsedFound
  <2> SUFFICES ASSUME IInv, DInv, Mounted, ~Merging, op.step # "place", NEW s \in InUse
               PROVE  /\ logs[s].last > 0 => IsUsed(flash[logs[s].blk][logs[s].last])
                      /\ \A p \in Page : p > logs[s].last => ~IsUsed(flash[logs[s].blk][p])
    BY DEF LastUsedFound
  <2>1. LastOk(logs, s)
    BY LogKnown DEF InUse, Placed
  <2>2. CASE logs[s].last = None
    <3>1. ~(None > 0)
      BY DEF None
    <3>2. \A p \in Page : ~IsUsed(flash[logs[s].blk][p])
      BY <2>1, <2>2, ErasedShape DEF LastOk
    <3> QED BY <2>2, <3>1, <3>2
  <2>3. CASE logs[s].last # None
    BY <2>1, <2>3 DEF LastOk, HasLast
  <2> QED BY <2>2, <2>3
<1> QED BY <1>1, InvHolds, DataHolds, PTL
\* No page is programmed twice between two erases (NoOverprogram).
THEOREM PagesProgrammedOnce ==
  ASSUME Align, StackBlk = {None}, BlkCnt > LogicCnt + SlotCnt
  PROVE  Spec /\ []NoEmptyBank => NoOverprogram
<1>1. IInv /\ IInv' /\ JInv /\ DInv /\ NoEmptyBank /\ [Next]_allVars => Fresh
  BY NextData
<1>2. Spec /\ []NoEmptyBank => [][Fresh]_allVars
  BY <1>1, InvHolds, CallsHold, DataHolds, PTL DEF Spec
<1> QED BY <1>2 DEF NoOverprogram, Fresh
\* A page map table in memory is what a rebuild would give (MapsTrue).
THEOREM TablesTrue ==
  ASSUME Align, StackBlk = {None}, BlkCnt > LogicCnt + SlotCnt
  PROVE  Spec /\ []NoEmptyBank => []MapsTrue
<1>1. IInv /\ DInv => MapsTrue
  BY DEF IInv, PoolOk, DInv, DMounted, MapsOk, MapTrue, MapsTrue
<1> QED BY <1>1, InvHolds, DataHolds, PTL
\* The tables lead every logical page to the data last written to it
\* (LatestFound), whatever calls, merges, exits, losses of power and mounts come.
THEOREM DataFound ==
  ASSUME Align, StackBlk = {None}, BlkCnt > LogicCnt + SlotCnt
  PROVE  Spec /\ []NoEmptyBank => []LatestFound
<1>1. IInv /\ DInv => LatestFound
  <2> SUFFICES ASSUME IInv, DInv, op = Idle, NEW lb \in LogicBlk, NEW p \in Page
               PROVE  Find(lb, p).main = Latest
    BY DEF LatestFound
  <2>1. Mounted /\ ~Merging /\ ~Placed
    BY DEF Idle, Op, Mounted, Placed, IInv, OpOk, WaitOk, Quiet
  <2> DEFINE q == IF HasLog(lb) THEN MapOf(SlotOf(lb))[p] ELSE None
  <2>2. IF HasLog(lb) THEN q = Rebuilt(LogOf(lb).blk)[p] ELSE q = None
    <3>1. CASE HasLog(lb)
      <4>1. PICK s \in Slot : logs[s].lb = lb /\ lb # None
        BY <3>1, Numbers DEF HasLog
      <4>2. MapOf(s) = Rebuilt(logs[s].blk) /\ LogOf(lb) = logs[s] /\ SlotOf(lb) = s
        BY <2>1, <4>1, LogKnown
      <4> QED BY <3>1, <4>2
    <3>2. CASE ~HasLog(lb)
      BY <3>2
    <3> QED BY <3>1, <3>2
  <2>3. Find(lb, p) = IF q = None THEN flash[data[lb]][p] ELSE flash[LogOf(lb).blk][q]
    BY DEF Find
  <2> HIDE DEF q
  <2>4. IF q = None THEN flash[data[lb]][p].main = Latest
        ELSE flash[LogOf(lb).blk][q].main = Latest
    BY <2>1, <2>2, TablesLead
  <2> QED BY <2>3, <2>4
<1> QED BY <1>1, InvHolds, DataHolds, PTL
\* A read gets the data last written to the page (ReadsLatest).
THEOREM ReadsFind ==
  ASSUME Align, StackBlk = {None}, BlkCnt > LogicCnt + SlotCnt
  PROVE  Spec /\ []NoEmptyBank => []ReadsLatest
<1>1. IInv /\ JInv /\ DInv => ReadsLatest
  <2> SUFFICES ASSUME IInv, JInv, DInv, op.kind = "read", Ready("read", op.step), NEW p \in Page
               PROVE  PageRead(p).main = Latest
    BY DEF ReadsLatest
  <2>1. /\ Mounted /\ ~Merging /\ post = NoPost /\ op.step # "failed" /\ ~Placed
        /\ ctl.lb = op.lb /\ op.lb \in LogicBlk
    <3>1. op.lb \in LogicBlk /\ op.step # "place"
      <4>1. op # Off /\ op # Idle /\ op \notin WriteType
        BY DEF Off, Idle, Op, WriteType
      <4> QED BY <4>1 DEF IInv, OpOk, OpType
    <3> QED BY <3>1 DEF Ready, Mounted, Placed, JInv, NoFailure, ReadAt
  <2>2. ctl = Accessed(op.lb)
    BY <2>1, Numbers DEF JInv, CtlFresh
  <2>3. PICK lb \in LogicBlk : lb = op.lb /\ lb # None
    BY <2>1, Numbers
  <2>4. ctl.data = data[lb] /\ ctl.log = LogOf(lb).blk
    BY <2>2, <2>3 DEF Accessed
  <2>5. PICK q : q = LogPageRead(p)
    OBVIOUS
  <2>6. IF HasLog(lb) THEN q = Rebuilt(LogOf(lb).blk)[p] ELSE q = None
    <3>1. CASE HasLog(lb)
      <4>1. PICK s \in Slot : logs[s].lb = lb
        BY <3>1 DEF HasLog
      <4>2. SlotOf(lb) = s /\ LogOf(lb) = logs[s] /\ logs[s].blk \in Blk /\ Roles(data, logs, free)
        BY <2>1, <2>3, <4>1, LogKnown DEF IInv, MountedOk
      <4>3. EntrySlot # None /\ logs[EntrySlot].lb = lb
        BY <2>1, <2>3, <3>1 DEF DInv, DMounted, ReadOk, Quiet
      <4>4. cur \in Cached /\ pool[cur].slot = EntrySlot /\ EntrySlot \in Slot
        BY <4>3 DEF EntrySlot, IInv, PoolOk, InUse
      <4>5. EntrySlot = s
        BY <2>3, <4>1, <4>2, <4>3, <4>4, OneLog
      <4>6. MapTrue(cur)
        BY <2>1, <4>3, <4>4 DEF DInv, DMounted, MapsOk
      <4>7. map = Rebuilt(logs[s].blk)
        BY <4>4, <4>5, <4>6 DEF MapTrue, map
      <4>8. ctl.log # None
        BY <2>4, <4>2, Numbers
      <4> QED BY <2>1, <2>3, <2>5, <3>1, <4>2, <4>7, <4>8 DEF LogPageRead
    <3>2. CASE ~HasLog(lb)
      BY <2>3, <2>5, <3>2 DEF LogPageRead
    <3> QED BY <3>1, <3>2
  <2>7. IF q = None THEN flash[data[lb]][p].main = Latest
        ELSE flash[LogOf(lb).blk][q].main = Latest
    BY <2>1, <2>6, TablesLead
  <2> QED BY <2>4, <2>5, <2>7 DEF PageRead
<1> QED BY <1>1, InvHolds, CallsHold, DataHolds, PTL
-----------------------------------------------------------------------------
(***************************************************************************)
(* Flash with one bank, where page 0 of a block that is used has data, and *)
(* a move merge always finds pages: nothing is left to assume of runs.     *)
(***************************************************************************)
Page0Data == \A b \in Blk : flash[b][0].info # None => flash[b][0].lpn # None
OneInv == IInv /\ JInv /\ DInv /\ Page0Data
OneBank == Align /\ Banks = 1 /\ StackBlk = {None} /\ BlkCnt > LogicCnt + SlotCnt
\* There is one bank.
LEMMA BankZero == ASSUME OneBank PROVE \A p \in Page : BankOf(p) = 0
BY Numbers DEF OneBank, BankOf
\* The log block of a move has pages.
LEMMA MoveHasPages ==
  ASSUME OneBank, OneInv, merge.kind = "move"
  PROVE  Mapped(map) # {} /\ flash[logs[EntrySlot].blk][0].lpn # None
<1>1. PICK e, lb, l, d, x, n : /\ e = EntrySlot /\ lb = merge.lb /\ l = logs[e].blk /\ d = data[lb]
                               /\ x = merge.dst /\ n = merge.next
  OBVIOUS
<1>2. Moving(e, lb, l, d, x, n)
  BY <1>1, WhileMoving DEF OneInv
<1>3. l \in Blk /\ flash[l][0].info = lb /\ lb # None /\ MoveData(l, x, lb) /\ Shape(l)
  BY <1>2 DEF Moving, Copying
<1>4. flash[l][0].lpn # None
  BY <1>3 DEF OneInv, Page0Data
<1>5. PICK p : p = flash[l][0].lpn
  OBVIOUS
<1>6. p \in Page
  <2>1. flash[l][0] \in RecordType
    BY <1>3, Numbers, CopiedRecord DEF OneInv, IInv
  <2> QED BY <1>4, <1>5, <2>1 DEF RecordType
<1>7. Rebuilt(l)[p] # None
  BY <1>5, <1>6, RebuiltIs, Numbers
<1>8. p \in Mapped(map)
  BY <1>3, <1>6, <1>7 DEF MoveData, Mapped
<1> QED BY <1>1, <1>4, <1>8
\* So a move never ends with an empty bank.
LEMMA BankNotEmpty == ASSUME OneBank, OneInv PROVE NoEmptyBank
<1> SUFFICES ASSUME merge.kind = "move", NEW k \in BankSet
             PROVE  \E p \in Mapped(map) : BankOf(p) = k
  BY DEF NoEmptyBank
<1>1. PICK p : p \in Mapped(map)
  BY MoveHasPages
<1>2. p \in Page /\ k = 0
  BY <1>1, BankZero DEF Mapped, BankSet
<1> QED BY <1>1, <1>2, BankZero
\* A step that leaves page 0 of a block as it is, erases it or writes data there.
Page0Step ==
  \A b \in Blk : \/ flash'[b] = ErasedBlk
                 \/ flash'[b][0].info = flash[b][0].info /\ flash'[b][0].lpn = flash[b][0].lpn
                 \/ flash'[b][0].lpn # None
LEMMA Page0Stays == ASSUME Page0Data, Page0Step PROVE Page0Data'
BY Numbers DEF Page0Data, Page0Step, ErasedBlk, Erased, PageRecord
\* A page is programmed that is not page 0, or gets data.
LEMMA Page0Program ==
  ASSUME FlashInv, NEW b \in Blk, NEW r \in Page, NEW rec, Program(b, r, rec),
         r = 0 => rec.lpn # None
  PROVE  Page0Step
<1>1. flash \in [Blk -> [Page -> RecordType]]
  BY DEF FlashInv, FlashType, RecordType
<1>2. /\ flash'[b][r] = rec
      /\ \A c \in Blk, q \in Page : c # b \/ q # r => flash'[c][q] = flash[c][q]
  BY <1>1 DEF Program
<1> QED BY <1>2, Numbers DEF Page0Step
\* One block is erased.
LEMMA Page0Erase ==
  ASSUME FlashInv, NEW b, Erase(b) PROVE Page0Step
<1>1. flash \in [Blk -> [Page -> RecordType]]
  BY DEF FlashInv, FlashType, RecordType
<1>2. \A c \in Blk : flash'[c] = ErasedBlk \/ flash'[c] = flash[c]
  BY <1>1 DEF Erase
<1> QED BY <1>2 DEF Page0Step
\* Writes.
LEMMA Page0Write ==
  ASSUME OneBank, OneInv,
         WriteDataInfo \/ WriteLogInfo \/ \E lp \in Page : WritePage(lp)
  PROVE  Page0Step
<1>1. CASE WriteDataInfo
  <2>1. UNCHANGED flash
    BY <1>1, WriteDataInfoData DEF OneInv
  <2> QED BY <2>1 DEF Page0Step
<1>2. CASE WriteLogInfo
  <2>1. ~Merging /\ post = NoPost /\ op.kind = "write" /\ op.step = "page" /\ NeedsLogInfo
    BY <1>2 DEF WriteLogInfo, Ready
  <2>2. op \in WriteType
    BY <2>1, OpKinds DEF OneInv, IInv, OpOk
  <2>3. op.bank = 0
    BY <2>2, BankZero DEF WriteType, BankSet
  <2>4. LastUsed = None => LogPageForWrite = 0
    BY <2>3 DEF OneBank, LogPageForWrite, U16
  <2> QED BY <2>1, <2>4 DEF NeedsLogInfo
<1>3. ASSUME NEW lp \in Page, WritePage(lp) PROVE Page0Step
  <2>1. PICK c, r, st : ProgramData(c, r, st, op.lb, lp)
    BY <1>3 DEF WritePage
  <2>2. flash \in [Blk -> [Page -> RecordType]]
    BY DEF OneInv, IInv, FlashInv, FlashType, RecordType
  <2> SUFFICES ASSUME NEW b \in Blk
               PROVE  \/ flash'[b][0].info = flash[b][0].info /\ flash'[b][0].lpn = flash[b][0].lpn
                      \/ flash'[b][0].lpn # None
    BY DEF Page0Step
  <2>3. flash[b][0] \in RecordType
    BY <2>2, Numbers
  <2>4. flash'[b][0] = IF b = c /\ 0 = r THEN PageRecord(op.lb, lp, st, Latest)
                       ELSE IF flash[b][0].info = op.lb /\ flash[b][0].lpn = lp
                            THEN [flash[b][0] EXCEPT !.main = Stale] ELSE flash[b][0]
    BY <2>1, Numbers DEF ProgramData
  <2>5. PageRecord(op.lb, lp, st, Latest).lpn = lp /\ lp # None
    BY Numbers DEF PageRecord
  <2>6. /\ [flash[b][0] EXCEPT !.main = Stale].info = flash[b][0].info
        /\ [flash[b][0] EXCEPT !.main = Stale].lpn = flash[b][0].lpn
    BY <2>3 DEF RecordType
  <2> QED BY <2>4, <2>5, <2>6
<1> QED BY <1>1, <1>2, <1>3
\* A page map table goes behind a page that is used.
LEMMA Page0Table == ASSUME OneBank, OneInv, WriteTable PROVE Page0Step
<1>1. PICK e, l, r, rec : /\ e = EntrySlot /\ l = logs[e].blk /\ r = TablePage
                          /\ rec = PageRecord(None, None, TableMark, Table(map))
  OBVIOUS
<1>2. /\ Switching /\ post.step \in {"write", "merged"} /\ e # None /\ Program(l, r, rec)
      /\ r < PageCnt /\ op' = op
  BY <1>1 DEF WriteTable
<1>3. post # NoPost /\ ~Merging /\ Mounted
  <2>1. IInv
    BY DEF OneInv
  <2> QED BY <1>2, <2>1, SwitchCalm DEF IInv, PostOk, Merging
<1>4. e \in Slot /\ e \in InUse /\ logs[e].last # None
  BY <1>1, <1>2, <1>3 DEF OneInv, IInv, PostOk, PoolOk, InUse, EntrySlot
<1>5. e \in Used(logs) /\ logs[e].last \in Page /\ l \in Blk
  BY <1>1, <1>3, <1>4 DEF OneInv, IInv, MountedOk, Roles, Used, InUse
<1>6. r = logs[e].last + 1
  <2>1. logs[e].last + 1 \in 1 .. PageCnt /\ PageCnt < 65536
    BY <1>5, Numbers, PageNumberAssumption DEF Page
  <2> QED BY <1>1, <2>1, Numbers DEF TablePage, U16
<1>7. r \in Page /\ r # 0
  BY <1>2, <1>5, <1>6, Numbers DEF Page
<1> QED BY <1>2, <1>5, <1>7, Page0Program DEF OneInv, IInv
\* Merges copy data to page 0, if they write it.
LEMMA Page0Merge ==
  ASSUME OneBank, OneInv, IInv', DInv', MergeStep PROVE Page0Step
<1>1. FlashInv /\ Align
  BY DEF OneInv, IInv, OneBank
<1>2. CASE SwapEnd \/ SimpleEraseData \/ SimpleEnd \/ MoveEnd
  <2>1. \E b : Erase(b)
    BY <1>2 DEF SwapEnd, SimpleEraseData, SimpleEnd, MoveEnd
  <2> QED BY <1>1, <2>1, Page0Erase
<1>3. CASE SwapCopy
  <2>1. /\ Merging /\ merge.kind = "swap" /\ merge.next < PageCnt
        /\ Copy(data[merge.lb], merge.next, merge.dst, merge.next)
    BY <1>3 DEF SwapCopy, Merging, NoMerge
  <2>2. merge.next \in Nat /\ merge.next > 0 /\ merge.dst = logs[EntrySlot].blk /\ EntrySlot # None
    BY <2>1, Numbers DEF OneInv, IInv, MergeOk, MergeType
  <2>3. merge.next \in Page /\ merge.next # 0
    BY <2>1, <2>2, Numbers DEF Page
  <2>4. EntrySlot \in Used(logs) /\ Mounted
    BY <2>1, <2>2 DEF OneInv, IInv, MergeOk, PoolOk, EntrySlot, InUse, Used
  <2>5. merge.dst \in Blk
    BY <2>2, <2>4 DEF OneInv, IInv, MountedOk, Roles
  <2> QED BY <1>1, <2>1, <2>3, <2>5, Page0Program DEF Copy
<1>4. CASE SimpleCopy
  <2>1. PICK e, lb, l, d, x, n : /\ e = EntrySlot /\ lb = merge.lb /\ l = logs[e].blk /\ d = data[lb]
                                 /\ x = merge.dst /\ n = merge.next
    OBVIOUS
  <2>2. /\ Merging /\ Merging' /\ merge.kind = "simple" /\ n < PageCnt
        /\ merge' = [merge EXCEPT !.next = n + 1]
        /\ UNCHANGED <<data, logs, free, pool, cur, ctl, saved, op, post>>
    BY <1>4, <2>1 DEF SimpleCopy, Merging, NoMerge, NextPage, tables, maps
  <2>3. Copying(e, lb, l, d, x, n)
    BY <2>1, <2>2, WhileCopying DEF OneInv
  <2>4. x \in Blk /\ n \in Page
    BY <2>2, <2>3, Numbers DEF Copying, Page
  <2>5. PICK rec : Program(x, n, rec)
    BY <1>4, <2>1 DEF SimpleCopy, Copy, CopyPage0
  <2>6. Mounted /\ Mounted' /\ MergeType
    BY <2>2 DEF OneInv, IInv, MergeOk, Mounted
  <2>7. merge' = [kind |-> "simple", lb |-> lb, dst |-> x, step |-> merge.step, next |-> n + 1]
    BY <2>1, <2>2, <2>6 DEF MergeType
  <2>8. Dense(x, lb, n + 1)'
    <3>1. MergeData'
      BY <2>6 DEF DInv, DMounted
    <3>2. Dense(merge.dst, merge.lb, merge.next)'
      BY <2>2, <2>7, <3>1 DEF MergeData
    <3> QED BY <2>7, <3>2 DEF Dense
  <2>9. flash'[x][n].lpn = n
    BY <2>4, <2>8, Numbers DEF Dense, Good
  <2>10. flash'[x][n] = rec
    <3>1. flash \in [Blk -> [Page -> RecordType]]
      BY <1>1 DEF FlashInv, FlashType, RecordType
    <3> QED BY <2>4, <2>5, <3>1 DEF Program
  <2>11. rec.lpn # None
    BY <2>4, <2>9, <2>10, Numbers
  <2> QED BY <1>1, <2>4, <2>5, <2>11, Page0Program
<1>5. CASE MoveInfo
  <2>1. PICK e, lb, l, d, x, n : /\ e = EntrySlot /\ lb = merge.lb /\ l = logs[e].blk /\ d = data[lb]
                                 /\ x = merge.dst /\ n = merge.next
    OBVIOUS
  <2>2. merge.kind = "move" /\ 0 \notin Targets
    BY <1>5 DEF MoveInfo, NeedsPage0
  <2>3. Moving(e, lb, l, d, x, n)
    BY <2>1, <2>2, WhileMoving DEF OneInv
  <2>4. l \in Blk /\ Shape(l) /\ MoveData(l, x, lb) /\ map \in Map
    BY <2>3 DEF Moving, Copying
  <2>5. flash[l][0].lpn = None
    BY <1>1, <2>2, <2>4, NoDataInPage0 DEF OneInv
  <2> QED BY <2>1, <2>2, <2>5, MoveHasPages
<1>6. ASSUME NEW p \in Page, MoveCopy(p) PROVE Page0Step
  <2>1. PICK e, lb, l, d, x, n : /\ e = EntrySlot /\ lb = merge.lb /\ l = logs[e].blk /\ d = data[lb]
                                 /\ x = merge.dst /\ n = merge.next
    OBVIOUS
  <2>2. PICK t, q : t = Target(p) /\ q = map[p]
    OBVIOUS
  <2>3. /\ merge.kind = "move" /\ MoveOrder(p)
        /\ IF t = 0 THEN CopyPage0(LogOf(lb).blk, q, x, 0) ELSE Copy(LogOf(lb).blk, q, x, t)
    BY <1>6, <2>1, <2>2 DEF MoveCopy
  <2>4. Moving(e, lb, l, d, x, n)
    BY <2>1, <2>3, WhileMoving DEF OneInv
  <2>5. /\ l \in Blk /\ x \in Blk /\ LogOf(lb).blk = l /\ MoveData(l, x, lb) /\ map \in Map
        /\ \A u \in Mapped(map) : Rebuilt(l)[u] \in Page /\ Good(flash[l][Rebuilt(l)[u]], lb, u)
    BY <2>4 DEF Moving, Copying
  <2>6. p \in Mapped(map) /\ ~Done(p)
    <3>1. n \in Nat /\ Place(p) = n
      BY <2>1, <2>3, <2>4 DEF MoveOrder, Place, Moving, Copying
    <3> QED BY <2>1, <2>3, <3>1 DEF MoveOrder, Done
  <2>7. q = Rebuilt(l)[p] /\ q \in Page /\ flash[l][q].lpn = p
    BY <2>2, <2>5, <2>6 DEF MoveData, Good
  <2>8. t \in Page
    BY <1>1, <2>2, <2>5, <2>6, TargetIs
  <2>9. flash[l][q] \in RecordType
    BY <2>5, <2>7, CopiedRecord DEF OneInv, IInv
  <2>10. PICK rec : Program(x, t, rec) /\ rec.lpn = p
    <3>1. CASE t = 0
      <4>1. PICK c : c = [flash[l][q] EXCEPT !.info = flash[l][0].info,
                                             !.status = Older(AgeOf(l), 0)]
        OBVIOUS
      <4>2. Program(x, t, c)
        BY <2>3, <2>5, <3>1, <4>1 DEF CopyPage0
      <4>3. c.lpn = flash[l][q].lpn
        BY <2>9, <4>1 DEF RecordType
      <4> QED BY <2>7, <4>2, <4>3
    <3>2. CASE t # 0
      <4>1. Program(x, t, flash[l][q])
        BY <2>3, <2>5, <3>2 DEF Copy
      <4> QED BY <2>7, <4>1
    <3> QED BY <3>1, <3>2
  <2> QED BY <1>1, <2>5, <2>8, <2>10, Numbers, Page0Program
<1> QED BY <1>2, <1>3, <1>4, <1>5, <1>6 DEF MergeStep
\* Every step.
LEMMA Page0Next ==
  ASSUME OneBank, OneInv, IInv', DInv', [Next]_allVars
  PROVE  Page0Step
<1>1. ASSUME flash' = flash PROVE Page0Step
  BY <1>1 DEF Page0Step
<1>2. FlashInv /\ StackBlk = {None}
  BY DEF OneInv, IInv, OneBank
<1>3. CASE UNCHANGED allVars \/ Call \/ EndRead \/ PowerLoss \/ LoadTables \/ StartScan \/ EndScan
  <2>1. flash' = flash
    BY <1>3 DEF allVars, vars, Call, StartRead, StartWrite, StartExit, EndRead, PowerLoss, LoadTables,
                StartScan, EndScan
  <2> QED BY <1>1, <2>1
<1>4. CASE WriteStep
  <2>1. CASE WriteDataInfo \/ WriteLogInfo \/ \E lp \in Page : WritePage(lp)
    BY <2>1, Page0Write
  <2>2. CASE ~(WriteDataInfo \/ WriteLogInfo \/ \E lp \in Page : WritePage(lp))
    <3>1. flash' = flash
      BY <1>4, <2>2 DEF WriteStep, UseLog, PickVictim, MergeVictim, CreateLog, MergeFullLog, FailWrite,
                        Fail, EndFailedWrite
    <3> QED BY <1>1, <3>1
  <2> QED BY <2>1, <2>2
<1>5. CASE ExitStep
  <2>1. flash' = flash
    BY <1>5 DEF ExitStep, FlushEntry, SaveTables, EndFailedExit
  <2> QED BY <1>1, <2>1
<1>6. CASE SwitchStep
  <2>1. CASE ~WriteTable
    <3>1. flash' = flash
      BY <1>6, <2>1 DEF SwitchStep, CacheHit, PickEntry, MergeForTable, NoMergeForTable, Fail,
                        TableMerged, ReadTable, EntryWritten
    <3> QED BY <1>1, <3>1
  <2> QED BY <2>1, Page0Table
<1>7. CASE \E b \in Blk : ScanBlock(b)
  <2>1. flash' = flash \/ \E b : Erase(b)
    BY <1>7 DEF ScanBlock
  <2> QED BY <1>1, <1>2, <2>1, Page0Erase
<1>8. CASE \E b \in StackBlk : EraseMore(b)
  <2>1. flash' = flash
    BY <1>2, <1>8 DEF EraseMore
  <2> QED BY <1>1, <2>1
<1> QED BY <1>3, <1>4, <1>5, <1>6, <1>7, <1>8, Page0Merge DEF Next, Work, ScanStep
\* All invariants together.
LEMMA OneBankHolds == ASSUME OneBank PROVE Spec => []OneInv
<1>1. Init => OneInv
  <2>1. Init => JInv
    BY DEF Init, JInv, NoFailure, AgainOk, MoveFew, NoMerge, CtlFresh, ReadAt, Off, Op
  <2>2. Init => Page0Data
    BY Numbers DEF Init, DenseBlk, DensePage, PageRecord, ErasedBlk, Erased, Page0Data
  <2> QED BY <2>1, <2>2, InitHolds, InitData DEF OneInv
<1>2. OneInv /\ [Next]_allVars => OneInv'
  <2> SUFFICES ASSUME OneInv, [Next]_allVars PROVE OneInv'
    OBVIOUS
  <2>1. IInv /\ JInv /\ DInv /\ Page0Data /\ NoEmptyBank
    BY BankNotEmpty DEF OneInv
  <2>2. Align /\ StackBlk = {None} /\ BlkCnt > LogicCnt + SlotCnt
    BY DEF OneBank
  <2>3. IInv'
    BY <2>1, <2>2, NextKeeps
  <2>4. JInv'
    BY <2>1, <2>2, <2>3, CallsGoWell
  <2>5. DInv'
    BY <2>1, <2>2, <2>3, NextData
  <2>6. Page0Data'
    BY <2>1, <2>3, <2>5, Page0Next, Page0Stays
  <2> QED BY <2>3, <2>4, <2>5, <2>6 DEF OneInv
<1> QED BY <1>1, <1>2, PTL DEF Spec
\* On flash with one bank every move merge finds pages, so that what the other
\* theorems assume of a run (NoEmptyBank) is itself one of its properties.
THEOREM OneBankNeverEmpty == ASSUME OneBank PROVE Spec => []NoEmptyBank
<1>1. OneInv => NoEmptyBank
  BY BankNotEmpty
<1> QED BY <1>1, OneBankHolds, PTL
\* On such flash all of it holds of every run: no call fails, the tables lead
\* to the data last written, reads get it, and no page is programmed twice.
THEOREM OneBankDataFound ==
  ASSUME OneBank
  PROVE  Spec => /\ []OneRole /\ []CleanTablesCurrent /\ []CallsSucceed /\ []ControlFresh
                 /\ []LastUsedFound /\ []MapsTrue /\ []LatestFound /\ []ReadsLatest
                 /\ NoOverprogram
<1>1. Align /\ StackBlk = {None} /\ BlkCnt > LogicCnt + SlotCnt
  BY DEF OneBank
<1>2. Spec /\ []NoEmptyBank => /\ []OneRole /\ []CleanTablesCurrent /\ []CallsSucceed
                               /\ []ControlFresh
  BY <1>1, RolesKept, CleanTablesKept, CallsNeverFail, ControlKept, PTL
<1>3. Spec /\ []NoEmptyBank => /\ []LastUsedFound /\ []MapsTrue /\ []LatestFound /\ []ReadsLatest
                               /\ NoOverprogram
  BY <1>1, LastUsedKnown, TablesTrue, DataFound, ReadsFind, PagesProgrammedOnce, PTL
<1> QED BY <1>2, <1>3, OneBankNeverEmpty, PTL
=============================================================================
