--------------------------- MODULE PartImageProofs ---------------------------
(***************************************************************************)
(* However an image is cut into pieces, the flash gets exactly the image:  *)
(* the decoder always knows which byte of the image lies where it reads    *)
(* and where on the flash it belongs.                                      *)
(***************************************************************************)
EXTENDS PartImage, TLAPS

Types ==
  /\ format \in {"unknown", "detect", "bad"} /\ env \in {"no", "ram", "stored"}
  /\ state \in {"none", "total_head", "chunk_head", "chunk_data"}
  /\ next \in Int /\ left \in Int /\ start \in Int /\ count \in Int /\ at \in Int
  /\ rest \in Nat /\ kept \in 0 .. Keep
  /\ busy \in BOOLEAN /\ failed \in BOOLEAN
  /\ img \in Image /\ base \in Nat /\ hi \in Nat

\* The calls of the decoder, of which one may have failed.
Calls ==
  /\ busy => format = "detect"
  /\ ~busy => rest = 0
  /\ format = "unknown" /\ next >= 0 => hi = 0 /\ next = base /\ ~failed
  /\ format = "detect" => Lay.sparse
  /\ format = "bad" => ~Lay.sparse
  /\ env = "ram" => Lay.total % Sector = 0
  /\ format = "detect" /\ state = "total_head" =>
       IF busy THEN rest >= HeadLen ELSE hi = 0

\* Where the decoder is, in the image and on the flash.
AtChunkHead ==
  /\ count \in 0 .. Lay.n
  /\ at = Lay.head[count + 1] /\ start = base + Lay.dest[count + 1]
  /\ kept < ChunkLen
AtChunkData ==
  /\ count \in 1 .. Lay.n /\ Lay.type[count] = "raw"
  /\ left \in 0 .. Lay.len[count]
  /\ at + left = Lay.head[count + 1] /\ start + left = base + Lay.dest[count + 1]
  /\ kept > 0 => left > kept
Place ==
  format = "detect" /\ ~failed =>
    /\ state # "none" /\ hi <= Lay.total
    /\ rest > 0 => kept = 0
    /\ state = "total_head" => /\ kept = 0 /\ start = base /\ count = 0
                               /\ busy => at = 0 /\ rest = hi
    /\ state # "total_head" => at + rest + kept = hi
    /\ state = "chunk_head" => AtChunkHead
    /\ state = "chunk_data" => AtChunkData
Stream == format = "detect" /\ ~failed => HoldsUpTo(img, base, start - base)

\* A plain image is written in whole sectors, up to the last piece.
Plain ==
  format = "bad" /\ ~failed =>
    /\ hi <= Lay.total
    /\ hi < Lay.total \/ env = "ram" => hi % Sector = 0
    /\ env = "no" /\ hi < Lay.total => next = base + hi
    /\ env # "ram" => HoldsUpTo(img, base, hi)

IInv == Types /\ Calls /\ Place /\ Stream /\ Plain
----------------------------------------------------------------------------
(* Whole sectors.                                                          *)

\* A multiple of the divisor leaves the remainder that is added to it.
LEMMA Remainder ==
  ASSUME NEW m \in Nat \ {0}, NEW q \in Int, NEW r \in 0 .. m - 1
  PROVE  (m * q + r) % m = r
<1> DEFINE n == m * q + r
           p == n \div m
           s == n % m
<1>1. n \in Int /\ p \in Int /\ s \in 0 .. m - 1 /\ n = m * p + s
  OBVIOUS
<1>2. m * (q - p) = s - r
  BY <1>1
<1>3. CASE q - p >= 1
  <2>1. m * (q - p) >= m
    BY <1>1, <1>3
  <2> QED
    BY <2>1, <1>1, <1>2
<1>4. CASE q - p <= -1
  <2>1. m * (p - q) >= m
    BY <1>1, <1>4
  <2>2. m * (p - q) = r - s
    BY <1>1
  <2> QED
    BY <2>1, <2>2, <1>1
<1>5. CASE q = p
  BY <1>1, <1>5
<1> QED
  BY <1>1, <1>3, <1>4, <1>5

\* Whole sectors do not change where in its sector a byte is.
LEMMA WholeSectors ==
  ASSUME NEW a \in Nat, NEW b \in Nat, a % Sector = 0
  PROVE  (a + b) % Sector = b % Sector
<1> DEFINE p == a \div Sector
           q == b \div Sector
           r == b % Sector
<1>1. Sector \in Nat \ {0}
  BY SizeAssumption
<1>2. a = Sector * p /\ p \in Int
  BY <1>1
<1>3. b = Sector * q + r /\ q \in Int /\ r \in 0 .. Sector - 1
  BY <1>1
<1>4. a + b = Sector * (p + q) + r
  BY <1>1, <1>2, <1>3
<1>5. (Sector * (p + q) + r) % Sector = r
  <2>1. p + q \in Int
    BY <1>2, <1>3
  <2> HIDE DEF p, q, r
  <2> QED
    BY <1>1, <2>1, <1>3, Remainder
<1> QED
  BY <1>4, <1>5

LEMMA NoBytes == 0 % Sector = 0
<1>1. Sector \in Nat \ {0} /\ 0 \in 0 .. Sector - 1
  BY SizeAssumption
<1>2. (Sector * 0 + 0) % Sector = 0
  BY <1>1, Remainder
<1>3. Sector * 0 + 0 = 0
  BY <1>1
<1> QED
  BY <1>2, <1>3

\* Rounding to sectors stays within a sector.
LEMMA Rounding ==
  ASSUME NEW n \in Int
  PROVE  /\ Down(n) \in Int /\ Down(n) <= n /\ n - Down(n) < Sector
         /\ n >= 0 => Down(n) >= 0
         /\ Up(n) \in Int /\ Up(n) >= n /\ Down(n) <= Up(n)
         /\ n % Sector = 0 => Up(n) = n /\ Down(n) = n
<1>1. Sector \in Nat \ {0} /\ n % Sector \in 0 .. Sector - 1
  BY SizeAssumption
<1>2. n >= 0 => n % Sector <= n
  BY <1>1
<1> QED
  BY <1>1, <1>2 DEF Down, Up

\* The length of a chunk is less than 2^31: the multiplication is exact.
LEMMA Exact == ASSUME NEW n \in Nat, n < Half PROVE Int32(n) = n
<1>1. Half \in Nat \ {0} /\ 2 * Half \in Nat
  BY SizeAssumption
<1>2. n % (2 * Half) = n
  <2> DEFINE m == 2 * Half
  <2>1. m \in Nat \ {0} /\ n \in 0 .. m - 1
    BY <1>1
  <2>2. (m * 0 + n) % m = n
    BY <2>1, Remainder
  <2>3. m * 0 + n = n
    BY <2>1
  <2> QED
    BY <2>2, <2>3
<1> QED
  BY <1>2 DEF Int32

----------------------------------------------------------------------------
(* The layout of a sparse image.                                           *)

\* The byte that belongs at k of the part of the flash that chunk c fills.
LEMMA SourceOf ==
  ASSUME NEW i \in Image, Layout[i].sparse, NEW c \in 1 .. Layout[i].n, NEW k \in Int,
         k >= Layout[i].dest[c], k < Layout[i].dest[c + 1]
  PROVE  Source(i, k) = IF Layout[i].type[c] = "raw"
                        THEN {Layout[i].head[c] + ChunkLen + (k - Layout[i].dest[c])}
                        ELSE {}
<1> DEFINE lay == Layout[i]
<1>1. WellFormed(lay)
  BY LayoutAssumption
<1>2. lay.n \in Nat /\ lay.dest \in [1 .. lay.n + 1 -> Nat]
  BY <1>1 DEF WellFormed
<1>3. ASSUME NEW d \in 1 .. lay.n, k \in lay.dest[d] .. lay.dest[d + 1] - 1
      PROVE  d = c
  <2>1. \A a \in 1 .. lay.n : \A j \in a + 1 .. lay.n + 1 : lay.dest[a + 1] <= lay.dest[j]
    BY <1>1 DEF WellFormed
  <2>2. d < c => lay.dest[d + 1] <= lay.dest[c]
    BY <2>1, <1>2
  <2>3. c < d => lay.dest[c + 1] <= lay.dest[d]
    BY <2>1, <1>2
  <2>4. lay.dest[d] \in Nat /\ lay.dest[d + 1] \in Nat /\ lay.dest[c] \in Nat
        /\ lay.dest[c + 1] \in Nat
    <3>1. c \in 1 .. lay.n + 1 /\ c + 1 \in 1 .. lay.n + 1
          /\ d \in 1 .. lay.n + 1 /\ d + 1 \in 1 .. lay.n + 1
      BY <1>2
    <3> HIDE DEF lay
    <3> QED
      BY <3>1, <1>2
  <2> QED
    BY <2>2, <2>3, <2>4, <1>3
<1>4. k \in lay.dest[c] .. lay.dest[c + 1] - 1
  BY <1>2
<1> HIDE DEF lay
<1>5. {d \in 1 .. lay.n : lay.type[d] = "raw" /\ k \in lay.dest[d] .. lay.dest[d + 1] - 1}
        = IF lay.type[c] = "raw" THEN {c} ELSE {}
  BY <1>3, <1>4 DEF lay
<1> QED
  BY <1>5 DEF Source, lay

\* Headers and data follow one another.
LEMMA LayoutOrder ==
  ASSUME NEW i \in Image, Layout[i].sparse
  PROVE  LET lay == Layout[i] IN
         /\ lay.n \in Nat /\ lay.total \in Nat /\ lay.total = lay.head[lay.n + 1]
         /\ lay.head[1] = HeadLen /\ lay.dest[1] = 0
         /\ \A c \in 0 .. lay.n :
              /\ lay.head[c + 1] \in Nat /\ lay.dest[c + 1] \in Nat
              /\ lay.dest[c + 1] <= lay.dest[lay.n + 1]
              /\ lay.head[c + 1] <= lay.total
              /\ c < lay.n => lay.head[c + 1] + ChunkLen <= lay.total
         /\ \A c \in 1 .. lay.n :
              /\ lay.len[c] \in Nat /\ lay.len[c] % Sector = 0 /\ lay.len[c] < Half
              /\ lay.type[c] \in Type
              /\ lay.dest[c + 1] = lay.dest[c] + lay.len[c]
              /\ lay.type[c] = "raw" =>
                   lay.head[c + 1] = lay.head[c] + ChunkLen + lay.len[c]
              /\ lay.type[c] = "dont_care" => lay.head[c + 1] = lay.head[c] + ChunkLen
         /\ \A c, d \in 1 .. lay.n + 1 : lay.head[c] = lay.head[d] => c = d
<1> DEFINE lay == Layout[i]
<1>1. WellFormed(lay)
  BY LayoutAssumption
<1> HIDE DEF lay
<1>2. lay.n \in Nat /\ lay.head \in [1 .. lay.n + 1 -> Nat]
      /\ lay.dest \in [1 .. lay.n + 1 -> Nat]
      /\ lay.len \in [1 .. lay.n -> Nat] /\ lay.type \in [1 .. lay.n -> Type]
  BY <1>1 DEF WellFormed
<1>3. \A a \in 1 .. lay.n : \A j \in a + 1 .. lay.n + 1 :
        lay.dest[a + 1] <= lay.dest[j] /\ lay.head[a] + ChunkLen <= lay.head[j]
  BY <1>1 DEF WellFormed
<1>4. lay.total = lay.head[lay.n + 1] /\ lay.total \in Nat
      /\ lay.head[1] = HeadLen /\ lay.dest[1] = 0
  BY <1>1 DEF WellFormed, lay
<1>5. ASSUME NEW c \in 0 .. lay.n
      PROVE  /\ lay.head[c + 1] \in Nat /\ lay.dest[c + 1] \in Nat
             /\ lay.dest[c + 1] <= lay.dest[lay.n + 1]
             /\ lay.head[c + 1] <= lay.total
             /\ c < lay.n => lay.head[c + 1] + ChunkLen <= lay.total
  <2>1. ChunkLen \in Nat
    BY SizeAssumption
  <2>2. c + 1 \in 1 .. lay.n + 1 /\ lay.n + 1 \in 1 .. lay.n + 1
    BY <1>2
  <2>3. CASE c = lay.n
    BY <2>3, <2>2, <1>2, <1>4
  <2>4. CASE c < lay.n
    <3>1. c + 1 \in 1 .. lay.n /\ lay.n + 1 \in (c + 1) + 1 .. lay.n + 1
      BY <2>4, <1>2
    <3>2. lay.head[c + 1] + ChunkLen <= lay.head[lay.n + 1]
      BY <3>1, <1>3
    <3>3. lay.dest[(c + 1) + 1] <= lay.dest[lay.n + 1]
      BY <3>1, <1>3
    <3>4. lay.dest[(c + 1) + 1] = lay.dest[c + 1] + lay.len[c + 1] /\ lay.len[c + 1] \in Nat
      BY <3>1, <1>1, <1>2 DEF WellFormed
    <3>5. lay.head[c + 1] \in Nat /\ lay.dest[c + 1] \in Nat /\ lay.head[lay.n + 1] \in Nat
          /\ lay.dest[(c + 1) + 1] \in Nat /\ lay.dest[lay.n + 1] \in Nat
      <4>1. (c + 1) + 1 \in 1 .. lay.n + 1
        BY <3>1, <1>2
      <4> QED
        BY <4>1, <2>2, <1>2
    <3> QED
      BY <3>2, <3>3, <3>4, <3>5, <2>1, <1>4
  <2> QED
    BY <2>3, <2>4, <1>2
<1>6. ASSUME NEW c \in 1 .. lay.n
      PROVE  /\ lay.len[c] \in Nat /\ lay.len[c] % Sector = 0 /\ lay.len[c] < Half
             /\ lay.type[c] \in Type
             /\ lay.dest[c + 1] = lay.dest[c] + lay.len[c]
             /\ lay.type[c] = "raw" =>
                  lay.head[c + 1] = lay.head[c] + ChunkLen + lay.len[c]
             /\ lay.type[c] = "dont_care" => lay.head[c + 1] = lay.head[c] + ChunkLen
  BY <1>1, <1>2 DEF WellFormed
<1>7. ASSUME NEW c \in 1 .. lay.n + 1, NEW d \in 1 .. lay.n + 1, lay.head[c] = lay.head[d]
      PROVE  c = d
  <2>1. ASSUME NEW a \in 1 .. lay.n + 1, NEW b \in 1 .. lay.n + 1, a < b
        PROVE  lay.head[a] < lay.head[b]
    <3>1. a \in 1 .. lay.n /\ b \in a + 1 .. lay.n + 1
      BY <2>1, <1>2
    <3>2. lay.head[a] + ChunkLen <= lay.head[b] /\ lay.head[a] \in Nat /\ lay.head[b] \in Nat
      BY <3>1, <1>3, <1>2
    <3> QED
      BY <3>2, SizeAssumption
  <2>2. lay.head[c] \in Nat
    BY <1>2
  <2> QED
    BY <2>1, <2>2, <1>7
<1> QED
  BY <1>2, <1>4, <1>5, <1>6, <1>7 DEF lay

----------------------------------------------------------------------------
(* The steps.                                                              *)

\* What the decoder writes of a chunk that goes on, and what it keeps.
LEMMA PartSizes ==
  ASSUME Types, Turn("chunk_data"), left > rest, rest >= Keep
  PROVE  /\ PartSize \in Int /\ 0 <= PartSize /\ PartSize <= rest
         /\ rest - PartSize <= Keep /\ PartSize < left
<1>1. /\ Join \in Nat /\ Sector \in Nat /\ Keep \in Nat /\ Join <= Keep /\ Sector <= Keep
      /\ Join > 0
  BY SizeAssumption
<1>2. rest \in Nat /\ left \in Int
  BY DEF Types
<1>3. Down(rest) \in Int /\ Down(rest) >= 0 /\ Down(rest) <= rest /\ rest - Down(rest) < Sector
  BY <1>2, Rounding
<1>4. CASE left - rest < Join
  BY <1>1, <1>2, <1>4 DEF PartSize
<1>5. CASE left - rest >= Join
  <2>1. PartSize = Down(rest)
    BY <1>1, <1>2, <1>5 DEF PartSize
  <2> QED
    BY <2>1, <1>1, <1>2, <1>3
<1> QED
  BY <1>1, <1>2, <1>4, <1>5

\* A chunk_length is a number, right or wrong.
LEMMA IntLengths == Types => \A i \in 1 .. Lay.n : Int32(Lay.len[i]) \in Int
<1> SUFFICES ASSUME Types, NEW i \in 1 .. Lay.n PROVE Int32(Lay.len[i]) \in Int
  OBVIOUS
<1>1. Lay.len[i] \in Nat
  BY LayoutAssumption DEF Types, WellFormed, Lay
<1>2. Half \in Nat \ {0} /\ 2 * Half \in Nat \ {0}
  BY SizeAssumption
<1>3. Lay.len[i] % (2 * Half) \in Int
  BY <1>1, <1>2
<1> QED
  BY <1>2, <1>3 DEF Int32

\* The types of the variables and the shape of the calls are kept.
LEMMA FrameStep == Types /\ Calls /\ [Next]_vars => Types' /\ Calls'
<1> SUFFICES ASSUME Types, Calls, [Next]_vars PROVE Types' /\ Calls'
  OBVIOUS
<1> USE SizeAssumption DEF Types, Calls, Lay
<1>1. ASSUME NEW i \in Image, NEW s \in 0 .. Size, NEW e \in BOOLEAN, Open(i, s, e)
      PROVE  Types' /\ Calls'
  <2>0. ~failed' /\ failed' \in BOOLEAN
    BY <1>1 DEF Open
  <2>1. s \in Nat /\ format' = "unknown" /\ next' = s /\ base' = s /\ hi' = 0
    BY <1>1 DEF Open
  <2>2. env' = IF e THEN "ram" ELSE "no"
    BY <1>1 DEF Open
  <2>3. img' = i /\ (e => Layout[i].total % Sector = 0)
    BY <1>1 DEF Open
  <2>4. state' = state /\ left' = left /\ start' = start /\ count' = count /\ at' = at
        /\ rest' = rest /\ kept' = kept /\ busy' = busy /\ ~busy
    BY <1>1 DEF Open, decoder
  <2>5. Types'
    BY <2>0, <2>1, <2>2, <2>3, <2>4
  <2> QED
    BY <2>0, <2>1, <2>2, <2>3, <2>4, <2>5
<1>2. CASE Probe
  <2>1. CASE Lay.sparse
    BY <1>2, <2>1 DEF Probe
  <2>2. CASE ~Lay.sparse
    BY <1>2, <2>2 DEF Probe, decoder
  <2> QED
    BY <2>1, <2>2
<1>3. ASSUME NEW n \in 1 .. Lay.total, GivePiece(n)
      PROVE  Types' /\ Calls'
  <2>1. Piece(n) /\ n \in Nat
    <3>1. Lay.total \in Nat
      BY LayoutAssumption DEF WellFormed
    <3> QED
      BY <1>3, <3>1 DEF GivePiece
  <2>2. CASE WritePlain(n)
    <3>1. Up(n) \in Int
      BY <2>1, Rounding
    <3> QED
      BY <2>1, <2>2, <3>1 DEF WritePlain, decoder
  <2>3. CASE PlainFails(n)
    BY <2>1, <2>3 DEF PlainFails, decoder
  <2>4. CASE TakeEnv(n)
    BY <2>1, <2>4 DEF TakeEnv, decoder
  <2>5. CASE Enter(n)
    BY <2>1, <2>5 DEF Enter, Piece
  <2> QED
    BY <1>3, <2>2, <2>3, <2>4, <2>5 DEF GivePiece
<1>4. CASE EnvExit
  BY <1>4 DEF EnvExit, decoder
<1>5. CASE Close
  <2>1. ~busy' /\ busy' \in BOOLEAN /\ failed' \in BOOLEAN
    BY <1>5 DEF Close
  <2> QED
    BY <1>5, <2>1 DEF Close
<1>6. CASE Leave
  <2>1. ~busy' /\ busy' \in BOOLEAN /\ failed' \in BOOLEAN /\ (failed' <=> failed)
    BY <1>6 DEF Leave
  <2>2. busy /\ rest <= 0
    BY <1>6 DEF Leave
  <2> QED
    BY <1>6, <2>1, <2>2 DEF Leave
<1>7. CASE TotalHead
  BY <1>7 DEF TotalHead, Turn, Pass
<1>8. CASE ChunkHeadShort
  BY <1>8 DEF ChunkHeadShort, Turn, KeepRest
<1>9. ASSUME NEW i \in 1 .. Lay.n, ChunkHead(i)
      PROVE  Types' /\ Calls'
  <2>1. Int32(Lay.len[i]) \in Int
    BY IntLengths
  <2> QED
    BY <1>9, <2>1 DEF ChunkHead, Turn, Pass
<1>10. CASE ChunkHeadBad
  <2>1. left' \in Int
    BY <1>10, IntLengths DEF ChunkHeadBad
  <2>2. ~busy' /\ busy' \in BOOLEAN /\ failed' /\ failed' \in BOOLEAN
    BY <1>10 DEF ChunkHeadBad, Fail
  <2> QED
    BY <1>10, <2>1, <2>2 DEF ChunkHeadBad, Turn, Fail
<1>11. CASE DataWhole
  BY <1>11 DEF DataWhole, WriteData, Turn, Pass
<1>12. CASE DataKeep
  BY <1>12 DEF DataKeep, Turn, KeepRest
<1>13. CASE DataPart
  <2>1. /\ PartSize \in Int /\ 0 <= PartSize /\ PartSize <= rest
        /\ rest - PartSize <= Keep
    BY <1>13, PartSizes DEF DataPart
  <2> QED
    BY <1>13, <2>1 DEF DataPart, WriteData, Turn
<1>14. CASE DataFails
  BY <1>14 DEF DataFails, Fail, Turn
<1>15. CASE UNCHANGED vars
  BY <1>15 DEF vars
<1> QED
  BY <1>1, <1>2, <1>3, <1>4, <1>5, <1>6, <1>7, <1>8, <1>9, <1>10, <1>11, <1>12,
     <1>13, <1>14, <1>15 DEF Next, Decode

\* The decoder is at the chunk whose header it reads.
LEMMA RightChunk ==
  ASSUME Types, Calls, Place, format = "detect", ~failed, Turn("chunk_head"),
         rest >= ChunkLen, NEW i \in 1 .. Lay.n, Chunk(i)
  PROVE  i = count + 1 /\ kept = 0
<1>1. count + 1 \in 1 .. Lay.n + 1 /\ i \in 1 .. Lay.n + 1
  BY LayoutOrder DEF Place, AtChunkHead, Turn, Types, Calls, Lay
<1>2. Lay.head[i] = Lay.head[count + 1]
  BY DEF Place, AtChunkHead, Turn, Chunk
<1>3. img \in Image /\ Layout[img].sparse
  BY DEF Types, Calls, Lay
<1>4. i = count + 1
  BY <1>1, <1>2, <1>3, LayoutOrder DEF Lay
<1>5. kept = 0
  BY SizeAssumption DEF Place, Turn
<1> QED
  BY <1>4, <1>5

\* The decoder keeps knowing where it is.
LEMMA PlaceStep == Types /\ Calls /\ Place /\ [Next]_vars => Place'
<1> SUFFICES ASSUME Types, Calls, Place, [Next]_vars, format' = "detect", ~failed'
             PROVE  /\ state' # "none" /\ hi' <= Lay'.total
                    /\ rest' > 0 => kept' = 0
                    /\ state' = "total_head" =>
                         /\ kept' = 0 /\ start' = base' /\ count' = 0
                         /\ busy' => at' = 0 /\ rest' = hi'
                    /\ state' # "total_head" => at' + rest' + kept' = hi'
                    /\ state' = "chunk_head" => AtChunkHead'
                    /\ state' = "chunk_data" => AtChunkData'
  BY DEF Place
<1> DEFINE Goal == Place'
<1> USE SizeAssumption DEF Types, Calls
<1>1. ASSUME NEW i \in Image, NEW s \in 0 .. Size, NEW e \in BOOLEAN, Open(i, s, e)
      PROVE  FALSE
  BY <1>1 DEF Open
<1>2. CASE Probe
  <2>1. Lay.sparse /\ Lay' = Lay /\ Lay.total \in Nat
    BY <1>2, LayoutAssumption DEF Probe, Lay, WellFormed
  <2> QED
    BY <1>2, <2>1 DEF Probe
<1>3. CASE Close
  BY <1>3 DEF Close
<1>4. CASE EnvExit
  BY <1>4 DEF EnvExit
<1>5. ASSUME NEW n \in 1 .. Lay.total, GivePiece(n)
      PROVE  Goal
  <2>1. Enter(n) /\ Piece(n) /\ n \in Nat
    <3>1. Lay.total \in Nat
      BY LayoutAssumption DEF WellFormed, Lay
    <3> QED
      BY <1>5, <3>1 DEF GivePiece, WritePlain, PlainFails, TakeEnv
  <2>2. Lay' = Lay /\ Lay.sparse /\ ~failed
    BY <2>1 DEF Enter, Lay
  <2>3. CASE state = "total_head"
    BY <2>1, <2>2, <2>3 DEF Enter, Piece, Place
  <2>4. CASE state # "total_head"
    <3>1. at' = at /\ rest' = kept + n /\ hi' = hi + n /\ kept' = 0 /\ hi' <= Lay.total
      BY <2>1, <2>2, <2>4 DEF Enter, Piece, Place
    <3>2. at' + rest' + kept' = hi'
      BY <2>1, <2>2, <2>4, <3>1 DEF Place, Enter
    <3>3. state = "chunk_head" => AtChunkHead'
      BY <2>1, <2>2, <3>1 DEF Place, Enter, AtChunkHead
    <3>4. state = "chunk_data" => AtChunkData'
      BY <2>1, <2>2, <3>1 DEF Place, Enter, AtChunkData
    <3> QED
      BY <2>1, <2>2, <2>4, <3>1, <3>2, <3>3, <3>4 DEF Place, Enter
  <2> QED
    BY <2>3, <2>4
<1>6. ASSUME Decode
      PROVE  Goal
  <2>1. format = "detect" /\ ~failed /\ Lay' = Lay /\ Lay.sparse /\ img \in Image
        /\ base' = base /\ hi' = hi
    BY <1>6 DEF Decode, Leave, TotalHead, ChunkHeadShort, ChunkHead, ChunkHeadBad, Fail,
       DataWhole, DataKeep, DataPart, DataFails, Lay
  <2>2. CASE Leave
    BY <2>1, <2>2 DEF Leave, Place, AtChunkHead, AtChunkData
  <2>3. CASE TotalHead
    <3>1. AtChunkHead'
      BY <2>1, <2>3, LayoutOrder DEF TotalHead, Turn, Pass, Place, AtChunkHead, Lay
    <3> QED
      BY <2>1, <2>3, <3>1 DEF TotalHead, Turn, Pass, Place
  <2>4. CASE ChunkHeadShort
    BY <2>1, <2>4 DEF ChunkHeadShort, Turn, KeepRest, Place, AtChunkHead
  <2>5. ASSUME NEW i \in 1 .. Lay.n, ChunkHead(i)
        PROVE  Goal
    <3>1. i = count + 1 /\ kept = 0 /\ at = Lay.head[i] /\ start = base + Lay.dest[i]
      BY <2>1, <2>5, RightChunk DEF ChunkHead, Place, AtChunkHead, Turn
    <3>2. left' = Lay.len[i] /\ Lay.len[i] \in Nat
      BY <2>1, <2>5, LayoutOrder, Exact DEF ChunkHead, Lay
    <3>3. i \in 0 .. Lay.n /\ i + 1 \in 1 .. Lay.n + 1 /\ Lay.n \in Nat /\ i \in Nat
      BY <2>1, LayoutOrder DEF Lay
    <3>4. Lay.dest[i] \in Nat /\ Lay.head[i] \in Nat
      <4>1. i - 1 \in 0 .. Lay.n /\ (i - 1) + 1 = i
        BY <3>3
      <4> QED
        BY <4>1, <2>1, LayoutOrder DEF Lay
    <3>5. CASE Lay.type[i] = "raw"
      <4>1. Lay.head[i + 1] = Lay.head[i] + ChunkLen + Lay.len[i]
            /\ Lay.dest[i + 1] = Lay.dest[i] + Lay.len[i]
        BY <2>1, <3>5, LayoutOrder DEF Lay
      <4>2. AtChunkData'
        BY <2>1, <2>5, <3>1, <3>2, <3>3, <3>4, <3>5, <4>1 DEF ChunkHead, Pass, AtChunkData
      <4> QED
        BY <2>1, <2>5, <3>1, <3>5, <4>2 DEF ChunkHead, Turn, Pass, Place
    <3>6. CASE Lay.type[i] # "raw"
      <4>1. Lay.type[i] = "dont_care"
        BY <2>1, <2>5, <3>6, LayoutOrder DEF ChunkHead, Lay, Type
      <4>2. Lay.head[i + 1] = Lay.head[i] + ChunkLen
            /\ Lay.dest[i + 1] = Lay.dest[i] + Lay.len[i]
        BY <2>1, <4>1, LayoutOrder DEF Lay
      <4>3. AtChunkHead'
        BY <2>1, <2>5, <3>1, <3>2, <3>3, <3>4, <3>6, <4>2 DEF ChunkHead, Pass, AtChunkHead
      <4> QED
        BY <2>1, <2>5, <3>1, <3>6, <4>3 DEF ChunkHead, Turn, Pass, Place
    <3> QED
      BY <3>5, <3>6
  <2>6. CASE ChunkHeadBad
    BY <2>6 DEF ChunkHeadBad, Fail
  <2>7. CASE DataWhole
    <3>1. AtChunkHead'
      BY <2>1, <2>7 DEF DataWhole, WriteData, Turn, Pass, Place, AtChunkData, AtChunkHead
    <3> QED
      BY <2>1, <2>7, <3>1 DEF DataWhole, WriteData, Turn, Pass, Place, AtChunkData
  <2>8. CASE DataKeep
    BY <2>1, <2>8 DEF DataKeep, Turn, KeepRest, Place, AtChunkData
  <2>9. CASE DataPart
    <3>1. PartSize \in Int /\ 0 <= PartSize /\ PartSize <= rest /\ PartSize < left
      BY <2>9, PartSizes DEF DataPart
    <3> HIDE DEF PartSize
    <3>2. left' = left - PartSize /\ at' = at + PartSize /\ kept' = rest - PartSize
          /\ rest' = 0 /\ start' = start + PartSize /\ count' = count /\ state' = state
          /\ rest > 0 /\ rest < left /\ state = "chunk_data"
      BY <2>9 DEF DataPart, WriteData, Turn
    <3>3. AtChunkData /\ kept = 0 /\ at + rest + kept = hi /\ hi <= Lay.total
      BY <2>1, <3>2 DEF Place
    <3>4. Lay.len[count] \in Nat /\ left \in Nat
      BY <2>1, <3>3, LayoutOrder DEF AtChunkData, Lay
    <3>5. AtChunkData'
      BY <2>1, <3>1, <3>2, <3>3, <3>4 DEF AtChunkData
    <3> QED
      BY <2>1, <3>1, <3>2, <3>3, <3>5 DEF Place
  <2>10. CASE DataFails
    BY <2>10 DEF DataFails, Fail
  <2> QED
    BY <1>6, <2>2, <2>3, <2>4, <2>5, <2>6, <2>7, <2>8, <2>9, <2>10 DEF Decode
<1>7. CASE UNCHANGED vars
  BY <1>7 DEF vars, Place, AtChunkHead, AtChunkData, Lay
<1> QED
  BY <1>1, <1>2, <1>3, <1>4, <1>5, <1>6, <1>7 DEF Next, Place

----------------------------------------------------------------------------
(* What is on the flash.                                                   *)

\* A flash f holds the first k bytes of image i at s.
Holds(f, i, s, k) ==
  \A b \in 0 .. Size - 1 : b \in s .. s + k - 1 =>
    \A o \in Source(i, b - s) : f[b] = [of |-> i, at |-> o]
\* The flashes f and g differ only in m bytes from a.
SameBut(f, g, a, m) ==
  \A b \in 0 .. Size - 1 : b \notin a .. a + m - 1 => g[b] = f[b]
\* The m bytes from a have the data of chunk c.
HasData(f, i, c, s, a, m) ==
  \A b \in 0 .. Size - 1 : b \in a .. a + m - 1 =>
    f[b] = [of |-> i,
            at |-> Layout[i].head[c] + ChunkLen + ((b - s) - Layout[i].dest[c])]

\* m bytes of chunk c follow the first k bytes of the image.
LEMMA Appended ==
  ASSUME NEW i \in Image, Layout[i].sparse, NEW c \in 1 .. Layout[i].n,
         NEW s \in Nat, NEW k \in Int, NEW m \in Int, NEW old, NEW new,
         Layout[i].dest[c] <= k, m >= 0, k + m <= Layout[i].dest[c + 1],
         SameBut(old, new, s + k, m), Holds(old, i, s, k),
         Layout[i].type[c] = "raw" => HasData(new, i, c, s, s + k, m)
  PROVE  Holds(new, i, s, k + m)
<1> SUFFICES ASSUME NEW b \in 0 .. Size - 1, b \in s .. s + (k + m) - 1,
                    NEW o \in Source(i, b - s)
             PROVE  new[b] = [of |-> i, at |-> o]
  BY DEF Holds
<1>1. Size \in Nat /\ b \in Int
  BY SizeAssumption
<1>2. CASE b < s + k
  <2>1. b \in s .. s + k - 1 /\ b \notin s + k .. s + k + m - 1
    BY <1>1, <1>2
  <2> QED
    BY <2>1 DEF SameBut, Holds
<1>3. CASE b >= s + k
  <2>1. b \in s + k .. s + k + m - 1
    BY <1>1, <1>3
  <2>2. Layout[i].dest[c] \in Nat /\ Layout[i].dest[c + 1] \in Nat
    <3>1. c - 1 \in 0 .. Layout[i].n /\ (c - 1) + 1 = c /\ c \in 0 .. Layout[i].n
      BY LayoutOrder
    <3> QED
      BY <3>1, LayoutOrder
  <2>3. b - s \in Int /\ b - s >= Layout[i].dest[c] /\ b - s < Layout[i].dest[c + 1]
    BY <1>1, <1>3, <2>2
  <2>4. Source(i, b - s) = IF Layout[i].type[c] = "raw"
                           THEN {Layout[i].head[c] + ChunkLen + ((b - s) - Layout[i].dest[c])}
                           ELSE {}
    BY <2>3, SourceOf
  <2> QED
    BY <2>1, <2>4 DEF HasData
<1> QED
  BY <1>1, <1>2, <1>3

\* A write of n bytes from where the decoder is in the data of a chunk.
LEMMA WriteStep ==
  ASSUME Types, Calls, Place, Stream, format = "detect", ~failed, state = "chunk_data",
         NEW n \in Int, 0 <= n, n <= left, WriteData(n), img' = img, base' = base
  PROVE  HoldsUpTo(img, base, start - base)' /\ start' = start + n
<1>1. AtChunkData /\ img \in Image /\ Layout[img].sparse /\ Lay.sparse
  BY DEF Place, Types, Calls, Lay
<1>2. n % Sector = 0 /\ Down(n) = n /\ start' = start + n
  BY Rounding DEF WriteData
<1>3. \A b \in 0 .. Size - 1 :
        flash'[b] = IF b \in start .. start + n - 1
                    THEN [of |-> img, at |-> at + (b - start)] ELSE flash[b]
  BY <1>2 DEF WriteData, Written
<1> DEFINE c == count
           k == start - base
<1>4. c \in 1 .. Lay.n /\ base \in Nat /\ k \in Int /\ start \in Int /\ at \in Int /\ left \in Int
  BY <1>1 DEF AtChunkData, Types
<1>5. /\ Lay.dest[c + 1] = Lay.dest[c] + Lay.len[c] /\ Lay.len[c] \in Nat
      /\ Lay.head[c + 1] = Lay.head[c] + ChunkLen + Lay.len[c]
      /\ Lay.dest[c] \in Nat /\ Lay.head[c] \in Nat /\ ChunkLen \in Nat
  <2>1. c - 1 \in 0 .. Lay.n /\ (c - 1) + 1 = c
    BY <1>1, <1>4, LayoutOrder DEF Lay
  <2> QED
    BY <1>1, <1>4, <2>1, LayoutOrder, SizeAssumption DEF AtChunkData, Lay
<1>6. /\ left \in 0 .. Lay.len[c] /\ at + left = Lay.head[c + 1]
      /\ start + left = base + Lay.dest[c + 1] /\ Lay.type[c] = "raw"
  BY <1>1 DEF AtChunkData
<1>7. Lay.dest[c] <= k /\ k + n <= Lay.dest[c + 1]
  BY <1>4, <1>5, <1>6
<1>8. \A b \in Int : b - base - Lay.dest[c] \in Int /\
        at + (b - start) = Lay.head[c] + ChunkLen + ((b - base) - Lay.dest[c])
  BY <1>4, <1>5, <1>6
<1>9. base + k = start
  BY <1>4
<1>10. SameBut(flash, flash', base + k, n)
  BY <1>3, <1>9 DEF SameBut
<1>11. HasData(flash', img, c, base, base + k, n)
  <2> SUFFICES ASSUME NEW b \in 0 .. Size - 1, b \in base + k .. base + k + n - 1
               PROVE  flash'[b] = [of |-> img, at |-> Lay.head[c] + ChunkLen + ((b - base) - Lay.dest[c])]
    BY DEF HasData, Lay
  <2>1. b \in start .. start + n - 1 /\ b \in Int
    BY <1>9, SizeAssumption
  <2>2. flash'[b] = [of |-> img, at |-> at + (b - start)]
    BY <1>3, <2>1
  <2> QED
    BY <2>1, <2>2, <1>8
<1>12. Holds(flash, img, base, k)
  BY DEF Stream, HoldsUpTo, Holds
<1> HIDE DEF c, k
<1>13. Holds(flash', img, base, k + n)
  BY <1>1, <1>4, <1>6, <1>7, <1>10, <1>11, <1>12, Appended DEF Lay
<1>14. start' - base' = k + n
  BY <1>2, <1>4 DEF k
<1> QED
  BY <1>2, <1>13, <1>14 DEF HoldsUpTo, Holds

\* Every flash holds the first 0 bytes of an image.
LEMMA HoldsNothing == ASSUME NEW f, NEW i, NEW s \in Nat PROVE Holds(f, i, s, 0)
<1>1. \A b \in 0 .. Size - 1 : b \notin s .. s + 0 - 1
  BY SizeAssumption
<1> QED
  BY <1>1 DEF Holds

\* The flash keeps holding what the decoder has gone past.
LEMMA StreamStep == Types /\ Calls /\ Place /\ Stream /\ [Next]_vars => Stream'
<1> SUFFICES ASSUME Types, Calls, Place, Stream, [Next]_vars, format' = "detect", ~failed'
             PROVE  HoldsUpTo(img, base, start - base)'
  BY DEF Stream
<1> DEFINE Goal == HoldsUpTo(img, base, start - base)'
<1>1. ASSUME img' = img, base' = base, start' = start, flash' = flash,
             format = "detect", ~failed
      PROVE  Goal
  BY <1>1 DEF Stream, HoldsUpTo
<1>2. CASE Probe
  <2>1. Lay.sparse
    BY <1>2 DEF Probe
  <2>2. next = base /\ base \in Nat /\ start' = next /\ base' = base
    BY <1>2, <2>1 DEF Probe, Types, Calls
  <2>3. start' - base' = 0
    BY <2>2
  <2>4. Holds(flash', img', base', 0)
    BY <2>2, HoldsNothing
  <2> QED
    BY <2>3, <2>4 DEF HoldsUpTo, Holds
<1>3. ASSUME NEW n \in 1 .. Lay.total, GivePiece(n)
      PROVE  Goal
  BY <1>1, <1>3 DEF GivePiece, WritePlain, PlainFails, TakeEnv, Enter
<1>4. ASSUME Decode
      PROVE  Goal
  <2>1. CASE Leave \/ TotalHead \/ ChunkHeadShort \/ DataKeep
    <3>1. format = "detect" /\ ~failed
      BY <2>1 DEF Leave, TotalHead, ChunkHeadShort, DataKeep
    <3> QED
      BY <1>1, <2>1, <3>1 DEF Leave, TotalHead, ChunkHeadShort, DataKeep
  <2>2. CASE ChunkHeadBad \/ DataFails
    BY <2>2 DEF ChunkHeadBad, DataFails, Fail
  <2>3. ASSUME NEW i \in 1 .. Lay.n, ChunkHead(i)
        PROVE  Goal
    <3>1. format = "detect" /\ ~failed /\ img' = img /\ base' = base /\ flash' = flash
          /\ img \in Image /\ Layout[img].sparse /\ Lay.sparse
      BY <2>3 DEF ChunkHead, Types, Calls, Lay
    <3>2. i = count + 1 /\ start = base + Lay.dest[i]
      BY <2>3, <3>1, RightChunk DEF ChunkHead, Place, AtChunkHead, Turn
    <3>3. CASE Lay.type[i] = "raw"
      <4>1. start' = start
        BY <2>3, <3>3 DEF ChunkHead
      <4> QED
        BY <3>1, <4>1, <1>1
    <3>4. CASE Lay.type[i] # "raw"
      <4>1. Lay.len[i] \in Nat /\ Lay.len[i] < Half /\ Lay.dest[i + 1] = Lay.dest[i] + Lay.len[i]
        BY <3>1, LayoutOrder DEF Lay
      <4>2. start' = start + Lay.len[i]
        BY <2>3, <3>4, <4>1, Exact DEF ChunkHead
      <4> DEFINE k == start - base
                 m == Lay.len[i]
      <4>3. base \in Nat /\ start \in Int /\ k \in Int /\ m \in Int /\ m >= 0
        BY <4>1 DEF Types
      <4>4. Lay.dest[i] \in Nat
        <5>1. i - 1 \in 0 .. Lay.n /\ (i - 1) + 1 = i
          BY <3>1, LayoutOrder DEF Lay
        <5> QED
          BY <5>1, <3>1, LayoutOrder DEF Lay
      <4>5. Lay.dest[i] <= k /\ k + m <= Lay.dest[i + 1]
        BY <3>2, <4>1, <4>3, <4>4
      <4>6. SameBut(flash, flash', base + k, m) /\ Holds(flash, img, base, k)
        BY <3>1 DEF SameBut, Holds, Stream, HoldsUpTo
      <4>7. start' - base' = k + m
        BY <3>1, <4>2, <4>3
      <4> HIDE DEF k, m
      <4>8. Holds(flash', img, base, k + m)
        BY <3>1, <3>4, <4>3, <4>5, <4>6, Appended DEF Lay
      <4> QED
        BY <3>1, <4>7, <4>8 DEF Holds, HoldsUpTo
    <3> QED
      BY <3>3, <3>4
  <2>4. CASE DataWhole
    <3>1. format = "detect" /\ ~failed /\ img' = img /\ base' = base /\ WriteData(left)
          /\ state = "chunk_data"
      BY <2>4 DEF DataWhole, Turn
    <3>2. left \in Int /\ 0 <= left
      BY <3>1 DEF Place, AtChunkData, Types
    <3> QED
      BY <3>1, <3>2, WriteStep
  <2>5. CASE DataPart
    <3>1. format = "detect" /\ ~failed /\ img' = img /\ base' = base /\ WriteData(PartSize)
          /\ state = "chunk_data"
      BY <2>5 DEF DataPart, Turn
    <3>2. PartSize \in Int /\ 0 <= PartSize /\ PartSize < left /\ left \in Int
      BY <2>5, PartSizes DEF DataPart, Types
    <3> HIDE DEF PartSize
    <3>3. PartSize <= left
      BY <3>2
    <3> QED
      BY <3>1, <3>2, <3>3, WriteStep
  <2> QED
    BY <1>4, <2>1, <2>2, <2>3, <2>4, <2>5 DEF Decode
<1>5. ASSUME NEW i \in Image, NEW s \in 0 .. Size, NEW e \in BOOLEAN, Open(i, s, e)
      PROVE  FALSE
  BY <1>5 DEF Open
<1>6. CASE Close \/ EnvExit
  BY <1>6 DEF Close, EnvExit
<1>7. CASE UNCHANGED vars
  BY <1>1, <1>7 DEF vars
<1> QED
  BY <1>2, <1>3, <1>4, <1>5, <1>6, <1>7 DEF Next

\* A plain image: m bytes more of it.
LEMMA AppendPlain ==
  ASSUME NEW i \in Image, ~Layout[i].sparse, NEW s \in Nat, NEW k \in Nat, NEW m \in Nat,
         NEW u \in Int, u >= m, NEW old, NEW new,
         \A b \in 0 .. Size - 1 :
           new[b] = IF b \in s + k .. s + k + u - 1
                    THEN [of |-> i, at |-> k + (b - (s + k))] ELSE old[b],
         Holds(old, i, s, k)
  PROVE  Holds(new, i, s, k + m)
<1> SUFFICES ASSUME NEW b \in 0 .. Size - 1, b \in s .. s + (k + m) - 1
             PROVE  new[b] = [of |-> i, at |-> b - s]
  BY DEF Holds, Source
<1>1. b \in Int
  BY SizeAssumption
<1>2. CASE b < s + k
  <2>1. b \in s .. s + k - 1 /\ b \notin s + k .. s + k + u - 1
    BY <1>1, <1>2
  <2>2. old[b] = [of |-> i, at |-> b - s]
    BY <2>1 DEF Holds, Source
  <2> QED
    BY <2>1, <2>2
<1>3. CASE b >= s + k
  <2>1. b \in s + k .. s + k + u - 1 /\ k + (b - (s + k)) = b - s
    BY <1>1, <1>3
  <2> QED
    BY <2>1
<1> QED
  BY <1>1, <1>2, <1>3

\* A plain image is written from its first byte on.
LEMMA PlainStep == Types /\ Calls /\ Plain /\ [Next]_vars => Plain'
<1> SUFFICES ASSUME Types, Calls, Plain, [Next]_vars, format' = "bad", ~failed'
             PROVE  /\ hi' <= Lay'.total
                    /\ hi' < Lay'.total \/ env' = "ram" => hi' % Sector = 0
                    /\ env' = "no" /\ hi' < Lay'.total => next' = base' + hi'
                    /\ env' # "ram" => HoldsUpTo(img, base, hi)'
  BY DEF Plain
<1> DEFINE Goal == Plain'
<1>1. ASSUME NEW i \in Image, NEW s \in 0 .. Size, NEW e \in BOOLEAN, Open(i, s, e)
      PROVE  FALSE
  BY <1>1 DEF Open
<1>2. CASE Probe
  <2>1. hi' = 0 /\ next' = base' /\ base' \in Nat /\ Lay' = Lay /\ Lay.total \in Nat
    BY <1>2, LayoutAssumption DEF Probe, Types, Calls, Lay, WellFormed
  <2>2. Holds(flash', img', base', 0)
    BY <2>1, HoldsNothing
  <2>3. 0 % Sector = 0
    BY NoBytes
  <2>4. HoldsUpTo(img, base, hi)'
    BY <2>1, <2>2 DEF HoldsUpTo, Holds
  <2> QED
    <3>1. hi' <= Lay'.total /\ hi' % Sector = 0
      BY <2>1, <2>3
    <3>2. next' = base' + hi'
      <4>1. next' = base' /\ hi' = 0
        BY <2>1
      <4>2. base' \in Nat
        BY <2>1
      <4>3. \A n \in Nat : n + 0 = n
        OBVIOUS
      <4> QED
        BY <4>1, <4>2, <4>3, Zenon
    <3> QED
      BY <3>1, <3>2, <2>4
<1>3. ASSUME NEW n \in 1 .. Lay.total, GivePiece(n)
      PROVE  Goal
  <2>1. Piece(n) /\ n \in Nat /\ format = "bad" /\ ~failed /\ Lay' = Lay /\ img' = img
        /\ base' = base /\ env' = env /\ hi' = hi + n /\ ~Lay.sparse /\ Lay.total \in Nat
        /\ img \in Image /\ hi \in Nat /\ base \in Nat /\ next \in Int
    <3>1. Lay.total \in Nat
      BY LayoutAssumption DEF WellFormed, Lay, Types
    <3> QED
      BY <1>3, <3>1 DEF GivePiece, WritePlain, PlainFails, TakeEnv, Enter, Lay, Calls, Types
  <2>2. hi + n <= Lay.total /\ (hi + n < Lay.total => n % Sector = 0) /\ hi < Lay.total
    BY <2>1 DEF Piece
  <2>3. hi % Sector = 0
    BY <2>1, <2>2 DEF Plain
  <2>4. (hi + n) % Sector = n % Sector
    BY <2>1, <2>3, WholeSectors
  <2>5. env = "ram" => (hi + n) % Sector = 0
    <3>1. CASE hi + n < Lay.total
      BY <2>2, <2>4, <3>1
    <3>2. CASE hi + n = Lay.total
      BY <3>2 DEF Calls
    <3> QED
      BY <2>1, <2>2, <3>1, <3>2
  <2>6. CASE WritePlain(n)
    <3>1. next = base + hi /\ env = "no"
      BY <2>1, <2>2, <2>6 DEF Plain, WritePlain
    <3>2. Up(n) \in Int /\ Up(n) >= n /\ (n % Sector = 0 => Up(n) = n)
      BY <2>1, Rounding
    <3>3. next' = next + Up(n) /\ flash' = Written(next, Up(n), hi)
      BY <2>6 DEF WritePlain
    <3> HIDE DEF Up
    <3>4. \A b \in 0 .. Size - 1 :
            flash'[b] = IF b \in base + hi .. base + hi + Up(n) - 1
                        THEN [of |-> img, at |-> hi + (b - (base + hi))] ELSE flash[b]
      BY <3>1, <3>3 DEF Written
    <3>5. Holds(flash, img, base, hi)
      BY <2>1, <3>1 DEF Plain, HoldsUpTo, Holds
    <3>6. Holds(flash', img, base, hi + n)
      BY <2>1, <3>2, <3>4, <3>5, AppendPlain DEF Lay
    <3>7. HoldsUpTo(img, base, hi)'
      BY <2>1, <3>6 DEF Holds, HoldsUpTo
    <3>8. hi' < Lay'.total => next' = base' + hi'
      BY <2>1, <2>2, <3>1, <3>2, <3>3
    <3> QED
      BY <2>1, <2>2, <2>4, <2>5, <3>7, <3>8 DEF Plain
  <2>7. CASE PlainFails(n)
    BY <2>7 DEF PlainFails
  <2>8. CASE TakeEnv(n)
    BY <2>1, <2>2, <2>4, <2>5, <2>8 DEF TakeEnv, Plain
  <2>9. CASE Enter(n)
    BY <2>1, <2>9 DEF Enter
  <2> QED
    BY <1>3, <2>6, <2>7, <2>8, <2>9 DEF GivePiece
<1>4. CASE EnvExit
  <2>1. /\ format = "bad" /\ env = "ram" /\ env' = "stored" /\ img' = img /\ base' = base
        /\ hi' = hi /\ Lay' = Lay /\ ~Lay.sparse /\ ~failed /\ img \in Image /\ hi \in Nat
        /\ base \in Nat /\ next' = next
    BY <1>4 DEF EnvExit, Lay, Types, Calls
  <2>2. hi % Sector = 0 /\ Down(hi) = hi
    BY <2>1, Rounding DEF Plain
  <2>3. flash' = Written(base, hi, 0)
    BY <1>4, <2>2 DEF EnvExit
  <2>4. \A b \in 0 .. Size - 1 :
          flash'[b] = IF b \in base + 0 .. base + 0 + hi - 1
                      THEN [of |-> img, at |-> 0 + (b - (base + 0))] ELSE flash[b]
    <3>1. base + 0 = base
      BY <2>1
    <3> QED
      BY <2>3, <3>1 DEF Written
  <2>5. Holds(flash, img, base, 0)
    <3>1. \A b \in 0 .. Size - 1 : b \notin base .. base + 0 - 1
      BY <2>1, SizeAssumption
    <3> QED
      BY <3>1 DEF Holds
  <2>6. Holds(flash', img, base, 0 + hi)
    <3>1. 0 \in Nat /\ hi \in Int /\ hi >= hi
      BY <2>1
    <3> QED
      BY <2>1, <2>4, <2>5, <3>1, AppendPlain DEF Lay
  <2>7. HoldsUpTo(img, base, hi)'
    BY <2>1, <2>6 DEF Holds, HoldsUpTo
  <2> QED
    BY <2>1, <2>2, <2>7 DEF Plain
<1>5. ASSUME Decode
      PROVE  FALSE
  BY <1>5 DEF Decode, Leave, TotalHead, ChunkHeadShort, ChunkHeadBad, ChunkHead, DataWhole,
     DataKeep, DataPart, DataFails, Turn, Calls
<1>6. CASE Close
  BY <1>6 DEF Close
<1>7. CASE UNCHANGED vars
  BY <1>7 DEF vars, Plain, Lay, HoldsUpTo
<1> QED
  BY <1>1, <1>2, <1>3, <1>4, <1>5, <1>6, <1>7 DEF Next, Plain

----------------------------------------------------------------------------
(* The theorems.                                                           *)

LEMMA InitInv == Init => IInv
<1> SUFFICES ASSUME Init PROVE IInv
  OBVIOUS
<1>1. 0 \in 0 .. Keep
  BY SizeAssumption
<1>2. Types
  <2>1. busy \in BOOLEAN /\ failed \in BOOLEAN
    BY DEF Init
  <2> QED
    BY <1>1, <2>1 DEF Init, Types
<1>3. format = "unknown" /\ ~(next >= 0) /\ ~busy /\ rest = 0 /\ env = "no"
  BY DEF Init
<1>4. Calls
  BY <1>3 DEF Calls
<1> QED
  BY <1>2, <1>3, <1>4 DEF IInv, Place, Stream, Plain

LEMMA Inductive == Spec => []IInv
<1>1. Init => IInv
  BY InitInv
<1>2. IInv /\ [Next]_vars => IInv'
  BY FrameStep, PlaceStep, StreamStep, PlainStep DEF IInv
<1> QED
  BY <1>1, <1>2, PTL DEF Spec

\* When all of an image has come, the decoder has put all of it in its place.
LEMMA AllPlaced ==
  ASSUME Types, Calls, Place, format = "detect", ~failed, ~busy, hi = Lay.total
  PROVE  start - base = Extent(img)
<1>1. Lay.sparse /\ img \in Image /\ Layout[img].sparse /\ base \in Nat /\ start \in Int
  BY DEF Types, Calls, Lay
<1>2. rest = 0 /\ kept \in Nat /\ hi \in Nat /\ at \in Int
  BY SizeAssumption DEF Calls, Types
<1>3. Extent(img) = Lay.dest[Lay.n + 1] /\ Lay.n \in Nat
  BY <1>1, LayoutOrder DEF Extent, Lay
<1>4. state \in {"total_head", "chunk_head", "chunk_data"}
  BY DEF Types, Place
<1>5. CASE state = "total_head"
  <2>1. hi = 0 /\ Lay.total = Lay.head[Lay.n + 1]
    BY <1>1, <1>5, LayoutOrder DEF Calls, Lay
  <2>2. Lay.head[1] = HeadLen /\ HeadLen > 0 /\ 1 \in 1 .. Lay.n + 1
    BY <1>1, LayoutOrder, SizeAssumption DEF Lay
  <2>3. Lay.head[0 + 1] <= Lay.total /\ 0 + 1 = 1
    BY <1>1, <1>3, LayoutOrder DEF Lay
  <2> QED
    BY <2>1, <2>2, <2>3, SizeAssumption
<1>6. CASE state = "chunk_head"
  <2>1. /\ count \in 0 .. Lay.n /\ at = Lay.head[count + 1]
        /\ start = base + Lay.dest[count + 1] /\ kept < ChunkLen /\ at + rest + kept = hi
    BY <1>6 DEF Place, AtChunkHead
  <2>2. count < Lay.n => at + ChunkLen <= Lay.total
    BY <1>1, <2>1, LayoutOrder DEF Lay
  <2>3. count = Lay.n
    <3>1. at + kept = hi
      BY <1>2, <2>1
    <3>2. ~(at + ChunkLen <= hi)
      BY <1>2, <2>1, <3>1, SizeAssumption
    <3>3. ~(count < Lay.n)
      BY <2>2, <3>2
    <3> QED
      BY <1>3, <2>1, <3>3
  <2>4. Lay.dest[count + 1] \in Nat
    BY <1>1, <2>1, LayoutOrder DEF Lay
  <2> QED
    BY <1>1, <1>3, <2>1, <2>3, <2>4
<1>7. CASE state = "chunk_data"
  <2>1. /\ count \in 1 .. Lay.n /\ at + left = Lay.head[count + 1] /\ left \in Int
        /\ start + left = base + Lay.dest[count + 1] /\ at + rest + kept = hi
        /\ kept > 0 => left > kept
        /\ left \in 0 .. Lay.len[count]
    BY <1>7 DEF Place, AtChunkData, Types
  <2>2. count \in 0 .. Lay.n /\ Lay.len[count] \in Nat
    BY <1>1, <1>3, <2>1, LayoutOrder DEF Lay
  <2>3. /\ Lay.head[count + 1] <= Lay.total
        /\ count < Lay.n => Lay.head[count + 1] + ChunkLen <= Lay.total
        /\ Lay.head[count + 1] \in Nat /\ Lay.dest[count + 1] \in Nat
        /\ Lay.total \in Nat
    BY <1>1, <2>2, LayoutOrder DEF Lay
  <2>4. left = 0 /\ kept = 0
    BY <1>2, <2>1, <2>2, <2>3
  <2>5. Lay.head[count + 1] = Lay.total
    BY <1>2, <2>1, <2>3, <2>4
  <2>6. count = Lay.n
    BY <1>3, <2>2, <2>3, <2>5, SizeAssumption
  <2> QED
    BY <1>1, <1>3, <2>1, <2>3, <2>4, <2>6
<1> QED
  BY <1>4, <1>5, <1>6, <1>7

\* For all images and lengths, what the decoder keeps between two pieces has
\* room in front of the buffer, and while no call has failed the bytes passed
\* over, those in the buffer and those kept are together all that have come.
THEOREM KeptBytesFit == Spec => []KeptFits
<1>1. IInv => KeptFits
  <2> SUFFICES ASSUME IInv PROVE KeptFits
    OBVIOUS
  <2>1. kept \in 0 .. Keep
    BY DEF IInv, Types
  <2>2. ASSUME ~failed, format = "detect", hi > 0
        PROVE  at + rest + kept = hi
    <3>1. CASE state = "total_head"
      <4>1. busy
        BY <2>2, <3>1 DEF IInv, Calls
      <4>2. kept = 0 /\ at = 0 /\ rest = hi /\ hi \in Nat
        BY <2>2, <3>1, <4>1 DEF IInv, Place, Types
      <4> QED
        BY <4>2
    <3>2. CASE state # "total_head"
      BY <2>2, <3>2 DEF IInv, Place
    <3> QED
      BY <3>1, <3>2
  <2> QED
    BY <2>1, <2>2 DEF KeptFits
<1> QED
  BY <1>1, Inductive, PTL

\* The flash holds the image up to where it has come.
LEMMA ImageHeld == IInv => AsImage
<1> SUFFICES ASSUME IInv, ~failed, format # "unknown"
             PROVE  /\ HoldsUpTo(img, base, Done)
                    /\ ~busy /\ hi = Lay.total /\ (env = "ram" => format = "detect")
                         => Intact(img, base)
  BY DEF AsImage
<1>1. CASE format = "detect"
  <2>1. Done = start - base /\ HoldsUpTo(img, base, start - base)
    BY <1>1 DEF Done, IInv, Stream
  <2>2. ~busy /\ hi = Lay.total => start - base = Extent(img)
    BY <1>1, AllPlaced DEF IInv
  <2> QED
    BY <2>1, <2>2 DEF Intact
<1>2. CASE format = "bad"
  <2>1. ~Lay.sparse /\ Extent(img) = Lay.total
    BY <1>2 DEF IInv, Calls, Extent, Lay
  <2>2. CASE env = "ram"
    <3>1. Done = 0 /\ Holds(flash, img, base, 0)
      BY <1>2, <2>2, HoldsNothing DEF Done, IInv, Types
    <3> QED
      BY <1>2, <2>2, <3>1 DEF Holds, HoldsUpTo
  <2>3. CASE env # "ram"
    BY <1>2, <2>1, <2>3 DEF Done, IInv, Plain, Intact
  <2> QED
    BY <2>2, <2>3
<1> QED
  BY <1>1, <1>2 DEF IInv, Types

\* For all images, pieces and lengths, the flash holds the image, up to where
\* it has come, and all of it in the end.
THEOREM FlashGetsImage == Spec => []AsImage
  BY ImageHeld, Inductive, PTL

\* The data of a chunk go where the image has data.
LEMMA InChunk ==
  ASSUME Types, Calls, Place, format = "detect", ~failed, state = "chunk_data",
         NEW n \in Int, n <= left, NEW b \in Int, b \in start .. start + n - 1
  PROVE  b \in base .. base + Up(Extent(img)) - 1 /\ Source(img, b - base) # {}
<1>1. AtChunkData /\ img \in Image /\ Layout[img].sparse /\ Lay.sparse /\ base \in Nat
      /\ start \in Int /\ left \in Int /\ Lay.n \in Nat
  BY LayoutOrder DEF Place, Types, Calls, Lay
<1>2. /\ Lay.dest[count + 1] = Lay.dest[count] + Lay.len[count] /\ Lay.len[count] \in Nat
      /\ Lay.dest[count] \in Nat /\ Lay.dest[count + 1] \in Nat
      /\ Lay.dest[count + 1] <= Lay.dest[Lay.n + 1] /\ Lay.dest[Lay.n + 1] \in Nat
  <2>1. count - 1 \in 0 .. Lay.n /\ (count - 1) + 1 = count /\ count \in 0 .. Lay.n
        /\ Lay.n \in 0 .. Lay.n /\ count \in 1 .. Lay.n
    BY <1>1 DEF AtChunkData
  <2> QED
    BY <1>1, <2>1, LayoutOrder DEF Lay
<1>3. left \in 0 .. Lay.len[count] /\ start + left = base + Lay.dest[count + 1]
      /\ Lay.type[count] = "raw" /\ count \in 1 .. Lay.n
  BY <1>1 DEF AtChunkData
<1>4. b - base \in Int /\ b - base >= Lay.dest[count] /\ b - base < Lay.dest[count + 1]
  BY <1>1, <1>2, <1>3
<1>5. Source(img, b - base) # {}
  BY <1>1, <1>3, <1>4, SourceOf DEF Lay
<1>6. Extent(img) = Lay.dest[Lay.n + 1]
  BY <1>1 DEF Extent, Lay
<1>7. Up(Extent(img)) \in Int /\ Up(Extent(img)) >= Extent(img)
  BY <1>2, <1>6, Rounding
<1> HIDE DEF Up
<1> QED
  BY <1>1, <1>2, <1>4, <1>5, <1>6, <1>7

Within(b) == /\ b \in base .. base + Up(Extent(img)) - 1
             /\ Lay.sparse => Source(img, b - base) # {}
ImageChange ==
  format' # "unknown" =>
    \A b \in 0 .. Size - 1 : flash'[b] # flash[b] /\ ~failed => Within(b)

\* A step changes only what the image has data for.
LEMMA ChangeStep == IInv /\ [Next]_vars => ImageChange
<1> USE DEF Within
<1> SUFFICES ASSUME IInv, [Next]_vars, format' # "unknown", NEW b \in 0 .. Size - 1,
                    flash'[b] # flash[b], ~failed
             PROVE  Within(b)
  BY DEF ImageChange
<1>0. b \in Int /\ Types /\ Calls /\ Place /\ Plain
  BY SizeAssumption DEF IInv
<1>1. ASSUME NEW n \in 1 .. Lay.total, WritePlain(n), Piece(n)
      PROVE  Within(b)
  <2>1. format = "bad" /\ env = "no" /\ ~Lay.sparse /\ Extent(img) = Lay.total
        /\ Lay.total \in Nat /\ n \in Nat /\ hi \in Nat /\ base \in Nat
    <3>1. img \in Image /\ Lay.total \in Nat /\ hi \in Nat /\ base \in Nat
      BY <1>0, LayoutAssumption DEF Types, WellFormed, Lay
    <3> QED
      BY <3>1, <1>0, <1>1 DEF WritePlain, Calls, Extent, Lay
  <2>2. hi + n <= Lay.total /\ (hi + n < Lay.total => n % Sector = 0)
    BY <1>1, <2>1 DEF Piece
  <2>3. hi % Sector = 0 /\ next = base + hi
    BY <2>1, <2>2, <1>0 DEF Plain
  <2>4. b \in base + hi .. base + hi + Up(n) - 1
    BY <1>1, <2>3 DEF WritePlain, Written
  <2>5. hi + Up(n) <= Up(Lay.total)
    <3>1. CASE n % Sector = 0
      <4>1. Up(n) = n
        BY <3>1 DEF Up
      <4>2. Up(Lay.total) \in Int /\ Up(Lay.total) >= Lay.total
        BY <2>1, Rounding
      <4> HIDE DEF Up
      <4> QED
        BY <2>1, <2>2, <4>1, <4>2
    <3>2. CASE n % Sector # 0
      <4>1. hi + n = Lay.total
        BY <2>1, <2>2, <3>2
      <4>2. Lay.total % Sector = n % Sector
        BY <2>1, <2>3, <4>1, WholeSectors
      <4>3. n % Sector \in Int /\ Sector \in Int
        BY <2>1, SizeAssumption
      <4> QED
        BY <2>1, <3>2, <4>1, <4>2, <4>3 DEF Up, Down
    <3> QED
      BY <3>1, <3>2
  <2>6. Up(n) \in Int /\ Up(Lay.total) \in Int
    BY <2>1, Rounding
  <2> HIDE DEF Up
  <2> QED
    BY <1>0, <2>1, <2>4, <2>5, <2>6
<1>2. CASE EnvExit
  <2>1. format = "bad" /\ ~Lay.sparse /\ Extent(img) = Lay.total /\ hi <= Lay.total
        /\ hi \in Nat /\ base \in Nat /\ Lay.total \in Nat
    <3>1. img \in Image /\ Lay.total \in Nat /\ hi \in Nat /\ base \in Nat
      BY <1>0, LayoutAssumption DEF Types, WellFormed, Lay
    <3> QED
      BY <3>1, <1>0, <1>2 DEF EnvExit, Calls, Plain, Extent, Lay
  <2>2. b \in base .. base + Down(hi) - 1
    BY <1>2 DEF EnvExit, Written
  <2>3. Down(hi) <= hi /\ Down(hi) \in Int /\ Up(Lay.total) >= Lay.total
        /\ Up(Lay.total) \in Int
    BY <2>1, Rounding
  <2> HIDE DEF Up, Down
  <2> QED
    BY <1>0, <2>1, <2>2, <2>3
<1>3. ASSUME format = "detect", state = "chunk_data", NEW n \in Int, n <= left,
             b \in start .. start + Down(n) - 1
      PROVE  Within(b)
  <2>1. Down(n) <= n /\ Down(n) \in Int
    BY Rounding
  <2>2. b \in start .. start + n - 1
    BY <1>0, <1>3, <2>1 DEF Types
  <2> QED
    BY <1>0, <1>3, <2>2, InChunk
<1>4. CASE DataWhole
  <2>1. format = "detect" /\ state = "chunk_data" /\ left \in Int /\ left <= left
    BY <1>0, <1>4 DEF DataWhole, Turn, Types, Calls
  <2>2. b \in start .. start + Down(left) - 1
    BY <1>4 DEF DataWhole, WriteData, Written
  <2> QED
    BY <1>3, <2>1, <2>2
<1>5. CASE DataPart
  <2>1. format = "detect" /\ state = "chunk_data"
    BY <1>0, <1>5 DEF DataPart, Turn, Calls
  <2>2. b \in start .. start + Down(PartSize) - 1
    BY <1>5 DEF DataPart, WriteData, Written
  <2>3. PartSize \in Int /\ PartSize <= left
    BY <1>0, <1>5, PartSizes DEF DataPart, Types
  <2> HIDE DEF PartSize
  <2> QED
    BY <1>3, <2>1, <2>2, <2>3
<1>6. CASE DataFails
  <2> DEFINE n == IF left <= rest THEN left ELSE PartSize
  <2>1. format = "detect" /\ state = "chunk_data" /\ left \in Int /\ rest \in Nat
    BY <1>0, <1>6 DEF DataFails, Turn, Types, Calls
  <2>2. b \in start .. start + Down(n) - 1
    BY <1>6 DEF DataFails, Written
  <2>3. n \in Int /\ n <= left
    <3>1. CASE left <= rest
      BY <2>1, <3>1
    <3>2. CASE ~(left <= rest)
      <4>1. left > rest /\ rest >= Keep /\ Turn("chunk_data")
        BY <2>1, <3>2, <1>6 DEF DataFails
      <4>2. PartSize \in Int /\ PartSize < left
        BY <1>0, <4>1, PartSizes
      <4> QED
        BY <2>1, <3>2, <4>2
    <3> QED
      BY <3>1, <3>2
  <2> HIDE DEF n
  <2> QED
    BY <1>3, <2>1, <2>2, <2>3
<1> QED
  BY <1>1, <1>2, <1>4, <1>5, <1>6
  DEF Next, Decode, GivePiece, Open, Probe, Close, PlainFails, TakeEnv, Enter, Leave,
      TotalHead, ChunkHeadShort, ChunkHeadBad, ChunkHead, DataKeep, vars

----------------------------------------------------------------------------
(* After a failure the decoder may be out of step with the image, but what  *)
(* it writes stays in the image's place.                                    *)

\* Whatever has failed, the decoder is in or behind a chunk c whose header it
\* has passed, and all it may still write of it lies in front of the next one.
BoundedAt(c) ==
  /\ c > 0 => Lay.head[c] < at /\ at <= hi
  /\ base <= start
  /\ IF state = "chunk_data"
     THEN c > 0 /\ 0 <= left /\ start + left <= base + Lay.dest[c + 1]
     ELSE start <= base + Lay.dest[c + 1]
Bounded ==
  /\ left < Half
  /\ hi <= Lay.total
  /\ format = "detect" /\ (busy \/ kept > 0) => at + rest + kept <= hi
  /\ format = "detect" => \E c \in 0 .. Lay.n : BoundedAt(c)
  /\ format = "bad" /\ hi < Lay.total => hi % Sector = 0
  /\ format = "bad" /\ env = "no" /\ hi < Lay.total => base <= next /\ next <= base + hi

\* A header that lies behind that of chunk c is of a later chunk.
LEMMA LaterChunk ==
  ASSUME NEW i \in Image, Layout[i].sparse, NEW c \in 0 .. Layout[i].n,
         NEW d \in 1 .. Layout[i].n, c > 0 => Layout[i].head[c] < Layout[i].head[d]
  PROVE  Layout[i].dest[c + 1] <= Layout[i].dest[d]
<1> DEFINE lay == Layout[i]
<1>1. WellFormed(lay) /\ lay.n \in Nat
  BY LayoutAssumption DEF WellFormed
<1>2. /\ \A e \in 1 .. lay.n + 1 : lay.head[e] \in Nat /\ lay.dest[e] \in Nat
      /\ lay.dest[1] = 0
      /\ \A e \in 1 .. lay.n : \A f \in e + 1 .. lay.n + 1 :
           lay.dest[e + 1] <= lay.dest[f] /\ lay.head[e] + ChunkLen <= lay.head[f]
  BY <1>1 DEF WellFormed
<1> HIDE DEF lay
<1>3. c \in 0 .. lay.n /\ d \in 1 .. lay.n /\ (c > 0 => lay.head[c] < lay.head[d])
  BY DEF lay
<1>4. CASE c = 0
  BY <1>1, <1>2, <1>3, <1>4 DEF lay
<1>5. CASE c > 0
  <2>1. ~ (d < c)
    BY <1>1, <1>2, <1>3, <1>5, SizeAssumption
  <2>2. c # d
    BY <1>1, <1>2, <1>3, <1>5
  <2>3. d \in c + 1 .. lay.n + 1 /\ c \in 1 .. lay.n
    BY <1>1, <1>3, <1>5, <2>1, <2>2
  <2> QED
    BY <1>2, <2>3 DEF lay
<1> QED
  BY <1>1, <1>3, <1>4, <1>5

\* A turn of the loop keeps the decoder within the image.
LEMMA TurnBounded ==
  ASSUME Types, Calls, Bounded, Decode
  PROVE  Bounded'
<1>1. /\ busy /\ format = "detect" /\ Lay.sparse /\ img \in Image /\ Layout[img].sparse
      /\ at + rest + kept <= hi
  BY DEF Decode, Leave, TotalHead, ChunkHeadShort, ChunkHead, ChunkHeadBad, DataWhole,
     DataKeep, DataPart, DataFails, Turn, Calls, Types, Bounded, Lay
<1>2. /\ at \in Int /\ rest \in Nat /\ kept \in Nat /\ kept \in Int /\ hi \in Nat
      /\ start \in Int /\ left \in Int /\ base \in Nat /\ Half \in Nat /\ left < Half
      /\ HeadLen \in Nat /\ ChunkLen \in Nat \ {0} /\ Lay.n \in Nat
  BY <1>1, SizeAssumption, LayoutOrder DEF Types, Bounded, Lay
<1>3. PICK c \in 0 .. Lay.n : BoundedAt(c)
  BY <1>1 DEF Bounded
<1>4. Lay.dest[c + 1] \in Nat /\ (c > 0 => Lay.head[c] \in Nat)
  <2>1. c > 0 => c - 1 \in 0 .. Lay.n /\ (c - 1) + 1 = c
    BY <1>2
  <2> QED
    BY <1>1, <1>2, <2>1, LayoutOrder DEF Lay
<1>5. /\ format' = format /\ img' = img /\ hi' = hi /\ base' = base /\ env' = env
      /\ next' = next
  BY DEF Decode, Leave, TotalHead, ChunkHeadShort, ChunkHead, ChunkHeadBad, DataWhole,
     DataKeep, DataPart, DataFails
<1>6. SUFFICES /\ left' < Half
               /\ at' + rest' + kept' <= hi
               /\ \E d \in 0 .. Lay.n : BoundedAt(d)'
  BY <1>1, <1>5 DEF Bounded, Lay
<1> USE DEF BoundedAt
<1>7. CASE Leave
  BY <1>1, <1>2, <1>3, <1>5, <1>7 DEF Leave, Lay
<1>8. CASE TotalHead
  <2>1. /\ at' = at + HeadLen /\ rest' = rest - HeadLen /\ state' = "chunk_head"
        /\ kept' = kept /\ left' = left /\ start' = start /\ state # "chunk_data" /\ rest >= HeadLen
    BY <1>1, <1>8 DEF TotalHead, Turn, Pass, Calls
  <2> QED
    BY <1>1, <1>2, <1>3, <1>4, <1>5, <2>1 DEF Lay
<1>9. CASE ChunkHeadShort \/ DataKeep
  <2>1. /\ at' = at /\ rest' = 0 /\ kept' = rest /\ state' = state
        /\ left' = left /\ start' = start
    BY <1>9 DEF ChunkHeadShort, DataKeep, KeepRest
  <2> QED
    BY <1>1, <1>2, <1>3, <1>4, <1>5, <2>1 DEF Lay
<1>10. ASSUME NEW d \in 1 .. Lay.n, ChunkHead(d)
       PROVE  /\ left' < Half /\ at' + rest' + kept' <= hi
              /\ \E e \in 0 .. Lay.n : BoundedAt(e)'
  <2>1. Lay.len[d] \in Nat /\ Lay.len[d] < Half /\ Lay.dest[d + 1] = Lay.dest[d] + Lay.len[d]
    BY <1>1, LayoutOrder DEF Lay
  <2>2. Int32(Lay.len[d]) = Lay.len[d]
    BY <2>1, Exact
  <2>3. /\ at = Lay.head[d] /\ at' = at + ChunkLen /\ rest' = rest - ChunkLen /\ kept' = kept
        /\ left' = Lay.len[d] /\ rest >= ChunkLen /\ state = "chunk_head"
        /\ \/ state' = "chunk_data" /\ start' = start
           \/ state' = state /\ start' = start + Lay.len[d]
    BY <2>2, <1>10 DEF ChunkHead, Chunk, Turn, Pass
  <2>4. Lay.dest[c + 1] <= Lay.dest[d]
    BY <1>1, <1>3, <2>3, LaterChunk DEF Lay
  <2>5. Lay.dest[d] \in Nat /\ d \in 0 .. Lay.n /\ d > 0
    <3>1. d - 1 \in 0 .. Lay.n /\ (d - 1) + 1 = d
      BY <1>2
    <3> QED
      BY <1>1, <1>2, <3>1, LayoutOrder DEF Lay
  <2>6. BoundedAt(d)'
    BY <1>2, <1>1, <1>3, <1>4, <1>5, <2>1, <2>3, <2>4, <2>5 DEF Lay
  <2>7. left' < Half /\ at' + rest' + kept' <= hi
    BY <1>1, <1>2, <2>1, <2>3
  <2> QED
    BY <2>5, <2>6, <2>7
<1>11. CASE ChunkHeadBad
  <2>1. /\ at' = at /\ rest' = 0 /\ kept' = kept /\ state' = state /\ start' = start
        /\ state = "chunk_head"
    BY <1>11 DEF ChunkHeadBad, Turn, Fail
  <2>2. left' < Half
    <3>1. PICK d \in 1 .. Lay.n : left' = Int32(Lay.len[d])
      BY <1>11 DEF ChunkHeadBad
    <3>2. Lay.len[d] \in Nat /\ Lay.len[d] < Half
      BY <1>1, LayoutOrder DEF Lay
    <3> QED
      BY <3>1, <3>2, Exact
  <2> QED
    BY <1>1, <1>2, <1>3, <1>4, <1>5, <2>1, <2>2 DEF Lay
<1>12. CASE DataWhole
  <2>1. /\ at' = at + left /\ rest' = rest - left /\ kept' = kept /\ state' = "chunk_head"
        /\ start' = start + left /\ left' = 0 /\ state = "chunk_data" /\ left <= rest
    BY <1>12 DEF DataWhole, WriteData, Turn, Pass
  <2> QED
    BY <1>1, <1>2, <1>3, <1>4, <1>5, <2>1, SizeAssumption DEF Lay
<1>13. CASE DataPart
  <2>1. /\ PartSize \in Int /\ 0 <= PartSize /\ PartSize <= rest /\ PartSize < left
    BY <1>13, PartSizes DEF DataPart
  <2>2. /\ at' = at + PartSize /\ rest' = 0 /\ kept' = rest - PartSize /\ state' = state
        /\ start' = start + PartSize /\ left' = left - PartSize /\ state = "chunk_data"
    BY <1>13 DEF DataPart, WriteData, Turn
  <2> HIDE DEF PartSize
  <2> QED
    BY <1>1, <1>2, <1>3, <1>4, <1>5, <2>1, <2>2 DEF Lay
<1>14. CASE DataFails
  <2>1. /\ at' = at /\ rest' = 0 /\ kept' = kept /\ state' = state /\ start' = start
        /\ left' = left
    BY <1>14 DEF DataFails, Fail
  <2> QED
    BY <1>1, <1>2, <1>3, <1>4, <1>5, <2>1 DEF Lay
<1> QED
  BY <1>7, <1>8, <1>9, <1>10, <1>11, <1>12, <1>13, <1>14 DEF Decode

\* So does everything else.
LEMMA BoundedStep == Types /\ Calls /\ Bounded /\ [Next]_vars => Bounded'
<1> SUFFICES ASSUME Types, Calls, Bounded, [Next]_vars PROVE Bounded'
  OBVIOUS
<1>0. /\ hi \in Nat /\ base \in Nat /\ img \in Image /\ Lay.total \in Nat /\ left < Half
      /\ at \in Int /\ kept \in Nat /\ rest \in Nat /\ next \in Int
  BY LayoutAssumption, SizeAssumption DEF Types, Bounded, WellFormed, Lay
<1>1. ASSUME NEW i \in Image, NEW s \in 0 .. Size, NEW e \in BOOLEAN, Open(i, s, e)
      PROVE  Bounded'
  <2>1. Layout[i].total \in Nat
    BY LayoutAssumption DEF WellFormed
  <2> QED
    BY <1>0, <1>1, <2>1 DEF Open, Bounded, decoder, Lay
<1>2. CASE Probe
  <2>1. hi = 0 /\ next = base
    BY <1>2 DEF Probe, Calls
  <2>2. /\ img' = img /\ hi' = hi /\ base' = base /\ env' = env /\ next' = next
    BY <1>2 DEF Probe
  <2>3. CASE Lay.sparse
    <3>1. /\ format' = "detect" /\ state' = "total_head" /\ kept' = 0 /\ left' = 0
          /\ start' = next /\ ~busy'
      BY <1>2, <2>3 DEF Probe
    <3>2. Lay.n \in Nat /\ Lay.dest[0 + 1] = 0 /\ 0 \in 0 .. Lay.n
      BY <1>0, <2>3, LayoutOrder DEF Lay
    <3>3. BoundedAt(0)'
      BY <1>0, <2>1, <2>2, <3>1, <3>2 DEF BoundedAt, Lay
    <3> QED
      BY <1>0, <2>1, <2>2, <3>1, <3>2, <3>3, SizeAssumption DEF Bounded, Lay
  <2>4. CASE ~Lay.sparse
    <3>1. format' = "bad" /\ left' = left
      BY <1>2, <2>4 DEF Probe, decoder
    <3> QED
      BY <1>0, <2>1, <2>2, <3>1, NoBytes DEF Bounded, Lay
  <2> QED
    BY <2>3, <2>4
<1>3. ASSUME NEW n \in 1 .. Lay.total, GivePiece(n)
      PROVE  Bounded'
  <2>1. Piece(n) /\ n \in Nat /\ hi + n <= Lay.total
        /\ (hi + n < Lay.total /\ ~Lay.sparse => n % Sector = 0)
    BY <1>0, <1>3 DEF GivePiece, Piece
  <2>2. img' = img /\ hi' = hi + n /\ base' = base /\ env' = env /\ format' = format
        /\ left' = left /\ format \in {"bad", "detect"}
    BY <1>3 DEF GivePiece, WritePlain, PlainFails, TakeEnv, Enter, decoder
  <2>3. CASE format = "bad"
    <3>1. hi + n < Lay.total => /\ hi % Sector = 0 /\ n % Sector = 0
                                /\ (hi + n) % Sector = 0 /\ Up(n) = n
      <4> SUFFICES ASSUME hi + n < Lay.total
                   PROVE  /\ hi % Sector = 0 /\ n % Sector = 0
                          /\ (hi + n) % Sector = 0 /\ Up(n) = n
        OBVIOUS
      <4>1. hi % Sector = 0
        BY <1>0, <2>1, <2>3 DEF Bounded
      <4>2. n % Sector = 0
        BY <2>1, <2>3 DEF Calls
      <4>3. (hi + n) % Sector = n % Sector
        BY <1>0, <2>1, <4>1, WholeSectors
      <4> QED
        BY <2>1, <4>1, <4>2, <4>3, Rounding
    <3>2. env = "no" /\ hi + n < Lay.total => next' = next \/ next' = next + n
      BY <1>3, <2>3, <3>1 DEF GivePiece, WritePlain, PlainFails, TakeEnv, Enter
    <3>3. env = "no" /\ hi + n < Lay.total => base <= next /\ next <= base + hi
      BY <1>0, <2>1, <2>3 DEF Bounded
    <3> QED
      BY <1>0, <2>1, <2>2, <2>3, <3>1, <3>2, <3>3 DEF Bounded, Lay
  <2>4. CASE format = "detect"
    <3>1. /\ busy' /\ rest' = kept + n /\ kept' = 0 /\ start' = start /\ state' = state
          /\ at' = IF kept > 0 THEN at ELSE hi
      BY <1>3, <2>4 DEF GivePiece, WritePlain, PlainFails, TakeEnv, Enter
    <3>2. at' + rest' + kept' <= hi'
      <4>1. CASE kept > 0
        <5>1. at + rest + kept <= hi
          BY <2>4, <4>1 DEF Bounded
        <5> QED
          BY <1>0, <2>1, <2>2, <3>1, <4>1, <5>1
      <4>2. CASE ~(kept > 0)
        BY <1>0, <2>1, <2>2, <3>1, <4>2
      <4> QED
        BY <4>1, <4>2
    <3>3. PICK c \in 0 .. Lay.n : BoundedAt(c)
      BY <2>4 DEF Bounded
    <3>4. c > 0 => Lay.head[c] \in Nat
      <4>1. Layout[img].sparse /\ Lay.n \in Nat
        BY <1>0, <2>4, LayoutOrder DEF Calls, Lay
      <4>2. c > 0 => c - 1 \in 0 .. Lay.n /\ (c - 1) + 1 = c
        BY <4>1
      <4> QED
        BY <1>0, <4>1, <4>2, LayoutOrder DEF Lay
    <3>5. BoundedAt(c)'
      BY <1>0, <2>1, <2>2, <2>4, <3>1, <3>3, <3>4 DEF BoundedAt, Lay
    <3> QED
      BY <1>0, <2>1, <2>2, <2>4, <3>2, <3>5 DEF Bounded, Lay
  <2> QED
    BY <2>2, <2>3, <2>4
<1>4. CASE EnvExit
  BY <1>0, <1>4 DEF EnvExit, Bounded, decoder, Lay
<1>5. CASE Close
  BY <1>0, <1>5 DEF Close, Bounded, Lay
<1>6. CASE UNCHANGED vars
  BY <1>6 DEF vars, Bounded, BoundedAt, Lay
<1> QED
  BY <1>1, <1>2, <1>3, <1>4, <1>5, <1>6, TurnBounded DEF Next

InPlace ==
  format' # "unknown" =>
    \A b \in 0 .. Size - 1 : flash'[b] # flash[b] => b \in base .. base + Up(Extent(img)) - 1

\* Even after a failure nothing changes but the place of the image.
LEMMA InPlaceStep == Types /\ Calls /\ Bounded /\ [Next]_vars => InPlace
<1> SUFFICES ASSUME Types, Calls, Bounded, [Next]_vars, format' # "unknown",
                    NEW b \in 0 .. Size - 1, flash'[b] # flash[b]
             PROVE  b \in base .. base + Up(Extent(img)) - 1
  BY DEF InPlace
<1>0. /\ b \in Int /\ hi \in Nat /\ base \in Nat /\ img \in Image /\ Lay.total \in Nat
      /\ hi <= Lay.total /\ next \in Int
      /\ left \in Int /\ rest \in Nat /\ start \in Int
  BY LayoutAssumption, SizeAssumption DEF Types, Bounded, WellFormed, Lay
<1>1. ASSUME NEW n \in 1 .. Lay.total, WritePlain(n), Piece(n)
      PROVE  b \in base .. base + Up(Extent(img)) - 1
  <2>1. /\ format = "bad" /\ env = "no" /\ ~Lay.sparse /\ Extent(img) = Lay.total /\ n \in Nat
        /\ hi + n <= Lay.total /\ (hi + n < Lay.total => n % Sector = 0) /\ n > 0
    BY <1>0, <1>1 DEF WritePlain, Calls, Extent, Lay, Piece
  <2>2. base <= next /\ next <= base + hi /\ hi % Sector = 0
    BY <1>0, <2>1 DEF Bounded
  <2>3. Up(n) \in Int /\ Up(Lay.total) \in Int /\ Up(Lay.total) >= Lay.total
        /\ (n % Sector = 0 => Up(n) = n)
    BY <1>0, <2>1, Rounding
  <2>4. hi + Up(n) <= Up(Lay.total)
    <3>1. CASE n % Sector = 0
      BY <1>0, <2>1, <2>3, <3>1
    <3>2. CASE n % Sector # 0
      <4>1. hi + n = Lay.total
        BY <1>0, <2>1, <3>2
      <4>2. Lay.total % Sector = n % Sector
        BY <1>0, <2>1, <2>2, <4>1, WholeSectors
      <4>3. n % Sector \in Int /\ Sector \in Int
        BY <2>1, SizeAssumption
      <4> QED
        BY <1>0, <2>1, <3>2, <4>1, <4>2, <4>3 DEF Up, Down
    <3> QED
      BY <3>1, <3>2
  <2>5. b \in next .. next + Up(n) - 1
    BY <1>1 DEF WritePlain, Written
  <2> HIDE DEF Up
  <2> QED
    BY <1>0, <2>1, <2>2, <2>3, <2>4, <2>5
<1>2. CASE EnvExit
  <2>1. ~Lay.sparse /\ Extent(img) = Lay.total /\ b \in base .. base + Down(hi) - 1
    BY <1>0, <1>2 DEF EnvExit, Written, Calls, Extent, Lay
  <2>2. Down(hi) <= hi /\ Down(hi) \in Int /\ Up(Lay.total) >= Lay.total
        /\ Up(Lay.total) \in Int
    BY <1>0, Rounding
  <2> HIDE DEF Up, Down
  <2> QED
    BY <1>0, <2>1, <2>2
<1>3. ASSUME format = "detect", state = "chunk_data", NEW n \in Int, n <= left,
             b \in start .. start + Down(n) - 1
      PROVE  b \in base .. base + Up(Extent(img)) - 1
  <2>1. Down(n) <= n /\ Down(n) \in Int
    BY Rounding
  <2>2. PICK c \in 0 .. Lay.n : BoundedAt(c)
    BY <1>3 DEF Bounded
  <2>3. /\ Layout[img].sparse /\ Extent(img) = Lay.dest[Lay.n + 1]
        /\ Lay.dest[c + 1] \in Nat /\ Lay.dest[c + 1] <= Lay.dest[Lay.n + 1]
        /\ Lay.dest[Lay.n + 1] \in Nat
    <3>1. Layout[img].sparse /\ Extent(img) = Lay.dest[Lay.n + 1] /\ Lay.n \in Nat
      BY <1>0, <1>3, LayoutOrder DEF Calls, Extent, Lay
    <3>2. Lay.n \in 0 .. Lay.n
      BY <3>1
    <3> QED
      BY <1>0, <3>1, <3>2, LayoutOrder DEF Lay
  <2>4. base <= start /\ start + left <= base + Lay.dest[c + 1]
    BY <1>3, <2>2 DEF BoundedAt
  <2>5. Up(Extent(img)) \in Int /\ Up(Extent(img)) >= Extent(img)
    BY <2>3, Rounding
  <2> HIDE DEF Up, Down
  <2> QED
    BY <1>0, <1>3, <2>1, <2>3, <2>4, <2>5
<1>4. CASE DataWhole
  <2>1. format = "detect" /\ state = "chunk_data" /\ left <= left
    BY <1>0, <1>4 DEF DataWhole, Turn, Calls
  <2>2. b \in start .. start + Down(left) - 1
    BY <1>4 DEF DataWhole, WriteData, Written
  <2> QED
    BY <1>0, <1>3, <2>1, <2>2
<1>5. CASE DataPart
  <2>1. format = "detect" /\ state = "chunk_data"
    BY <1>0, <1>5 DEF DataPart, Turn, Calls
  <2>2. b \in start .. start + Down(PartSize) - 1
    BY <1>5 DEF DataPart, WriteData, Written
  <2>3. PartSize \in Int /\ PartSize <= left
    BY <1>0, <1>5, PartSizes DEF DataPart
  <2> HIDE DEF PartSize
  <2> QED
    BY <1>3, <2>1, <2>2, <2>3
<1>6. CASE DataFails
  <2> DEFINE n == IF left <= rest THEN left ELSE PartSize
  <2>1. format = "detect" /\ state = "chunk_data"
    BY <1>0, <1>6 DEF DataFails, Turn, Calls
  <2>2. b \in start .. start + Down(n) - 1
    BY <1>6 DEF DataFails, Written
  <2>3. n \in Int /\ n <= left
    <3>1. CASE left <= rest
      BY <1>0, <3>1
    <3>2. CASE ~(left <= rest)
      <4>1. left > rest /\ rest >= Keep /\ Turn("chunk_data")
        BY <1>0, <3>2, <1>6 DEF DataFails
      <4>2. PartSize \in Int /\ PartSize < left
        BY <4>1, PartSizes
      <4> QED
        BY <1>0, <3>2, <4>2
    <3> QED
      BY <3>1, <3>2
  <2> HIDE DEF n
  <2> QED
    BY <1>3, <2>1, <2>2, <2>3
<1> QED
  BY <1>1, <1>2, <1>4, <1>5, <1>6
  DEF Next, Decode, GivePiece, Open, Probe, Close, PlainFails, TakeEnv, Enter, Leave,
      TotalHead, ChunkHeadShort, ChunkHeadBad, ChunkHead, DataKeep, vars

\* The place of the image is all that is ever written.
LEMMA AlwaysBounded == Spec => []Bounded
<1>1. Init => Bounded
  <2> SUFFICES ASSUME Init PROVE Bounded
    OBVIOUS
  <2>1. Lay.total \in Nat
    BY LayoutAssumption DEF Init, WellFormed, Lay
  <2> QED
    BY <2>1, SizeAssumption DEF Init, Bounded
<1>2. Spec => [](Types /\ Calls)
  <2>1. IInv => Types /\ Calls
    BY DEF IInv
  <2> QED
    BY <2>1, Inductive, PTL
<1> QED
  BY <1>1, <1>2, BoundedStep, PTL DEF Spec

\* For all images and lengths, nothing but the place of the open image changes,
\* not even after a failure, and without one nothing but what it has data for.
THEOREM OnlyImageChanges == Spec => OnlyImage
<1> DEFINE Change ==
      format' # "unknown" =>
        \A b \in 0 .. Size - 1 :
          flash'[b] # flash[b] =>
            /\ b \in base .. base + Up(Extent(img)) - 1
            /\ ~failed /\ Lay.sparse => Source(img, b - base) # {}
<1>1. IInv /\ Bounded /\ [Next]_vars => [Change]_vars
  <2>1. IInv /\ Bounded /\ [Next]_vars => ImageChange /\ InPlace
    BY ChangeStep, InPlaceStep DEF IInv
  <2> QED
    BY <2>1 DEF ImageChange, InPlace, Within
<1>2. [](IInv /\ Bounded) /\ [][Next]_vars => [][Change]_vars
  BY <1>1, PTL
<1> QED
  BY <1>2, Inductive, AlwaysBounded, PTL DEF Spec, OnlyImage

=============================================================================
