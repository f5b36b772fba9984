----------------------------- MODULE PartImage -----------------------------
(***************************************************************************)
(* The image of a partition on its way to the flash (update_data.c and     *)
(* sparse.c of Card_Android).  The image comes in pieces.  A plain one is  *)
(* written as it comes.  A sparse one is decoded on the fly: a header,     *)
(* then chunks of raw data or of sectors to leave alone.  What a piece     *)
(* leaves over of a chunk that goes on is kept in front of the buffer and  *)
(* meets the next piece there.                                             *)
(*                                                                         *)
(* A byte of an image is its offset in the image, and the flash says of    *)
(* each byte which byte of which image it holds.  Lengths and addresses    *)
(* are in bytes throughout; Down is what is left of >> 9.                  *)
(***************************************************************************)
EXTENDS Integers

CONSTANTS
  HeadLen, ChunkLen,   \* sizeof(sparse_header_t), sizeof(chunk_header_t)
  Sector, Join, Keep,  \* 512, 4 K and 8 K
  Half,                \* 2^31
  Image, Layout,       \* the images, and what is in them
  Size,                \* of the flash
  NoData               \* content of a byte that no image has given

\* A layout: sparse or plain, its length, and of its n chunks the type, the
\* length on the flash, whether the header gives the right total_sz, where
\* the header lies in the image and where the data go on the flash.
Type == {"raw", "dont_care", "other"}
WellFormed(lay) ==
  /\ lay.sparse \in BOOLEAN /\ lay.total \in Nat /\ lay.n \in Nat
  /\ lay.type \in [1 .. lay.n -> Type] /\ lay.sized \in [1 .. lay.n -> BOOLEAN]
  /\ lay.len \in [1 .. lay.n -> Nat]
  /\ lay.head \in [1 .. lay.n + 1 -> Nat] /\ lay.dest \in [1 .. lay.n + 1 -> Nat]
  /\ lay.head[1] = HeadLen /\ lay.dest[1] = 0
  /\ \A i \in 1 .. lay.n :
       /\ lay.len[i] % Sector = 0 /\ lay.len[i] < Half
       /\ lay.dest[i + 1] = lay.dest[i] + lay.len[i]
       /\ lay.type[i] = "raw" =>
            lay.head[i + 1] = lay.head[i] + ChunkLen + lay.len[i]
       /\ lay.type[i] = "dont_care" =>
            lay.head[i + 1] = lay.head[i] + ChunkLen
       /\ \A j \in i + 1 .. lay.n + 1 : /\ lay.dest[i + 1] <= lay.dest[j]
                                       /\ lay.head[i] + ChunkLen <= lay.head[j]
  /\ lay.sparse => lay.total = lay.head[lay.n + 1]

ASSUME SizeAssumption ==
  /\ HeadLen \in Nat \ {0} /\ ChunkLen \in Nat \ {0}
  /\ Sector \in Nat \ {0} /\ Join \in Nat \ {0} /\ Join % Sector = 0
  /\ Keep \in Nat /\ Join <= Keep /\ Sector <= Keep /\ ChunkLen <= Keep
  /\ Half \in Nat \ {0} /\ Size \in Nat
ASSUME LayoutAssumption == \A i \in Image : WellFormed(Layout[i])

VARIABLES
  format,   \* android_format
  next,     \* flash_start_sector
  env,      \* private_type: whether the partition holds the environment,
            \* which is gathered in memory ("ram") and then written
  state,    \* sparse_format_type
  kept,     \* last_rest_size
  left,     \* chunk_length
  start,    \* flash_start
  count,    \* chunk_count
  busy,     \* unsparse_direct_write is at work; its tmp_buf, as the offset
  at, rest, \* of the byte it points to, and this_rest_size
  flash,
  img, base, hi, failed
            \* history: the image, where it goes, how much of it has come,
            \* and whether a call has failed since the partition was opened

vars == <<format, next, env, state, kept, left, start, count, busy, at, rest,
          flash, img, base, hi, failed>>
decoder == <<state, kept, left, start, count, busy, at, rest>>

Lay == Layout[img]
Down(n) == n - (n % Sector)
Up(n) == IF n % Sector = 0 THEN n ELSE Down(n) + Sector
\* An unsigned product as the int that chunk_length is.
Int32(n) ==
  LET u == n % (2 * Half) IN IF u < Half THEN u ELSE u - 2 * Half

Content == [of : Image, at : Nat] \cup {NoData}
Init ==
  /\ format = "unknown" /\ next = -1 /\ env = "no"
  /\ state = "none" /\ kept = 0 /\ left = 0 /\ start = 0 /\ count = 0
  /\ busy = FALSE /\ at = 0 /\ rest = 0
  /\ flash \in [0 .. Size - 1 -> {NoData}]
  /\ img \in Image /\ base = 0 /\ hi = 0 /\ failed = FALSE

----------------------------------------------------------------------------
(* update_data.c                                                           *)

\* update_flash_open for the image i, at s; an environment is whole sectors.
Open(i, s, e) ==
  /\ ~busy
  /\ e => Layout[i].total % Sector = 0
  /\ format' = "unknown" /\ next' = s /\ env' = IF e THEN "ram" ELSE "no"
  /\ img' = i /\ base' = s /\ hi' = 0 /\ failed' = FALSE
  /\ UNCHANGED <<decoder, flash>>

\* unsparse_probe, at the first piece.
Probe ==
  /\ ~busy /\ format = "unknown" /\ next >= 0
  /\ IF Lay.sparse
     THEN /\ format' = "detect"
          /\ state' = "total_head" /\ kept' = 0 /\ left' = 0
          /\ start' = next /\ count' = 0
          /\ UNCHANGED <<busy, at, rest>>
     ELSE format' = "bad" /\ UNCHANGED decoder
  /\ UNCHANGED <<next, env, flash, img, base, hi, failed>>

\* n bytes from offset o of the image on the flash at s.
Written(s, n, o) ==
  [b \in 0 .. Size - 1 |->
     IF b \in s .. s + n - 1 THEN [of |-> img, at |-> o + (b - s)]
     ELSE flash[b]]

\* update_flash_write_ext of the next n bytes.  Its result is not passed on.
WritePlain(n) ==
  /\ ~busy /\ format = "bad" /\ env = "no"
  /\ flash' = Written(next, Up(n), hi)
  /\ next' = next + Up(n)
  /\ hi' = hi + n
  /\ UNCHANGED <<format, env, decoder, img, base, failed>>
PlainFails(n) ==
  /\ ~busy /\ format = "bad" /\ env = "no"
  /\ hi' = hi + n /\ failed' = TRUE
  /\ UNCHANGED <<format, next, env, decoder, flash, img, base>>

\* env_dram_write of the next n bytes, and env_exit, which writes them all.
TakeEnv(n) ==
  /\ ~busy /\ format = "bad" /\ env = "ram"
  /\ hi' = hi + n
  /\ UNCHANGED <<format, next, env, decoder, flash, img, base, failed>>
EnvExit ==
  /\ ~busy /\ format = "bad" /\ env = "ram"
  /\ env' = "stored"
  /\ \/ flash' = Written(base, Down(hi), 0) /\ UNCHANGED failed
     \/ failed' = TRUE /\ UNCHANGED flash
  /\ UNCHANGED <<format, next, decoder, img, base, hi>>

----------------------------------------------------------------------------
(* unsparse_direct_write, one turn of its loop a step.                     *)

\* Mutant: last_rest_size is not cleared when it has been used.
EnterAgain(n) ==
  /\ ~busy /\ format = "detect"
  /\ busy' = TRUE /\ rest' = kept + n
  /\ at' = IF kept > 0 THEN at ELSE hi
  /\ hi' = hi + n
  /\ UNCHANGED <<format, next, env, state, kept, left, start, count, flash, img,
                 base, failed>>
Enter(n) ==
  /\ ~busy /\ format = "detect"
  /\ busy' = TRUE /\ rest' = kept + n /\ kept' = 0
  /\ at' = IF kept > 0 THEN at ELSE hi
  /\ hi' = hi + n
  /\ UNCHANGED <<format, next, env, state, left, start, count, flash, img, base,
                 failed>>
\* Mutant: while (this_rest_size >= 0).
LeaveLate ==
  /\ busy /\ rest < 0
  /\ busy' = FALSE
  /\ UNCHANGED <<format, next, env, state, kept, left, start, count, at, rest,
                 flash, img, base, hi, failed>>
Leave ==
  /\ busy /\ rest <= 0
  /\ busy' = FALSE
  /\ UNCHANGED <<format, next, env, state, kept, left, start, count, at, rest,
                 flash, img, base, hi, failed>>

Turn(s) == busy /\ rest > 0 /\ state = s
Pass(n) == at' = at + n /\ rest' = rest - n
\* Mutant: the rest is not copied.
KeepNothing == kept' = 0 /\ rest' = 0 /\ UNCHANGED at
\* The rest stays in front of the buffer, where tmp_buf finds it next time.
KeepRest == kept' = rest /\ rest' = 0 /\ UNCHANGED at
\* return -1
Fail == busy' = FALSE /\ failed' = TRUE /\ rest' = 0 /\ UNCHANGED at

TotalHead ==
  /\ Turn("total_head")
  /\ Pass(HeadLen) /\ state' = "chunk_head"
  /\ UNCHANGED <<format, next, env, kept, left, start, count, busy, flash, img,
                 base, hi, failed>>
ChunkHeadShort ==
  /\ Turn("chunk_head") /\ rest < ChunkLen
  /\ KeepRest
  /\ UNCHANGED <<format, next, env, state, left, start, count, busy, flash, img,
                 base, hi, failed>>
\* The chunk whose header is at offset at; there is one unless an earlier
\* error has put the decoder out of step.
Chunk(i) == i \in 1 .. Lay.n /\ at = Lay.head[i]
ChunkHead(i) ==
  /\ Turn("chunk_head") /\ rest >= ChunkLen
  /\ Chunk(i) /\ Lay.type[i] # "other" /\ Lay.sized[i]
  /\ left' = Int32(Lay.len[i]) /\ count' = count + 1
  /\ Pass(ChunkLen)
  /\ IF Lay.type[i] = "raw" THEN state' = "chunk_data" /\ UNCHANGED start
     ELSE start' = start + left' /\ UNCHANGED state
  /\ UNCHANGED <<format, next, env, kept, busy, flash, img, base, hi, failed>>
ChunkHeadBad ==
  /\ Turn("chunk_head") /\ rest >= ChunkLen
  /\ \A i \in 1 .. Lay.n :
       Chunk(i) => Lay.type[i] = "other" \/ ~Lay.sized[i]
  /\ \E i \in 1 .. Lay.n : left' = Int32(Lay.len[i])
  /\ count' = count + 1
  /\ Fail
  /\ UNCHANGED <<format, next, env, state, kept, start, flash, img, base, hi>>

\* Mutant: a sector more than the data.
WriteSectorMore(n) ==
  /\ flash' = Written(start, Down(n + Sector), at)
  /\ n % Sector = 0 /\ start' = start + n
\* A write of n bytes, which the flash takes as whole sectors.
WriteData(n) ==
  /\ flash' = Written(start, Down(n), at)
  /\ n % Sector = 0 /\ start' = start + n
DataWhole ==
  /\ Turn("chunk_data") /\ left <= rest
  /\ WriteData(left)
  /\ Pass(left) /\ left' = 0 /\ state' = "chunk_head"
  /\ UNCHANGED <<format, next, env, kept, count, busy, img, base, hi, failed>>
DataKeep ==
  /\ Turn("chunk_data") /\ left > rest /\ rest < Keep
  /\ KeepRest
  /\ UNCHANGED <<format, next, env, state, left, start, count, busy, flash, img,
                 base, hi, failed>>
\* Mutant: the end of the chunk is always taken for near.
PartSizeLeft == left - Join
\* Less than Join bytes are missing: Join bytes of the chunk are left for the
\* next time.  Otherwise all whole sectors go.
PartSize == IF left - rest < Join THEN left - Join ELSE Down(rest)
DataPart ==
  /\ Turn("chunk_data") /\ left > rest /\ rest >= Keep
  /\ WriteData(PartSize)
  /\ left' = left - PartSize /\ at' = at + PartSize
  /\ kept' = rest - PartSize /\ rest' = 0
  /\ UNCHANGED <<format, next, env, state, count, busy, img, base, hi, failed>>
\* The flash refuses the write, or what is to be written is no whole number
\* of sectors.
DataFails ==
  /\ Turn("chunk_data") /\ (left <= rest \/ rest >= Keep)
  /\ LET n == IF left <= rest THEN left ELSE PartSize IN
     flash' \in {IF n % Sector = 0 THEN flash ELSE Written(start, Down(n), at),
                flash}
  /\ Fail
  /\ UNCHANGED <<format, next, env, state, kept, left, start, count, img, base, hi>>

Decode ==
  \/ Leave \/ TotalHead \/ ChunkHeadShort \/ ChunkHeadBad
  \/ \E i \in 1 .. Lay.n : ChunkHead(i)
  \/ DataWhole \/ DataKeep \/ DataPart \/ DataFails

\* A piece: the first holds the header of the image, and all pieces of a
\* plain image but the last are whole sectors.
Piece(n) ==
  /\ n > 0 /\ hi + n <= Lay.total
  /\ hi = 0 /\ Lay.sparse => n >= HeadLen
  /\ hi + n < Lay.total /\ ~Lay.sparse => n % Sector = 0
GivePiece(n) == Piece(n) /\ (WritePlain(n) \/ PlainFails(n) \/ TakeEnv(n) \/ Enter(n))

\* update_flash_close, or the power fails.  Until the next image is opened
\* the flash may change in any way.
Close ==
  /\ format' = "unknown" /\ next' = -1 /\ busy' = FALSE /\ rest' = 0
  /\ flash' \in [0 .. Size - 1 -> Content]
  /\ UNCHANGED <<env, state, kept, left, start, count, at, img, base, hi, failed>>

Next ==
  \/ Probe \/ EnvExit \/ Decode \/ Close
  \/ \E n \in 1 .. Lay.total : GivePiece(n)
  \/ \E i \in Image, s \in 0 .. Size, e \in BOOLEAN : Open(i, s, e)

Spec == Init /\ [][Next]_vars

----------------------------------------------------------------------------
(* What the flash must hold.                                               *)

\* Byte k of what image i has for the flash, as an offset in the image.
Source(i, k) ==
  LET lay == Layout[i] IN
  IF ~lay.sparse THEN {k}
  ELSE {lay.head[c] + ChunkLen + (k - lay.dest[c]) :
          c \in {d \in 1 .. lay.n :
                   /\ lay.type[d] = "raw"
                   /\ k \in lay.dest[d] .. lay.dest[d + 1] - 1}}
Extent(i) ==
  LET lay == Layout[i] IN IF lay.sparse THEN lay.dest[lay.n + 1] ELSE lay.total
\* The bytes of i that are before k are on the flash at s.
HoldsUpTo(i, s, k) ==
  \A b \in 0 .. Size - 1 :
    b \in s .. s + k - 1 =>
      \A o \in Source(i, b - s) : flash[b] = [of |-> i, at |-> o]
Intact(i, s) == HoldsUpTo(i, s, Extent(i))

\* However the image is cut into pieces, what has been written is the image,
\* and when all of it has come and no call has failed nothing is missing.
Done == IF format = "detect" THEN start - base
        ELSE IF format = "bad" /\ env # "ram" THEN hi ELSE 0
AsImage ==
  ~failed /\ format # "unknown" =>
    /\ HoldsUpTo(img, base, Done)
    /\ ~busy /\ hi = Lay.total /\ (env = "ram" => format = "detect")
         => Intact(img, base)

\* What is kept of a piece finds room in front of the buffer, and nothing of
\* the image gets lost between the pieces: every byte that has come and has
\* not been passed over is in the buffer or is kept, and nothing else is.
KeptFits ==
  /\ kept \in 0 .. Keep
  /\ ~failed /\ format = "detect" /\ hi > 0 => at + rest + kept = hi

\* Nothing but the place of the image that is open changes on the flash, even
\* when a failure has put the decoder out of step, and before one only what
\* the image has data for.
OnlyImage ==
  [][format' # "unknown" =>
       \A b \in 0 .. Size - 1 :
         flash'[b] # flash[b] =>
           /\ b \in base .. base + Up(Extent(img)) - 1
           /\ ~failed /\ Lay.sparse => Source(img, b - base) # {}]_vars
=============================================================================
