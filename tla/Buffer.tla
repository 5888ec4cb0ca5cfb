-------------------------------- MODULE Buffer --------------------------------
(***************************************************************************)
(* The receive side of x2net.Buffer (src/src/x2net/Buffer.cs): blocks of   *)
(* one size taken from the segment pool, and absolute positions in them    *)
(* that Trim brings down again when it gives leading blocks back.          *)
(*                                                                         *)
(* front .. back - 1 is what the buffer holds, position the next byte to   *)
(* read, current the block it is read from; a block becomes current only   *)
(* when a byte of it is read.  marker limits reading, -1 when not set.     *)
(***************************************************************************)
EXTENDS Integers, Sequences

CONSTANTS
  BlockSize,  \* 2 ^ Config.Buffer.SizeExponent.Segment
  MinLevel,   \* Config.Buffer.RoomFactor
  MaxLevel,
  Bytes       \* the values of a byte

ASSUME BlockSizePositive == BlockSize \in Nat \ {0}
ASSUME Levels == MinLevel \in Nat /\ MaxLevel \in Nat /\ MinLevel =< MaxLevel

(* SegmentPool.Acquire: the bytes are those of the segment's former use.   *)
Segment == [0 .. BlockSize - 1 -> Bytes]
Acquire == CHOOSE s \in Segment : TRUE

NewBuffer == [blocks |-> <<Acquire>>, current |-> 0, position |-> 0,
              back |-> 0, front |-> 0, marker |-> -1, level |-> 0]

Capacity(b) == BlockSize * Len(b.blocks)
Length(b) == b.back - b.front
IsEmpty(b) == b.front = b.back

(* Cleanup gives every block back; what uses one afterwards throws.        *)
Cleanup(b) == [b EXCEPT !.blocks = <<>>]

(* The setter of Position, by absolute position: on a boundary the block   *)
(* before it is current until a byte is read.                              *)
SetPosition(b, pos) ==
  LET index == pos \div BlockSize
      onBoundary == index # 0 /\ pos % BlockSize = 0
  IN  [b EXCEPT !.position = pos,
                !.current = IF onBoundary THEN index - 1 ELSE index]

Rewind(b) == SetPosition(b, b.front)

Shrink(b, n) ==
  LET shrunk == [b EXCEPT !.front = @ + n]
  IN  IF b.position < shrunk.front THEN Rewind(shrunk) ELSE shrunk

Stretch(b, n) == [b EXCEPT !.back = @ + n]

MarkToRead(b, n) == [b EXCEPT !.marker = b.front + n]

(* How many bytes CheckLengthToRead allows.                                *)
Limit(b) == IF b.marker >= 0 THEN b.marker ELSE b.back
CanRead(b, n) == b.position + n =< Limit(b)

(* GetByte n times: BlockFeed moves on to the next block at each positive  *)
(* multiple of the block size it reads; Boundaries counts those below pos. *)
Boundaries(pos) == IF pos = 0 THEN 0 ELSE (pos - 1) \div BlockSize
BlockOf(b, n) == b.current + Boundaries(b.position + n) - Boundaries(b.position)
GetBytes(b, n) ==
  [i \in 1 .. n |-> b.blocks[BlockOf(b, i) + 1][(b.position + i - 1) % BlockSize]]
Skip(b, n) == [b EXCEPT !.position = @ + n, !.current = BlockOf(b, n)]

(* The steps of Trim: position <- marker, and the blocks before it.        *)
Clip(b) ==
  IF b.position = b.back
  THEN [b EXCEPT !.blocks = SubSeq(@, 1, 1), !.front = 0, !.back = 0]
  ELSE LET count == b.position \div BlockSize
       IN  [b EXCEPT !.blocks = SubSeq(@, count + 1, Len(@)),
                     !.front = b.position % BlockSize,
                     !.back = @ - BlockSize * count]
ToMarker(b) == [(IF b.marker >= 0 THEN SetPosition(b, b.marker) ELSE b) EXCEPT !.marker = -1]

(* Mutants of Trim: the marker is not honoured; no block is given back; the*)
(* marker is not reset.                                                    *)
TrimUnread(b) == Rewind(Clip([b EXCEPT !.marker = -1]))
TrimKeeping(b) == Rewind([ToMarker(b) EXCEPT !.front = ToMarker(b).position])
TrimMarked(b) == Rewind([Clip(ToMarker(b)) EXCEPT !.marker = b.marker])

(* Trim drops what is read or marked, and the blocks wholly before it.     *)
Trim(b) == Rewind(Clip(ToMarker(b)))

(* ListAvailableSegments adapts the room to what the last receive filled,  *)
(* and adds blocks until that many are wholly free.                        *)
AdaptLevel(b) ==
  IF b.back < Capacity(b)
  THEN IF b.level > MinLevel THEN b.level - 1 ELSE b.level
  ELSE IF b.level < MaxLevel THEN b.level + 1 ELSE b.level

WithRoom(b) ==
  LET level == AdaptLevel(b)
      missing == 2 ^ level - (Capacity(b) - b.back) \div BlockSize
  IN  [b EXCEPT !.level = level, !.blocks = @ \o [i \in 1 .. missing |-> Acquire]]

Room(b) == Capacity(b) - b.back

(* What the socket writes into the segments listed, from back on.          *)
Filled(b, bytes) ==
  LET At(i, j) == BlockSize * (i - 1) + j - b.back + 1
  IN  [b EXCEPT !.blocks =
        [i \in DOMAIN @ |-> [j \in 0 .. BlockSize - 1 |->
           IF At(i, j) \in DOMAIN bytes THEN bytes[At(i, j)] ELSE @[i][j]]]]

Buffers ==
  [blocks : Seq(Segment), current : Nat, position : Nat, back : Nat, front : Nat,
   marker : Nat \cup {-1}, level : 0 .. MaxLevel]
=============================================================================
