------------------------------ MODULE ReadCache ------------------------------
(***************************************************************************)
(* The random-access read path below The Sleuth Kit: the reader-backed     *)
(* bridge (core/TskReaderBridge), the LRU block cache it owns              *)
(* (core/ReadCache) and the image reader under it (RawImageReader or       *)
(* EwfImageReader).                                                        *)
(*                                                                         *)
(* A byte of the image is identified with its position, so data that ends  *)
(* up in the wrong place is visible.  TSK serialises the read callbacks of *)
(* one image with its own cache lock, so one callback runs at a time; a    *)
(* step of the model is one iteration of the loop in ReadCache::read.      *)
(***************************************************************************)
EXTENDS Integers, Sequences, Functions

CONSTANTS
  ImageSize,   \* ReaderBridgeState::size, captured when the bridge is opened
  BlockSize,   \* ReadCache::m_blockSize (1 MiB in the program)
  MaxBlocks,   \* ReadCache::m_maxBlocks (64 in the program)
  MaxOffset,   \* bound: TSK asks for offsets 0 .. MaxOffset
  MaxLength    \* bound: and for lengths 0 .. MaxLength

ASSUME ReadCacheAssumption ==
  /\ ImageSize \in Nat
  /\ BlockSize \in Nat \ {0}     \* the constructor clamps both to at least 1
  /\ MaxBlocks \in Nat \ {0}
  /\ MaxOffset \in Nat
  /\ MaxLength \in Nat

VARIABLES
  closed,    \* ReaderBridgeState::closed
  blocks,    \* ReadCache::m_blocks, block index -> the bytes cached for it
  lru,       \* ReadCache::m_lru, most recently used first
  damaged,   \* history: the positions the device has at some time withheld
  reading,   \* a read callback is running
  offset,    \* the offset of the running (or else the last) callback
  length,    \* its length, clamped to the image
  cursor,    \* ReadCache::read's cursor
  out,       \* the bytes gathered so far; once answered, the bytes returned
  status     \* how the last callback ended: none yet, "data" or "error"

cache   == <<blocks, lru>>
request == <<offset, length>>
vars    == <<closed, blocks, lru, damaged, reading, offset, length, cursor, out, status>>

-----------------------------------------------------------------------------
Least(a, b) == IF a <= b THEN a ELSE b

(* The n image bytes from position p on. *)
Bytes(p, n) == [i \in 1 .. n |-> p + i - 1]

(* How many bytes of a block starting at p the image holds. *)
Available(p) == IF p >= ImageSize THEN 0 ELSE Least(BlockSize, ImageSize - p)

(* The list without b; a block occurs in the LRU list at most once, so     *)
(* QList::removeAll drops one element.                                     *)
Without(s, b) ==
  IF b \in Range(s)
    THEN LET k == CHOOSE i \in 1 .. Len(s) : s[i] = b
         IN  [i \in 1 .. Len(s) - 1 |-> IF i < k THEN s[i] ELSE s[i + 1]]
    ELSE s

(* Fault: the old entry stays in the list. *)
TouchKeepsOld(s, b) == <<b>> \o s

TouchLru(s, b) == <<b>> \o Without(s, b)

Evicted(s) == {s[i] : i \in MaxBlocks + 1 .. Len(s)}
-----------------------------------------------------------------------------
Init ==
  /\ closed = FALSE
  /\ blocks = [b \in {} |-> <<>>]
  /\ lru = <<>>
  /\ damaged = {}
  /\ reading = FALSE
  /\ offset = 0 /\ length = 0 /\ cursor = 0
  /\ out = <<>>
  /\ status = "none"

(* The bridge answers without touching the cache: -1 once closed, 0 bytes  *)
(* at or past the captured size or for an empty range.                     *)
ReadAnsweredAtOnce(off, len) ==
  LET wanted == IF off >= ImageSize THEN 0 ELSE Least(len, ImageSize - off)
  IN  /\ ~reading
      /\ closed \/ wanted = 0
      /\ offset' = off /\ length' = wanted /\ cursor' = off
      /\ out' = <<>>
      /\ status' = IF closed THEN "error" ELSE "data"
      /\ UNCHANGED <<closed, cache, damaged, reading>>

(* The bridge clamps the range to the image and enters ReadCache::read.    *)
ReadBegins(off, len) ==
  /\ ~reading /\ ~closed
  /\ off < ImageSize /\ len > 0
  /\ reading' = TRUE
  /\ offset' = off /\ length' = Least(len, ImageSize - off) /\ cursor' = off
  /\ out' = <<>>
  /\ UNCHANGED <<closed, cache, damaged, status>>

BlockIndex == cursor \div BlockSize
Remaining  == offset + length - cursor

(* Faults: the copy starts at the block's first byte; a block is fetched   *)
(* from the cursor on, so the cached bytes are not those of the block.     *)
InBlockZero == 0
FetchUnaligned(b) == cursor

InBlock       == cursor % BlockSize
BlockStart(b) == b * BlockSize

ShortBlock(block, take) == Len(block) < BlockSize
LeaveLoop == reading' = FALSE /\ status' = "data"

(* The rest of a loop iteration, once the block is at hand: copy what the  *)
(* block offers, and leave the loop at the end of the range or behind a    *)
(* block shorter than BlockSize.                                           *)
Consume(block) ==
  LET take == Least(Remaining, Len(block) - InBlock)
  IN  \/ /\ InBlock >= Len(block)
         /\ LeaveLoop
         /\ UNCHANGED <<request, cursor, out>>
      \/ /\ InBlock < Len(block)
         /\ out' = out \o SubSeq(block, InBlock + 1, InBlock + take)
         /\ cursor' = cursor + take
         /\ IF take = Remaining \/ ShortBlock(block, take)
              THEN reading' = FALSE /\ status' = "data"
              ELSE UNCHANGED <<reading, status>>
         /\ UNCHANGED request

ReadBlockHit ==
  /\ reading
  /\ BlockIndex \in DOMAIN blocks
  /\ lru' = TouchLru(lru, BlockIndex)
  /\ Consume(blocks[BlockIndex])
  /\ UNCHANGED <<closed, blocks, damaged>>

(* The reader delivers n bytes without an error: all there are, or, when   *)
(* the device fails or the file shrank, fewer.  QFile::read reports a      *)
(* failure as missing bytes (its size() is never negative), and libewf may *)
(* return a short count.  The answer is cached either way.                 *)
ReadBlockMiss(n) ==
  LET start == BlockStart(BlockIndex)
      block == Bytes(start, n)
      used  == TouchLru(lru, BlockIndex)
      keep  == (DOMAIN blocks \union {BlockIndex}) \ Evicted(used)
  IN  /\ reading
      /\ BlockIndex \notin DOMAIN blocks
      /\ damaged' = damaged \union (start + n .. start + Available(start) - 1)
      /\ blocks' = [b \in keep |-> IF b = BlockIndex THEN block ELSE blocks[b]]
      /\ lru' = SubSeq(used, 1, Least(Len(used), MaxBlocks))
      /\ Consume(block)
      /\ UNCHANGED closed

(* Fault: the part read before the error is handed out. *)
ErrorKeepsPart == out

ErrorPayload == <<>>

(* The reader reports an error: what was gathered is dropped, nothing is   *)
(* cached, and the callback returns -1.                                    *)
ReadBlockError ==
  /\ reading
  /\ BlockIndex \notin DOMAIN blocks
  /\ out' = ErrorPayload
  /\ status' = "error"
  /\ reading' = FALSE
  /\ UNCHANGED <<closed, cache, damaged, request, cursor>>

(* tsk_img_close runs the close callback when no read is in progress. *)
Close ==
  /\ ~reading /\ ~closed
  /\ closed' = TRUE
  /\ blocks' = [b \in {} |-> <<>>]
  /\ lru' = <<>>
  /\ UNCHANGED <<damaged, reading, request, cursor, out, status>>

ReadStep ==
  \/ ReadBlockHit
  \/ \E n \in 0 .. Available(BlockIndex * BlockSize) : ReadBlockMiss(n)
  \/ ReadBlockError

Next ==
  \/ \E off \in 0 .. MaxOffset, len \in 0 .. MaxLength :
       ReadAnsweredAtOnce(off, len) \/ ReadBegins(off, len)
  \/ ReadStep
  \/ Close

(* A running callback keeps running; nothing else is owed. *)
Spec == Init /\ [][Next]_vars /\ WF_vars(ReadStep)
-----------------------------------------------------------------------------
BlockIds == 0 .. ImageSize

(* Every variable stays in its type; bytes are image positions. *)
TypeOK ==
  /\ closed \in BOOLEAN /\ reading \in BOOLEAN
  /\ DOMAIN blocks \subseteq BlockIds
  /\ \A b \in DOMAIN blocks : blocks[b] \in Seq(0 .. ImageSize - 1)
  /\ lru \in Seq(BlockIds)
  /\ damaged \subseteq 0 .. ImageSize - 1
  /\ offset \in Nat /\ length \in Nat /\ cursor \in Nat
  /\ out \in Seq(0 .. ImageSize - 1)
  /\ status \in {"none", "data", "error"}

(* The LRU list names exactly the cached blocks, each once, and the cache  *)
(* never holds more than MaxBlocks of them: eviction and touching keep the *)
(* hash and the list in step (ReadCache.cpp, readBlock and touchLru).      *)
LruMirrorsBlocks ==
  /\ Range(lru) = DOMAIN blocks
  /\ IsInjective(lru)
  /\ Len(lru) <= MaxBlocks

(* A cached block holds the image's bytes at that block's place, and it is *)
(* short of them only where the device withheld bytes when it was read.    *)
CacheCoherent ==
  \A b \in DOMAIN blocks :
    LET start == b * BlockSize
        n     == Len(blocks[b])
    IN  /\ n <= Available(start)
        /\ blocks[b] = Bytes(start, n)
        /\ (start + n .. start + Available(start) - 1) \subseteq damaged

(* What has been gathered is the image from the requested offset up to the *)
(* cursor, over every mixture of hits, misses and evictions in the read.   *)
OutIsImagePrefix ==
  /\ Len(out) <= length
  /\ out = Bytes(offset, Len(out))
  /\ reading => /\ cursor = offset + Len(out) /\ Len(out) < length
                /\ offset + length <= ImageSize

(* A read that reports success returns the whole clamped range, or stops   *)
(* at a position the device once withheld: a short block at the end of the *)
(* image, an eviction inside the read or a block boundary never truncate.  *)
CompleteUnlessDamaged ==
  ~reading /\ status = "data" =>
    Len(out) = length \/ offset + Len(out) \in damaged

(* While a callback runs, the caller has been given nothing yet. *)
Promise == INSTANCE ImageRead WITH out <- IF reading THEN <<>> ELSE out

(* The cache is invisible to TSK: every behaviour of bridge, cache and     *)
(* reader is one of the cache-less ImageRead, its liveness included        *)
(* (TskReaderBridge::readFromStateForTest over ReadCache::read).           *)
ImplementsImageRead == Promise!Spec
=============================================================================
