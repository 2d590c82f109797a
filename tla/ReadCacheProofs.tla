--------------------------- MODULE ReadCacheProofs ---------------------------
(* Proofs about ReadCache, for every image size, block size and capacity. *)
EXTENDS ReadCache, TLAPS

USE ReadCacheAssumption

(* A position splits into a block index and an offset inside that block. *)
LEMMA BlockSplit ==
  ASSUME NEW p \in Nat
  PROVE  /\ p \div BlockSize \in Nat
         /\ p % BlockSize \in 0 .. BlockSize - 1
         /\ p = BlockStart(p \div BlockSize) + (p % BlockSize)
         /\ BlockStart(p \div BlockSize) \in Nat
         /\ p \div BlockSize <= p
  <1> DEFINE q == p \div BlockSize
             r == p % BlockSize
  <1>1. q \in Int /\ r \in 0 .. BlockSize - 1 /\ p = BlockSize * q + r
    OBVIOUS
  <1>2. q >= 0
    BY <1>1
  <1>3. BlockSize * q = q * BlockSize /\ q * BlockSize \in Nat
    BY <1>1, <1>2
  <1>4. q <= q * BlockSize
    BY <1>1, <1>2
  <1>5. QED
    BY <1>1, <1>2, <1>3, <1>4 DEF BlockStart

(* Removing a block from a list in which it occurs at most once. *)
LEMMA WithoutProperties ==
  ASSUME NEW S, NEW s \in Seq(S), IsInjective(s), NEW b
  PROVE  /\ Without(s, b) \in Seq(S)
         /\ IsInjective(Without(s, b))
         /\ Range(Without(s, b)) = Range(s) \ {b}
         /\ Len(Without(s, b)) <= Len(s)
         /\ b \in Range(s) => Len(Without(s, b)) < Len(s)
  <1>1. CASE b \notin Range(s)
    BY <1>1 DEF Without
  <1>2. CASE b \in Range(s)
    <2> DEFINE k == CHOOSE i \in 1 .. Len(s) : s[i] = b
               w == [i \in 1 .. Len(s) - 1 |-> IF i < k THEN s[i] ELSE s[i + 1]]
    <2>1. k \in 1 .. Len(s) /\ s[k] = b
      <3>1. \E i \in 1 .. Len(s) : s[i] = b
        BY <1>2 DEF Range
      <3>2. QED
        BY <3>1
    <2>2. Without(s, b) = w
      BY <1>2 DEF Without
    <2> HIDE DEF k
    <2>3. w \in Seq(S) /\ Len(w) = Len(s) - 1
      BY <2>1
    <2>4. IsInjective(w)
      BY <2>1 DEF IsInjective
    <2>5. \A x : x \in Range(w) => x \in Range(s) \ {b}
      BY <2>1 DEF Range, IsInjective
    <2>6. ASSUME NEW x \in Range(s) \ {b} PROVE x \in Range(w)
      <3>1. PICK j \in 1 .. Len(s) : s[j] = x
        BY DEF Range
      <3>2. CASE j < k
        <4>1. j \in 1 .. Len(s) - 1 /\ w[j] = x
          BY <2>1, <3>1, <3>2
        <4>2. QED
          BY <4>1 DEF Range
      <3>3. CASE j > k
        <4>1. j - 1 \in 1 .. Len(s) - 1 /\ w[j - 1] = x
          BY <2>1, <3>1, <3>3
        <4>2. QED
          BY <4>1 DEF Range
      <3>4. QED
        BY <2>1, <3>1, <3>2, <3>3
    <2> HIDE DEF w
    <2>7. Range(w) = Range(s) \ {b}
      BY <2>5, <2>6
    <2>8. Len(w) < Len(s)
      BY <2>3
    <2>9. QED
      BY <2>2, <2>3, <2>4, <2>7, <2>8
  <1>3. QED
    BY <1>1, <1>2


(* Touching a block puts it in front and keeps every other one. *)
LEMMA TouchProperties ==
  ASSUME NEW S, NEW s \in Seq(S), IsInjective(s), NEW b \in S
  PROVE  /\ TouchLru(s, b) \in Seq(S)
         /\ IsInjective(TouchLru(s, b))
         /\ Range(TouchLru(s, b)) = Range(s) \union {b}
         /\ Len(TouchLru(s, b)) \in 1 .. Len(s) + 1
         /\ TouchLru(s, b)[1] = b
         /\ b \in Range(s) => Len(TouchLru(s, b)) <= Len(s)
  <1> DEFINE w == Without(s, b)
             t == <<b>> \o w
  <1>1. /\ w \in Seq(S) /\ IsInjective(w) /\ Range(w) = Range(s) \ {b}
        /\ Len(w) <= Len(s)
        /\ b \in Range(s) => Len(w) < Len(s)
    BY WithoutProperties
  <1> HIDE DEF w
  <1>2. t \in Seq(S) /\ Len(t) = Len(w) + 1 /\ t[1] = b
    BY <1>1
  <1>3. \A i \in 2 .. Len(t) : t[i] = w[i - 1] /\ i - 1 \in 1 .. Len(w)
    BY <1>1, <1>2
  <1>4. \A i \in 1 .. Len(w) : i + 1 \in 1 .. Len(t) /\ t[i + 1] = w[i]
    BY <1>1, <1>2
  <1>5. Range(t) = Range(s) \union {b}
    <2>1. \A x : x \in Range(t) => x \in Range(w) \union {b}
      BY <1>1, <1>2, <1>3 DEF Range
    <2>2. ASSUME NEW x \in Range(w) PROVE x \in Range(t)
      <3>1. PICK i \in 1 .. Len(w) : w[i] = x
        BY <1>1 DEF Range
      <3>2. i + 1 \in 1 .. Len(t) /\ t[i + 1] = x
        BY <1>4, <3>1
      <3>3. DOMAIN t = 1 .. Len(t)
        BY <1>2
      <3> HIDE DEF t
      <3>4. QED
        BY <3>2, <3>3 DEF Range
    <2>3. b \in Range(t)
      <3>1. 1 \in 1 .. Len(t)
        BY <1>1, <1>2
      <3>2. QED
        BY <1>2, <3>1 DEF Range
    <2>4. QED
      BY <1>1, <2>1, <2>2, <2>3
  <1>6. IsInjective(t)
    <2>1. b \notin Range(w)
      BY <1>1
    <2>2. \A i \in 2 .. Len(t) : t[i] # b
      BY <1>1, <1>3, <2>1 DEF Range
    <2>3. ASSUME NEW i \in 1 .. Len(t), NEW j \in 1 .. Len(t), t[i] = t[j]
          PROVE  i = j
      <3>1. CASE i = 1 \/ j = 1
        BY <1>2, <2>2, <2>3, <3>1
      <3>2. CASE i \in 2 .. Len(t) /\ j \in 2 .. Len(t)
        <4>1. w[i - 1] = w[j - 1] /\ i - 1 \in 1 .. Len(w) /\ j - 1 \in 1 .. Len(w)
          BY <1>3, <2>3, <3>2
        <4>2. i - 1 = j - 1
          BY <1>1, <4>1 DEF IsInjective
        <4>3. QED
          BY <3>2, <4>2
      <3>3. QED
        BY <1>2, <3>1, <3>2
    <2>4. DOMAIN t = 1 .. Len(t)
      BY <1>2
    <2> HIDE DEF t
    <2>5. QED
      BY <2>3, <2>4 DEF IsInjective
  <1>7. TouchLru(s, b) = t
    BY DEF TouchLru, w
  <1> HIDE DEF t
  <1>8. QED
    BY <1>1, <1>2, <1>5, <1>6, <1>7

(* Cutting a list to the capacity drops exactly the evicted blocks. *)
LEMMA CutProperties ==
  ASSUME NEW S, NEW t \in Seq(S), IsInjective(t),
         NEW n, n = Least(Len(t), MaxBlocks)
  PROVE  /\ SubSeq(t, 1, n) \in Seq(S)
         /\ IsInjective(SubSeq(t, 1, n))
         /\ Range(SubSeq(t, 1, n)) = Range(t) \ Evicted(t)
         /\ Len(SubSeq(t, 1, n)) <= MaxBlocks
  <1> DEFINE u == SubSeq(t, 1, n)
  <1>1. n \in Nat /\ n <= Len(t) /\ n <= MaxBlocks
    BY DEF Least
  <1>2. /\ u \in Seq(S) /\ Len(u) = n
        /\ \A i \in 1 .. n : u[i] = t[i] /\ i \in 1 .. Len(t)
    BY <1>1
  <1> HIDE DEF u
  <1>3. IsInjective(u)
    BY <1>1, <1>2 DEF IsInjective
  <1>4. \A x : x \in Range(u) => x \in Range(t) \ Evicted(t)
    BY <1>1, <1>2 DEF Range, IsInjective, Evicted
  <1>5. ASSUME NEW x \in Range(t) \ Evicted(t) PROVE x \in Range(u)
    <2>1. PICK i \in 1 .. Len(t) : t[i] = x
      BY DEF Range
    <2>2. i \in 1 .. n
      BY <2>1 DEF Evicted, Least
    <2>3. QED
      BY <1>2, <2>1, <2>2 DEF Range
  <1>6. QED
    BY <1>1, <1>2, <1>3, <1>4, <1>5 DEF u
(* Touching a block keeps the LRU list a duplicate-free list of blocks. *)
LEMMA TouchInList ==
  ASSUME lru \in Seq(BlockIds), IsInjective(lru), BlockIndex \in BlockIds
  PROVE  /\ TouchLru(lru, BlockIndex) \in Seq(BlockIds)
         /\ IsInjective(TouchLru(lru, BlockIndex))
         /\ Range(TouchLru(lru, BlockIndex)) = Range(lru) \union {BlockIndex}
         /\ BlockIndex \in Range(lru) => Len(TouchLru(lru, BlockIndex)) <= Len(lru)
  BY TouchProperties

-----------------------------------------------------------------------------
(* The inductive invariant: the checked invariants support each other.     *)
ReadInv ==
  /\ TypeOK
  /\ LruMirrorsBlocks
  /\ CacheCoherent
  /\ OutIsImagePrefix
  /\ CompleteUnlessDamaged

LEMMA InitInv == Init => ReadInv
  <1> SUFFICES ASSUME Init PROVE ReadInv
    OBVIOUS
  <1>1. Range(lru) = {} /\ IsInjective(lru)
    BY DEF Init, Range, IsInjective
  <1>2. DOMAIN blocks = {} /\ Len(lru) = 0 /\ lru \in Seq(BlockIds)
    BY DEF Init
  <1>3. TypeOK
    <2>1. <<>> \in Seq(0 .. ImageSize - 1)
      OBVIOUS
    <2>2. QED
      BY <1>2, <2>1 DEF Init, TypeOK
  <1>4. LruMirrorsBlocks /\ CacheCoherent
    BY <1>1, <1>2 DEF LruMirrorsBlocks, CacheCoherent
  <1>5. OutIsImagePrefix
    <2>1. out = Bytes(offset, Len(out)) /\ Len(out) = 0
      BY DEF Init, Bytes
    <2>2. QED
      BY <2>1 DEF Init, OutIsImagePrefix
  <1>6. CompleteUnlessDamaged
    BY DEF Init, CompleteUnlessDamaged
  <1>7. QED
    BY <1>3, <1>4, <1>5, <1>6 DEF ReadInv

(* While a callback runs, its cursor lies in a block of the image. *)
LEMMA CursorInBlock ==
  ASSUME TypeOK, OutIsImagePrefix, reading
  PROVE  LET start == BlockStart(BlockIndex)
         IN  /\ BlockIndex \in BlockIds
             /\ start \in Nat /\ start < ImageSize
             /\ InBlock \in 0 .. BlockSize - 1
             /\ cursor = start + InBlock
             /\ InBlock < Available(start)
             /\ Available(start) \in 1 .. BlockSize
             /\ start + Available(start) <= ImageSize
             /\ Available(start) < BlockSize => start + Available(start) = ImageSize
  <1>1. cursor \in Nat /\ cursor < ImageSize
    BY DEF TypeOK, OutIsImagePrefix
  <1>2. /\ BlockIndex \in Nat /\ BlockIndex <= cursor
        /\ InBlock \in 0 .. BlockSize - 1
        /\ cursor = BlockStart(BlockIndex) + InBlock
        /\ BlockStart(BlockIndex) \in Nat
    BY <1>1, BlockSplit DEF BlockIndex, InBlock
  <1>3. QED
    BY <1>1, <1>2 DEF BlockIds, Available, Least

(* Consuming a coherent block extends the gathered prefix by the image     *)
(* bytes behind it, and stops short only where the device withheld bytes.  *)
LEMMA ConsumeProperties ==
  ASSUME TypeOK, OutIsImagePrefix, reading,
         NEW n \in 0 .. Available(BlockStart(BlockIndex)),
         BlockStart(BlockIndex) + n .. BlockStart(BlockIndex) + Available(BlockStart(BlockIndex)) - 1
           \subseteq damaged',
         Consume(Bytes(BlockStart(BlockIndex), n))
  PROVE  /\ reading' \in BOOLEAN /\ cursor' \in Nat
         /\ out' \in Seq(0 .. ImageSize - 1)
         /\ offset' \in Nat /\ length' \in Nat /\ status' \in {"none", "data", "error"}
         /\ OutIsImagePrefix' /\ CompleteUnlessDamaged'
  <1> DEFINE start == BlockStart(BlockIndex)
             block == Bytes(start, n)
  <1>1. /\ start \in Nat /\ start < ImageSize
        /\ InBlock \in 0 .. BlockSize - 1
        /\ cursor = start + InBlock
        /\ InBlock < Available(start)
        /\ Available(start) \in 1 .. BlockSize
        /\ start + Available(start) <= ImageSize
        /\ Available(start) < BlockSize => start + Available(start) = ImageSize
    BY CursorInBlock
  <1>2. /\ n \in Nat /\ n <= Available(start)
        /\ block = [i \in 1 .. n |-> start + i - 1]
        /\ Len(block) = n
        /\ start + n .. start + Available(start) - 1 \subseteq damaged'
    BY <1>1 DEF Bytes
  <1>c. Consume(block)
    OBVIOUS
  <1> HIDE DEF start, block
  <1> DEFINE m == Len(out)
  <1>3. /\ offset \in Nat /\ length \in Nat /\ cursor \in Nat /\ m \in Nat
        /\ cursor = offset + m /\ m < length
        /\ offset + length <= ImageSize
    BY DEF TypeOK, OutIsImagePrefix
  <1>4. out \in Seq(0 .. ImageSize - 1) /\ out = Bytes(offset, m)
    BY DEF TypeOK, OutIsImagePrefix
  <1>5. status \in {"none", "data", "error"} /\ offset' = offset /\ length' = length
    BY <1>c DEF Consume, request, TypeOK
  <1>6. CASE InBlock >= Len(block)
    <2>0. ~(InBlock < Len(block))
      BY <1>1, <1>2, <1>6
    <2>1. reading' = FALSE /\ status' = "data" /\ cursor' = cursor /\ out' = out
      BY <2>0, <1>c DEF Consume, LeaveLoop
    <2>2. offset + m \in damaged'
      BY <1>1, <1>2, <1>3, <1>6
    <2>3. OutIsImagePrefix'
      BY <1>3, <1>4, <1>5, <2>1 DEF OutIsImagePrefix
    <2>4. CompleteUnlessDamaged'
      BY <1>5, <2>1, <2>2 DEF CompleteUnlessDamaged
    <2>5. QED
      BY <1>3, <1>4, <1>5, <2>1, <2>3, <2>4
  <1>7. CASE InBlock < Len(block)
    <2> DEFINE take == Least(Remaining, Len(block) - InBlock)
    <2>0. ~(InBlock >= Len(block)) /\ (ShortBlock(block, take) <=> n < BlockSize)
      BY <1>1, <1>2, <1>7 DEF ShortBlock
    <2>1. out' = out \o SubSeq(block, InBlock + 1, InBlock + take) /\ cursor' = cursor + take
      BY <2>0, <1>c DEF Consume
    <2>2. IF take = Remaining \/ n < BlockSize
            THEN reading' = FALSE /\ status' = "data"
            ELSE reading' = reading /\ status' = status
      BY <2>0, <1>c DEF Consume, LeaveLoop
    <2>x. take = Least(Remaining, n - InBlock)
      BY <1>2
    <2>3. /\ Remaining = length - m /\ Remaining \in Nat \ {0}
          /\ take \in Nat \ {0} /\ take <= Remaining /\ InBlock + take <= n
          /\ take = Remaining \/ InBlock + take = n
      <3>1. n \in Nat /\ InBlock \in Nat /\ InBlock < n
        BY <1>1, <1>2, <1>7
      <3> HIDE DEF take, m
      <3>2. QED
        BY <1>3, <2>x, <3>1 DEF Least, Remaining
    <2> HIDE DEF take, m
    <2>4. SubSeq(block, InBlock + 1, InBlock + take) = Bytes(cursor, take)
      BY <1>1, <1>2, <2>3 DEF Bytes
    <2>5. Bytes(offset, m) \o Bytes(cursor, take) = Bytes(offset, m + take)
      BY <1>3, <2>3 DEF Bytes
    <2>6. out' = Bytes(offset, m + take)
      BY <1>4, <2>1, <2>4, <2>5
    <2>7. Len(out') = m + take /\ out' \in Seq(0 .. ImageSize - 1)
      <3>1. m + take \in Nat /\ offset + (m + take) <= ImageSize
        BY <1>3, <2>3
      <3> HIDE DEF take
      <3>2. ASSUME NEW k \in Nat, offset + k <= ImageSize
            PROVE  Bytes(offset, k) \in Seq(0 .. ImageSize - 1) /\ Len(Bytes(offset, k)) = k
        <4>1. \A i \in 1 .. k : offset + i - 1 \in 0 .. ImageSize - 1
          BY <1>3, <3>2
        <4>2. QED
          BY <4>1 DEF Bytes
      <3>3. QED
        BY <2>6, <3>1, <3>2
    <2>8. OutIsImagePrefix'
      <3>1. reading' => m + take < length
        BY <1>3, <2>2, <2>3
      <3>2. m + take <= length /\ cursor' = offset + (m + take)
        BY <1>3, <2>1, <2>3
      <3>3. QED
        BY <1>3, <1>5, <2>6, <2>7, <3>1, <3>2 DEF OutIsImagePrefix
    <2>9. CompleteUnlessDamaged'
      <3>1. CASE take = Remaining
        <4>1. m + take = length
          BY <1>3, <2>3, <3>1
        <4>2. QED
          BY <1>5, <2>7, <4>1 DEF CompleteUnlessDamaged
      <3>2. CASE take # Remaining /\ n < BlockSize
        <4>1. offset + (m + take) = start + n
          BY <1>1, <1>2, <1>3, <2>3, <3>2
        <4>2. m + take < length
          BY <1>3, <2>3, <3>2
        <4>3. n < Available(start)
          BY <1>1, <1>2, <1>3, <2>3, <3>2, <4>1, <4>2
        <4>4. start + n \in damaged'
          BY <1>1, <1>2, <4>3
        <4>5. QED
          BY <1>5, <2>7, <4>1, <4>4 DEF CompleteUnlessDamaged
      <3>3. CASE take # Remaining /\ ~(n < BlockSize)
        BY <2>2, <3>3 DEF CompleteUnlessDamaged
      <3>4. QED
        BY <3>1, <3>2, <3>3
    <2>10. reading' \in BOOLEAN /\ status' \in {"none", "data", "error"}
      BY <1>5, <2>2 DEF TypeOK
    <2>11. QED
      BY <1>3, <1>5, <2>1, <2>3, <2>7, <2>8, <2>9, <2>10
  <1>8. QED
    BY <1>1, <1>2, <1>6, <1>7

(* A block found in the cache is what a reader would have delivered. *)
LEMMA HitInv ==
  ASSUME ReadInv, ReadBlockHit
  PROVE  ReadInv'
  <1> DEFINE start == BlockStart(BlockIndex)
             n     == Len(blocks[BlockIndex])
  <1>1. /\ TypeOK /\ LruMirrorsBlocks /\ CacheCoherent /\ OutIsImagePrefix
        /\ reading /\ BlockIndex \in DOMAIN blocks
        /\ lru' = TouchLru(lru, BlockIndex)
        /\ Consume(blocks[BlockIndex])
        /\ closed' = closed /\ blocks' = blocks /\ damaged' = damaged
    BY DEF ReadInv, ReadBlockHit
  <1>2. /\ n \in 0 .. Available(start)
        /\ blocks[BlockIndex] = Bytes(start, n)
        /\ start + n .. start + Available(start) - 1 \subseteq damaged'
    <2>1. n \in Nat
      BY <1>1 DEF TypeOK
    <2>2. /\ n <= Available(start) /\ blocks[BlockIndex] = Bytes(start, n)
          /\ start + n .. start + Available(start) - 1 \subseteq damaged
      BY <1>1 DEF CacheCoherent, BlockStart
    <2>3. Available(start) \in Nat
      BY <1>1, CursorInBlock
    <2>4. QED
      BY <1>1, <2>1, <2>2, <2>3
  <1>3. Consume(Bytes(start, n))
    BY <1>1, <1>2
  <1> HIDE DEF n
  <1>4. /\ reading' \in BOOLEAN /\ cursor' \in Nat
        /\ out' \in Seq(0 .. ImageSize - 1)
        /\ offset' \in Nat /\ length' \in Nat /\ status' \in {"none", "data", "error"}
        /\ OutIsImagePrefix' /\ CompleteUnlessDamaged'
    BY <1>1, <1>2, <1>3, ConsumeProperties
  <1>5. /\ lru' \in Seq(BlockIds) /\ IsInjective(lru')
        /\ Range(lru') = DOMAIN blocks'
        /\ Len(lru') <= MaxBlocks
    <2>1. /\ lru \in Seq(BlockIds) /\ IsInjective(lru) /\ Range(lru) = DOMAIN blocks
          /\ Len(lru) <= MaxBlocks /\ BlockIndex \in BlockIds /\ BlockIndex \in Range(lru)
      BY <1>1 DEF TypeOK, LruMirrorsBlocks
    <2> DEFINE t == TouchLru(lru, BlockIndex)
    <2>2. /\ t \in Seq(BlockIds) /\ IsInjective(t)
          /\ Range(t) = Range(lru) \union {BlockIndex}
          /\ Len(t) <= Len(lru)
      BY <2>1, TouchInList
    <2>3. lru' = t
      BY <1>1
    <2> HIDE DEF t
    <2>4. Len(t) <= MaxBlocks
      <3>1. Len(t) \in Nat /\ Len(lru) \in Nat
        BY <2>1, <2>2
      <3>2. QED
        BY <2>1, <2>2, <3>1
    <2>5. QED
      BY <1>1, <2>1, <2>2, <2>3, <2>4
  <1>6. TypeOK'
    BY <1>1, <1>4, <1>5 DEF TypeOK
  <1>7. CacheCoherent'
    BY <1>1 DEF CacheCoherent
  <1>8. QED
    BY <1>4, <1>5, <1>6, <1>7 DEF ReadInv, LruMirrorsBlocks

(* A block the reader delivers enters the cache as it is delivered. *)
LEMMA MissInv ==
  ASSUME ReadInv, NEW n \in 0 .. Available(BlockIndex * BlockSize), ReadBlockMiss(n)
  PROVE  ReadInv'
  <1> DEFINE start == BlockStart(BlockIndex)
             used  == TouchLru(lru, BlockIndex)
             keep  == (DOMAIN blocks \union {BlockIndex}) \ Evicted(used)
  <1>1. /\ TypeOK /\ LruMirrorsBlocks /\ CacheCoherent /\ OutIsImagePrefix
        /\ reading /\ BlockIndex \notin DOMAIN blocks
        /\ damaged' = damaged \union (start + n .. start + Available(start) - 1)
        /\ blocks' = [b \in keep |-> IF b = BlockIndex THEN Bytes(start, n) ELSE blocks[b]]
        /\ lru' = SubSeq(used, 1, Least(Len(used), MaxBlocks))
        /\ Consume(Bytes(start, n))
        /\ closed' = closed
    BY DEF ReadInv, ReadBlockMiss
  <1>2. /\ start \in Nat /\ start < ImageSize /\ BlockIndex \in BlockIds
        /\ Available(start) \in Nat /\ start + Available(start) <= ImageSize
        /\ n \in 0 .. Available(start) /\ n \in Nat /\ n <= Available(start)
    BY <1>1, CursorInBlock DEF BlockStart
  <1>3. /\ reading' \in BOOLEAN /\ cursor' \in Nat
        /\ out' \in Seq(0 .. ImageSize - 1)
        /\ offset' \in Nat /\ length' \in Nat /\ status' \in {"none", "data", "error"}
        /\ OutIsImagePrefix' /\ CompleteUnlessDamaged'
    <2>1. start + n .. start + Available(start) - 1 \subseteq damaged'
      BY <1>1
    <2>2. QED
      BY <1>1, <1>2, <2>1, ConsumeProperties
  <1>4. /\ lru' \in Seq(BlockIds) /\ IsInjective(lru')
        /\ Range(lru') = DOMAIN blocks'
        /\ Len(lru') <= MaxBlocks
    <2>1. lru \in Seq(BlockIds) /\ IsInjective(lru) /\ Range(lru) = DOMAIN blocks
      BY <1>1 DEF TypeOK, LruMirrorsBlocks
    <2>2. /\ used \in Seq(BlockIds) /\ IsInjective(used)
          /\ Range(used) = Range(lru) \union {BlockIndex}
      BY <1>2, <2>1, TouchInList
    <2>3. /\ lru' \in Seq(BlockIds) /\ IsInjective(lru')
          /\ Range(lru') = Range(used) \ Evicted(used)
          /\ Len(lru') <= MaxBlocks
      BY <1>1, <2>2, CutProperties
    <2>4. DOMAIN blocks' = keep
      BY <1>1
    <2>5. QED
      BY <2>1, <2>2, <2>3, <2>4
  <1> HIDE DEF used
  <1>5. \A b \in DOMAIN blocks' :
          \/ b = BlockIndex /\ blocks'[b] = Bytes(start, n)
          \/ b \in DOMAIN blocks /\ blocks'[b] = blocks[b]
    BY <1>1
  <1>6. TypeOK'
    <2>1. Bytes(start, n) \in Seq(0 .. ImageSize - 1)
      <3>1. \A i \in 1 .. n : start + i - 1 \in 0 .. ImageSize - 1
        BY <1>2
      <3>2. QED
        BY <1>2, <3>1 DEF Bytes
    <2>2. /\ DOMAIN blocks' \subseteq BlockIds
          /\ \A b \in DOMAIN blocks' : blocks'[b] \in Seq(0 .. ImageSize - 1)
      BY <1>1, <1>2, <1>5, <2>1 DEF TypeOK
    <2>3. damaged' \subseteq 0 .. ImageSize - 1
      <3>1. start + n .. start + Available(start) - 1 \subseteq 0 .. ImageSize - 1
        BY <1>2
      <3>2. QED
        BY <1>1, <3>1 DEF TypeOK
    <2>4. closed' \in BOOLEAN
      BY <1>1 DEF TypeOK
    <2>5. QED
      BY <1>3, <1>4, <2>2, <2>3, <2>4 DEF TypeOK
  <1>7. CacheCoherent'
    <2> SUFFICES ASSUME NEW b \in DOMAIN blocks'
                 PROVE  LET at == b * BlockSize
                            k  == Len(blocks'[b])
                        IN  /\ k <= Available(at)
                            /\ blocks'[b] = Bytes(at, k)
                            /\ (at + k .. at + Available(at) - 1) \subseteq damaged'
      BY DEF CacheCoherent
    <2>1. CASE b = BlockIndex /\ blocks'[b] = Bytes(start, n)
      <3>1. Len(Bytes(start, n)) = n
        BY <1>2 DEF Bytes
      <3>2. start = b * BlockSize
        BY <2>1 DEF BlockStart
      <3>3. (start + n .. start + Available(start) - 1) \subseteq damaged'
        BY <1>1
      <3> HIDE DEF start
      <3>4. QED
        BY <1>2, <2>1, <3>1, <3>2, <3>3
    <2>2. CASE b \in DOMAIN blocks /\ blocks'[b] = blocks[b]
      <3>1. damaged \subseteq damaged'
        BY <1>1
      <3>2. /\ Len(blocks[b]) <= Available(b * BlockSize)
            /\ blocks[b] = Bytes(b * BlockSize, Len(blocks[b]))
            /\ (b * BlockSize + Len(blocks[b]) .. b * BlockSize + Available(b * BlockSize) - 1)
                 \subseteq damaged
        BY <1>1, <2>2 DEF CacheCoherent
      <3>3. QED
        BY <2>2, <3>1, <3>2
    <2>3. QED
      BY <1>5, <2>1, <2>2
  <1>8. QED
    BY <1>3, <1>4, <1>6, <1>7 DEF ReadInv, LruMirrorsBlocks

LEMMA BeginInv ==
  ASSUME ReadInv, NEW off \in 0 .. MaxOffset, NEW len \in 0 .. MaxLength,
         ReadAnsweredAtOnce(off, len) \/ ReadBegins(off, len)
  PROVE  ReadInv'
  <1>1. TypeOK /\ LruMirrorsBlocks /\ CacheCoherent
    BY DEF ReadInv
  <1>2. /\ closed' = closed /\ blocks' = blocks /\ lru' = lru /\ damaged' = damaged
        /\ offset' = off /\ cursor' = off /\ out' = <<>>
    BY DEF ReadAnsweredAtOnce, ReadBegins, cache
  <1>3. off \in Nat /\ len \in Nat
    OBVIOUS
  <1>4. LruMirrorsBlocks' /\ CacheCoherent'
    BY <1>1, <1>2 DEF LruMirrorsBlocks, CacheCoherent
  <1>5. out' = Bytes(offset', Len(out')) /\ Len(out') = 0 /\ out' \in Seq(0 .. ImageSize - 1)
    BY <1>2 DEF Bytes
  <1>6. CASE ReadAnsweredAtOnce(off, len)
    <2>1. length' \in Nat /\ reading' = reading /\ reading = FALSE /\ status' \in {"data", "error"}
      BY <1>3, <1>6 DEF ReadAnsweredAtOnce, Least
    <2>2. closed \/ length' = 0
      BY <1>6 DEF ReadAnsweredAtOnce
    <2>3. status' = "data" => length' = 0
      BY <1>6, <2>2 DEF ReadAnsweredAtOnce
    <2>4. TypeOK'
      BY <1>1, <1>2, <1>3, <1>5, <2>1 DEF TypeOK
    <2>5. OutIsImagePrefix' /\ CompleteUnlessDamaged'
      BY <1>5, <2>1, <2>3 DEF OutIsImagePrefix, CompleteUnlessDamaged
    <2>6. QED
      BY <1>4, <2>4, <2>5 DEF ReadInv
  <1>7. CASE ReadBegins(off, len)
    <2>1. /\ reading' = TRUE /\ status' = status
          /\ length' \in Nat /\ length' > 0 /\ off + length' <= ImageSize
      BY <1>3, <1>7 DEF ReadBegins, Least
    <2>2. TypeOK'
      BY <1>1, <1>2, <1>3, <1>5, <2>1 DEF TypeOK
    <2>3. /\ cursor' = offset' + Len(out') /\ Len(out') < length' /\ Len(out') <= length'
          /\ offset' + length' <= ImageSize
      <3>1. offset' = off /\ cursor' = off /\ Len(out') = 0
        BY <1>2, <1>5
      <3>2. cursor' = offset' + Len(out')
        BY <1>3, <3>1
      <3>3. Len(out') < length' /\ Len(out') <= length'
        BY <2>1, <3>1
      <3>4. QED
        BY <2>1, <3>1, <3>2, <3>3
    <2>4. OutIsImagePrefix'
      BY <1>5, <2>3 DEF OutIsImagePrefix
    <2>5. CompleteUnlessDamaged'
      BY <2>1 DEF CompleteUnlessDamaged
    <2>6. QED
      BY <1>4, <2>2, <2>4, <2>5 DEF ReadInv
  <1>8. QED
    BY <1>6, <1>7

LEMMA ErrorInv ==
  ASSUME ReadInv, ReadBlockError
  PROVE  ReadInv'
  <1>1. TypeOK /\ LruMirrorsBlocks /\ CacheCoherent
    BY DEF ReadInv
  <1>2. /\ closed' = closed /\ blocks' = blocks /\ lru' = lru /\ damaged' = damaged
        /\ offset' = offset /\ length' = length /\ cursor' = cursor
        /\ out' = <<>> /\ status' = "error" /\ reading' = FALSE
    BY DEF ReadBlockError, ErrorPayload, cache, request
  <1>3. LruMirrorsBlocks' /\ CacheCoherent'
    BY <1>1, <1>2 DEF LruMirrorsBlocks, CacheCoherent
  <1>4. out' = Bytes(offset', Len(out')) /\ Len(out') = 0 /\ out' \in Seq(0 .. ImageSize - 1)
    BY <1>2 DEF Bytes
  <1>5. TypeOK'
    BY <1>1, <1>2, <1>4 DEF TypeOK
  <1>6. OutIsImagePrefix' /\ CompleteUnlessDamaged'
    BY <1>1, <1>2, <1>4 DEF OutIsImagePrefix, CompleteUnlessDamaged, TypeOK
  <1>7. QED
    BY <1>3, <1>5, <1>6 DEF ReadInv

LEMMA CloseInv ==
  ASSUME ReadInv, Close
  PROVE  ReadInv'
  <1>1. TypeOK /\ OutIsImagePrefix /\ CompleteUnlessDamaged
    BY DEF ReadInv
  <1>2. /\ closed' = TRUE /\ damaged' = damaged /\ reading' = reading
        /\ offset' = offset /\ length' = length /\ cursor' = cursor
        /\ out' = out /\ status' = status
        /\ DOMAIN blocks' = {} /\ lru' = <<>>
    BY DEF Close, request
  <1>3. Range(lru') = {} /\ IsInjective(lru') /\ Len(lru') = 0 /\ lru' \in Seq(BlockIds)
    BY <1>2 DEF Range, IsInjective
  <1>4. TypeOK'
    BY <1>1, <1>2, <1>3 DEF TypeOK
  <1>5. LruMirrorsBlocks' /\ CacheCoherent'
    BY <1>2, <1>3 DEF LruMirrorsBlocks, CacheCoherent
  <1>6. OutIsImagePrefix' /\ CompleteUnlessDamaged'
    BY <1>1, <1>2 DEF OutIsImagePrefix, CompleteUnlessDamaged
  <1>7. QED
    BY <1>4, <1>5, <1>6 DEF ReadInv

LEMMA StepInv == ReadInv /\ [Next]_vars => ReadInv'
  <1> SUFFICES ASSUME ReadInv, [Next]_vars PROVE ReadInv'
    OBVIOUS
  <1>1. CASE \E off \in 0 .. MaxOffset, len \in 0 .. MaxLength :
               ReadAnsweredAtOnce(off, len) \/ ReadBegins(off, len)
    BY <1>1, BeginInv
  <1>2. CASE ReadBlockHit
    BY <1>2, HitInv
  <1>3. CASE \E n \in 0 .. Available(BlockIndex * BlockSize) : ReadBlockMiss(n)
    BY <1>3, MissInv
  <1>4. CASE ReadBlockError
    BY <1>4, ErrorInv
  <1>5. CASE Close
    BY <1>5, CloseInv
  <1>6. CASE UNCHANGED vars
    BY <1>6 DEF vars, cache, request, ReadInv, TypeOK, LruMirrorsBlocks, CacheCoherent,
                OutIsImagePrefix, CompleteUnlessDamaged
  <1>7. QED
    BY <1>1, <1>2, <1>3, <1>4, <1>5, <1>6 DEF Next, ReadStep

LEMMA Invariance == Spec => []ReadInv
  BY InitInv, StepInv, PTL DEF Spec
-----------------------------------------------------------------------------
(* Type correctness of bridge, cache and reader state. *)
THEOREM CacheTypes == Spec => []TypeOK
  <1>1. ReadInv => TypeOK
    BY DEF ReadInv
  <1>2. QED
    BY <1>1, Invariance, PTL

(* The LRU list and the block table agree and never exceed the capacity,   *)
(* for every capacity and block size.                                      *)
THEOREM LruMirrorsBlocksAlways == Spec => []LruMirrorsBlocks
  <1>1. ReadInv => LruMirrorsBlocks
    BY DEF ReadInv
  <1>2. QED
    BY <1>1, Invariance, PTL

(* Cached bytes are the image's bytes, short only where the device failed. *)
THEOREM CacheCoherentAlways == Spec => []CacheCoherent
  <1>1. ReadInv => CacheCoherent
    BY DEF ReadInv
  <1>2. QED
    BY <1>1, Invariance, PTL

(* A read returns image bytes from the requested offset on, and it returns *)
(* all of them unless the device withheld the byte it stops at.            *)
THEOREM ReadsAreExact == Spec => [](OutIsImagePrefix /\ CompleteUnlessDamaged)
  <1>1. ReadInv => OutIsImagePrefix /\ CompleteUnlessDamaged
    BY DEF ReadInv
  <1>2. QED
    BY <1>1, Invariance, PTL

-----------------------------------------------------------------------------
(* The refinement of ImageRead, step by step. *)

LEMMA InitRefines == Init => Promise!Init
  BY DEF Init, Promise!Init

(* The two ways a callback begins are the two branches of Ask. *)
LEMMA BeginRefines ==
  ASSUME ReadInv, NEW off \in 0 .. MaxOffset, NEW len \in 0 .. MaxLength,
         ReadAnsweredAtOnce(off, len) \/ ReadBegins(off, len)
  PROVE  Promise!Ask(off, len)
  <1>1. off \in Nat /\ len \in Nat
    OBVIOUS
  <1>2. /\ ~reading /\ closed' = closed /\ damaged' = damaged
        /\ offset' = off /\ out' = <<>>
    BY DEF ReadAnsweredAtOnce, ReadBegins
  <1>3. CASE ReadAnsweredAtOnce(off, len)
    <2>1. length' = Promise!Clamped(off, len)
      BY <1>1, <1>3 DEF ReadAnsweredAtOnce, Promise!Clamped, Least
    <2>2. /\ closed \/ length' = 0
          /\ status' = IF closed THEN "error" ELSE "data"
          /\ reading' = reading
      BY <1>3 DEF ReadAnsweredAtOnce
    <2>3. QED
      BY <1>2, <2>1, <2>2 DEF Promise!Ask
  <1>4. CASE ReadBegins(off, len)
    <2>1. length' = Promise!Clamped(off, len) /\ length' # 0
      BY <1>1, <1>4 DEF ReadBegins, Promise!Clamped, Least
    <2>2. ~closed /\ reading' = TRUE /\ status' = status
      BY <1>4 DEF ReadBegins
    <2>3. QED
      BY <1>2, <2>1, <2>2 DEF Promise!Ask
  <1>5. QED
    BY <1>3, <1>4

(* An iteration that goes on may withhold positions and shows nothing; one *)
(* that leaves the loop answers, with what the invariant says of out.      *)
LEMMA ConsumeRefines ==
  ASSUME ReadInv, ReadInv', reading, NEW block, Consume(block), closed' = closed,
         NEW more \in SUBSET (0 .. ImageSize - 1), damaged' = damaged \union more
  PROVE  Promise!Withhold \/ Promise!Answer
  <1>1. offset' = offset /\ length' = length
    BY DEF Consume, request
  <1>2. (reading' = reading /\ status' = status) \/ (reading' = FALSE /\ status' = "data")
    BY DEF Consume, LeaveLoop
  <1>3. CASE reading' = reading /\ status' = status
    BY <1>1, <1>3 DEF Promise!Withhold
  <1>4. CASE reading' = FALSE /\ status' = "data"
    <2> DEFINE n == Len(out')
    <2>1. n \in Nat /\ length \in Nat /\ offset \in Nat
      BY DEF ReadInv, TypeOK
    <2>2. n <= length /\ out' = Bytes(offset, n)
      BY <1>1 DEF ReadInv, OutIsImagePrefix
    <2>3. n = length \/ offset + n \in damaged'
      BY <1>1, <1>4 DEF ReadInv, CompleteUnlessDamaged
    <2>4. out' = Promise!Bytes(offset, n)
      BY <2>2 DEF Bytes, Promise!Bytes
    <2> HIDE DEF n
    <2>5. n \in 0 .. length
      BY <2>1, <2>2
    <2>6. \E k \in 0 .. length : /\ k = length \/ offset + k \in damaged'
                                 /\ out' = Promise!Bytes(offset, k)
      BY <2>3, <2>4, <2>5
    <2>7. QED
      BY <1>1, <1>4, <2>6 DEF Promise!Answer
  <1>5. QED
    BY <1>2, <1>3, <1>4

LEMMA HitRefines ==
  ASSUME ReadInv, ReadInv', ReadBlockHit
  PROVE  Promise!Withhold \/ Promise!Answer
  <1>1. /\ reading /\ Consume(blocks[BlockIndex]) /\ closed' = closed
        /\ damaged' = damaged \union {}
    BY DEF ReadBlockHit
  <1>2. {} \in SUBSET (0 .. ImageSize - 1)
    OBVIOUS
  <1>3. QED
    BY <1>1, <1>2, ConsumeRefines

LEMMA MissRefines ==
  ASSUME ReadInv, ReadInv', NEW n \in 0 .. Available(BlockIndex * BlockSize), ReadBlockMiss(n)
  PROVE  Promise!Withhold \/ Promise!Answer
  <1> DEFINE start == BlockStart(BlockIndex)
             more  == start + n .. start + Available(start) - 1
  <1>1. /\ reading /\ Consume(Bytes(start, n)) /\ closed' = closed
        /\ damaged' = damaged \union more
    BY DEF ReadBlockMiss
  <1>2. /\ start \in Nat /\ Available(start) \in Nat /\ n \in Nat
        /\ start + Available(start) <= ImageSize
    BY <1>1, CursorInBlock DEF BlockStart, ReadInv
  <1>3. more \in SUBSET (0 .. ImageSize - 1)
    <2> HIDE DEF start
    <2>1. QED
      BY <1>2
  <1> HIDE DEF more
  <1>4. QED
    BY <1>1, <1>3, ConsumeRefines

LEMMA ErrorRefines ==
  ASSUME ReadBlockError
  PROVE  Promise!Answer
  <1>1. /\ reading /\ reading' = FALSE /\ status' = "error" /\ out' = <<>>
        /\ closed' = closed /\ offset' = offset /\ length' = length
        /\ damaged' = damaged \union {}
    BY DEF ReadBlockError, ErrorPayload, request
  <1>2. {} \in SUBSET (0 .. ImageSize - 1)
    OBVIOUS
  <1>3. \E more \in SUBSET (0 .. ImageSize - 1) : damaged' = damaged \union more
    BY <1>1, <1>2
  <1>4. QED
    BY <1>1, <1>3 DEF Promise!Answer

LEMMA CloseRefines ==
  ASSUME Close
  PROVE  Promise!Close
  BY DEF Close, request, Promise!Close

(* Every step of the bridge is a step of ImageRead or shows nothing. *)
LEMMA StepRefines == ReadInv /\ ReadInv' /\ [Next]_vars => [Promise!Next]_(Promise!vars)
  <1> SUFFICES ASSUME ReadInv, ReadInv', [Next]_vars PROVE [Promise!Next]_(Promise!vars)
    OBVIOUS
  <1>1. ASSUME NEW off \in 0 .. MaxOffset, NEW len \in 0 .. MaxLength,
               ReadAnsweredAtOnce(off, len) \/ ReadBegins(off, len)
        PROVE  Promise!Next
    BY <1>1, BeginRefines DEF Promise!Next
  <1>2. CASE ReadBlockHit
    BY <1>2, HitRefines DEF Promise!Next
  <1>3. CASE \E n \in 0 .. Available(BlockIndex * BlockSize) : ReadBlockMiss(n)
    BY <1>3, MissRefines DEF Promise!Next
  <1>4. CASE ReadBlockError
    BY <1>4, ErrorRefines DEF Promise!Next
  <1>5. CASE Close
    BY <1>5, CloseRefines DEF Promise!Next
  <1>6. CASE UNCHANGED vars
    BY <1>6 DEF vars, request, Promise!vars
  <1>7. QED
    BY <1>1, <1>2, <1>3, <1>4, <1>5, <1>6 DEF Next, ReadStep

(* The cache is invisible: every behaviour of bridge, cache and reader is, *)
(* but for what it must eventually do, one of a bridge that answers each   *)
(* callback from the image in a single step                                *)
(* (TskReaderBridge::readFromStateForTest over ReadCache::read).           *)
THEOREM CacheIsInvisible == Spec => Promise!Safety
  BY Invariance, InitRefines, StepRefines, PTL DEF Spec, Promise!Safety
=============================================================================
