--------------------------- MODULE FatTableProofs ---------------------------
(***************************************************************************)
(* For every sector size, cache size, word width and table: the cache is   *)
(* coherent, and FAT_NextCluster returns the table's entry unless a read   *)
(* failed or a FAT12 entry lies across the end of the window.              *)
(***************************************************************************)
EXTENDS FatTable, TLAPS

-----------------------------------------------------------------------------
(* Arithmetic                                                              *)

\* A byte whose sector is one of the n sectors from p on lies in the window
\* of n * S bytes that starts at byte p * S.
LEMMA OffsetInWindow ==
    ASSUME NEW S \in Nat \ {0}, NEW i \in Nat, NEW p \in Nat, NEW n \in Nat,
           p <= i \div S, i \div S < p + n
    PROVE  i - p * S \in 0 .. n * S - 1
<1> DEFINE q == i \div S
           r == i % S
<1>1. q \in Nat /\ r \in 0 .. S - 1 /\ i = q * S + r
  BY SMT
<1>2. PICK k \in Nat : q = p + k /\ k + 1 <= n
  <2>1. q - p \in Nat /\ q = p + (q - p) /\ (q - p) + 1 <= n
    BY <1>1
  <2> QED BY <2>1
<1>3. i - p * S = k * S + r
  BY <1>1, <1>2
<1>4. k * S \in Nat /\ k * S + S <= n * S
  <2>1. PICK m \in Nat : n = k + 1 + m
    <3>1. n - (k + 1) \in Nat /\ n = k + 1 + (n - (k + 1))
      BY <1>2
    <3> QED BY <3>1
  <2>2. n * S = k * S + S + m * S /\ m * S \in Nat /\ k * S \in Nat
    BY <2>1, <1>2
  <2> QED BY <2>2
<1> HIDE DEF q, r
<1>5. k * S + r >= 0 /\ k * S + r <= n * S - 1
  BY <1>1, <1>4
<1> QED BY <1>3, <1>4, <1>5

\* Sectors begin at multiples of 4, and entries of 2 or 4 bytes at multiples of
\* their size, in the table as in a window.
LEMMA AlignedOffset ==
    ASSUME NEW S \in Nat, S % 4 = 0, NEW p \in Nat, NEW i \in Nat
    PROVE  (i * 4 - p * S) % 4 = 0 /\ (i * 2 - p * S) % 2 = 0
<1>1. PICK k \in Nat : S = 4 * k
  BY S % 4 = 0, S = 4 * (S \div 4)
<1>2. PICK u \in Nat : u = p * k
  BY <1>1
<1>3. p * S = 4 * u
  BY <1>1, <1>2
<1>4. \A w \in Int : (w * 4) % 4 = 0 /\ (w * 2) % 2 = 0
  OBVIOUS
<1>5. i * 4 - p * S = (i - u) * 4 /\ i * 2 - p * S = (i - 2 * u) * 2
  BY <1>2, <1>3
<1>6. i - u \in Int /\ i - 2 * u \in Int
  BY <1>2
<1> QED BY <1>4, <1>5, <1>6

LEMMA AlignedSize ==
    ASSUME NEW S \in Nat, S % 4 = 0, NEW n \in Nat
    PROVE  (n * S) % 4 = 0 /\ (n * S) % 2 = 0
<1>1. PICK k \in Nat : S = 4 * k
  BY S % 4 = 0, S = 4 * (S \div 4)
<1>2. PICK v \in Nat : v = n * k
  BY <1>1
<1>3. n * S = 4 * v
  BY <1>1, <1>2
<1>4. \A w \in Nat : (4 * w) % 4 = 0 /\ (4 * w) % 2 = 0
  OBVIOUS
<1> QED BY <1>2, <1>3, <1>4

-----------------------------------------------------------------------------
(* The cache                                                               *)

\* The sector a cluster's entry begins in is never taken for NOT_LOADED, and
\* the window that begins there does not wrap around.
LEMMA SectorOfEntry ==
    ASSUME NEW type \in FatTypes, NEW c \in Clusters
    PROVE  /\ FatIndex(type, c) \in Nat
           /\ FatIndex(type, c) \div SECTOR_SIZE \in Nat
           /\ FatIndex(type, c) \div SECTOR_SIZE + FAT_CACHE_SIZE < WORD
           /\ (FatIndex(type, c) \div SECTOR_SIZE + FAT_CACHE_SIZE) * SECTOR_SIZE
                 <= VolumeBytes
<1>1. FatIndex(type, c) \in Nat
  BY DEF FatTypes, Clusters, FatIndex
<1>2. FatIndex(type, c) \div SECTOR_SIZE \in Nat
  BY <1>1, SizeAssumption
<1> QED BY <1>1, <1>2, WordAssumption

\* After a call for c, the entry's sector is one of those in the window.
LEMMA WindowHoldsSector ==
    ASSUME TypeOK, NEW c \in Clusters, NextCluster(c)
    PROVE  /\ fatType' = fatType /\ cluster' = c
           /\ FatCachePosition' \in Nat
           /\ FatCachePosition' <= FatIndex(fatType, c) \div SECTOR_SIZE
           /\ FatIndex(fatType, c) \div SECTOR_SIZE
                 < FatCachePosition' + FAT_CACHE_SIZE
           /\ FatCachePosition' < NOT_LOADED
<1> DEFINE q == FatIndex(fatType, c) \div SECTOR_SIZE
<1>1. q \in Nat /\ q + FAT_CACHE_SIZE < WORD
  BY SectorOfEntry DEF TypeOK
<1>2. FAT_CACHE_SIZE \in Nat \ {0} /\ WORD \in Nat \ {0}
  BY SizeAssumption, WordAssumption
<1>3. fatType' = fatType /\ cluster' = c
  BY DEF NextCluster, NextClusterCached, NextClusterRefill, Answer
<1> HIDE DEF q
<1>4. CASE NextClusterCached(c)
  <2>1. InWindow(q) /\ FatCachePosition' = FatCachePosition
    BY <1>4 DEF NextClusterCached, q
  <2>2. (FatCachePosition + FAT_CACHE_SIZE) % WORD
            <= FatCachePosition + FAT_CACHE_SIZE
    BY <1>2 DEF TypeOK
  <2>3. /\ FatCachePosition' \in Nat
        /\ FatCachePosition' <= q /\ q < FatCachePosition' + FAT_CACHE_SIZE
    BY <1>1, <1>2, <2>1, <2>2 DEF InWindow, TypeOK
  <2> QED BY <1>1, <1>2, <1>3, <2>3 DEF NOT_LOADED, q
<1>5. CASE NextClusterRefill(c)
  <2>1. FatCachePosition' = q
    BY <1>5 DEF NextClusterRefill, q
  <2> QED BY <1>1, <1>2, <1>3, <2>1 DEF NOT_LOADED, q
<1> QED BY <1>4, <1>5 DEF NextCluster

\* The bytes a read can bring in are bytes.
LEMMA VolumeByteType ==
    ASSUME NEW type \in FatTypes, NEW c \in Clusters, NEW i \in CacheIndex
    PROVE  FatBytes[type][(FatIndex(type, c) \div SECTOR_SIZE) * SECTOR_SIZE + i]
              \in Byte
<1> DEFINE q == FatIndex(type, c) \div SECTOR_SIZE
<1>1. /\ q \in Nat /\ (q + FAT_CACHE_SIZE) * SECTOR_SIZE <= VolumeBytes
  BY SectorOfEntry
<1> HIDE DEF q
<1>2. /\ FAT_CACHE_SIZE \in Nat /\ SECTOR_SIZE \in Nat /\ VolumeBytes \in Nat
      /\ i \in Nat /\ i <= FAT_CACHE_SIZE * SECTOR_SIZE - 1
  BY SizeAssumption, WordAssumption DEF CacheIndex, CacheBytes
<1>3. (q + FAT_CACHE_SIZE) * SECTOR_SIZE
         = q * SECTOR_SIZE + FAT_CACHE_SIZE * SECTOR_SIZE
  BY <1>1, <1>2
<1>4. q * SECTOR_SIZE + i \in 0 .. VolumeBytes - 1
  BY <1>1, <1>2, <1>3
<1> QED BY <1>4, TableAssumption DEF q

\* What a refill leaves in the cache, whether or not the read succeeds.
LEMMA CacheType ==
    ASSUME TypeOK, NEW c \in Clusters, NextCluster(c)
    PROVE  FatCache' \in [CacheIndex -> Byte] /\ stale' \in BOOLEAN
<1>1. CASE NextClusterCached(c)
  BY <1>1 DEF NextClusterCached, TypeOK
<1>2. CASE NextClusterRefill(c)
  <2> DEFINE q == FatIndex(fatType, c) \div SECTOR_SIZE
  <2>1. \A i \in CacheIndex : FatBytes[fatType][q * SECTOR_SIZE + i] \in Byte
    BY VolumeByteType DEF TypeOK
  <2>2. ReadFat(q) \/ ReadFatFails(q)
    BY <1>2 DEF NextClusterRefill
  <2> HIDE DEF q
  <2>3. CASE ReadFat(q)
    BY <2>1, <2>3 DEF ReadFat
  <2>4. CASE ReadFatFails(q)
    BY <2>1, <2>4 DEF ReadFatFails, TypeOK
  <2> QED BY <2>2, <2>3, <2>4
<1> QED BY <1>1, <1>2 DEF NextCluster

\* Two bytes of the cache make a natural number.
LEMMA WordType ==
    ASSUME NEW cache \in [CacheIndex -> Byte], NEW position \in Nat, NEW i \in Int
    PROVE  /\ ByteAt(cache, position, i) \in Byte
           /\ Word16(cache, position, i) \in Nat
<1>1. \A j \in Int : ByteAt(cache, position, j) \in Byte
  BY DEF ByteAt, Byte
<1>2. \A x, y \in Byte : x + 256 * y \in Nat
  BY DEF Byte
<1>3. \A j \in Int : j + 1 \in Int
  OBVIOUS
<1>4. \A j \in Int : Word16(cache, position, j) \in Nat
  BY <1>1, <1>2, <1>3 DEF Word16
<1> QED BY <1>1, <1>4

LEMMA DecodeType ==
    ASSUME NEW type \in FatTypes, NEW c \in Clusters, NEW position \in Nat,
           NEW cache \in [CacheIndex -> Byte]
    PROVE  Decode(type, cache, position, c) \in Nat \cup {END}
<1> DEFINE at == FatIndex(type, c) - position * SECTOR_SIZE
           low  == Word16(cache, position, at)
           high == Word16(cache, position, at + 2)
<1>1. at \in Int /\ at + 2 \in Int
  BY SizeAssumption, SectorOfEntry
<1>2. low \in Nat /\ high \in Nat
  BY <1>1, WordType
<1>3. Decode(type, cache, position, c)
         \in {Decode12(c, low), Decode16(low), Decode32(low, high)}
  BY DEF Decode
<1> HIDE DEF low, high
<1>4. /\ Decode12(c, low) \in Nat \cup {END}
      /\ Decode16(low) \in Nat \cup {END}
      /\ Decode32(low, high) \in Nat \cup {END}
  BY <1>2 DEF Decode12, Decode16, Decode32, Clusters
<1> QED BY <1>3, <1>4

\* The type invariant, with everything else, is preserved by a call.
LEMMA TypeStep ==
    ASSUME TypeOK, NEW c \in Clusters, NextCluster(c)
    PROVE  TypeOK'
<1>1. /\ fatType' = fatType /\ cluster' = c
      /\ FatCachePosition' \in 0 .. WORD - 1
  BY WindowHoldsSector, WordAssumption DEF NOT_LOADED
<1>2. FatCache' \in [CacheIndex -> Byte] /\ stale' \in BOOLEAN
  BY CacheType
<1>3. next' = Decode(fatType, FatCache', FatCachePosition', c)
  BY DEF NextCluster, NextClusterCached, NextClusterRefill, Answer
<1>4. next' \in Nat \cup {END}
  BY <1>1, <1>2, <1>3, DecodeType DEF TypeOK
<1> QED BY <1>1, <1>2, <1>4 DEF TypeOK

\* A call leaves the cache coherent.
LEMMA CoherentStep ==
    ASSUME TypeOK, CacheCoherent, NEW c \in Clusters, NextCluster(c)
    PROVE  CacheCoherent'
<1>1. fatType' = fatType
  BY WindowHoldsSector
<1>2. CASE NextClusterCached(c)
  BY <1>1, <1>2 DEF NextClusterCached, CacheCoherent
<1>3. CASE NextClusterRefill(c)
  <2> DEFINE q == FatIndex(fatType, c) \div SECTOR_SIZE
  <2>1. FatCachePosition' = q /\ (ReadFat(q) \/ ReadFatFails(q))
    BY <1>3 DEF NextClusterRefill
  <2> HIDE DEF q
  <2>2. CASE ReadFatFails(q)
    BY <2>2 DEF ReadFatFails, CacheCoherent
  <2>3. CASE ReadFat(q)
    BY <1>1, <2>1, <2>3 DEF ReadFat, CacheCoherent
  <2> QED BY <2>1, <2>2, <2>3
<1> QED BY <1>2, <1>3 DEF NextCluster
-----------------------------------------------------------------------------
(* Decoding                                                                *)

\* The half-bytes of a FAT12 entry, put together, are what the code masks or
\* shifts out of two bytes.
LEMMA HalfBytes ==
    ASSUME NEW x \in Byte, NEW y \in Byte
    PROVE  /\ (x + 256 * y) % 4096
                 = (x % 16) + 16 * (x \div 16) + 256 * (y % 16)
           /\ (x + 256 * y) \div 16
                 = (x \div 16) + 16 * (y % 16) + 256 * (y \div 16)
BY SMT DEF Byte

\* Where the three half-bytes of entry c lie.
LEMMA HalfBytePlaces ==
    ASSUME NEW c \in Nat
    PROVE  /\ c % 2 = 0 =>
                 /\ (3 * c) % 2 = 0     /\ (3 * c) \div 2 = (c * 3) \div 2
                 /\ (3 * c + 1) % 2 # 0 /\ (3 * c + 1) \div 2 = (c * 3) \div 2
                 /\ (3 * c + 2) % 2 = 0 /\ (3 * c + 2) \div 2 = (c * 3) \div 2 + 1
           /\ c % 2 # 0 =>
                 /\ (3 * c) % 2 # 0     /\ (3 * c) \div 2 = (c * 3) \div 2
                 /\ (3 * c + 1) % 2 = 0 /\ (3 * c + 1) \div 2 = (c * 3) \div 2 + 1
                 /\ (3 * c + 2) % 2 # 0 /\ (3 * c + 2) \div 2 = (c * 3) \div 2 + 1
BY SMT

\* In a window that holds the volume's bytes, an entry that is not cut off
\* decodes to the table's entry.
LEMMA DecodeCorrect ==
    ASSUME NEW type \in FatTypes, NEW c \in Clusters, NEW position \in Nat,
           NEW cache \in [CacheIndex -> Byte],
           \A k \in CacheIndex :
              cache[k] = FatBytes[type][position * SECTOR_SIZE + k],
           position <= FatIndex(type, c) \div SECTOR_SIZE,
           FatIndex(type, c) \div SECTOR_SIZE < position + FAT_CACHE_SIZE,
           type = 12 => FatIndex(12, c) # position * SECTOR_SIZE + CacheBytes - 1
    PROVE  Decode(type, cache, position, c) = TableEntry(type, c)
<1> DEFINE i    == FatIndex(type, c)
           base == position * SECTOR_SIZE
           at   == i - base
           V(n) == FatBytes[type][n]
<1>1. i \in Nat /\ base \in Nat /\ c \in Nat /\ at \in Int /\ base + at = i
  BY SectorOfEntry, SizeAssumption DEF Clusters
<1>2. at \in 0 .. CacheBytes - 1
  BY <1>1, OffsetInWindow, SizeAssumption DEF CacheBytes
<1>3. CacheBytes \in Nat
  BY SizeAssumption DEF CacheBytes
<1>4. CacheBytes % 4 = 0 /\ CacheBytes % 2 = 0
  BY AlignedSize, SizeAssumption DEF CacheBytes
<1>5. \A k \in CacheIndex : cache[k] = V(base + k) /\ V(base + k) \in Byte
  OBVIOUS
<1>6. \A j \in CacheIndex : j + 1 \in CacheIndex =>
         Word16(cache, position, j) = V(base + j) + 256 * V(base + (j + 1))
  BY <1>5 DEF Word16, ByteAt
<1> HIDE DEF base, at
<1>7. CASE type = 12
  <2>1. i = (c * 3) \div 2
    BY <1>7 DEF FatIndex
  <2>2. at \in CacheIndex /\ at + 1 \in CacheIndex /\ base + (at + 1) = i + 1
    <3>1. at # CacheBytes - 1
      BY <1>1, <1>3, <1>7 DEF at, base
    <3> QED BY <1>1, <1>2, <1>3, <3>1 DEF CacheIndex
  <2> DEFINE x == V(i)
             y == V(i + 1)
  <2>3. Word16(cache, position, at) = x + 256 * y
        /\ x \in Byte /\ y \in Byte
    BY <1>5, <1>6, <1>1, <2>2
  <2>4. Decode(type, cache, position, c) = Decode12(c, x + 256 * y)
    BY <1>7, <2>3 DEF Decode, at, base
  <2> DEFINE n == HalfByte(12, 3 * c) + 16 * HalfByte(12, 3 * c + 1)
                     + 256 * HalfByte(12, 3 * c + 2)
  <2>5. TableEntry(type, c) = IF n >= 4088 THEN END ELSE n
    BY <1>7 DEF TableEntry
  <2>6. CASE c % 2 = 0
    <3>1. /\ HalfByte(12, 3 * c) = x % 16
          /\ HalfByte(12, 3 * c + 1) = x \div 16
          /\ HalfByte(12, 3 * c + 2) = y % 16
      BY <1>1, <1>7, <2>1, <2>6, HalfBytePlaces DEF HalfByte
    <3> HIDE DEF x, y
    <3>2. n = (x + 256 * y) % 4096
      BY <2>3, <3>1, HalfBytes
    <3> QED BY <2>4, <2>5, <2>6, <3>2 DEF Decode12
  <2>7. CASE c % 2 # 0
    <3>1. /\ HalfByte(12, 3 * c) = x \div 16
          /\ HalfByte(12, 3 * c + 1) = y % 16
          /\ HalfByte(12, 3 * c + 2) = y \div 16
      BY <1>1, <1>7, <2>1, <2>7, HalfBytePlaces DEF HalfByte
    <3> HIDE DEF x, y
    <3>2. n = (x + 256 * y) \div 16
      BY <2>3, <3>1, HalfBytes
    <3> QED BY <2>4, <2>5, <2>7, <3>2 DEF Decode12
  <2> QED BY <2>6, <2>7
<1>8. CASE type = 16
  <2>1. i = c * 2 /\ i = 2 * c /\ i + 1 = 2 * c + 1
    BY <1>1, <1>8 DEF FatIndex
  <2>2. at % 2 = 0
    <3>1. at = c * 2 - position * SECTOR_SIZE
      BY <2>1 DEF at, base
    <3>2. (c * 2 - position * SECTOR_SIZE) % 2 = 0
      BY <1>1, AlignedOffset, SizeAssumption
    <3> QED BY <3>1, <3>2
  <2>3. at \in CacheIndex /\ at + 1 \in CacheIndex /\ base + (at + 1) = i + 1
    BY <1>1, <1>2, <1>3, <1>4, <2>2 DEF CacheIndex
  <2>4. Word16(cache, position, at) = V(2 * c) + 256 * V(2 * c + 1)
    BY <1>6, <1>1, <2>1, <2>3
  <2> QED BY <1>8, <2>4 DEF Decode, at, base, Decode16, TableEntry
<1>9. CASE type = 32
  <2>1. /\ i = c * 4 /\ i = 4 * c /\ i + 1 = 4 * c + 1
        /\ i + 2 = 4 * c + 2 /\ i + 3 = 4 * c + 3
    BY <1>1, <1>9 DEF FatIndex
  <2>2. at % 4 = 0
    <3>1. at = c * 4 - position * SECTOR_SIZE
      BY <2>1 DEF at, base
    <3>2. (c * 4 - position * SECTOR_SIZE) % 4 = 0
      BY <1>1, AlignedOffset, SizeAssumption
    <3> QED BY <3>1, <3>2
  <2>3. /\ at \in CacheIndex /\ at + 1 \in CacheIndex
        /\ at + 2 \in CacheIndex /\ (at + 2) + 1 \in CacheIndex
        /\ base + (at + 1) = i + 1 /\ base + (at + 2) = i + 2
        /\ base + ((at + 2) + 1) = i + 3
    <3>1. at \in Nat /\ at + 3 <= CacheBytes - 1
      BY <1>2, <1>3, <1>4, <2>2
    <3>2. /\ base + (at + 1) = i + 1 /\ base + (at + 2) = i + 2
          /\ base + ((at + 2) + 1) = i + 3
      BY <1>1
    <3> QED BY <1>3, <3>1, <3>2 DEF CacheIndex
  <2>4. /\ Word16(cache, position, at)
             = V(4 * c) + 256 * V(4 * c + 1)
        /\ Word16(cache, position, at + 2)
             = V(4 * c + 2) + 256 * V(4 * c + 3)
    BY <1>6, <1>1, <2>1, <2>3
  <2> QED BY <1>9, <2>4 DEF Decode, at, base, Decode32, TableEntry
<1> QED BY <1>7, <1>8, <1>9 DEF FatTypes
-----------------------------------------------------------------------------
(* The theorems                                                            *)

\* What every state satisfies: the three invariants together are inductive.
IInv == TypeOK /\ CacheCoherent /\ NextClusterCorrect

LEMMA InitIInv == Init => IInv
<1> SUFFICES ASSUME Init PROVE IInv
  OBVIOUS
<1>1. TypeOK
  <2>1. PICK b \in LeftInMemory : FatCache = [i \in CacheIndex |-> b]
    BY DEF Init
  <2>2. FatCache \in [CacheIndex -> Byte]
    BY <2>1, TableAssumption
  <2>3. FatCachePosition \in 0 .. WORD - 1
    BY WordAssumption DEF Init, NOT_LOADED
  <2> QED BY <2>2, <2>3 DEF Init, TypeOK
<1>2. CacheCoherent /\ NextClusterCorrect
  BY DEF Init, CacheCoherent, NextClusterCorrect
<1> QED BY <1>1, <1>2 DEF IInv

LEMMA NextIInv == IInv /\ [Next]_vars => IInv'
<1> SUFFICES ASSUME IInv, [Next]_vars PROVE IInv'
  OBVIOUS
<1>1. CASE UNCHANGED vars
  BY <1>1 DEF IInv, vars, TypeOK, CacheCoherent, NextClusterCorrect, Straddles
<1>2. ASSUME NEW c \in Clusters, NextCluster(c) PROVE IInv'
  <2>1. TypeOK' /\ CacheCoherent'
    BY <1>2, TypeStep, CoherentStep DEF IInv
  <2>2. NextClusterCorrect'
    <3> SUFFICES ASSUME ~stale', ~Straddles'
                 PROVE  next' = TableEntry(fatType', c)
      BY <1>2, WindowHoldsSector DEF IInv, NextClusterCorrect
    <3>1. next' = Decode(fatType', FatCache', FatCachePosition', c)
      BY <1>2 DEF NextCluster, NextClusterCached, NextClusterRefill, Answer
    <3>2. /\ cluster' = c /\ fatType' = fatType
          /\ FatCachePosition' # NOT_LOADED
          /\ FatCachePosition' <= FatIndex(fatType', c) \div SECTOR_SIZE
          /\ FatIndex(fatType', c) \div SECTOR_SIZE
                < FatCachePosition' + FAT_CACHE_SIZE
      BY <1>2, WindowHoldsSector, WordAssumption DEF IInv, NOT_LOADED
    <3>3. \A k \in CacheIndex :
             FatCache'[k] = FatBytes[fatType'][FatCachePosition' * SECTOR_SIZE + k]
      BY <2>1, <3>2 DEF CacheCoherent
    <3>4. /\ fatType' \in FatTypes /\ FatCachePosition' \in Nat
          /\ FatCache' \in [CacheIndex -> Byte]
      BY <2>1 DEF TypeOK
    <3>5. fatType' = 12 =>
             FatIndex(12, c) # FatCachePosition' * SECTOR_SIZE + CacheBytes - 1
      BY <3>2 DEF Straddles
    <3>6. Decode(fatType', FatCache', FatCachePosition', c)
             = TableEntry(fatType', c)
      BY <3>2, <3>3, <3>4, <3>5, DecodeCorrect
    <3> QED BY <3>1, <3>6
  <2> QED BY <2>1, <2>2 DEF IInv
<1> QED BY <1>1, <1>2 DEF Next

\* The variables keep their types, whatever fails.
THEOREM TypeCorrect == Spec => []TypeOK
<1>1. IInv => TypeOK
  BY DEF IInv
<1> QED BY <1>1, InitIInv, NextIInv, PTL DEF Spec

\* A successfully filled cache is the part of the table FatCachePosition
\* names (fat.c:268-273), for all sizes.
THEOREM CacheAlwaysCoherent == Spec => []CacheCoherent
<1>1. IInv => CacheCoherent
  BY DEF IInv
<1> QED BY <1>1, InitIInv, NextIInv, PTL DEF Spec

\* FAT_NextCluster returns the table's entry (fat.c:252-299) on FAT12, FAT16
\* and FAT32, with the two exceptions NextClusterCorrect names.
THEOREM NextClusterAlwaysCorrect == Spec => []NextClusterCorrect
<1>1. IInv => NextClusterCorrect
  BY DEF IInv
<1> QED BY <1>1, InitIInv, NextIInv, PTL DEF Spec
=============================================================================
