------------------------------ MODULE FatTable ------------------------------
(***************************************************************************)
(* FAT_NextCluster and its cache of the allocation table, as stage2/fat.c  *)
(* has them: FAT_Data.FatCache holds FAT_CACHE_SIZE consecutive sectors of *)
(* the table, FatCachePosition says which one comes first.  A call finds   *)
(* the byte offset of the cluster's entry, refills the cache when that     *)
(* offset is outside the window (the result of FAT_ReadFat is not looked   *)
(* at), and decodes two or four bytes of the cache.                        *)
(*                                                                         *)
(* The bytes are real bytes.  SECTOR_SIZE, FAT_CACHE_SIZE and the width of *)
(* a word are parameters, so that TLC can take small ones.                 *)
(***************************************************************************)
EXTENDS Integers

CONSTANTS
    SECTOR_SIZE,     \* bytes of a sector
    FAT_CACHE_SIZE,  \* sectors of the cache
    WORD,            \* uint32_t arithmetic is modulo WORD
    MaxCluster,      \* clusters are numbered 2 .. MaxCluster
    VolumeBytes,     \* bytes of the volume from the start of the table on
    FatBytes,        \* FatBytes[type][i] is byte i of them, by table format
    LeftInMemory     \* bytes the cache may hold before its first fill

FatTypes  == {12, 16, 32}
Byte      == 0 .. 255
Clusters  == 2 .. MaxCluster
CacheBytes == FAT_CACHE_SIZE * SECTOR_SIZE
CacheIndex == 0 .. CacheBytes - 1

\* The byte offset of a cluster's entry in a table of the given type.
FatIndex(type, c) == CASE type = 12 -> (c * 3) \div 2
                       [] type = 16 -> c * 2
                       [] OTHER     -> c * 4

\* What the code takes for "read the table again": FatCachePosition before
\* the first fill, 0xFFFFFFFF.
NOT_LOADED == WORD - 1

\* All values from 0xFFFFFFF8 up, which FAT_Read treats alike.
END == -1

ASSUME SizeAssumption ==
    /\ SECTOR_SIZE \in Nat \ {0} /\ SECTOR_SIZE % 4 = 0
    /\ FAT_CACHE_SIZE \in Nat \ {0}
    /\ MaxCluster \in Nat

\* The window that starts at a cluster's entry lies on the volume, and its
\* sector numbers do not wrap around.
ASSUME WordAssumption ==
    /\ WORD \in Nat \ {0}
    /\ VolumeBytes \in Nat
    /\ \A type \in FatTypes, c \in Clusters :
          LET end == FatIndex(type, c) \div SECTOR_SIZE + FAT_CACHE_SIZE
          IN  end < WORD /\ end * SECTOR_SIZE <= VolumeBytes

ASSUME TableAssumption ==
    /\ LeftInMemory \in (SUBSET Byte) \ {{}}
    /\ FatBytes \in [FatTypes -> [0 .. VolumeBytes - 1 -> Byte]]

VARIABLES
    fatType,           \* g_FatType
    FatCache,          \* the cached bytes
    FatCachePosition,  \* number of the first cached sector of the table
    cluster,           \* argument of the last call, 0 before the first
    next,              \* what that call returned
    stale              \* history: the read that chose the window failed

vars == <<fatType, FatCache, FatCachePosition, cluster, next, stale>>
-----------------------------------------------------------------------------
Init ==
    /\ fatType \in FatTypes
    /\ FatCache \in {[i \in CacheIndex |-> b] : b \in LeftInMemory}
    /\ FatCachePosition = NOT_LOADED
    /\ cluster = 0
    /\ next = 0
    /\ stale = FALSE

\* Mutant: > for >= in fat.c:269, a window one sector too long.
InWindow_OneMore(sector) ==
    /\ sector >= FatCachePosition
    /\ sector <= (FatCachePosition + FAT_CACHE_SIZE) % WORD

\* fat.c:268, the test that decides on a refill; the sum is a uint32_t.
InWindow(sector) ==
    /\ sector >= FatCachePosition
    /\ sector < (FatCachePosition + FAT_CACHE_SIZE) % WORD

\* The byte at offset i from FatCache.  The last two-byte read of a window
\* may reach one byte beyond the array: there lies the lowest byte of
\* FatCachePosition, the next member of FAT_Data.
ByteAt(cache, position, i) ==
    IF i \in CacheIndex THEN cache[i] ELSE position % 256

\* The little-endian number in the two bytes at offset i.
Word16(cache, position, i) ==
    ByteAt(cache, position, i) + 256 * ByteAt(cache, position, i + 1)

\* Mutant: the halves of an odd and an even entry are swapped.
Decode12_Parity(c, word) ==
    LET n == IF c % 2 # 0 THEN word % 4096 ELSE word \div 16
    IN  IF n >= 4088 THEN END ELSE n

\* fat.c:278-287: half of the word is the entry; the end marks 0xFF8 .. 0xFFF
\* are widened to 32 bits.
Decode12(c, word) ==
    LET n == IF c % 2 = 0 THEN word % 4096 ELSE word \div 16
    IN  IF n >= 4088 THEN END ELSE n

\* fat.c:288-293: 0xFFF8 .. 0xFFFF are widened.
Decode16(word) == IF word >= 65528 THEN END ELSE word

\* fat.c:294-296: all 32 bits are taken as they are.
Decode32(low, high) ==
    IF low >= 65528 /\ high = 65535 THEN END ELSE low + 65536 * high

\* fat.c:275-298, the value returned for cluster c out of a cache.
Decode(type, cache, position, c) ==
    LET at == FatIndex(type, c) - position * SECTOR_SIZE
    IN  CASE type = 12 -> Decode12(c, Word16(cache, position, at))
          [] type = 16 -> Decode16(Word16(cache, position, at))
          [] OTHER     -> Decode32(Word16(cache, position, at),
                                   Word16(cache, position, at + 2))

\* FAT_ReadFat succeeds: the cache is the window that starts at sector.
ReadFat(sector) ==
    /\ FatCache' = [i \in CacheIndex |->
                       FatBytes[fatType][sector * SECTOR_SIZE + i]]
    /\ stale' = FALSE

\* FAT_ReadFat fails after some of the sectors have arrived.
ReadFatFails(sector) ==
    /\ \E arrived \in 0 .. FAT_CACHE_SIZE :
          FatCache' = [i \in CacheIndex |->
                         IF i < arrived * SECTOR_SIZE
                         THEN FatBytes[fatType][sector * SECTOR_SIZE + i]
                         ELSE FatCache[i]]
    /\ stale' = TRUE

Answer(c) ==
    /\ cluster' = c
    /\ next' = Decode(fatType, FatCache', FatCachePosition', c)
    /\ UNCHANGED fatType

\* A call answered from the cache.
NextClusterCached(c) ==
    /\ InWindow(FatIndex(fatType, c) \div SECTOR_SIZE)
    /\ UNCHANGED <<FatCache, FatCachePosition, stale>>
    /\ Answer(c)

\* Mutant: FatCachePosition is set to the window's aligned beginning, the
\* read still starts at the entry's sector.
NextClusterRefill_Aligned(c) ==
    LET sector == FatIndex(fatType, c) \div SECTOR_SIZE
    IN  /\ ~InWindow(sector)
        /\ ReadFat(sector) \/ ReadFatFails(sector)
        /\ FatCachePosition' = sector - (sector % FAT_CACHE_SIZE)
        /\ Answer(c)

\* Mutant: the window is taken to begin one sector early.
NextClusterRefill_Before(c) ==
    LET sector == FatIndex(fatType, c) \div SECTOR_SIZE
    IN  /\ ~InWindow(sector)
        /\ ReadFat(sector) \/ ReadFatFails(sector)
        /\ FatCachePosition' = sector - 1
        /\ Answer(c)

\* A call that has to refill the cache.
NextClusterRefill(c) ==
    LET sector == FatIndex(fatType, c) \div SECTOR_SIZE
    IN  /\ ~InWindow(sector)
        /\ ReadFat(sector) \/ ReadFatFails(sector)
        /\ FatCachePosition' = sector
        /\ Answer(c)

NextCluster(c) == NextClusterCached(c) \/ NextClusterRefill(c)

Next == \E c \in Clusters : NextCluster(c)

Spec == Init /\ [][Next]_vars
-----------------------------------------------------------------------------
TypeOK ==
    /\ fatType \in FatTypes
    /\ FatCache \in [CacheIndex -> Byte]
    /\ FatCachePosition \in 0 .. WORD - 1
    /\ cluster \in {0} \cup Clusters
    /\ next \in Nat \cup {END}
    /\ stale \in BOOLEAN

\* The reference: entry number c of the table, read off the volume itself.  A
\* FAT12 table is a string of half-bytes, three to an entry.
HalfByte(type, n) == IF n % 2 = 0 THEN FatBytes[type][n \div 2] % 16
                                  ELSE FatBytes[type][n \div 2] \div 16

TableEntry(type, c) ==
    LET n12 == HalfByte(type, 3 * c) + 16 * HalfByte(type, 3 * c + 1)
                                     + 256 * HalfByte(type, 3 * c + 2)
        n16 == FatBytes[type][2 * c] + 256 * FatBytes[type][2 * c + 1]
        low  == FatBytes[type][4 * c] + 256 * FatBytes[type][4 * c + 1]
        high == FatBytes[type][4 * c + 2] + 256 * FatBytes[type][4 * c + 3]
    IN  CASE type = 12 -> IF n12 >= 4088  THEN END ELSE n12
          [] type = 16 -> IF n16 >= 65528 THEN END ELSE n16
          [] OTHER     -> IF low >= 65528 /\ high = 65535 THEN END
                                                      ELSE low + 65536 * high

\* The entry of the last call begins in the last byte of the window.
Straddles ==
    /\ fatType = 12
    /\ FatIndex(12, cluster) = FatCachePosition * SECTOR_SIZE + CacheBytes - 1

\* Whatever sequence of clusters is asked for, and however reads failed
\* before, a cache filled by a successful read holds exactly the sectors
\* FatCachePosition says (the pairing of fat.c:271 and 272 with the test of
\* fat.c:268, the "nothing loaded" value included).
CacheCoherent ==
    ~stale /\ FatCachePosition # NOT_LOADED =>
        \A i \in CacheIndex :
            FatCache[i] = FatBytes[fatType][FatCachePosition * SECTOR_SIZE + i]

\* FAT_NextCluster returns the table's entry for its argument, on all three
\* table formats, unless the window's read had failed or the entry lies
\* across the end of the window.
NextClusterCorrect ==
    cluster # 0 /\ ~stale /\ ~Straddles => next = TableEntry(fatType, cluster)

\* What "Make sure cache has the right number" (fat.c:266) promises: no
\* exception for the place of the entry in the window.
CacheHasTheRightNumber ==
    cluster # 0 /\ ~stale => next = TableEntry(fatType, cluster)
=============================================================================
