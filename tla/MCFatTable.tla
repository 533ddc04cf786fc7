----------------------------- MODULE MCFatTable -----------------------------
(***************************************************************************)
(* FatTable with sectors of 4 bytes, a cache of 2 sectors, 15 clusters and *)
(* words of 6 bits.                                                        *)
(***************************************************************************)
EXTENDS FatTable

\* Bytes that differ from one sector to the next, with end marks: FAT12
\* entries 6 and 9, FAT16 entry 5.  The first byte of each table's second
\* window differs from what the cache held before.
MCFatBytes ==
    [type \in FatTypes |->
        [i \in 0 .. VolumeBytes - 1 |->
            CASE type = 12 /\ i \in {9, 14} -> 255
              [] type = 12 /\ i = 10        -> 79
              [] type = 12 /\ i = 13        -> 129
              [] type = 16 /\ i \in {10, 11} -> 255
              [] OTHER -> (i * 37 + type) % 128]]
=============================================================================
