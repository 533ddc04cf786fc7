------------------------------- MODULE MCFat -------------------------------
(***************************************************************************)
(* Fat on small volumes, with two units to a sector and two sectors to a   *)
(* cluster.                                                                *)
(***************************************************************************)
EXTENDS Fat

Dir(n, first)        == [name |-> n, dir |-> TRUE, first |-> first, size |-> 0]
File(n, first, size) == [name |-> n, dir |-> FALSE, first |-> first, size |-> size]
Sector(a, b)         == [o \in {0, 1} |-> IF o = 0 THEN a ELSE b]

\* A FAT16 volume.  The root directory has two sectors and "boot" lies in the
\* second; "boot" has two clusters that are not neighbours, and "kernel", in
\* the second of them, fills a cluster; what it holds looks like an entry.
\* Data begins at sector 4: cluster c at 4 + (c - 2) * 2.
Volume16 ==
    [fat32 |-> FALSE, reserved |-> 1, fatCount |-> 1, sectorsPerFat |-> 1,
     dirEntries |-> 4, sectorsPerCluster |-> 2, rootCluster |-> 0,
     totalSectors |-> 10,
     table |-> (2 :> 4) @@ (3 :> END) @@ (4 :> END),
     files |-> (0 :> [chain |-> <<>>,     length |-> 0])
            @@ (2 :> [chain |-> <<2, 4>>, length |-> 8])
            @@ (3 :> [chain |-> <<3>>,    length |-> 4]),
     entries |-> (2 :> Sector(NoEntry, File("empty", 0, 0)))
              @@ (3 :> Sector(Dir("boot", 2), NoEntry))
              @@ (6 :> Sector(NoEntry, File("empty", 0, 0)))
              @@ (8 :> Sector(NoEntry, File("kernel", 3, 4)))]

\* A FAT32 volume with one sector to a cluster.  The root directory is
\* cluster 2, "boot" cluster 4, neither with a successor; "kernel" is cluster
\* 5 then 3 and ends in the middle of a sector.  Data begins at sector 2.
Volume32 ==
    [fat32 |-> TRUE, reserved |-> 1, fatCount |-> 1, sectorsPerFat |-> 1,
     dirEntries |-> 0, sectorsPerCluster |-> 1, rootCluster |-> 2,
     totalSectors |-> 6,
     table |-> (2 :> END) @@ (3 :> END) @@ (4 :> END) @@ (5 :> 3),
     files |-> (2 :> [chain |-> <<2>>,    length |-> 2])
            @@ (4 :> [chain |-> <<4>>,    length |-> 2])
            @@ (5 :> [chain |-> <<5, 3>>, length |-> 3]),
     entries |-> (2 :> Sector(NoEntry, Dir("boot", 4)))
              @@ (4 :> Sector(File("kernel", 5, 3), NoEntry))]

MCVolumes == {Volume16, Volume32}
Volumes16 == {Volume16}
Volumes32 == {Volume32}
MCNames   == {"boot", "empty", "kernel", "none", "odd"}

\* "odd" may be taken for "empty", the others are read as they are.
MCMisread == [n \in MCNames |-> IF n = "odd" THEN {"odd", "empty"} ELSE {n}]

MCRequests == {<<>>, <<"odd">>, <<"empty">>, <<"boot">>, <<"boot", "none">>,
               <<"boot", "kernel">>, <<"boot", "kernel", "none">>,
               <<"boot", "kernel", "empty">>}

=============================================================================
