----------------------------- MODULE FatProofs -----------------------------
(***************************************************************************)
(* For every volume, table of handles, sector size, and set of requests and *)
(* of paths:                                                               *)
(*                                                                         *)
(*  - the driver's variables keep their types, and the table of handles is *)
(*    accounted for;                                                       *)
(*  - what FAT_Read's loop makes of a file's position, cluster, sector and *)
(*    buffer fits the file's chain of clusters, and a read stops where the *)
(*    request or the file does;                                            *)
(*  - what a path names on the volume is worked out component by component, *)
(*    and FAT_Open finds it, by the short names that the components of its *)
(*    path mean.                                                           *)
(***************************************************************************)
EXTENDS OpenPath, PathProofs

-----------------------------------------------------------------------------
(* Least elements                                                          *)

LEMMA MinOfNaturals ==
    ASSUME NEW T, T \subseteq Nat, T # {}
    PROVE  Min(T) \in T
BY Taking!LeastNatural DEF Min

LEMMA MinOfTwo ==
    ASSUME NEW a \in Nat, NEW b \in Nat
    PROVE  /\ Min({a, b}) \in Nat
           /\ Min({a, b}) <= a /\ Min({a, b}) <= b
           /\ Min({a, b}) = a \/ Min({a, b}) = b
<1>1. \E x \in {a, b} : \A y \in {a, b} : x <= y
  <2>1. a <= b \/ b <= a
    OBVIOUS
  <2> QED BY <2>1
<1> QED BY <1>1 DEF Min

-----------------------------------------------------------------------------
(* The volume                                                              *)

LEMMA Quotient ==
    ASSUME NEW n \in Nat, NEW s \in Nat \ {0}
    PROVE  /\ n \div s \in Nat /\ n % s \in 0 .. s - 1
           /\ n = (n \div s) * s + (n % s)
BY SMT

LEMMA BootNumbers ==
    ASSUME NEW v, WellFormedBoot(v)
    PROVE  /\ v.sectorsPerCluster \in Nat \ {0} /\ v.totalSectors \in Nat
           /\ DataLba(v) \in Nat /\ DataLba(v) < v.totalSectors
           /\ v.totalSectors < WORD
           /\ v.dirEntries \in Nat /\ v.dirEntries < WORD
<1>1. /\ v.reserved \in Nat /\ v.fatCount \in Nat /\ v.sectorsPerFat \in Nat
      /\ v.dirEntries \in Nat /\ v.totalSectors \in Nat
      /\ v.sectorsPerCluster \in Nat \ {0}
      /\ DataLba(v) < v.totalSectors /\ v.totalSectors < WORD
  BY DEF WellFormedBoot
<1>2. v.sectorsPerFat * v.fatCount \in Nat
  BY <1>1
<1>3. RootSectors(v) \in Nat
  <2>1. SECTOR_SIZE \in Nat \ {0}
    BY FatAssumption
  <2>2. v.dirEntries + SECTOR_SIZE - 1 \in Nat
    BY <1>1, <2>1
  <2> QED BY <2>1, <2>2, Quotient DEF RootSectors
<1>4. DataLba(v) \in Nat
  BY <1>1, <1>2, <1>3 DEF DataLba
<1>5. v.dirEntries < WORD
  <2>1. v.fat32 => v.dirEntries = 0
    BY DEF WellFormedBoot
  <2>2. ~v.fat32 => v.dirEntries < WORD
    BY DEF WellFormedBoot
  <2>3. 0 < WORD
    <3>1. WORD \in Nat \ {0}
      BY FatAssumption
    <3> QED BY <3>1
  <2> QED BY <2>1, <2>2, <2>3
<1> QED BY <1>1, <1>4, <1>5

LEMMA PlaceOfCluster ==
    ASSUME NEW v, WellFormedBoot(v), NEW c \in Int
    PROVE  ClusterToLba(v, c) \in Int
<1>1. v.sectorsPerCluster \in Nat /\ DataLba(v) \in Nat
  BY BootNumbers
<1>2. (c - 2) * v.sectorsPerCluster \in Int
  BY <1>1
<1> QED BY <1>1, <1>2 DEF ClusterToLba, NOWHERE

LEMMA PlaceOfRoot ==
    ASSUME NEW v, WellFormedBoot(v)
    PROVE  RootLba(v) \in Int
<1>1. /\ v.reserved \in Nat /\ v.fatCount \in Nat /\ v.sectorsPerFat \in Nat
      /\ v.rootCluster \in Nat
  BY DEF WellFormedBoot
<1>2. v.sectorsPerFat * v.fatCount \in Nat
  BY <1>1
<1>3. v.reserved + v.sectorsPerFat * v.fatCount \in Int
  BY <1>1, <1>2
<1>4. v.rootCluster \in Int
  BY <1>1
<1>5. ClusterToLba(v, v.rootCluster) \in Int
  BY <1>4, PlaceOfCluster
<1> QED BY <1>3, <1>5 DEF RootLba

\* What a directory entry that is found can be.
LEMMA EntryFound ==
    ASSUME NEW v, WellFormed(v), NEW lba, NEW offset \in 0 .. SECTOR_SIZE - 1
    PROVE  EntryAt(v, lba, offset) = NoEntry \/ WellFormedEntry(v, EntryAt(v, lba, offset))
BY DEF EntryAt, WellFormed

LEMMA ChainUnitsType ==
    ASSUME NEW v, WellFormed(v), NEW first \in DOMAIN v.files
    PROVE  ChainUnits(v, first) \in Nat /\ v.files[first].length \in Nat
<1>1. v.sectorsPerCluster \in Nat /\ SECTOR_SIZE \in Nat
  BY FatAssumption, BootNumbers DEF WellFormed
<1>2. WellFormedFile(v, first)
  BY DEF WellFormed
<1>3. Len(v.files[first].chain) \in Nat
  BY <1>2, LenProperties DEF WellFormedFile
<1>4. Len(v.files[first].chain) * v.sectorsPerCluster \in Nat
  BY <1>1, <1>3
<1>5. (Len(v.files[first].chain) * v.sectorsPerCluster) * SECTOR_SIZE \in Nat
  BY <1>1, <1>4
<1> QED BY <1>2, <1>5 DEF ChainUnits, WellFormedFile

\* The numbers of a well-formed entry fit a handle.
LEMMA EntryNumbers ==
    ASSUME NEW v, WellFormed(v), NEW e, WellFormedEntry(v, e)
    PROVE  e \in Entry /\ e.size \in Word
<1>1. e \in Entry /\ e.first \in DOMAIN v.files
  BY DEF WellFormedEntry
<1>2. WellFormedFile(v, e.first)
  BY <1>1 DEF WellFormed
<1>3. /\ v.files[e.first].length \in Nat
      /\ v.files[e.first].length <= ChainUnits(v, e.first)
      /\ ChainUnits(v, e.first) < WORD
  BY <1>2 DEF WellFormedFile
<1>4. e.size = 0 \/ e.size = v.files[e.first].length
  BY DEF WellFormedEntry
<1>5. WORD \in Nat \ {0}
  BY FatAssumption
<1>6. ChainUnits(v, e.first) \in Int
  BY <1>1, ChainUnitsType
<1>7. e.size \in Word
  BY <1>3, <1>4, <1>5, <1>6 DEF Word
<1> QED BY <1>1, <1>7

-----------------------------------------------------------------------------
(* One turn of FAT_Read's loop keeps the types and opens or closes nothing. *)

SameFile(a, b) ==
    /\ a.Opened = b.Opened /\ a.IsDirectory = b.IsDirectory
    /\ a.FirstCluster = b.FirstCluster

Kept ==
    /\ fd' \in [Files -> FileData]
    /\ \A g \in Files : SameFile(fd'[g], fd[g])
    /\ faults' \in 0 .. MaxFaults
    /\ stale' \subseteq Files /\ astray' \subseteq Files /\ doubt' \in BOOLEAN

LEMMA FileDataChanges ==
    ASSUME NEW data \in FileData
    PROVE  /\ \A b \in Int : /\ [data EXCEPT !.Buffer = b] \in FileData
                             /\ SameFile([data EXCEPT !.Buffer = b], data)
           /\ \A p \in Word : /\ [data EXCEPT !.Position = p] \in FileData
                              /\ SameFile([data EXCEPT !.Position = p], data)
           /\ \A c \in Int : /\ [data EXCEPT !.CurrentCluster = c] \in FileData
                             /\ SameFile([data EXCEPT !.CurrentCluster = c], data)
           /\ \A n \in Nat :
                 /\ [data EXCEPT !.CurrentSectorInCluster = n] \in FileData
                 /\ SameFile([data EXCEPT !.CurrentSectorInCluster = n], data)
BY DEF FileData, SameFile

\* FAT_Read's new position is a 32-bit number again.
LEMMA MovedType ==
    ASSUME TypeOK, NEW h \in Files, NEW take \in Nat
    PROVE  /\ Moved(h, take) \in FileData
           /\ SameFile(Moved(h, take), fd[h])
           /\ Moved(h, take).Position \in Word
<1>1. fd[h] \in FileData
  BY DEF TypeOK
<1>2. WORD \in Nat \ {0}
  BY FatAssumption
<1>3. fd[h].Position \in Nat
  BY <1>1, <1>2 DEF FileData, Word
<1>4. (fd[h].Position + take) % WORD \in Word
  BY <1>2, <1>3 DEF Word
<1>5. Moved(h, take) = [fd[h] EXCEPT !.Position = (fd[h].Position + take) % WORD]
  BY DEF Moved
<1>6. Moved(h, take).Position = (fd[h].Position + take) % WORD
  BY <1>1, <1>5 DEF FileData
<1> DEFINE p == (fd[h].Position + take) % WORD
<1> HIDE DEF p
<1>7. /\ [fd[h] EXCEPT !.Position = p] \in FileData
      /\ SameFile([fd[h] EXCEPT !.Position = p], fd[h])
  <2>1. p \in Word
    BY <1>4 DEF p
  <2> QED BY <1>1, <2>1, FileDataChanges
<1> QED BY <1>4, <1>5, <1>6, <1>7 DEF p

LEMMA ReplacedType ==
    ASSUME NEW f \in [Files -> FileData], NEW h \in Files, NEW data \in FileData,
           SameFile(data, f[h])
    PROVE  /\ [f EXCEPT ![h] = data] \in [Files -> FileData]
           /\ \A g \in Files : SameFile([f EXCEPT ![h] = data][g], f[g])
BY DEF SameFile

LEMMA FailureType ==
    ASSUME TypeOK, NEW happened, Failure(happened)
    PROVE  faults' \in 0 .. MaxFaults
<1>1. MaxFaults \in Nat /\ faults \in 0 .. MaxFaults
  BY FatAssumption DEF TypeOK
<1> QED BY <1>1 DEF Failure

\* What a read of the disk puts into a buffer is a number.
LEMMA ReadSectorType ==
    ASSUME TypeOK, NEW lba \in Int, NEW old \in Int, NEW r \in ReadSector(lba, old)
    PROVE  r.buffer \in Int
<1>1. vol \in Volumes
  BY DEF TypeOK
<1>2. WellFormed(vol)
  BY <1>1, VolumeAssumption
<1>3. DOMAIN vol.entries \subseteq Int
  BY <1>2 DEF WellFormed, Sectors
<1> DEFINE delivered == IF lba \in Sectors(vol) THEN {lba}
                        ELSE DOMAIN vol.entries \cup {GARBAGE}
<1>4. delivered \subseteq Int /\ {old, GARBAGE} \subseteq Int
  BY <1>3 DEF GARBAGE
<1>5. r \in [ok : {TRUE}, buffer : delivered] \cup [ok : {FALSE}, buffer : {old, GARBAGE}]
  BY DEF ReadSector
<1> HIDE DEF delivered
<1>6. r.buffer \in delivered \/ r.buffer \in {old, GARBAGE}
  BY <1>5
<1> QED BY <1>4, <1>6

LEMMA RefillType ==
    ASSUME TypeOK, NEW h \in Files, NEW data \in FileData, SameFile(data, fd[h]),
           NEW lba \in Int, NEW strayed, NEW failed, NEW go,
           Refill(h, data, lba, strayed, failed, go)
    PROVE  Kept
<1>1. fd \in [Files -> FileData] /\ fd[h].Buffer \in Int
  BY DEF TypeOK, FileData
<1>2. PICK r \in ReadSector(lba, fd[h].Buffer) :
         /\ fd' = [fd EXCEPT ![h] = [data EXCEPT !.Buffer = r.buffer]]
         /\ Failure(failed \/ ~r.ok)
         /\ Note(h, r.ok, strayed)
  BY DEF Refill
<1>3. r.buffer \in Int
  BY <1>1, ReadSectorType
<1>4. /\ [data EXCEPT !.Buffer = r.buffer] \in FileData
      /\ SameFile([data EXCEPT !.Buffer = r.buffer], data)
  BY <1>3, FileDataChanges
<1>5. /\ fd' \in [Files -> FileData]
      /\ \A g \in Files : SameFile(fd'[g], fd[g])
  <2> DEFINE new == [data EXCEPT !.Buffer = r.buffer]
  <2>1. new \in FileData /\ SameFile(new, fd[h]) /\ fd' = [fd EXCEPT ![h] = new]
    BY <1>2, <1>4 DEF SameFile
  <2> HIDE DEF new
  <2> QED BY <1>1, <2>1, ReplacedType
<1>6. faults' \in 0 .. MaxFaults
  BY <1>2, FailureType
<1>7. stale' \subseteq Files /\ astray' \subseteq Files
  BY <1>2 DEF Note, TypeOK
<1>8. doubt' \in BOOLEAN
  BY <1>2 DEF Note
<1> QED BY <1>5, <1>6, <1>7, <1>8 DEF Kept

LEMMA VolumeFound ==
    ASSUME TypeOK
    PROVE  WellFormed(vol) /\ WellFormedBoot(vol)
<1>1. vol \in Volumes
  BY DEF TypeOK
<1> QED BY <1>1, VolumeAssumption DEF WellFormed

\* FAT_NextCluster answers a cluster, END or NOWHERE.
LEMMA NextClusterType ==
    ASSUME TypeOK, NEW c, NEW n \in NextCluster(c)
    PROVE  n.next \in Int
<1>1. \A k \in Clusters(vol) :
         k \in Int /\ vol.table[k] \in Clusters(vol) \cup {END}
  BY VolumeFound DEF WellFormed, WellFormedCluster
<1> DEFINE anything == Clusters(vol) \cup {END, NOWHERE}
           stored   == IF FatType(vol) = 32 /\ vol.table[c] = END
                       THEN NOWHERE ELSE vol.table[c]
<1>2. c \in Clusters(vol) => stored \in anything
  BY <1>1
<1>3. anything \subseteq Int
  BY <1>1 DEF END, NOWHERE
<1>4. \/ c \in Clusters(vol) /\ n = [next |-> stored, failed |-> FALSE]
      \/ n \in [next : anything, failed : {TRUE}]
      \/ n \in [next : anything, failed : {FALSE}]
  BY DEF NextCluster
<1> HIDE DEF anything, stored
<1>5. \/ c \in Clusters(vol) /\ n.next = stored
      \/ n.next \in anything
  <2>1. CASE c \in Clusters(vol) /\ n = [next |-> stored, failed |-> FALSE]
    BY <2>1
  <2>2. CASE n \in [next : anything, failed : {TRUE}]
    BY <2>2
  <2>3. CASE n \in [next : anything, failed : {FALSE}]
    BY <2>3
  <2> QED BY <1>4, <2>1, <2>2, <2>3
<1> QED BY <1>2, <1>3, <1>5

LEMMA TurnType ==
    ASSUME TypeOK, NEW h \in Files, NEW take \in Nat, NEW go, Turn(h, take, go)
    PROVE  Kept
<1>1. /\ fd \in [Files -> FileData]
      /\ fd[h].CurrentCluster \in Int /\ fd[h].CurrentSectorInCluster \in Nat
  BY DEF TypeOK, FileData
<1> DEFINE data == Moved(h, take)
<1>2. data \in FileData /\ SameFile(data, fd[h]) /\ data.Position \in Word
  BY MovedType
<1> HIDE DEF data
<1>3. CASE StayInSector(h, take, go)
  <2>1. fd' = [fd EXCEPT ![h] = data]
    BY <1>3 DEF StayInSector, data
  <2>2. fd' \in [Files -> FileData] /\ \A g \in Files : SameFile(fd'[g], fd[g])
    BY <1>1, <1>2, <2>1, ReplacedType
  <2>3. doubt' \in BOOLEAN
    BY <1>3 DEF StayInSector
  <2> QED BY <1>3, <2>2, <2>3 DEF StayInSector, Kept, TypeOK
<1>4. CASE NextRootSector(h, take, go)
  <2> DEFINE lba == (fd[h].CurrentCluster + 1) % WORD
             new == [data EXCEPT !.CurrentCluster = lba]
  <2>1. lba \in Int
    <3>1. WORD \in Nat \ {0}
      BY FatAssumption
    <3> QED BY <1>1, <3>1
  <2>2. Refill(h, new, lba, vol.fat32 /\ lba >= RootLba(vol) + vol.sectorsPerCluster,
               FALSE, go)
    BY <1>4 DEF NextRootSector, data
  <2>3. new \in FileData /\ SameFile(new, fd[h])
    <3> HIDE DEF lba
    <3> QED BY <1>2, <2>1, FileDataChanges DEF SameFile
  <2> HIDE DEF new, lba
  <2> QED BY <2>1, <2>2, <2>3, RefillType
<1>5. CASE NextSector(h, take, go)
  <2> DEFINE sector == fd[h].CurrentSectorInCluster + 1
             new == [data EXCEPT !.CurrentSectorInCluster = sector]
             lba == ClusterToLba(vol, fd[h].CurrentCluster) + sector
  <2>1. sector \in Nat
    BY <1>1
  <2>2. lba \in Int
    BY <1>1, <2>1, VolumeFound, PlaceOfCluster
  <2>3. Refill(h, new, lba, FALSE, FALSE, go)
    BY <1>5 DEF NextSector, data
  <2>4. new \in FileData /\ SameFile(new, fd[h])
    <3> HIDE DEF sector
    <3> QED BY <1>2, <2>1, FileDataChanges DEF SameFile
  <2> HIDE DEF new, lba
  <2> QED BY <2>2, <2>3, <2>4, RefillType
<1>6. CASE FirstSector(h, take, go)
  <2>1. PICK n \in NextCluster(fd[h].CurrentCluster) :
           Refill(h, [data EXCEPT !.CurrentCluster = n.next,
                                  !.CurrentSectorInCluster = 0],
                  ClusterToLba(vol, n.next),
                  n.failed \/ n.next = NOWHERE, n.failed, go)
    BY <1>6 DEF FirstSector, data
  <2> DEFINE new == [data EXCEPT !.CurrentCluster = n.next, !.CurrentSectorInCluster = 0]
             lba == ClusterToLba(vol, n.next)
  <2>2. n.next \in Int
    BY NextClusterType
  <2>3. lba \in Int
    BY <2>2, VolumeFound, PlaceOfCluster
  <2>4. new \in FileData /\ SameFile(new, fd[h])
    BY <1>2, <2>2 DEF FileData, SameFile
  <2>5. Refill(h, new, lba, n.failed \/ n.next = NOWHERE, n.failed, go)
    BY <2>1
  <2> HIDE DEF new, lba
  <2> QED BY <2>3, <2>4, <2>5, RefillType
<1>7. CASE EndOfChain(h, take, go)
  <2>1. PICK n \in NextCluster(fd[h].CurrentCluster) :
           /\ fd' = [fd EXCEPT ![h] =
                       [data EXCEPT !.CurrentCluster = END,
                                    !.CurrentSectorInCluster = 0,
                                    !.Size = data.Position]]
           /\ Failure(n.failed)
           /\ astray' = IF n.failed THEN astray \cup {h} ELSE astray
           /\ doubt' = (doubt \/ h \in astray')
    BY <1>7 DEF EndOfChain, data
  <2> DEFINE new == [data EXCEPT !.CurrentCluster = END, !.CurrentSectorInCluster = 0,
                                 !.Size = data.Position]
  <2>2. new \in FileData /\ SameFile(new, fd[h])
    <3>1. END \in Int
      BY DEF END
    <3>2. new \in FileData
      BY <1>2, <3>1 DEF FileData
    <3>3. SameFile(new, data)
      BY <1>2 DEF FileData, SameFile
    <3> QED BY <1>2, <3>2, <3>3 DEF SameFile
  <2>3. fd' = [fd EXCEPT ![h] = new]
    BY <2>1
  <2> HIDE DEF new
  <2>4. fd' \in [Files -> FileData] /\ \A g \in Files : SameFile(fd'[g], fd[g])
    BY <1>1, <2>2, <2>3, ReplacedType
  <2>5. faults' \in 0 .. MaxFaults
    BY <2>1, FailureType
  <2>6. astray' \subseteq Files /\ doubt' \in BOOLEAN
    BY <2>1 DEF TypeOK
  <2>7. stale' \subseteq Files
    BY <1>7 DEF EndOfChain, TypeOK
  <2> QED BY <2>4, <2>5, <2>6, <2>7 DEF Kept
<1> QED BY <1>3, <1>4, <1>5, <1>6, <1>7 DEF Turn

-----------------------------------------------------------------------------
(* The inductive invariant: what a running FAT_Open has found is an entry   *)
(* of the volume, and so is what an open handle came from.                  *)

OpenedFromEntry ==
    \A h \in Handles : fd[h].Opened => fd[h].FirstCluster \in DOMAIN vol.files

Walking ==
    /\ pc = "off" => held = {}
    /\ pc \in {"find", "found"} => name \in Names
    /\ pc = "found" => WellFormedEntry(vol, entry)

IInv == TypeOK /\ HandlesAccountedFor /\ OpenedFromEntry /\ Walking

LEMMA HandlesAndRoot ==
    /\ Handles \subseteq Nat /\ Handles \subseteq Files /\ ROOT \in Files
    /\ ROOT \notin Handles /\ Files = Handles \cup {ROOT}
<1>1. MAX_FILE_HANDLES \in Nat
  BY FatAssumption
<1> QED BY <1>1 DEF Handles, Files, ROOT

LEMMA ZeroIsAWord == 0 \in Word
<1>1. WORD \in Nat \ {0}
  BY FatAssumption
<1> QED BY <1>1 DEF Word

\* FAT_Close closes the handle it is given and no other.
LEMMA CloseOfType ==
    ASSUME NEW f \in [Files -> FileData], NEW h \in Files
    PROVE  /\ CloseOf(f, h) \in [Files -> FileData]
           /\ \A g \in Handles :
                 /\ CloseOf(f, h)[g].Opened <=> f[g].Opened /\ g # h
                 /\ CloseOf(f, h)[g].FirstCluster = f[g].FirstCluster
<1>1. CASE h = ROOT
  <2>1. CloseOf(f, h) = [f EXCEPT ![h] =
           [f[h] EXCEPT !.Position = 0, !.CurrentCluster = f[h].FirstCluster]]
    BY <1>1 DEF CloseOf
  <2>2. [f[h] EXCEPT !.Position = 0, !.CurrentCluster = f[h].FirstCluster] \in FileData
    BY ZeroIsAWord DEF FileData
  <2> QED BY <1>1, <2>1, <2>2, HandlesAndRoot
<1>2. CASE h # ROOT
  <2>1. CloseOf(f, h) = [f EXCEPT ![h] = [f[h] EXCEPT !.Opened = FALSE]]
    BY <1>2 DEF CloseOf
  <2>2. /\ [f[h] EXCEPT !.Opened = FALSE] \in FileData
        /\ ~[f[h] EXCEPT !.Opened = FALSE].Opened
        /\ [f[h] EXCEPT !.Opened = FALSE].FirstCluster = f[h].FirstCluster
    BY DEF FileData
  <2> DEFINE new == [f[h] EXCEPT !.Opened = FALSE]
  <2> HIDE DEF new
  <2>3. CloseOf(f, h) = [f EXCEPT ![h] = new] /\ new \in FileData
        /\ ~new.Opened /\ new.FirstCluster = f[h].FirstCluster
    BY <2>1, <2>2 DEF new
  <2> QED BY <2>3, HandlesAndRoot
<1> QED BY <1>1, <1>2

LEMMA FirstFreeHandle ==
    ASSUME NEW f, FreeHandles(f) # {}
    PROVE  Min(FreeHandles(f)) \in Handles /\ ~f[Min(FreeHandles(f))].Opened
<1>1. FreeHandles(f) \subseteq Nat
  BY HandlesAndRoot DEF FreeHandles
<1>2. Min(FreeHandles(f)) \in FreeHandles(f)
  BY <1>1, MinOfNaturals
<1> QED BY <1>2 DEF FreeHandles

LEMMA EntryDataType ==
    ASSUME TypeOK, NEW e, WellFormedEntry(vol, e), NEW buffer \in Int
    PROVE  /\ EntryData(e, buffer) \in FileData /\ ~EntryData(e, buffer).Opened
           /\ [EntryData(e, buffer) EXCEPT !.Opened = TRUE] \in FileData
           /\ [EntryData(e, buffer) EXCEPT !.Opened = TRUE].Opened
           /\ [EntryData(e, buffer) EXCEPT !.Opened = TRUE].FirstCluster = e.first
<1>1. e \in Entry /\ e.size \in Word
  BY VolumeFound, EntryNumbers
<1>2. e.first \in Int /\ e.dir \in BOOLEAN
  BY <1>1 DEF Entry
<1> QED BY <1>1, <1>2, ZeroIsAWord DEF EntryData, FileData

LEMMA HandleNumbers ==
    ASSUME TypeOK, NEW h \in Files
    PROVE  /\ fd \in [Files -> FileData] /\ fd[h] \in FileData
           /\ fd[h].Position \in Nat /\ fd[h].Position < WORD
           /\ fd[h].Size \in Nat /\ fd[h].Size < WORD
           /\ fd[h].Buffer \in Int
<1>1. fd \in [Files -> FileData]
  BY DEF TypeOK
<1>2. fd[h] \in FileData
  BY <1>1
<1>3. fd[h].Position \in Word /\ fd[h].Size \in Word /\ fd[h].Buffer \in Int
  BY <1>2 DEF FileData
<1>4. WORD \in Nat \ {0}
  BY FatAssumption
<1> QED BY <1>1, <1>2, <1>3, <1>4 DEF Word

\* What FAT_Read sets out to read is a number of units.
LEMMA ClippedType ==
    ASSUME TypeOK, NEW h \in Files, NEW count \in Nat
    PROVE  Clipped(h, count) \in Nat /\ Clipped(h, count) <= count
<1>1. WORD \in Nat \ {0}
  BY FatAssumption
<1>2. fd[h].Size \in Int /\ fd[h].Position \in Int
  BY HandleNumbers
<1>3. (fd[h].Size - fd[h].Position) % WORD \in Nat
  BY <1>1, <1>2
<1>4. /\ Min({count, (fd[h].Size - fd[h].Position) % WORD}) \in Nat
      /\ Min({count, (fd[h].Size - fd[h].Position) % WORD}) <= count
  BY <1>3, MinOfTwo
<1> QED BY <1>4 DEF Clipped

\* An open file has a length.
LEMMA LengthType ==
    ASSUME TypeOK, HandlesAccountedFor, OpenedFromEntry, NEW h \in Files, h \in held
    PROVE  FileLength(vol, Start(h)) \in Nat
<1>1. CASE h = ROOT
  <2>1. vol.dirEntries \in Nat
    BY VolumeFound, BootNumbers
  <2>2. vol.fat32 => ChainUnits(vol, vol.rootCluster) \in Nat
    <3>1. vol.fat32 => vol.rootCluster \in DOMAIN vol.files
      BY VolumeFound DEF WellFormedBoot
    <3> QED BY <3>1, VolumeFound, ChainUnitsType
  <2> QED BY <1>1, <2>1, <2>2 DEF FileLength, Start, Extent
<1>2. CASE h # ROOT
  <2>1. h \in Handles /\ fd[h].Opened
    BY <1>2, HandlesAndRoot DEF HandlesAccountedFor
  <2>2. fd[h].FirstCluster \in DOMAIN vol.files
    BY <2>1 DEF OpenedFromEntry
  <2>3. fd[h].FirstCluster # ROOT
    <3>1. WellFormedFile(vol, fd[h].FirstCluster)
      BY <2>2, VolumeFound DEF WellFormed
    <3>2. fd[h].FirstCluster \in Nat
      BY <3>1, Zenon DEF WellFormedFile
    <3> QED BY <3>2 DEF ROOT
  <2>4. vol.files[fd[h].FirstCluster].length \in Nat
    BY <2>2, VolumeFound, ChainUnitsType
  <2> QED BY <1>2, <2>3, <2>4 DEF FileLength, Start
<1> QED BY <1>1, <1>2

LEMMA InitInvariant == Init => IInv
<1> SUFFICES ASSUME Init PROVE IInv
  OBVIOUS
<1>1. Closed \in FileData /\ ~Closed.Opened
  BY ZeroIsAWord DEF Closed, FileData, GARBAGE
<1>2. fd \in [Files -> FileData] /\ \A h \in Files : ~fd[h].Opened
  BY <1>1 DEF Init
<1>3. MaxFaults \in Nat
  BY FatAssumption
<1>4. /\ doubt \in BOOLEAN /\ faults \in 0 .. MaxFaults
      /\ rest \in Seq(Names) /\ path \in Seq(Names)
  <2>1. doubt \in BOOLEAN
    BY DEF Init
  <2>2. <<>> \in Seq(Names)
    BY EmptySeq
  <2>3. faults \in 0 .. MaxFaults
    <3>1. faults = 0
      BY DEF Init
    <3> QED BY <1>3, <3>1
  <2>4. rest = <<>> /\ path = <<>>
    BY DEF Init
  <2> QED BY <2>1, <2>2, <2>3, <2>4
<1>5. TypeOK
  BY <1>2, <1>4, HandlesAndRoot DEF Init, TypeOK
<1>6. HandlesAccountedFor /\ OpenedFromEntry /\ Walking
  BY <1>2, HandlesAndRoot DEF Init, HandlesAccountedFor, OpenedFromEntry, Walking
<1> QED BY <1>5, <1>6 DEF IInv

-----------------------------------------------------------------------------
(* Each action keeps the invariant.                                         *)

LEMMA InitializeKeeps == IInv /\ Initialize => IInv'
<1> SUFFICES ASSUME IInv, Initialize PROVE IInv'
  OBVIOUS
<1>0. TypeOK /\ HandlesAccountedFor /\ OpenedFromEntry /\ Walking
  BY DEF IInv
<1> DEFINE root == [Opened |-> TRUE, IsDirectory |-> TRUE, Position |-> 0,
                    Size |-> vol.dirEntries, FirstCluster |-> RootLba(vol),
                    CurrentCluster |-> RootLba(vol),
                    CurrentSectorInCluster |-> 0, Buffer |-> RootLba(vol)]
<1>1. root \in FileData
  <2>1. RootLba(vol) \in Int
    BY <1>0, VolumeFound, PlaceOfRoot
  <2>2. vol.dirEntries \in Word
    <3>1. vol.dirEntries \in Nat /\ vol.dirEntries < WORD
      BY <1>0, VolumeFound, BootNumbers
    <3>2. WORD \in Nat
      BY FatAssumption
    <3> QED BY <3>1, <3>2 DEF Word
  <2> QED BY <2>1, <2>2, ZeroIsAWord DEF FileData
<1> HIDE DEF root
<1>2. \A h \in Files : /\ [fd[h] EXCEPT !.Opened = FALSE] \in FileData
                      /\ ~[fd[h] EXCEPT !.Opened = FALSE].Opened
  BY <1>0 DEF TypeOK, FileData
<1>3. fd' = [h \in Files |-> IF h # ROOT THEN [fd[h] EXCEPT !.Opened = FALSE] ELSE root]
  BY DEF Initialize, root
<1>4. fd' \in [Files -> FileData] /\ \A h \in Handles : ~fd'[h].Opened
  BY <1>1, <1>2, <1>3, HandlesAndRoot
<1>5. TypeOK'
  BY <1>0, <1>4 DEF Initialize, TypeOK, locals
<1>6. HandlesAccountedFor' /\ OpenedFromEntry' /\ Walking'
  <2>1. held' = {} /\ pc' = "idle"
    BY <1>0 DEF Initialize, Walking
  <2> QED BY <1>4, <2>1 DEF HandlesAccountedFor, OpenedFromEntry, Walking
<1> QED BY <1>5, <1>6 DEF IInv

\* Return, with the types of what it clears.
LEMMA ReturnType ==
    ASSUME Return
    PROVE  /\ pc' = "idle" /\ cur' \in Files /\ name' \in Names \cup {""}
           /\ rest' \in Seq(Names) /\ entry' \in Entry \cup {NoEntry} /\ left' \in Nat
           /\ path' \in Seq(Names) /\ until' \in Nat
<1>1. <<>> \in Seq(Names)
  BY EmptySeq
<1> QED BY <1>1, HandlesAndRoot DEF Return

\* The next component of a path is a name.
LEMMA TakeComponentType ==
    ASSUME NEW components \in Seq(Names), components # <<>>, TakeComponent(components)
    PROVE  name' \in Names /\ rest' \in Seq(Names)
<1>1. Head(components) \in Names /\ Tail(components) \in Seq(Names)
  BY HeadTailProperties
<1>2. Misread[Head(components)] \subseteq Names
  BY <1>1, FatAssumption
<1> QED BY <1>1, <1>2 DEF TakeComponent

\* FAT_Open begins, whatever components it is given.
LEMMA OpenKeeps ==
    ASSUME IInv, NEW components \in Seq(Names), Open(components)
    PROVE  IInv'
<1>0. TypeOK /\ HandlesAccountedFor /\ OpenedFromEntry /\ Walking
  BY DEF IInv
<1>1. components # <<>> /\ TakeComponent(components)
  BY DEF Open
<1>2. name' \in Names /\ rest' \in Seq(Names)
  BY <1>1, TakeComponentType
<1>3. doubt' \in BOOLEAN
  BY DEF Open
<1>4. TypeOK'
  BY <1>0, <1>1, <1>2, <1>3, HandlesAndRoot DEF Open, TypeOK
<1>5. HandlesAccountedFor'
  BY <1>0 DEF Open, HandlesAccountedFor
<1>6. OpenedFromEntry' /\ Walking'
  BY <1>0, <1>2 DEF Open, OpenedFromEntry, Walking
<1> QED BY <1>4, <1>5, <1>6 DEF IInv

LEMMA CallKeeps == IInv /\ Call => IInv'
<1> SUFFICES ASSUME IInv, Call PROVE IInv'
  OBVIOUS
<1>0. TypeOK /\ HandlesAccountedFor /\ OpenedFromEntry /\ Walking
  BY DEF IInv
<1>1. CASE OpenRoot
  BY <1>0, <1>1, HandlesAndRoot
     DEF OpenRoot, IInv, TypeOK, HandlesAccountedFor, OpenedFromEntry, Walking, locals
<1>2. ASSUME NEW components \in Requests, Open(components) PROVE IInv'
  <2>1. components \in Seq(Names)
    BY FatAssumption
  <2> QED BY <1>2, <2>1, OpenKeeps
<1>3. ASSUME NEW h \in Files, Close(h) PROVE IInv'
  <2>1. /\ fd' \in [Files -> FileData]
        /\ \A g \in Handles : /\ fd'[g].Opened <=> fd[g].Opened /\ g # h
                              /\ fd'[g].FirstCluster = fd[g].FirstCluster
    <3>1. fd \in [Files -> FileData] /\ fd' = CloseOf(fd, h)
      BY <1>0, <1>3, HandleNumbers DEF Close
    <3> QED BY <3>1, CloseOfType
  <2>2. doubt' \in BOOLEAN /\ stale' \subseteq Files /\ astray' \subseteq Files
    BY <1>0, <1>3 DEF Close, TypeOK, StaleByClose, AstrayByClose
  <2>3. TypeOK'
    BY <1>0, <1>3, <2>1, <2>2 DEF Close, TypeOK, locals
  <2>4. HandlesAccountedFor'
    BY <1>0, <1>3, <2>1, HandlesAndRoot DEF Close, HandlesAccountedFor
  <2>5. OpenedFromEntry' /\ Walking'
    BY <1>0, <1>3, <2>1 DEF Close, OpenedFromEntry, Walking
  <2> QED BY <2>3, <2>4, <2>5 DEF IInv
<1>4. ASSUME NEW h \in Files, NEW count \in Counts, Read(h, count) PROVE IInv'
  <2>1. Clipped(h, count) \in Nat
    <3>1. count \in Nat
      BY FatAssumption
    <3> QED BY <1>0, <3>1, ClippedType
  <2>2. h \notin astray => Min({fd[h].Position + count, FileLength(vol, Start(h))}) \in Nat
    <3>1. FileLength(vol, Start(h)) \in Nat
      BY <1>0, <1>4, LengthType DEF Read
    <3>2. fd[h].Position + count \in Nat
      <4>1. fd[h].Position \in Nat
        BY <1>0, HandleNumbers
      <4>2. count \in Nat
        BY FatAssumption
      <4> QED BY <4>1, <4>2
    <3> QED BY <3>1, <3>2, MinOfTwo
  <2>3. cur' \in Files /\ left' \in Nat /\ until' \in Nat /\ pc' \in {"idle", "read"}
    <3>1. CASE Clipped(h, count) = 0
      BY <1>0, <1>4, <3>1 DEF Read, TypeOK, locals
    <3>2. CASE Clipped(h, count) # 0
      <4>1. until' \in Nat
        BY <1>4, <2>2, <3>2 DEF Read
      <4> QED BY <1>4, <2>1, <3>2, <4>1 DEF Read
    <3> QED BY <3>1, <3>2
  <2>4. doubt' \in BOOLEAN /\ UNCHANGED <<name, rest, entry, path>>
    BY <1>4 DEF Read, locals
  <2>5. TypeOK'
    BY <1>0, <1>4, <2>3, <2>4 DEF Read, TypeOK
  <2>6. HandlesAccountedFor' /\ OpenedFromEntry' /\ Walking'
    BY <1>0, <1>4, <2>3 DEF Read, HandlesAccountedFor, OpenedFromEntry, Walking
  <2> QED BY <2>5, <2>6 DEF IInv
<1> QED BY <1>1, <1>2, <1>3, <1>4 DEF Call

\* FAT_Close(current) within the walk.
LEMMA CloseCurrentType ==
    ASSUME TypeOK, CloseCurrent
    PROVE  stale' \subseteq Files /\ astray' \subseteq Files
BY DEF TypeOK, CloseCurrent, StaleByClose, AstrayByClose

LEMMA FindFileKeeps == IInv /\ FindFile => IInv'
<1> SUFFICES ASSUME IInv, FindFile PROVE IInv'
  OBVIOUS
<1>0. TypeOK /\ HandlesAccountedFor /\ OpenedFromEntry /\ Walking
  BY DEF IInv
<1>1. PICK go \in BOOLEAN : Turn(cur, 1, go)
  BY DEF FindFile
<1>2. Kept
  <2>1. cur \in Files /\ 1 \in Nat
    BY <1>0 DEF TypeOK
  <2> QED BY <1>0, <1>1, <2>1, TurnType
<1>3. entry' = NoEntry \/ WellFormedEntry(vol, entry')
  <2>1. cur \in Files
    BY <1>0 DEF TypeOK
  <2>2. fd[cur].Position \in Nat
    BY <1>0, <2>1, HandleNumbers
  <2>3. SECTOR_SIZE \in Nat \ {0}
    BY FatAssumption
  <2>4. fd[cur].Position % SECTOR_SIZE \in 0 .. SECTOR_SIZE - 1
    BY <2>2, <2>3, Quotient
  <2>5. WellFormed(vol)
    BY <1>0, VolumeFound
  <2>6. entry' = EntryAt(vol, fd[cur].Buffer, fd[cur].Position % SECTOR_SIZE)
    BY DEF FindFile
  <2> QED BY <2>4, <2>5, <2>6, EntryFound
<1>4. entry' \in Entry \cup {NoEntry}
  BY <1>3 DEF WellFormedEntry
<1>5. pc \in {"find", "found"} /\ pc' \in {"find", "found"}
  BY DEF FindFile
<1>6. UNCHANGED <<vol, cur, name, rest, left, path, until, held>>
  BY DEF FindFile
<1>7. TypeOK'
  BY <1>0, <1>2, <1>4, <1>5, <1>6 DEF TypeOK, Kept
<1>8. \A g \in Handles : /\ fd'[g].Opened = fd[g].Opened
                        /\ fd'[g].FirstCluster = fd[g].FirstCluster
  BY <1>2, HandlesAndRoot DEF Kept, SameFile
<1>9. HandlesAccountedFor' /\ OpenedFromEntry'
  BY <1>0, <1>5, <1>6, <1>8 DEF HandlesAccountedFor, OpenedFromEntry
<1>10. Walking'
  <2>1. name \in Names /\ name' = name
    BY <1>0, <1>5, <1>6 DEF Walking
  <2>2. pc' = "found" => entry'.name = name
    BY DEF FindFile
  <2>3. NoEntry.name \notin Names
    BY FatAssumption DEF NoEntry
  <2>4. pc' = "found" => WellFormedEntry(vol, entry')
    BY <1>3, <2>1, <2>2, <2>3
  <2> QED BY <1>5, <1>6, <2>1, <2>4 DEF Walking
<1> QED BY <1>7, <1>9, <1>10 DEF IInv

LEMMA NotFoundKeeps == IInv /\ NotFound => IInv'
<1> SUFFICES ASSUME IInv, NotFound PROVE IInv'
  OBVIOUS
<1>0. TypeOK /\ HandlesAccountedFor /\ OpenedFromEntry /\ Walking
  BY DEF IInv
<1>1. /\ fd' \in [Files -> FileData]
      /\ \A g \in Handles : /\ fd'[g].Opened <=> fd[g].Opened /\ g # cur
                            /\ fd'[g].FirstCluster = fd[g].FirstCluster
  <2>1. cur \in Files /\ fd \in [Files -> FileData] /\ fd' = CloseOf(fd, cur)
    BY <1>0 DEF NotFound, TypeOK
  <2> QED BY <2>1, CloseOfType
<1>2. Return /\ CloseCurrent /\ pc = "find" /\ UNCHANGED <<vol, held, faults, doubt>>
  BY DEF NotFound
<1>3. TypeOK'
  BY <1>0, <1>1, <1>2, ReturnType, CloseCurrentType DEF TypeOK
<1>4. HandlesAccountedFor'
  BY <1>0, <1>1, <1>2, ReturnType, HandlesAndRoot DEF HandlesAccountedFor
<1>5. OpenedFromEntry' /\ Walking'
  BY <1>0, <1>1, <1>2, ReturnType DEF OpenedFromEntry, Walking
<1> QED BY <1>3, <1>4, <1>5 DEF IInv

\* What a failed FAT_OpenEntry leaves: the directory closed, nothing opened.
LEMMA OpenFailsKeeps ==
    ASSUME IInv, pc = "found", OpenFails,
           fd' \in [Files -> FileData],
           \A g \in Handles : fd'[g].Opened <=> fd[g].Opened /\ g # cur,
           \A g \in Handles : fd'[g].Opened => fd'[g].FirstCluster = fd[g].FirstCluster,
           faults' \in 0 .. MaxFaults, doubt' \in BOOLEAN
    PROVE  IInv'
<1>0. TypeOK /\ HandlesAccountedFor /\ OpenedFromEntry /\ Walking
  BY DEF IInv
<1>1. CloseCurrent /\ UNCHANGED <<vol, held>>
  BY DEF OpenFails
<1>2. /\ pc' \in {"idle", "undefined"}
      /\ cur' \in Files /\ name' \in Names \cup {""}
      /\ rest' \in Seq(Names) /\ entry' \in Entry \cup {NoEntry} /\ left' \in Nat
      /\ path' \in Seq(Names) /\ until' \in Nat
  <2>1. CASE rest = <<>>
    BY <2>1, ReturnType DEF OpenFails
  <2>2. CASE rest # <<>>
    BY <1>0, <2>2 DEF OpenFails, TypeOK, locals
  <2> QED BY <2>1, <2>2
<1>3. TypeOK'
  BY <1>0, <1>1, <1>2, CloseCurrentType DEF TypeOK
<1>4. HandlesAccountedFor'
  BY <1>0, <1>1, <1>2, HandlesAndRoot DEF HandlesAccountedFor
<1>5. OpenedFromEntry' /\ Walking'
  BY <1>0, <1>1, <1>2 DEF OpenedFromEntry, Walking
<1> QED BY <1>3, <1>4, <1>5 DEF IInv

LEMMA OutOfHandlesKeeps == IInv /\ OutOfHandles => IInv'
<1> SUFFICES ASSUME IInv, OutOfHandles PROVE IInv'
  OBVIOUS
<1>0. TypeOK
  BY DEF IInv
<1>1. cur \in Files /\ fd \in [Files -> FileData] /\ fd' = CloseOf(fd, cur)
  BY <1>0 DEF OutOfHandles, TypeOK
<1>2. /\ fd' \in [Files -> FileData]
      /\ \A g \in Handles : fd'[g].Opened <=> fd[g].Opened /\ g # cur
      /\ \A g \in Handles : fd'[g].Opened => fd'[g].FirstCluster = fd[g].FirstCluster
  BY <1>1, CloseOfType
<1>3. pc = "found" /\ OpenFails /\ faults' \in 0 .. MaxFaults /\ doubt' \in BOOLEAN
  BY <1>0 DEF OutOfHandles, TypeOK
<1> QED BY <1>2, <1>3, OpenFailsKeeps

\* The handle FAT_OpenEntry takes, after FAT_Close(current).
LEMMA HandleTaken ==
    ASSUME IInv, pc = "found", FreeHandles(CloseOf(fd, cur)) # {},
           NEW r \in ReadSector(ClusterToLba(vol, entry.first),
                                fd[Min(FreeHandles(CloseOf(fd, cur)))].Buffer)
    PROVE  /\ Min(FreeHandles(CloseOf(fd, cur))) \in Handles
           /\ ~CloseOf(fd, cur)[Min(FreeHandles(CloseOf(fd, cur)))].Opened
           /\ CloseOf(fd, cur) \in [Files -> FileData]
           /\ \A g \in Handles :
                 /\ CloseOf(fd, cur)[g].Opened <=> fd[g].Opened /\ g # cur
                 /\ CloseOf(fd, cur)[g].FirstCluster = fd[g].FirstCluster
           /\ WellFormedEntry(vol, entry) /\ r.buffer \in Int
<1>0. TypeOK /\ Walking
  BY DEF IInv
<1>1. cur \in Files /\ fd \in [Files -> FileData]
  BY <1>0 DEF TypeOK
<1> DEFINE h == Min(FreeHandles(CloseOf(fd, cur)))
<1>2. h \in Handles /\ ~CloseOf(fd, cur)[h].Opened
  BY FirstFreeHandle
<1> HIDE DEF h
<1>3. WellFormedEntry(vol, entry)
  BY <1>0 DEF Walking
<1>4. ClusterToLba(vol, entry.first) \in Int
  <2>1. entry.first \in Nat
    BY <1>3 DEF WellFormedEntry, Entry
  <2>2. entry.first \in Int
    BY <2>1
  <2> QED BY <1>0, <2>2, VolumeFound, PlaceOfCluster
<1>5. fd[h].Buffer \in Int
  BY <1>0, <1>2, HandlesAndRoot, HandleNumbers
<1>6. r.buffer \in Int
  BY <1>0, <1>4, <1>5, ReadSectorType DEF h
<1> QED BY <1>1, <1>2, <1>3, <1>6, CloseOfType DEF h

LEMMA OpenReadFailsKeeps == IInv /\ OpenReadFails => IInv'
<1> SUFFICES ASSUME IInv, OpenReadFails PROVE IInv'
  OBVIOUS
<1> DEFINE closed == CloseOf(fd, cur)
           h      == Min(FreeHandles(closed))
<1>1. pc = "found" /\ FreeHandles(closed) # {} /\ OpenFails
  BY DEF OpenReadFails
<1>2. PICK r \in ReadSector(ClusterToLba(vol, entry.first), fd[h].Buffer) :
         fd' = [closed EXCEPT ![h] = EntryData(entry, r.buffer)]
  BY DEF OpenReadFails
<1>3. /\ h \in Handles /\ ~closed[h].Opened /\ closed \in [Files -> FileData]
      /\ \A g \in Handles : /\ closed[g].Opened <=> fd[g].Opened /\ g # cur
                            /\ closed[g].FirstCluster = fd[g].FirstCluster
      /\ WellFormedEntry(vol, entry) /\ r.buffer \in Int
  BY <1>1, <1>2, HandleTaken
<1> HIDE DEF closed, h
<1> DEFINE new == EntryData(entry, r.buffer)
<1>4. new \in FileData /\ ~new.Opened
  BY <1>3, EntryDataType DEF IInv
<1>5. fd' = [closed EXCEPT ![h] = new]
  BY <1>2
<1> HIDE DEF new
<1>6. /\ fd' \in [Files -> FileData]
      /\ \A g \in Handles : fd'[g].Opened <=> fd[g].Opened /\ g # cur
      /\ \A g \in Handles : fd'[g].Opened => fd'[g].FirstCluster = fd[g].FirstCluster
  BY <1>3, <1>4, <1>5, HandlesAndRoot
<1>7. faults' \in 0 .. MaxFaults /\ doubt' \in BOOLEAN
  <2>1. Failure(TRUE) /\ doubt' = TRUE
    BY DEF OpenReadFails
  <2> QED BY <2>1, FailureType DEF IInv
<1> QED BY <1>1, <1>6, <1>7, OpenFailsKeeps

LEMMA OpenEntryKeeps == IInv /\ OpenEntry => IInv'
<1> SUFFICES ASSUME IInv, OpenEntry PROVE IInv'
  OBVIOUS
<1>0. TypeOK /\ HandlesAccountedFor /\ OpenedFromEntry /\ Walking
  BY DEF IInv
<1> DEFINE closed == CloseOf(fd, cur)
           h      == Min(FreeHandles(closed))
<1>1. /\ pc = "found" /\ FreeHandles(closed) # {}
      /\ stale' = StaleByClose(cur) \ {h} /\ astray' = AstrayByClose(cur) \ {h}
      /\ IF rest # <<>>
         THEN /\ pc' = "find" /\ cur' = h /\ TakeComponent(rest)
              /\ UNCHANGED <<entry, left, path, until, held>>
         ELSE Return /\ held' = held \cup {h}
      /\ UNCHANGED <<vol, faults, doubt>>
  BY DEF OpenEntry
<1>2. PICK r \in ReadSector(ClusterToLba(vol, entry.first), fd[h].Buffer) :
         fd' = [closed EXCEPT ![h] = [EntryData(entry, r.buffer) EXCEPT !.Opened = TRUE]]
  BY DEF OpenEntry
<1>3. /\ h \in Handles /\ ~closed[h].Opened /\ closed \in [Files -> FileData]
      /\ \A g \in Handles : /\ closed[g].Opened <=> fd[g].Opened /\ g # cur
                            /\ closed[g].FirstCluster = fd[g].FirstCluster
      /\ WellFormedEntry(vol, entry) /\ r.buffer \in Int
  BY <1>1, <1>2, HandleTaken
<1> HIDE DEF closed, h
<1> DEFINE new == [EntryData(entry, r.buffer) EXCEPT !.Opened = TRUE]
<1>4. new \in FileData /\ new.Opened /\ new.FirstCluster = entry.first
  BY <1>0, <1>3, EntryDataType
<1>5. fd' = [closed EXCEPT ![h] = new]
  BY <1>2
<1> HIDE DEF new
<1>6. /\ fd' \in [Files -> FileData]
      /\ \A g \in Handles : fd'[g].Opened <=> g = h \/ (fd[g].Opened /\ g # cur)
      /\ \A g \in Handles : fd'[g].FirstCluster = IF g = h THEN entry.first
                                                 ELSE fd[g].FirstCluster
  BY <1>3, <1>4, <1>5, HandlesAndRoot
<1>7. /\ cur' \in Files /\ name' \in Names \cup {""} /\ rest' \in Seq(Names)
      /\ entry' \in Entry \cup {NoEntry} /\ left' \in Nat
      /\ path' \in Seq(Names) /\ until' \in Nat /\ held' \subseteq Files
      /\ pc' \in {"idle", "find"} /\ (pc' = "find" => name' \in Names)
  <2>1. CASE rest # <<>>
    <3>1. rest \in Seq(Names)
      BY <1>0 DEF TypeOK
    <3>2. name' \in Names /\ rest' \in Seq(Names)
      BY <1>1, <2>1, <3>1, TakeComponentType
    <3> QED BY <1>0, <1>1, <1>3, <2>1, <3>2, HandlesAndRoot DEF TypeOK
  <2>2. CASE rest = <<>>
    BY <1>0, <1>1, <1>3, <2>2, ReturnType, HandlesAndRoot DEF TypeOK
  <2> QED BY <2>1, <2>2
<1>8. stale' \subseteq Files /\ astray' \subseteq Files
  BY <1>0, <1>1 DEF TypeOK, StaleByClose, AstrayByClose
<1>9. TypeOK'
  BY <1>0, <1>1, <1>6, <1>7, <1>8 DEF TypeOK
<1>10. h \notin held
  <2>1. h = cur \/ ~fd[h].Opened
    BY <1>3
  <2> QED BY <1>0, <1>1, <1>3, <2>1, HandlesAndRoot DEF HandlesAccountedFor
<1>11. HandlesAccountedFor'
  <2>1. \A g \in Handles : fd[g].Opened /\ g # cur <=> g \in held
    BY <1>0, <1>1, HandlesAndRoot DEF HandlesAccountedFor
  <2>2. held \subseteq Files
    BY <1>0 DEF TypeOK
  <2>3. CASE rest # <<>>
    BY <1>1, <1>3, <1>6, <1>10, <2>1, <2>2, <2>3, HandlesAndRoot DEF HandlesAccountedFor
  <2>4. CASE rest = <<>>
    BY <1>1, <1>3, <1>6, <2>1, <2>2, <2>4, ReturnType, HandlesAndRoot
       DEF HandlesAccountedFor
  <2> QED BY <2>3, <2>4
<1>12. OpenedFromEntry'
  <2>1. entry.first \in DOMAIN vol.files
    BY <1>3 DEF WellFormedEntry
  <2> QED BY <1>0, <1>1, <1>6, <2>1 DEF OpenedFromEntry
<1>13. Walking'
  BY <1>7 DEF Walking
<1> QED BY <1>9, <1>11, <1>12, <1>13 DEF IInv

LEMMA ReadTurnKeeps == IInv /\ ReadTurn => IInv'
<1> SUFFICES ASSUME IInv, ReadTurn PROVE IInv'
  OBVIOUS
<1>0. TypeOK /\ HandlesAccountedFor /\ OpenedFromEntry /\ Walking
  BY DEF IInv
<1> DEFINE take == Min({left, LeftInBuffer(cur)})
<1>1. PICK go \in BOOLEAN :
         /\ Turn(cur, take, go)
         /\ IF go /\ left > take
            THEN /\ left' = left - take
                 /\ UNCHANGED <<pc, cur, name, rest, entry, path, until>>
            ELSE Return
  BY DEF ReadTurn
<1>2. left \in Nat /\ take \in Nat /\ take <= left
  <2>1. left \in Nat /\ cur \in Files
    BY <1>0 DEF TypeOK
  <2>2. SECTOR_SIZE \in Nat \ {0} /\ fd[cur].Position \in Nat
    BY <1>0, <2>1, FatAssumption, HandleNumbers
  <2>3. LeftInBuffer(cur) \in Nat
    BY <2>2 DEF LeftInBuffer
  <2> QED BY <2>1, <2>3, MinOfTwo
<1> HIDE DEF take
<1>3. Kept
  <2>1. cur \in Files
    BY <1>0 DEF TypeOK
  <2> QED BY <1>0, <1>1, <1>2, <2>1, TurnType
<1>4. pc = "read" /\ pc' \in {"read", "idle"} /\ UNCHANGED <<vol, held>>
  BY <1>1, ReturnType DEF ReadTurn
<1>5. /\ cur' \in Files /\ name' \in Names \cup {""} /\ rest' \in Seq(Names)
      /\ entry' \in Entry \cup {NoEntry} /\ left' \in Nat
      /\ path' \in Seq(Names) /\ until' \in Nat
  <2>1. CASE go /\ left > take
    <3>1. left' \in Nat
      BY <1>1, <1>2, <2>1
    <3> QED BY <1>0, <1>1, <2>1, <3>1 DEF TypeOK
  <2>2. CASE ~(go /\ left > take)
    BY <1>1, <2>2, ReturnType
  <2> QED BY <2>1, <2>2
<1>6. TypeOK'
  BY <1>0, <1>3, <1>4, <1>5 DEF TypeOK, Kept
<1>7. \A g \in Handles : /\ fd'[g].Opened = fd[g].Opened
                        /\ fd'[g].FirstCluster = fd[g].FirstCluster
  BY <1>3, HandlesAndRoot DEF Kept, SameFile
<1>8. HandlesAccountedFor' /\ OpenedFromEntry' /\ Walking'
  BY <1>0, <1>4, <1>7 DEF HandlesAccountedFor, OpenedFromEntry, Walking
<1> QED BY <1>6, <1>8 DEF IInv

LEMMA StepInvariant == IInv /\ [Next]_vars => IInv'
<1> SUFFICES ASSUME IInv, [Next]_vars PROVE IInv'
  OBVIOUS
<1>1. CASE InitializeFails
  <2>1. TypeOK /\ HandlesAccountedFor /\ OpenedFromEntry /\ Walking
    BY DEF IInv
  <2>2. faults' \in 0 .. MaxFaults
    BY <1>1, <2>1, FailureType DEF InitializeFails
  <2> QED BY <1>1, <2>1, <2>2
          DEF InitializeFails, IInv, TypeOK, HandlesAccountedFor, OpenedFromEntry,
              Walking, locals
<1>2. CASE Stopped \/ UNCHANGED vars
  BY <1>2 DEF Stopped, vars, locals, IInv, TypeOK, HandlesAccountedFor,
              OpenedFromEntry, Walking
<1> QED BY <1>1, <1>2, InitializeKeeps, CallKeeps, FindFileKeeps, NotFoundKeeps,
           OpenEntryKeeps, OutOfHandlesKeeps, OpenReadFailsKeeps, ReadTurnKeeps
        DEF Next, Work

LEMMA Invariant == Spec => []IInv
BY InitInvariant, StepInvariant, PTL DEF Spec

-----------------------------------------------------------------------------
\* Every variable of the driver keeps its type, on every volume and with any
\* failures: positions stay 32-bit numbers (fat.c:321), handles stay handles.
THEOREM TypeCorrect == Spec => []TypeOK
<1>1. IInv => TypeOK
  BY DEF IInv
<1> QED BY <1>1, Invariant, PTL

\* However FAT_Open ends, on every volume, for every number of handles and with
\* any failures, it leaks no handle and gives none away twice (fat.c:212-250,
\* 374-385, 457-512).
THEOREM HandlesAlwaysAccountedFor == Spec => []HandlesAccountedFor
<1>1. IInv => HandlesAccountedFor
  BY DEF IInv
<1> QED BY <1>1, Invariant, PTL

-----------------------------------------------------------------------------
(* Division                                                                *)

LEMMA QuotientUnique ==
    ASSUME NEW s \in Nat \ {0}, NEW q \in Nat, NEW r \in 0 .. s - 1,
           NEW n \in Nat, n = q * s + r
    PROVE  n \div s = q /\ n % s = r
<1>1. PICK k \in Nat, t \in 0 .. s - 1 : k = n \div s /\ t = n % s /\ n = k * s + t
  BY Quotient
<1>2. q * s \in Nat /\ k * s \in Nat
  OBVIOUS
<1>3. CASE k < q
  <2>1. PICK d \in Nat : q = k + 1 + d
    <3>1. q - k - 1 \in Nat /\ q = k + 1 + (q - k - 1)
      BY <1>3
    <3> QED BY <3>1
  <2>2. q * s = k * s + s + d * s /\ d * s \in Nat
    BY <2>1
  <2> DEFINE a == k * s
             b == d * s
  <2>3. a \in Nat /\ b \in Nat /\ a + t = a + s + b + r
    BY <1>1, <1>2, <2>2
  <2> HIDE DEF a, b
  <2> QED BY <2>3
<1>4. CASE q < k
  <2>1. PICK d \in Nat : k = q + 1 + d
    <3>1. k - q - 1 \in Nat /\ k = q + 1 + (k - q - 1)
      BY <1>4
    <3> QED BY <3>1
  <2>2. k * s = q * s + s + d * s /\ d * s \in Nat
    BY <2>1
  <2> DEFINE a == q * s
             b == d * s
  <2>3. a \in Nat /\ b \in Nat /\ a + r = a + s + b + t
    BY <1>1, <1>2, <2>2
  <2> HIDE DEF a, b
  <2> QED BY <2>3
<1>5. CASE k = q
  <2> DEFINE a == q * s
  <2>1. a \in Nat /\ n = a + r /\ n = a + t
    BY <1>1, <1>2, <1>5
  <2> HIDE DEF a
  <2>2. t = r
    BY <2>1
  <2> QED BY <1>1, <1>5, <2>2
<1> QED BY <1>3, <1>4, <1>5

\* A step that stays within s units, and one that uses them up.
LEMMA StepWithin ==
    ASSUME NEW s \in Nat \ {0}, NEW p \in Nat, NEW take \in Nat
    PROVE  /\ p \div s \in Nat /\ p % s \in 0 .. s - 1
           /\ take < s - (p % s) => /\ (p + take) \div s = p \div s
                                    /\ (p + take) % s = (p % s) + take
           /\ take = s - (p % s) => /\ (p + take) \div s = (p \div s) + 1
                                    /\ (p + take) % s = 0
<1>1. PICK q \in Nat, r \in 0 .. s - 1 : q = p \div s /\ r = p % s /\ p = q * s + r
  BY Quotient
<1>2. ASSUME take < s - r PROVE (p + take) \div s = q /\ (p + take) % s = r + take
  <2>1. r + take \in 0 .. s - 1
    BY <1>2
  <2>2. p + take = q * s + (r + take)
    <3> DEFINE a == q * s
    <3>1. a \in Nat /\ p = a + r
      BY <1>1
    <3> HIDE DEF a
    <3>2. p + take = a + (r + take)
      BY <3>1
    <3> QED BY <3>2 DEF a
  <2>3. p + take \in Nat
    OBVIOUS
  <2> QED BY <2>1, <2>2, <2>3, QuotientUnique
<1>3. ASSUME take = s - r PROVE (p + take) \div s = q + 1 /\ (p + take) % s = 0
  <2>1. p + take = q * s + s
    <3> DEFINE a == q * s
    <3>1. a \in Nat /\ p = a + r
      BY <1>1
    <3> HIDE DEF a
    <3>2. p + take = a + s
      BY <1>3, <3>1
    <3> QED BY <3>2 DEF a
  <2>2. q * s + s = (q + 1) * s + 0
    OBVIOUS
  <2>3. PICK k \in Nat, m \in Nat, r0 \in 0 .. s - 1 : k = q + 1 /\ m = p + take /\ r0 = 0
    OBVIOUS
  <2>4. m = k * s + r0
    BY <2>1, <2>2, <2>3
  <2>5. m \div s = k /\ m % s = r0
    BY <2>4, QuotientUnique
  <2> QED BY <2>3, <2>5
<1> QED BY <1>1, <1>2, <1>3

LEMMA StepByOne ==
    ASSUME NEW s \in Nat \ {0}, NEW i \in Nat
    PROVE  /\ i \div s \in Nat
           /\ (i % s) + 1 < s => /\ (i + 1) \div s = i \div s
                                 /\ (i + 1) % s = (i % s) + 1
           /\ (i % s) + 1 >= s => /\ (i + 1) \div s = (i \div s) + 1
                                  /\ (i + 1) % s = 0
<1>1. PICK r \in 0 .. s - 1, one \in Nat : r = i % s /\ one = 1
  BY Quotient
<1>2. /\ i \div s \in Nat
      /\ one < s - r => (i + one) \div s = i \div s /\ (i + one) % s = r + one
      /\ one = s - r => (i + one) \div s = (i \div s) + 1 /\ (i + one) % s = 0
  BY <1>1, StepWithin
<1>3. r + 1 < s => one < s - r
  BY <1>1
<1>4. r + 1 >= s => one = s - r
  BY <1>1
<1> QED BY <1>1, <1>2, <1>3, <1>4

\* n pieces of s units hold what lies in the pieces before the n-th.
LEMMA Below ==
    ASSUME NEW s \in Nat \ {0}, NEW p \in Nat, NEW n \in Nat
    PROVE  /\ n * s \in Nat
           /\ p < n * s <=> p \div s < n
<1>1. PICK q \in Nat, r \in 0 .. s - 1 : q = p \div s /\ p = q * s + r
  BY Quotient
<1>2. n * s \in Nat /\ q * s \in Nat
  OBVIOUS
<1>3. CASE q < n
  <2>1. PICK d \in Nat : n = q + 1 + d
    <3>1. n - q - 1 \in Nat /\ n = q + 1 + (n - q - 1)
      BY <1>3
    <3> QED BY <3>1
  <2>2. n * s = q * s + s + d * s /\ d * s \in Nat
    BY <2>1
  <2> DEFINE a == q * s
             b == d * s
             c == n * s
  <2>3. a \in Nat /\ b \in Nat /\ c \in Nat /\ p = a + r /\ c = a + s + b
    BY <1>1, <1>2, <2>2
  <2> HIDE DEF a, b, c
  <2>4. p < c
    BY <2>3
  <2> QED BY <1>1, <1>2, <1>3, <2>4 DEF c
<1>4. CASE ~(q < n)
  <2>1. PICK d \in Nat : q = n + d
    <3>1. q - n \in Nat /\ q = n + (q - n)
      BY <1>4
    <3> QED BY <3>1
  <2>2. q * s = n * s + d * s /\ d * s \in Nat
    BY <2>1
  <2> DEFINE a == q * s
             b == d * s
             c == n * s
  <2>3. a \in Nat /\ b \in Nat /\ c \in Nat /\ p = a + r /\ a = c + b
    BY <1>1, <1>2, <2>2
  <2> HIDE DEF a, b, c
  <2>4. ~(p < c)
    BY <2>3
  <2> QED BY <1>1, <1>2, <1>4, <2>4 DEF c
<1> QED BY <1>3, <1>4

-----------------------------------------------------------------------------
(* The places of a file on the volume                                      *)

LEMMA SectorSize == SECTOR_SIZE \in Nat \ {0} /\ WORD \in Nat \ {0}
BY FatAssumption

\* The sectors of a cluster lie on the volume.
LEMMA ClusterSectors ==
    ASSUME NEW v, WellFormed(v), NEW c \in Clusters(v),
           NEW k \in 0 .. v.sectorsPerCluster - 1
    PROVE  /\ c \in Nat /\ c >= 2
           /\ ClusterToLba(v, c) \in Nat
           /\ ClusterToLba(v, c) + k \in Sectors(v)
           /\ ClusterToLba(v, c) + v.sectorsPerCluster < WORD
<1>1. /\ v.sectorsPerCluster \in Nat /\ v.totalSectors \in Nat /\ v.totalSectors < WORD
      /\ DataLba(v) \in Nat
  BY BootNumbers DEF WellFormed
<1>2. /\ c \in Nat /\ c >= 2
      /\ ClusterToLba(v, c) + v.sectorsPerCluster <= v.totalSectors
  BY DEF WellFormed, WellFormedCluster
<1>3. ClusterToLba(v, c) \in Nat
  <2>1. c - 2 \in Nat /\ c # NOWHERE
    BY <1>2 DEF NOWHERE
  <2>2. (c - 2) * v.sectorsPerCluster \in Nat
    BY <1>1, <2>1
  <2> QED BY <1>1, <2>1, <2>2 DEF ClusterToLba
<1>4. WORD \in Nat
  BY SectorSize
<1> QED BY <1>1, <1>2, <1>3, <1>4 DEF Sectors

\* A chain of clusters, and which of its clusters holds a position.
LEMMA ChainFacts ==
    ASSUME NEW v, WellFormed(v), NEW first \in DOMAIN v.files
    PROVE  /\ Len(v.files[first].chain) \in Nat
           /\ first \in Nat
           /\ ChainUnits(v, first) \in Nat /\ ChainUnits(v, first) < WORD
           /\ v.files[first].length \in Nat
           /\ v.files[first].length <= ChainUnits(v, first)
           /\ first # 0 => Len(v.files[first].chain) >= 1 /\ v.files[first].chain[1] = first
           /\ first = 0 => ChainUnits(v, first) = 0
           /\ \A k \in 1 .. Len(v.files[first].chain) :
                 /\ v.files[first].chain[k] \in Clusters(v)
                 /\ v.table[v.files[first].chain[k]] =
                       IF k = Len(v.files[first].chain) THEN END
                       ELSE v.files[first].chain[k + 1]
<1>1. WellFormedFile(v, first)
  BY DEF WellFormed
<1>2. v.files[first].chain \in Seq(Clusters(v))
  BY <1>1 DEF WellFormedFile
<1>3. /\ Len(v.files[first].chain) \in Nat
      /\ \A k \in 1 .. Len(v.files[first].chain) : v.files[first].chain[k] \in Clusters(v)
  BY <1>2, LenProperties, ElementOfSeq
<1>4. first # 0 => Len(v.files[first].chain) >= 1 /\ v.files[first].chain[1] = first
  <2>1. first # 0 => v.files[first].chain # <<>> /\ v.files[first].chain[1] = first
    BY <1>1 DEF WellFormedFile
  <2>2. Len(v.files[first].chain) = 0 => v.files[first].chain = <<>>
    BY <1>2, EmptySeq
  <2> QED BY <1>3, <2>1, <2>2
<1>5. first = 0 => ChainUnits(v, first) = 0
  <2>1. SECTOR_SIZE \in Nat /\ v.sectorsPerCluster \in Nat
    BY SectorSize, BootNumbers DEF WellFormed
  <2>2. first = 0 => Len(v.files[first].chain) = 0
    BY <1>1, EmptySeq DEF WellFormedFile
  <2>3. (0 * v.sectorsPerCluster) * SECTOR_SIZE = 0
    BY <2>1
  <2> QED BY <2>2, <2>3 DEF ChainUnits
<1>6. ChainUnits(v, first) \in Nat /\ v.files[first].length \in Nat
  BY ChainUnitsType
<1> QED BY <1>1, <1>3, <1>4, <1>5, <1>6 DEF WellFormedFile

LEMMA ChainPosition ==
    ASSUME NEW v, WellFormed(v), NEW first \in DOMAIN v.files, NEW p \in Nat
    PROVE  /\ p \div SECTOR_SIZE \in Nat
           /\ (p \div SECTOR_SIZE) \div v.sectorsPerCluster \in Nat
           /\ (p \div SECTOR_SIZE) % v.sectorsPerCluster \in 0 .. v.sectorsPerCluster - 1
           /\ p < ChainUnits(v, first) <=>
                 (p \div SECTOR_SIZE) \div v.sectorsPerCluster < Len(v.files[first].chain)
<1>1. PICK s \in Nat \ {0}, w \in Nat \ {0} : s = SECTOR_SIZE /\ w = v.sectorsPerCluster
  BY SectorSize, BootNumbers DEF WellFormed
<1>2. PICK n \in Nat : n = Len(v.files[first].chain)
  BY ChainFacts
<1>3. PICK i \in Nat : i = p \div s
  BY Quotient
<1>4. i \div w \in Nat /\ i % w \in 0 .. w - 1
  BY Quotient
<1>5. PICK m \in Nat : m = n * w
  BY Below
<1>6. p < m * s <=> i < m
  BY <1>3, Below
<1>7. i < m <=> i \div w < n
  BY <1>5, Below
<1>8. ChainUnits(v, first) = m * s
  BY <1>1, <1>2, <1>5 DEF ChainUnits
<1> QED BY <1>1, <1>2, <1>3, <1>4, <1>6, <1>7, <1>8

-----------------------------------------------------------------------------
(* A file on its course.  f is the FAT_FileData of an open handle; filled   *)
(* says that its last read of the disk succeeded.                           *)

Spot(f) == f.Position \div SECTOR_SIZE

\* The size is the entry's, 0 for a directory, until the end of the chain is
\* written down as the size.
Sized(v, f) ==
    /\ f.FirstCluster \in DOMAIN v.files
    /\ f.IsDirectory =>
          /\ v.files[f.FirstCluster].length = ChainUnits(v, f.FirstCluster)
          /\ \/ f.Size = 0 /\ f.Position < ChainUnits(v, f.FirstCluster)
             \/ /\ f.Size # 0 /\ f.Size = f.Position
                /\ f.Position = ChainUnits(v, f.FirstCluster)
    /\ ~f.IsDirectory =>
          f.Size = v.files[f.FirstCluster].length /\ f.Position <= f.Size

\* Cluster and sector are those of the position, and so is the buffer.
OnChain(v, f, filled) ==
    f.Position < ChainUnits(v, f.FirstCluster) =>
        /\ f.CurrentCluster =
              v.files[f.FirstCluster].chain[(Spot(f) \div v.sectorsPerCluster) + 1]
        /\ f.CurrentSectorInCluster = Spot(f) % v.sectorsPerCluster
        /\ filled => f.Buffer = ClusterToLba(v, f.CurrentCluster)
                                + f.CurrentSectorInCluster

OnCourse(v, f, filled) == Sized(v, f) /\ OnChain(v, f, filled)

\* A turn takes no more than the buffer holds and the file has left.
MayTake(f, take) ==
    /\ take \in 1 .. SECTOR_SIZE - (f.Position % SECTOR_SIZE)
    /\ (f.IsDirectory /\ f.Size = 0) \/ f.Position + take <= f.Size

LEMMA FileNumbers ==
    ASSUME NEW f \in FileData
    PROVE  /\ f.Position \in Nat /\ f.Size \in Nat
           /\ f.Position < WORD /\ f.Size < WORD
           /\ f.IsDirectory \in BOOLEAN /\ f.FirstCluster \in Int
           /\ f.CurrentCluster \in Int /\ f.CurrentSectorInCluster \in Nat
           /\ f.Buffer \in Int
BY SectorSize DEF FileData, Word

LEMMA CourseNow ==
    ASSUME NEW v, WellFormed(v), NEW f \in FileData, NEW filled,
           OnCourse(v, f, filled), NEW take, MayTake(f, take)
    PROVE  /\ take \in Nat /\ take >= 1
           /\ f.Position < ChainUnits(v, f.FirstCluster)
           /\ f.Position + take \in Nat
           /\ f.Position + take <= ChainUnits(v, f.FirstCluster)
           /\ f.Position + take < WORD
           /\ f.CurrentCluster \in Clusters(v)
           /\ f.CurrentSectorInCluster \in 0 .. v.sectorsPerCluster - 1
<1>1. PICK s \in Nat \ {0}, p \in Nat, first \in DOMAIN v.files :
         s = SECTOR_SIZE /\ p = f.Position /\ first = f.FirstCluster
  BY SectorSize, FileNumbers DEF OnCourse, Sized
<1>2. take \in Nat /\ take >= 1 /\ take <= s - (p % s)
  <2>1. p % s \in 0 .. s - 1
    BY Quotient
  <2> QED BY <1>1, <2>1 DEF MayTake
<1>3. /\ ChainUnits(v, first) \in Nat /\ ChainUnits(v, first) < WORD
      /\ v.files[first].length \in Nat
      /\ v.files[first].length <= ChainUnits(v, first)
  BY ChainFacts
<1>4. WORD \in Nat /\ f.Size \in Nat /\ f.IsDirectory \in BOOLEAN
  BY SectorSize, FileNumbers
<1>5. p < ChainUnits(v, first)
  <2>1. CASE f.IsDirectory
    <3>1. \/ f.Size = 0 /\ p < ChainUnits(v, first)
          \/ f.Size # 0 /\ f.Size = p /\ p = ChainUnits(v, first)
      BY <1>1, <2>1 DEF OnCourse, Sized
    <3>2. f.Size = 0 \/ p + take <= f.Size
      BY <1>1 DEF MayTake
    <3> QED BY <1>2, <1>3, <1>4, <3>1, <3>2
  <2>2. CASE ~f.IsDirectory
    <3>1. f.Size = v.files[first].length
      BY <1>1, <2>2 DEF OnCourse, Sized
    <3>2. p + take <= f.Size
      BY <1>1, <2>2 DEF MayTake
    <3> QED BY <1>2, <1>3, <3>1, <3>2
  <2> QED BY <2>1, <2>2
<1>6. p + take <= ChainUnits(v, first)
  <2>1. PICK t \in Nat : take = t + 1 /\ t < s - (p % s)
    <3>1. take - 1 \in Nat /\ take = (take - 1) + 1
      BY <1>2
    <3>2. p % s \in 0 .. s - 1
      BY Quotient
    <3>3. take - 1 < s - (p % s)
      BY <1>2, <3>2
    <3> QED BY <3>1, <3>3
  <2>2. (p + t) \div s = p \div s
    BY <2>1, StepWithin
  <2>3. PICK m \in Nat : m = p + t
    OBVIOUS
  <2>4. m < ChainUnits(v, first)
    BY <1>1, <1>5, <2>2, <2>3, ChainPosition
  <2> QED BY <1>3, <2>1, <2>3, <2>4
<1>7. f.CurrentCluster \in Clusters(v)
  <2>1. PICK q \in Nat : q = (p \div SECTOR_SIZE) \div v.sectorsPerCluster
    BY ChainPosition
  <2>2. q < Len(v.files[first].chain)
    BY <1>5, <2>1, ChainPosition
  <2>3. q + 1 \in 1 .. Len(v.files[first].chain)
    BY <2>1, <2>2, ChainFacts
  <2>4. f.CurrentCluster = v.files[first].chain[q + 1]
    BY <1>1, <1>5, <2>1 DEF OnCourse, OnChain, Spot
  <2> QED BY <2>3, <2>4, ChainFacts
<1>8. f.CurrentSectorInCluster \in 0 .. v.sectorsPerCluster - 1
  <2>1. (p \div SECTOR_SIZE) % v.sectorsPerCluster \in 0 .. v.sectorsPerCluster - 1
    BY ChainPosition
  <2>2. f.CurrentSectorInCluster = (p \div SECTOR_SIZE) % v.sectorsPerCluster
    BY <1>1, <1>5 DEF OnCourse, OnChain, Spot
  <2> QED BY <2>1, <2>2
<1>9. p + take \in Nat /\ p + take < WORD
  BY <1>2, <1>3, <1>4, <1>6
<1> QED BY <1>1, <1>2, <1>5, <1>6, <1>7, <1>8, <1>9

\* What a turn within the chain makes of the size.
LEMMA SizedAhead ==
    ASSUME NEW v, WellFormed(v), NEW f \in FileData, NEW filled,
           OnCourse(v, f, filled), NEW take, MayTake(f, take),
           NEW g \in FileData, SameFile(g, f), g.Size = f.Size,
           g.Position = f.Position + take,
           g.Position < ChainUnits(v, g.FirstCluster)
    PROVE  Sized(v, g)
<1>1. f.Position < ChainUnits(v, f.FirstCluster)
  BY CourseNow
<1>2. g.FirstCluster = f.FirstCluster /\ g.IsDirectory = f.IsDirectory
  BY DEF SameFile
<1>3. f.Position \in Nat /\ f.Size \in Nat /\ f.IsDirectory \in BOOLEAN
  BY FileNumbers
<1>4. CASE f.IsDirectory
  <2>1. f.Size = 0
    BY <1>1, <1>3, <1>4, ChainFacts DEF OnCourse, Sized
  <2> QED BY <1>2, <1>4, <2>1 DEF OnCourse, Sized
<1>5. CASE ~f.IsDirectory
  BY <1>2, <1>5 DEF OnCourse, Sized, MayTake
<1> QED BY <1>3, <1>4, <1>5

LEMMA CourseStays ==
    ASSUME NEW v, WellFormed(v), NEW f \in FileData, NEW filled,
           OnCourse(v, f, filled), NEW take, MayTake(f, take),
           take < SECTOR_SIZE - (f.Position % SECTOR_SIZE),
           NEW g \in FileData, SameFile(g, f), g.Size = f.Size,
           g.Position = f.Position + take,
           g.CurrentCluster = f.CurrentCluster,
           g.CurrentSectorInCluster = f.CurrentSectorInCluster,
           g.Buffer = f.Buffer
    PROVE  OnCourse(v, g, filled)
<1>1. PICK s \in Nat \ {0}, p \in Nat, first \in DOMAIN v.files, t \in Nat, m \in Nat :
         /\ s = SECTOR_SIZE /\ p = f.Position /\ first = f.FirstCluster /\ t = take
         /\ m = p + t
  <2>1. take \in Nat /\ f.Position + take \in Nat
    BY CourseNow
  <2> QED BY <2>1, SectorSize, FileNumbers DEF OnCourse, Sized
<1>2. m \div s = p \div s
  BY <1>1, StepWithin, ZenonT(60)
<1>3. f.Position < ChainUnits(v, f.FirstCluster)
  BY CourseNow
<1>4. g.FirstCluster = first /\ Spot(g) = Spot(f)
  BY <1>1, <1>2 DEF SameFile, Spot
<1>5. g.Position < ChainUnits(v, g.FirstCluster)
  <2>1. p < ChainUnits(v, first) <=> m < ChainUnits(v, first)
    BY <1>1, <1>2, ChainPosition
  <2> QED BY <1>1, <1>3, <1>4, <2>1
<1>6. Sized(v, g)
  BY <1>5, SizedAhead
<1>7. OnChain(v, g, filled)
  BY <1>1, <1>3, <1>4 DEF OnCourse, OnChain
<1> QED BY <1>6, <1>7 DEF OnCourse

LEMMA CourseNextSector ==
    ASSUME NEW v, WellFormed(v), NEW f \in FileData, NEW filled,
           OnCourse(v, f, filled), NEW take, MayTake(f, take),
           take = SECTOR_SIZE - (f.Position % SECTOR_SIZE),
           f.CurrentSectorInCluster + 1 < v.sectorsPerCluster,
           NEW g \in FileData, SameFile(g, f), g.Size = f.Size,
           g.Position = f.Position + take,
           g.CurrentCluster = f.CurrentCluster,
           g.CurrentSectorInCluster = f.CurrentSectorInCluster + 1,
           NEW refilled,
           refilled => g.Buffer = ClusterToLba(v, g.CurrentCluster)
                                  + g.CurrentSectorInCluster
    PROVE  OnCourse(v, g, refilled)
<1>1. PICK s \in Nat \ {0}, w \in Nat \ {0}, p \in Nat, first \in DOMAIN v.files,
           t \in Nat, m \in Nat :
         /\ s = SECTOR_SIZE /\ w = v.sectorsPerCluster /\ p = f.Position
         /\ first = f.FirstCluster /\ t = take /\ m = p + t
  <2>1. take \in Nat /\ f.Position + take \in Nat
    BY CourseNow
  <2>2. v.sectorsPerCluster \in Nat \ {0}
    BY BootNumbers DEF WellFormed
  <2> QED BY <2>1, <2>2, SectorSize, FileNumbers DEF OnCourse, Sized
<1>2. PICK i \in Nat, j \in Nat : i = p \div s /\ j = m \div s /\ j = i + 1
  <2>1. t = s - (p % s)
    BY <1>1
  <2>2. p \div s \in Nat /\ (p + t) \div s = (p \div s) + 1
    BY <2>1, StepWithin
  <2> QED BY <1>1, <2>2
<1>3. f.Position < ChainUnits(v, f.FirstCluster)
  BY CourseNow
<1>4. f.CurrentSectorInCluster = i % w /\ g.FirstCluster = first
  BY <1>1, <1>2, <1>3 DEF OnCourse, OnChain, Spot, SameFile
<1>5. i % w \in 0 .. w - 1 /\ (i + 1) \div w = i \div w /\ (i + 1) % w = (i % w) + 1
  <2>1. i % w \in 0 .. w - 1
    BY Quotient
  <2>2. (i % w) + 1 < w
    BY <1>1, <1>4
  <2> QED BY <2>1, <2>2, StepByOne
<1>6. g.Position < ChainUnits(v, g.FirstCluster)
  <2>1. p < ChainUnits(v, first) <=> m < ChainUnits(v, first)
    BY <1>1, <1>2, <1>5, ChainPosition
  <2> QED BY <1>1, <1>3, <1>4, <2>1
<1>7. Sized(v, g)
  BY <1>6, SizedAhead
<1>8. OnChain(v, g, refilled)
  <2>1. Spot(g) = j /\ Spot(f) = i
    BY <1>1, <1>2 DEF Spot
  <2>2. f.CurrentCluster = v.files[first].chain[(i \div w) + 1]
    BY <1>1, <1>3, <2>1 DEF OnCourse, OnChain
  <2>3. g.CurrentCluster = v.files[first].chain[(j \div w) + 1]
    BY <1>2, <1>5, <2>2
  <2>4. g.CurrentSectorInCluster = j % w
    BY <1>2, <1>4, <1>5
  <2> QED BY <1>1, <1>4, <2>1, <2>3, <2>4 DEF OnChain
<1> QED BY <1>7, <1>8 DEF OnCourse

\* The last sector of a cluster is used up: the position reached is that of
\* the next cluster of the chain, or the chain's end.
LEMMA ClusterLeft ==
    ASSUME NEW v, WellFormed(v), NEW f \in FileData, NEW filled,
           OnCourse(v, f, filled), NEW take, MayTake(f, take),
           take = SECTOR_SIZE - (f.Position % SECTOR_SIZE),
           f.CurrentSectorInCluster + 1 >= v.sectorsPerCluster,
           NEW m, m = f.Position + take
    PROVE  /\ (m \div SECTOR_SIZE) % v.sectorsPerCluster = 0
           /\ m < ChainUnits(v, f.FirstCluster) <=> v.table[f.CurrentCluster] # END
           /\ v.table[f.CurrentCluster] # END =>
                 v.table[f.CurrentCluster] =
                    v.files[f.FirstCluster].chain[
                        ((m \div SECTOR_SIZE) \div v.sectorsPerCluster) + 1]
<1>1. PICK s \in Nat \ {0}, w \in Nat \ {0}, p \in Nat, first \in DOMAIN v.files, t \in Nat :
         /\ s = SECTOR_SIZE /\ w = v.sectorsPerCluster /\ p = f.Position
         /\ first = f.FirstCluster /\ t = take
  <2>1. take \in Nat
    BY CourseNow
  <2>2. v.sectorsPerCluster \in Nat \ {0}
    BY BootNumbers DEF WellFormed
  <2> QED BY <2>1, <2>2, SectorSize, FileNumbers DEF OnCourse, Sized
<1>2. m \in Nat /\ m = p + t
  BY <1>1, CourseNow
<1>3. PICK i \in Nat, j \in Nat : i = p \div s /\ j = m \div s /\ j = i + 1
  <2>1. t = s - (p % s)
    BY <1>1
  <2>2. p \div s \in Nat /\ (p + t) \div s = (p \div s) + 1
    BY <2>1, StepWithin
  <2> QED BY <1>2, <2>2
<1>4. p < ChainUnits(v, first)
  BY <1>1, CourseNow
<1>5. /\ f.CurrentSectorInCluster = i % w
      /\ f.CurrentCluster = v.files[first].chain[(i \div w) + 1]
  BY <1>1, <1>3, <1>4 DEF OnCourse, OnChain, Spot
<1>6. i \div w \in Nat /\ j \div w = (i \div w) + 1 /\ j % w = 0
  <2>1. (i % w) + 1 >= w
    BY <1>1, <1>5
  <2>2. i \div w \in Nat /\ (i + 1) \div w = (i \div w) + 1 /\ (i + 1) % w = 0
    BY <2>1, StepByOne
  <2> QED BY <1>3, <2>2
<1>7. PICK q \in Nat, n \in Nat : q = i \div w /\ n = Len(v.files[first].chain)
  BY <1>6, ChainFacts
<1>8. q < n
  BY <1>1, <1>3, <1>4, <1>7, ChainPosition
<1>9. m < ChainUnits(v, first) <=> q + 1 < n
  BY <1>1, <1>2, <1>3, <1>6, <1>7, ChainPosition, ZenonT(60)
<1>10. v.table[f.CurrentCluster] = IF q + 1 = n THEN END ELSE v.files[first].chain[q + 2]
  <2>1. PICK k \in 1 .. n : k = q + 1 /\ k + 1 = q + 2
    BY <1>8
  <2>2. v.table[v.files[first].chain[k]] = IF k = n THEN END ELSE v.files[first].chain[k + 1]
    BY <1>7, <2>1, ChainFacts, SMTT(40)
  <2>3. f.CurrentCluster = v.files[first].chain[k]
    BY <1>5, <1>7, <2>1
  <2> QED BY <2>1, <2>2, <2>3
<1>11. q + 1 # n => v.files[first].chain[q + 2] # END
  <2>1. q + 1 # n => q + 2 \in 1 .. n
    BY <1>8
  <2>2. q + 1 # n => v.files[first].chain[q + 2] \in Clusters(v)
    BY <1>7, <2>1, ChainFacts
  <2>3. END \notin Clusters(v)
    BY DEF WellFormed, WellFormedCluster, END
  <2> QED BY <2>2, <2>3
<1>12. (j \div w) + 1 = q + 2
  BY <1>6, <1>7
<1>13. q + 1 < n <=> q + 1 # n
  BY <1>8
<1> QED BY <1>1, <1>3, <1>6, <1>9, <1>10, <1>11, <1>12, <1>13

LEMMA CourseNextCluster ==
    ASSUME NEW v, WellFormed(v), NEW f \in FileData, NEW filled,
           OnCourse(v, f, filled), NEW take, MayTake(f, take),
           take = SECTOR_SIZE - (f.Position % SECTOR_SIZE),
           f.CurrentSectorInCluster + 1 >= v.sectorsPerCluster,
           v.table[f.CurrentCluster] # END,
           NEW g \in FileData, SameFile(g, f), g.Size = f.Size,
           g.Position = f.Position + take,
           g.CurrentCluster = v.table[f.CurrentCluster],
           g.CurrentSectorInCluster = 0,
           NEW refilled,
           refilled => g.Buffer = ClusterToLba(v, g.CurrentCluster)
    PROVE  OnCourse(v, g, refilled)
<1>1. PICK m : m = f.Position + take /\ g.Position = m
  OBVIOUS
<1>2. /\ (m \div SECTOR_SIZE) % v.sectorsPerCluster = 0
      /\ m < ChainUnits(v, f.FirstCluster)
      /\ v.table[f.CurrentCluster] =
            v.files[f.FirstCluster].chain[((m \div SECTOR_SIZE) \div v.sectorsPerCluster) + 1]
  BY <1>1, ClusterLeft
<1>3. g.FirstCluster = f.FirstCluster
  BY DEF SameFile
<1>4. Sized(v, g)
  BY <1>1, <1>2, <1>3, SizedAhead
<1>5. ClusterToLba(v, g.CurrentCluster) \in Int
  <2>1. g.CurrentCluster \in Int
    BY FileNumbers
  <2> QED BY <2>1, PlaceOfCluster DEF WellFormed
<1>6. OnChain(v, g, refilled)
  <2>1. Spot(g) = m \div SECTOR_SIZE
    BY <1>1, Zenon DEF Spot
  <2>2. /\ g.CurrentCluster =
              v.files[g.FirstCluster].chain[(Spot(g) \div v.sectorsPerCluster) + 1]
        /\ g.CurrentSectorInCluster = Spot(g) % v.sectorsPerCluster
    BY <1>2, <1>3, <2>1, Zenon
  <2>3. PICK n \in Int : n = ClusterToLba(v, g.CurrentCluster)
    BY <1>5, Zenon
  <2>4. n + g.CurrentSectorInCluster = n
    BY <2>3
  <2>5. refilled => g.Buffer = n + g.CurrentSectorInCluster
    BY <2>3, <2>4, Zenon
  <2> QED BY <2>2, <2>3, <2>5, Zenon DEF OnChain
<1> QED BY <1>4, <1>6 DEF OnCourse

LEMMA CourseEnds ==
    ASSUME NEW v, WellFormed(v), NEW f \in FileData, NEW filled,
           OnCourse(v, f, filled), NEW take, MayTake(f, take),
           take = SECTOR_SIZE - (f.Position % SECTOR_SIZE),
           f.CurrentSectorInCluster + 1 >= v.sectorsPerCluster,
           v.table[f.CurrentCluster] = END,
           NEW g \in FileData, SameFile(g, f), g.Size = g.Position,
           g.Position = f.Position + take,
           NEW refilled
    PROVE  /\ OnCourse(v, g, refilled)
           /\ g.Position = v.files[f.FirstCluster].length
<1>1. PICK m : m = f.Position + take /\ g.Position = m
  OBVIOUS
<1>2. ~(m < ChainUnits(v, f.FirstCluster))
  BY <1>1, ClusterLeft
<1>3. PICK first \in DOMAIN v.files : first = f.FirstCluster
  BY DEF OnCourse, Sized
<1>4. /\ ChainUnits(v, first) \in Nat /\ v.files[first].length \in Nat
      /\ v.files[first].length <= ChainUnits(v, first)
  BY ChainFacts
<1>5. m \in Nat /\ m # 0 /\ m = ChainUnits(v, first)
  <2>1. m \in Nat /\ m <= ChainUnits(v, first)
    BY <1>1, <1>3, CourseNow
  <2>2. take >= 1 /\ take \in Nat /\ f.Position \in Nat
    BY CourseNow, FileNumbers
  <2>3. m # 0
    BY <1>1, <2>2
  <2> QED BY <1>2, <1>3, <1>4, <2>1, <2>3
<1>6. g.FirstCluster = first /\ g.IsDirectory = f.IsDirectory
  BY <1>3 DEF SameFile
<1>7. m = v.files[first].length
  <2>1. f.IsDirectory => v.files[first].length = ChainUnits(v, first)
    BY <1>3 DEF OnCourse, Sized
  <2>2. ~f.IsDirectory => m <= v.files[first].length
    BY <1>1, <1>3 DEF OnCourse, Sized, MayTake
  <2> QED BY <1>4, <1>5, <2>1, <2>2
<1>8. Sized(v, g)
  BY <1>1, <1>3, <1>5, <1>6, <1>7 DEF Sized
<1>9. OnChain(v, g, refilled)
  BY <1>1, <1>4, <1>5, <1>6 DEF OnChain
<1> QED BY <1>1, <1>3, <1>7, <1>8, <1>9 DEF OnCourse

-----------------------------------------------------------------------------
(* The root directory on its course                                        *)

RootOf(v, f) ==
    f.IsDirectory /\ f.Size = v.dirEntries /\ f.FirstCluster = RootLba(v)

\* Sector by sector from the first one, to the end on FAT12 and FAT16, and as
\* far as the first cluster goes on FAT32.
RootOnCourse(v, f, filled) ==
    /\ f.CurrentCluster = RootLba(v) + Spot(f)
    /\ filled => f.Buffer = f.CurrentCluster
    /\ v.fat32 => Spot(f) < v.sectorsPerCluster
    /\ ~v.fat32 => f.Position <= v.dirEntries

LEMMA RootPlaces ==
    ASSUME NEW v, WellFormed(v), NEW p \in Nat
    PROVE  /\ v.fat32 \in BOOLEAN /\ RootLba(v) \in Nat /\ p \div SECTOR_SIZE \in Nat
           /\ v.sectorsPerCluster \in Nat \ {0}
           /\ Extent(v, ROOT) \in Nat /\ Extent(v, ROOT) < WORD
           /\ v.fat32 => v.rootCluster \in DOMAIN v.files /\ v.dirEntries = 0
           /\ v.fat32 => v.files[v.rootCluster].chain[1] = v.rootCluster
           /\ v.fat32 => RootLba(v) = ClusterToLba(v, v.rootCluster)
           /\ v.fat32 => RootLba(v) + v.sectorsPerCluster < WORD
           /\ v.fat32 /\ p \div SECTOR_SIZE < v.sectorsPerCluster =>
                 /\ RootLba(v) + (p \div SECTOR_SIZE) \in Sectors(v)
                 /\ p < Extent(v, ROOT)
           /\ ~v.fat32 => Extent(v, ROOT) = v.dirEntries /\ v.dirEntries > 0
           /\ ~v.fat32 /\ p <= v.dirEntries =>
                 /\ RootLba(v) + (p \div SECTOR_SIZE) \in Sectors(v)
                 /\ RootLba(v) + (p \div SECTOR_SIZE) < WORD
<1>1. /\ v.sectorsPerCluster \in Nat \ {0} /\ v.totalSectors \in Nat
      /\ DataLba(v) \in Nat /\ DataLba(v) < v.totalSectors /\ v.totalSectors < WORD
      /\ v.dirEntries \in Nat /\ v.dirEntries < WORD /\ WORD \in Nat
  BY BootNumbers, SectorSize DEF WellFormed
<1>2. v.fat32 \in BOOLEAN
  BY DEF WellFormed, WellFormedBoot
<1>3. PICK s \in Nat \ {0}, i \in Nat : s = SECTOR_SIZE /\ i = p \div s
  BY SectorSize, Quotient
<1>4. CASE v.fat32
  <2>1. v.rootCluster \in DOMAIN v.files /\ v.rootCluster # 0 /\ v.dirEntries = 0
    BY <1>4 DEF WellFormed, WellFormedBoot
  <2>2. PICK n \in Nat : n = Len(v.files[v.rootCluster].chain)
    BY <2>1, ChainFacts
  <2>3. n >= 1 /\ v.files[v.rootCluster].chain[1] = v.rootCluster
    BY <2>1, <2>2, ChainFacts
  <2>4. v.rootCluster \in Clusters(v)
    <3>1. 1 \in 1 .. n
      BY <2>3
    <3> QED BY <2>1, <2>2, <2>3, <3>1, ChainFacts
  <2>5. RootLba(v) = ClusterToLba(v, v.rootCluster)
    BY <1>4 DEF RootLba
  <2>6. /\ RootLba(v) \in Nat /\ RootLba(v) + v.sectorsPerCluster < WORD
        /\ \A k \in 0 .. v.sectorsPerCluster - 1 : RootLba(v) + k \in Sectors(v)
    <3>1. 0 \in 0 .. v.sectorsPerCluster - 1
      BY <1>1
    <3> QED BY <2>4, <2>5, <3>1, ClusterSectors
  <2>7. Extent(v, ROOT) = ChainUnits(v, v.rootCluster)
    BY <1>4 DEF Extent
  <2>8. Extent(v, ROOT) \in Nat /\ Extent(v, ROOT) < WORD
    BY <2>1, <2>7, ChainFacts
  <2>9. ASSUME i < v.sectorsPerCluster
        PROVE  RootLba(v) + i \in Sectors(v) /\ p < Extent(v, ROOT)
    <3>1. i \in 0 .. v.sectorsPerCluster - 1
      BY <1>1, <2>9
    <3>2. PICK w \in Nat \ {0}, zero \in Nat, r \in 0 .. v.sectorsPerCluster - 1 :
             w = v.sectorsPerCluster /\ zero = 0 /\ r = i
      BY <1>1, <3>1
    <3>3. i = zero * w + r /\ r \in 0 .. w - 1
      BY <3>2
    <3>4. i \div w = zero
      BY <3>3, QuotientUnique, SMT
    <3>5. zero < n
      BY <2>3, <3>2
    <3> QED BY <1>3, <2>1, <2>2, <2>6, <2>7, <3>1, <3>2, <3>4, <3>5, ChainPosition
  <2> QED BY <1>1, <1>2, <1>3, <1>4, <2>1, <2>3, <2>5, <2>6, <2>8, <2>9
<1>5. CASE ~v.fat32
  <2>1. v.reserved \in Nat /\ v.fatCount \in Nat /\ v.sectorsPerFat \in Nat
    BY DEF WellFormed, WellFormedBoot
  <2>2. RootLba(v) = v.reserved + v.sectorsPerFat * v.fatCount
    BY <1>5 DEF RootLba
  <2>3. RootLba(v) \in Nat
    <3>1. v.sectorsPerFat * v.fatCount \in Nat
      BY <2>1
    <3> QED BY <2>1, <2>2, <3>1
  <2>4. DataLba(v) = RootLba(v) + RootSectors(v)
    BY <1>5, <2>2 DEF DataLba
  <2>5. PICK d \in Nat, e \in Nat, top \in Nat :
           /\ d = v.dirEntries /\ e = d + s - 1 /\ top = e \div s
           /\ top = RootSectors(v)
    <3>1. v.dirEntries + s - 1 \in Nat
      BY <1>1
    <3>2. (v.dirEntries + s - 1) \div s \in Nat
      BY <3>1, Quotient
    <3> QED BY <1>1, <1>3, <3>1, <3>2 DEF RootSectors
  <2>6. ASSUME p <= v.dirEntries PROVE i <= top
    <3>1. p <= e
      BY <2>5, <2>6
    <3>2. PICK n \in Nat : n = top + 1
      BY <2>5
    <3>3. e < n * s
      BY <2>5, <3>2, Below
    <3>4. p < n * s
      <4>1. PICK m \in Nat : m = n * s
        BY Below
      <4> QED BY <3>1, <3>3, <4>1
    <3>5. i < n
      BY <1>3, <3>4, Below
    <3> QED BY <3>2, <3>5
  <2>7. ASSUME p <= v.dirEntries
        PROVE  RootLba(v) + i \in Sectors(v) /\ RootLba(v) + i < WORD
    BY <1>1, <2>3, <2>4, <2>5, <2>6, <2>7 DEF Sectors
  <2>8. Extent(v, ROOT) = v.dirEntries
    BY <1>5 DEF Extent
  <2>9. v.dirEntries > 0
    BY <1>5 DEF WellFormed, WellFormedBoot
  <2> QED BY <1>1, <1>2, <1>3, <1>5, <2>3, <2>7, <2>8, <2>9
<1> QED BY <1>2, <1>4, <1>5

\* What is taken from a sector ends in it or where it ends.
LEMMA TakenEnds ==
    ASSUME NEW s \in Nat \ {0}, NEW p \in Nat, NEW take \in 1 .. s - (p % s)
    PROVE  /\ take \in Nat /\ take >= 1
           /\ \E t \in Nat : take = t + 1 /\ (p + t) \div s = p \div s
<1>1. PICK r \in 0 .. s - 1 : r = p % s
  BY Quotient
<1>2. take \in Nat /\ take >= 1 /\ take <= s - r
  BY <1>1
<1>3. PICK t \in Nat : take = t + 1 /\ t < s - r
  <2>1. take - 1 \in Nat /\ take = (take - 1) + 1 /\ take - 1 < s - r
    BY <1>1, <1>2
  <2> QED BY <2>1
<1>4. (p + t) \div s = p \div s
  BY <1>1, <1>3, StepWithin
<1> QED BY <1>2, <1>3, <1>4

LEMMA RootNow ==
    ASSUME NEW v, WellFormed(v), NEW f \in FileData, RootOf(v, f), NEW filled,
           RootOnCourse(v, f, filled), NEW take, MayTake(f, take)
    PROVE  /\ take \in Nat /\ take >= 1 /\ f.Position + take \in Nat
           /\ f.Position + take <= Extent(v, ROOT)
           /\ f.Position + take < WORD
           /\ ~v.fat32 => f.Position + take <= v.dirEntries
<1>1. PICK s \in Nat \ {0}, p \in Nat : s = SECTOR_SIZE /\ p = f.Position
  BY SectorSize, FileNumbers
<1>2. take \in 1 .. s - (p % s)
  BY <1>1 DEF MayTake
<1>3. take \in Nat /\ take >= 1
  BY <1>2, TakenEnds
<1>4. PICK t \in Nat : take = t + 1 /\ (p + t) \div s = p \div s
  BY <1>2, TakenEnds
<1>5. PICK m \in Nat : m = p + t
  OBVIOUS
<1>6. Extent(v, ROOT) \in Nat /\ Extent(v, ROOT) < WORD /\ v.fat32 \in BOOLEAN /\ WORD \in Nat
  BY RootPlaces, SectorSize
<1>7. CASE v.fat32
  <2>1. m \div SECTOR_SIZE < v.sectorsPerCluster
    BY <1>1, <1>4, <1>5, <1>7 DEF RootOnCourse, Spot
  <2>2. m < Extent(v, ROOT)
    BY <1>7, <2>1, RootPlaces
  <2> QED BY <1>1, <1>3, <1>4, <1>5, <1>6, <1>7, <2>2
<1>8. CASE ~v.fat32
  <2>1. Extent(v, ROOT) = v.dirEntries /\ v.dirEntries > 0
    BY <1>1, <1>8, RootPlaces
  <2>2. p + take <= v.dirEntries
    BY <1>1, <1>6, <2>1 DEF MayTake, RootOf
  <2> QED BY <1>1, <1>3, <1>6, <2>1, <2>2
<1> QED BY <1>6, <1>7, <1>8

LEMMA RootStays ==
    ASSUME NEW v, WellFormed(v), NEW f \in FileData, RootOf(v, f), NEW filled,
           RootOnCourse(v, f, filled), NEW take, MayTake(f, take),
           take < SECTOR_SIZE - (f.Position % SECTOR_SIZE),
           NEW g \in FileData, g.Position = f.Position + take,
           g.CurrentCluster = f.CurrentCluster, g.Buffer = f.Buffer
    PROVE  RootOnCourse(v, g, filled)
<1>1. PICK s \in Nat \ {0}, p \in Nat, t \in Nat :
         s = SECTOR_SIZE /\ p = f.Position /\ t = take
  BY RootNow, SectorSize, FileNumbers
<1>2. (p + t) \div s = p \div s
  BY <1>1, StepWithin
<1>3. Spot(g) = Spot(f)
  BY <1>1, <1>2 DEF Spot
<1>4. ~v.fat32 => g.Position <= v.dirEntries
  BY RootNow
<1> QED BY <1>3, <1>4 DEF RootOnCourse

LEMMA RootNext ==
    ASSUME NEW v, WellFormed(v), NEW f \in FileData, RootOf(v, f), NEW filled,
           RootOnCourse(v, f, filled), NEW take, MayTake(f, take),
           take = SECTOR_SIZE - (f.Position % SECTOR_SIZE),
           NEW lba, lba = (f.CurrentCluster + 1) % WORD,
           ~(v.fat32 /\ lba >= RootLba(v) + v.sectorsPerCluster),
           NEW g \in FileData, g.Position = f.Position + take,
           g.CurrentCluster = lba,
           NEW refilled, refilled /\ lba \in Sectors(v) => g.Buffer = lba
    PROVE  RootOnCourse(v, g, refilled)
<1>1. PICK s \in Nat \ {0}, p \in Nat, t \in Nat, m \in Nat :
         s = SECTOR_SIZE /\ p = f.Position /\ t = take /\ m = p + t
  BY RootNow, SectorSize, FileNumbers
<1>2. PICK i \in Nat, j \in Nat : i = p \div s /\ j = m \div s /\ j = i + 1
  <2>1. t = s - (p % s)
    BY <1>1
  <2>2. p \div s \in Nat /\ (p + t) \div s = (p \div s) + 1
    BY <2>1, StepWithin
  <2> QED BY <1>1, <2>2
<1>3. Spot(f) = i /\ Spot(g) = j
  BY <1>1, <1>2 DEF Spot
<1>4. f.CurrentCluster = RootLba(v) + i /\ RootLba(v) \in Nat /\ WORD \in Nat \ {0}
  BY <1>1, <1>3, RootPlaces, SectorSize DEF RootOnCourse
<1>5. v.fat32 \in BOOLEAN /\ v.sectorsPerCluster \in Nat
  BY <1>1, RootPlaces
<1>6. RootLba(v) + j < WORD
  <2>1. CASE v.fat32
    <3>1. i < v.sectorsPerCluster
      BY <1>3, <2>1 DEF RootOnCourse
    <3>2. RootLba(v) + v.sectorsPerCluster < WORD
      BY <1>1, <2>1, RootPlaces
    <3> QED BY <1>2, <1>4, <1>5, <3>1, <3>2
  <2>2. CASE ~v.fat32
    <3>1. m <= v.dirEntries
      BY <1>1, <2>2, RootNow
    <3> QED BY <1>1, <1>2, <2>2, <3>1, RootPlaces
  <2> QED BY <1>5, <2>1, <2>2
<1>7. lba = RootLba(v) + j
  <2>1. PICK n \in Nat : n = RootLba(v) + j /\ n = f.CurrentCluster + 1
    BY <1>2, <1>4
  <2>2. n % WORD = n
    BY <1>4, <1>6, <2>1
  <2> QED BY <2>1, <2>2
<1>8. v.fat32 => j < v.sectorsPerCluster
  BY <1>2, <1>4, <1>5, <1>7
<1>9. ~v.fat32 => m <= v.dirEntries
  BY <1>1, RootNow
<1>10. lba \in Sectors(v)
  BY <1>1, <1>2, <1>5, <1>7, <1>8, <1>9, RootPlaces
<1> QED BY <1>1, <1>3, <1>7, <1>8, <1>9, <1>10 DEF RootOnCourse

-----------------------------------------------------------------------------
(* What one turn of FAT_Read's loop does to the file it works on, and that  *)
(* it leaves the others alone.                                              *)

\* a and b differ in the buffer only.
SameButBuffer(a, b) ==
    /\ SameFile(a, b) /\ a.Position = b.Position /\ a.Size = b.Size
    /\ a.CurrentCluster = b.CurrentCluster
    /\ a.CurrentSectorInCluster = b.CurrentSectorInCluster

OthersKept(h) ==
    \A g \in Files \ {h} :
        /\ fd'[g] = fd[g]
        /\ g \in stale' <=> g \in stale
        /\ g \in astray' <=> g \in astray

LEMMA MovedFields ==
    ASSUME TypeOK, NEW h \in Files, NEW take \in Nat, fd[h].Position + take < WORD
    PROVE  /\ Moved(h, take) \in FileData /\ SameFile(Moved(h, take), fd[h])
           /\ Moved(h, take).Position = fd[h].Position + take
           /\ Moved(h, take).Size = fd[h].Size
           /\ Moved(h, take).CurrentCluster = fd[h].CurrentCluster
           /\ Moved(h, take).CurrentSectorInCluster = fd[h].CurrentSectorInCluster
           /\ Moved(h, take).Buffer = fd[h].Buffer
<1>1. fd[h] \in FileData /\ fd[h].Position \in Nat
  BY HandleNumbers
<1>2. PICK p \in Nat : p = fd[h].Position + take
  BY <1>1
<1>3. p % WORD = p
  BY <1>2, SectorSize
<1>4. Moved(h, take) = [fd[h] EXCEPT !.Position = p]
  BY <1>2, <1>3 DEF Moved
<1>5. /\ [fd[h] EXCEPT !.Position = p].Position = p
      /\ [fd[h] EXCEPT !.Position = p].Size = fd[h].Size
      /\ [fd[h] EXCEPT !.Position = p].CurrentCluster = fd[h].CurrentCluster
      /\ [fd[h] EXCEPT !.Position = p].CurrentSectorInCluster = fd[h].CurrentSectorInCluster
      /\ [fd[h] EXCEPT !.Position = p].Buffer = fd[h].Buffer
  BY <1>1 DEF FileData
<1>6. Moved(h, take) \in FileData /\ SameFile(Moved(h, take), fd[h])
  BY MovedType
<1> QED BY <1>2, <1>4, <1>5, <1>6

LEMMA RefillEffect ==
    ASSUME TypeOK, NEW h \in Files, NEW data \in FileData, NEW lba \in Int,
           NEW strayed \in BOOLEAN, NEW failed, NEW go \in BOOLEAN,
           Refill(h, data, lba, strayed, failed, go)
    PROVE  /\ OthersKept(h)
           /\ fd'[h] \in FileData /\ SameButBuffer(fd'[h], data)
           /\ h \notin stale' /\ lba \in Sectors(vol) => fd'[h].Buffer = lba
           /\ h \in astray' <=> h \in astray \/ strayed
           /\ ~doubt' => ~doubt /\ go /\ h \notin stale' /\ h \notin astray'
<1>1. fd \in [Files -> FileData] /\ fd[h].Buffer \in Int /\ stale \subseteq Files
  BY DEF TypeOK, FileData
<1>2. PICK r \in ReadSector(lba, fd[h].Buffer) :
         /\ fd' = [fd EXCEPT ![h] = [data EXCEPT !.Buffer = r.buffer]]
         /\ go = r.ok
         /\ Note(h, r.ok, strayed)
  BY DEF Refill
<1>3. r.buffer \in Int
  BY <1>1, ReadSectorType
<1>4. r.ok \in BOOLEAN /\ (r.ok /\ lba \in Sectors(vol) => r.buffer = lba)
  <2> DEFINE delivered == IF lba \in Sectors(vol) THEN {lba}
                          ELSE DOMAIN vol.entries \cup {GARBAGE}
             old == {fd[h].Buffer, GARBAGE}
  <2>1. r \in [ok : {TRUE}, buffer : delivered] \cup [ok : {FALSE}, buffer : old]
    BY DEF ReadSector
  <2>2. lba \in Sectors(vol) => delivered = {lba}
    OBVIOUS
  <2> HIDE DEF delivered, old
  <2>3. CASE r \in [ok : {TRUE}, buffer : delivered]
    BY <2>2, <2>3
  <2>4. CASE r \in [ok : {FALSE}, buffer : old]
    BY <2>4
  <2> QED BY <2>1, <2>3, <2>4
<1> DEFINE new == [data EXCEPT !.Buffer = r.buffer]
<1>5. new \in FileData /\ SameButBuffer(new, data) /\ new.Buffer = r.buffer
  BY <1>3 DEF FileData, SameButBuffer, SameFile
<1> HIDE DEF new
<1>6. fd' = [fd EXCEPT ![h] = new]
  BY <1>2 DEF new
<1>7. fd'[h] = new /\ \A g \in Files \ {h} : fd'[g] = fd[g]
  BY <1>1, <1>6
<1>8. /\ h \notin stale' <=> r.ok
      /\ h \in astray' <=> h \in astray \/ strayed
      /\ \A g \in Files \ {h} : /\ g \in stale' <=> g \in stale
                                /\ g \in astray' <=> g \in astray
      /\ ~doubt' => ~doubt /\ r.ok /\ h \notin astray'
  <2>1. Note(h, r.ok, strayed)
    BY <1>2
  <2> HIDE DEF new
  <2> QED BY <1>4, <2>1, Zenon DEF Note
<1>9. OthersKept(h)
  BY <1>7, <1>8 DEF OthersKept
<1> QED BY <1>2, <1>4, <1>5, <1>7, <1>8, <1>9

\* FAT_NextCluster's answer, when the read of the table did not fail and it is
\* not FAT32's end mark, is the table's entry.
LEMMA NextClusterAnswer ==
    ASSUME TypeOK, NEW c \in Clusters(vol), NEW n \in NextCluster(c), ~n.failed
    PROVE  n.next = NOWHERE \/ n.next = vol.table[c]
<1> DEFINE anything == Clusters(vol) \cup {END, NOWHERE}
           stored   == IF FatType(vol) = 32 /\ vol.table[c] = END
                       THEN NOWHERE ELSE vol.table[c]
<1>1. stored = NOWHERE \/ stored = vol.table[c]
  OBVIOUS
<1>2. n \in {[next |-> stored, failed |-> FALSE]} \cup [next : anything, failed : {TRUE}]
  BY DEF NextCluster
<1> HIDE DEF anything, stored
<1>3. n.next = stored
  <2>1. CASE n \in {[next |-> stored, failed |-> FALSE]}
    BY <2>1
  <2>2. CASE n \in [next : anything, failed : {TRUE}]
    BY <2>2
  <2> QED BY <1>2, <2>1, <2>2
<1> QED BY <1>1, <1>3

LEMMA AnswerFlag ==
    ASSUME NEW c, NEW n \in NextCluster(c)
    PROVE  n.failed \in BOOLEAN
<1> DEFINE anything == Clusters(vol) \cup {END, NOWHERE}
           stored   == IF FatType(vol) = 32 /\ vol.table[c] = END
                       THEN NOWHERE ELSE vol.table[c]
<1>1. \/ n \in {[next |-> stored, failed |-> FALSE]}
      \/ n \in [next : anything, failed : {TRUE}]
      \/ n \in [next : anything, failed : {FALSE}]
  BY DEF NextCluster
<1> HIDE DEF anything, stored
<1>2. CASE n \in {[next |-> stored, failed |-> FALSE]}
  <2>1. n = [next |-> stored, failed |-> FALSE]
    BY <1>2
  <2>2. n.failed = FALSE
    BY <2>1, Zenon
  <2> QED BY <2>2, Zenon
<1>3. CASE n \in [next : anything, failed : {TRUE}]
  BY <1>3
<1>4. CASE n \in [next : anything, failed : {FALSE}]
  BY <1>4
<1> QED BY <1>1, <1>2, <1>3, <1>4

\* Whatever the turn meets: one that strayed stays astray, and a call that is
\* not in doubt filled the buffer it read.
TurnFrame(h) ==
    /\ OthersKept(h)
    /\ h \in astray => h \in astray'
    /\ ~doubt' => ~doubt /\ h \notin astray' /\ (h \notin stale => h \notin stale')

LEMMA RefillFrame ==
    ASSUME TypeOK, NEW h \in Files, NEW data, NEW lba, NEW strayed, NEW failed, NEW go,
           Refill(h, data, lba, strayed, failed, go)
    PROVE  TurnFrame(h)
<1>1. fd \in [Files -> FileData]
  BY DEF TypeOK
<1>2. PICK r : /\ fd' = [fd EXCEPT ![h] = [data EXCEPT !.Buffer = r.buffer]]
               /\ Note(h, r.ok, strayed)
  BY DEF Refill
<1>3. \A g \in Files \ {h} : fd'[g] = fd[g]
  BY <1>1, <1>2
<1>4. /\ h \in astray => h \in astray'
      /\ \A g \in Files \ {h} : /\ g \in stale' <=> g \in stale
                                /\ g \in astray' <=> g \in astray
      /\ ~doubt' => ~doubt /\ h \notin astray' /\ (h \notin stale => h \notin stale')
  <2>1. Note(h, r.ok, strayed)
    BY <1>2
  <2> QED BY <2>1, Zenon DEF Note
<1> QED BY <1>3, <1>4 DEF OthersKept, TurnFrame

LEMMA TurnFrames ==
    ASSUME TypeOK, NEW h \in Files, NEW take, NEW go, Turn(h, take, go)
    PROVE  TurnFrame(h)
<1>0. fd \in [Files -> FileData]
  BY DEF TypeOK
<1>1. CASE StayInSector(h, take, go)
  <2>1. \A g \in Files \ {h} : fd'[g] = fd[g]
    BY <1>0, <1>1 DEF StayInSector
  <2>2. doubt' = (doubt \/ h \in astray) /\ stale' = stale /\ astray' = astray
    BY <1>1 DEF StayInSector
  <2> QED BY <2>1, <2>2, Zenon DEF OthersKept, TurnFrame
<1>2. CASE NextRootSector(h, take, go)
  BY <1>2, RefillFrame DEF NextRootSector
<1>3. CASE NextSector(h, take, go)
  BY <1>3, RefillFrame DEF NextSector
<1>4. CASE FirstSector(h, take, go)
  <2>1. PICK n \in NextCluster(fd[h].CurrentCluster) :
           Refill(h, [Moved(h, take) EXCEPT !.CurrentCluster = n.next,
                                            !.CurrentSectorInCluster = 0],
                  ClusterToLba(vol, n.next),
                  n.failed \/ n.next = NOWHERE, n.failed, go)
    BY <1>4 DEF FirstSector
  <2> QED BY <2>1, RefillFrame
<1>5. CASE EndOfChain(h, take, go)
  <2>1. PICK n, data :
           /\ fd' = [fd EXCEPT ![h] = data]
           /\ astray' = IF n.failed THEN astray \cup {h} ELSE astray
           /\ doubt' = (doubt \/ h \in astray')
    BY <1>5 DEF EndOfChain
  <2>2. \A g \in Files \ {h} : fd'[g] = fd[g]
    BY <1>0, <2>1
  <2>3. stale' = stale
    BY <1>5 DEF EndOfChain
  <2>4. /\ h \in astray => h \in astray'
        /\ \A g \in Files \ {h} : g \in astray' <=> g \in astray
        /\ ~doubt' => ~doubt /\ h \notin astray'
    BY <2>1, Zenon
  <2> QED BY <2>2, <2>3, <2>4, Zenon DEF OthersKept, TurnFrame
<1> QED BY <1>1, <1>2, <1>3, <1>4, <1>5 DEF Turn

\* An open file on its course, after a turn that did not stray from it.
HandleTurned(h, take, go) ==
    /\ OnCourse(vol, fd'[h], h \notin stale')
    /\ fd'[h].Position = fd[h].Position + take
    /\ go => fd'[h].Size = fd[h].Size
    /\ ~go /\ ~doubt' => fd'[h].Position = vol.files[fd[h].FirstCluster].length

LEMMA HandleTurns ==
    ASSUME TypeOK, NEW h \in Handles, OnCourse(vol, fd[h], h \notin stale),
           NEW take, MayTake(fd[h], take), NEW go \in BOOLEAN,
           Turn(h, take, go), h \notin astray'
    PROVE  HandleTurned(h, take, go)
<1>0. /\ WellFormed(vol) /\ h \in Files /\ h # ROOT
      /\ fd \in [Files -> FileData] /\ fd[h] \in FileData
  BY VolumeFound, HandlesAndRoot, HandleNumbers
<1>1. PICK f \in FileData : f = fd[h]
  BY <1>0
<1>2. OnCourse(vol, f, h \notin stale) /\ MayTake(f, take)
  BY <1>1
<1>3. /\ take \in Nat /\ f.Position + take < WORD
      /\ f.CurrentCluster \in Clusters(vol)
      /\ f.CurrentSectorInCluster \in 0 .. vol.sectorsPerCluster - 1
      /\ vol.sectorsPerCluster \in Nat
  BY <1>0, <1>2, CourseNow, BootNumbers DEF WellFormed
<1> DEFINE data == Moved(h, take)
<1>4. /\ data \in FileData /\ SameFile(data, f)
      /\ data.Position = f.Position + take /\ data.Size = f.Size
      /\ data.CurrentCluster = f.CurrentCluster
      /\ data.CurrentSectorInCluster = f.CurrentSectorInCluster
      /\ data.Buffer = f.Buffer
  BY <1>0, <1>1, <1>3, MovedFields
<1> HIDE DEF data
<1>5. LeftInBuffer(h) = SECTOR_SIZE - (f.Position % SECTOR_SIZE)
  BY <1>1 DEF LeftInBuffer
<1>6. CASE StayInSector(h, take, go)
  <2>1. /\ take < SECTOR_SIZE - (f.Position % SECTOR_SIZE) /\ go
        /\ fd' = [fd EXCEPT ![h] = data] /\ stale' = stale
    BY <1>5, <1>6 DEF StayInSector, data
  <2>2. fd'[h] = data
    BY <1>0, <2>1
  <2>3. OnCourse(vol, data, h \notin stale)
    BY <1>0, <1>2, <1>4, <2>1, CourseStays
  <2> QED BY <1>1, <1>4, <2>1, <2>2, <2>3 DEF HandleTurned
<1>7. CASE NextRootSector(h, take, go)
  BY <1>0, <1>7 DEF NextRootSector
<1>8. CASE NextSector(h, take, go)
  <2> DEFINE sector == f.CurrentSectorInCluster + 1
             new == [data EXCEPT !.CurrentSectorInCluster = sector]
             lba == ClusterToLba(vol, f.CurrentCluster) + sector
  <2>1. /\ take = SECTOR_SIZE - (f.Position % SECTOR_SIZE)
        /\ sector < vol.sectorsPerCluster
        /\ Refill(h, new, lba, FALSE, FALSE, go)
    BY <1>1, <1>5, <1>8 DEF NextSector, data
  <2>2. sector \in Nat /\ sector \in 0 .. vol.sectorsPerCluster - 1
    BY <1>3, <2>1
  <2>3. lba \in Sectors(vol) /\ lba \in Int
    <3>1. lba \in Sectors(vol)
      BY <1>0, <1>3, <2>2, ClusterSectors
    <3> HIDE DEF lba
    <3> QED BY <3>1 DEF Sectors
  <2>4. /\ new \in FileData /\ SameFile(new, f)
        /\ new.Position = f.Position + take /\ new.Size = f.Size
        /\ new.CurrentCluster = f.CurrentCluster
        /\ new.CurrentSectorInCluster = sector
    <3> HIDE DEF sector
    <3> QED BY <1>4, <2>2 DEF FileData, SameFile
  <2> HIDE DEF new
  <2>5. /\ fd'[h] \in FileData /\ SameButBuffer(fd'[h], new)
        /\ h \notin stale' /\ lba \in Sectors(vol) => fd'[h].Buffer = lba
        /\ ~doubt' => go
    <3>1. PICK no \in BOOLEAN : no = FALSE
      OBVIOUS
    <3>2. Refill(h, new, lba, no, no, go)
      BY <2>1, <3>1
    <3> HIDE DEF lba, sector
    <3> QED BY <1>0, <2>3, <2>4, <3>2, RefillEffect
  <2>6. PICK g \in FileData :
           /\ g = fd'[h] /\ SameButBuffer(g, new)
           /\ h \notin stale' => g.Buffer = lba
           /\ ~doubt' => go
    <3> HIDE DEF lba, sector
    <3> QED BY <2>3, <2>5
  <2>7. /\ SameFile(g, f) /\ g.Size = f.Size /\ g.Position = f.Position + take
        /\ g.CurrentCluster = f.CurrentCluster
        /\ g.CurrentSectorInCluster = f.CurrentSectorInCluster + 1
    BY <2>4, <2>6 DEF SameButBuffer, SameFile
  <2>8. h \notin stale' => g.Buffer = ClusterToLba(vol, g.CurrentCluster)
                                      + g.CurrentSectorInCluster
    BY <2>6, <2>7
  <2>9. OnCourse(vol, g, h \notin stale')
    BY <1>0, <1>2, <2>1, <2>7, <2>8, CourseNextSector
  <2> QED BY <1>1, <2>6, <2>7, <2>9 DEF HandleTurned
<1>9. CASE FirstSector(h, take, go)
  <2>1. PICK n \in NextCluster(f.CurrentCluster) :
           /\ n.next # END
           /\ Refill(h, [data EXCEPT !.CurrentCluster = n.next,
                                     !.CurrentSectorInCluster = 0],
                     ClusterToLba(vol, n.next),
                     n.failed \/ n.next = NOWHERE, n.failed, go)
    BY <1>1, <1>9 DEF FirstSector, data
  <2> DEFINE new == [data EXCEPT !.CurrentCluster = n.next, !.CurrentSectorInCluster = 0]
             lba == ClusterToLba(vol, n.next)
             strayed == n.failed \/ n.next = NOWHERE
  <2>2. /\ take = SECTOR_SIZE - (f.Position % SECTOR_SIZE)
        /\ f.CurrentSectorInCluster + 1 >= vol.sectorsPerCluster
    BY <1>1, <1>5, <1>9 DEF FirstSector, ClusterUsedUp
  <2>3. n.next \in Int /\ n.failed \in BOOLEAN
    BY NextClusterType, AnswerFlag
  <2>4. /\ new \in FileData /\ SameFile(new, f)
        /\ new.Position = f.Position + take /\ new.Size = f.Size
        /\ new.CurrentCluster = n.next /\ new.CurrentSectorInCluster = 0
    BY <1>4, <2>3 DEF FileData, SameFile
  <2>5. lba \in Int /\ strayed \in BOOLEAN /\ Refill(h, new, lba, strayed, n.failed, go)
    <3>1. lba \in Int
      BY <2>3, VolumeFound, PlaceOfCluster
    <3> QED BY <2>1, <2>3, <3>1
  <2> HIDE DEF new, lba, strayed
  <2>6. PICK g \in FileData : g = fd'[h] /\ SameButBuffer(g, new)
    BY <1>0, <2>4, <2>5, RefillEffect
  <2>7. (h \notin stale' /\ lba \in Sectors(vol) => g.Buffer = lba) /\ (~doubt' => go)
    <3>1. /\ h \notin stale' /\ lba \in Sectors(vol) => fd'[h].Buffer = lba
          /\ ~doubt' => go
      BY <1>0, <2>4, <2>5, RefillEffect
    <3> QED BY <2>6, <3>1
  <2>8. ~strayed
    BY <1>0, <2>4, <2>5, RefillEffect
  <2>9. n.next = vol.table[f.CurrentCluster] /\ vol.table[f.CurrentCluster] # END
    <3>1. ~n.failed /\ n.next # NOWHERE
      BY <2>8 DEF strayed
    <3> QED BY <1>3, <2>1, <3>1, NextClusterAnswer
  <2>10. lba \in Sectors(vol)
    <3>1. vol.table[f.CurrentCluster] \in Clusters(vol)
      BY <1>0, <1>3, <2>9 DEF WellFormed, WellFormedCluster
    <3>2. 0 \in 0 .. vol.sectorsPerCluster - 1 /\ vol.sectorsPerCluster \in Nat
      BY <1>0, BootNumbers DEF WellFormed
    <3>3. ClusterToLba(vol, n.next) \in Nat /\ ClusterToLba(vol, n.next) + 0 \in Sectors(vol)
      BY <1>0, <2>9, <3>1, <3>2, ClusterSectors
    <3> QED BY <3>3 DEF lba
  <2>11. /\ SameFile(g, f) /\ g.Size = f.Size /\ g.Position = f.Position + take
         /\ g.CurrentCluster = vol.table[f.CurrentCluster]
         /\ g.CurrentSectorInCluster = 0
    BY <2>4, <2>6, <2>9 DEF SameButBuffer, SameFile
  <2>12. h \notin stale' => g.Buffer = ClusterToLba(vol, g.CurrentCluster)
    BY <2>7, <2>9, <2>10, <2>11 DEF lba
  <2>13. OnCourse(vol, g, h \notin stale')
    BY <1>0, <1>2, <2>2, <2>9, <2>11, <2>12, CourseNextCluster
  <2> QED BY <1>1, <2>6, <2>7, <2>11, <2>13 DEF HandleTurned
<1>10. CASE EndOfChain(h, take, go)
  <2>1. PICK n \in NextCluster(f.CurrentCluster) :
           /\ n.next = END
           /\ fd' = [fd EXCEPT ![h] =
                       [data EXCEPT !.CurrentCluster = END,
                                    !.CurrentSectorInCluster = 0,
                                    !.Size = data.Position]]
           /\ astray' = IF n.failed THEN astray \cup {h} ELSE astray
    BY <1>1, <1>10 DEF EndOfChain, data
  <2> DEFINE new == [data EXCEPT !.CurrentCluster = END, !.CurrentSectorInCluster = 0,
                                 !.Size = data.Position]
  <2>2. /\ take = SECTOR_SIZE - (f.Position % SECTOR_SIZE)
        /\ f.CurrentSectorInCluster + 1 >= vol.sectorsPerCluster /\ ~go
    BY <1>1, <1>5, <1>10 DEF EndOfChain, ClusterUsedUp
  <2>3. /\ new \in FileData /\ SameFile(new, f)
        /\ new.Position = f.Position + take /\ new.Size = new.Position
    <3>1. END \in Int /\ data.Position \in Word
      BY <1>4 DEF END, FileData
    <3>2. PICK p \in Word : p = data.Position
      BY <3>1
    <3>3. new = [data EXCEPT !.CurrentCluster = END, !.CurrentSectorInCluster = 0, !.Size = p]
      BY <3>2
    <3> HIDE DEF new
    <3>4. new \in FileData /\ SameFile(new, data) /\ new.Position = p /\ new.Size = p
      BY <1>4, <3>1, <3>2, <3>3 DEF FileData, SameFile
    <3> QED BY <1>4, <3>2, <3>4 DEF SameFile
  <2> HIDE DEF new
  <2>4. fd'[h] = new
    <3>1. fd' = [fd EXCEPT ![h] = new]
      BY <2>1 DEF new
    <3> QED BY <1>0, <3>1
  <2>5. vol.table[f.CurrentCluster] = END
    <3>1. ~n.failed
      BY <2>1
    <3>2. END # NOWHERE
      BY DEF END, NOWHERE
    <3> QED BY <1>3, <2>1, <3>1, <3>2, NextClusterAnswer
  <2>6. /\ OnCourse(vol, new, h \notin stale')
        /\ new.Position = vol.files[f.FirstCluster].length
    BY <1>0, <1>2, <2>2, <2>3, <2>5, CourseEnds
  <2> QED BY <1>1, <2>2, <2>3, <2>4, <2>6 DEF HandleTurned
<1> QED BY <1>6, <1>7, <1>8, <1>9, <1>10 DEF Turn

LEMMA RootStaysRoot ==
    ASSUME TypeOK, RootOf(vol, fd[ROOT]), NEW take \in Nat, NEW go \in BOOLEAN,
           Turn(ROOT, take, go)
    PROVE  RootOf(vol, fd'[ROOT])
<1>0. /\ WellFormed(vol) /\ ROOT \in Files /\ fd \in [Files -> FileData]
      /\ fd[ROOT] \in FileData
  BY VolumeFound, HandlesAndRoot, HandleNumbers
<1> DEFINE data == Moved(ROOT, take)
<1>1. data \in FileData /\ SameFile(data, fd[ROOT]) /\ data.Size = fd[ROOT].Size
  <2>1. data \in FileData /\ SameFile(data, fd[ROOT])
    BY <1>0, MovedType
  <2>2. data.Size = fd[ROOT].Size
    BY <1>0 DEF Moved, FileData
  <2> QED BY <2>1, <2>2
<1> HIDE DEF data
<1>2. CASE StayInSector(ROOT, take, go)
  <2>1. fd' = [fd EXCEPT ![ROOT] = data]
    BY <1>2 DEF StayInSector, data
  <2>2. fd'[ROOT] = data
    BY <1>0, <2>1
  <2> QED BY <1>1, <2>2 DEF RootOf, SameFile
<1>3. CASE NextRootSector(ROOT, take, go)
  <2> DEFINE lba == (fd[ROOT].CurrentCluster + 1) % WORD
             strayed == vol.fat32 /\ lba >= RootLba(vol) + vol.sectorsPerCluster
             new == [data EXCEPT !.CurrentCluster = lba]
  <2>1. lba \in Int
    BY <1>0, SectorSize, FileNumbers
  <2>2. strayed \in BOOLEAN
    OBVIOUS
  <2>3. Refill(ROOT, new, lba, strayed, FALSE, go)
    BY <1>3 DEF NextRootSector, data
  <2>4. new \in FileData /\ SameFile(new, fd[ROOT]) /\ new.Size = fd[ROOT].Size
    <3> HIDE DEF lba
    <3> QED BY <1>1, <2>1 DEF FileData, SameFile
  <2>5. SameButBuffer(fd'[ROOT], new)
    <3>1. PICK no \in BOOLEAN : no = FALSE
      OBVIOUS
    <3>2. Refill(ROOT, new, lba, strayed, no, go)
      BY <2>3, <3>1
    <3> HIDE DEF lba, strayed, new
    <3> QED BY <1>0, <2>1, <2>2, <2>4, <3>2, RefillEffect
  <2> HIDE DEF new
  <2> QED BY <2>4, <2>5 DEF SameButBuffer, SameFile, RootOf
<1> QED BY <1>2, <1>3
        DEF Turn, NextSector, FirstSector, EndOfChain, ClusterUsedUp

\* The root directory on its course, after a turn that did not stray from it.
RootTurned(take, go) ==
    /\ RootOnCourse(vol, fd'[ROOT], ROOT \notin stale')
    /\ fd'[ROOT].Position = fd[ROOT].Position + take
    /\ ~doubt' => go

LEMMA RootTurns ==
    ASSUME TypeOK, RootOf(vol, fd[ROOT]),
           RootOnCourse(vol, fd[ROOT], ROOT \notin stale),
           NEW take, MayTake(fd[ROOT], take), NEW go \in BOOLEAN,
           Turn(ROOT, take, go), ROOT \notin astray'
    PROVE  RootTurned(take, go)
<1>0. /\ WellFormed(vol) /\ ROOT \in Files /\ fd \in [Files -> FileData]
      /\ fd[ROOT] \in FileData
  BY VolumeFound, HandlesAndRoot, HandleNumbers
<1>1. PICK f \in FileData : f = fd[ROOT]
  BY <1>0
<1>2. RootOf(vol, f) /\ RootOnCourse(vol, f, ROOT \notin stale) /\ MayTake(f, take)
  BY <1>1
<1>3. take \in Nat /\ f.Position + take < WORD
  BY <1>0, <1>2, RootNow
<1> DEFINE data == Moved(ROOT, take)
<1>4. /\ data \in FileData /\ SameFile(data, f)
      /\ data.Position = f.Position + take
      /\ data.CurrentCluster = f.CurrentCluster
      /\ data.Buffer = f.Buffer
  BY <1>0, <1>1, <1>3, MovedFields
<1> HIDE DEF data
<1>5. LeftInBuffer(ROOT) = SECTOR_SIZE - (f.Position % SECTOR_SIZE)
  BY <1>1 DEF LeftInBuffer
<1>6. CASE StayInSector(ROOT, take, go)
  <2>1. /\ take < SECTOR_SIZE - (f.Position % SECTOR_SIZE) /\ go
        /\ fd' = [fd EXCEPT ![ROOT] = data] /\ stale' = stale
    BY <1>5, <1>6 DEF StayInSector, data
  <2>2. fd'[ROOT] = data
    BY <1>0, <2>1
  <2>3. RootOnCourse(vol, data, ROOT \notin stale)
    BY <1>0, <1>2, <1>4, <2>1, RootStays
  <2> QED BY <1>1, <1>4, <2>1, <2>2, <2>3 DEF RootTurned
<1>7. CASE NextRootSector(ROOT, take, go)
  <2> DEFINE lba == (f.CurrentCluster + 1) % WORD
             strayed == vol.fat32 /\ lba >= RootLba(vol) + vol.sectorsPerCluster
             new == [data EXCEPT !.CurrentCluster = lba]
  <2>1. lba \in Int
    BY <1>0, SectorSize, FileNumbers
  <2>2. strayed \in BOOLEAN
    OBVIOUS
  <2>3. /\ Refill(ROOT, new, lba, strayed, FALSE, go)
        /\ take = SECTOR_SIZE - (f.Position % SECTOR_SIZE)
    BY <1>1, <1>5, <1>7 DEF NextRootSector, data
  <2>4. /\ new \in FileData /\ new.CurrentCluster = lba
        /\ new.Position = f.Position + take
    <3> HIDE DEF lba
    <3> QED BY <1>4, <2>1 DEF FileData
  <2>5. /\ fd'[ROOT] \in FileData /\ SameButBuffer(fd'[ROOT], new)
        /\ ROOT \notin stale' /\ lba \in Sectors(vol) => fd'[ROOT].Buffer = lba
        /\ ~doubt' => go
        /\ ROOT \in astray' <=> ROOT \in astray \/ strayed
    <3>1. PICK no \in BOOLEAN : no = FALSE
      OBVIOUS
    <3>2. Refill(ROOT, new, lba, strayed, no, go)
      BY <2>3, <3>1
    <3> HIDE DEF lba, strayed, new
    <3> QED BY <1>0, <2>1, <2>2, <2>4, <3>2, RefillEffect
  <2>6. ~strayed
    <3> HIDE DEF lba, strayed, new
    <3> QED BY <2>2, <2>5
  <2> HIDE DEF new
  <2>7. PICK g \in FileData, at \in Int :
           /\ g = fd'[ROOT] /\ at = lba /\ SameButBuffer(g, new)
           /\ ROOT \notin stale' /\ at \in Sectors(vol) => g.Buffer = at
    <3> HIDE DEF lba, strayed
    <3> QED BY <2>1, <2>5
  <2>8. g.Position = f.Position + take /\ g.CurrentCluster = at
    BY <2>4, <2>7 DEF SameButBuffer
  <2>9. /\ at = (f.CurrentCluster + 1) % WORD
        /\ ~(vol.fat32 /\ at >= RootLba(vol) + vol.sectorsPerCluster)
    BY <2>6, <2>7
  <2> HIDE DEF lba, strayed
  <2>10. RootOnCourse(vol, g, ROOT \notin stale')
    BY <1>0, <1>2, <2>3, <2>7, <2>8, <2>9, RootNext
  <2> QED BY <1>1, <2>5, <2>7, <2>8, <2>10 DEF RootTurned
<1> QED BY <1>6, <1>7
        DEF Turn, NextSector, FirstSector, EndOfChain, ClusterUsedUp

-----------------------------------------------------------------------------
(* The inductive invariant: every open file that did not follow a bad table *)
(* is on its course, so is the root directory, and a running FAT_Read has   *)
(* left what the request and the file leave it.                             *)

FilesOnCourse ==
    \A h \in Handles : fd[h].Opened /\ h \notin astray =>
        OnCourse(vol, fd[h], h \notin stale)

Mounted == pc \notin {"off", "halted"}

RootKnown ==
    /\ \A h \in Files : fd[h].Opened => Mounted
    /\ Mounted => RootOf(vol, fd[ROOT])
    /\ Mounted /\ ROOT \notin astray => RootOnCourse(vol, fd[ROOT], ROOT \notin stale)

Reading ==
    pc = "read" =>
        /\ cur \in held /\ left >= 1
        /\ cur \notin astray =>
              \/ fd[cur].IsDirectory /\ fd[cur].Size = 0
              \/ fd[cur].Position + left <= fd[cur].Size
        /\ ~doubt =>
              /\ cur \notin stale /\ cur \notin astray
              /\ until = Min({fd[cur].Position + left, FileLength(vol, Start(cur))})

Course == FilesOnCourse /\ RootKnown /\ Reading

\* A file that a call may work on: the root directory or an open handle.
InUse(h) == h \in Files /\ Mounted /\ (h # ROOT => fd[h].Opened)

LEMMA UsedStart ==
    ASSUME IInv, NEW h, InUse(h)
    PROVE  /\ h = ROOT => FileLength(vol, Start(h)) = Extent(vol, ROOT)
           /\ h # ROOT => /\ h \in Handles
                          /\ Start(h) = fd[h].FirstCluster /\ Start(h) # ROOT
                          /\ Start(h) \in DOMAIN vol.files
                          /\ FileLength(vol, Start(h)) = vol.files[fd[h].FirstCluster].length
<1>1. TypeOK /\ OpenedFromEntry /\ WellFormed(vol)
  BY VolumeFound DEF IInv
<1>2. CASE h = ROOT
  BY <1>2 DEF Start, FileLength
<1>3. CASE h # ROOT
  <2>1. h \in Handles /\ fd[h].Opened
    BY <1>3, HandlesAndRoot DEF InUse
  <2>2. fd[h].FirstCluster \in DOMAIN vol.files
    BY <1>1, <2>1 DEF OpenedFromEntry
  <2>3. fd[h].FirstCluster # ROOT
    BY <1>1, <2>2, ChainFacts DEF ROOT
  <2> QED BY <1>3, <2>1, <2>2, <2>3 DEF Start, FileLength
<1> QED BY <1>2, <1>3

\* "don't read past the end of the file" holds of a file on its course.
LEMMA WithinLength ==
    ASSUME IInv, FilesOnCourse, RootKnown, NEW h, InUse(h), h \notin astray
    PROVE  /\ fd[h].Position <= FileLength(vol, Start(h))
           /\ FileLength(vol, Start(h)) \in Nat
<1>1. /\ TypeOK /\ WellFormed(vol) /\ h \in Files
      /\ fd[h] \in FileData /\ fd[h].Position \in Nat
  BY VolumeFound, HandleNumbers DEF IInv, InUse
<1>2. CASE h = ROOT
  <2>1. RootOnCourse(vol, fd[h], h \notin stale)
    BY <1>2 DEF RootKnown, InUse
  <2>2. PICK p \in Nat : p = fd[h].Position
    BY <1>1
  <2>3. FileLength(vol, Start(h)) = Extent(vol, ROOT)
    BY <1>2, UsedStart
  <2>4. Extent(vol, ROOT) \in Nat /\ vol.fat32 \in BOOLEAN
    BY <1>1, <2>2, RootPlaces
  <2>5. CASE vol.fat32
    <3>1. p \div SECTOR_SIZE < vol.sectorsPerCluster
      BY <2>1, <2>2, <2>5 DEF RootOnCourse, Spot
    <3>2. p < Extent(vol, ROOT)
      BY <1>1, <2>5, <3>1, RootPlaces
    <3> QED BY <2>2, <2>3, <2>4, <3>2
  <2>6. CASE ~vol.fat32
    <3>1. Extent(vol, ROOT) = vol.dirEntries
      BY <2>6 DEF Extent
    <3>2. p <= vol.dirEntries
      BY <2>1, <2>2, <2>6 DEF RootOnCourse
    <3> QED BY <2>2, <2>3, <2>4, <3>1, <3>2
  <2> QED BY <2>4, <2>5, <2>6
<1>3. CASE h # ROOT
  <2>1. h \in Handles /\ FileLength(vol, Start(h)) = vol.files[fd[h].FirstCluster].length
    BY <1>3, UsedStart
  <2>2. OnCourse(vol, fd[h], h \notin stale)
    BY <1>3, <2>1 DEF FilesOnCourse, InUse
  <2>3. PICK first \in DOMAIN vol.files : first = fd[h].FirstCluster
    BY <2>2 DEF OnCourse, Sized
  <2>4. vol.files[first].length \in Nat /\ ChainUnits(vol, first) \in Nat
    BY <1>1, ChainFacts
  <2>5. fd[h].IsDirectory => fd[h].Position <= vol.files[first].length
    BY <1>1, <2>2, <2>3, <2>4 DEF OnCourse, Sized
  <2>6. ~fd[h].IsDirectory => fd[h].Position <= vol.files[first].length
    BY <2>2, <2>3 DEF OnCourse, Sized
  <2>7. fd[h].Position <= vol.files[first].length
    BY <2>5, <2>6
  <2> QED BY <2>1, <2>3, <2>4, <2>7
<1> QED BY <1>2, <1>3

\* What FAT_Read sets out to read is there, and the position it aims at is the
\* request's or the file's end.
LEMMA ClippedFits ==
    ASSUME IInv, FilesOnCourse, RootKnown, NEW h, InUse(h), h \notin astray,
           NEW count \in Nat, Clipped(h, count) # 0
    PROVE  /\ \/ fd[h].IsDirectory /\ fd[h].Size = 0
              \/ fd[h].Position + Clipped(h, count) <= fd[h].Size
           /\ Min({fd[h].Position + count, FileLength(vol, Start(h))}) =
              Min({fd[h].Position + Clipped(h, count), FileLength(vol, Start(h))})
<1>1. /\ TypeOK /\ WellFormed(vol) /\ h \in Files /\ fd[h] \in FileData
      /\ fd[h].IsDirectory \in BOOLEAN
  BY VolumeFound, HandleNumbers, FileNumbers DEF IInv, InUse
<1>2. PICK p \in Nat, size \in Nat, len \in Nat :
         /\ p = fd[h].Position /\ size = fd[h].Size /\ size < WORD
         /\ len = FileLength(vol, Start(h)) /\ p <= len
  BY <1>1, HandleNumbers, WithinLength
<1>3. CASE fd[h].IsDirectory /\ fd[h].Size = 0
  <2>1. Clipped(h, count) = count
    BY <1>3 DEF Clipped
  <2> QED BY <1>3, <2>1
<1>4. CASE ~(fd[h].IsDirectory /\ fd[h].Size = 0)
  <2>1. Clipped(h, count) = Min({count, (size - p) % WORD})
    BY <1>2, <1>4 DEF Clipped
  <2>2. size = len \/ size = p
    <3>1. CASE h = ROOT
      <4>1. RootOf(vol, fd[h])
        BY <3>1 DEF RootKnown, InUse
      <4>2. fd[h].IsDirectory /\ size = vol.dirEntries
        BY <1>2, <4>1 DEF RootOf
      <4>3. ~vol.fat32
        <5>1. vol.fat32 => vol.dirEntries = 0
          BY <1>1 DEF WellFormed, WellFormedBoot
        <5> QED BY <1>2, <1>4, <4>2, <5>1
      <4>4. Extent(vol, ROOT) = vol.dirEntries
        BY <4>3 DEF Extent
      <4> QED BY <1>2, <3>1, <4>2, <4>4, UsedStart
    <3>2. CASE h # ROOT
      <4>1. h \in Handles /\ len = vol.files[fd[h].FirstCluster].length
        BY <1>2, <3>2, UsedStart
      <4>2. OnCourse(vol, fd[h], h \notin stale)
        BY <3>2, <4>1 DEF FilesOnCourse, InUse
      <4>3. fd[h].IsDirectory => size = p
        BY <1>2, <1>4, <4>2 DEF OnCourse, Sized
      <4>4. ~fd[h].IsDirectory => size = len
        BY <1>2, <4>1, <4>2 DEF OnCourse, Sized
      <4> QED BY <1>1, <4>3, <4>4
    <3> QED BY <3>1, <3>2
  <2>3. PICK rest0 \in Nat : rest0 = size - p /\ (size - p) % WORD = rest0
    <3>1. size - p \in Nat /\ size - p < WORD
      BY <1>2, <2>2, SectorSize
    <3>2. PICK d \in Nat : d = size - p
      BY <3>1
    <3>3. d % WORD = d
      BY <3>1, <3>2, SectorSize
    <3> QED BY <3>2, <3>3
  <2>4. PICK c \in Nat : /\ c = Clipped(h, count) /\ c <= count /\ c <= rest0
                         /\ c = count \/ c = rest0
    BY <2>1, <2>3, MinOfTwo
  <2>5. p + c <= size
    BY <2>3, <2>4
  <2>6. size = len
    <3>1. size = p => rest0 = 0
      BY <2>3
    <3> QED BY <2>2, <2>4, <3>1
  <2>7. Min({p + count, len}) = Min({p + c, len})
    <3>1. CASE c = count
      BY <3>1
    <3>2. CASE c = rest0 /\ c <= count
      <4>1. p + c = len
        BY <2>3, <2>6, <3>2
      <4>2. p + count \in Nat /\ len <= p + count
        BY <3>2, <4>1
      <4>3. Min({p + count, len}) = len
        BY <4>2, MinOfTwo
      <4>4. {p + c, len} = {len, len}
        BY <4>1
      <4>5. Min({len, len}) = len
        BY MinOfTwo
      <4> QED BY <4>3, <4>4, <4>5
    <3> QED BY <2>4, <3>1, <3>2
  <2> QED BY <1>2, <2>4, <2>5, <2>7
<1> QED BY <1>3, <1>4

-----------------------------------------------------------------------------
(* Turns, closing and opening keep the files on their course.              *)

LEMMA TurnKeeps ==
    ASSUME IInv, FilesOnCourse, RootKnown, NEW h, InUse(h), NEW take \in Nat,
           h \notin astray => MayTake(fd[h], take), NEW go \in BOOLEAN,
           Turn(h, take, go), vol' = vol, Mounted'
    PROVE  FilesOnCourse' /\ RootKnown'
<1>0. TypeOK /\ h \in Files /\ Kept /\ TurnFrame(h)
  <2>1. TypeOK /\ h \in Files
    BY DEF IInv, InUse
  <2> QED BY <2>1, TurnType, TurnFrames
<1>1. \A g \in Files \ {h} :
         /\ fd'[g] = fd[g]
         /\ g \in stale' <=> g \in stale
         /\ g \in astray' <=> g \in astray
  BY <1>0 DEF TurnFrame, OthersKept
<1>2. h \in astray => h \in astray'
  BY <1>0 DEF TurnFrame
<1>3. ASSUME NEW g \in Handles, fd'[g].Opened, g \notin astray'
      PROVE  OnCourse(vol', fd'[g], g \notin stale')
  <2>1. CASE g = h
    <3>1. h \in Handles /\ h # ROOT /\ fd[h].Opened /\ h \notin astray
      BY <1>2, <1>3, <2>1, HandlesAndRoot DEF InUse
    <3>2. OnCourse(vol, fd[h], h \notin stale) /\ MayTake(fd[h], take)
      BY <3>1 DEF FilesOnCourse
    <3>3. HandleTurned(h, take, go)
      BY <1>0, <1>3, <2>1, <3>1, <3>2, HandleTurns
    <3> QED BY <2>1, <3>3 DEF HandleTurned
  <2>2. CASE g # h
    <3>1. g \in Files \ {h}
      BY <2>2, HandlesAndRoot
    <3>2. fd'[g] = fd[g] /\ (g \in stale' <=> g \in stale)
      BY <1>1, <3>1
    <3>3. g \notin astray
      BY <1>1, <1>3, <3>1
    <3>4. OnCourse(vol, fd[g], g \notin stale)
      BY <1>3, <3>2, <3>3 DEF FilesOnCourse
    <3>5. CASE g \in stale
      BY <3>2, <3>4, <3>5 DEF OnCourse, OnChain
    <3>6. CASE g \notin stale
      BY <3>2, <3>4, <3>6 DEF OnCourse, OnChain
    <3> QED BY <3>5, <3>6
  <2> QED BY <2>1, <2>2
<1>4. FilesOnCourse'
  BY <1>3 DEF FilesOnCourse
<1>5. RootOf(vol, fd'[ROOT])
  <2>1. RootOf(vol, fd[ROOT])
    BY DEF RootKnown, InUse
  <2>2. CASE h = ROOT
    BY <1>0, <2>1, <2>2, RootStaysRoot
  <2>3. CASE h # ROOT
    BY <1>1, <2>1, <2>3, HandlesAndRoot
  <2> QED BY <2>2, <2>3
<1>6. ASSUME ROOT \notin astray'
      PROVE  RootOnCourse(vol, fd'[ROOT], ROOT \notin stale')
  <2>1. ROOT \notin astray
    BY <1>1, <1>2, <1>6, HandlesAndRoot
  <2>2. RootOf(vol, fd[ROOT]) /\ RootOnCourse(vol, fd[ROOT], ROOT \notin stale)
    BY <2>1 DEF RootKnown, InUse
  <2>3. CASE h = ROOT
    <3>1. MayTake(fd[ROOT], take) /\ Turn(ROOT, take, go)
      BY <2>1, <2>3
    <3>2. RootTurned(take, go)
      BY <1>0, <1>6, <2>2, <3>1, RootTurns
    <3> QED BY <3>2 DEF RootTurned
  <2>4. CASE h # ROOT
    <3>1. fd'[ROOT] = fd[ROOT] /\ (ROOT \in stale' <=> ROOT \in stale)
      BY <1>1, <2>4, HandlesAndRoot
    <3> QED BY <2>2, <3>1 DEF RootOnCourse
  <2> QED BY <2>3, <2>4
<1>7. RootKnown'
  BY <1>5, <1>6 DEF RootKnown
<1> QED BY <1>4, <1>7

\* What a turn brings the call that makes it.
LEMMA TurnResult ==
    ASSUME IInv, FilesOnCourse, RootKnown, NEW h, InUse(h), NEW take \in Nat,
           h \notin astray => MayTake(fd[h], take), NEW go \in BOOLEAN,
           Turn(h, take, go), h \notin astray'
    PROVE  /\ fd'[h].Position = fd[h].Position + take
           /\ go => fd'[h].Size = fd[h].Size
           /\ ~go /\ ~doubt' => fd'[h].Position = FileLength(vol, Start(h))
<1>0. TypeOK /\ h \in Files /\ h \notin astray
  <2>1. TypeOK /\ h \in Files
    BY DEF IInv, InUse
  <2> QED BY <2>1, TurnFrames DEF TurnFrame
<1>1. CASE h = ROOT
  <2>1. RootOf(vol, fd[ROOT]) /\ RootOnCourse(vol, fd[ROOT], ROOT \notin stale)
    BY <1>0, <1>1 DEF RootKnown, InUse
  <2>2. Turn(ROOT, take, go) /\ MayTake(fd[ROOT], take) /\ ROOT \notin astray'
    BY <1>0, <1>1
  <2>3. RootTurned(take, go)
    BY <1>0, <2>1, <2>2, RootTurns
  <2>4. RootOf(vol, fd'[ROOT])
    BY <1>0, <2>1, <2>2, RootStaysRoot
  <2> QED BY <1>1, <2>1, <2>3, <2>4 DEF RootTurned, RootOf
<1>2. CASE h # ROOT
  <2>1. h \in Handles /\ FileLength(vol, Start(h)) = vol.files[fd[h].FirstCluster].length
    BY <1>2, UsedStart
  <2>2. OnCourse(vol, fd[h], h \notin stale) /\ MayTake(fd[h], take)
    BY <1>0, <1>2, <2>1 DEF FilesOnCourse, InUse
  <2>3. HandleTurned(h, take, go)
    BY <1>0, <2>1, <2>2, HandleTurns
  <2> QED BY <2>1, <2>3 DEF HandleTurned
<1> QED BY <1>1, <1>2

\* FAT_Close leaves every file that stays open on its course.
LEMMA CloseKeeps ==
    ASSUME IInv, FilesOnCourse, RootKnown, Mounted, NEW h \in Files
    PROVE  /\ \A g \in Handles :
                 CloseOf(fd, h)[g].Opened /\ g \notin AstrayByClose(h) =>
                    OnCourse(vol, CloseOf(fd, h)[g], g \notin StaleByClose(h))
           /\ RootOf(vol, CloseOf(fd, h)[ROOT])
           /\ ROOT \notin AstrayByClose(h) =>
                 RootOnCourse(vol, CloseOf(fd, h)[ROOT], ROOT \notin StaleByClose(h))
<1>0. /\ TypeOK /\ WellFormed(vol) /\ fd \in [Files -> FileData]
      /\ ROOT \in Files /\ fd[ROOT] \in FileData
  BY VolumeFound, HandlesAndRoot, HandleNumbers DEF IInv
<1>1. RootOf(vol, fd[ROOT])
  BY DEF RootKnown
<1>2. CASE h = ROOT
  <2> DEFINE new == [fd[ROOT] EXCEPT !.Position = 0,
                                     !.CurrentCluster = fd[ROOT].FirstCluster]
  <2>1. CloseOf(fd, h) = [fd EXCEPT ![ROOT] = new]
    BY <1>2 DEF CloseOf
  <2>2. /\ new.Position = 0 /\ new.CurrentCluster = RootLba(vol)
        /\ new.Buffer = fd[ROOT].Buffer
        /\ new.IsDirectory = fd[ROOT].IsDirectory /\ new.Size = fd[ROOT].Size
        /\ new.FirstCluster = fd[ROOT].FirstCluster
    <3>1. fd[ROOT].FirstCluster = RootLba(vol)
      BY <1>1 DEF RootOf
    <3> QED BY <1>0, <3>1 DEF FileData
  <2> HIDE DEF new
  <2>3. /\ CloseOf(fd, h)[ROOT] = new
        /\ \A g \in Handles : CloseOf(fd, h)[g] = fd[g]
    BY <1>0, <2>1, HandlesAndRoot
  <2>4. /\ AstrayByClose(h) = astray \ {ROOT}
        /\ StaleByClose(h) = IF fd[ROOT].Position >= SECTOR_SIZE \/ ROOT \in astray
                             THEN stale \cup {ROOT} ELSE stale
    BY <1>2 DEF AstrayByClose, StaleByClose
  <2>5. ASSUME NEW g \in Handles, CloseOf(fd, h)[g].Opened, g \notin AstrayByClose(h)
        PROVE  OnCourse(vol, CloseOf(fd, h)[g], g \notin StaleByClose(h))
    <3>1. g # ROOT
      BY HandlesAndRoot
    <3>2. OnCourse(vol, fd[g], g \notin stale)
      BY <2>3, <2>4, <2>5, <3>1 DEF FilesOnCourse
    <3>3. g \in StaleByClose(h) <=> g \in stale
      BY <2>4, <3>1
    <3> QED BY <2>3, <3>2, <3>3 DEF OnCourse, OnChain
  <2>6. RootOf(vol, new)
    BY <1>1, <2>2 DEF RootOf
  <2>7. RootOnCourse(vol, new, ROOT \notin StaleByClose(h))
    <3>1. PICK zero \in Nat, s \in Nat \ {0} : zero = 0 /\ s = SECTOR_SIZE
      BY SectorSize
    <3>2. zero \div s = 0
      BY <3>1
    <3>3. Spot(new) = 0
      BY <2>2, <3>1, <3>2 DEF Spot
    <3>4. /\ RootLba(vol) \in Nat /\ vol.sectorsPerCluster \in Nat \ {0}
          /\ vol.dirEntries \in Nat
      BY <1>0, <3>1, RootPlaces, BootNumbers DEF WellFormed
    <3>5. ASSUME ROOT \notin StaleByClose(h) PROVE new.Buffer = RootLba(vol)
      <4>1. fd[ROOT].Position < SECTOR_SIZE /\ ROOT \notin astray /\ ROOT \notin stale
        <5>1. fd[ROOT].Position \in Nat
          BY <1>0, FileNumbers
        <5> QED BY <2>4, <3>5, <5>1, SectorSize
      <4>2. RootOnCourse(vol, fd[ROOT], ROOT \notin stale)
        BY <4>1 DEF RootKnown
      <4>3. Spot(fd[ROOT]) = 0
        <5>1. PICK p \in Nat, one \in Nat : p = fd[ROOT].Position /\ one = 1
          BY <1>0, FileNumbers
        <5>2. p < one * s
          BY <3>1, <4>1, <5>1
        <5>3. p \div s < one /\ p \div s \in Nat
          BY <5>2, Below, Quotient
        <5> QED BY <3>1, <5>1, <5>3 DEF Spot
      <4>4. fd[ROOT].Buffer = RootLba(vol) + 0
        BY <4>1, <4>2, <4>3 DEF RootOnCourse
      <4> QED BY <2>2, <3>4, <4>4
    <3> QED BY <2>2, <3>3, <3>4, <3>5 DEF RootOnCourse
  <2> QED BY <2>3, <2>5, <2>6, <2>7
<1>3. CASE h # ROOT
  <2> DEFINE new == [fd[h] EXCEPT !.Opened = FALSE]
  <2>1. CloseOf(fd, h) = [fd EXCEPT ![h] = new]
    BY <1>3 DEF CloseOf
  <2>2. ~new.Opened
    BY <1>0 DEF FileData
  <2> HIDE DEF new
  <2>3. AstrayByClose(h) = astray /\ StaleByClose(h) = stale
    BY <1>3 DEF AstrayByClose, StaleByClose
  <2>4. CloseOf(fd, h)[ROOT] = fd[ROOT]
    BY <1>0, <1>3, <2>1
  <2>5. ASSUME NEW g \in Handles, CloseOf(fd, h)[g].Opened, g \notin AstrayByClose(h)
        PROVE  OnCourse(vol, CloseOf(fd, h)[g], g \notin StaleByClose(h))
    <3>1. g # h /\ CloseOf(fd, h)[g] = fd[g]
      BY <1>0, <2>1, <2>2, <2>5, HandlesAndRoot
    <3>2. OnCourse(vol, fd[g], g \notin stale)
      BY <2>3, <2>5, <3>1 DEF FilesOnCourse
    <3> QED BY <2>3, <3>1, <3>2
  <2> QED BY <1>1, <2>3, <2>4, <2>5 DEF RootKnown
<1> QED BY <1>2, <1>3

\* FAT_OpenEntry begins a file at the first sector of its first cluster.
LEMMA EntryBegins ==
    ASSUME NEW v, WellFormed(v), NEW e, WellFormedEntry(v, e), NEW f, NEW filled,
           f.IsDirectory = e.dir, f.Position = 0, f.Size = e.size,
           f.FirstCluster = e.first, f.CurrentCluster = e.first,
           f.CurrentSectorInCluster = 0,
           ClusterToLba(v, e.first) \in Sectors(v) => f.Buffer = ClusterToLba(v, e.first)
    PROVE  OnCourse(v, f, filled)
<1>1. PICK first \in DOMAIN v.files : first = e.first
  BY DEF WellFormedEntry
<1>2. PICK zero \in Nat, s \in Nat \ {0}, w \in Nat \ {0} :
         zero = 0 /\ s = SECTOR_SIZE /\ w = v.sectorsPerCluster
  BY SectorSize, BootNumbers DEF WellFormed
<1>3. zero \div s = 0 /\ zero \div w = 0 /\ zero % w = 0
  BY <1>2
<1>4. Spot(f) = 0 /\ 0 \div v.sectorsPerCluster = 0 /\ 0 % v.sectorsPerCluster = 0
  BY <1>2, <1>3 DEF Spot
<1>5. /\ v.files[first].length \in Nat /\ ChainUnits(v, first) \in Nat
      /\ first # 0 => Len(v.files[first].chain) >= 1 /\ v.files[first].chain[1] = first
      /\ first = 0 => ChainUnits(v, first) = 0
      /\ Len(v.files[first].chain) \in Nat
  BY ChainFacts
<1>6. first # 0 => 0 < ChainUnits(v, first)
  <2>1. zero \div SECTOR_SIZE = 0 /\ (0 < Len(v.files[first].chain) <=> first # 0)
    <3>1. CASE first # 0
      BY <1>2, <1>3, <1>5, <3>1
    <3>2. CASE first = 0
      <4>1. v.files[first].chain = <<>>
        BY <3>2 DEF WellFormed, WellFormedFile
      <4> QED BY <1>2, <1>3, <3>2, <4>1, EmptySeq
    <3> QED BY <3>1, <3>2
  <2>2. zero < ChainUnits(v, first) <=>
           (zero \div SECTOR_SIZE) \div v.sectorsPerCluster < Len(v.files[first].chain)
    BY ChainPosition
  <2> QED BY <1>2, <1>4, <2>1, <2>2
<1>7. Sized(v, f)
  <2>1. e.dir => /\ e.size = 0 /\ e.first # 0
                 /\ v.files[e.first].length = ChainUnits(v, e.first)
    BY DEF WellFormedEntry
  <2>2. ~e.dir => e.size = v.files[e.first].length
    BY DEF WellFormedEntry
  <2>3. e.size \in Nat
    BY EntryNumbers DEF Entry
  <2> QED BY <1>1, <1>5, <1>6, <2>1, <2>2, <2>3 DEF Sized
<1>8. OnChain(v, f, filled)
  <2>1. ASSUME 0 < ChainUnits(v, first)
        PROVE  /\ first = v.files[first].chain[1]
               /\ f.Buffer = ClusterToLba(v, first) + 0
    <3>1. first # 0 /\ v.files[first].chain[1] = first
      BY <1>5, <2>1
    <3>2. first \in Clusters(v)
      <4>1. 1 \in 1 .. Len(v.files[first].chain)
        BY <1>5, <3>1
      <4> QED BY <3>1, <4>1, ChainFacts
    <3>3. 0 \in 0 .. v.sectorsPerCluster - 1
      BY <1>2
    <3>4. ClusterToLba(v, first) \in Nat /\ ClusterToLba(v, first) + 0 \in Sectors(v)
      BY <3>2, <3>3, ClusterSectors
    <3>5. ClusterToLba(v, first) + 0 = ClusterToLba(v, first)
      BY <3>4
    <3> QED BY <1>1, <3>1, <3>4, <3>5
  <2> QED BY <1>1, <1>4, <2>1 DEF OnChain
<1> QED BY <1>7, <1>8 DEF OnCourse

-----------------------------------------------------------------------------
(* Each action keeps the invariant.                                        *)

LEMMA InitCourse == Init => Course
<1> SUFFICES ASSUME Init PROVE Course
  OBVIOUS
<1>1. /\ \A h \in Files : ~fd[h].Opened
      /\ pc = "off"
  BY DEF Init, Closed
<1>2. FilesOnCourse
  BY <1>1, HandlesAndRoot DEF FilesOnCourse
<1>3. RootKnown
  BY <1>1, HandlesAndRoot DEF RootKnown, Mounted
<1>4. Reading
  BY <1>1 DEF Reading
<1> QED BY <1>2, <1>3, <1>4 DEF Course

LEMMA InitializeOnCourse == IInv /\ Course /\ Initialize => Course'
<1> SUFFICES ASSUME IInv, Course, Initialize PROVE Course'
  OBVIOUS
<1>0. TypeOK /\ WellFormed(vol) /\ FilesOnCourse /\ fd \in [Files -> FileData]
  BY VolumeFound DEF IInv, Course, TypeOK
<1> DEFINE root == [Opened |-> TRUE, IsDirectory |-> TRUE, Position |-> 0,
                    Size |-> vol.dirEntries, FirstCluster |-> RootLba(vol),
                    CurrentCluster |-> RootLba(vol),
                    CurrentSectorInCluster |-> 0, Buffer |-> RootLba(vol)]
<1>1. RootOf(vol, root)
  BY DEF RootOf
<1>2. RootOnCourse(vol, root, ROOT \notin stale)
  <2>1. PICK zero \in Nat : zero = 0
    OBVIOUS
  <2>2. zero \div SECTOR_SIZE = 0
    BY <2>1, SectorSize
  <2>3. root.Position = zero /\ root.CurrentCluster = RootLba(vol) /\ root.Buffer = RootLba(vol)
    BY <2>1
  <2>4. /\ RootLba(vol) \in Nat /\ vol.sectorsPerCluster \in Nat \ {0}
        /\ vol.dirEntries \in Nat
    BY <1>0, <2>1, RootPlaces, BootNumbers DEF WellFormed
  <2> HIDE DEF root
  <2> QED BY <2>1, <2>2, <2>3, <2>4 DEF RootOnCourse, Spot
<1> HIDE DEF root
<1>3. \A h \in Files : ~[fd[h] EXCEPT !.Opened = FALSE].Opened
  BY <1>0 DEF FileData
<1>4. fd' = [h \in Files |-> IF h # ROOT THEN [fd[h] EXCEPT !.Opened = FALSE] ELSE root]
  BY DEF Initialize, root
<1>5. fd'[ROOT] = root /\ \A h \in Handles : ~fd'[h].Opened
  BY <1>3, <1>4, HandlesAndRoot
<1>6. pc' = "idle" /\ vol' = vol /\ stale' = stale
  BY DEF Initialize
<1>7. FilesOnCourse'
  BY <1>5 DEF FilesOnCourse
<1>8. RootKnown'
  BY <1>1, <1>2, <1>5, <1>6 DEF RootKnown, Mounted
<1>9. Reading'
  BY <1>6 DEF Reading
<1> QED BY <1>7, <1>8, <1>9 DEF Course

\* An action that touches no file, after which no FAT_Read is under way.
LEMMA FilesUntouched ==
    ASSUME Course, Mounted, Mounted', UNCHANGED <<vol, fd, stale, astray>>
    PROVE  FilesOnCourse' /\ RootKnown'
BY DEF Course, FilesOnCourse, RootKnown, Mounted

\* An action that closes a file, and opens none.
LEMMA ClosingOnCourse ==
    ASSUME IInv, Course, Mounted, Mounted', NEW h \in Files,
           fd' = CloseOf(fd, h), stale' = StaleByClose(h), astray' = AstrayByClose(h),
           vol' = vol
    PROVE  FilesOnCourse' /\ RootKnown'
<1>1. FilesOnCourse /\ RootKnown
  BY DEF Course
<1>2. /\ \A g \in Handles : fd'[g].Opened /\ g \notin astray' =>
                               OnCourse(vol', fd'[g], g \notin stale')
      /\ RootOf(vol', fd'[ROOT])
      /\ ROOT \notin astray' => RootOnCourse(vol', fd'[ROOT], ROOT \notin stale')
  BY <1>1, CloseKeeps
<1> QED BY <1>2 DEF FilesOnCourse, RootKnown

LEMMA OpenOnCourse ==
    ASSUME Course, NEW components, Open(components)
    PROVE  Course'
<1>1. /\ pc = "idle" /\ pc' = "find" /\ UNCHANGED <<vol, fd, stale, astray>>
  BY DEF Open
<1> QED BY <1>1, FilesUntouched DEF Course, Reading, Mounted

LEMMA CallOnCourse == IInv /\ Course /\ Call => Course'
<1> SUFFICES ASSUME IInv, Course, Call PROVE Course'
  OBVIOUS
<1>0. FilesOnCourse /\ RootKnown /\ TypeOK /\ HandlesAccountedFor
  BY DEF Course, IInv
<1>1. CASE OpenRoot
  <2>1. /\ pc = "idle" /\ pc' = "idle" /\ UNCHANGED <<vol, fd, stale, astray>>
    BY <1>1 DEF OpenRoot
  <2> QED BY <2>1, FilesUntouched DEF Course, Reading, Mounted
<1>2. ASSUME NEW components \in Requests, Open(components) PROVE Course'
  BY <1>2, OpenOnCourse
<1>3. ASSUME NEW h \in Files, Close(h) PROVE Course'
  <2>1. /\ pc = "idle" /\ pc' = "idle" /\ vol' = vol
        /\ fd' = CloseOf(fd, h) /\ stale' = StaleByClose(h) /\ astray' = AstrayByClose(h)
    BY <1>3 DEF Close
  <2>2. Mounted /\ Mounted'
    BY <2>1 DEF Mounted
  <2> QED BY <2>1, <2>2, ClosingOnCourse DEF Course, Reading
<1>4. ASSUME NEW h \in Files, NEW count \in Counts, Read(h, count) PROVE Course'
  <2>1. /\ pc = "idle" /\ pc' \in {"idle", "read"} /\ h \in held /\ held' = held
        /\ UNCHANGED <<vol, fd, stale, astray>>
        /\ doubt' = (h \in stale \cup astray)
    BY <1>4 DEF Read
  <2>2. Mounted /\ Mounted'
    BY <2>1 DEF Mounted
  <2>3. FilesOnCourse' /\ RootKnown'
    BY <2>1, <2>2, FilesUntouched
  <2>4. ASSUME pc' = "read" PROVE Reading'
    <3>1. /\ Clipped(h, count) # 0 /\ cur' = h /\ left' = Clipped(h, count)
          /\ until' = IF h \in astray THEN 0
                      ELSE Min({fd[h].Position + count, FileLength(vol, Start(h))})
      BY <1>4, <2>1, <2>4 DEF Read
    <3>2. count \in Nat
      BY FatAssumption
    <3>3. left' \in Nat /\ left' >= 1
      <4>1. Clipped(h, count) \in Nat
        BY <1>0, <3>2, ClippedType
      <4> QED BY <3>1, <4>1
    <3>4. InUse(h)
      BY <1>0, <2>1, <2>2, HandlesAndRoot DEF InUse, HandlesAccountedFor
    <3>5. ASSUME h \notin astray
          PROVE  /\ \/ fd[h].IsDirectory /\ fd[h].Size = 0
                    \/ fd[h].Position + left' <= fd[h].Size
                 /\ until' = Min({fd[h].Position + left', FileLength(vol, Start(h))})
      BY <1>0, <3>1, <3>2, <3>4, <3>5, ClippedFits
    <3>6. FileLength(vol, Start(h))' = FileLength(vol, Start(h))
      BY <2>1 DEF FileLength, Extent, Start
    <3>7. ~doubt' => h \notin stale /\ h \notin astray
      BY <2>1, Zenon
    <3>8. cur' = h /\ fd' = fd /\ stale' = stale /\ astray' = astray
      BY <2>1, <3>1
    <3>9. cur' \in held' /\ left' >= 1
      BY <2>1, <3>3, <3>8
    <3>10. FileLength(vol, Start(cur))' = FileLength(vol, Start(h))
      BY <3>6, <3>8 DEF FileLength, Extent, Start
    <3>11. cur' \notin astray' =>
              \/ fd'[cur'].IsDirectory /\ fd'[cur'].Size = 0
              \/ fd'[cur'].Position + left' <= fd'[cur'].Size
      BY <3>5, <3>8
    <3>12. ~doubt' =>
              /\ cur' \notin stale' /\ cur' \notin astray'
              /\ until' = Min({fd'[cur'].Position + left', FileLength(vol, Start(cur))'})
      BY <3>5, <3>7, <3>8, <3>10
    <3> QED BY <3>9, <3>11, <3>12 DEF Reading
  <2>5. pc' # "read" => Reading'
    BY DEF Reading
  <2> QED BY <2>3, <2>4, <2>5 DEF Course
<1> QED BY <1>1, <1>2, <1>3, <1>4 DEF Call

\* FAT_FindFile's read of one unit turns the loop once.
FindFileTurns(one, go) ==
    one = 1 /\ Turn(cur, one, go) /\ (cur \notin astray => MayTake(fd[cur], one))

LEMMA FindFileTurn ==
    ASSUME IInv, FilesOnCourse, RootKnown, FindFile
    PROVE  /\ Mounted /\ Mounted' /\ InUse(cur) /\ vol' = vol
           /\ \E one \in Nat, go \in BOOLEAN : FindFileTurns(one, go)
<1>0. TypeOK /\ HandlesAccountedFor
  BY DEF IInv
<1>1. /\ pc = "find" /\ pc' \in {"find", "found"} /\ vol' = vol
      /\ Clipped(cur, 1) = 1
  BY DEF FindFile
<1>2. Mounted /\ Mounted'
  BY <1>1 DEF Mounted
<1>3. InUse(cur)
  <2>1. cur \in Files
    BY <1>0 DEF TypeOK
  <2>2. cur # ROOT => fd[cur].Opened
    BY <1>0, <1>1, <2>1, HandlesAndRoot DEF HandlesAccountedFor
  <2> QED BY <1>2, <2>1, <2>2 DEF InUse
<1>4. PICK one \in Nat, go \in BOOLEAN : one = 1 /\ Turn(cur, one, go)
  <2>1. PICK go \in BOOLEAN : Turn(cur, 1, go)
    BY DEF FindFile
  <2> QED BY <2>1
<1>5. ASSUME cur \notin astray PROVE MayTake(fd[cur], one)
  <2>1. \/ fd[cur].IsDirectory /\ fd[cur].Size = 0
        \/ fd[cur].Position + one <= fd[cur].Size
    <3>1. Clipped(cur, one) = one /\ Clipped(cur, one) # 0
      BY <1>1, <1>4
    <3>2. \/ fd[cur].IsDirectory /\ fd[cur].Size = 0
          \/ fd[cur].Position + Clipped(cur, one) <= fd[cur].Size
      BY <1>0, <1>3, <1>5, <3>1, ClippedFits
    <3> QED BY <3>1, <3>2
  <2>2. one \in 1 .. SECTOR_SIZE - (fd[cur].Position % SECTOR_SIZE)
    <3>1. fd[cur].Position \in Nat
      BY <1>0, <1>3, HandleNumbers DEF InUse
    <3>2. PICK r \in 0 .. SECTOR_SIZE - 1 : r = fd[cur].Position % SECTOR_SIZE
      BY <3>1, SectorSize, Quotient
    <3>3. one \in 1 .. SECTOR_SIZE - r
      BY <1>4, <3>2, SectorSize
    <3> QED BY <3>2, <3>3
  <2> QED BY <2>1, <2>2 DEF MayTake
<1> QED BY <1>1, <1>2, <1>3, <1>4, <1>5 DEF FindFileTurns

LEMMA FindFileOnCourse == IInv /\ Course /\ FindFile => Course'
<1> SUFFICES ASSUME IInv, Course, FindFile PROVE Course'
  OBVIOUS
<1>0. FilesOnCourse /\ RootKnown
  BY DEF Course
<1>1. pc' \in {"find", "found"}
  BY DEF FindFile
<1>2. /\ Mounted /\ Mounted' /\ InUse(cur) /\ vol' = vol
      /\ \E one \in Nat, go \in BOOLEAN : FindFileTurns(one, go)
  BY <1>0, FindFileTurn
<1>3. PICK one \in Nat, go \in BOOLEAN : FindFileTurns(one, go)
  BY <1>2
<1>4. FilesOnCourse' /\ RootKnown'
  BY <1>0, <1>2, <1>3, TurnKeeps DEF FindFileTurns
<1> QED BY <1>1, <1>4 DEF Course, Reading

LEMMA NotFoundOnCourse == IInv /\ Course /\ NotFound => Course'
<1> SUFFICES ASSUME IInv, Course, NotFound PROVE Course'
  OBVIOUS
<1>1. /\ pc = "find" /\ pc' = "idle" /\ vol' = vol /\ cur \in Files
      /\ fd' = CloseOf(fd, cur)
      /\ stale' = StaleByClose(cur) /\ astray' = AstrayByClose(cur)
  BY DEF NotFound, Return, CloseCurrent, IInv, TypeOK
<1>2. Mounted /\ Mounted'
  BY <1>1 DEF Mounted
<1>3. FilesOnCourse' /\ RootKnown'
  BY <1>1, <1>2, ClosingOnCourse
<1> QED BY <1>1, <1>3 DEF Course, Reading

LEMMA OutOfHandlesOnCourse == IInv /\ Course /\ OutOfHandles => Course'
<1> SUFFICES ASSUME IInv, Course, OutOfHandles PROVE Course'
  OBVIOUS
<1>1. /\ pc = "found" /\ pc' \in {"idle", "undefined"} /\ vol' = vol /\ cur \in Files
      /\ fd' = CloseOf(fd, cur)
      /\ stale' = StaleByClose(cur) /\ astray' = AstrayByClose(cur)
  BY DEF OutOfHandles, OpenFails, Return, CloseCurrent, IInv, TypeOK
<1>2. Mounted /\ Mounted'
  BY <1>1 DEF Mounted
<1>3. FilesOnCourse' /\ RootKnown'
  BY <1>1, <1>2, ClosingOnCourse
<1> QED BY <1>1, <1>3 DEF Course, Reading

\* FAT_OpenEntry fails to read: the handle it filled in stays closed.
LEMMA OpenReadFailsOnCourse == IInv /\ Course /\ OpenReadFails => Course'
<1> SUFFICES ASSUME IInv, Course, OpenReadFails PROVE Course'
  OBVIOUS
<1> DEFINE closed == CloseOf(fd, cur)
           h      == Min(FreeHandles(closed))
<1>1. /\ pc = "found" /\ pc' \in {"idle", "undefined"} /\ vol' = vol
      /\ FreeHandles(closed) # {}
      /\ stale' = StaleByClose(cur) /\ astray' = AstrayByClose(cur)
  BY DEF OpenReadFails, OpenFails, Return, CloseCurrent
<1>2. PICK r \in ReadSector(ClusterToLba(vol, entry.first), fd[h].Buffer) :
         fd' = [closed EXCEPT ![h] = EntryData(entry, r.buffer)]
  BY DEF OpenReadFails
<1>3. /\ h \in Handles /\ closed \in [Files -> FileData]
      /\ WellFormedEntry(vol, entry) /\ r.buffer \in Int
  BY <1>1, <1>2, HandleTaken
<1>4. FilesOnCourse /\ RootKnown /\ cur \in Files /\ TypeOK /\ Mounted /\ Mounted'
  BY <1>1 DEF Course, IInv, TypeOK, Mounted
<1>5. /\ \A g \in Handles : closed[g].Opened /\ g \notin astray' =>
                               OnCourse(vol, closed[g], g \notin stale')
      /\ RootOf(vol, closed[ROOT])
      /\ ROOT \notin astray' => RootOnCourse(vol, closed[ROOT], ROOT \notin stale')
  BY <1>1, <1>4, CloseKeeps
<1> DEFINE new == EntryData(entry, r.buffer)
<1>6. ~new.Opened
  BY <1>3, <1>4, EntryDataType
<1> HIDE DEF new, closed, h
<1>7. /\ fd'[ROOT] = closed[ROOT]
      /\ \A g \in Handles : fd'[g].Opened => fd'[g] = closed[g]
  <2>1. fd' = [closed EXCEPT ![h] = new]
    BY <1>2 DEF new
  <2> QED BY <1>3, <1>6, <2>1, HandlesAndRoot
<1>8. FilesOnCourse'
  BY <1>1, <1>5, <1>7 DEF FilesOnCourse
<1>9. RootKnown'
  BY <1>1, <1>4, <1>5, <1>7 DEF RootKnown
<1> QED BY <1>1, <1>8, <1>9 DEF Course, Reading

LEMMA OpenEntryOnCourse == IInv /\ Course /\ OpenEntry => Course'
<1> SUFFICES ASSUME IInv, Course, OpenEntry PROVE Course'
  OBVIOUS
<1> DEFINE closed == CloseOf(fd, cur)
           h      == Min(FreeHandles(closed))
<1>1. /\ pc = "found" /\ pc' \in {"idle", "find"} /\ vol' = vol
      /\ FreeHandles(closed) # {}
      /\ stale' = StaleByClose(cur) \ {h} /\ astray' = AstrayByClose(cur) \ {h}
  BY DEF OpenEntry, Return
<1>2. PICK r \in ReadSector(ClusterToLba(vol, entry.first), fd[h].Buffer) :
         /\ r.ok
         /\ fd' = [closed EXCEPT ![h] = [EntryData(entry, r.buffer) EXCEPT !.Opened = TRUE]]
  BY DEF OpenEntry
<1>3. /\ h \in Handles /\ closed \in [Files -> FileData]
      /\ WellFormedEntry(vol, entry) /\ r.buffer \in Int
  BY <1>1, <1>2, HandleTaken
<1>4. /\ FilesOnCourse /\ RootKnown /\ cur \in Files /\ TypeOK /\ WellFormed(vol)
      /\ Mounted /\ Mounted'
  BY <1>1, VolumeFound DEF Course, IInv, TypeOK, Mounted
<1>5. /\ \A g \in Handles : closed[g].Opened /\ g \notin AstrayByClose(cur) =>
                               OnCourse(vol, closed[g], g \notin StaleByClose(cur))
      /\ RootOf(vol, closed[ROOT])
      /\ ROOT \notin AstrayByClose(cur) =>
            RootOnCourse(vol, closed[ROOT], ROOT \notin StaleByClose(cur))
  BY <1>4, CloseKeeps
<1> DEFINE lba == ClusterToLba(vol, entry.first)
           new == [EntryData(entry, r.buffer) EXCEPT !.Opened = TRUE]
<1>6. lba \in Sectors(vol) => r.buffer = lba
  <2> DEFINE delivered == IF lba \in Sectors(vol) THEN {lba}
                          ELSE DOMAIN vol.entries \cup {GARBAGE}
             old == {fd[h].Buffer, GARBAGE}
  <2>1. r \in [ok : {TRUE}, buffer : delivered] \cup [ok : {FALSE}, buffer : old]
    BY <1>2 DEF ReadSector
  <2>2. lba \in Sectors(vol) => delivered = {lba}
    OBVIOUS
  <2> HIDE DEF delivered, old, lba
  <2>3. CASE r \in [ok : {TRUE}, buffer : delivered]
    BY <2>2, <2>3
  <2>4. CASE r \in [ok : {FALSE}, buffer : old]
    BY <1>2, <2>4
  <2> QED BY <2>1, <2>3, <2>4
<1>7. OnCourse(vol, new, h \notin stale')
  <2>1. /\ new.IsDirectory = entry.dir /\ new.Position = 0 /\ new.Size = entry.size
        /\ new.FirstCluster = entry.first /\ new.CurrentCluster = entry.first
        /\ new.CurrentSectorInCluster = 0 /\ new.Buffer = r.buffer
    BY DEF EntryData
  <2> HIDE DEF new, h, closed
  <2> QED BY <1>3, <1>4, <1>6, <2>1, EntryBegins
<1> HIDE DEF new, closed, h
<1>8. fd'[h] = new /\ \A g \in Files \ {h} : fd'[g] = closed[g]
  <2>1. fd' = [closed EXCEPT ![h] = new]
    BY <1>2 DEF new
  <2> QED BY <1>3, <2>1, HandlesAndRoot
<1>9. ASSUME NEW g \in Handles, fd'[g].Opened, g \notin astray'
      PROVE  OnCourse(vol, fd'[g], g \notin stale')
  <2>1. CASE g = h
    BY <1>7, <1>8, <2>1
  <2>2. CASE g # h
    <3>1. fd'[g] = closed[g] /\ g \notin AstrayByClose(cur)
      BY <1>1, <1>8, <1>9, <2>2, HandlesAndRoot
    <3>2. OnCourse(vol, closed[g], g \notin StaleByClose(cur))
      BY <1>5, <1>9, <3>1
    <3>3. g \notin stale' <=> g \notin StaleByClose(cur)
      BY <1>1, <2>2
    <3> QED BY <3>1, <3>2, <3>3 DEF OnCourse, OnChain
  <2> QED BY <2>1, <2>2
<1>10. FilesOnCourse'
  BY <1>1, <1>9 DEF FilesOnCourse
<1>11. RootKnown'
  <2>1. /\ fd'[ROOT] = closed[ROOT]
        /\ ROOT \in stale' <=> ROOT \in StaleByClose(cur)
        /\ ROOT \in astray' <=> ROOT \in AstrayByClose(cur)
    BY <1>1, <1>3, <1>8, HandlesAndRoot
  <2>2. ROOT \notin astray' => RootOnCourse(vol, fd'[ROOT], ROOT \notin stale')
    BY <1>5, <2>1 DEF RootOnCourse
  <2> QED BY <1>1, <1>4, <1>5, <2>1, <2>2 DEF RootKnown
<1> QED BY <1>1, <1>10, <1>11 DEF Course, Reading

\* The same of all files and as a formula of its own, to speak of the next
\* state as well.
NoneBeyond ==
    IInv /\ FilesOnCourse /\ RootKnown =>
        \A h \in Files : InUse(h) /\ h \notin astray =>
            /\ fd[h].Position <= FileLength(vol, Start(h))
            /\ FileLength(vol, Start(h)) \in Nat

LEMMA NoneBeyondNow == NoneBeyond
BY WithinLength DEF NoneBeyond

LEMMA NoneBeyondNext == NoneBeyond'
BY NoneBeyondNow, PTL

\* FAT_Read's loop: it turns on with what is left, or stops where it should.
LEMMA ReadTurnOnCourse ==
    IInv /\ Course /\ ReadTurn =>
        /\ Course'
        /\ pc' = "idle" /\ ~doubt' => fd'[cur].Position = until
<1> SUFFICES ASSUME IInv, Course, ReadTurn
             PROVE  /\ Course'
                    /\ pc' = "idle" /\ ~doubt' => fd'[cur].Position = until
  OBVIOUS
<1>0. FilesOnCourse /\ RootKnown /\ Reading /\ TypeOK /\ HandlesAccountedFor
  BY DEF Course, IInv
<1> DEFINE take == Min({left, LeftInBuffer(cur)})
<1>1. PICK go \in BOOLEAN :
         /\ Turn(cur, take, go)
         /\ IF go /\ left > take
            THEN /\ left' = left - take
                 /\ UNCHANGED <<pc, cur, name, rest, entry, path, until>>
            ELSE Return
  BY DEF ReadTurn
<1>2. pc = "read" /\ pc' \in {"read", "idle"} /\ vol' = vol /\ held' = held
  BY <1>1 DEF ReadTurn, Return
<1>3. Mounted /\ Mounted'
  BY <1>2 DEF Mounted
<1>4. /\ cur \in held /\ left >= 1 /\ left \in Nat /\ cur \in Files
      /\ InUse(cur)
  <2>1. cur \in held /\ left >= 1
    BY <1>0, <1>2 DEF Reading
  <2>2. left \in Nat /\ cur \in Files
    BY <1>0 DEF TypeOK
  <2>3. cur # ROOT => fd[cur].Opened
    BY <1>0, <1>2, <2>1, <2>2, HandlesAndRoot DEF HandlesAccountedFor
  <2> QED BY <1>3, <2>1, <2>2, <2>3 DEF InUse
<1>5. PICK p \in Nat, r \in 0 .. SECTOR_SIZE - 1 :
         p = fd[cur].Position /\ r = p % SECTOR_SIZE
  BY <1>0, <1>4, HandleNumbers, SectorSize, Quotient
<1>6. /\ take \in Nat /\ take <= left
      /\ take \in 1 .. SECTOR_SIZE - (fd[cur].Position % SECTOR_SIZE)
  <2>1. LeftInBuffer(cur) = SECTOR_SIZE - r /\ SECTOR_SIZE - r \in Nat /\ SECTOR_SIZE - r >= 1
    BY <1>5, SectorSize DEF LeftInBuffer
  <2>2. PICK b \in Nat : b = SECTOR_SIZE - r /\ b >= 1
    BY <2>1
  <2>3. take = Min({left, b})
    BY <2>1, <2>2
  <2>4. /\ take \in Nat /\ take <= left /\ take <= b
        /\ take = left \/ take = b
    <3> HIDE DEF take
    <3> QED BY <1>4, <2>2, <2>3, MinOfTwo
  <2> HIDE DEF take
  <2>5. take \in 1 .. b
    BY <1>4, <2>2, <2>4
  <2> QED BY <1>5, <2>2, <2>4, <2>5
<1> HIDE DEF take
<1>7. ASSUME cur \notin astray PROVE MayTake(fd[cur], take)
  <2>1. \/ fd[cur].IsDirectory /\ fd[cur].Size = 0
        \/ p + left <= fd[cur].Size
    BY <1>0, <1>2, <1>5, <1>7 DEF Reading
  <2>2. fd[cur].Size \in Nat
    BY <1>0, <1>4, HandleNumbers
  <2>3. \/ fd[cur].IsDirectory /\ fd[cur].Size = 0
        \/ p + take <= fd[cur].Size
    BY <1>4, <1>6, <2>1, <2>2
  <2> QED BY <1>5, <1>6, <2>3 DEF MayTake
<1>8. FilesOnCourse' /\ RootKnown'
  BY <1>0, <1>1, <1>2, <1>3, <1>4, <1>6, <1>7, TurnKeeps
<1>9. TurnFrame(cur) /\ Kept /\ IInv'
  <2>1. IInv'
    BY ReadTurnKeeps
  <2> QED BY <1>0, <1>1, <1>4, <1>6, <2>1, TurnFrames, TurnType
<1>10. ASSUME cur \notin astray'
       PROVE  /\ fd'[cur].Position = p + take
              /\ go => fd'[cur].Size = fd[cur].Size
              /\ ~go /\ ~doubt' => fd'[cur].Position = FileLength(vol, Start(cur))
  BY <1>0, <1>1, <1>4, <1>5, <1>6, <1>7, <1>10, TurnResult
<1>11. /\ cur \in astray => cur \in astray'
       /\ ~doubt' => ~doubt /\ cur \notin astray' /\ (cur \notin stale => cur \notin stale')
  BY <1>9 DEF TurnFrame
<1>12. ~doubt => /\ cur \notin stale /\ cur \notin astray
                 /\ until = Min({p + left, FileLength(vol, Start(cur))})
  BY <1>0, <1>2, <1>5 DEF Reading
<1>13. /\ fd'[cur].IsDirectory = fd[cur].IsDirectory
       /\ fd'[cur].FirstCluster = fd[cur].FirstCluster
  BY <1>4, <1>9 DEF Kept, SameFile
<1>14. ASSUME pc' = "read" PROVE Reading'
  <2>1. /\ go /\ left > take /\ left' = left - take /\ cur' = cur /\ until' = until
    BY <1>1, <1>14 DEF Return
  <2>2. left' >= 1
    BY <1>4, <1>6, <2>1
  <2>3. (p + take) + left' = p + left
    BY <1>4, <1>6, <2>1
  <2>4. FileLength(vol, Start(cur))' = FileLength(vol, Start(cur))
    BY <1>2, <1>13, <2>1 DEF FileLength, Extent, Start
  <2>5. cur' \notin astray' =>
           \/ fd'[cur'].IsDirectory /\ fd'[cur'].Size = 0
           \/ fd'[cur'].Position + left' <= fd'[cur'].Size
    <3>1. ASSUME cur \notin astray'
          PROVE  \/ fd'[cur].IsDirectory /\ fd'[cur].Size = 0
                 \/ fd'[cur].Position + left' <= fd'[cur].Size
      <4>1. \/ fd[cur].IsDirectory /\ fd[cur].Size = 0
            \/ p + left <= fd[cur].Size
        BY <1>0, <1>2, <1>5, <1>11, <3>1 DEF Reading
      <4>2. fd'[cur].Position + left' = p + left /\ fd'[cur].Size = fd[cur].Size
        BY <1>10, <2>1, <2>3, <3>1
      <4> QED BY <1>13, <4>1, <4>2
    <3> QED BY <2>1, <3>1
  <2>6. ASSUME ~doubt'
        PROVE  /\ cur' \notin stale' /\ cur' \notin astray'
               /\ until' = Min({fd'[cur'].Position + left', FileLength(vol, Start(cur))'})
    <3>1. cur' \notin stale' /\ cur' \notin astray'
      BY <1>11, <1>12, <2>1, <2>6
    <3>2. until = Min({p + left, FileLength(vol, Start(cur))})
      BY <1>11, <1>12, <2>6
    <3>3. fd'[cur].Position + left' = p + left
      BY <1>10, <2>1, <2>3, <3>1
    <3> QED BY <2>1, <2>4, <3>1, <3>2, <3>3
  <2> QED BY <1>2, <1>4, <2>1, <2>2, <2>5, <2>6 DEF Reading
<1>15. ASSUME pc' = "idle", ~doubt' PROVE fd'[cur].Position = until
  <2>1. ~(go /\ left > take)
    BY <1>1, <1>2, <1>15
  <2>2. cur \notin astray' /\ until = Min({p + left, FileLength(vol, Start(cur))})
    BY <1>11, <1>12, <1>15
  <2>3. fd'[cur].Position = p + take
    BY <1>10, <2>2
  <2>4. /\ fd'[cur].Position <= FileLength(vol, Start(cur))
        /\ FileLength(vol, Start(cur)) \in Nat
    <3>1. IInv' /\ FilesOnCourse' /\ RootKnown'
      BY <1>8, <1>9
    <3>2. PICK c \in Files : c = cur
      BY <1>4
    <3>3. c # ROOT => fd'[c].Opened
      <4>1. c # ROOT => fd[c].Opened
        BY <1>4, <3>2 DEF InUse
      <4> QED BY <1>9, <3>2, <4>1 DEF Kept, SameFile
    <3>4. InUse(c)'
      BY <1>3, <3>3 DEF InUse
    <3>5. c \notin astray'
      BY <2>2, <3>2
    <3>6. /\ fd'[c].Position <= FileLength(vol, Start(c))'
          /\ FileLength(vol, Start(c))' \in Nat
      BY <3>1, <3>4, <3>5, NoneBeyondNext DEF NoneBeyond
    <3>7. FileLength(vol, Start(c))' = FileLength(vol, Start(c))
      BY <1>2, <1>13, <3>2 DEF FileLength, Extent, Start
    <3>8. FileLength(vol, Start(c)) = FileLength(vol, Start(cur))
      BY <3>2
    <3> QED BY <3>2, <3>6, <3>7, <3>8
  <2>5. CASE ~go
    <3>1. fd'[cur].Position = FileLength(vol, Start(cur))
      BY <1>10, <1>15, <2>2, <2>5
    <3>2. PICK l \in Nat, m \in Nat : l = FileLength(vol, Start(cur)) /\ m = p + left
      BY <1>4, <2>4
    <3>3. l <= m
      BY <1>4, <1>6, <2>3, <3>1, <3>2
    <3>4. Min({m, l}) = l
      BY <3>2, <3>3, MinOfTwo
    <3> QED BY <2>2, <3>1, <3>2, <3>4
  <2>6. CASE left <= take
    <3>1. take = left
      BY <1>4, <1>6, <2>6
    <3>2. PICK l \in Nat, m \in Nat : l = FileLength(vol, Start(cur)) /\ m = p + left
      BY <1>4, <2>4
    <3>3. m <= l /\ fd'[cur].Position = m
      BY <2>3, <2>4, <3>1, <3>2
    <3>4. Min({m, l}) = m
      BY <3>2, <3>3, MinOfTwo
    <3> QED BY <2>2, <3>2, <3>3, <3>4
  <2>7. left \in Nat /\ take \in Nat
    BY <1>4, <1>6
  <2> QED BY <2>1, <2>5, <2>6, <2>7
<1>16. Reading'
  BY <1>2, <1>14 DEF Reading
<1> QED BY <1>8, <1>15, <1>16 DEF Course

LEMMA CourseStep == IInv /\ Course /\ [Next]_vars => Course'
<1> SUFFICES ASSUME IInv, Course, [Next]_vars PROVE Course'
  OBVIOUS
<1>1. CASE InitializeFails
  <2>1. /\ pc = "off" /\ pc' = "halted"
        /\ UNCHANGED <<vol, fd, locals, held, stale, astray, doubt>>
    BY <1>1 DEF InitializeFails
  <2>2. ~Mounted /\ ~Mounted'
    BY <2>1 DEF Mounted
  <2> QED BY <2>1, <2>2 DEF Course, FilesOnCourse, RootKnown, Reading
<1>2. CASE Stopped \/ UNCHANGED vars
  <2>1. UNCHANGED vars
    BY <1>2 DEF Stopped
  <2>2. UNCHANGED <<vol, fd, stale, astray, pc, held, cur, left, doubt, until>>
    BY <2>1 DEF vars, locals
  <2> QED BY <2>2 DEF Course, FilesOnCourse, RootKnown, Reading, Mounted, Start
<1> QED BY <1>1, <1>2, InitializeOnCourse, CallOnCourse, FindFileOnCourse,
           NotFoundOnCourse, OpenEntryOnCourse, OutOfHandlesOnCourse,
           OpenReadFailsOnCourse, ReadTurnOnCourse
        DEF Next, Work

LEMMA CourseKept == Spec => [](IInv /\ Course)
<1>1. Init => IInv /\ Course
  BY InitInvariant, InitCourse
<1>2. (IInv /\ Course) /\ [Next]_vars => (IInv /\ Course)'
  BY StepInvariant, CourseStep
<1> QED BY <1>1, <1>2, PTL DEF Spec

\* The buffer of a file on its course is the sector of its position.
LEMMA BufferNow ==
    ASSUME IInv, Course, NEW h, InUse(h), h \notin stale \cup astray,
           fd[h].Position < Extent(vol, Start(h))
    PROVE  fd[h].Buffer = FileSector(vol, Start(h), Spot(fd[h]))
<1>0. TypeOK /\ WellFormed(vol) /\ FilesOnCourse /\ RootKnown /\ h \in Files
  BY VolumeFound DEF IInv, Course, InUse
<1>1. PICK p \in Nat : p = fd[h].Position
  BY <1>0, HandleNumbers
<1>2. Mounted
  BY DEF InUse
<1>3. CASE h = ROOT
  <2>1. RootOnCourse(vol, fd[h], TRUE)
    BY <1>0, <1>2, <1>3 DEF RootKnown, RootOnCourse
  <2>2. /\ fd[h].Buffer = RootLba(vol) + Spot(fd[h])
        /\ vol.fat32 => Spot(fd[h]) < vol.sectorsPerCluster
    BY <2>1 DEF RootOnCourse
  <2>3. CASE ~vol.fat32
    BY <1>3, <2>2, <2>3 DEF FileSector, Start
  <2>4. CASE vol.fat32
    <3>1. PICK w \in Nat \ {0}, zero \in Nat, j \in Nat :
             w = vol.sectorsPerCluster /\ j = Spot(fd[h]) /\ zero = 0 /\ j < w
      <4>1. vol.sectorsPerCluster \in Nat \ {0} /\ p \div SECTOR_SIZE \in Nat
        BY <1>0, <1>1, RootPlaces
      <4>2. Spot(fd[h]) \in Nat /\ Spot(fd[h]) < vol.sectorsPerCluster
        BY <1>1, <2>2, <2>4, <4>1 DEF Spot
      <4> QED BY <4>1, <4>2
    <3>2. j = zero * w + j /\ j \in 0 .. w - 1
      BY <3>1
    <3>3. j \div w = zero /\ j % w = j
      BY <3>2, QuotientUnique, SMT
    <3>4. /\ vol.files[vol.rootCluster].chain[1] = vol.rootCluster
          /\ RootLba(vol) = ClusterToLba(vol, vol.rootCluster)
      BY <1>0, <1>1, <2>4, RootPlaces
    <3>5. ChainSector(vol, vol.rootCluster, Spot(fd[h])) = RootLba(vol) + Spot(fd[h])
      <4>1. (j \div w) + 1 = 1
        BY <3>1, <3>3
      <4> QED BY <3>1, <3>3, <3>4, <4>1 DEF ChainSector
    <3> QED BY <1>3, <2>2, <2>4, <3>5 DEF FileSector, Start
  <2> QED BY <2>3, <2>4
<1>4. CASE h # ROOT
  <2>1. h \in Handles /\ Start(h) = fd[h].FirstCluster /\ Start(h) # ROOT
    BY <1>2, <1>4, UsedStart
  <2>2. OnChain(vol, fd[h], TRUE)
    <3>1. fd[h].Opened
      BY <1>4 DEF InUse
    <3> QED BY <1>0, <2>1, <3>1 DEF FilesOnCourse, OnCourse, OnChain
  <2>3. fd[h].Position < ChainUnits(vol, fd[h].FirstCluster)
    <3>1. Extent(vol, Start(h)) = ChainUnits(vol, Start(h))
      BY <2>1, Zenon DEF Extent
    <3> QED BY <2>1, <3>1
  <2>4. /\ fd[h].CurrentCluster =
              vol.files[fd[h].FirstCluster].chain[
                  (Spot(fd[h]) \div vol.sectorsPerCluster) + 1]
        /\ fd[h].CurrentSectorInCluster = Spot(fd[h]) % vol.sectorsPerCluster
        /\ fd[h].Buffer = ClusterToLba(vol, fd[h].CurrentCluster)
                          + fd[h].CurrentSectorInCluster
    BY <2>2, <2>3 DEF OnChain
  <2>5. FileSector(vol, Start(h), Spot(fd[h])) = ChainSector(vol, Start(h), Spot(fd[h]))
    BY <2>1, Zenon DEF FileSector
  <2> QED BY <2>1, <2>4, <2>5 DEF ChainSector
<1> QED BY <1>3, <1>4

-----------------------------------------------------------------------------
\* On every volume, with any number of handles, any sizes of sectors, clusters
\* and reads and any failures, FAT_Read's loop keeps the buffer of each open
\* file at the sector its position lies in (fat.c:316-363), but for a file whose
\* last read failed or that followed a bad table, and for the root directory
\* after FAT_Close (fat.c:374-385).
THEOREM BufferAlwaysHoldsPosition == Spec => []BufferHoldsPosition
<1>1. IInv /\ Course => BufferHoldsPosition
  <2> SUFFICES ASSUME IInv, Course, NEW h \in Files,
                      fd[h].Opened, h \notin stale \cup astray,
                      fd[h].Position < Extent(vol, Start(h))
               PROVE  fd[h].Buffer = FileSector(vol, Start(h), Spot(fd[h]))
    BY DEF BufferHoldsPosition, Spot
  <2>1. InUse(h)
    BY DEF Course, RootKnown, InUse
  <2> QED BY <2>1, BufferNow
<1> QED BY <1>1, CourseKept, PTL

\* "don't read past the end of the file" (fat.c:310): no sequence of calls moves
\* a file whose chain can be followed beyond its length, whatever reads fail.
THEOREM NeverReadsPastEnd == Spec => []NoReadPastEnd
<1>1. ASSUME IInv, Course PROVE NoReadPastEnd
  <2>1. FilesOnCourse /\ RootKnown
    BY <1>1 DEF Course
  <2>2. ASSUME NEW h \in Files, fd[h].Opened, h \notin astray
        PROVE  fd[h].Position <= FileLength(vol, Start(h))
    <3>1. InUse(h)
      BY <2>1, <2>2 DEF RootKnown, InUse
    <3> QED BY <1>1, <2>1, <2>2, <3>1, WithinLength
  <2> QED BY <2>2 DEF NoReadPastEnd
<1> QED BY <1>1, CourseKept, PTL

\* A FAT_Read that met no failed read and no bad table stops exactly where the
\* request or the file ends (fat.c:310-314, 349-354).
THEOREM AlwaysReadsWhatIsThere == Spec => ReadsWhatIsThere
<1> DEFINE Stops == pc = "read" /\ pc' = "idle" /\ ~doubt' => fd'[cur].Position = until
<1>1. ASSUME IInv, Course, [Next]_vars PROVE [Stops]_vars
  <2>1. CASE ReadTurn
    BY <1>1, <2>1, ReadTurnOnCourse
  <2>2. CASE ~ReadTurn
    <3>1. UNCHANGED vars \/ pc # "read"
      BY <1>1, <2>2
         DEF Next, Work, Call, Initialize, InitializeFails, OpenRoot, Open, Close, Read,
             FindFile, NotFound, OpenEntry, OutOfHandles, OpenReadFails, Stopped
    <3> QED BY <3>1
  <2> QED BY <2>1, <2>2
<1>2. IInv /\ Course /\ [Next]_vars => [Stops]_vars
  BY <1>1
<1> HIDE DEF Stops
<1>3. Spec => [][Stops]_vars
  BY <1>2, CourseKept, PTL DEF Spec
<1> QED BY <1>3 DEF ReadsWhatIsThere, Stops

-----------------------------------------------------------------------------
(* Greatest elements                                                       *)

LEMMA GreatestOf ==
    ASSUME NEW n \in Nat, NEW s, s \subseteq 1 .. n, s # {}
    PROVE  Max(s) \in s /\ \A x \in s : x <= Max(s)
<1> DEFINE T == {k \in Nat : \A x \in s : x <= k}
<1>1. n \in T
  OBVIOUS
<1>2. PICK k \in T : \A m \in T : k <= m
  <2>1. T # {} /\ T \subseteq Nat
    BY <1>1
  <2> HIDE DEF T
  <2> QED BY <2>1, Taking!LeastNatural
<1>3. k \in s
  <2>1. CASE k \notin s
    <3>1. \A x \in s : x \in Nat /\ x <= k - 1
      BY <1>2, <2>1
    <3>2. k - 1 \in Nat
      <4>1. PICK x : x \in s
        OBVIOUS
      <4>2. x \in Nat /\ x <= k - 1 /\ k \in Nat
        BY <1>2, <3>1, <4>1
      <4> QED BY <4>2
    <3>3. k - 1 \in T
      BY <3>1, <3>2
    <3>4. k <= k - 1
      BY <1>2, <3>3
    <3> QED BY <3>2, <3>4
  <2> QED BY <2>1
<1>4. k \in s /\ \A x \in s : k >= x
  BY <1>2, <1>3
<1>5. \E m \in s : \A x \in s : m >= x
  BY <1>4
<1>6. Max(s) \in s /\ \A x \in s : Max(s) >= x
  BY <1>5 DEF Max
<1>7. \A x \in s : x \in Nat
  OBVIOUS
<1> QED BY <1>6, <1>7

LEMMA GreatestOfInterval ==
    ASSUME NEW k \in Nat
    PROVE  /\ Max(1 .. k + 1) = k + 1
           /\ (1 .. k + 1) \ {k + 1} = 1 .. k
           /\ 1 .. k + 1 # {}
<1>1. k + 1 \in Nat /\ k + 1 \in 1 .. k + 1
  OBVIOUS
<1>2. PICK n \in Nat, s \in SUBSET Nat : n = k + 1 /\ s = 1 .. n
  BY <1>1
<1>3. s # {} /\ s \subseteq 1 .. n /\ n \in s
  BY <1>1, <1>2
<1>4. Max(s) \in s /\ n <= Max(s)
  BY <1>3, GreatestOf
<1>5. Max(s) = n
  BY <1>2, <1>4
<1> QED BY <1>1, <1>2, <1>5

-----------------------------------------------------------------------------
(* What a path names                                                       *)

Nameless == [NoEntry EXCEPT !.dir = TRUE]

\* g is the fold of Component over the sets of the first n components.
Folds(g, components, n) ==
    g = [s \in SUBSET (1 .. n) |->
            IF s = {} THEN Nameless
            ELSE Component(g[s \ {Max(s)}], components[Max(s)])]

LEMMA ResolveIsFold ==
    ASSUME NEW components \in Seq(Names)
    PROVE  Resolve(components) =
            (CHOOSE g : Folds(g, components, Len(components)))[1 .. Len(components)]
<1>1. DOMAIN components = 1 .. Len(components)
  OBVIOUS
<1> QED BY <1>1 DEF Resolve, FoldLeft, MapThenFoldSet, Folds, Nameless

LEMMA FoldExists ==
    ASSUME NEW components, NEW n \in Nat
    PROVE  \E g : Folds(g, components, n)
<1> DEFINE S == {k \in Nat : \E g : Folds(g, components, k)}
<1>1. 0 \in S
  <2> DEFINE g == [s \in SUBSET (1 .. 0) |-> Nameless]
  <2>1. \A s \in SUBSET (1 .. 0) : s = {}
    OBVIOUS
  <2>2. g = [s \in SUBSET (1 .. 0) |->
               IF s = {} THEN Nameless
               ELSE Component(g[s \ {Max(s)}], components[Max(s)])]
    BY <2>1
  <2>3. Folds(g, components, 0)
    BY <2>2 DEF Folds
  <2> QED BY <2>3
<1>2. ASSUME NEW k \in Nat, k \in S PROVE k + 1 \in S
  <2>1. PICK g : Folds(g, components, k)
    BY <1>2
  <2> DEFINE h == [s \in SUBSET (1 .. k + 1) |->
                     IF s = {} THEN Nameless
                     ELSE IF k + 1 \in s
                          THEN Component(g[s \ {k + 1}], components[k + 1])
                          ELSE g[s]]
  <2>2. ASSUME NEW s \in SUBSET (1 .. k + 1), s # {}
        PROVE  h[s] = Component(h[s \ {Max(s)}], components[Max(s)])
    <3>1. Max(s) \in s /\ \A x \in s : x <= Max(s)
      <4>1. PICK n1 \in Nat : n1 = k + 1
        OBVIOUS
      <4> QED BY <2>2, <4>1, GreatestOf
    <3>2. \A t \in SUBSET (1 .. k) : h[t] = g[t]
      <4>1. SUFFICES ASSUME NEW t \in SUBSET (1 .. k) PROVE h[t] = g[t]
        OBVIOUS
      <4>2. t \in SUBSET (1 .. k + 1) /\ k + 1 \notin t
        OBVIOUS
      <4>3. t = {} => g[t] = Nameless
        BY <2>1 DEF Folds
      <4> QED BY <4>2, <4>3
    <3>3. CASE k + 1 \in s
      <4>1. Max(s) = k + 1
        <5>1. Max(s) \in 1 .. k + 1 /\ k + 1 <= Max(s)
          BY <3>1, <3>3
        <5> HIDE DEF h
        <5> QED BY <5>1
      <4>2. s \ {k + 1} \in SUBSET (1 .. k)
        OBVIOUS
      <4>3. h[s \ {k + 1}] = g[s \ {k + 1}]
        BY <3>2, <4>2
      <4>4. h[s] = Component(g[s \ {k + 1}], components[k + 1])
        BY <2>2, <3>3
      <4> QED BY <4>1, <4>3, <4>4
    <3>4. CASE k + 1 \notin s
      <4>1. s \in SUBSET (1 .. k) /\ s \ {Max(s)} \in SUBSET (1 .. k)
        <5>1. \A x \in s : x \in 1 .. k
          <6>1. \A x \in s : x \in 1 .. k + 1 /\ x # k + 1
            BY <3>4
          <6> HIDE DEF h
          <6> QED BY <6>1
        <5> HIDE DEF h
        <5> QED BY <5>1
      <4>2. g[s] = Component(g[s \ {Max(s)}], components[Max(s)])
        BY <2>1, <2>2, <4>1 DEF Folds
      <4> QED BY <3>2, <4>1, <4>2
    <3> QED BY <3>3, <3>4
  <2>3. h = [s \in SUBSET (1 .. k + 1) |->
               IF s = {} THEN Nameless
               ELSE Component(h[s \ {Max(s)}], components[Max(s)])]
    <3>1. \A s \in SUBSET (1 .. k + 1) :
             h[s] = IF s = {} THEN Nameless
                    ELSE Component(h[s \ {Max(s)}], components[Max(s)])
      BY <2>2
    <3>2. h = [s \in SUBSET (1 .. k + 1) |-> h[s]]
      OBVIOUS
    <3> HIDE DEF h
    <3> QED BY <3>1, <3>2
  <2>4. Folds(h, components, k + 1)
    BY <2>3 DEF Folds
  <2> QED BY <2>4
<1> HIDE DEF S
<1>3. n \in S
  BY <1>1, <1>2, Taking!SetInduction
<1> QED BY <1>3 DEF S

\* Folds of sequences that agree at the front agree there.
SameFront(a, b, n) == \A i \in 1 .. n : a[i] = b[i]

LEMMA FoldAgrees ==
    ASSUME NEW a, NEW b, NEW n \in Nat, NEW m \in Nat, n <= m,
           SameFront(a, b, n),
           NEW f, NEW g, Folds(f, a, n), Folds(g, b, m)
    PROVE  f[1 .. n] = g[1 .. n]
<1> DEFINE S == {k \in Nat : k <= n => f[1 .. k] = g[1 .. k]}
<1>1. 0 \in S
  <2>1. 1 .. 0 = {}
    OBVIOUS
  <2>2. f[{}] = Nameless /\ g[{}] = Nameless
    BY DEF Folds
  <2> QED BY <2>1, <2>2
<1>2. ASSUME NEW k \in Nat, k \in S PROVE k + 1 \in S
  <2> SUFFICES ASSUME k + 1 <= n PROVE f[1 .. k + 1] = g[1 .. k + 1]
    OBVIOUS
  <2>1. f[1 .. k] = g[1 .. k]
    BY <1>2
  <2>2. /\ 1 .. k + 1 \in SUBSET (1 .. n)
        /\ 1 .. k + 1 \in SUBSET (1 .. m)
        /\ a[k + 1] = b[k + 1]
    BY DEF SameFront
  <2>3. /\ Max(1 .. k + 1) = k + 1
        /\ (1 .. k + 1) \ {k + 1} = 1 .. k
        /\ 1 .. k + 1 # {}
    BY GreatestOfInterval
  <2> DEFINE t == 1 .. k + 1
  <2> HIDE DEF t
  <2>4. /\ f[t] = Component(f[t \ {Max(t)}], a[Max(t)])
        /\ g[t] = Component(g[t \ {Max(t)}], b[Max(t)])
    BY <2>2, <2>3 DEF Folds, t
  <2> QED BY <2>1, <2>2, <2>3, <2>4 DEF t
<1> HIDE DEF S
<1>3. n \in S
  BY <1>1, <1>2, Taking!SetInduction
<1> QED BY <1>3 DEF S

\* A path names what its last component names in what the rest names.
LEMMA ResolveStep ==
    ASSUME NEW gone \in Seq(Names), NEW n \in Names
    PROVE  Resolve(Append(gone, n)) = Component(Resolve(gone), n)
<1> DEFINE all == Append(gone, n)
           k   == Len(gone)
<1>1. all \in Seq(Names) /\ k \in Nat /\ Len(all) = k + 1 /\ all[k + 1] = n
      /\ \A i \in 1 .. k : gone[i] = all[i]
  OBVIOUS
<1> HIDE DEF all
<1>2. PICK f : Folds(f, gone, k) /\ Resolve(gone) = f[1 .. k]
  BY <1>1, FoldExists, ResolveIsFold
<1>3. PICK g : Folds(g, all, k + 1) /\ Resolve(all) = g[1 .. k + 1]
  <2>1. PICK m \in Nat : m = k + 1
    BY <1>1
  <2>2. \E g : Folds(g, all, m)
    BY FoldExists
  <2> QED BY <1>1, <2>1, <2>2, ResolveIsFold
<1>4. f[1 .. k] = g[1 .. k]
  <2>1. PICK l \in Nat, m \in Nat : l = k /\ m = k + 1 /\ l <= m
    BY <1>1
  <2>2. Folds(f, gone, l) /\ Folds(g, all, m) /\ SameFront(gone, all, l)
    BY <1>1, <1>2, <1>3, <2>1 DEF SameFront
  <2>3. f[1 .. l] = g[1 .. l]
    BY <2>1, <2>2, FoldAgrees
  <2> QED BY <2>1, <2>3
<1> DEFINE t == 1 .. k + 1
<1>5. /\ Max(t) = k + 1 /\ t \ {k + 1} = 1 .. k /\ t # {}
      /\ t \in SUBSET (1 .. k + 1)
  BY <1>1, GreatestOfInterval
<1> HIDE DEF t
<1>6. g[t] = Component(g[t \ {Max(t)}], all[Max(t)])
  BY <1>3, <1>5 DEF Folds
<1> QED BY <1>1, <1>2, <1>3, <1>4, <1>5, <1>6 DEF t, all

LEMMA ResolveNothing == Resolve(<<>>) = Nameless
<1>1. <<>> \in Seq(Names) /\ Len(<<>>) = 0 /\ 1 .. 0 = {}
  OBVIOUS
<1>2. PICK f : Folds(f, <<>>, 0) /\ Resolve(<<>>) = f[1 .. 0]
  <2>1. PICK z \in Nat, s \in Seq(Names) : z = 0 /\ s = <<>> /\ Len(s) = z
    BY <1>1
  <2>2. \E f : Folds(f, s, z)
    BY FoldExists
  <2>3. Resolve(s) = (CHOOSE f : Folds(f, s, z))[1 .. z]
    BY <2>1, ResolveIsFold
  <2> QED BY <2>1, <2>2, <2>3
<1> QED BY <1>1, <1>2 DEF Folds

\* Where a path names nothing, no longer path names anything.
LEMMA NothingBelow ==
    ASSUME NEW gone \in Seq(Names), Resolve(gone) = NoEntry, NEW after \in Seq(Names)
    PROVE  Resolve(gone \o after) = NoEntry
<1> DEFINE S == {k \in Nat : \A s \in Seq(Names) :
                    Len(s) = k => Resolve(gone \o s) = NoEntry}
<1>1. 0 \in S
  <2>1. \A s \in Seq(Names) : Len(s) = 0 => gone \o s = gone
    OBVIOUS
  <2> QED BY <2>1
<1>2. ASSUME NEW k \in Nat, k \in S PROVE k + 1 \in S
  <2> SUFFICES ASSUME NEW s \in Seq(Names), Len(s) = k + 1
               PROVE  Resolve(gone \o s) = NoEntry
    OBVIOUS
  <2> DEFINE front == SubSeq(s, 1, k)
             before == gone \o front
  <2>1. front \in Seq(Names) /\ Len(front) = k /\ s[k + 1] \in Names
    OBVIOUS
  <2>2. before \in Seq(Names)
    BY <2>1
  <2>3. gone \o s = Append(before, s[k + 1])
    BY SMTT(40)
  <2>4. Resolve(before) = NoEntry
    BY <1>2, <2>1
  <2> HIDE DEF before
  <2>5. Resolve(Append(before, s[k + 1])) = Component(NoEntry, s[k + 1])
    BY <2>1, <2>2, <2>4, ResolveStep
  <2> QED BY <2>3, <2>5 DEF Component, NoEntry
<1> HIDE DEF S
<1>3. Len(after) \in S
  <2>1. Len(after) \in Nat
    OBVIOUS
  <2> QED BY <1>1, <1>2, <2>1, Taking!SetInduction
<1> QED BY <1>3 DEF S

-----------------------------------------------------------------------------
(* The directory a component is looked up in                               *)

At(start, i) ==
    EntryAt(vol, FileSector(vol, start, i \div SECTOR_SIZE), i % SECTOR_SIZE)

StartOf(e) == IF e.name = "" THEN ROOT ELSE e.first

\* None of the first k entries has the name.
NoneNamed(start, k, n) == \A i \in 0 .. k - 1 : At(start, i).name # n

LEMMA LeastIs ==
    ASSUME NEW T, T \subseteq Nat, NEW p \in T, \A y \in T : p <= y
    PROVE  Min(T) = p
<1>1. \E x \in T : \A y \in T : x <= y
  OBVIOUS
<1>2. Min(T) \in T /\ \A y \in T : Min(T) <= y
  BY <1>1 DEF Min
<1>3. Min(T) <= p /\ p <= Min(T) /\ Min(T) \in Nat /\ p \in Nat
  BY <1>2
<1> QED BY <1>3

\* In a directory a component names the first entry with the name, or nothing.
LEMMA ComponentFound ==
    ASSUME NEW e, e.dir, NEW n, NEW start, start = StartOf(e),
           FileLength(vol, start) \in Nat,
           NEW p \in Nat, p < FileLength(vol, start),
           At(start, p).name = n, NoneNamed(start, p, n)
    PROVE  Component(e, n) = At(start, p)
<1> DEFINE places == {i \in 0 .. FileLength(vol, start) - 1 : At(start, i).name = n}
<1>1. p \in places /\ places \subseteq Nat
  OBVIOUS
<1>2. \A i \in places : p <= i
  <2> SUFFICES ASSUME NEW i \in places, ~(p <= i) PROVE FALSE
    OBVIOUS
  <2>1. i \in 0 .. p - 1
    BY <1>1
  <2> QED BY <2>1 DEF NoneNamed
<1>3. Component(e, n) = IF places = {} THEN NoEntry ELSE At(start, Min(places))
  BY DEF Component, At, StartOf
<1> HIDE DEF places
<1>4. Min(places) = p
  BY <1>1, <1>2, LeastIs
<1> QED BY <1>1, <1>3, <1>4

LEMMA ComponentMissing ==
    ASSUME NEW e, NEW n, NEW start, start = StartOf(e),
           NoneNamed(start, FileLength(vol, start), n)
    PROVE  Component(e, n) = NoEntry
<1>1. {i \in 0 .. FileLength(vol, start) - 1 : At(start, i).name = n} = {}
  BY DEF NoneNamed
<1> QED BY <1>1 DEF Component, At, StartOf

LEMMA LengthHasPlace ==
    ASSUME IInv, NEW h, InUse(h)
    PROVE  FileLength(vol, Start(h)) <= Extent(vol, Start(h))
<1>1. TypeOK /\ WellFormed(vol)
  BY VolumeFound DEF IInv
<1>2. CASE h = ROOT
  <2>1. Start(h) = ROOT /\ FileLength(vol, Start(h)) = Extent(vol, ROOT)
    BY <1>2, UsedStart DEF Start
  <2>2. PICK z \in Nat : z = 0
    OBVIOUS
  <2>3. Extent(vol, ROOT) \in Nat
    BY <1>1, <2>2, RootPlaces
  <2> QED BY <2>1, <2>3
<1>3. CASE h # ROOT
  <2>1. /\ Start(h) \in DOMAIN vol.files /\ Start(h) # ROOT
        /\ FileLength(vol, Start(h)) = vol.files[Start(h)].length
    BY <1>3, UsedStart
  <2>2. Extent(vol, Start(h)) = ChainUnits(vol, Start(h))
    BY <2>1 DEF Extent
  <2> QED BY <1>1, <2>1, <2>2, ChainFacts
<1> QED BY <1>2, <1>3

\* One turn of FAT_FindFile reads the entry at the position and moves on.
LEMMA FindFileAdvances ==
    ASSUME IInv, Course, FindFile, cur \notin stale \cup astray, ~doubt'
    PROVE  /\ fd[cur].Position \in Nat
           /\ FileLength(vol, Start(cur)) \in Nat
           /\ fd[cur].Position < FileLength(vol, Start(cur))
           /\ entry' = At(Start(cur), fd[cur].Position)
           /\ fd'[cur].Position = fd[cur].Position + 1
           /\ cur' = cur /\ cur \notin stale' \cup astray' /\ ~doubt
           /\ Start(cur)' = Start(cur)
           /\ \A g \in Handles : fd'[g].Opened = fd[g].Opened
<1>0. FilesOnCourse /\ RootKnown /\ TypeOK
  BY DEF Course, IInv
<1>1. /\ Mounted /\ Mounted' /\ InUse(cur) /\ vol' = vol
      /\ \E one \in Nat, go \in BOOLEAN : FindFileTurns(one, go)
  BY <1>0, FindFileTurn
<1>2. PICK one \in Nat, go \in BOOLEAN : FindFileTurns(one, go)
  BY <1>1
<1>3. /\ one = 1 /\ Turn(cur, one, go) /\ cur \notin astray
      /\ MayTake(fd[cur], one) /\ cur \in Files
  BY <1>1, <1>2 DEF FindFileTurns, InUse
<1>4. TurnFrame(cur) /\ Kept
  BY <1>0, <1>3, TurnFrames, TurnType
<1>5. cur \notin stale' \cup astray' /\ ~doubt
  BY <1>4 DEF TurnFrame
<1>6. fd'[cur].Position = fd[cur].Position + one
  BY <1>0, <1>1, <1>3, <1>5, TurnResult
<1>7. cur' = cur
  BY DEF FindFile
<1>8. /\ fd'[cur].FirstCluster = fd[cur].FirstCluster
      /\ \A g \in Files : fd'[g].Opened = fd[g].Opened
  BY <1>3, <1>4 DEF Kept, SameFile
<1>9. /\ fd'[cur].Position <= FileLength(vol, Start(cur))
      /\ FileLength(vol, Start(cur)) \in Nat
  <2>1. IInv' /\ FilesOnCourse' /\ RootKnown'
    BY FindFileKeeps, FindFileOnCourse DEF Course
  <2>2. PICK c \in Files : c = cur
    BY <1>3
  <2>3. InUse(c)'
    BY <1>1, <1>8, <2>2 DEF InUse
  <2>4. c \notin astray'
    BY <1>5, <2>2
  <2>5. /\ fd'[c].Position <= FileLength(vol, Start(c))'
        /\ FileLength(vol, Start(c))' \in Nat
    BY <2>1, <2>3, <2>4, NoneBeyondNext DEF NoneBeyond
  <2>6. FileLength(vol, Start(c))' = FileLength(vol, Start(c))
    BY <1>1, <1>8, <2>2 DEF FileLength, Extent, Start
  <2>7. FileLength(vol, Start(c)) = FileLength(vol, Start(cur))
    BY <2>2
  <2> QED BY <2>2, <2>5, <2>6, <2>7
<1>10. fd[cur].Position \in Nat
  BY <1>0, <1>3, HandleNumbers
<1>11. fd[cur].Position < FileLength(vol, Start(cur))
  BY <1>3, <1>6, <1>9, <1>10
<1>12. entry' = At(Start(cur), fd[cur].Position)
  <2>1. FileLength(vol, Start(cur)) <= Extent(vol, Start(cur))
    BY <1>1, LengthHasPlace
  <2>2. Extent(vol, Start(cur)) \in Nat
    <3>1. CASE cur = ROOT
      <4>1. PICK z \in Nat : z = 0
        OBVIOUS
      <4> QED BY <1>0, <3>1, <4>1, VolumeFound, RootPlaces DEF Start
    <3>2. CASE cur # ROOT
      <4>1. Start(cur) \in DOMAIN vol.files /\ Start(cur) # ROOT
        BY <1>1, <3>2, UsedStart
      <4>2. Extent(vol, Start(cur)) = ChainUnits(vol, Start(cur))
        BY <4>1 DEF Extent
      <4> QED BY <1>0, <4>1, <4>2, VolumeFound, ChainFacts
    <3> QED BY <3>1, <3>2
  <2>3. fd[cur].Position < Extent(vol, Start(cur))
    BY <1>9, <1>10, <1>11, <2>1, <2>2
  <2>4. fd[cur].Buffer = FileSector(vol, Start(cur), Spot(fd[cur]))
    BY <1>1, <2>3, BufferNow
  <2> QED BY <2>4 DEF FindFile, At, Spot
<1>13. Start(cur)' = Start(cur)
  BY <1>7, <1>8 DEF Start
<1> QED BY <1>3, <1>5, <1>6, <1>7, <1>8, <1>9, <1>10, <1>11, <1>12, <1>13, HandlesAndRoot

\* FAT_FindFile runs out of entries at the end of the file.
LEMMA NothingLeftAtEnd ==
    ASSUME IInv, Course, NEW h, InUse(h), h \notin astray, Clipped(h, 1) = 0
    PROVE  fd[h].Position = FileLength(vol, Start(h))
<1>1. /\ FilesOnCourse /\ RootKnown /\ TypeOK /\ WellFormed(vol) /\ h \in Files
      /\ fd[h] \in FileData /\ fd[h].IsDirectory \in BOOLEAN
  BY VolumeFound, HandleNumbers, FileNumbers DEF Course, IInv, InUse
<1>2. PICK p \in Nat, size \in Nat, len \in Nat :
         /\ p = fd[h].Position /\ size = fd[h].Size /\ size < WORD
         /\ len = FileLength(vol, Start(h)) /\ p <= len
  BY <1>1, HandleNumbers, WithinLength
<1>3. ~(fd[h].IsDirectory /\ fd[h].Size = 0)
  <2>1. fd[h].IsDirectory /\ fd[h].Size = 0 => Clipped(h, 1) = 1
    BY DEF Clipped
  <2> QED BY <2>1
<1>4. Min({1, (size - p) % WORD}) = 0
  BY <1>2, <1>3 DEF Clipped
<1>5. size = len /\ p <= size
  <2>1. CASE h = ROOT
    <3>1. RootOf(vol, fd[h]) /\ RootOnCourse(vol, fd[h], h \notin stale)
      BY <1>1, <2>1 DEF RootKnown, InUse
    <3>2. fd[h].IsDirectory /\ size = vol.dirEntries
      BY <1>2, <3>1 DEF RootOf
    <3>3. ~vol.fat32
      <4>1. vol.fat32 => vol.dirEntries = 0
        BY <1>1 DEF WellFormed, WellFormedBoot
      <4> QED BY <1>2, <1>3, <3>2, <4>1
    <3>4. Extent(vol, ROOT) = vol.dirEntries
      BY <3>3 DEF Extent
    <3>5. size = len
      BY <1>2, <2>1, <3>2, <3>4, UsedStart
    <3> QED BY <1>2, <3>5
  <2>2. CASE h # ROOT
    <3>1. h \in Handles /\ len = vol.files[fd[h].FirstCluster].length
      BY <1>2, <2>2, UsedStart
    <3>2. OnCourse(vol, fd[h], h \notin stale)
      BY <1>1, <2>2, <3>1 DEF FilesOnCourse, InUse
    <3>3. fd[h].IsDirectory =>
             size = p /\ p = ChainUnits(vol, fd[h].FirstCluster)
             /\ len = ChainUnits(vol, fd[h].FirstCluster)
      BY <1>2, <1>3, <3>1, <3>2 DEF OnCourse, Sized
    <3>4. ~fd[h].IsDirectory => size = len
      BY <1>2, <3>1, <3>2 DEF OnCourse, Sized
    <3>5. size = len
      BY <1>1, <3>3, <3>4
    <3> QED BY <1>2, <3>5
  <2> QED BY <2>1, <2>2
<1>6. PICK d \in Nat, one \in Nat : d = size - p /\ d < WORD /\ one = 1
  <2>1. size - p \in Nat /\ size - p < WORD
    BY <1>2, <1>5, SectorSize
  <2> QED BY <2>1
<1>7. d % WORD = d
  BY <1>6, SectorSize
<1>8. Min({one, d}) = 0
  BY <1>4, <1>6, <1>7
<1>9. d = 0
  <2>1. Min({one, d}) = one \/ Min({one, d}) = d
    BY MinOfTwo
  <2> QED BY <1>6, <1>8, <2>1
<1> QED BY <1>2, <1>5, <1>6, <1>9

-----------------------------------------------------------------------------
(* The walk.  The components already gone name the directory the walk is in *)

\* What is known of a walk that met no failure and went through directories
\* alone, with the components gone.
Reached(gone) ==
    /\ path = gone \o (<<name>> \o rest)
    /\ Resolve(gone).dir /\ Start(cur) = StartOf(Resolve(gone))
    /\ pc = "find" => NoneNamed(Start(cur), fd[cur].Position, name)
    /\ pc = "found" => entry = Component(Resolve(gone), name)

\* The last component cannot be misread.
LastIsFirm(components) ==
    components # <<>> => Misread[Last(components)] = {Last(components)}

Walk ==
    pc \in {"find", "found"} /\ ~doubt =>
        /\ cur \notin stale \cup astray
        /\ LastIsFirm(rest)
        /\ cur = ROOT => \E h \in Handles : ~fd[h].Opened
        /\ ThroughFile(path) \/ \E gone \in Seq(Names) : Reached(gone)

\* The volume stays, and with it what its paths name.
LEMMA SameVolume ==
    ASSUME vol' = vol, NEW s
    PROVE  /\ Resolve(s)' = Resolve(s)
           /\ \A e, n : Component(e, n)' = Component(e, n)
           /\ \A start, k, n : NoneNamed(start, k, n)' = NoneNamed(start, k, n)
           /\ path' = path => ThroughFile(path)' = ThroughFile(path)
<1>1. \A e, n : Component(e, n)' = Component(e, n)
  BY DEF Component
<1>2. \A start, k, n : NoneNamed(start, k, n)' = NoneNamed(start, k, n)
  BY DEF NoneNamed, At
<1>3. \A t : Resolve(t)' = Resolve(t)
  BY DEF Resolve, Component, FoldLeft, MapThenFoldSet
<1>4. path' = path => ThroughFile(path)' = ThroughFile(path)
  BY <1>3, Zenon DEF ThroughFile
<1> QED BY <1>1, <1>2, <1>3, <1>4

\* A path with components behind a file is one through a file.
LEMMA BehindFile ==
    ASSUME NEW gone \in Seq(Names), NEW after \in Seq(Names), after # <<>>,
           Resolve(gone) # NoEntry, ~Resolve(gone).dir
    PROVE  ThroughFile(gone \o after)
<1> DEFINE all == gone \o after
<1>1. /\ Len(gone) \in Nat /\ Len(after) \in Nat /\ Len(after) # 0
      /\ all \in Seq(Names) /\ Len(all) = Len(gone) + Len(after)
  BY EmptySeq, LenProperties
<1>2. gone = SubSeq(all, 1, Len(gone)) /\ gone # all
  BY <1>1
<1>3. Len(gone) \in 0 .. Len(all)
  BY <1>1
<1> HIDE DEF all
<1>4. gone \in Prefixes(all) \ {all}
  BY <1>2, <1>3 DEF Prefixes
<1>5. ThroughFile(all)
  BY <1>4, Zenon DEF ThroughFile
<1> QED BY <1>5 DEF all

LEMMA NextComponent ==
    ASSUME NEW components \in Seq(Names), components # <<>>, LastIsFirm(components),
           TakeComponent(components)
    PROVE  /\ name' \in Names /\ rest' \in Seq(Names)
           /\ components = <<name'>> \o rest' /\ LastIsFirm(rest')
<1>1. name' \in Names /\ rest' \in Seq(Names)
  BY TakeComponentType
<1>2. /\ Len(components) \in Nat /\ Len(components) >= 1
      /\ rest' = Tail(components)
      /\ name' \in IF Len(components) = 1 THEN Misread[Head(components)]
                                          ELSE {Head(components)}
  <2>1. Len(components) \in Nat /\ Len(components) # 0
    BY EmptySeq, LenProperties
  <2> QED BY <2>1 DEF TakeComponent
<1>3. name' = Head(components)
  <2>1. CASE Len(components) = 1
    <3>1. Last(components) = Head(components)
      BY <2>1 DEF Last
    <3> QED BY <1>2, <2>1, <3>1 DEF LastIsFirm
  <2>2. CASE Len(components) # 1
    BY <1>2, <2>2
  <2> QED BY <2>1, <2>2
<1>4. components = <<Head(components)>> \o Tail(components)
  BY <1>2
<1>5. ASSUME Tail(components) # <<>>
      PROVE  Last(Tail(components)) = Last(components)
  <2>1. /\ Len(Tail(components)) = Len(components) - 1
        /\ Tail(components) \in Seq(Names)
    BY <1>2
  <2>2. Len(components) - 1 >= 1
    BY <1>2, <1>5, <2>1, EmptySeq
  <2>3. Tail(components)[Len(components) - 1] = components[Len(components)]
    BY <1>2, <2>2
  <2> QED BY <2>1, <2>3 DEF Last
<1>6. LastIsFirm(rest')
  BY <1>2, <1>5 DEF LastIsFirm
<1> QED BY <1>1, <1>2, <1>3, <1>4, <1>6

LEMMA OpenBegins ==
    ASSUME IInv, NEW components \in Seq(Names), Open(components)
    PROVE  Walk'
<1> SUFFICES ASSUME ~doubt'
             PROVE  /\ cur' \notin stale' \cup astray'
                    /\ LastIsFirm(rest')
                    /\ cur' = ROOT => \E h \in Handles : ~fd'[h].Opened
                    /\ \E gone \in Seq(Names) : Reached(gone)'
  BY Zenon DEF Walk, LastIsFirm
<1>1. /\ pc' = "find" /\ cur' = ROOT /\ path' = components /\ components # <<>>
      /\ TakeComponent(components) /\ fd' = fd /\ vol' = vol
      /\ stale' = stale /\ astray' = astray
  BY DEF Open
<1>2. /\ ROOT \notin stale \cup astray /\ fd[ROOT].Position = 0
      /\ ~ \A h \in Handles : fd[h].Opened
      /\ Misread[Last(components)] = {Last(components)}
  BY DEF Open
<1>3. /\ name' \in Names /\ rest' \in Seq(Names)
      /\ components = <<name'>> \o rest' /\ LastIsFirm(rest')
  BY <1>1, <1>2, NextComponent DEF LastIsFirm
<1>4. PICK gone \in Seq(Names) : gone = <<>>
  BY EmptySeq
<1>5. path' = gone \o (<<name'>> \o rest')
  BY <1>1, <1>3, <1>4
<1>6. Resolve(gone)' = Nameless /\ Nameless.dir /\ StartOf(Nameless) = ROOT
  <2>1. Resolve(gone)' = Resolve(gone)
    BY <1>1, SameVolume
  <2>2. Nameless.dir /\ StartOf(Nameless) = ROOT
    BY DEF Nameless, NoEntry, StartOf
  <2> QED BY <1>4, <2>1, <2>2, ResolveNothing
<1>7. Start(cur)' = ROOT
  BY <1>1 DEF Start
<1>8. NoneNamed(Start(cur), fd[cur].Position, name)'
  BY <1>1, <1>2 DEF NoneNamed
<1>9. Reached(gone)'
  <2>1. StartOf(Resolve(gone))' = ROOT
    BY <1>6 DEF StartOf
  <2> QED BY <1>1, <1>5, <1>6, <1>7, <1>8, <2>1 DEF Reached
<1> QED BY <1>1, <1>2, <1>3, <1>4, <1>9

LEMMA FindFileWalks == IInv /\ Course /\ Walk /\ FindFile => Walk'
<1> SUFFICES ASSUME IInv, Course, Walk, FindFile, ~doubt' PROVE Walk'
  BY DEF Walk
<1>0. TypeOK
  BY DEF IInv
<1>1. /\ pc = "find" /\ pc' = (IF entry'.name = name THEN "found" ELSE "find")
      /\ UNCHANGED <<vol, name, rest, path>>
  BY DEF FindFile
<1>2. ~doubt
  <2>1. PICK go \in BOOLEAN : Turn(cur, 1, go)
    BY DEF FindFile
  <2>2. cur \in Files
    BY <1>0 DEF TypeOK
  <2>3. TurnFrame(cur)
    BY <1>0, <2>1, <2>2, TurnFrames
  <2> QED BY <2>3 DEF TurnFrame
<1>3. /\ cur \notin stale \cup astray /\ LastIsFirm(rest)
      /\ cur = ROOT => \E h \in Handles : ~fd[h].Opened
      /\ ThroughFile(path) \/ \E gone \in Seq(Names) : Reached(gone)
  BY <1>1, <1>2 DEF Walk
<1>11. /\ cur' = cur /\ cur \notin stale' \cup astray'
       /\ \A g \in Handles : fd'[g].Opened = fd[g].Opened
  BY <1>3, FindFileAdvances
<1>12. CASE ThroughFile(path)
  <2>1. ThroughFile(path)'
    BY <1>1, <1>12, SameVolume
  <2> QED BY <1>1, <1>3, <1>11, <2>1 DEF Walk, LastIsFirm
<1> SUFFICES ASSUME ~ThroughFile(path) PROVE Walk'
  BY <1>12
<1>4. PICK gone \in Seq(Names) : Reached(gone)
  BY <1>3
<1> DEFINE p     == fd[cur].Position
           start == Start(cur)
<1>5. /\ p \in Nat /\ FileLength(vol, start) \in Nat /\ p < FileLength(vol, start)
      /\ entry' = At(start, p) /\ fd'[cur].Position = p + 1
      /\ cur' = cur /\ cur \notin stale' \cup astray'
      /\ Start(cur)' = start
      /\ \A g \in Handles : fd'[g].Opened = fd[g].Opened
  BY <1>3, FindFileAdvances
<1> HIDE DEF p, start
<1>6. path = gone \o (<<name>> \o rest) /\ Resolve(gone).dir
      /\ start = StartOf(Resolve(gone)) /\ NoneNamed(start, p, name)
  BY <1>1, <1>4 DEF Reached, p, start
<1>7. /\ Resolve(gone)' = Resolve(gone)
      /\ \A e, n : Component(e, n)' = Component(e, n)
      /\ \A b, k, n : NoneNamed(b, k, n)' = NoneNamed(b, k, n)
  BY <1>1, SameVolume
<1>8. (pc = "find" => NoneNamed(Start(cur), fd[cur].Position, name))'
  <2>1. ASSUME pc' = "find" PROVE NoneNamed(start, p + 1, name)
    <3>1. At(start, p).name # name
      BY <1>1, <1>5, <2>1
    <3> QED BY <1>5, <1>6, <3>1 DEF NoneNamed
  <2>2. PICK b, k, n : b = start /\ k = p + 1 /\ n = name
    OBVIOUS
  <2>3. pc' = "find" => NoneNamed(b, k, n)'
    BY <1>7, <2>1, <2>2
  <2>4. Start(cur)' = b /\ fd'[cur'].Position = k /\ name' = n
    BY <1>1, <1>5, <2>2
  <2> QED BY <2>3, <2>4
<1>9. (pc = "found" => entry = Component(Resolve(gone), name))'
  <2>1. ASSUME pc' = "found" PROVE entry' = Component(Resolve(gone), name)
    <3>1. At(start, p).name = name
      BY <1>1, <1>5, <2>1
    <3> QED BY <1>5, <1>6, <3>1, ComponentFound
  <2> QED BY <1>1, <1>7, <2>1
<1>10. Reached(gone)'
  BY <1>1, <1>5, <1>6, <1>7, <1>8, <1>9 DEF Reached, StartOf
<1> QED BY <1>1, <1>3, <1>5, <1>10 DEF Walk, LastIsFirm

\* FAT_Close(current) leaves a free handle for FAT_OpenEntry.
LEMMA HandleLeft ==
    ASSUME IInv, pc = "found", cur = ROOT => \E h \in Handles : ~fd[h].Opened
    PROVE  FreeHandles(CloseOf(fd, cur)) # {}
<1>1. cur \in Files /\ fd \in [Files -> FileData]
  BY DEF IInv, TypeOK
<1>2. \A g \in Handles : CloseOf(fd, cur)[g].Opened <=> fd[g].Opened /\ g # cur
  BY <1>1, CloseOfType
<1>3. CASE cur = ROOT
  BY <1>2, <1>3 DEF FreeHandles
<1>4. CASE cur # ROOT
  <2>1. cur \in Handles /\ ~CloseOf(fd, cur)[cur].Opened
    BY <1>1, <1>2, <1>4, HandlesAndRoot
  <2> QED BY <2>1 DEF FreeHandles
<1> QED BY <1>3, <1>4

\* What FAT_OpenEntry makes of the entry found, in a handle nobody holds.
LEMMA EntryOpened ==
    ASSUME IInv, OpenEntry
    PROVE  \E h \in Handles \ held :
              /\ fd'[h].FirstCluster = entry.first /\ fd'[h].IsDirectory = entry.dir
              /\ fd'[h].Size = entry.size /\ fd'[h].Position = 0
              /\ h \notin stale' /\ h \notin astray' /\ h # ROOT
              /\ entry \in Entry
              /\ rest # <<>> => pc' = "find" /\ cur' = h
              /\ rest = <<>> => pc' = "idle" /\ held' = held \cup {h}
<1>0. HandlesAccountedFor /\ TypeOK
  BY DEF IInv
<1> DEFINE closed == CloseOf(fd, cur)
           h      == Min(FreeHandles(closed))
<1>1. /\ pc = "found" /\ FreeHandles(closed) # {}
      /\ stale' = StaleByClose(cur) \ {h} /\ astray' = AstrayByClose(cur) \ {h}
      /\ rest # <<>> => pc' = "find" /\ cur' = h
      /\ rest = <<>> => pc' = "idle" /\ held' = held \cup {h}
  BY DEF OpenEntry, Return
<1>2. PICK r \in ReadSector(ClusterToLba(vol, entry.first), fd[h].Buffer) :
         fd' = [closed EXCEPT ![h] = [EntryData(entry, r.buffer) EXCEPT !.Opened = TRUE]]
  BY DEF OpenEntry
<1>3. /\ h \in Handles /\ ~closed[h].Opened /\ closed \in [Files -> FileData]
      /\ \A g \in Handles : closed[g].Opened <=> fd[g].Opened /\ g # cur
      /\ WellFormedEntry(vol, entry)
  BY <1>1, <1>2, HandleTaken
<1> HIDE DEF closed, h
<1> DEFINE new == [EntryData(entry, r.buffer) EXCEPT !.Opened = TRUE]
<1>4. /\ new.FirstCluster = entry.first /\ new.IsDirectory = entry.dir
      /\ new.Size = entry.size /\ new.Position = 0
  BY DEF EntryData
<1>5. fd' = [closed EXCEPT ![h] = new]
  BY <1>2
<1> HIDE DEF new
<1>6. fd'[h] = new
  BY <1>3, <1>5, HandlesAndRoot
<1>7. h \notin held
  <2>1. h = cur \/ ~fd[h].Opened
    BY <1>3
  <2> QED BY <1>0, <1>1, <1>3, <2>1, HandlesAndRoot DEF HandlesAccountedFor
<1>8. entry \in Entry
  BY <1>3 DEF WellFormedEntry
<1> QED BY <1>1, <1>3, <1>4, <1>6, <1>7, <1>8, HandlesAndRoot

\* The entry found is what the components gone and the name looked for name.
LEMMA EntryIsNamed ==
    ASSUME IInv, Walk, pc = "found", ~doubt, ~ThroughFile(path)
    PROVE  \E gone \in Seq(Names) :
              /\ path = Append(gone, name) \o rest /\ name \in Names
              /\ Append(gone, name) \in Seq(Names)
              /\ Resolve(Append(gone, name)) = entry
              /\ entry # NoEntry /\ StartOf(entry) = entry.first
<1>1. TypeOK /\ Walking
  BY DEF IInv
<1>2. PICK gone \in Seq(Names) : Reached(gone)
  BY DEF Walk
<1>3. /\ path = gone \o (<<name>> \o rest) /\ entry = Component(Resolve(gone), name)
      /\ name \in Names /\ rest \in Seq(Names)
  BY <1>1, <1>2 DEF Reached, TypeOK, Walking
<1>4. Append(gone, name) \in Seq(Names)
  BY <1>3
<1>5. path = Append(gone, name) \o rest
  BY <1>3, SMTT(40)
<1>6. Resolve(Append(gone, name)) = entry
  BY <1>3, ResolveStep
<1>7. entry.name # ""
  <2>1. entry \in Entry
    BY <1>1 DEF Walking, WellFormedEntry
  <2>2. entry.name \in Names
    BY <2>1 DEF Entry
  <2> QED BY <2>2, FatAssumption
<1>8. entry # NoEntry /\ StartOf(entry) = entry.first
  <2>1. NoEntry.name = ""
    BY DEF NoEntry
  <2> QED BY <1>7, <2>1 DEF StartOf
<1> QED BY <1>3, <1>4, <1>5, <1>6, <1>8

LEMMA OpenEntryWalks == IInv /\ Walk /\ OpenEntry => Walk'
<1> SUFFICES ASSUME IInv, Walk, OpenEntry, pc' \in {"find", "found"}, ~doubt'
             PROVE  Walk'
  BY DEF Walk
<1>1. /\ pc = "found" /\ ~doubt /\ vol' = vol
      /\ rest = <<>> => pc' = "idle"
      /\ rest # <<>> => TakeComponent(rest) /\ path' = path
  BY DEF OpenEntry, Return
<1>2. rest # <<>> /\ rest \in Seq(Names)
  BY <1>1 DEF IInv, TypeOK
<1>3. PICK h \in Handles \ held :
         /\ fd'[h].FirstCluster = entry.first /\ fd'[h].Position = 0
         /\ h \notin stale' /\ h \notin astray' /\ h # ROOT
         /\ pc' = "find" /\ cur' = h
  BY <1>2, EntryOpened
<1>5. LastIsFirm(rest)
  BY <1>1 DEF Walk
<1>6. /\ name' \in Names /\ rest' \in Seq(Names)
      /\ rest = <<name'>> \o rest' /\ LastIsFirm(rest')
  BY <1>1, <1>2, <1>5, NextComponent
<1>13. /\ cur' \notin stale' \cup astray' /\ cur' # ROOT
       /\ LastIsFirm(rest)'
  BY <1>3, <1>6 DEF LastIsFirm
<1>14. ASSUME ThroughFile(path) PROVE Walk'
  <2>1. ThroughFile(path)'
    BY <1>1, <1>2, <1>14, SameVolume
  <2> QED BY <1>13, <2>1 DEF Walk
<1> SUFFICES ASSUME ~ThroughFile(path) PROVE Walk'
  BY <1>14
<1>4. PICK gone \in Seq(Names) :
         /\ path = Append(gone, name) \o rest /\ name \in Names
         /\ Append(gone, name) \in Seq(Names)
         /\ Resolve(Append(gone, name)) = entry
         /\ entry # NoEntry /\ StartOf(entry) = entry.first
  BY <1>1, EntryIsNamed
<1>15. entry.dir
  <2>1. ~entry.dir => ThroughFile(Append(gone, name) \o rest)
    BY <1>2, <1>4, BehindFile
  <2> QED BY <1>4, <2>1
<1>7. PICK further \in Seq(Names), e \in {entry} : further = Append(gone, name) /\ e = entry
  BY <1>4
<1>8. path' = further \o (<<name'>> \o rest') /\ Resolve(further)' = e
  <2>1. Resolve(further)' = Resolve(further)
    BY <1>1, SameVolume
  <2> QED BY <1>1, <1>2, <1>4, <1>6, <1>7, <2>1
<1>9. Start(cur)' = StartOf(e)
  BY <1>3, <1>4, <1>7 DEF Start
<1>10. NoneNamed(Start(cur), fd[cur].Position, name)'
  BY <1>3 DEF NoneNamed
<1>11. StartOf(Resolve(further))' = StartOf(e)
  BY <1>8 DEF StartOf
<1>12. Reached(further)'
  BY <1>3, <1>7, <1>8, <1>9, <1>10, <1>11, <1>15 DEF Reached
<1> QED BY <1>12, <1>13 DEF Walk

LEMMA WalkStep == IInv /\ Course /\ Walk /\ [Next]_vars => Walk'
<1> SUFFICES ASSUME IInv, Course, Walk, [Next]_vars PROVE Walk'
  OBVIOUS
<1>1. ASSUME NEW components \in Requests, Open(components) PROVE Walk'
  <2>1. components \in Seq(Names)
    BY FatAssumption
  <2> QED BY <1>1, <2>1, OpenBegins
<1>2. CASE UNCHANGED vars
  <2>1. UNCHANGED <<vol, pc, fd, cur, name, rest, entry, path, stale, astray, doubt>>
    BY <1>2 DEF vars, locals
  <2>2. \A gone \in Seq(Names) : Reached(gone) => Reached(gone)'
    <3>1. ASSUME NEW gone \in Seq(Names), Reached(gone) PROVE Reached(gone)'
      <4>1. /\ Resolve(gone)' = Resolve(gone)
            /\ \A e, n : Component(e, n)' = Component(e, n)
            /\ \A b, k, n : NoneNamed(b, k, n)' = NoneNamed(b, k, n)
        BY <2>1, SameVolume
      <4>2. PICK b, k, n, e : /\ b = Start(cur) /\ k = fd[cur].Position /\ n = name
                              /\ e = Resolve(gone)
        OBVIOUS
      <4>3. /\ Start(cur)' = b /\ fd'[cur'].Position = k /\ name' = n
            /\ Resolve(gone)' = e /\ StartOf(Resolve(gone))' = StartOf(e)
        BY <2>1, <4>1, <4>2 DEF Start, StartOf
      <4>4. (pc = "find" => NoneNamed(Start(cur), fd[cur].Position, name))'
        BY <2>1, <3>1, <4>1, <4>2, <4>3 DEF Reached
      <4>5. (pc = "found" => entry = Component(Resolve(gone), name))'
        BY <2>1, <3>1, <4>1, <4>2, <4>3 DEF Reached
      <4> QED BY <2>1, <3>1, <4>1, <4>2, <4>3, <4>4, <4>5 DEF Reached
    <3> QED BY <3>1
  <2>3. ThroughFile(path)' = ThroughFile(path)
    BY <2>1, SameVolume
  <2> QED BY <2>1, <2>2, <2>3 DEF Walk, LastIsFirm
<1>3. CASE Initialize \/ InitializeFails \/ NotFound \/ OutOfHandles \/ OpenReadFails
  BY <1>3 DEF Walk, Initialize, InitializeFails, NotFound, OutOfHandles, OpenReadFails,
              OpenFails, Return
<1>4. CASE OpenRoot \/ ReadTurn \/ (\E h \in Files : Close(h))
           \/ (\E h \in Files, count \in Counts : Read(h, count))
  BY <1>4 DEF Walk, OpenRoot, ReadTurn, Close, Read, Return
<1> QED BY <1>1, <1>2, <1>3, <1>4, FindFileWalks, OpenEntryWalks
        DEF Next, Call, Work, Stopped

LEMMA WalkKept == Spec => [](IInv /\ Course /\ Walk)
<1>1. Init => IInv /\ Course /\ Walk
  <2>1. Init => Walk
    BY DEF Init, Walk
  <2> QED BY <2>1, InitInvariant, InitCourse
<1>2. (IInv /\ Course /\ Walk) /\ [Next]_vars => (IInv /\ Course /\ Walk)'
  BY StepInvariant, CourseStep, WalkStep
<1> QED BY <1>1, <1>2, PTL DEF Spec

-----------------------------------------------------------------------------
\* How a walk that met no failure ends.
WalkEnds ==
    ~doubt' /\ pc \in {"find", "found"} /\ pc' \notin {"find", "found"}
        => pc' = "idle" /\ (ThroughFile(path) \/ Resolved)

LEMMA NotFoundEnds == IInv /\ Course /\ Walk /\ NotFound => WalkEnds
<1> SUFFICES ASSUME IInv, Course, Walk, NotFound, ~doubt'
             PROVE  pc' = "idle" /\ (ThroughFile(path) \/ Resolved)
  BY DEF WalkEnds
<1>0. TypeOK /\ Walking /\ HandlesAccountedFor
  BY DEF IInv
<1>1. /\ pc = "find" /\ Clipped(cur, 1) = 0 /\ pc' = "idle" /\ held' = held /\ ~doubt
  BY DEF NotFound, Return
<1> SUFFICES ASSUME ~ThroughFile(path) PROVE Resolved
  BY <1>1
<1>2. cur \notin stale \cup astray /\ \E gone \in Seq(Names) : Reached(gone)
  BY <1>1 DEF Walk
<1>3. PICK gone \in Seq(Names) : Reached(gone)
  BY <1>2
<1>4. InUse(cur)
  <2>1. cur \in Files
    BY <1>0 DEF TypeOK
  <2>2. cur # ROOT => fd[cur].Opened
    BY <1>0, <1>1, <2>1, HandlesAndRoot DEF HandlesAccountedFor
  <2> QED BY <1>1, <2>1, <2>2 DEF InUse, Mounted
<1>5. fd[cur].Position = FileLength(vol, Start(cur))
  BY <1>1, <1>2, <1>4, NothingLeftAtEnd
<1>6. Component(Resolve(gone), name) = NoEntry
  BY <1>1, <1>3, <1>5, ComponentMissing DEF Reached
<1>7. name \in Names /\ rest \in Seq(Names) /\ Append(gone, name) \in Seq(Names)
  <2>1. name \in Names /\ rest \in Seq(Names)
    BY <1>0, <1>1 DEF TypeOK, Walking
  <2> QED BY <2>1
<1>8. path = Append(gone, name) \o rest
  BY <1>3, <1>7 DEF Reached
<1>9. Resolve(Append(gone, name)) = NoEntry
  BY <1>6, <1>7, ResolveStep
<1>10. Resolve(path) = NoEntry
  BY <1>7, <1>8, <1>9, NothingBelow
<1> QED BY <1>1, <1>10 DEF Resolved

LEMMA OpenEntryEnds == IInv /\ Walk /\ OpenEntry => WalkEnds
<1> SUFFICES ASSUME IInv, Walk, OpenEntry, ~doubt', pc' \notin {"find", "found"}
             PROVE  pc' = "idle" /\ (ThroughFile(path) \/ Resolved)
  BY DEF WalkEnds
<1>1. pc = "found" /\ ~doubt
  BY DEF OpenEntry
<1>2. PICK h \in Handles \ held :
         /\ fd'[h].FirstCluster = entry.first /\ fd'[h].IsDirectory = entry.dir
         /\ fd'[h].Size = entry.size /\ fd'[h].Position = 0
         /\ rest = <<>> /\ pc' = "idle" /\ held' = held \cup {h}
  BY EntryOpened
<1> SUFFICES ASSUME ~ThroughFile(path) PROVE Resolved
  BY <1>2
<1>3. PICK gone \in Seq(Names) :
         /\ path = Append(gone, name) \o rest
         /\ Append(gone, name) \in Seq(Names)
         /\ Resolve(Append(gone, name)) = entry /\ entry # NoEntry
  BY <1>1, EntryIsNamed
<1>4. path = Append(gone, name)
  BY <1>2, <1>3
<1> QED BY <1>2, <1>3, <1>4 DEF Resolved

LEMMA WalkResolves == IInv /\ Course /\ Walk /\ [Next]_vars => [WalkEnds]_vars
<1> SUFFICES ASSUME IInv, Course, Walk, [Next]_vars, ~ UNCHANGED vars PROVE WalkEnds
  OBVIOUS
<1>1. CASE OutOfHandles
  <2>1. pc = "found" /\ FreeHandles(CloseOf(fd, cur)) = {} /\ doubt' = doubt
    BY <1>1 DEF OutOfHandles
  <2>2. ~doubt => (cur = ROOT => \E h \in Handles : ~fd[h].Opened)
    BY <2>1 DEF Walk
  <2>3. ~doubt => FALSE
    BY <2>1, <2>2, HandleLeft
  <2> QED BY <2>1, <2>3 DEF WalkEnds
<1>2. CASE OpenReadFails
  BY <1>2 DEF OpenReadFails, WalkEnds
<1>3. CASE FindFile
  BY <1>3 DEF FindFile, WalkEnds
<1>4. CASE Initialize \/ InitializeFails \/ OpenRoot \/ ReadTurn
           \/ (\E h \in Files : Close(h))
           \/ (\E h \in Files, count \in Counts : Read(h, count))
           \/ (\E components \in Requests : Open(components))
  BY <1>4 DEF WalkEnds, Initialize, InitializeFails, OpenRoot, ReadTurn, Close, Read, Open
<1> QED BY <1>1, <1>2, <1>3, <1>4, NotFoundEnds, OpenEntryEnds
        DEF Next, Call, Work, Stopped

\* FAT_Open finds what its path names on the volume and fails when it names
\* nothing (fat.c:415-512), after any calls before it, on every volume and for
\* every path: when the last component cannot be misread, the root directory
\* is rewound, a handle is free, no read fails, and the path goes through no file
\* that is not a directory (fat.c:493).
THEOREM OpenAlwaysResolves == Spec => OpenResolves
<1>1. Spec => [][WalkEnds]_vars
  BY WalkResolves, WalkKept, PTL DEF Spec
<1> QED BY <1>1 DEF OpenResolves, WalkEnds

-----------------------------------------------------------------------------
(* The same when FAT_Open is given its path as a text                      *)

LEMMA TextOpens ==
    ASSUME [OpenNext]_openVars
    PROVE  [Next]_vars \/ \E names \in Seq(Names) : Open(names)
<1>1. CASE UNCHANGED openVars
  BY <1>1 DEF openVars
<1>2. ASSUME NEW g \in Given, OpenText(g)
      PROVE  [Next]_vars \/ \E names \in Seq(Names) : Open(names)
  <2> DEFINE names == NamesOf(Walked(g[1], g[2]))
  <2>1. names \in Seq(Names)
    BY OpenPathAssumption
  <2>2. IF names = <<>> THEN OpenRoot ELSE Open(names)
    BY <1>2 DEF OpenText
  <2> HIDE DEF names
  <2> QED BY <2>1, <2>2 DEF Next, Call
<1> QED BY <1>1, <1>2 DEF OpenNext

LEMMA OpenNextKeeps ==
    IInv /\ Course /\ Walk /\ [OpenNext]_openVars =>
        (IInv /\ Course /\ Walk)' /\ [WalkEnds]_vars
<1> SUFFICES ASSUME IInv, Course, Walk, [OpenNext]_openVars
             PROVE  (IInv /\ Course /\ Walk)' /\ [WalkEnds]_vars
  OBVIOUS
<1>1. CASE [Next]_vars
  BY <1>1, StepInvariant, CourseStep, WalkStep, WalkResolves
<1>2. ASSUME NEW names \in Seq(Names), Open(names)
      PROVE  (IInv /\ Course /\ Walk)' /\ [WalkEnds]_vars
  <2>1. pc = "idle"
    BY <1>2 DEF Open
  <2>2. IInv' /\ Course' /\ Walk'
    BY <1>2, OpenKeeps, OpenOnCourse, OpenBegins
  <2> QED BY <2>1, <2>2 DEF WalkEnds
<1> QED BY <1>1, <1>2, TextOpens

LEMMA OpenWalkKept == OpenSpec => [](IInv /\ Course /\ Walk)
<1>1. OpenInit => IInv /\ Course /\ Walk
  <2>1. Init => Walk
    BY DEF Init, Walk
  <2> QED BY <2>1, InitInvariant, InitCourse DEF OpenInit
<1>2. (IInv /\ Course /\ Walk) /\ [OpenNext]_openVars => (IInv /\ Course /\ Walk)'
  BY OpenNextKeeps
<1> QED BY <1>1, <1>2, PTL DEF OpenSpec

\* The components FAT_Open takes off a text (fat.c:467-484), whatever the text,
\* are looked for as those of a path are: the walk finds what they name.
THEOREM OpenTextAlwaysResolves == OpenSpec => OpenResolves
<1>1. IInv /\ Course /\ Walk /\ [OpenNext]_openVars => [WalkEnds]_vars
  BY OpenNextKeeps
<1>2. OpenSpec => [][WalkEnds]_vars
  BY <1>1, OpenWalkKept, PTL DEF OpenSpec
<1> QED BY <1>2 DEF OpenResolves, WalkEnds

\* Nor does FAT_Open leak a handle when it is given a text.
THEOREM OpenTextAccountsForHandles == OpenSpec => []HandlesAccountedFor
<1>1. IInv => HandlesAccountedFor
  BY DEF IInv
<1> QED BY <1>1, OpenWalkKept, PTL

-----------------------------------------------------------------------------
(* What FAT_Open makes of the text it was given                            *)

\* While FAT_Open runs on a text, it looks for what its loop makes of that text.
WalksGiven ==
    given # Nothing =>
        /\ pc \in {"find", "found", "undefined"}
        /\ given \in Given /\ Walked(given[1], given[2]) # <<>>
        /\ path = NamesOf(Walked(given[1], given[2]))

\* What FAT_Open looks for changes only when it returns.
LEMMA PathStays ==
    ASSUME Next, pc \in {"find", "found", "undefined"}
    PROVE  pc' = "idle" \/ (path' = path /\ pc' \in {"find", "found", "undefined"})
<1>1. CASE Initialize \/ InitializeFails \/ Call \/ ReadTurn
  BY <1>1 DEF Initialize, InitializeFails, Call, ReadTurn, OpenRoot, Open, Close, Read
<1>2. CASE FindFile
  BY <1>2 DEF FindFile
<1>3. CASE NotFound
  BY <1>3 DEF NotFound, Return
<1>4. CASE OpenEntry
  BY <1>4, Zenon DEF OpenEntry, Return
<1>5. CASE OutOfHandles \/ OpenReadFails
  <2>1. OpenFails
    BY <1>5 DEF OutOfHandles, OpenReadFails
  <2> QED BY <2>1 DEF OpenFails, Return, locals
<1>6. CASE Stopped
  BY <1>6 DEF Stopped, vars, locals
<1> QED BY <1>1, <1>2, <1>3, <1>4, <1>5, <1>6 DEF Next, Work

LEMMA WalksGivenStep == WalksGiven /\ [OpenNext]_openVars => WalksGiven'
<1> SUFFICES ASSUME WalksGiven, [OpenNext]_openVars PROVE WalksGiven'
  OBVIOUS
<1>1. CASE UNCHANGED openVars
  BY <1>1 DEF WalksGiven, openVars, vars, locals
<1>2. ASSUME NEW g \in Given, OpenText(g) PROVE WalksGiven'
  <2>1. PICK names : names = NamesOf(Walked(g[1], g[2]))
    OBVIOUS
  <2>2. /\ IF names = <<>> THEN OpenRoot ELSE Open(names)
        /\ given' = IF names = <<>> THEN Nothing ELSE g
    BY <1>2, <2>1, Zenon DEF OpenText
  <2>3. CASE names = <<>>
    BY <2>2, <2>3 DEF WalksGiven
  <2>4. CASE names # <<>>
    <3>1. given' = g /\ pc' = "find" /\ path' = names
      BY <2>2, <2>4 DEF Open
    <3>2. Walked(g[1], g[2]) # <<>>
      <4>1. NamesOf(<<>>) = <<>>
        BY DEF NamesOf
      <4> QED BY <2>1, <2>4, <4>1, Zenon
    <3> QED BY <2>1, <3>1, <3>2, Zenon DEF WalksGiven
  <2> QED BY <2>3, <2>4
<1>3. CASE Next /\ given' = IF pc' = "idle" THEN Nothing ELSE given
  <2>1. CASE given' = Nothing
    BY <2>1 DEF WalksGiven
  <2>2. CASE given' # Nothing
    <3>1. given' = given /\ pc' # "idle" /\ given # Nothing
      BY <1>3, <2>2
    <3>2. pc \in {"find", "found", "undefined"}
      BY <3>1 DEF WalksGiven
    <3>3. path' = path /\ pc' \in {"find", "found", "undefined"}
      BY <1>3, <3>1, <3>2, PathStays
    <3> QED BY <3>1, <3>3, Zenon DEF WalksGiven
  <2> QED BY <2>1, <2>2
<1> QED BY <1>1, <1>2, <1>3, Zenon DEF OpenNext

LEMMA GivenIsMeant == WalksGiven => PathIsMeant
<1> SUFFICES ASSUME WalksGiven, given # Nothing, Firm(given[1], given[2]),
                    \A i \in DOMAIN Components(given[1]) : Plain(Components(given[1])[i])
             PROVE  path = NamesOf([i \in DOMAIN Components(given[1]) |->
                                       Meant(Components(given[1])[i])])
  BY Zenon DEF PathIsMeant
<1>1. /\ given \in Given /\ Walked(given[1], given[2]) # <<>>
      /\ path = NamesOf(Walked(given[1], given[2]))
  BY Zenon DEF WalksGiven
<1>2. PICK text, c : text = given[1] /\ c = given[2]
  OBVIOUS
<1>3. text \in Seq(Nat \ {NUL}) /\ Len(text) + 2 <= MAX_PATH_SIZE /\ c \in Nat
  BY <1>1, <1>2, OpenPathAssumption
<1>4. text \in Seq(Nat) /\ \A j \in 1 .. Len(text) : text[j] # NUL
  BY <1>3
<1>5. text # <<>>
  <2>1. ASSUME text = <<>> PROVE FALSE
    <3>1. MAX_PATH_SIZE >= 2
      BY <1>3, <2>1, Sizes
    <3>2. Walked(<<>>, c) = <<>>
      BY <1>3, <3>1, WalkedNothing
    <3> QED BY <1>1, <1>2, <2>1, <3>2, Zenon
  <2> QED BY <2>1
<1>6. Firm(text, c) /\ \A i \in DOMAIN Components(text) : Plain(Components(text)[i])
  BY <1>2, Zenon
<1>7. Walked(text, c) = [i \in DOMAIN Components(text) |-> Meant(Components(text)[i])]
  BY <1>3, <1>4, <1>5, <1>6, WalkedMeant
<1> QED BY <1>1, <1>2, <1>7, Zenon

\* FAT_Open looks for the short names that the components of its path mean
\* (fat.c:387-405, 461-484), whatever the path, when the late terminator behind
\* the last one spoils nothing.
THEOREM PathAlwaysMeant == OpenSpec => []PathIsMeant
<1>1. OpenInit => WalksGiven
  BY DEF OpenInit, WalksGiven
<1>2. WalksGiven /\ [OpenNext]_openVars => WalksGiven'
  BY WalksGivenStep
<1>3. WalksGiven => PathIsMeant
  BY GivenIsMeant
<1> QED BY <1>1, <1>2, <1>3, PTL DEF OpenSpec
=============================================================================
