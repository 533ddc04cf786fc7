-------------------------------- MODULE Fat --------------------------------
(***************************************************************************)
(* The FAT driver of the second stage, stage2/fat.c: mounting, FAT_Open's  *)
(* walk along a path, FAT_Read's loop, FAT_Close, over the table of file   *)
(* handles and the root directory's own entry.                             *)
(*                                                                         *)
(* Data is counted in units of one directory entry (32 bytes).  A buffer   *)
(* is modelled by the number of the sector it holds, a name by a model     *)
(* value.  FAT_NextCluster appears by its contract, which FatTable states; *)
(* a read of the disk returns the sector asked for or fails.               *)
(*                                                                         *)
(* A step is one turn of a loop of the code: one turn of FAT_Read's, which *)
(* for FAT_FindFile is one directory entry, or one component of a path.    *)
(***************************************************************************)
EXTENDS Integers, SequencesExt

CONSTANTS
    MAX_FILE_HANDLES,  \* size of the table of open files
    SECTOR_SIZE,       \* units of a sector
    WORD,              \* uint32_t arithmetic is modulo WORD
    FAT12_LIMIT,       \* fewer data clusters than this make a FAT12 volume
    Volumes,           \* the volumes the driver may find
    Names,             \* the names a directory entry may carry
    Misread,           \* Misread[n]: what the last component n may be taken for
    Requests,          \* the paths clients open
    Counts,            \* the numbers of units clients read
    MaxFaults          \* bound: failed reads of the disk in a behaviour

Handles == 0 .. MAX_FILE_HANDLES - 1
ROOT    == -1          \* ROOT_DIRECTORY_HANDLE
Files   == Handles \cup {ROOT}

\* Values of CurrentCluster that are no cluster of the volume: those FAT_Read
\* takes for the end of a file, from 0xFFFFFFF8 up, and all others.
END     == -1
NOWHERE == -3

GARBAGE == -4          \* the content of a buffer that holds no sector

Entry   == [name : Names, dir : BOOLEAN, first : Nat, size : Nat]
NoEntry == [name |-> "", dir |-> FALSE, first |-> 0, size |-> 0]

-----------------------------------------------------------------------------
(* The volume.  The numbers of its boot sector are fields of a record, with *)
(* its allocation table and the directory entries its sectors hold.  Field  *)
(* "files" is what the volume means: for each first cluster, the chain of   *)
(* clusters and the number of units of the file that starts there.          *)

\* FAT_Initialize, fat.c:167-179.
RootSectors(v) == (v.dirEntries + SECTOR_SIZE - 1) \div SECTOR_SIZE

DataLba(v) == v.reserved + v.sectorsPerFat * v.fatCount
              + (IF v.fat32 THEN 0 ELSE RootSectors(v))

ClusterToLba(v, c) ==
    IF c = NOWHERE THEN NOWHERE ELSE DataLba(v) + (c - 2) * v.sectorsPerCluster

RootLba(v) == IF v.fat32 THEN ClusterToLba(v, v.rootCluster)
                         ELSE v.reserved + v.sectorsPerFat * v.fatCount

\* FAT_Detect.
FatType(v) ==
    LET dataClusters == (v.totalSectors - DataLba(v)) \div v.sectorsPerCluster
    IN  IF dataClusters < FAT12_LIMIT THEN 12
        ELSE IF ~v.fat32 THEN 16 ELSE 32

Sectors(v)  == 0 .. v.totalSectors - 1
Clusters(v) == DOMAIN v.table

EntryAt(v, lba, offset) ==
    IF lba \in DOMAIN v.entries THEN v.entries[lba][offset] ELSE NoEntry

\* The number of units in the chain that starts at a cluster, and its i-th
\* sector, counted from 0.
ChainUnits(v, first) ==
    Len(v.files[first].chain) * v.sectorsPerCluster * SECTOR_SIZE

ChainSector(v, first, i) ==
    ClusterToLba(v, v.files[first].chain[(i \div v.sectorsPerCluster) + 1])
        + (i % v.sectorsPerCluster)

\* The same for every file, the root directory (start = ROOT) included: the
\* units that have a place on the volume, the sector of the i-th SECTOR_SIZE of
\* them, and how many belong to the file.
Extent(v, start) ==
    IF start # ROOT THEN ChainUnits(v, start)
    ELSE IF v.fat32 THEN ChainUnits(v, v.rootCluster) ELSE v.dirEntries

FileSector(v, start, i) ==
    IF start # ROOT THEN ChainSector(v, start, i)
    ELSE IF v.fat32 THEN ChainSector(v, v.rootCluster, i) ELSE RootLba(v) + i

FileLength(v, start) ==
    IF start # ROOT THEN v.files[start].length ELSE Extent(v, ROOT)

\* A volume some formatter could have made: what FAT_Detect makes of it fits
\* its boot sector; each chain follows the table to an end mark and has room
\* for its file; each entry agrees with the file it names.
WellFormedBoot(v) ==
    /\ v.fat32 \in BOOLEAN
    /\ v.reserved \in Nat /\ v.fatCount \in Nat /\ v.sectorsPerFat \in Nat
    /\ v.dirEntries \in Nat /\ v.totalSectors \in Nat /\ v.rootCluster \in Nat
    /\ v.sectorsPerCluster \in Nat \ {0}
    /\ DataLba(v) < v.totalSectors /\ v.totalSectors < WORD
    /\ v.fat32 <=> FatType(v) = 32
    /\ v.fat32 => v.rootCluster \in DOMAIN v.files \ {0} /\ v.dirEntries = 0
    /\ ~v.fat32 => v.dirEntries > 0 /\ v.dirEntries < WORD

WellFormedCluster(v, c) ==
    /\ c \in Nat /\ c >= 2 /\ v.table[c] \in Clusters(v) \cup {END}
    /\ ClusterToLba(v, c) + v.sectorsPerCluster <= v.totalSectors

WellFormedFile(v, first) ==
    LET f == v.files[first]
    IN  /\ first \in Nat /\ f.chain \in Seq(Clusters(v)) /\ f.length \in Nat
        /\ f.length <= ChainUnits(v, first) /\ ChainUnits(v, first) < WORD
        /\ IF first = 0 THEN f.chain = <<>>
                        ELSE f.chain # <<>> /\ f.chain[1] = first
        /\ \A i \in 1 .. Len(f.chain) :
              v.table[f.chain[i]] =
                  IF i = Len(f.chain) THEN END ELSE f.chain[i + 1]

WellFormedEntry(v, e) ==
    /\ e \in Entry /\ e.first \in DOMAIN v.files
    /\ IF e.dir THEN /\ e.size = 0 /\ e.first # 0
                     /\ v.files[e.first].length = ChainUnits(v, e.first)
                ELSE e.size = v.files[e.first].length

WellFormed(v) ==
    /\ WellFormedBoot(v)
    /\ \A c \in Clusters(v) : WellFormedCluster(v, c)
    /\ \A first \in DOMAIN v.files : WellFormedFile(v, first)
    /\ DOMAIN v.entries \subseteq Sectors(v)
    /\ \A lba \in DOMAIN v.entries : \A offset \in 0 .. SECTOR_SIZE - 1 :
          v.entries[lba][offset] = NoEntry \/ WellFormedEntry(v, v.entries[lba][offset])

ASSUME FatAssumption ==
    /\ MAX_FILE_HANDLES \in Nat \ {0} /\ SECTOR_SIZE \in Nat \ {0}
    /\ WORD \in Nat \ {0} /\ MaxFaults \in Nat /\ Counts \subseteq Nat
    /\ Requests \subseteq Seq(Names) /\ "" \notin Names
    /\ Misread \in [Names -> SUBSET Names]
    /\ \A n \in Names : n \in Misread[n]

ASSUME VolumeAssumption == \A v \in Volumes : WellFormed(v)

-----------------------------------------------------------------------------
VARIABLES
    vol,     \* the volume found, the same throughout
    pc,      \* what the driver is doing: see TypeOK
    fd,      \* FAT_FileData of every handle and of the root directory
    \* Locals and arguments of the running call, gone when it returns:
    cur,     \* the file it works on
    name,    \* FAT_Open: the component looked for
    rest,    \* FAT_Open: the components after it
    entry,   \* FAT_FindFile: the directory entry read last
    left,    \* FAT_Read: what is left of byteCount
    \* The rest:
    held,    \* the files a client got from FAT_Open and has not closed
    faults,  \* failed disk reads so far
    \* History, not part of the program:
    path,    \* the path the running FAT_Open was given
    until,   \* the position the running FAT_Read should stop at
    stale,   \* files whose buffer was not filled for their position
    astray,  \* files whose CurrentCluster does not come from a good table
    doubt    \* the running or last call met a fault or began in a bad state

locals  == <<cur, name, rest, entry, left, path, until>>
vars    == <<vol, pc, fd, locals, held, faults, stale, astray, doubt>>

Closed == [Opened |-> FALSE, IsDirectory |-> FALSE, Position |-> 0, Size |-> 0,
           FirstCluster |-> 0, CurrentCluster |-> 0,
           CurrentSectorInCluster |-> 0, Buffer |-> GARBAGE]

Init ==
    /\ vol \in Volumes
    /\ pc = "off"
    /\ fd = [h \in Files |-> Closed]
    /\ cur = ROOT /\ name = "" /\ rest = <<>> /\ entry = NoEntry /\ left = 0
    /\ path = <<>> /\ until = 0
    /\ held = {} /\ faults = 0
    /\ stale = {} /\ astray = {} /\ doubt = FALSE

\* The running call returns.
Return ==
    /\ pc' = "idle"
    /\ cur' = ROOT /\ name' = "" /\ rest' = <<>> /\ entry' = NoEntry /\ left' = 0
    /\ path' = <<>> /\ until' = 0

\* The first cluster a file has on the volume; ROOT stands for the root
\* directory, which has none on FAT12 and FAT16.
Start(h) == IF h = ROOT THEN ROOT ELSE fd[h].FirstCluster
-----------------------------------------------------------------------------
(* Reading the disk                                                         *)

\* Partition_ReadSectors(lba, 1, old): a sector of the volume is delivered;
\* any other number becomes some place on the disk.  A failed read leaves
\* what the buffer held, or garbage.
ReadSector(lba, old) ==
    [ok : {TRUE}, buffer : IF lba \in Sectors(vol) THEN {lba}
                           ELSE DOMAIN vol.entries \cup {GARBAGE}]
    \cup [ok : {FALSE}, buffer : {old, GARBAGE}]

\* FAT_NextCluster(c): the table's entry, or anything when the read of the
\* table fails, which the code does not notice, or c has no entry.  The end
\* mark of FAT32 is stored as 0x0FFFFFF8 or above and comes back as it is.
NextCluster(c) ==
    LET anything == Clusters(vol) \cup {END, NOWHERE}
        stored   == IF FatType(vol) = 32 /\ vol.table[c] = END
                    THEN NOWHERE ELSE vol.table[c]
    IN  IF c \in Clusters(vol)
        THEN {[next |-> stored, failed |-> FALSE]}
             \cup [next : anything, failed : {TRUE}]
        ELSE [next : anything, failed : {FALSE}]

\* The bound on failures, counted by steps that meet one.
Failure(happened) ==
    /\ happened => faults < MaxFaults
    /\ faults' = IF happened THEN faults + 1 ELSE faults

-----------------------------------------------------------------------------
(* One turn of FAT_Read's loop, fat.c:316-363: take units of file h are     *)
(* copied out; go says whether the loop may turn again.                     *)

LeftInBuffer(h) == SECTOR_SIZE - (fd[h].Position % SECTOR_SIZE)

\* Mutant: the position of a file is not kept to 32 bits.
Moved_Unbounded(h, take) == [fd[h] EXCEPT !.Position = @ + take]

\* fat.c:319-321.
Moved(h, take) == [fd[h] EXCEPT !.Position = (@ + take) % WORD]

\* What the turn leaves of file h: its buffer filled or not, on its way or
\* strayed from it.
Note(h, filled, strayed) ==
    /\ stale' = IF filled THEN stale \ {h} ELSE stale \cup {h}
    /\ astray' = IF strayed THEN astray \cup {h} ELSE astray
    /\ doubt' = (doubt \/ ~filled \/ h \in astray')

\* The sector is not used up.
StayInSector(h, take, go) ==
    /\ take < LeftInBuffer(h)
    /\ fd' = [fd EXCEPT ![h] = Moved(h, take)]
    /\ go
    /\ doubt' = (doubt \/ h \in astray)
    /\ UNCHANGED <<faults, stale, astray>>

\* Sector lba is read for the position reached.
Refill(h, data, lba, strayed, failed, go) ==
    \E r \in ReadSector(lba, fd[h].Buffer) :
        /\ fd' = [fd EXCEPT ![h] = [data EXCEPT !.Buffer = r.buffer]]
        /\ go = r.ok
        /\ Failure(failed \/ ~r.ok)
        /\ Note(h, r.ok, strayed)

\* fat.c:329-339: the root directory is taken to be contiguous.
NextRootSector(h, take, go) ==
    LET lba == (fd[h].CurrentCluster + 1) % WORD
    IN  /\ take = LeftInBuffer(h) /\ h = ROOT
        /\ Refill(h, [Moved(h, take) EXCEPT !.CurrentCluster = lba], lba,
                  vol.fat32 /\ lba >= RootLba(vol) + vol.sectorsPerCluster,
                  FALSE, go)

\* fat.c:343, 357: the next sector of the same cluster.
NextSector(h, take, go) ==
    LET sector == fd[h].CurrentSectorInCluster + 1
    IN  /\ take = LeftInBuffer(h) /\ h # ROOT
        /\ sector < vol.sectorsPerCluster
        /\ Refill(h, [Moved(h, take) EXCEPT !.CurrentSectorInCluster = sector],
                  ClusterToLba(vol, fd[h].CurrentCluster) + sector,
                  FALSE, FALSE, go)

ClusterUsedUp(h, take) ==
    /\ take = LeftInBuffer(h) /\ h # ROOT
    /\ fd[h].CurrentSectorInCluster + 1 >= vol.sectorsPerCluster

\* Mutant: CurrentSectorInCluster is not reset at a new cluster.
FirstSector_NoReset(h, take, go) ==
    /\ ClusterUsedUp(h, take)
    /\ \E n \in NextCluster(fd[h].CurrentCluster) :
          /\ n.next # END
          /\ Refill(h, [Moved(h, take) EXCEPT !.CurrentCluster = n.next],
                    ClusterToLba(vol, n.next) + fd[h].CurrentSectorInCluster,
                    n.failed \/ n.next = NOWHERE, n.failed, go)

\* fat.c:345-346, 357: the first sector of the next cluster.
FirstSector(h, take, go) ==
    /\ ClusterUsedUp(h, take)
    /\ \E n \in NextCluster(fd[h].CurrentCluster) :
          /\ n.next # END
          /\ Refill(h, [Moved(h, take) EXCEPT !.CurrentCluster = n.next,
                                              !.CurrentSectorInCluster = 0],
                    ClusterToLba(vol, n.next),
                    n.failed \/ n.next = NOWHERE, n.failed, go)

\* Mutant: the end of the chain is not written down as the file's size.
EndOfChain_NoMark(h, take, go) ==
    /\ ClusterUsedUp(h, take)
    /\ \E n \in NextCluster(fd[h].CurrentCluster) :
          /\ n.next = END
          /\ fd' = [fd EXCEPT ![h] = [Moved(h, take) EXCEPT
                                         !.CurrentCluster = END,
                                         !.CurrentSectorInCluster = 0]]
          /\ Failure(n.failed)
          /\ astray' = IF n.failed THEN astray \cup {h} ELSE astray
          /\ doubt' = (doubt \/ h \in astray')
    /\ ~go
    /\ UNCHANGED stale

\* fat.c:349-354: "Mark end of file".
EndOfChain(h, take, go) ==
    LET data == Moved(h, take)
    IN  /\ ClusterUsedUp(h, take)
        /\ \E n \in NextCluster(fd[h].CurrentCluster) :
              /\ n.next = END
              /\ fd' = [fd EXCEPT ![h] =
                          [data EXCEPT !.CurrentCluster = END,
                                       !.CurrentSectorInCluster = 0,
                                       !.Size = data.Position]]
              /\ Failure(n.failed)
              /\ astray' = IF n.failed THEN astray \cup {h} ELSE astray
              /\ doubt' = (doubt \/ h \in astray')
        /\ ~go
        /\ UNCHANGED stale

Turn(h, take, go) ==
    \/ StayInSector(h, take, go)
    \/ NextRootSector(h, take, go)
    \/ NextSector(h, take, go)
    \/ FirstSector(h, take, go)
    \/ EndOfChain(h, take, go)

\* Mutant: the whole size is left to read wherever the position is.
Clipped_FromStart(h, count) ==
    IF fd[h].IsDirectory /\ fd[h].Size = 0 THEN count
    ELSE Min({count, fd[h].Size})

\* Mutant: directories, whose entries say size 0, are cut off like files.
Clipped_Directories(h, count) ==
    Min({count, (fd[h].Size - fd[h].Position) % WORD})

\* fat.c:310-312: how much of count units FAT_Read sets out to read.
Clipped(h, count) ==
    IF fd[h].IsDirectory /\ fd[h].Size = 0 THEN count
    ELSE Min({count, (fd[h].Size - fd[h].Position) % WORD})
-----------------------------------------------------------------------------
(* Mounting                                                                 *)

\* FAT_Initialize, fat.c:181-204.
Initialize ==
    /\ pc = "off"
    /\ pc' = "idle"
    /\ fd' = [h \in Files |->
                IF h # ROOT THEN [fd[h] EXCEPT !.Opened = FALSE]
                ELSE [Opened |-> TRUE, IsDirectory |-> TRUE, Position |-> 0,
                      Size |-> vol.dirEntries,
                      FirstCluster |-> RootLba(vol),
                      CurrentCluster |-> RootLba(vol),
                      CurrentSectorInCluster |-> 0,
                      Buffer |-> RootLba(vol)]]
    /\ UNCHANGED <<vol, locals, held, faults, stale, astray, doubt>>

\* The boot sector or the root directory could not be read: start() stops.
InitializeFails ==
    /\ pc = "off"
    /\ Failure(TRUE)
    /\ pc' = "halted"
    /\ UNCHANGED <<vol, fd, locals, held, stale, astray, doubt>>

-----------------------------------------------------------------------------
(* FAT_Close, fat.c:374-385                                                 *)

CloseOf(data, h) ==
    IF h = ROOT
    THEN [data EXCEPT ![h].Position = 0, ![h].CurrentCluster = data[h].FirstCluster]
    ELSE [data EXCEPT ![h].Opened = FALSE]

\* Closing the root directory does not read its first sector again.
StaleByClose(h) ==
    IF h = ROOT /\ (fd[h].Position >= SECTOR_SIZE \/ h \in astray)
    THEN stale \cup {h} ELSE stale

AstrayByClose(h) == IF h = ROOT THEN astray \ {h} ELSE astray

\* A client closes a file it holds.
Close(h) ==
    /\ pc = "idle" /\ h \in held
    /\ fd' = CloseOf(fd, h)
    /\ stale' = StaleByClose(h) /\ astray' = AstrayByClose(h)
    /\ held' = held \ {h}
    /\ doubt' = FALSE
    /\ UNCHANGED <<vol, pc, locals, faults>>
-----------------------------------------------------------------------------
(* FAT_Open, fat.c:457-512                                                  *)

\* fat.c:467-484: the next component is taken off the path.  The last one may
\* be misread: its terminator is written one byte too far.
TakeComponent(components) ==
    /\ name' \in IF Len(components) = 1 THEN Misread[Head(components)]
                                        ELSE {Head(components)}
    /\ rest' = Tail(components)

\* An empty path, or "/", is answered with the root directory's own handle.
OpenRoot ==
    /\ pc = "idle" /\ <<>> \in Requests
    /\ held' = held \cup {ROOT}
    /\ doubt' = FALSE
    /\ UNCHANGED <<vol, pc, fd, locals, faults, stale, astray>>

Open(components) ==
    /\ pc = "idle" /\ components # <<>>
    /\ pc' = "find" /\ cur' = ROOT /\ path' = components
    /\ TakeComponent(components)
    /\ doubt' = \/ ROOT \in stale \cup astray
                \/ fd[ROOT].Position # 0
                \/ \A h \in Handles : fd[h].Opened
                \/ Misread[Last(components)] # {Last(components)}
    /\ UNCHANGED <<vol, fd, entry, left, until, held, faults, stale, astray>>

\* FAT_FindFile, fat.c:415-452: one more directory entry is read and compared.
FindFile ==
    /\ pc = "find" /\ Clipped(cur, 1) = 1
    /\ entry' = EntryAt(vol, fd[cur].Buffer, fd[cur].Position % SECTOR_SIZE)
    /\ pc' = IF entry'.name = name THEN "found" ELSE "find"
    /\ \E go \in BOOLEAN : Turn(cur, 1, go)
    /\ UNCHANGED <<vol, cur, name, rest, left, path, until, held>>

\* FAT_Close(current), in the walk.
CloseCurrent == stale' = StaleByClose(cur) /\ astray' = AstrayByClose(cur)

\* fat.c:502-508: FAT_FindFile ran out of entries.
NotFound ==
    /\ pc = "find" /\ Clipped(cur, 1) = 0
    /\ fd' = CloseOf(fd, cur) /\ CloseCurrent
    /\ Return
    /\ UNCHANGED <<vol, held, faults, doubt>>

\* Mutant: the search for a handle does not look at Opened.
FreeHandles_Any(data) == Handles

\* fat.c:488-500 and the loop's test: the component's directory is closed
\* and the entry found takes the first free handle.
FreeHandles(data) == {h \in Handles : ~data[h].Opened}

\* Mutant: the handle is taken before its first sector is read.
EntryData_Opened(e, buffer) ==
    [Opened |-> TRUE, IsDirectory |-> e.dir, Position |-> 0, Size |-> e.size,
     FirstCluster |-> e.first, CurrentCluster |-> e.first,
     CurrentSectorInCluster |-> 0, Buffer |-> buffer]

\* fat.c:230-237.
EntryData(e, buffer) ==
    [Opened |-> FALSE, IsDirectory |-> e.dir, Position |-> 0, Size |-> e.size,
     FirstCluster |-> e.first, CurrentCluster |-> e.first,
     CurrentSectorInCluster |-> 0, Buffer |-> buffer]

\* FAT_OpenEntry succeeds: the walk goes on with the new file, or is over.
OpenEntry ==
    LET closed == CloseOf(fd, cur)
        h      == Min(FreeHandles(closed))
    IN  /\ pc = "found" /\ FreeHandles(closed) # {}
        /\ \E r \in ReadSector(ClusterToLba(vol, entry.first), fd[h].Buffer) :
              /\ r.ok
              /\ fd' = [closed EXCEPT ![h] =
                          [EntryData(entry, r.buffer) EXCEPT !.Opened = TRUE]]
        /\ stale' = StaleByClose(cur) \ {h}
        /\ astray' = AstrayByClose(cur) \ {h}
        /\ IF rest # <<>>
           THEN /\ pc' = "find" /\ cur' = h /\ TakeComponent(rest)
                /\ UNCHANGED <<entry, left, path, until, held>>
           ELSE Return /\ held' = held \cup {h}
        /\ UNCHANGED <<vol, faults, doubt>>

\* FAT_OpenEntry fails.  With components left, the loop goes on with current
\* equal to NULL, and what happens then is not defined.
OpenFails ==
    /\ CloseCurrent
    /\ IF rest = <<>> THEN Return
                      ELSE pc' = "undefined" /\ UNCHANGED locals
    /\ UNCHANGED <<vol, held>>

\* fat.c:222-227.
OutOfHandles ==
    /\ pc = "found" /\ FreeHandles(CloseOf(fd, cur)) = {}
    /\ fd' = CloseOf(fd, cur)
    /\ OpenFails
    /\ UNCHANGED <<faults, doubt>>

\* fat.c:239-246.
OpenReadFails ==
    LET closed == CloseOf(fd, cur)
        h      == Min(FreeHandles(closed))
    IN  /\ pc = "found" /\ FreeHandles(closed) # {}
        /\ \E r \in ReadSector(ClusterToLba(vol, entry.first), fd[h].Buffer) :
              /\ ~r.ok
              /\ fd' = [closed EXCEPT ![h] = EntryData(entry, r.buffer)]
        /\ Failure(TRUE)
        /\ OpenFails
        /\ doubt' = TRUE

-----------------------------------------------------------------------------
(* FAT_Read, fat.c:301-367, called by a client                              *)

\* The part before the loop.
Read(h, count) ==
    /\ pc = "idle" /\ h \in held
    /\ doubt' = (h \in stale \cup astray)
    /\ IF Clipped(h, count) = 0 THEN UNCHANGED <<pc, locals>>
       ELSE /\ pc' = "read" /\ cur' = h /\ left' = Clipped(h, count)
            /\ until' = IF h \in astray THEN 0
                        ELSE Min({fd[h].Position + count, FileLength(vol, Start(h))})
            /\ UNCHANGED <<name, rest, entry, path>>
    /\ UNCHANGED <<vol, fd, held, faults, stale, astray>>

ReadTurn ==
    /\ pc = "read"
    /\ \E go \in BOOLEAN :
          LET take == Min({left, LeftInBuffer(cur)})
          IN  /\ Turn(cur, take, go)
              /\ IF go /\ left > take
                 THEN /\ left' = left - take
                      /\ UNCHANGED <<pc, cur, name, rest, entry, path, until>>
                 ELSE Return
    /\ UNCHANGED <<vol, held>>

-----------------------------------------------------------------------------
\* The program has stopped, or does what no one can say.
Stopped == pc \in {"halted", "undefined"} /\ UNCHANGED vars

Call ==
    \/ OpenRoot
    \/ \E components \in Requests : Open(components)
    \/ \E h \in Files : Close(h)
    \/ \E h \in Files, count \in Counts : Read(h, count)

Work == FindFile \/ NotFound \/ OpenEntry \/ OutOfHandles \/ OpenReadFails
        \/ ReadTurn

Next == Initialize \/ InitializeFails \/ Call \/ Work \/ Stopped

\* There is one thread and nothing that takes the processor from it for good:
\* a call that has begun goes on.  Nothing makes a client call again.
Spec == Init /\ [][Next]_vars /\ WF_vars(Work)
-----------------------------------------------------------------------------
(* Properties                                                               *)

Word == 0 .. WORD - 1

FileData ==
    [Opened : BOOLEAN, IsDirectory : BOOLEAN, Position : Word, Size : Word,
     FirstCluster : Int, CurrentCluster : Int, CurrentSectorInCluster : Nat,
     Buffer : Int]

TypeOK ==
    /\ vol \in Volumes
    /\ pc \in {"off", "halted", "idle", "find", "found", "read", "undefined"}
    /\ fd \in [Files -> FileData]
    /\ cur \in Files /\ name \in Names \cup {""} /\ rest \in Seq(Names)
    /\ entry \in Entry \cup {NoEntry} /\ left \in Nat
    /\ held \subseteq Files
    /\ faults \in 0 .. MaxFaults
    /\ path \in Seq(Names) /\ until \in Nat
    /\ stale \subseteq Files /\ astray \subseteq Files /\ doubt \in BOOLEAN

\* An open file's buffer is the sector its position lies in: FAT_Read's early
\* read at a sector's end (fat.c:326), the count of sectors and clusters, the
\* early returns and FAT_OpenEntry agree with one another over any sequence of
\* calls.  Excepted are a file whose last read failed, one that followed a bad
\* table, and the root directory after FAT_Close left its buffer behind.
BufferHoldsPosition ==
    \A h \in Files :
        /\ fd[h].Opened /\ h \notin stale \cup astray
        /\ fd[h].Position < Extent(vol, Start(h))
        => fd[h].Buffer = FileSector(vol, Start(h), fd[h].Position \div SECTOR_SIZE)

\* The open handles are the clients' and the one the walk has reached, which
\* is nobody's: no path through FAT_Open, however it ends, leaks a handle,
\* and no two clients get the same.
HandlesAccountedFor ==
    LET walked == IF pc \in {"find", "found"} THEN {cur} \ {ROOT} ELSE {}
    IN  /\ {h \in Handles : fd[h].Opened} = (held \ {ROOT}) \cup walked
        /\ walked \cap held = {}

\* "don't read past the end of the file" (fat.c:310), for a file whose chain
\* can be followed.
NoReadPastEnd ==
    \A h \in Files : fd[h].Opened /\ h \notin astray =>
        fd[h].Position <= FileLength(vol, Start(h))

\* FAT_Read stops where the request or the file ends (fat.c:311-314): a short
\* count always has a failed read or a bad table behind it.
ReadsWhatIsThere ==
    [][pc = "read" /\ pc' = "idle" /\ ~doubt' => fd'[cur].Position = until]_vars

\* What a path names on the volume, whatever the driver does: in each directory
\* on the way the first entry with the name.  Nothing lies below a file that is
\* no directory (fat.c:492, 495).
Component(e, n) ==
    LET start == IF e.name = "" THEN ROOT ELSE e.first
        At(i) == EntryAt(vol, FileSector(vol, start, i \div SECTOR_SIZE),
                         i % SECTOR_SIZE)
        places == {i \in 0 .. FileLength(vol, start) - 1 : At(i).name = n}
    IN  IF ~e.dir \/ places = {} THEN NoEntry ELSE At(Min(places))

Resolve(components) ==
    FoldLeft(Component, [NoEntry EXCEPT !.dir = TRUE], components)

\* The path goes on behind a file that is no directory.
ThroughFile(components) ==
    \E gone \in Prefixes(components) \ {components} :
        Resolve(gone) # NoEntry /\ ~Resolve(gone).dir

\* FAT_Open finds what the path names and fails when it names nothing, and
\* never loses itself, when it starts with a free handle and the root
\* directory rewound and meets no failure, whatever was done before.  Excepted
\* is a path through a file, which the comments of fat.c:492 and 495 say is
\* refused: that test is never true (fat.c:493), and the file's data are searched
\* as if they were entries.  (To that test a slash behind the last component is
\* one more component; here a path is its components and no more.)
Resolved ==
    LET e == Resolve(path)
    IN  IF e = NoEntry THEN held' = held
        ELSE \E h \in Handles \ held :
                /\ held' = held \cup {h}
                /\ fd'[h].FirstCluster = e.first
                /\ fd'[h].IsDirectory = e.dir
                /\ fd'[h].Size = e.size
                /\ fd'[h].Position = 0

OpenResolves ==
    [][~doubt' /\ pc \in {"find", "found"} /\ pc' \notin {"find", "found"}
       => pc' = "idle" /\ (ThroughFile(path) \/ Resolved)]_vars

\* Every call comes to an end unless it runs into a failed read or a bad
\* table: the loops of FAT_Read and FAT_FindFile use up the file.
CallReturns ==
    pc \in {"find", "found", "read"} ~> pc \in {"idle", "undefined"} \/ doubt

\* "find directory entry in current directory" (fat.c:486): on a disk without
\* failures, and with no client reading the root directory, the walk reports
\* a name as not found only when the path names nothing.
NotFoundMeansAbsent ==
    [][pc = "find" /\ pc' = "idle" /\ faults = 0 /\ ROOT \notin held
       => Resolve(path) = NoEntry]_vars

\* "don't read past the end of the file" (fat.c:310) and "Mark end of file"
\* (fat.c:351), on a disk without failures, for every file but the root directory,
\* whose end that mark does not tell.
NeverPastEnd ==
    faults = 0 => \A h \in Handles : fd[h].Opened =>
        fd[h].Position <= FileLength(vol, Start(h))
=============================================================================
