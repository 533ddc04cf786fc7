----------------------------- MODULE DiskProofs -----------------------------
(***************************************************************************)
(* For every drive a BIOS can describe and every sector it has, the        *)
(* registers of a read mean that sector; and the driver implements, step   *)
(* by step, the device the file system relies on.                          *)
(***************************************************************************)
EXTENDS Disk, TLAPS

-----------------------------------------------------------------------------
(* Arithmetic                                                              *)

LEMMA Division ==
    ASSUME NEW n \in Nat, NEW s \in Nat \ {0}
    PROVE  /\ n \div s \in Nat /\ n % s \in 0 .. s - 1
           /\ n = (n \div s) * s + (n % s)
BY SMT

\* A quotient is below c when the dividend is below c times the divisor.
LEMMA QuotientBound ==
    ASSUME NEW n \in Nat, NEW s \in Nat \ {0}, NEW c \in Nat, n < c * s
    PROVE  n \div s < c
<1> DEFINE q == n \div s
<1>1. q \in Nat /\ n % s \in 0 .. s - 1 /\ n = q * s + (n % s)
  BY Division
<1> HIDE DEF q
<1>2. SUFFICES ASSUME q >= c PROVE FALSE
  BY <1>1 DEF q
<1>3. PICK k \in Nat : q = c + k
  <2>1. q - c \in Nat /\ q = c + (q - c)
    BY <1>1, <1>2
  <2> QED BY <2>1
<1>4. q * s = c * s + k * s /\ k * s \in Nat /\ c * s \in Nat
  BY <1>3
<1> QED BY <1>1, <1>4

\* Bytes put together and taken apart again.
LEMMA Packing ==
    ASSUME NEW c \in 0 .. 1023, NEW x \in 0 .. 63
    PROVE  /\ (c % 256) + 256 * (((((c \div 256) * 64) % 256) + x) \div 64) = c
           /\ ((((c \div 256) * 64) % 256) + x) % 64 = x
           /\ (c % 256) + 256 * (((c \div 256) * 64 + x) \div 64) = c
           /\ ((c \div 256) * 64 + x) % 64 = x
BY SMT

LEMMA FromZero ==
    ASSUME NEW n \in Nat, NEW m \in Nat, n <= m
    PROVE  n \in 0 .. m
BY SMT

\* The numbers of a geometry fit into 16 bits.
LEMMA FitsWord16 ==
    ASSUME NEW n \in 0 .. 1024
    PROVE  n \in Word16 /\ n % 65536 = n
<1>1. n \in Nat /\ n < 65536
  BY SMT
<1>2. PICK w \in Nat : w = 65535
  BY SMT
<1>3. n \in 0 .. w
  <2>1. n <= w
    BY <1>1, <1>2, SMT
  <2>2. n \in Nat
    BY SMT
  <2> QED BY <2>1, <2>2, FromZero, SMT
<1>4. Word16 = 0 .. w
  BY <1>2, SMT DEF Word16
<1>5. n \in Word16
  BY <1>3, <1>4, SMT
<1>6. n % 65536 = n
  BY <1>1, SMT
<1> QED BY <1>5, <1>6, SMT

-----------------------------------------------------------------------------
(* Addressing                                                              *)

\* DISK_Initialize reads the BIOS's registers as the BIOS meant them.
LEMMA GeometryRead ==
    ASSUME NEW d, Describable(d)
    PROVE  Geometry(Parameters(d)) =
              [cylinders |-> d.cylinders, sectors |-> d.sectors, heads |-> d.heads]
<1> DEFINE r == Parameters(d)
<1>1. PICK C \in 1 .. 1024, H \in 1 .. 256, S \in 1 .. 63 :
         C = d.cylinders /\ H = d.heads /\ S = d.sectors
  BY ZenonT(60) DEF Describable
<1>2. PICK c \in 0 .. 1023 : c = C - 1
  BY <1>1
<1>3. r.ch = c % 256 /\ r.cl = (c \div 256) * 64 + S /\ r.dh = H - 1
  BY <1>1, <1>2 DEF Parameters
<1>4. r.ch + 256 * (r.cl \div 64) = c /\ r.cl % 64 = S
  <2>1. S \in 0 .. 63
    BY <1>1
  <2> QED BY <1>2, <1>3, <2>1, Packing
<1>5. (c + 1) % 65536 = C /\ ((H - 1) + 1) % 65536 = H
  <2>1. c + 1 = C /\ (H - 1) + 1 = H
    BY <1>2
  <2>2. C \in 0 .. 1024 /\ H \in 0 .. 1024
    OBVIOUS
  <2>3. C % 65536 = C /\ H % 65536 = H
    BY <2>2, FitsWord16
  <2> QED BY <2>1, <2>3
<1>6. Geometry(r) = [cylinders |-> C, sectors |-> S, heads |-> H]
  BY <1>3, <1>4, <1>5 DEF Geometry
<1> QED BY <1>1, <1>6

\* The whole way of a sector's number to the drive and back.
THEOREM SectorRoundTrip ==
    ASSUME NEW d, Describable(d), NEW n \in Nat, n < Capacity(d)
    PROVE  Addressed(d, Registers(LBA2CHS(Geometry(Parameters(d)), n))) = n
<1>1. d.cylinders \in 1 .. 1024 /\ d.heads \in 1 .. 256 /\ d.sectors \in 1 .. 63
  BY DEF Describable
<1>2. PICK C \in 1 .. 1024 : C = d.cylinders
  BY <1>1
<1>3. PICK H \in 1 .. 256 : H = d.heads
  BY <1>1
<1>4. PICK S \in 1 .. 63 : S = d.sectors
  BY <1>1
<1> DEFINE q  == n \div S
           c  == q \div H
           h  == q % H
           x  == n % S
           cl == (((c \div 256) * 64) % 256) + (x + 1)
           r  == [ch |-> c % 256, cl |-> cl, dh |-> h]
<1>5. n < (C * H) * S
  BY <1>2, <1>3, <1>4 DEF Capacity
<1>6. /\ c \in 0 .. C - 1 /\ c \in 0 .. 1023
      /\ h \in 0 .. H - 1 /\ h \in 0 .. 255
      /\ x + 1 \in 1 .. S /\ x + 1 \in 1 .. 63
      /\ (c * H + h) * S + (x + 1) - 1 = n
  <2>1. S \in Nat \ {0} /\ H \in Nat \ {0} /\ C \in Nat
    OBVIOUS
  <2>2. q \in Nat /\ x \in 0 .. S - 1 /\ n = q * S + x
    BY <2>1, Division
  <2>3. c \in Nat /\ h \in 0 .. H - 1 /\ q = c * H + h
    <3>1. q \in Nat
      BY <2>2
    <3> HIDE DEF q
    <3> QED BY <2>1, <3>1, Division
  <2>4. q < C * H
    <3>1. PICK tracks \in Nat : tracks = C * H
      BY <2>1
    <3>2. n < tracks * S
      BY <1>5, <3>1
    <3>3. q < tracks
      BY <2>1, <3>2, QuotientBound
    <3> QED BY <3>1, <3>3
  <2>5. c < C
    <3>1. q \in Nat
      BY <2>2
    <3> HIDE DEF q
    <3> QED BY <2>1, <2>4, <3>1, QuotientBound
  <2>6. (c * H + h) * S + (x + 1) - 1 = n
    <3>1. q * S \in Nat
      BY <2>1, <2>2
    <3>2. (c * H + h) * S = q * S
      BY <2>3
    <3> QED BY <2>2, <3>1, <3>2
  <2>7. c \in 0 .. C - 1 /\ c \in 0 .. 1023 /\ h \in 0 .. 255
    BY <2>3, <2>5
  <2>8. x + 1 \in 1 .. S /\ x + 1 \in 1 .. 63
    BY <2>2
  <2> QED BY <2>3, <2>6, <2>7, <2>8
<1> HIDE DEF q, c, h, x
<1>7. LBA2CHS(Geometry(Parameters(d)), n) = [sector |-> x + 1, cylinder |-> c, head |-> h]
  <2>1. Geometry(Parameters(d)) = [cylinders |-> C, sectors |-> S, heads |-> H]
    BY <1>2, <1>3, <1>4, GeometryRead
  <2>2. (x + 1) % 65536 = x + 1 /\ c % 65536 = c /\ h % 65536 = h
    BY <1>6, SMTT(40)
  <2> QED BY <2>1, <2>2 DEF LBA2CHS, q, c, h, x
<1>8. Registers([sector |-> x + 1, cylinder |-> c, head |-> h]) = r
  <2>1. (x + 1) % 64 = x + 1 /\ h % 256 = h
    BY <1>6, SMTT(40)
  <2> QED BY <2>1 DEF Registers
<1>9. Addressed(d, r) = n
  <2>1. (c % 256) + 256 * (cl \div 64) = c /\ cl % 64 = x + 1
    <3>1. PICK k \in 0 .. 1023 : k = c
      BY <1>6
    <3>2. PICK y \in 0 .. 63 : y = x + 1
      <4>1. x + 1 \in 0 .. 63
        BY <1>6
      <4> QED BY <4>1
    <3>3. (k % 256) + 256 * (((((k \div 256) * 64) % 256) + y) \div 64) = k
      BY Packing
    <3>4. ((((k \div 256) * 64) % 256) + y) % 64 = y
      BY Packing
    <3> QED BY <3>1, <3>2, <3>3, <3>4
  <2>2. r.ch = c % 256 /\ r.dh = h /\ r.cl = cl
    OBVIOUS
  <2> HIDE DEF cl, r
  <2>3. r.ch + 256 * (r.cl \div 64) = c /\ r.cl % 64 = x + 1
    BY <2>1, <2>2
  <2>4. Addressed(d, r) = (c * H + h) * S + (x + 1) - 1
    <3>1. c < C /\ h < H
      BY <1>6
    <3> QED BY <1>2, <1>3, <1>4, <1>6, <2>2, <2>3, <3>1 DEF Addressed
  <2> QED BY <1>6, <2>4
<1> QED BY <1>7, <1>8, <1>9

\* Whatever is asked for, the drive delivers one of its sectors or nothing.
LEMMA AnswerIsASector ==
    ASSUME NEW d, Describable(d), NEW n \in Nat
    PROVE  Addressed(d, Registers(LBA2CHS(Geometry(Parameters(d)), n))) \in Nat \cup {NONE}
<1>1. PICK C \in 1 .. 1024 : C = d.cylinders
  BY DEF Describable
<1>2. PICK H \in 1 .. 256 : H = d.heads
  BY DEF Describable
<1>3. PICK S \in 1 .. 63 : S = d.sectors
  BY DEF Describable
<1> DEFINE chs == LBA2CHS(Geometry(Parameters(d)), n)
           r   == Registers(chs)
<1>4. chs.sector \in Nat /\ chs.cylinder \in Nat /\ chs.head \in Nat
  <2>1. Geometry(Parameters(d)) = [cylinders |-> C, sectors |-> S, heads |-> H]
    BY <1>1, <1>2, <1>3, GeometryRead
  <2>2. n \div S \in Nat /\ n % S \in Nat
    BY Division
  <2>3. (n \div S) \div H \in Nat /\ (n \div S) % H \in Nat
    BY <2>2, Division
  <2>4. /\ chs.sector = ((n % S) + 1) % 65536
        /\ chs.cylinder = ((n \div S) \div H) % 65536
        /\ chs.head = ((n \div S) % H) % 65536
    BY <2>1 DEF LBA2CHS
  <2> HIDE DEF chs
  <2> QED BY <2>2, <2>3, <2>4
<1> HIDE DEF chs
<1>5. r.ch \in Nat /\ r.cl \in Nat /\ r.dh \in Nat
  BY <1>4 DEF Registers
<1> HIDE DEF r
<1> DEFINE cylinder == r.ch + 256 * (r.cl \div 64)
           sector   == r.cl % 64
<1>6. cylinder \in Nat /\ sector \in Nat
  BY <1>5
<1> HIDE DEF cylinder, sector
<1>7. \/ Addressed(d, r) = NONE
      \/ /\ sector >= 1
         /\ Addressed(d, r) = (cylinder * H + r.dh) * S + sector - 1
  BY <1>2, <1>3, <1>6 DEF Addressed, cylinder, sector
<1>8. (cylinder * H + r.dh) * S \in Nat
  <2>1. cylinder * H \in Nat
    BY <1>6
  <2>2. cylinder * H + r.dh \in Nat
    BY <1>5, <2>1
  <2> QED BY <2>2
<1>9. Addressed(d, r) \in Nat \cup {NONE}
  BY <1>6, <1>7, <1>8
<1> QED BY <1>9 DEF r, chs

-----------------------------------------------------------------------------
(* The inductive invariant.  A mounted drive's geometry is the BIOS's and   *)
(* its offset the partition's; a running call knows what was asked and has  *)
(* counted at least as many failures as attempts; a finished one that       *)
(* delivered has delivered the sector its lba names.                        *)

Mounted ==
    pc \notin {"off", "halted"} =>
        /\ disk = Geometry(Parameters(drive))
        /\ partitionOffset = Start(drive)

Running == pc \in {"read", "reset"}

CallInProgress ==
    /\ Running => /\ asked \in Lbas
                  /\ lba = asked + Start(drive)
                  /\ got = NONE
    /\ ~Running => asked = NONE

FailuresCounted ==
    Running /\ lba < Capacity(drive) =>
        faults >= tries + (IF pc = "reset" \/ hung THEN 1 ELSE 0)

Delivered == got \in Nat /\ lba < Capacity(drive) => got = lba

IInv == TypeOK /\ Mounted /\ CallInProgress /\ FailuresCounted /\ Delivered

LEMMA DriveFacts ==
    ASSUME TypeOK
    PROVE  /\ Describable(drive) /\ Start(drive) \in Nat
           /\ Geometry(Parameters(drive))
                 \in [cylinders : Word16, sectors : SixBits, heads : Word16]
           /\ Capacity(drive) \in Nat
<1>1. Describable(drive)
  <2>1. drive \in Drives
    BY DEF TypeOK
  <2> QED BY <2>1, DriveAssumption
<1>2. Start(drive) \in Nat
  BY <1>1 DEF Describable, Start
<1>3. PICK C \in 1 .. 1024 : C = drive.cylinders
  BY <1>1 DEF Describable
<1>4. PICK H \in 1 .. 256 : H = drive.heads
  BY <1>1 DEF Describable
<1>5. PICK S \in 1 .. 63 : S = drive.sectors
  BY <1>1 DEF Describable
<1>6. Geometry(Parameters(drive)) = [cylinders |-> C, sectors |-> S, heads |-> H]
  BY <1>1, <1>3, <1>4, <1>5, GeometryRead
<1>7. Capacity(drive) \in Nat
  <2>1. C * H \in Nat
    OBVIOUS
  <2>2. (C * H) * S \in Nat
    BY <2>1
  <2> QED BY <1>3, <1>4, <1>5, <2>2 DEF Capacity
<1>8. Geometry(Parameters(drive))
         \in [cylinders : Word16, sectors : SixBits, heads : Word16]
  <2>1. C \in 0 .. 1024 /\ H \in 0 .. 1024
    OBVIOUS
  <2>2. C \in Word16 /\ H \in Word16
    BY <2>1, FitsWord16
  <2>3. S \in SixBits
    BY DEF SixBits
  <2> QED BY <1>6, <2>2, <2>3
<1> QED BY <1>1, <1>2, <1>7, <1>8

\* What the BIOS makes of a running call's registers.
LEMMA HereIsRight ==
    ASSUME IInv, Running
    PROVE  /\ Here \in Nat \cup {NONE}
           /\ lba < Capacity(drive) => Here = lba
<1>1. Describable(drive) /\ lba \in Nat /\ disk = Geometry(Parameters(drive))
  <2>1. TypeOK /\ Mounted
    BY DEF IInv
  <2>2. Describable(drive)
    BY <2>1, DriveFacts
  <2>3. lba \in Nat
    BY <2>1 DEF TypeOK
  <2>4. disk = Geometry(Parameters(drive))
    BY <2>1 DEF Mounted, Running
  <2> QED BY <2>2, <2>3, <2>4
<1> QED BY <1>1, AnswerIsASector, SectorRoundTrip DEF Here

-----------------------------------------------------------------------------
(* The invariant holds.                                                     *)

LEMMA InitInvariant == Init => IInv
<1> SUFFICES ASSUME Init PROVE IInv
  OBVIOUS
<1>1. TypeOK
  <2>1. [cylinders |-> 0, sectors |-> 0, heads |-> 0]
          \in [cylinders : Word16, sectors : SixBits, heads : Word16]
    BY DEF Word16, SixBits
  <2>2. hung \in BOOLEAN
    BY DEF Init
  <2> QED BY <2>1, <2>2 DEF Init, TypeOK, NONE
<1>2. Mounted /\ CallInProgress /\ FailuresCounted /\ Delivered
  BY DEF Init, Mounted, CallInProgress, FailuresCounted, Delivered, Running, NONE
<1> QED BY <1>1, <1>2 DEF IInv

LEMMA StepInvariant == IInv /\ [Next]_vars => IInv'
<1> SUFFICES ASSUME IInv, [Next]_vars PROVE IInv'
  OBVIOUS
<1>0. TypeOK /\ Mounted /\ CallInProgress /\ FailuresCounted /\ Delivered
  BY DEF IInv
<1>d. /\ Start(drive) \in Nat
      /\ Geometry(Parameters(drive)) \in [cylinders : Word16, sectors : SixBits, heads : Word16]
      /\ Capacity(drive) \in Nat
  BY <1>0, DriveFacts
<1>1. CASE Initialize
  <2>1. TypeOK'
    BY <1>0, <1>1, <1>d DEF TypeOK, Initialize, Start
  <2>2. Mounted'
    BY <1>1 DEF Initialize, Mounted, Start
  <2>3. CallInProgress' /\ FailuresCounted' /\ Delivered'
    BY <1>0, <1>1 DEF Initialize, CallInProgress, FailuresCounted, Delivered, Running
  <2> QED BY <2>1, <2>2, <2>3 DEF IInv
<1>2. CASE InitializeFails
  BY <1>0, <1>2 DEF InitializeFails, IInv, TypeOK, Mounted, CallInProgress,
                    FailuresCounted, Delivered, Running
<1>3. ASSUME NEW sector \in Lbas, ReadSectors(sector) PROVE IInv'
  <2>1. partitionOffset = Start(drive)
    BY <1>0, <1>3 DEF ReadSectors, Mounted
  <2>2. sector \in Nat
    BY LbaAssumption
  <2>3. TypeOK'
    BY <1>0, <1>3, <1>d, <2>1, <2>2 DEF TypeOK, ReadSectors
  <2>4. Mounted'
    BY <1>0, <1>3 DEF ReadSectors, Mounted
  <2>5. CallInProgress'
    BY <1>3, <2>1 DEF ReadSectors, CallInProgress, Running
  <2>6. FailuresCounted' /\ Delivered'
    BY <1>3 DEF ReadSectors, FailuresCounted, Delivered, Running, NONE
  <2> QED BY <2>3, <2>4, <2>5, <2>6 DEF IInv
<1>4. CASE ReadSucceeds
  <2>1. Here \in Nat /\ (lba < Capacity(drive) => Here = lba)
    BY <1>4, HereIsRight DEF ReadSucceeds, Running
  <2>2. TypeOK'
    BY <1>0, <1>4, <2>1 DEF TypeOK, ReadSucceeds
  <2>3. Mounted' /\ CallInProgress' /\ FailuresCounted'
    BY <1>0, <1>4 DEF ReadSucceeds, Mounted, CallInProgress, FailuresCounted, Running
  <2>4. Delivered'
    BY <1>4, <2>1 DEF ReadSucceeds, Delivered
  <2> QED BY <2>2, <2>3, <2>4 DEF IInv
<1>5. CASE ReadFails
  <2>1. lba < Capacity(drive) => Here # NONE
    <3>1. lba \in Nat /\ (lba < Capacity(drive) => Here = lba)
      BY <1>0, <1>5, HereIsRight DEF ReadFails, Running, TypeOK
    <3> QED BY <3>1 DEF NONE
  <2>2. TypeOK'
    <3>1. hung' \in BOOLEAN
      BY <1>0, <1>5 DEF TypeOK, ReadFails
    <3>2. faults' \in Nat /\ pc' = "reset" /\ tries' \in 0 .. 3 /\ tries' < 3
      BY <1>0, <1>5 DEF TypeOK, ReadFails
    <3> QED BY <1>0, <1>5, <3>1, <3>2 DEF TypeOK, ReadFails
  <2>3. Mounted' /\ CallInProgress' /\ Delivered'
    BY <1>0, <1>5 DEF ReadFails, Mounted, CallInProgress, Delivered, Running
  <2>4. FailuresCounted'
    BY <1>0, <1>5, <2>1 DEF ReadFails, FailuresCounted, Running, TypeOK
  <2> QED BY <2>2, <2>3, <2>4 DEF IInv
<1>6. CASE Reset
  <2>1. TypeOK'
    <3>1. hung' \in BOOLEAN
      BY <1>6 DEF Reset
    <3>2. faults' \in Nat /\ tries' \in 0 .. 3
      BY <1>0, <1>6 DEF TypeOK, Reset
    <3>3. pc' \in {"idle", "read"} /\ (pc' = "read" => tries' < 3)
      BY <1>0, <1>6 DEF TypeOK, Reset
    <3>4. asked' \in Lbas \cup {NONE} /\ got' \in Nat \cup {NONE, FAILED}
      BY <1>0, <1>6 DEF TypeOK, Reset
    <3> QED BY <1>0, <1>6, <3>1, <3>2, <3>3, <3>4 DEF TypeOK, Reset
  <2>2. Mounted' /\ Delivered'
    BY <1>0, <1>6 DEF Reset, Mounted, Delivered, FAILED
  <2>3. CallInProgress'
    BY <1>0, <1>6 DEF Reset, CallInProgress, Running
  <2>4. FailuresCounted'
    BY <1>0, <1>6 DEF Reset, FailuresCounted, Running, TypeOK
  <2> QED BY <2>1, <2>2, <2>3, <2>4 DEF IInv
<1>7. CASE Stopped \/ UNCHANGED vars
  BY <1>0, <1>7 DEF Stopped, vars, IInv, TypeOK, Mounted, CallInProgress,
                    FailuresCounted, Delivered, Running
<1> QED BY <1>1, <1>2, <1>3, <1>4, <1>5, <1>6, <1>7 DEF Next, Attempt

LEMMA Invariant == Spec => []IInv
<1> QED BY InitInvariant, StepInvariant, PTL DEF Spec

\* Every variable of the driver keeps its type, whatever the drives: the loop's
\* counter stays below three while a call runs (disk.c:39).
THEOREM TypeCorrect == Spec => []TypeOK
<1>1. IInv => TypeOK
  BY DEF IInv
<1> QED BY <1>1, Invariant, PTL

\* For every drive a BIOS can describe, and every attempt, the registers mean
\* the sector asked for (x86.asm:116-137, 209-218, disk.c:21-31).
THEOREM AlwaysAddressesTheSector == Spec => []AddressesTheSector
<1>1. IInv => AddressesTheSector
  BY HereIsRight DEF AddressesTheSector, Running, Here
<1> QED BY <1>1, Invariant, PTL

\* For every bound on failures, DISK_ReadSectors gives up on a sector the drive
\* has only after three failures (disk.c:39-47).
THEOREM TwoFailuresAlwaysHidden == Spec => TwoFailuresAreHidden
<1> DEFINE GivesUpLate ==
      got # FAILED /\ got' = FAILED /\ lba < Capacity(drive) => faults' >= 3
<1>1. IInv /\ [Next]_vars => [GivesUpLate]_vars
  <2> SUFFICES ASSUME IInv, Next, got # FAILED, got' = FAILED, lba < Capacity(drive)
               PROVE  faults' >= 3
    BY DEF GivesUpLate
  <2>1. TypeOK /\ FailuresCounted
    BY DEF IInv
  <2>2. CASE Reset
    BY <2>1, <2>2 DEF Reset, FailuresCounted, Running, TypeOK
  <2>3. CASE ReadSucceeds
    <3>1. Here \in Nat \cup {NONE}
      BY <2>3, HereIsRight DEF ReadSucceeds, Running
    <3> QED BY <2>3, <3>1 DEF ReadSucceeds, FAILED, NONE
  <2>4. CASE Initialize \/ InitializeFails \/ ReadFails \/ Stopped
    BY <2>4 DEF Initialize, InitializeFails, ReadFails, Stopped, vars
  <2>5. ASSUME NEW sector \in Lbas, ReadSectors(sector) PROVE FALSE
    BY <2>5 DEF ReadSectors, FAILED, NONE
  <2> QED BY <2>2, <2>3, <2>4, <2>5 DEF Next, Attempt
<1> QED BY <1>1, Invariant, PTL DEF Spec, TwoFailuresAreHidden

-----------------------------------------------------------------------------
(* The refinement, step by step.                                            *)

\* Every step of the driver is a step of the device, or changes nothing the
\* file system sees; the safety part of ImplementsDevice.
THEOREM ImplementsDeviceSteps == Spec => Device!Init /\ [][Device!Next]_(Device!vars)
<1>1. Init => Device!Init
  <2> SUFFICES ASSUME Init PROVE Device!Init
    OBVIOUS
  <2>1. Answered = NONE
    BY DEF Init, Answered, NONE, FAILED
  <2> QED BY <2>1 DEF Init, Device!Init, Present
<1>2. IInv /\ IInv' /\ [Next]_vars => [Device!Next]_(Device!vars)
  <2> SUFFICES ASSUME IInv, IInv', Next
               PROVE  Device!Next \/ UNCHANGED Device!vars
    BY DEF vars, Device!vars, Present, Answered
  <2>0. TypeOK /\ CallInProgress /\ Start(drive) \in Nat /\ Capacity(drive) \in Nat
    BY DriveFacts DEF IInv
  <2>1. ASSUME UNCHANGED drive PROVE UNCHANGED Present
    BY <2>1 DEF Present
  <2>2. CASE Initialize \/ InitializeFails \/ ReadFails \/ Stopped
    <3>1. UNCHANGED <<drive, lba, asked, got>>
      BY <2>2 DEF Initialize, InitializeFails, ReadFails, Stopped, vars
    <3> QED BY <2>1, <3>1 DEF Device!vars, Answered
  <2>3. ASSUME NEW sector \in Lbas, ReadSectors(sector) PROVE Device!Next
    <3>1. asked = NONE
      BY <2>0, <2>3 DEF ReadSectors, CallInProgress, Running
    <3>2. Answered' = NONE
      BY <2>3 DEF ReadSectors, Answered, NONE, FAILED
    <3>3. Device!Ask(sector)
      BY <2>1, <2>3, <3>1, <3>2 DEF ReadSectors, Device!Ask
    <3> QED BY <3>3 DEF Device!Next
  <2>4. CASE ReadSucceeds
    <3>1. Here \in Nat /\ (lba < Capacity(drive) => Here = lba)
      BY <2>4, HereIsRight DEF ReadSucceeds, Running
    <3>2. asked \in Lbas /\ asked \in Nat /\ lba = asked + Start(drive)
      BY <2>0, <2>4, LbaAssumption DEF ReadSucceeds, CallInProgress, Running
    <3>3. got' = Here /\ UNCHANGED <<drive, lba>> /\ asked' = NONE
      BY <2>4 DEF ReadSucceeds
    <3>4. Answered' = IF asked \in Present THEN asked ELSE ANY
      <4>1. asked \in Present <=> lba < Capacity(drive)
        BY <3>2 DEF Present
      <4>2. got' \notin {NONE, FAILED} /\ got' \in Nat
        BY <3>1, <3>3 DEF NONE, FAILED
      <4>3. Answered' = IF lba < Capacity(drive) THEN got' - Start(drive) ELSE ANY
        BY <3>3, <4>2 DEF Answered, Start, Capacity
      <4>4. lba < Capacity(drive) => got' - Start(drive) = asked
        BY <2>0, <3>1, <3>2, <3>3
      <4> QED BY <4>1, <4>3, <4>4
    <3>5. asked # NONE
      BY <3>2 DEF NONE
    <3>6. Device!Answer
      BY <2>1, <3>3, <3>4, <3>5 DEF Device!Answer
    <3> QED BY <3>6 DEF Device!Next
  <2>5. CASE Reset
    <3>1. CASE tries + 1 < 3
      <4>1. UNCHANGED <<drive, lba, asked, got>>
        BY <2>5, <3>1 DEF Reset
      <4> QED BY <2>1, <4>1 DEF Device!vars, Answered
    <3>2. CASE ~(tries + 1 < 3)
      <4>1. got' = FAILED /\ asked' = NONE /\ UNCHANGED drive
        BY <2>5, <3>2 DEF Reset
      <4>2. asked \in Lbas /\ asked \in Nat
        BY <2>0, <2>5, LbaAssumption DEF Reset, CallInProgress, Running
      <4>3. asked # NONE
        BY <4>2 DEF NONE
      <4>4. Answered' = FAILED
        BY <4>1 DEF Answered, NONE, FAILED
      <4>5. Device!Answer
        BY <2>1, <4>1, <4>3, <4>4 DEF Device!Answer
      <4> QED BY <4>5 DEF Device!Next
    <3> QED BY <3>1, <3>2
  <2> QED BY <2>2, <2>3, <2>4, <2>5 DEF Next, Attempt
<1> QED BY <1>1, <1>2, Invariant, PTL DEF Spec
=============================================================================
