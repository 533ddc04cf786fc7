------------------------------ MODULE BootProofs ------------------------------
(***************************************************************************)
(* Theorems on ElfLoader, KeyboardController and Boot, of which they are a *)
(* part.                                                                   *)
(*                                                                         *)
(* For every kernel file and any sizes, a kernel that is started lies in   *)
(* memory as its file says.  The loader reads a file that has no seek, so  *)
(* that the right bytes arrive rests on a count of those that are skipped. *)
(* The invariant says how that count, the position in the file and the     *)
(* target move together through a segment, and that segments already copied *)
(* stay as they are.                                                       *)
(*                                                                         *)
(* EnableA20 opens address line 20 and leaves the rest of the control output *)
(* port alone.  PortKept is not inductive: the port at the end is what was *)
(* read from it five lines before.  A20Protocol says what may be under way *)
(* at each line, A20ReadBack what the port and the byte that was read have *)
(* to do with the port as it was.  Every step of the boot is a step of the *)
(* keyboard's part or leaves it alone.                                     *)
(***************************************************************************)
EXTENDS Boot, SequenceTheorems, TLAPS

-----------------------------------------------------------------------------
(* The loader                                                              *)

\* TypeOK but for the failures, which other parts of the boot count as well.
Own ==
    /\ image \in Images
    /\ pc \in {"start", "header", "seek", "table", "segment", "skip", "copy",
               "loaded", "failed", "undefined"}
    /\ memory \in [Memory -> {OLD, ZERO, GARBAGE} \cup Nat]
    /\ position \in 0 .. image.size
    /\ buffer \in {"good", "stale", "lost"}
    /\ i \in 1 .. Len(image.segments) + 1
    /\ pc \in {"skip", "copy"} => i <= Len(image.segments)
    /\ left \in Nat /\ target \in Nat
    /\ silent \in BOOLEAN

\* Up to the segment, elf.c:58-73.
Skipping ==
    pc = "skip" =>
        /\ Segment.load /\ target = Segment.vaddr
        /\ position + left = Segment.offset
        /\ ~silent => buffer = "good"
        /\ Segment.memsz < NUM => \A k \in 0 .. Segment.memsz - 1 :
                                      memory[Segment.vaddr + k] = ZERO

\* Within it, elf.c:76-88: all but the "left" units have been copied.
Copying ==
    pc = "copy" =>
        /\ Segment.load
        /\ left <= Segment.filesz /\ target + left = Segment.vaddr + Segment.filesz
        /\ position + left = Segment.offset + Segment.filesz
        /\ ~silent => buffer = "good"
        /\ ~silent /\ Segment.memsz < NUM =>
              \A k \in 0 .. Segment.memsz - 1 :
                  memory[Segment.vaddr + k] =
                      IF k < Segment.filesz - left THEN Segment.offset + k ELSE ZERO

\* The segments that are behind.
Behind(s) ==
    /\ s.offset + s.filesz <= image.size
    /\ ~silent /\ s.memsz < NUM => InPlace(s)

Done == \A j \in Loads : j < i => Behind(image.segments[j])

AtEnd == pc = "loaded" => i = Len(image.segments) + 1

IInv == Own /\ Skipping /\ Copying /\ Done /\ AtEnd /\ OnlySegmentsTouched
-----------------------------------------------------------------------------
(* Files and reads                                                          *)

LEMMA MinOfTwo ==
    ASSUME NEW a \in Int, NEW b \in Int
    PROVE  Min({a, b}) = IF a <= b THEN a ELSE b
PROOF
  BY DEF Min

LEMMA ImageFacts ==
    ASSUME image \in Images
    PROVE  /\ image.size \in Nat /\ image.size < WORD /\ image.phoff \in Nat
           /\ image.segments \in Seq(Segments) /\ Len(image.segments) \in Nat
           /\ DOMAIN image.segments = 1 .. Len(image.segments)
PROOF
  <1>1. ImageOk(image)
    BY ImageAssumption
  <1>2. image.segments \in Seq(Segments)
    BY <1>1 DEF ImageOk
  <1>3. image.size \in Nat /\ image.size < WORD /\ image.phoff \in Nat
    BY <1>1, SizeAssumption DEF ImageOk
  <1> QED
    BY <1>2, <1>3

LEMMA SegmentFacts ==
    ASSUME image \in Images, NEW j \in 1 .. Len(image.segments),
           NEW s, s = image.segments[j]
    PROVE  /\ s.offset \in Nat /\ s.vaddr \in Nat /\ s.filesz \in Nat /\ s.memsz \in Nat
           /\ s.filesz <= s.memsz /\ Addresses(s) \subseteq Memory
PROOF
  <1>1. ImageOk(image)
    BY ImageAssumption
  <1>2. j \in DOMAIN image.segments /\ s \in Segments
    BY ImageFacts
  <1>3. SegmentOk(s)
    BY <1>1, <1>2 DEF ImageOk
  <1> QED
    BY <1>2, <1>3 DEF SegmentOk, Segments

LEMMA SegmentsApart ==
    ASSUME image \in Images, NEW j \in Loads, NEW k \in Loads, j # k, NEW a
    PROVE  ~(a \in Addresses(image.segments[j]) /\ a \in Addresses(image.segments[k]))
PROOF
  <1>1. ImageOk(image) /\ j \in DOMAIN image.segments /\ k \in DOMAIN image.segments
        /\ image.segments[j].load /\ image.segments[k].load
    BY ImageAssumption DEF Loads
  <1>2. Addresses(image.segments[j]) \cap Addresses(image.segments[k]) = {}
    BY <1>1, Zenon DEF ImageOk
  <1> QED
    BY <1>2

\* A read never goes past the file's end, answers no more than was asked for,
\* and brings what was asked for unless it is silent about a failure.
LEMMA AnswerFacts ==
    ASSUME Own, NEW asks \in Nat, NEW r \in Answers(asks)
    PROVE  /\ r.n \in 0 .. asks /\ position + r.n \in 0 .. image.size
           /\ r.buffer \in {"good", "stale", "lost"}
           /\ r.failed \in BOOLEAN /\ r.reported \in BOOLEAN
           /\ buffer = "good" /\ r.n = asks /\ r.reported => r.buffer = "good"
PROOF
  <1> DEFINE all  == Clip(asks)
             ends == {b \in position + 1 .. position + all : b % SECTOR_SIZE = 0}
  <1>1. image.size \in Nat /\ position \in 0 .. image.size
    BY ImageFacts DEF Own
  <1>2. all \in Nat /\ all <= asks /\ position + all <= image.size
    BY <1>1, MinOfTwo DEF Clip
  <1>3. \A b \in ends : b - position \in 0 .. asks /\ b \in 0 .. image.size
                        /\ position + (b - position) = b
    BY <1>1, <1>2
  <1>4. \/ r = [n |-> all, failed |-> FALSE, reported |-> TRUE,
                buffer |-> IF ends # {} /\ buffer = "stale" THEN "good" ELSE buffer]
        \/ \E b \in ends : buffer = "lost" /\
              r = [n |-> b - position, failed |-> FALSE, reported |-> TRUE, buffer |-> "lost"]
        \/ \E b \in ends : r = [n |-> b - position, buffer |-> "stale", failed |-> TRUE,
                                reported |-> b - position < asks]
        \/ \E n \in {b - position : b \in ends} \cup {all} :
              r = [n |-> n, buffer |-> "lost", failed |-> TRUE, reported |-> n < asks]
    BY DEF Answers
  <1> HIDE DEF all, ends
  <1>5. CASE r = [n |-> all, failed |-> FALSE, reported |-> TRUE,
                  buffer |-> IF ends # {} /\ buffer = "stale" THEN "good" ELSE buffer]
    BY <1>1, <1>2, <1>5 DEF Own
  <1>6. ASSUME NEW b \in ends, buffer = "lost",
               r = [n |-> b - position, failed |-> FALSE, reported |-> TRUE,
                    buffer |-> "lost"]
        PROVE  /\ r.n \in 0 .. asks /\ position + r.n \in 0 .. image.size
               /\ r.buffer \in {"good", "stale", "lost"}
               /\ r.failed \in BOOLEAN /\ r.reported \in BOOLEAN
               /\ buffer = "good" /\ r.n = asks /\ r.reported => r.buffer = "good"
    BY <1>3, <1>6
  <1>7. ASSUME NEW n \in 0 .. asks, position + n \in 0 .. image.size,
               NEW after \in {"stale", "lost"},
               r = [n |-> n, buffer |-> after, failed |-> TRUE, reported |-> n < asks]
        PROVE  /\ r.n \in 0 .. asks /\ position + r.n \in 0 .. image.size
               /\ r.buffer \in {"good", "stale", "lost"}
               /\ r.failed \in BOOLEAN /\ r.reported \in BOOLEAN
               /\ buffer = "good" /\ r.n = asks /\ r.reported => r.buffer = "good"
    <2>1. r.n = n /\ r.buffer = after /\ r.failed = TRUE
      BY <1>7
    <2>2. r.reported = (n < asks)
      BY <1>7, Zenon
    <2>3. r.reported \in BOOLEAN
      <3>1. (n < asks) \in BOOLEAN
        OBVIOUS
      <3> QED
        BY <2>2, <3>1, Zenon
    <2>4. r.reported => n # asks
      <3>1. n = asks => (n < asks) = FALSE
        OBVIOUS
      <3> QED
        BY <2>2, <3>1, Zenon
    <2> QED
      BY <1>7, <2>1, <2>3, <2>4
  <1>8. \A n \in {b - position : b \in ends} \cup {all} :
            n \in 0 .. asks /\ position + n \in 0 .. image.size
    BY <1>1, <1>2, <1>3
  <1> QED
    BY <1>3, <1>4, <1>5, <1>6, <1>7, <1>8

\* From a good buffer, units arrive in the file's order.
LEMMA ArrivedFacts ==
    ASSUME Own, NEW r, NEW k \in Nat
    PROVE  /\ Arrived(k, r) \in {GARBAGE} \cup Nat
           /\ buffer = "good" /\ r.buffer = "good" => Arrived(k, r) = position + k
PROOF
  <1>1. position \in Nat
    BY ImageFacts DEF Own
  <1> QED
    BY <1>1 DEF Arrived

\* The variables a read changes.
LEMMA ReadKeepsTypes ==
    ASSUME Own, NEW asks \in Nat, NEW r \in Answers(asks), ReadFile(r),
           UNCHANGED image
    PROVE  /\ position' \in 0 .. image'.size /\ position' = position + r.n
           /\ buffer' \in {"good", "stale", "lost"}
           /\ silent' \in BOOLEAN /\ (silent => silent')
           /\ (~silent' /\ r.n = asks /\ buffer = "good") => buffer' = "good"
PROOF
  <1>1. /\ r.n \in 0 .. asks /\ position + r.n \in 0 .. image.size
        /\ r.buffer \in {"good", "stale", "lost"}
        /\ buffer = "good" /\ r.n = asks /\ r.reported => r.buffer = "good"
    BY AnswerFacts
  <1>2. position' = position + r.n /\ buffer' = r.buffer
    BY DEF ReadFile
  <1>3. silent' = (silent \/ ~r.reported)
    BY DEF ReadFile
  <1>4. silent' \in BOOLEAN
    BY <1>3, Zenon
  <1>5. (silent => silent') /\ (~silent' => r.reported)
    BY <1>3, Zenon
  <1> QED
    BY <1>1, <1>2, <1>4, <1>5
-----------------------------------------------------------------------------
(* The steps                                                                *)

\* The loader has not started on a segment, or is not at one.
Elsewhere == pc \notin {"skip", "copy", "loaded"}

\* A step that changes neither memory nor the segment at hand, and goes
\* elsewhere.
LEMMA QuietStep ==
    ASSUME IInv, Own', Elsewhere', i' = i,
           silent => silent',
           UNCHANGED <<image, memory>>
    PROVE  IInv'
PROOF
  <1>1. Skipping' /\ Copying' /\ AtEnd'
    BY DEF Skipping, Copying, AtEnd, Elsewhere
  <1>2. \A s : Behind(s) => Behind(s)'
    BY DEF Behind, InPlace
  <1>3. Done'
    <2>1. Loads' = Loads
      BY DEF Loads
    <2> QED
      BY <1>2, <2>1 DEF IInv, Done
  <1>4. OnlySegmentsTouched'
    BY DEF IInv, OnlySegmentsTouched, Loads, Addresses
  <1> QED
    BY <1>1, <1>3, <1>4 DEF IInv

LEMMA OpenTypes ==
    ASSUME Own, NEW then, OpenFile(then), UNCHANGED image
    PROVE  /\ pc' \in {then, "undefined"}
           /\ pc' = then /\ then # "undefined" => position' = 0 /\ buffer' = "good"
           /\ position' \in 0 .. image'.size /\ buffer' \in {"good", "stale", "lost"}
PROOF
  <1>1. image.size \in Nat
    BY ImageFacts DEF Own
  <1> QED
    BY <1>1 DEF OpenFile, Own

LEMMA StartStep ==
    ASSUME IInv, Start
    PROVE  IInv'
PROOF
  <1>1. /\ OpenFile("header") /\ UNCHANGED <<image, memory, i, left, target, silent>>
    BY DEF Start
  <1>2. /\ pc' \in {"header", "undefined"}
        /\ position' \in 0 .. image'.size /\ buffer' \in {"good", "stale", "lost"}
    BY <1>1, OpenTypes DEF IInv
  <1>3. Own' /\ Elsewhere'
    BY <1>1, <1>2 DEF IInv, Own, Elsewhere
  <1> QED
    BY <1>1, <1>3, QuietStep

LEMMA HeaderStep ==
    ASSUME IInv, ReadHeader \/ SeekTable \/ ReadTable
    PROVE  IInv'
PROOF
  <1>1. /\ \E asks \in Nat : \E r \in Answers(asks) : ReadFile(r)
        /\ pc' \in {"seek", "failed", "table", "undefined", "segment"}
        /\ UNCHANGED <<image, memory, i, left, target>>
    <2>1. HEADER \in Nat /\ SizeAssumption
      BY SizeAssumption
    <2>2. CASE ReadHeader
      BY <2>1, <2>2 DEF ReadHeader
    <2>3. CASE SeekTable
      <3>1. (image.phoff - position) % WORD \in Nat
        <4>1. image.phoff \in Nat /\ position \in Nat
          BY ImageFacts DEF IInv, Own
        <4> QED
          BY <4>1, SizeAssumption
      <3> QED
        BY <2>3, <3>1 DEF SeekTable
    <2>4. CASE ReadTable
      <3>1. ENTRY * Len(image.segments) \in Nat
        <4>1. Len(image.segments) \in Nat /\ ENTRY \in Nat
          BY SizeAssumption, ImageFacts DEF IInv, Own
        <4> QED
          BY <4>1
      <3> QED
        BY <2>4, <3>1 DEF ReadTable
    <2> QED
      BY <2>2, <2>3, <2>4
  <1>2. PICK asks \in Nat : \E r \in Answers(asks) : ReadFile(r)
    BY <1>1
  <1>3. PICK r \in Answers(asks) : ReadFile(r)
    BY <1>2
  <1>4. /\ position' \in 0 .. image'.size /\ buffer' \in {"good", "stale", "lost"}
        /\ silent' \in BOOLEAN /\ (silent => silent')
    BY <1>1, <1>3, ReadKeepsTypes DEF IInv
  <1>5. Own' /\ Elsewhere'
    BY <1>1, <1>4 DEF IInv, Own, Elsewhere
  <1> QED
    BY <1>1, <1>4, <1>5, QuietStep

\* A segment that is not loaded, or the table's end.
LEMMA NextSegmentStep ==
    ASSUME IInv, NextSegment
    PROVE  IInv'
PROOF
  <1>1. /\ pc = "segment"
        /\ UNCHANGED <<image, memory, position, buffer, left, target, silent>>
        /\ \/ i > Len(image.segments) /\ pc' = "loaded" /\ i' = i
           \/ i <= Len(image.segments) /\ ~Segment.load /\ i' = i + 1 /\ pc' = pc
    <2>1. i \in Nat /\ Len(image.segments) \in Nat
      BY ImageFacts DEF IInv, Own
    <2> QED
      BY <2>1 DEF NextSegment
  <1>2. i \in 1 .. Len(image.segments) + 1 /\ Len(image.segments) \in Nat
    BY ImageFacts DEF IInv, Own
  <1>3. Own'
    BY <1>1, <1>2 DEF IInv, Own
  <1>4. Skipping' /\ Copying' /\ AtEnd'
    BY <1>1, <1>2 DEF Skipping, Copying, AtEnd
  <1>5. Done'
    <2>1. Loads' = Loads /\ \A s : Behind(s) => Behind(s)'
      BY <1>1 DEF Loads, Behind, InPlace
    <2>2. \A j \in Loads : j < i' => j < i
      <3>1. \A j \in Loads : j \in Nat /\ image.segments[j].load
        BY ImageFacts DEF Loads, IInv, Own
      <3> QED
        BY <1>1, <1>2, <3>1 DEF Segment
    <2> QED
      BY <1>1, <2>1, <2>2 DEF IInv, Done
  <1>6. OnlySegmentsTouched'
    BY <1>1 DEF IInv, OnlySegmentsTouched, Loads, Addresses
  <1> QED
    BY <1>3, <1>4, <1>5, <1>6 DEF IInv

\* What is written into segment i stays within it, and leaves the others be.
Within ==
    /\ pc \in {"segment", "copy"} /\ i \in Loads /\ UNCHANGED <<image, i>>
    /\ memory' \in [Memory -> {OLD, ZERO, GARBAGE} \cup Nat]
    /\ \A a \in Memory : a \in Addresses(Segment) \/ memory'[a] = memory[a]

LEMMA WithinStep ==
    ASSUME IInv, Within, silent => silent'
    PROVE  Done' /\ OnlySegmentsTouched'
PROOF
  <1>1. image \in Images /\ image' = image /\ i' = i /\ Loads' = Loads
    BY DEF IInv, Own, Within, Loads
  <1>2. OnlySegmentsTouched'
    <2>1. Segment = image.segments[i] /\ i \in Loads
      BY DEF Segment, Within
    <2> QED
      BY <1>1, <2>1 DEF IInv, OnlySegmentsTouched, Within, Addresses
  <1>3. ASSUME NEW j \in Loads, j < i
        PROVE  Behind(image.segments[j])'
    <2> DEFINE s == image.segments[j]
    <2>1. Behind(s) /\ j # i /\ i \in Loads /\ j \in 1 .. Len(image.segments)
      BY <1>3, ImageFacts DEF IInv, Own, Done, Within, Loads
    <2>2. /\ s.offset \in Nat /\ s.vaddr \in Nat /\ s.filesz \in Nat /\ s.memsz \in Nat
          /\ s.filesz <= s.memsz /\ Addresses(s) \subseteq Memory
      BY <1>1, <2>1, SegmentFacts
    <2>3. ASSUME NEW k \in 0 .. s.memsz - 1
          PROVE  memory'[s.vaddr + k] = memory[s.vaddr + k]
      <3>1. s.vaddr + k \in Addresses(s)
        BY <2>2 DEF Addresses
      <3>2. s.vaddr + k \notin Addresses(Segment)
        BY <1>1, <2>1, <3>1, SegmentsApart DEF Segment
      <3> QED
        BY <2>2, <3>1, <3>2 DEF Within
    <2>4. InPlace(s) => InPlace(s)'
      <3>1. \A k \in 0 .. s.filesz - 1 : k \in 0 .. s.memsz - 1
        BY <2>2
      <3>2. \A k \in s.filesz .. s.memsz - 1 : k \in 0 .. s.memsz - 1
        BY <2>2
      <3> QED
        BY <1>1, <2>3, <3>1, <3>2 DEF InPlace
    <2> QED
      BY <1>1, <2>1, <2>4 DEF Behind
  <1>4. Done'
    BY <1>1, <1>3 DEF Done
  <1> QED
    BY <1>2, <1>4

\* The remainder by which memset and memcpy count.
LEMMA Counted ==
    ASSUME NEW n \in Nat
    PROVE  n % NUM \in 0 .. n /\ (n < NUM => n % NUM = n)
PROOF
  BY SizeAssumption

LEMMA ClearStep ==
    ASSUME IInv, Clear
    PROVE  IInv'
PROOF
  <1> DEFINE s == Segment
  <1>1. /\ pc = "segment" /\ i <= Len(image.segments) /\ Segment.load
        /\ memory' = Cleared(s.vaddr, s.memsz) /\ OpenFile("skip")
        /\ left' = s.offset /\ target' = s.vaddr
        /\ UNCHANGED <<image, i, silent>>
    BY DEF Clear
  <1>2. image \in Images /\ i \in 1 .. Len(image.segments) /\ s = image.segments[i]
        /\ i \in Loads
    BY <1>1, ImageFacts DEF IInv, Own, Segment, Loads
  <1>3. /\ s.offset \in Nat /\ s.vaddr \in Nat /\ s.filesz \in Nat /\ s.memsz \in Nat
        /\ s.filesz <= s.memsz /\ Addresses(s) \subseteq Memory
    BY <1>2, SegmentFacts
  <1>4. s.memsz % NUM \in 0 .. s.memsz /\ (s.memsz < NUM => s.memsz % NUM = s.memsz)
    BY <1>3, Counted
  <1>5. /\ pc' \in {"skip", "undefined"}
        /\ pc' = "skip" => position' = 0 /\ buffer' = "good"
        /\ position' \in 0 .. image'.size /\ buffer' \in {"good", "stale", "lost"}
    BY <1>1, OpenTypes DEF IInv
  <1>6. memory' \in [Memory -> {OLD, ZERO, GARBAGE} \cup Nat]
    BY <1>1 DEF Cleared, IInv, Own
  <1>7. \A a \in Memory : a \in Addresses(s) \/ memory'[a] = memory[a]
    BY <1>1, <1>3, <1>4 DEF Cleared, Addresses
  <1>8. Done' /\ OnlySegmentsTouched'
    <2>1. Within
      BY <1>1, <1>2, <1>6, <1>7 DEF Within
    <2> QED
      BY <1>1, <2>1, WithinStep
  <1>9. Own'
    BY <1>1, <1>2, <1>3, <1>5, <1>6 DEF IInv, Own
  <1>10. Skipping'
    <2> SUFFICES ASSUME pc' = "skip"
                 PROVE  /\ Segment'.load /\ target' = Segment'.vaddr
                        /\ position' + left' = Segment'.offset
                        /\ ~silent' => buffer' = "good"
                        /\ Segment'.memsz < NUM => \A k \in 0 .. Segment'.memsz - 1 :
                                                   memory'[Segment'.vaddr + k] = ZERO
      BY DEF Skipping
    <2>1. Segment' = s
      BY <1>1 DEF Segment
    <2>2. s.memsz < NUM => \A k \in 0 .. s.memsz - 1 : memory'[s.vaddr + k] = ZERO
      <3> SUFFICES ASSUME s.memsz < NUM, NEW k \in 0 .. s.memsz - 1
                   PROVE  memory'[s.vaddr + k] = ZERO
        OBVIOUS
      <3>1. /\ s.vaddr + k \in s.vaddr .. s.vaddr + (s.memsz % NUM) - 1
            /\ s.vaddr + k \in Memory
        BY <1>3, <1>4 DEF Addresses
      <3> QED
        BY <1>1, <3>1 DEF Cleared
    <2>3. position' + left' = s.offset
      BY <1>1, <1>3, <1>5
    <2> QED
      BY <1>1, <1>5, <2>1, <2>2, <2>3
  <1>11. Copying' /\ AtEnd'
    BY <1>5 DEF Copying, AtEnd
  <1> QED
    BY <1>8, <1>9, <1>10, <1>11 DEF IInv

\* A piece of what lies before the segment.
LEMMA SkipStep ==
    ASSUME IInv, Skip
    PROVE  IInv'
PROOF
  <1> DEFINE asks == Min({left, LOAD_SIZE})
  <1>1. pc = "skip" /\ left > 0 /\ left \in Nat /\ LOAD_SIZE \in Nat \ {0}
    BY SizeAssumption DEF Skip, IInv, Own
  <1>2. asks \in Nat /\ asks <= left
    BY <1>1, MinOfTwo
  <1>3. PICK r \in Answers(asks) :
           /\ ReadFile(r)
           /\ IF r.n # asks THEN pc' = "failed" /\ UNCHANGED left
              ELSE left' = left - r.n /\ UNCHANGED pc
           /\ UNCHANGED <<image, memory, i, target>>
    BY DEF Skip
  <1> HIDE DEF asks
  <1>4. /\ position' \in 0 .. image'.size /\ position' = position + r.n
        /\ buffer' \in {"good", "stale", "lost"}
        /\ silent' \in BOOLEAN /\ (silent => silent')
        /\ (~silent' /\ r.n = asks /\ buffer = "good") => buffer' = "good"
    BY <1>2, <1>3, ReadKeepsTypes DEF IInv
  <1>5. CASE r.n # asks
    <2>1. pc' = "failed" /\ UNCHANGED left
      BY <1>3, <1>5
    <2>2. Own' /\ Elsewhere'
      BY <1>3, <1>4, <2>1 DEF IInv, Own, Elsewhere
    <2> QED
      BY <1>3, <1>4, <2>2, QuietStep
  <1>6. CASE r.n = asks
    <2>1. pc' = "skip" /\ left' = left - r.n /\ left' \in Nat /\ r.n \in Nat
      BY <1>1, <1>2, <1>3, <1>6
    <2>2. Own'
      BY <1>1, <1>3, <1>4, <2>1 DEF IInv, Own
    <2>3. Skipping'
      <3>1. /\ Segment.load /\ target = Segment.vaddr
            /\ position + left = Segment.offset
            /\ ~silent => buffer = "good"
            /\ Segment.memsz < NUM => \A k \in 0 .. Segment.memsz - 1 :
                                          memory[Segment.vaddr + k] = ZERO
        BY <1>1 DEF IInv, Skipping
      <3>2. Segment' = Segment /\ target' = target /\ memory' = memory
        BY <1>3 DEF Segment
      <3>3. position' + left' = position + left
        <4>1. position \in Nat
          BY ImageFacts DEF IInv, Own
        <4> QED
          BY <1>1, <1>4, <2>1, <4>1
      <3>4. ~silent' => buffer' = "good"
        BY <1>4, <1>6, <3>1
      <3> QED
        BY <3>1, <3>2, <3>3, <3>4 DEF Skipping
    <2>4. Copying' /\ AtEnd'
      BY <2>1 DEF Copying, AtEnd
    <2>5. Done' /\ OnlySegmentsTouched'
      BY <1>3, <1>4 DEF IInv, Done, Behind, InPlace, Loads, OnlySegmentsTouched, Addresses
    <2> QED
      BY <2>2, <2>3, <2>4, <2>5 DEF IInv
  <1> QED
    BY <1>5, <1>6

LEMMA SkippedStep ==
    ASSUME IInv, Skipped
    PROVE  IInv'
PROOF
  <1> DEFINE s == Segment
  <1>1. /\ pc = "skip" /\ left = 0 /\ pc' = "copy" /\ left' = s.filesz
        /\ UNCHANGED <<image, memory, position, buffer, i, target, silent>>
    BY DEF Skipped
  <1>2. image \in Images /\ i \in 1 .. Len(image.segments) /\ s = image.segments[i]
    BY <1>1, ImageFacts DEF IInv, Own, Segment
  <1>3. /\ s.offset \in Nat /\ s.vaddr \in Nat /\ s.filesz \in Nat /\ s.memsz \in Nat
        /\ s.filesz <= s.memsz
    BY <1>2, SegmentFacts
  <1>4. /\ s.load /\ target = s.vaddr /\ position + left = s.offset
        /\ ~silent => buffer = "good"
        /\ s.memsz < NUM => \A k \in 0 .. s.memsz - 1 : memory[s.vaddr + k] = ZERO
    BY <1>1 DEF IInv, Skipping
  <1>5. position \in Nat /\ Segment' = s
    BY <1>1, ImageFacts DEF IInv, Own, Segment
  <1>6. Own'
    BY <1>1, <1>3 DEF IInv, Own
  <1>7. Copying'
    <2>1. /\ left' <= s.filesz /\ target' + left' = s.vaddr + s.filesz
          /\ position' + left' = s.offset + s.filesz
      BY <1>1, <1>3, <1>4, <1>5
    <2>2. ~silent /\ s.memsz < NUM =>
             \A k \in 0 .. s.memsz - 1 :
                 memory[s.vaddr + k] = IF k < s.filesz - left' THEN s.offset + k ELSE ZERO
      BY <1>1, <1>3, <1>4
    <2> HIDE DEF s
    <2> QED
      BY <1>1, <1>4, <1>5, <2>1, <2>2 DEF Copying
  <1>8. Skipping' /\ AtEnd'
    BY <1>1 DEF Skipping, AtEnd
  <1>9. Done' /\ OnlySegmentsTouched'
    BY <1>1 DEF IInv, Done, Behind, InPlace, Loads, OnlySegmentsTouched, Addresses
  <1> QED
    BY <1>6, <1>7, <1>8, <1>9 DEF IInv

\* A piece of the segment goes where the last one ended.
LEMMA CopyStep ==
    ASSUME IInv, Copy
    PROVE  IInv'
PROOF
  <1> DEFINE asks == Min({left, LOAD_SIZE})
             s     == Segment
  <1>1. pc = "copy" /\ left > 0 /\ left \in Nat /\ LOAD_SIZE \in Nat \ {0}
        /\ target \in Nat
    BY SizeAssumption DEF Copy, IInv, Own
  <1>2. asks \in Nat /\ asks <= left
    BY <1>1, MinOfTwo
  <1>3. PICK r \in Answers(asks) :
           /\ ReadFile(r)
           /\ IF r.n # asks
              THEN pc' = "failed" /\ UNCHANGED <<left, target, memory>>
              ELSE /\ left' = left - r.n /\ target' = target + r.n
                   /\ memory' = Copied(r) /\ UNCHANGED pc
           /\ UNCHANGED <<image, i>>
    BY DEF Copy
  <1> HIDE DEF asks
  <1>4. /\ position' \in 0 .. image'.size /\ position' = position + r.n
        /\ buffer' \in {"good", "stale", "lost"}
        /\ silent' \in BOOLEAN /\ (silent => silent')
        /\ (~silent' /\ r.n = asks /\ buffer = "good") => buffer' = "good"
    BY <1>2, <1>3, ReadKeepsTypes DEF IInv
  <1>5. CASE r.n # asks
    <2>1. pc' = "failed" /\ UNCHANGED <<left, target, memory>>
      BY <1>3, <1>5
    <2>2. Own' /\ Elsewhere'
      BY <1>3, <1>4, <2>1 DEF IInv, Own, Elsewhere
    <2> QED
      BY <1>3, <1>4, <2>1, <2>2, QuietStep
  <1>6. CASE r.n = asks
    <2>1. /\ pc' = "copy" /\ left' = left - r.n /\ target' = target + r.n
          /\ memory' = Copied(r) /\ image' = image /\ i' = i
          /\ r.n \in Nat /\ r.n <= left /\ left' \in Nat /\ target' \in Nat
      BY <1>1, <1>2, <1>3, <1>6
    <2>2. /\ s.load /\ left <= s.filesz /\ target + left = s.vaddr + s.filesz
          /\ position + left = s.offset + s.filesz
          /\ ~silent => buffer = "good"
          /\ ~silent /\ s.memsz < NUM =>
                \A k \in 0 .. s.memsz - 1 :
                    memory[s.vaddr + k] =
                        IF k < s.filesz - left THEN s.offset + k ELSE ZERO
      BY <1>1 DEF IInv, Copying
    <2>3. image \in Images /\ i \in 1 .. Len(image.segments) /\ s = image.segments[i]
          /\ i \in Loads
      BY <1>1, <2>2, ImageFacts DEF IInv, Own, Segment, Loads
    <2>4. /\ s.offset \in Nat /\ s.vaddr \in Nat /\ s.filesz \in Nat /\ s.memsz \in Nat
          /\ s.filesz <= s.memsz /\ Addresses(s) \subseteq Memory
      BY <2>3, SegmentFacts
    <2>5. r.n % NUM \in 0 .. r.n /\ (r.n < NUM => r.n % NUM = r.n)
      BY <2>1, Counted
    <2>6. position \in Nat /\ Segment' = s
      BY <2>1, ImageFacts DEF IInv, Own, Segment
    <2>7. memory' \in [Memory -> {OLD, ZERO, GARBAGE} \cup Nat]
      <3>1. \A a \in Memory : a \in target .. target + (r.n % NUM) - 1 =>
                                 a - target \in Nat /\ Arrived(a - target, r) \in {GARBAGE} \cup Nat
        <4> SUFFICES ASSUME NEW a \in Memory, a \in target .. target + (r.n % NUM) - 1
                     PROVE  a - target \in Nat /\ Arrived(a - target, r) \in {GARBAGE} \cup Nat
          OBVIOUS
        <4>1. a - target \in Nat
          BY <1>1, <2>5
        <4> QED
          BY <4>1, ArrivedFacts DEF IInv
      <3> QED
        BY <2>1, <3>1 DEF Copied, IInv, Own
    <2>8. \A a \in Memory : a \in Addresses(s) \/ memory'[a] = memory[a]
      <3> SUFFICES ASSUME NEW a \in Memory, a \in target .. target + (r.n % NUM) - 1
                   PROVE  a \in Addresses(s)
        BY <2>1 DEF Copied
      <3> QED
        BY <1>1, <2>1, <2>2, <2>4, <2>5 DEF Addresses
    <2>9. Done' /\ OnlySegmentsTouched'
      <3>1. Within
        BY <1>1, <2>1, <2>3, <2>7, <2>8 DEF Within
      <3> QED
        BY <1>4, <3>1, WithinStep
    <2>10. Own'
      BY <1>1, <1>4, <2>1, <2>7 DEF IInv, Own
    <2>11. ~silent' /\ s.memsz < NUM =>
              \A k \in 0 .. s.memsz - 1 :
                  memory'[s.vaddr + k] =
                      IF k < s.filesz - left' THEN s.offset + k ELSE ZERO
      <3> SUFFICES ASSUME ~silent', s.memsz < NUM, NEW k \in 0 .. s.memsz - 1
                   PROVE  memory'[s.vaddr + k] =
                              IF k < s.filesz - left' THEN s.offset + k ELSE ZERO
        OBVIOUS
      <3>1. ~silent /\ buffer = "good" /\ r.buffer = "good"
        BY <1>4, <1>6, <1>3, <2>2 DEF ReadFile
      <3>2. memory[s.vaddr + k] = IF k < s.filesz - left THEN s.offset + k ELSE ZERO
        BY <2>2, <3>1
      <3>3. NUM \in Nat /\ r.n % NUM = r.n
        <4>1. NUM \in Nat
          BY SizeAssumption
        <4> HIDE DEF s
        <4>2. r.n < NUM
          BY <1>1, <2>1, <2>2, <2>4, <4>1
        <4> QED
          BY <2>5, <4>1, <4>2
      <3>4. s.vaddr + k \in Memory
        BY <2>4 DEF Addresses
      <3> DEFINE a == s.vaddr + k
                 d == a - target
      <3>5. memory'[a] = IF a \in target .. target + r.n - 1
                         THEN Arrived(d, r) ELSE memory[a]
        BY <2>1, <3>3, <3>4 DEF Copied
      <3>6. CASE k < s.filesz - left
        <4>1. a \notin target .. target + r.n - 1 /\ k < s.filesz - left'
          BY <1>1, <2>1, <2>2, <2>4, <3>6
        <4> QED
          BY <3>2, <3>5, <3>6, <4>1
      <3>7. CASE k >= s.filesz - left /\ k < s.filesz - left'
        <4>1. a \in target .. target + r.n - 1 /\ d \in Nat /\ position + d = s.offset + k
          BY <1>1, <2>1, <2>2, <2>4, <2>6, <3>7
        <4> HIDE DEF d
        <4>2. Arrived(d, r) = position + d
          BY <3>1, <4>1, ArrivedFacts DEF IInv
        <4> QED
          BY <3>5, <3>7, <4>1, <4>2
      <3>8. CASE k >= s.filesz - left'
        <4>1. a \notin target .. target + r.n - 1 /\ ~(k < s.filesz - left)
              /\ ~(k < s.filesz - left')
          BY <1>1, <2>1, <2>2, <2>4, <3>8
        <4> QED
          BY <3>2, <3>5, <4>1
      <3> QED
        BY <1>1, <2>1, <2>4, <3>6, <3>7, <3>8
    <2>12. Copying'
      <3>1. /\ left' <= s.filesz /\ target' + left' = s.vaddr + s.filesz
            /\ position' + left' = s.offset + s.filesz
        BY <1>1, <1>4, <2>1, <2>2, <2>4, <2>6
      <3>2. ~silent' => buffer' = "good"
        BY <1>4, <1>6, <2>2
      <3> HIDE DEF s
      <3> QED
        BY <2>2, <2>6, <2>11, <3>1, <3>2 DEF Copying
    <2>13. Skipping' /\ AtEnd'
      BY <2>1 DEF Skipping, AtEnd
    <2> QED
      BY <2>9, <2>10, <2>12, <2>13 DEF IInv
  <1> QED
    BY <1>5, <1>6

LEMMA CopyDoneStep ==
    ASSUME IInv, CopyDone
    PROVE  IInv'
PROOF
  <1> DEFINE s == Segment
  <1>1. /\ pc = "copy" /\ left = 0 /\ pc' = "segment" /\ i' = i + 1
        /\ UNCHANGED <<image, memory, position, buffer, left, target, silent>>
    BY DEF CopyDone
  <1>2. image \in Images /\ i \in 1 .. Len(image.segments) /\ s = image.segments[i]
        /\ Len(image.segments) \in Nat
    BY <1>1, ImageFacts DEF IInv, Own, Segment
  <1>3. /\ s.offset \in Nat /\ s.vaddr \in Nat /\ s.filesz \in Nat /\ s.memsz \in Nat
        /\ s.filesz <= s.memsz
    BY <1>2, SegmentFacts
  <1>4. /\ position + left = s.offset + s.filesz
        /\ ~silent /\ s.memsz < NUM =>
              \A k \in 0 .. s.memsz - 1 :
                  memory[s.vaddr + k] = IF k < s.filesz - left THEN s.offset + k ELSE ZERO
    BY <1>1 DEF IInv, Copying
  <1>5. Behind(s)
    <2>1. s.offset + s.filesz <= image.size
      <3>1. position \in 0 .. image.size /\ image.size \in Nat
        BY ImageFacts DEF IInv, Own
      <3> QED
        BY <1>1, <1>3, <1>4, <3>1
    <2>2. ASSUME ~silent, s.memsz < NUM PROVE InPlace(s)
      <3>1. \A k \in 0 .. s.filesz - 1 : k \in 0 .. s.memsz - 1 /\ k < s.filesz - left
        BY <1>1, <1>3
      <3>2. \A k \in s.filesz .. s.memsz - 1 : k \in 0 .. s.memsz - 1 /\ ~(k < s.filesz - left)
        BY <1>1, <1>3
      <3> HIDE DEF s
      <3> QED
        BY <1>4, <2>2, <3>1, <3>2 DEF InPlace
    <2> QED
      BY <2>1, <2>2 DEF Behind
  <1>6. Done'
    <2>1. Loads' = Loads /\ (\A t : Behind(t) => Behind(t)') /\ image' = image
      BY <1>1 DEF Loads, Behind, InPlace
    <2>2. \A j \in Loads : j < i' => j < i \/ j = i
      <3>1. \A j \in Loads : j \in Nat
        BY ImageFacts DEF Loads, IInv, Own
      <3> QED
        BY <1>1, <1>2, <3>1
    <2>3. \A j \in Loads : j < i' => Behind(image.segments[j])
      BY <1>2, <1>5, <2>2 DEF IInv, Done
    <2> QED
      BY <2>1, <2>3 DEF Done
  <1>7. Own'
    BY <1>1, <1>2 DEF IInv, Own
  <1>8. Skipping' /\ Copying' /\ AtEnd'
    BY <1>1 DEF Skipping, Copying, AtEnd
  <1>9. OnlySegmentsTouched'
    BY <1>1 DEF IInv, OnlySegmentsTouched, Loads, Addresses
  <1> QED
    BY <1>6, <1>7, <1>8, <1>9 DEF IInv
-----------------------------------------------------------------------------
(* The invariant, and what follows                                          *)

LEMMA InitInv == Init => IInv
PROOF
  <1> SUFFICES ASSUME Init PROVE IInv
    OBVIOUS
  <1>1. image \in Images /\ pc = "start" /\ i = 1 /\ memory = [a \in Memory |-> OLD]
    BY DEF Init
  <1>2. Own
    <2>1. image.size \in Nat /\ Len(image.segments) \in Nat
      BY <1>1, ImageFacts
    <2>2. memory \in [Memory -> {OLD, ZERO, GARBAGE} \cup Nat]
      BY <1>1
    <2>3. /\ position = 0 /\ buffer = "good" /\ left = 0 /\ target = 0
          /\ silent \in BOOLEAN
      BY DEF Init
    <2> QED
      BY <1>1, <2>1, <2>2, <2>3 DEF Own
  <1>3. Skipping /\ Copying /\ AtEnd
    BY <1>1 DEF Skipping, Copying, AtEnd
  <1>4. Done
    <2>1. \A j \in Loads : j \in 1 .. Len(image.segments) /\ Len(image.segments) \in Nat
      BY <1>1, ImageFacts DEF Loads
    <2> QED
      BY <1>1, <2>1 DEF Done
  <1>5. OnlySegmentsTouched
    BY <1>1 DEF OnlySegmentsTouched
  <1> QED
    BY <1>2, <1>3, <1>4, <1>5 DEF IInv

\* Every step of the loader, whatever else shares its disk.
LEMMA LoaderStep ==
    ASSUME IInv, ELF_Read
    PROVE  IInv'
PROOF
  BY StartStep, HeaderStep, NextSegmentStep, ClearStep, SkipStep, SkippedStep, CopyStep,
     CopyDoneStep DEF ELF_Read

LEMMA IdleStep ==
    ASSUME IInv,
           UNCHANGED <<image, pc, memory, position, buffer, i, left, target, silent>>
    PROVE  IInv'
PROOF
  <1>1. Own' /\ AtEnd'
    BY DEF IInv, Own, AtEnd
  <1>2. Skipping'
    BY DEF IInv, Skipping, Segment
  <1>3. Copying'
    BY DEF IInv, Copying, Segment
  <1>4. Done' /\ OnlySegmentsTouched'
    BY DEF IInv, Done, Behind, InPlace, Loads, OnlySegmentsTouched, Addresses
  <1> QED
    BY <1>1, <1>2, <1>3, <1>4 DEF IInv

LEMMA Invariant == Spec => []IInv
PROOF
  <1>1. IInv /\ [Next]_vars => IInv'
    BY LoaderStep, IdleStep DEF Next, Stopped, vars
  <1> QED
    BY InitInv, <1>1, PTL DEF Spec

\* The failures are counted up to their bound.
LEMMA FaultsStep ==
    ASSUME faults \in 0 .. MaxFaults, [Next]_vars
    PROVE  faults' \in 0 .. MaxFaults
PROOF
  <1>1. \A r : ReadFile(r) => faults' \in 0 .. MaxFaults
    BY SizeAssumption DEF ReadFile
  <1>2. \A next : OpenFile(next) => faults' \in 0 .. MaxFaults
    BY SizeAssumption DEF OpenFile
  <1>3. CASE Start \/ Clear
    BY <1>2, <1>3 DEF Start, Clear
  <1>4. CASE ReadHeader \/ SeekTable \/ ReadTable \/ Skip \/ Copy
    BY <1>1, <1>4 DEF ReadHeader, SeekTable, ReadTable, Skip, Copy
  <1>5. CASE NextSegment \/ Skipped \/ CopyDone
    BY <1>5 DEF NextSegment, Skipped, CopyDone
  <1>6. CASE Stopped \/ UNCHANGED vars
    BY <1>6 DEF Stopped, vars
  <1> QED
    BY <1>3, <1>4, <1>5, <1>6 DEF Next, ELF_Read

LEMMA InvKeepsTypes ==
    ASSUME IInv, faults \in 0 .. MaxFaults
    PROVE  TypeOK
PROOF
  BY DEF IInv, Own, TypeOK

\* What is in place when the loader returns true.
LEMMA InvLoads == IInv => LoadedInPlace /\ CutOffIsRejected
PROOF
  <1> SUFFICES ASSUME IInv, pc = "loaded", NEW j \in Loads
               PROVE  /\ image.segments[j].offset + image.segments[j].filesz <= image.size
                      /\ ~silent /\ image.segments[j].memsz < NUM =>
                            InPlace(image.segments[j])
    BY DEF LoadedInPlace, CutOffIsRejected
  <1>1. j \in 1 .. Len(image.segments) /\ i = Len(image.segments) + 1
        /\ Len(image.segments) \in Nat
    BY ImageFacts DEF IInv, Own, AtEnd, Loads
  <1>2. Behind(image.segments[j])
    BY <1>1 DEF IInv, Done
  <1> QED
    BY <1>2 DEF Behind

\* The position stays within the file, whatever answers are believed: the count
\* skipped to the table is taken modulo 2^32 and compared by no one (elf.c:43).
THEOREM TypeCorrect == Spec => []TypeOK
PROOF
  <1>1. Init => faults \in 0 .. MaxFaults
    BY SizeAssumption DEF Init
  <1>2. faults \in 0 .. MaxFaults /\ [Next]_vars => (faults \in 0 .. MaxFaults)'
    BY FaultsStep
  <1>3. IInv /\ faults \in 0 .. MaxFaults => TypeOK
    BY InvKeepsTypes
  <1> QED
    BY <1>1, <1>2, <1>3, Invariant, PTL DEF Spec

\* For every kernel file, size of sector and buffer, and failures that are not
\* silent, a kernel that is started lies in memory as in its file (elf.c:53-94).
THEOREM AlwaysLoadedInPlace == Spec => []LoadedInPlace
PROOF
  BY Invariant, InvLoads, PTL

\* A file cut off within a segment is never started (elf.c:68, 80).
THEOREM CutOffAlwaysRejected == Spec => []CutOffIsRejected
PROOF
  BY Invariant, InvLoads, PTL

\* memset and memcpy write within the segments, also after silent failures and
\* for segments larger than they can count (elf.c:59, 86-87).
THEOREM OnlySegmentsEverTouched == Spec => []OnlySegmentsTouched
PROOF
  <1>1. IInv => OnlySegmentsTouched
    BY DEF IInv
  <1> QED
    BY <1>1, Invariant, PTL

-----------------------------------------------------------------------------
(* EnableA20                                                               *)

\* What the controller may still have to take when a line is reached.
A20Protocol ==
    /\ line = 1 => input = "none"
    /\ line = 2 => input \in {"disable", "none"}
    /\ line \in {3, 4} => input \in {"readPort", "none"}
    /\ line = 5 => input \in {"writePort", "none"} /\ (input = "none" => writing)
    /\ line = 6 => input \in {"data", "none"}
    /\ line = 7 => input \in {"enable", "none"}
    /\ line = 8 => input = "none"
    /\ input = "data" => writing /\ data = eax \cup {Keyboard!A20}

\* The port is as it was until the data arrive; without a key it is what has
\* been read.
A20ReadBack ==
    /\ line <= 5 \/ input = "data" => port = before
    /\ line >= 6 /\ input # "data" => port = eax \cup {Keyboard!A20}
    /\ output = "port" => value = before
    /\ output = "key" => pressed
    /\ line >= 4 /\ ~pressed => eax = before

A20IInv == Keyboard!TypeOK /\ A20Protocol /\ A20ReadBack

\* What EnableA20 does at each of its lines.
LEMMA A20Lines ==
    ASSUME line \in 1 .. 8
    PROVE  /\ line = 1 => Keyboard!Now = "disable"
           /\ line = 2 => Keyboard!Now = "readPort"
           /\ line = 3 => Keyboard!Now = "in"
           /\ line = 4 => Keyboard!Now = "writePort"
           /\ line = 5 => Keyboard!Now = "out"
           /\ line = 6 => Keyboard!Now = "enable"
           /\ line = 7 => Keyboard!Now = "ret"
           /\ line = 8 => Keyboard!Now = "done"
PROOF
  <1>1. Len(Keyboard!Program) = 7 /\ DOMAIN Keyboard!Program = 1 .. 7
    BY DEF Keyboard!Program
  <1>2. /\ Keyboard!Program[1] = "disable" /\ Keyboard!Program[2] = "readPort"
        /\ Keyboard!Program[3] = "in"
        /\ Keyboard!Program[4] = "writePort" /\ Keyboard!Program[5] = "out"
        /\ Keyboard!Program[6] = "enable"
        /\ Keyboard!Program[7] = "ret"
    BY DEF Keyboard!Program
  <1>3. line \in 1 .. 7 => Keyboard!Now = Keyboard!Program[line]
    BY <1>1 DEF Keyboard!Now
  <1>4. line = 8 => Keyboard!Now = "done"
    <2>1. line = 8 => line \notin DOMAIN Keyboard!Program
      BY <1>1
    <2> QED
      BY <2>1 DEF Keyboard!Now
  <1>5. line \in {1, 2, 3, 4, 5, 6, 7} => line \in 1 .. 7
    OBVIOUS
  <1> QED
    BY <1>2, <1>3, <1>4, <1>5, Zenon

\* The same, the other way round.
LEMMA A20LineOf ==
    ASSUME line \in 1 .. 8
    PROVE  /\ Keyboard!Now = "in" => line = 3
           /\ Keyboard!Now = "out" => line = 5
           /\ Keyboard!Now = "ret" => line = 7
           /\ Keyboard!Now \in Keyboard!Commands => line \in {1, 2, 4, 6}
           /\ Keyboard!Now = "done" => line = 8
PROOF
  <1>1. line \in {1, 2, 3, 4, 5, 6, 7, 8}
    OBVIOUS
  <1> QED
    BY <1>1, A20Lines DEF Keyboard!Commands

LEMMA A20Init == Keyboard!Init => A20IInv
PROOF
  <1>1. Len(Keyboard!Program) = 7
    BY DEF Keyboard!Program
  <1> SUFFICES ASSUME Keyboard!Init PROVE A20IInv
    OBVIOUS
  <1>2. Keyboard!TypeOK
    <2>1. port \in Keyboard!Byte /\ {} \in Keyboard!Byte
      BY DEF Keyboard!Init, Keyboard!Byte, Keyboard!RESET, Keyboard!A20
    <2>2. line \in 1 .. Len(Keyboard!Program) + 1
      BY <1>1 DEF Keyboard!Init
    <2> QED
      BY <2>1, <2>2 DEF Keyboard!Init, Keyboard!TypeOK
  <1>3. A20Protocol /\ A20ReadBack
    BY DEF Keyboard!Init, A20Protocol, A20ReadBack
  <1> QED
    BY <1>2, <1>3 DEF A20IInv

LEMMA A20TypeStep ==
    ASSUME A20IInv, [Keyboard!Next]_(Keyboard!keyboardVars)
    PROVE  Keyboard!TypeOK'
PROOF
  <1>1. Len(Keyboard!Program) = 7 /\ Len(Keyboard!Program)' = 7
    BY DEF Keyboard!Program
  <1>2. line \in 1 .. 8
    BY <1>1 DEF A20IInv, Keyboard!TypeOK
  <1>3. CASE UNCHANGED Keyboard!keyboardVars
    BY <1>3, <1>1 DEF A20IInv, Keyboard!TypeOK, Keyboard!keyboardVars
  <1>4. CASE Keyboard!Command
    BY <1>4, <1>1, <1>2, A20LineOf DEF A20IInv, Keyboard!TypeOK, Keyboard!Command
  <1>5. CASE Keyboard!In
    BY <1>5, <1>1, <1>2, A20LineOf DEF A20IInv, Keyboard!TypeOK, Keyboard!In, Keyboard!Byte
  <1>6. CASE Keyboard!Out
    <2>1. data' \in Keyboard!Byte
      BY <1>6 DEF A20IInv, Keyboard!TypeOK, Keyboard!Out, Keyboard!Byte, Keyboard!A20
    <2> QED
      BY <1>6, <1>1, <1>2, <2>1, A20LineOf DEF A20IInv, Keyboard!TypeOK, Keyboard!Out
  <1>7. CASE Keyboard!Ret
    BY <1>7, <1>1, <1>2, A20LineOf DEF A20IInv, Keyboard!TypeOK, Keyboard!Ret
  <1>8. CASE Keyboard!TakeKeyboard
    BY <1>8, <1>1 DEF A20IInv, Keyboard!TypeOK, Keyboard!TakeKeyboard, Keyboard!Take,
       Keyboard!Byte
  <1>9. CASE Keyboard!TakeReadPort
    BY <1>9, <1>1 DEF A20IInv, Keyboard!TypeOK, Keyboard!TakeReadPort, Keyboard!Take,
       Keyboard!Byte
  <1>10. CASE Keyboard!TakeWritePort
    BY <1>10, <1>1 DEF A20IInv, Keyboard!TypeOK, Keyboard!TakeWritePort, Keyboard!Take,
       Keyboard!Byte
  <1>11. CASE Keyboard!TakeData
    BY <1>11, <1>1 DEF A20IInv, Keyboard!TypeOK, Keyboard!TakeData, Keyboard!Take,
       Keyboard!Byte
  <1>12. CASE Keyboard!Press
    BY <1>12, <1>1 DEF A20IInv, Keyboard!TypeOK, Keyboard!Press
  <1> QED
    BY <1>3, <1>4, <1>5, <1>6, <1>7, <1>8, <1>9, <1>10, <1>11, <1>12
    DEF Keyboard!Next, Keyboard!Work, Keyboard!Controller

\* At each line the controller has at most that line's command or byte to take.
LEMMA A20ProtocolStep ==
    ASSUME A20IInv, [Keyboard!Next]_(Keyboard!keyboardVars)
    PROVE  A20Protocol'
PROOF
  <1>1. line \in 1 .. 8
    BY DEF A20IInv, Keyboard!TypeOK, Keyboard!Program
  <1>2. A20Protocol /\ Keyboard!TypeOK
    BY DEF A20IInv
  <1>3. CASE UNCHANGED Keyboard!keyboardVars
    BY <1>3, <1>2 DEF A20Protocol, Keyboard!keyboardVars
  <1>4. CASE Keyboard!Command
    <2>1. /\ line \in {1, 2, 4, 6} /\ line' = line + 1 /\ input' = Keyboard!Now
      BY <1>1, <1>4, A20LineOf DEF Keyboard!Command
    <2>3. CASE line = 1
      <3>1. line' = 2 /\ input' = "disable"
        BY <1>1, <2>1, <2>3, A20Lines
      <3> QED
        BY <3>1 DEF A20Protocol
    <2>4. CASE line = 2
      <3>1. line' = 3 /\ input' = "readPort"
        BY <1>1, <2>1, <2>4, A20Lines
      <3> QED
        BY <3>1 DEF A20Protocol
    <2>5. CASE line = 4
      <3>1. line' = 5 /\ input' = "writePort"
        BY <1>1, <2>1, <2>5, A20Lines
      <3> QED
        BY <3>1 DEF A20Protocol
    <2>6. CASE line = 6
      <3>1. line' = 7 /\ input' = "enable"
        BY <1>1, <2>1, <2>6, A20Lines
      <3> QED
        BY <3>1 DEF A20Protocol
    <2> QED
      BY <2>1, <2>3, <2>4, <2>5, <2>6
  <1>5. CASE Keyboard!In
    <2>1. line = 3 /\ line' = 4 /\ input' = input
      BY <1>1, <1>5, A20LineOf DEF Keyboard!In
    <2>2. input' \in {"readPort", "none"}
      BY <1>2, <2>1 DEF A20Protocol
    <2> QED
      BY <2>1, <2>2 DEF A20Protocol
  <1>6. CASE Keyboard!Out
    BY <1>1, <1>2, <1>6, A20LineOf DEF A20Protocol, Keyboard!Out
  <1>7. CASE Keyboard!Ret
    BY <1>1, <1>2, <1>7, A20LineOf DEF A20Protocol, Keyboard!Ret
  <1>8. CASE Keyboard!TakeKeyboard
    BY <1>1, <1>2, <1>8 DEF A20Protocol, Keyboard!TakeKeyboard, Keyboard!Take
  <1>9. CASE Keyboard!TakeReadPort
    BY <1>1, <1>2, <1>9 DEF A20Protocol, Keyboard!TakeReadPort, Keyboard!Take
  <1>10. CASE Keyboard!TakeWritePort
    BY <1>1, <1>2, <1>10 DEF A20Protocol, Keyboard!TakeWritePort, Keyboard!Take
  <1>11. CASE Keyboard!TakeData
    BY <1>1, <1>2, <1>11 DEF A20Protocol, Keyboard!TakeData, Keyboard!Take
  <1>12. CASE Keyboard!Press
    BY <1>2, <1>12 DEF A20Protocol, Keyboard!Press
  <1> QED
    BY <1>3, <1>4, <1>5, <1>6, <1>7, <1>8, <1>9, <1>10, <1>11, <1>12
    DEF Keyboard!Next, Keyboard!Work, Keyboard!Controller

\* The port is written once, with the byte that was read and bit 1.
LEMMA A20ReadBackStep ==
    ASSUME A20IInv, [Keyboard!Next]_(Keyboard!keyboardVars)
    PROVE  A20ReadBack'
PROOF
  <1>1. line \in 1 .. 8 /\ line \in {1, 2, 3, 4, 5, 6, 7, 8}
    BY DEF A20IInv, Keyboard!TypeOK, Keyboard!Program
  <1>2. A20Protocol /\ A20ReadBack
    BY DEF A20IInv
  <1>3. CASE UNCHANGED Keyboard!keyboardVars
    BY <1>3, <1>2 DEF A20ReadBack, Keyboard!keyboardVars
  <1>4. CASE Keyboard!Command
    <2>1. /\ line \in {1, 2, 4, 6} /\ line' = line + 1 /\ input = "none" /\ input' # "data"
          /\ UNCHANGED <<eax, output, value, port, before, pressed>>
      BY <1>1, <1>4, A20LineOf DEF Keyboard!Command, Keyboard!Commands
    <2> QED
      BY <1>1, <1>2, <2>1 DEF A20ReadBack
  <1>5. CASE Keyboard!In
    <2>1. /\ line = 3 /\ line' = 4 /\ output # "none" /\ eax' = value /\ output' = "none"
          /\ UNCHANGED <<input, port, before, pressed>>
      BY <1>1, <1>5, A20LineOf DEF Keyboard!In
    <2>2. output \in {"key", "port"}
      BY <2>1 DEF A20IInv, Keyboard!TypeOK
    <2> QED
      BY <1>2, <2>1, <2>2 DEF A20ReadBack
  <1>6. CASE Keyboard!Out
    <2>1. /\ line = 5 /\ line' = 6 /\ input' = "data"
          /\ UNCHANGED <<eax, output, value, port, before, pressed>>
      BY <1>1, <1>6, A20LineOf DEF Keyboard!Out
    <2> QED
      BY <1>2, <2>1 DEF A20ReadBack
  <1>7. CASE Keyboard!Ret
    <2>1. /\ line = 7 /\ line' = 8
          /\ UNCHANGED <<input, eax, output, value, port, before, pressed>>
      BY <1>1, <1>7, A20LineOf DEF Keyboard!Ret
    <2> QED
      BY <1>2, <2>1 DEF A20ReadBack
  <1>8. CASE Keyboard!TakeKeyboard
    BY <1>1, <1>2, <1>8 DEF A20ReadBack, Keyboard!TakeKeyboard, Keyboard!Take
  <1>9. CASE Keyboard!TakeReadPort
    <2>1. input = "readPort" /\ input' = "none" /\ output' = "port" /\ value' = port
      BY <1>9 DEF Keyboard!TakeReadPort, Keyboard!Take
    <2>2. UNCHANGED <<line, eax, port, before, pressed>>
      BY <1>9 DEF Keyboard!TakeReadPort
    <2>3. line \in {3, 4}
      BY <1>1, <1>2, <2>1 DEF A20Protocol
    <2>4. port = before
      BY <1>2, <2>3 DEF A20ReadBack
    <2> QED
      BY <1>2, <2>1, <2>2, <2>3, <2>4 DEF A20ReadBack
  <1>10. CASE Keyboard!TakeWritePort
    <2>1. input = "writePort" /\ input' = "none"
      BY <1>10 DEF Keyboard!TakeWritePort, Keyboard!Take
    <2>2. UNCHANGED <<line, eax, output, value, port, before, pressed>>
      BY <1>10 DEF Keyboard!TakeWritePort
    <2>3. line = 5
      BY <1>1, <1>2, <2>1 DEF A20Protocol
    <2> QED
      BY <1>2, <2>1, <2>2, <2>3 DEF A20ReadBack
  <1>11. CASE Keyboard!TakeData
    <2>1. line = 6 /\ writing /\ data = eax \cup {Keyboard!A20}
      BY <1>1, <1>2, <1>11 DEF A20Protocol, Keyboard!TakeData, Keyboard!Take
    <2> QED
      BY <1>2, <1>11, <2>1 DEF A20ReadBack, Keyboard!TakeData, Keyboard!Take
  <1>12. CASE Keyboard!Press
    BY <1>2, <1>12 DEF A20ReadBack, Keyboard!Press
  <1> QED
    BY <1>3, <1>4, <1>5, <1>6, <1>7, <1>8, <1>9, <1>10, <1>11, <1>12
    DEF Keyboard!Next, Keyboard!Work, Keyboard!Controller

\* The port is kept, as PortKept says, wherever Protocol and ReadBack hold.
LEMMA A20InvKeepsPort == A20IInv => Keyboard!PortKept
PROOF
  <1> SUFFICES ASSUME A20IInv PROVE Keyboard!PortKept
    OBVIOUS
  <1>1. line \in 1 .. 8 /\ A20Protocol /\ A20ReadBack
    BY DEF A20IInv, Keyboard!TypeOK, Keyboard!Program
  <1>2. Keyboard!Now = "done" => Keyboard!A20 \in port
    <2> SUFFICES ASSUME Keyboard!Now = "done" PROVE Keyboard!A20 \in port
      OBVIOUS
    <2>1. line = 8
      BY <1>1, A20LineOf
    <2> QED
      BY <1>1, <2>1 DEF A20Protocol, A20ReadBack
  <1>3. port = before \/ (line >= 6 /\ port = eax \cup {Keyboard!A20})
    BY <1>1 DEF A20ReadBack
  <1>4. ~pressed => port = before \/ port = before \cup {Keyboard!A20}
    BY <1>1, <1>3 DEF A20ReadBack
  <1>5. port # before => Keyboard!A20 \in port
    BY <1>3
  <1> QED
    BY <1>2, <1>4, <1>5 DEF Keyboard!PortKept

\* The lines, the buffers and the controller's state keep their types
\* (entry.asm:73-105).
THEOREM A20TypeCorrect == Keyboard!Spec => []Keyboard!TypeOK
PROOF
  <1>1. A20IInv /\ [Keyboard!Next]_(Keyboard!keyboardVars) => A20IInv'
    BY A20TypeStep, A20ProtocolStep, A20ReadBackStep DEF A20IInv
  <1>2. A20IInv => Keyboard!TypeOK
    BY DEF A20IInv
  <1> QED
    BY <1>1, <1>2, A20Init, PTL DEF Keyboard!Spec

\* However the controller takes its time and whether or not a key is pressed,
\* EnableA20 ends with line 20 open, and without a key the rest of the port is
\* as it was (entry.asm:73-105).
THEOREM A20PortAlwaysKept == Keyboard!Spec => []Keyboard!PortKept
PROOF
  <1>1. A20IInv /\ [Keyboard!Next]_(Keyboard!keyboardVars) => A20IInv'
    BY A20TypeStep, A20ProtocolStep, A20ReadBackStep DEF A20IInv
  <1> QED
    BY <1>1, A20Init, A20InvKeepsPort, PTL DEF Keyboard!Spec

-----------------------------------------------------------------------------
(* The boot                                                                *)

\* Outside EnableA20 nothing touches the keyboard controller.
LEMMA KeyboardStep ==
    ASSUME [BootNext]_bootVars
    PROVE  [Keyboard!Next]_(Keyboard!keyboardVars)
PROOF
  <1>1. CASE UNCHANGED bootVars
    BY <1>1 DEF bootVars, keyboardVars, Keyboard!keyboardVars
  <1>2. CASE Stage1 \/ Reboot
    BY <1>2 DEF Stage1, Reboot, keyboardVars, Keyboard!keyboardVars
  <1>3. CASE Stage2
    BY <1>3 DEF Stage2, keyboardVars, Keyboard!keyboardVars
  <1>4. CASE Instruction
    BY <1>4 DEF Instruction, keyboardVars, Keyboard!keyboardVars
  <1>5. CASE EnableA20
    <2>1. CASE UNCHANGED keyboardVars
      BY <2>1 DEF keyboardVars, Keyboard!keyboardVars
    <2>2. CASE Keyboard!Work
      BY <2>2 DEF Keyboard!Next
    <2> QED
      BY <1>5, <2>1, <2>2 DEF EnableA20
  <1>6. CASE Controller
    BY <1>6 DEF Controller, Keyboard!Next
  <1>7. CASE Press
    BY <1>7 DEF Press, Keyboard!Next
  <1>8. CASE EnterStart \/ CallBios \/ Bios \/ BackInC
    BY <1>8 DEF EnterStart, CallBios, Bios, BackInC, notPart, keyboardVars,
       Keyboard!keyboardVars
  <1>9. CASE DISK_Initialize \/ MBR_DetectPartition \/ FAT_Initialize \/ Memory_Detect
    BY <1>9 DEF DISK_Initialize, MBR_DetectPartition, FAT_Initialize, Memory_Detect,
       notPart, keyboardVars, Keyboard!keyboardVars
  <1>10. CASE LoadKernel
    BY <1>10 DEF LoadKernel, notPart, keyboardVars, Keyboard!keyboardVars
  <1>11. CASE HAL_Initialize \/ LogRegions
    BY <1>11 DEF HAL_Initialize, LogRegions, notPart, keyboardVars,
       Keyboard!keyboardVars
  <1> QED
    BY <1>1, <1>2, <1>3, <1>4, <1>5, <1>6, <1>7, <1>8, <1>9, <1>10, <1>11
    DEF BootNext, BootWork

LEMMA KeyboardInit == BootInit => A20IInv
PROOF
  <1>1. BootInit => Keyboard!Init
    BY DEF BootInit, Keyboard!Init, Keyboard!A20, Keyboard!RESET
  <1> QED
    BY <1>1, A20Init

LEMMA KeyboardKept ==
    ASSUME A20IInv, [BootNext]_bootVars
    PROVE  A20IInv'
PROOF
  BY KeyboardStep, A20TypeStep, A20ProtocolStep, A20ReadBackStep
  DEF A20IInv

\* EnableA20 opens line 20 and leaves the rest of the port alone, whatever the
\* rest of the boot does before and after it (entry.asm:73-105).
THEOREM PortAlwaysKept == BootSpec => []PortKept
PROOF
  <1>1. A20IInv /\ [BootNext]_bootVars => A20IInv'
    BY KeyboardKept
  <1>2. A20IInv => PortKept
    BY A20InvKeepsPort DEF PortKept
  <1> QED
    BY KeyboardInit, <1>1, <1>2, PTL DEF BootSpec
-----------------------------------------------------------------------------
(* Attempts of the boot sector                                              *)

\* The attempts made and those left at a block are three; a failed one is
\* counted before its reset.
Attempts ==
    /\ loader = "read"  => failed \in Int /\ tries \in Int /\ tries + failed = 3
    /\ loader = "reset" => failed \in Int /\ tries \in Int /\ tries + failed = 4

\* Stage 2 and the kernel leave the boot sector's registers alone.
LEMMA SectorStep ==
    ASSUME [BootNext]_bootVars
    PROVE  Sector!Work \/ Sector!Reboot \/ UNCHANGED <<loader, tries, failed>>
PROOF
  <1>1. CASE UNCHANGED bootVars
    BY <1>1 DEF bootVars, sectorVars
  <1>2. CASE Stage1 \/ Reboot
    BY <1>2 DEF Stage1, Reboot
  <1>3. CASE Stage2 \/ Instruction
    BY <1>3 DEF Stage2, Instruction, sectorVars
  <1>4. CASE EnableA20 \/ Controller \/ Press
    BY <1>4 DEF EnableA20, Controller, Press, notKeyboard, sectorVars
  <1>5. CASE EnterStart \/ CallBios \/ Bios \/ BackInC
    BY <1>5 DEF EnterStart, CallBios, Bios, BackInC, sectorVars
  <1>6. CASE DISK_Initialize \/ MBR_DetectPartition \/ Memory_Detect
    BY <1>6 DEF DISK_Initialize, MBR_DetectPartition, Memory_Detect, sectorVars
  <1>7. CASE FAT_Initialize
    BY <1>7 DEF FAT_Initialize
  <1>8. CASE LoadKernel \/ HAL_Initialize \/ LogRegions
    BY <1>8 DEF LoadKernel, HAL_Initialize, LogRegions, sectorVars
  <1> QED
    BY <1>1, <1>2, <1>3, <1>4, <1>5, <1>6, <1>7, <1>8 DEF BootNext, BootWork

LEMMA AttemptsStep ==
    ASSUME Attempts, [BootNext]_bootVars
    PROVE  Attempts'
PROOF
  <1>1. CASE UNCHANGED <<loader, tries, failed>>
    BY <1>1 DEF Attempts
  <1>2. CASE Sector!Start \/ Sector!Jump \/ Sector!ResetFails \/ Sector!Reboot
    BY <1>2 DEF Attempts, Sector!Start, Sector!Jump, Sector!ResetFails, Sector!Reboot
  <1>3. CASE Sector!NextBlock
    BY <1>3 DEF Attempts, Sector!NextBlock
  <1>4. CASE Sector!Read
    BY <1>4 DEF Attempts, Sector!Read, Sector!Goes
  <1>5. CASE Sector!ReadFails
    BY <1>5 DEF Attempts, Sector!ReadFails, Sector!Goes
  <1>6. CASE Sector!Reset
    BY <1>6 DEF Attempts, Sector!Reset
  <1> QED
    BY <1>1, <1>2, <1>3, <1>4, <1>5, <1>6, SectorStep DEF Sector!Work

\* ELF_Read is the only step that touches the loader's variables.
LEMMA ElfStep ==
    ASSUME [BootNext]_bootVars
    PROVE  ELF_Read \/ UNCHANGED elfVars
PROOF
  <1>1. CASE UNCHANGED bootVars
    BY <1>1 DEF bootVars
  <1>2. CASE Stage1 \/ Reboot \/ Stage2 \/ Instruction
    BY <1>2 DEF Stage1, Reboot, Stage2, Instruction
  <1>3. CASE EnableA20 \/ Controller \/ Press
    BY <1>3 DEF EnableA20, Controller, Press, notKeyboard
  <1>4. CASE EnterStart \/ CallBios \/ Bios \/ BackInC
    BY <1>4 DEF EnterStart, CallBios, Bios, BackInC
  <1>5. CASE DISK_Initialize \/ MBR_DetectPartition \/ FAT_Initialize \/ Memory_Detect
    BY <1>5 DEF DISK_Initialize, MBR_DetectPartition, FAT_Initialize, Memory_Detect
  <1>6. CASE LoadKernel
    BY <1>6 DEF LoadKernel, vars, elfVars
  <1>7. CASE HAL_Initialize \/ LogRegions
    BY <1>7 DEF HAL_Initialize, LogRegions
  <1> QED
    BY <1>1, <1>2, <1>3, <1>4, <1>5, <1>6, <1>7 DEF BootNext, BootWork

\* The failures are counted, by whichever part of the boot they befall.
LEMMA BootFaultsStep ==
    ASSUME faults \in 0 .. MaxFaults, [BootNext]_bootVars
    PROVE  faults' \in 0 .. MaxFaults
PROOF
  <1>1. MaxFaults \in Nat
    BY SizeAssumption
  <1>2. CASE UNCHANGED bootVars
    BY <1>2 DEF bootVars
  <1>3. CASE Sector!Work \/ Sector!Reboot
    BY <1>1, <1>3 DEF Sector!Work, Sector!Start, Sector!NextBlock, Sector!Jump,
       Sector!Read, Sector!ReadFails, Sector!Reset, Sector!ResetFails, Sector!Reboot
  <1>4. CASE Stage2 \/ Instruction \/ EnableA20 \/ Controller \/ Press
    BY <1>4 DEF Stage2, Instruction, EnableA20, Controller, Press, notKeyboard
  <1>5. CASE EnterStart \/ CallBios \/ Bios \/ BackInC
    BY <1>1, <1>5 DEF EnterStart, CallBios, Bios, BackInC
  <1>6. CASE DISK_Initialize \/ MBR_DetectPartition \/ FAT_Initialize \/ Memory_Detect
    BY <1>1, <1>6
    DEF DISK_Initialize, MBR_DetectPartition, FAT_Initialize, Memory_Detect
  <1>7. CASE ELF_Read
    BY <1>7, FaultsStep DEF Next
  <1>8. CASE UNCHANGED vars
    BY <1>8 DEF vars
  <1>9. CASE HAL_Initialize \/ LogRegions
    BY <1>9 DEF HAL_Initialize, LogRegions
  <1> QED
    BY <1>2, <1>3, <1>4, <1>5, <1>6, <1>7, <1>8, <1>9
    DEF BootNext, BootWork, Stage1, Reboot, LoadKernel

\* The loader comes to wait for a key in two of the boot sector's steps.
LEMMA KeyStep ==
    ASSUME Attempts, faults \in 0 .. MaxFaults, [BootNext]_bootVars,
           loader # "key", loader' = "key"
    PROVE  failed = 3 \/ (loader = "reset" /\ faults' > faults)
PROOF
  <1>1. ~UNCHANGED <<loader, tries, failed>>
    OBVIOUS
  <1>2. ~(Sector!Start \/ Sector!NextBlock \/ Sector!Jump \/ Sector!Reboot)
    BY DEF Sector!Start, Sector!NextBlock, Sector!Jump, Sector!Reboot
  <1>3. ~(Sector!Read \/ Sector!ReadFails)
    BY DEF Sector!Read, Sector!ReadFails, Sector!Goes
  <1>4. CASE Sector!Reset
    BY <1>4 DEF Attempts, Sector!Reset
  <1>5. CASE Sector!ResetFails
    BY <1>5 DEF Sector!ResetFails
  <1> QED
    BY <1>1, <1>2, <1>3, <1>4, <1>5, SectorStep DEF Sector!Work

\* The boot sector gives up only after three failed reads of a block, or after a
\* reset that failed (boot.asm:299-334).
THEOREM AlwaysGivesUpLate == BootSpec => GivesUpLate
PROOF
  <1> DEFINE Late == loader # "key" /\ loader' = "key" =>
                       failed = 3 \/ (loader = "reset" /\ faults' > faults)
             Tally == Attempts /\ faults \in 0 .. MaxFaults
  <1>1. BootInit => Tally
    BY SizeAssumption DEF BootInit, Sector!Init, Init, Attempts
  <1>2. Tally /\ [BootNext]_bootVars => Tally'
    BY AttemptsStep, BootFaultsStep
  <1>3. Tally /\ [BootNext]_bootVars => [Late]_<<machine, faults, Sector!sectorVars>>
    BY KeyStep
  <1> QED
    BY <1>1, <1>2, <1>3, PTL DEF BootSpec, GivesUpLate, Sector!GivesUpLate
-----------------------------------------------------------------------------
(* The order of the parts                                                   *)

\* start() calls its parts one after the other, and only two of them call BIOS.
Order ==
    /\ machine \in Machines
    /\ \/ at \in {"stage1", "entry", "a20", "switch", "disk", "partition", "fat",
                  "detect", "elf", "gdt", "log"}
       \/ at \in {"loop", "halted", "restarted", "undefined"}
    /\ calling \in {"no", "entering", "leaving"}
    /\ calling # "no" => at = "disk" \/ at = "detect"
    /\ disk \in {"unknown", "known", "failed"}

\* EnableA20 is over when it returns: the controller has nothing more to take,
\* so that it does not reset the processor later.
Calm ==
    /\ at # "a20" /\ at # "restarted" => line = 1 \/ line = 8
    /\ at = "stage1" \/ at = "entry" => line = 1

LEMMA PartIs ==
    ASSUME NEW part
    PROVE  Part(part) <=> part \in {"disk", "partition", "fat", "detect", "elf"}
PROOF
  <1>1. DOMAIN Parts = {1, 2, 3, 4, 5}
    BY DEF Parts
  <1>2. /\ Parts[1] = "disk" /\ Parts[2] = "partition" /\ Parts[3] = "fat"
        /\ Parts[4] = "detect" /\ Parts[5] = "elf"
    BY DEF Parts
  <1> QED
    BY <1>1, <1>2, Zenon DEF Part

LEMMA AfterIs ==
    /\ After("disk") = "partition" /\ After("partition") = "fat"
    /\ After("fat") = "detect" /\ After("detect") = "elf"
PROOF
  <1>1. DOMAIN Parts = 1 .. 5
    BY DEF Parts
  <1>2. /\ Parts[1] = "disk" /\ Parts[2] = "partition" /\ Parts[3] = "fat"
        /\ Parts[4] = "detect" /\ Parts[5] = "elf"
    BY DEF Parts
  <1>3. ASSUME NEW n \in 1 .. 4
        PROVE  After(Parts[n]) = Parts[1 + n]
    <2>1. \A k \in DOMAIN Parts : Parts[k] = Parts[n] => k = n
      BY <1>1, <1>2
    <2>2. (CHOOSE k \in DOMAIN Parts : Parts[k] = Parts[n]) = n
      BY <1>1, <2>1
    <2> QED
      BY <2>2 DEF After
  <1>4. /\ After(Parts[1]) = Parts[2] /\ After(Parts[2]) = Parts[3]
        /\ After(Parts[3]) = Parts[4] /\ After(Parts[4]) = Parts[5]
    BY <1>3
  <1> QED
    BY <1>2, <1>4

LEMMA CalmController ==
    ASSUME A20IInv, Calm, Controller
    PROVE  (at = "a20" \/ at = "restarted") /\ calling' = calling
PROOF
  <1>1. input # "none"
    BY DEF Controller, Keyboard!Controller, Keyboard!Take, Keyboard!TakeKeyboard,
       Keyboard!TakeReadPort, Keyboard!TakeWritePort, Keyboard!TakeData
  <1>2. line # 1 /\ line # 8
    BY <1>1 DEF A20IInv, A20Protocol
  <1> QED
    BY <1>2 DEF Calm, Controller, notKeyboard

LEMMA CalmStep ==
    ASSUME A20IInv, Order, Calm, [BootNext]_bootVars
    PROVE  Calm'
PROOF
  <1>1. CASE UNCHANGED bootVars
    BY <1>1 DEF Calm, bootVars, keyboardVars
  <1>2. CASE Stage1 \/ Reboot \/ Stage2 \/ Instruction
    BY <1>2 DEF Calm, Stage1, Reboot, Stage2, Instruction, keyboardVars
  <1>3. CASE EnableA20
    <2>1. CASE at = "a20" /\ Keyboard!Now = "done" /\ at' = "switch"
               /\ UNCHANGED keyboardVars
      <3>1. line = 8
        <4>1. line \in 1 .. 8
          BY DEF A20IInv, Keyboard!TypeOK, Keyboard!Program
        <4> QED
          BY <2>1, <4>1, A20LineOf
      <3> QED
        BY <2>1, <3>1 DEF Calm, keyboardVars
    <2>2. CASE at' = "a20"
      BY <2>2 DEF Calm
    <2> QED
      BY <1>3, <2>1, <2>2 DEF EnableA20
  <1>4. CASE Controller
    BY <1>4, CalmController DEF Controller, Calm
  <1>5. CASE Press
    BY <1>5 DEF Press, Calm, Keyboard!Press
  <1>6. CASE EnterStart \/ CallBios \/ Bios \/ BackInC
    BY <1>6 DEF Calm, EnterStart, CallBios, Bios, BackInC, notPart, keyboardVars
  <1>7. CASE DISK_Initialize \/ MBR_DetectPartition \/ FAT_Initialize \/ Memory_Detect
    BY <1>7, AfterIs DEF Calm, DISK_Initialize, MBR_DetectPartition, FAT_Initialize,
       Memory_Detect, notPart, keyboardVars
  <1>8. CASE LoadKernel
    BY <1>8 DEF Calm, LoadKernel, notPart, keyboardVars
  <1>9. CASE HAL_Initialize \/ LogRegions
    <2>1. UNCHANGED keyboardVars
      BY <1>9 DEF HAL_Initialize, LogRegions, notPart
    <2>2. at' \in {at, "log", "loop"} /\ at \in {"gdt", "log"}
      BY <1>9 DEF HAL_Initialize, LogRegions
    <2> QED
      BY <2>1, <2>2 DEF Calm, keyboardVars
  <1> QED
    BY <1>1, <1>2, <1>3, <1>4, <1>5, <1>6, <1>7, <1>8, <1>9 DEF BootNext, BootWork

LEMMA OrderStep ==
    ASSUME A20IInv, Calm, Order, [BootNext]_bootVars
    PROVE  Order'
PROOF
  <1>1. CASE UNCHANGED bootVars
    BY <1>1 DEF Order, bootVars
  <1>2. CASE Stage1 \/ Reboot \/ Stage2 \/ Instruction
    BY <1>2 DEF Order, Stage1, Reboot, Stage2, Instruction
  <1>3. CASE EnableA20 \/ Controller \/ Press
    <2>1. UNCHANGED <<machine, calling, disk>>
      BY <1>3 DEF EnableA20, Controller, Press, notKeyboard
    <2>2. at' = at \/ at' = "a20" \/ at' = "switch" \/ at' = "restarted"
      BY <1>3 DEF EnableA20, Controller, Press
    <2>3. calling # "no" => at' = at
      BY <1>3, CalmController DEF EnableA20, Press, Order
    <2> QED
      BY <2>1, <2>2, <2>3 DEF Order
  <1>4. CASE EnterStart \/ CallBios \/ Bios \/ BackInC
    BY <1>4 DEF Order, EnterStart, CallBios, Bios, BackInC, notPart
  <1>5. CASE DISK_Initialize \/ MBR_DetectPartition \/ FAT_Initialize \/ Memory_Detect
    BY <1>5, AfterIs DEF Order, DISK_Initialize, MBR_DetectPartition, FAT_Initialize,
       Memory_Detect, notPart, InC
  <1>6. CASE LoadKernel
    BY <1>6 DEF Order, LoadKernel, notPart, InC
  <1>7. CASE HAL_Initialize \/ LogRegions
    <2>1. UNCHANGED <<machine, calling, disk>>
      BY <1>7 DEF HAL_Initialize, LogRegions, notPart
    <2>2. at' \in {at, "log", "loop"} /\ at \in {"gdt", "log"}
      BY <1>7 DEF HAL_Initialize, LogRegions
    <2> QED
      BY <2>1, <2>2 DEF Order
  <1> QED
    BY <1>1, <1>2, <1>3, <1>4, <1>5, <1>6, <1>7 DEF BootNext, BootWork

LEMMA OrderInit == BootInit => Order /\ Calm
PROOF
  BY DEF BootInit, Order, Calm, Keyboard!Init
-----------------------------------------------------------------------------
(* The kernel                                                               *)

LEMMA KernelStep ==
    ASSUME IInv, [BootNext]_bootVars
    PROVE  IInv'
PROOF
  BY ElfStep, LoaderStep, IdleStep DEF elfVars

LEMMA KernelInit == BootInit => IInv
PROOF
  BY InitInv DEF BootInit

\* Whatever else the boot does, the kernel it starts is the one in the file, and
\* its loading writes to the segments only (elf.c:53-94, main.c:49-56).
THEOREM KernelAlwaysLoaded ==
    BootSpec => [](LoadedInPlace /\ CutOffIsRejected /\ OnlySegmentsTouched)
PROOF
  <1>1. IInv => LoadedInPlace /\ CutOffIsRejected /\ OnlySegmentsTouched
    BY InvLoads DEF IInv
  <1>2. IInv /\ [BootNext]_bootVars => IInv'
    BY KernelStep
  <1> QED
    BY <1>1, <1>2, KernelInit, PTL DEF BootSpec
-----------------------------------------------------------------------------
(* Instructions                                                             *)

Descriptors == [base : Nat, limit : Nat, big : BOOLEAN, code : BOOLEAN]

Cpus == [protected : BOOLEAN, interrupts : BOOLEAN, table : {"none", "stage2", "kernel"},
         cs : Descriptors, ds : Descriptors, es : Descriptors, ss : Descriptors]

PeOn(instr)  == instr.op = "pe" /\ instr.arg = TRUE
PeOff(instr) == instr.op = "pe" /\ instr.arg = FALSE

\* What one instruction does, and that it leaves the rest as it is.
LEMMA ExecutesCli ==
    ASSUME NEW c \in Cpus, NEW instr, instr.op = "cli",
           NEW e, e = Cpu!Executed(c, instr)
    PROVE  /\ e \in Cpus /\ ~e.interrupts
           /\ (e.protected <=> c.protected) /\ e.table = c.table
           /\ e.cs = c.cs /\ e.ds = c.ds /\ e.es = c.es /\ e.ss = c.ss
PROOF
  <1>1. e = [c EXCEPT !.interrupts = FALSE]
    BY Zenon DEF Cpu!Executed, Cpu!SegmentRegisters
  <1> QED
    BY <1>1, Zenon DEF Cpus

LEMMA ExecutesSti ==
    ASSUME NEW c \in Cpus, NEW instr, instr.op = "sti",
           NEW e, e = Cpu!Executed(c, instr)
    PROVE  /\ e \in Cpus /\ e.interrupts
           /\ (e.protected <=> c.protected) /\ e.table = c.table
           /\ e.cs = c.cs /\ e.ds = c.ds /\ e.es = c.es /\ e.ss = c.ss
PROOF
  <1>1. e = [c EXCEPT !.interrupts = TRUE]
    BY Zenon DEF Cpu!Executed, Cpu!SegmentRegisters
  <1> QED
    BY <1>1, Zenon DEF Cpus

LEMMA ExecutesLgdt ==
    ASSUME NEW c \in Cpus, NEW instr, instr.op = "lgdt", instr.arg \in {"stage2", "kernel"},
           NEW e, e = Cpu!Executed(c, instr)
    PROVE  /\ e \in Cpus /\ e.table = instr.arg
           /\ (e.protected <=> c.protected) /\ (e.interrupts <=> c.interrupts)
           /\ e.cs = c.cs /\ e.ds = c.ds /\ e.es = c.es /\ e.ss = c.ss
PROOF
  <1>1. e = [c EXCEPT !.table = instr.arg]
    BY Zenon DEF Cpu!Executed, Cpu!SegmentRegisters
  <1> QED
    BY <1>1, Zenon DEF Cpus

LEMMA ExecutesPeOn ==
    ASSUME NEW c \in Cpus, NEW instr, PeOn(instr),
           NEW e, e = Cpu!Executed(c, instr)
    PROVE  /\ e \in Cpus /\ e.protected
           /\ (e.interrupts <=> c.interrupts) /\ e.table = c.table
           /\ e.cs = c.cs /\ e.ds = c.ds /\ e.es = c.es /\ e.ss = c.ss
PROOF
  <1>1. e = [c EXCEPT !.protected = TRUE]
    BY Zenon DEF Cpu!Executed, Cpu!SegmentRegisters, PeOn
  <1> QED
    BY <1>1, Zenon DEF Cpus

LEMMA ExecutesPeOff ==
    ASSUME NEW c \in Cpus, NEW instr, PeOff(instr),
           NEW e, e = Cpu!Executed(c, instr)
    PROVE  /\ e \in Cpus /\ ~e.protected
           /\ (e.interrupts <=> c.interrupts) /\ e.table = c.table
           /\ e.cs = c.cs /\ e.ds = c.ds /\ e.es = c.es /\ e.ss = c.ss
PROOF
  <1>1. e = [c EXCEPT !.protected = FALSE]
    BY Zenon DEF Cpu!Executed, Cpu!SegmentRegisters, PeOff
  <1> QED
    BY <1>1, Zenon DEF Cpus

LEMMA ExecutesLoad ==
    ASSUME NEW c \in Cpus, NEW r \in Cpu!SegmentRegisters,
           NEW instr, instr.op = r \/ (instr.op = "jump" /\ r = "cs"),
           NEW d \in Descriptors, d = Cpu!Loaded(c, r, instr.arg),
           NEW e, e = Cpu!Executed(c, instr)
    PROVE  /\ e \in Cpus /\ (e.protected <=> c.protected) /\ e.table = c.table
           /\ (e.interrupts <=> c.interrupts)
           /\ e.cs = (IF r = "cs" THEN d ELSE c.cs)
           /\ e.ds = (IF r = "ds" THEN d ELSE c.ds)
           /\ e.es = (IF r = "es" THEN d ELSE c.es)
           /\ e.ss = (IF r = "ss" THEN d ELSE c.ss)
PROOF
  <1>2. e = [c EXCEPT ![r] = d]
    <2>1. CASE instr.op = r
      <3>1. instr.op \notin {"cli", "sti", "lgdt", "pe", "jump"}
        BY <2>1 DEF Cpu!SegmentRegisters
      <3> QED
        BY <2>1, <3>1, Zenon DEF Cpu!Executed
    <2>2. CASE instr.op = "jump" /\ r = "cs"
      BY <2>2, Zenon DEF Cpu!Executed, Cpu!SegmentRegisters
    <2> QED
      BY <2>1, <2>2
  <1>3. CASE r = "cs"
    BY <1>2, <1>3, Zenon DEF Cpus
  <1>4. CASE r = "ds"
    BY <1>2, <1>4, Zenon DEF Cpus
  <1>5. CASE r = "es"
    BY <1>2, <1>5, Zenon DEF Cpus
  <1>6. CASE r = "ss"
    BY <1>2, <1>6, Zenon DEF Cpus
  <1> QED
    BY <1>3, <1>4, <1>5, <1>6 DEF Cpu!SegmentRegisters

\* A load in real mode changes the base.
LEMMA LoadsReal ==
    ASSUME NEW c \in Cpus, ~c.protected, NEW r \in Cpu!SegmentRegisters,
           NEW d, d = Cpu!Loaded(c, r, 0)
    PROVE  d \in Descriptors /\ d.base = 0 /\ (d.big <=> c[r].big)
PROOF
  <1>1. c[r] \in Descriptors
    BY Zenon DEF Cpus, Cpu!SegmentRegisters
  <1>2. d = [c[r] EXCEPT !.base = 0 * 16] /\ 0 * 16 = 0 /\ 0 \in Nat
    BY DEF Cpu!Loaded
  <1>3. d = [c[r] EXCEPT !.base = 0]
    BY <1>2, Zenon
  <1> QED
    BY <1>1, <1>2, <1>3, Zenon DEF Descriptors

\* What the processor finds in the tables.
LEMMA DecodesRaw ==
    ASSUME NEW access \in {146, 154}, NEW flags \in {15, 207},
           NEW d, d = Cpu!Decode(Cpu!Raw(access, flags))
    PROVE  /\ d \in Descriptors /\ d.base = 0
           /\ flags = 207 => Cpu!Flat(d)
           /\ flags = 15 => ~d.big
           /\ access = 154 => d.code
PROOF
  <1> DEFINE raw   == Cpu!Raw(access, flags)
             limit == (raw.FlagsLimitHi % 16) * 65536 + raw.LimitLow
             base  == (raw.BaseHigh * 256 + raw.BaseMiddle) * 65536 + raw.BaseLow
             pages == IF raw.FlagsLimitHi \div 16 >= 8 THEN limit ELSE limit \div 4096
             big   == ((raw.FlagsLimitHi \div 16) \div 4) % 2 = 1
             code  == (raw.Access \div 8) = 19
             e     == [base |-> base, limit |-> pages, big |-> big, code |-> code]
  <1>1. /\ raw.LimitLow = 65535 /\ raw.BaseLow = 0 /\ raw.BaseMiddle = 0
        /\ raw.BaseHigh = 0 /\ raw.Access = access /\ raw.FlagsLimitHi = flags
    BY SMT DEF Cpu!Raw
  <1>2. d = e
    BY SMT DEF Cpu!Decode
  <1> HIDE DEF raw
  <1>3. base = 0 /\ pages \in Nat /\ (flags = 207 => pages = 1048575)
    BY <1>1, SMT
  <1>4. /\ big \in BOOLEAN /\ code \in BOOLEAN
        /\ (flags = 207 => big) /\ (flags = 15 => ~big) /\ (access = 154 => code)
    BY <1>1, SMT
  <1> HIDE DEF base, pages, big, code
  <1>5. /\ d.base = base /\ d.limit = pages /\ (d.big <=> big) /\ (d.code <=> code)
        /\ d \in Descriptors
    <2>1. base \in Nat /\ pages \in Nat
      BY <1>3, SMT
    <2>2. big \in BOOLEAN /\ code \in BOOLEAN
      BY <1>4
    <2>3. e \in Descriptors
      BY <2>1, <2>2, Zenon DEF Descriptors
    <2>4. (e.big <=> big) /\ (e.code <=> code)
      BY Zenon
    <2>5. e.base = base /\ e.limit = pages
      BY Zenon
    <2> HIDE DEF e
    <2> QED
      BY <1>2, <2>3, <2>4, <2>5
  <1> QED
    BY <1>3, <1>4, <1>5, SMT DEF Cpu!Flat

\* Both tables describe all of memory for 32-bit code and data; the one of
\* stage 2 also has segments of 16 bits.
LEMMA LoadsProtected ==
    ASSUME NEW c \in Cpus, c.protected, c.table \in {"stage2", "kernel"}, NEW r
    PROVE  /\ Cpu!Loaded(c, r, 8) \in Descriptors /\ Cpu!Flat(Cpu!Loaded(c, r, 8))
           /\ Cpu!Loaded(c, r, 8).code
           /\ Cpu!Loaded(c, r, 16) \in Descriptors /\ Cpu!Flat(Cpu!Loaded(c, r, 16))
           /\ c.table = "stage2" =>
                /\ Cpu!Loaded(c, r, 24) \in Descriptors
                /\ Cpu!Loaded(c, r, 24).base = 0 /\ ~Cpu!Loaded(c, r, 24).big
PROOF
  <1>1. \A s : Cpu!Loaded(c, r, s) = Cpu!Decode(Cpu!Tables[c.table][s])
    BY Zenon DEF Cpu!Loaded
  <1>2. Cpu!Tables["stage2"] = Cpu!g_GDT_stage2 /\ Cpu!Tables["kernel"] = Cpu!g_GDT_kernel
    BY SMT DEF Cpu!Tables
  <1>3. /\ Cpu!g_GDT_stage2[8] = Cpu!Raw(154, 207)
        /\ Cpu!g_GDT_stage2[16] = Cpu!Raw(146, 207)
        /\ Cpu!g_GDT_stage2[24] = Cpu!Raw(154, 15)
    <2>1. 8 # 16 /\ 8 # 24 /\ 8 # 32 /\ 16 # 24 /\ 16 # 32 /\ 24 # 32
      BY SMT
    <2> QED
      BY <2>1, Zenon DEF Cpu!g_GDT_stage2
  <1>4. /\ Cpu!g_GDT_kernel[8] = Cpu!Raw(154, 207)
        /\ Cpu!g_GDT_kernel[16] = Cpu!Raw(146, 207)
    BY SMT DEF Cpu!g_GDT_kernel, Cpu!GDT_ENTRY, Cpu!Raw, Cpu!ACCESS_PRESENT,
       Cpu!READ_WRITE, Cpu!CODE_SEGMENT, Cpu!DATA_SEGMENT, Cpu!FLAG_32BIT, Cpu!FLAG_4K
  <1>5. CASE c.table = "stage2"
    <2>1. /\ Cpu!Loaded(c, r, 8) = Cpu!Decode(Cpu!Raw(154, 207))
          /\ Cpu!Loaded(c, r, 16) = Cpu!Decode(Cpu!Raw(146, 207))
          /\ Cpu!Loaded(c, r, 24) = Cpu!Decode(Cpu!Raw(154, 15))
      BY <1>1, <1>2, <1>3, <1>5, SMT
    <2> QED
      BY <2>1, DecodesRaw, SMT
  <1>6. CASE c.table = "kernel"
    <2>1. /\ Cpu!Loaded(c, r, 8) = Cpu!Decode(Cpu!Raw(154, 207))
          /\ Cpu!Loaded(c, r, 16) = Cpu!Decode(Cpu!Raw(146, 207))
      BY <1>1, <1>2, <1>4, <1>6, SMT
    <2> QED
      BY <2>1, <1>6, DecodesRaw, SMT
  <1> QED
    BY <1>5, <1>6

IsProgram(program) == \E S : program \in Seq(S)

\* A step takes the next instruction of a program that is under way.
Doing(program, n) ==
    n \in 1 .. Len(program) + 1 /\ todo = SubSeq(program, n, Len(program))

LEMMA NextInstruction ==
    ASSUME NEW program, IsProgram(program), NEW n \in Nat, Doing(program, n)
    PROVE  /\ todo = <<>> <=> n = Len(program) + 1
           /\ n <= Len(program) => Head(todo) = program[n]
           /\ Cpu!Step => /\ n <= Len(program)
                          /\ cpu' = Cpu!Executed(cpu, program[n])
                          /\ Doing(program, n + 1)'
PROOF
  <1> PICK S : program \in Seq(S)
    BY DEF IsProgram
  <1>1. Len(program) \in Nat /\ n \in 1 .. Len(program) + 1
    BY DEF Doing
  <1>2. CASE n = Len(program) + 1
    <2>1. todo = <<>>
      BY <1>1, <1>2, SubSeqEmpty DEF Doing
    <2> QED
      BY <1>2, <2>1 DEF Cpu!Step
  <1>3. CASE n <= Len(program)
    <2>1. Head(todo) = program[n] /\ Tail(todo) = SubSeq(program, n + 1, Len(program))
      BY <1>1, <1>3, HeadTailOfSubSeq DEF Doing
    <2>2. Len(todo) = Len(program) - n + 1 /\ todo # <<>>
      <3>1. \A k \in n .. Len(program) : program[k] \in S
        BY <1>1, ElementOfSeq
      <3>2. Len(todo) = Len(program) - n + 1
        BY <1>1, <1>3, <3>1, SubSeqProperties DEF Doing
      <3> QED
        BY <1>1, <1>3, <3>2, EmptySeq
    <2>3. Cpu!Step => Doing(program, n + 1)'
      BY <1>1, <1>3, <2>1 DEF Cpu!Step, Doing
    <2> QED
      BY <1>1, <1>3, <2>1, <2>2, <2>3 DEF Cpu!Step
  <1> QED
    BY <1>1, <1>2, <1>3

LEMMA TupleIsSeq ==
    ASSUME NEW a, NEW b, NEW c, NEW d, NEW e, NEW f
    PROVE  /\ <<a, b>> \in Seq({a, b})
           /\ <<a, b, c, d, e>> \in Seq({a, b, c, d, e})
           /\ <<a, b, c, d, e, f>> \in Seq({a, b, c, d, e, f})
PROOF
  OBVIOUS

LEMMA Programs ==
    /\ Len(Cpu!entry_A20) = 2 /\ IsProgram(Cpu!entry_A20)
    /\ Len(Cpu!entry_pmode) = 5 /\ IsProgram(Cpu!entry_pmode)
    /\ Len(Cpu!x86_EnterRealMode) = 6 /\ IsProgram(Cpu!x86_EnterRealMode)
    /\ Len(Cpu!x86_EnterProtectedMode) = 5
    /\ IsProgram(Cpu!x86_EnterProtectedMode)
    /\ Len(Cpu!i686_GDT_Load) = 5 /\ IsProgram(Cpu!i686_GDT_Load)
PROOF
  <1>1. Len(Cpu!entry_A20) = 2 /\ IsProgram(Cpu!entry_A20)
    BY TupleIsSeq DEF IsProgram, Cpu!entry_A20
  <1>2. Len(Cpu!entry_pmode) = 5 /\ IsProgram(Cpu!entry_pmode)
    BY TupleIsSeq, ZenonT(60) DEF IsProgram, Cpu!entry_pmode
  <1>3. Len(Cpu!x86_EnterRealMode) = 6 /\ IsProgram(Cpu!x86_EnterRealMode)
    BY TupleIsSeq, ZenonT(60) DEF IsProgram, Cpu!x86_EnterRealMode
  <1>4. /\ Len(Cpu!x86_EnterProtectedMode) = 5
        /\ IsProgram(Cpu!x86_EnterProtectedMode)
    BY TupleIsSeq, ZenonT(60) DEF IsProgram, Cpu!x86_EnterProtectedMode
  <1>5. Len(Cpu!i686_GDT_Load) = 5 /\ IsProgram(Cpu!i686_GDT_Load)
    BY TupleIsSeq, ZenonT(60) DEF IsProgram, Cpu!i686_GDT_Load
  <1> QED
    BY <1>1, <1>2, <1>3, <1>4, <1>5

\* An instruction of a segment of the width it was assembled for.
Fits(program, n) ==
    n <= Len(program) => ((program[n].bits = 32) <=> cpu.cs.big)

LEMMA FlatFacts ==
    ASSUME NEW d, Cpu!Flat(d)
    PROVE  d.base = 0 /\ d.big
PROOF
  BY DEF Cpu!Flat

Based(c) == c.cs.base = 0 /\ c.ds.base = 0 /\ c.ss.base = 0

LEMMA RealLoad ==
    ASSUME NEW c \in Cpus, ~c.protected, ~c.cs.big, Based(c), NEW r \in {"cs", "ds", "ss"},
           NEW instr, instr.op = r \/ (instr.op = "jump" /\ r = "cs"), instr.arg = 0,
           NEW e, e = Cpu!Executed(c, instr)
    PROVE  /\ e \in Cpus /\ ~e.protected /\ ~e.cs.big /\ Based(e) /\ e.table = c.table
           /\ (e.interrupts <=> c.interrupts)
PROOF
  <1> DEFINE d == Cpu!Loaded(c, r, instr.arg)
  <1>1. r \in Cpu!SegmentRegisters /\ (r = "cs" => c[r] = c.cs)
    BY Zenon DEF Cpu!SegmentRegisters
  <1>2. d \in Descriptors /\ d.base = 0 /\ (r = "cs" => ~d.big)
    BY <1>1, LoadsReal
  <1> HIDE DEF d
  <1>3. /\ e \in Cpus /\ (e.protected <=> c.protected) /\ e.table = c.table
        /\ (e.interrupts <=> c.interrupts)
        /\ e.cs = (IF r = "cs" THEN d ELSE c.cs)
        /\ e.ds = (IF r = "ds" THEN d ELSE c.ds)
        /\ e.ss = (IF r = "ss" THEN d ELSE c.ss)
    BY <1>1, <1>2, ExecutesLoad DEF d
  <1> QED
    BY <1>2, <1>3 DEF Based

\* entry.asm before EnableA20.
Entering(n) ==
    /\ cpu \in Cpus /\ ~cpu.protected /\ ~cpu.cs.big /\ Based(cpu)
    /\ n >= 2 => ~cpu.interrupts

LEMMA EnteringFits ==
    ASSUME NEW n \in 1 .. 3, Entering(n)
    PROVE  Fits(Cpu!entry_A20, n)
PROOF
  BY Programs DEF Fits, Entering, Cpu!entry_A20, Cpu!I

LEMMA EnteringStep ==
    ASSUME NEW n \in 1 .. 3, Doing(Cpu!entry_A20, n), Entering(n), Cpu!Step
    PROVE  Doing(Cpu!entry_A20, n + 1)' /\ Entering(n + 1)'
PROOF
  <1>1. /\ n <= 2 /\ cpu' = Cpu!Executed(cpu, Cpu!entry_A20[n])
        /\ Doing(Cpu!entry_A20, n + 1)'
    BY Programs, NextInstruction
  <1>2. CASE n = 1
    <2>1. Cpu!entry_A20[n].op = "cli"
      BY <1>2 DEF Cpu!entry_A20, Cpu!I
    <2>2. /\ cpu' \in Cpus /\ ~cpu'.interrupts /\ (cpu'.protected <=> cpu.protected)
          /\ cpu'.cs = cpu.cs /\ cpu'.ds = cpu.ds /\ cpu'.ss = cpu.ss
      BY <1>1, <2>1, ExecutesCli DEF Entering
    <2> QED
      BY <1>1, <2>2 DEF Entering, Based
  <1>3. CASE n = 2
    <2>1. Cpu!entry_A20[n].op = "ss" /\ Cpu!entry_A20[n].arg = 0
      BY <1>3 DEF Cpu!entry_A20, Cpu!I
    <2>2. /\ cpu' \in Cpus /\ ~cpu'.protected /\ ~cpu'.cs.big /\ Based(cpu')
          /\ (cpu'.interrupts <=> cpu.interrupts)
      BY <1>1, <2>1, RealLoad DEF Entering
    <2> QED
      BY <1>1, <1>3, <2>2 DEF Entering
  <1> QED
    BY <1>1, <1>2, <1>3

LEMMA PeInstructions ==
    ASSUME NEW bits
    PROVE  /\ Cpu!I(bits, "pe", TRUE).bits = bits /\ PeOn(Cpu!I(bits, "pe", TRUE))
           /\ Cpu!I(bits, "pe", FALSE).bits = bits /\ PeOff(Cpu!I(bits, "pe", FALSE))
PROOF
  <1>1. /\ Cpu!I(bits, "pe", TRUE).bits = bits
        /\ Cpu!I(bits, "pe", TRUE).op = "pe" /\ Cpu!I(bits, "pe", TRUE).arg = TRUE
    BY Zenon DEF Cpu!I
  <1>2. /\ Cpu!I(bits, "pe", FALSE).bits = bits
        /\ Cpu!I(bits, "pe", FALSE).op = "pe" /\ Cpu!I(bits, "pe", FALSE).arg = FALSE
    BY Zenon DEF Cpu!I
  <1> QED
    BY <1>1, <1>2, Zenon DEF PeOn, PeOff

\* The way to protected mode, from entry.asm and from a call of BIOS.
Protecting(n) ==
    /\ cpu \in Cpus
    /\ n >= 2 => ~cpu.interrupts /\ cpu.table = "stage2"
    /\ n <= 2 => ~cpu.protected
    /\ n >= 3 => cpu.protected
    /\ n <= 3 => ~cpu.cs.big
    /\ n >= 4 => Cpu!Flat(cpu.cs) /\ cpu.cs.code
    /\ n >= 5 => Cpu!Flat(cpu.ds)
    /\ n >= 6 => Cpu!Flat(cpu.ss)

LEMMA ProtectingPrograms ==
    ASSUME NEW program \in {Cpu!entry_pmode, Cpu!x86_EnterProtectedMode}
    PROVE  /\ Len(program) = 5 /\ IsProgram(program)
           /\ program[1].bits = 16
           /\ program = Cpu!entry_pmode =>
                program[1].op = "lgdt" /\ program[1].arg = "stage2"
           /\ program = Cpu!x86_EnterProtectedMode => program[1].op = "cli"
           /\ program[2].bits = 16 /\ PeOn(program[2])
           /\ program[3].bits = 16 /\ program[3].op = "jump" /\ program[3].arg = 8
           /\ program[4].bits = 32 /\ program[4].op = "ds" /\ program[4].arg = 16
           /\ program[5].bits = 32 /\ program[5].op = "ss" /\ program[5].arg = 16
PROOF
  <1>1. CASE program = Cpu!entry_pmode
    <2>1. /\ program[1] = Cpu!I(16, "lgdt", "stage2") /\ program[2] = Cpu!I(16, "pe", TRUE)
          /\ program[3] = Cpu!I(16, "jump", 8) /\ program[4] = Cpu!I(32, "ds", 16)
          /\ program[5] = Cpu!I(32, "ss", 16)
      BY <1>1 DEF Cpu!entry_pmode
    <2>2. program # Cpu!x86_EnterProtectedMode
      <3>1. Cpu!x86_EnterProtectedMode[1] = Cpu!I(16, "cli", 0)
        BY DEF Cpu!x86_EnterProtectedMode
      <3> QED
        BY <2>1, <3>1 DEF Cpu!I
    <2>3. program[2].bits = 16 /\ PeOn(program[2])
      BY <2>1, PeInstructions, Zenon
    <2> QED
      BY <1>1, <2>1, <2>2, <2>3, Programs DEF Cpu!I
  <1>2. CASE program = Cpu!x86_EnterProtectedMode
    <2>1. /\ program[1] = Cpu!I(16, "cli", 0) /\ program[2] = Cpu!I(16, "pe", TRUE)
          /\ program[3] = Cpu!I(16, "jump", 8) /\ program[4] = Cpu!I(32, "ds", 16)
          /\ program[5] = Cpu!I(32, "ss", 16)
      BY <1>2 DEF Cpu!x86_EnterProtectedMode
    <2>2. program # Cpu!entry_pmode
      <3>1. Cpu!entry_pmode[1] = Cpu!I(16, "lgdt", "stage2")
        BY DEF Cpu!entry_pmode
      <3> QED
        BY <2>1, <3>1 DEF Cpu!I
    <2>3. program[2].bits = 16 /\ PeOn(program[2])
      BY <2>1, PeInstructions, Zenon
    <2> QED
      BY <1>2, <2>1, <2>2, <2>3, Programs DEF Cpu!I
  <1> QED
    BY <1>1, <1>2

LEMMA ProtectingFits ==
    ASSUME NEW program \in {Cpu!entry_pmode, Cpu!x86_EnterProtectedMode},
           NEW n \in 1 .. 6, Protecting(n)
    PROVE  Fits(program, n)
PROOF
  <1>1. n >= 4 => cpu.cs.big
    BY FlatFacts DEF Protecting
  <1> QED
    BY <1>1, ProtectingPrograms DEF Fits, Protecting

LEMMA ProtectingStep ==
    ASSUME NEW program \in {Cpu!entry_pmode, Cpu!x86_EnterProtectedMode},
           NEW n \in 1 .. 6, Doing(program, n), Protecting(n), Cpu!Step,
           program = Cpu!entry_pmode => ~cpu.interrupts,
           program = Cpu!x86_EnterProtectedMode => cpu.table = "stage2"
    PROVE  Doing(program, n + 1)' /\ Protecting(n + 1)' /\ n < 6
PROOF
  <1> DEFINE instr == program[n]
  <1>1. /\ n <= 5 /\ cpu' = Cpu!Executed(cpu, instr)
        /\ Doing(program, n + 1)'
    BY ProtectingPrograms, NextInstruction
  <1>2. /\ cpu \in Cpus /\ "cs" \in Cpu!SegmentRegisters
        /\ "ds" \in Cpu!SegmentRegisters /\ "ss" \in Cpu!SegmentRegisters
    BY DEF Protecting, Cpu!SegmentRegisters
  <1>3. CASE n = 1 /\ program = Cpu!entry_pmode
    <2>1. instr.op = "lgdt" /\ instr.arg = "stage2"
      BY <1>3, ProtectingPrograms
    <2> HIDE DEF instr
    <2>2. /\ cpu' \in Cpus /\ cpu'.table = "stage2" /\ cpu'.cs = cpu.cs
          /\ (cpu'.protected <=> cpu.protected) /\ (cpu'.interrupts <=> cpu.interrupts)
      BY <1>1, <1>2, <2>1, ExecutesLgdt
    <2> QED
      BY <1>1, <1>3, <2>2 DEF Protecting
  <1>4. CASE n = 1 /\ program = Cpu!x86_EnterProtectedMode
    <2>1. instr.op = "cli"
      BY <1>4, ProtectingPrograms
    <2> HIDE DEF instr
    <2>2. /\ cpu' \in Cpus /\ cpu'.table = cpu.table /\ cpu'.cs = cpu.cs
          /\ (cpu'.protected <=> cpu.protected) /\ ~cpu'.interrupts
      BY <1>1, <1>2, <2>1, ExecutesCli
    <2> QED
      BY <1>1, <1>4, <2>2 DEF Protecting
  <1>5. CASE n = 2
    <2>1. PeOn(instr)
      BY <1>5, ProtectingPrograms
    <2> HIDE DEF instr
    <2>2. /\ cpu' \in Cpus /\ cpu'.protected /\ cpu'.table = cpu.table
          /\ (cpu'.interrupts <=> cpu.interrupts) /\ cpu'.cs = cpu.cs
      BY <1>1, <1>2, <2>1, ExecutesPeOn
    <2> QED
      BY <1>1, <1>5, <2>2 DEF Protecting
  <1>6. n >= 3 => cpu.protected /\ cpu.table = "stage2" /\ ~cpu.interrupts
    BY DEF Protecting
  <1>7. CASE n = 3
    <2> DEFINE d == Cpu!Loaded(cpu, "cs", instr.arg)
    <2>1. instr.op = "jump" /\ instr.arg = 8
      BY <1>7, ProtectingPrograms
    <2> HIDE DEF instr
    <2>2. d \in Descriptors /\ Cpu!Flat(d) /\ d.code
      BY <1>2, <1>6, <1>7, <2>1, LoadsProtected
    <2> HIDE DEF d
    <2>3. /\ cpu' \in Cpus /\ (cpu'.protected <=> cpu.protected) /\ cpu'.table = cpu.table
          /\ (cpu'.interrupts <=> cpu.interrupts) /\ cpu'.cs = d
      BY <1>1, <1>2, <2>1, <2>2, ExecutesLoad DEF d
    <2> QED
      BY <1>1, <1>6, <1>7, <2>2, <2>3 DEF Protecting
  <1>8. CASE n = 4
    <2> DEFINE d == Cpu!Loaded(cpu, "ds", instr.arg)
    <2>1. instr.op = "ds" /\ instr.arg = 16
      BY <1>8, ProtectingPrograms
    <2> HIDE DEF instr
    <2>2. d \in Descriptors /\ Cpu!Flat(d)
      BY <1>2, <1>6, <1>8, <2>1, LoadsProtected
    <2> HIDE DEF d
    <2>3. /\ cpu' \in Cpus /\ (cpu'.protected <=> cpu.protected) /\ cpu'.table = cpu.table
          /\ (cpu'.interrupts <=> cpu.interrupts) /\ cpu'.cs = cpu.cs /\ cpu'.ds = d
      BY <1>1, <1>2, <2>1, <2>2, ExecutesLoad DEF d
    <2> QED
      BY <1>1, <1>6, <1>8, <2>2, <2>3 DEF Protecting
  <1>9. CASE n = 5
    <2> DEFINE d == Cpu!Loaded(cpu, "ss", instr.arg)
    <2>1. instr.op = "ss" /\ instr.arg = 16
      BY <1>9, ProtectingPrograms
    <2> HIDE DEF instr
    <2>2. d \in Descriptors /\ Cpu!Flat(d)
      BY <1>2, <1>6, <1>9, <2>1, LoadsProtected
    <2> HIDE DEF d
    <2>3. /\ cpu' \in Cpus /\ (cpu'.protected <=> cpu.protected) /\ cpu'.table = cpu.table
          /\ (cpu'.interrupts <=> cpu.interrupts)
          /\ cpu'.cs = cpu.cs /\ cpu'.ds = cpu.ds /\ cpu'.ss = d
      BY <1>1, <1>2, <2>1, <2>2, ExecutesLoad DEF d
    <2> QED
      BY <1>1, <1>6, <1>9, <2>2, <2>3 DEF Protecting
  <1> QED
    BY <1>1, <1>3, <1>4, <1>5, <1>7, <1>8, <1>9

\* The way to real mode, for a call of BIOS.
Unprotecting(n) ==
    /\ cpu \in Cpus /\ cpu.table = "stage2" /\ Based(cpu)
    /\ n = 1 => cpu.cs.big
    /\ n >= 2 => ~cpu.cs.big
    /\ n <= 2 => cpu.protected
    /\ n >= 3 => ~cpu.protected
    /\ n <= 6 => ~cpu.interrupts
    /\ n >= 7 => cpu.interrupts

LEMMA UnprotectingProgram ==
    LET program == Cpu!x86_EnterRealMode
    IN  /\ Len(program) = 6 /\ IsProgram(program)
        /\ program[1].bits = 32 /\ program[1].op = "jump" /\ program[1].arg = 24
        /\ program[2].bits = 16 /\ PeOff(program[2])
        /\ program[3].bits = 16 /\ program[3].op = "jump" /\ program[3].arg = 0
        /\ program[4].bits = 16 /\ program[4].op = "ds" /\ program[4].arg = 0
        /\ program[5].bits = 16 /\ program[5].op = "ss" /\ program[5].arg = 0
        /\ program[6].bits = 16 /\ program[6].op = "sti"
PROOF
  <1> DEFINE program == Cpu!x86_EnterRealMode
  <1>1. /\ program[1] = Cpu!I(32, "jump", 24) /\ program[2] = Cpu!I(16, "pe", FALSE)
        /\ program[3] = Cpu!I(16, "jump", 0) /\ program[4] = Cpu!I(16, "ds", 0)
        /\ program[5] = Cpu!I(16, "ss", 0) /\ program[6] = Cpu!I(16, "sti", 0)
    BY DEF Cpu!x86_EnterRealMode
  <1>2. program[2].bits = 16 /\ PeOff(program[2])
    BY <1>1, PeInstructions, Zenon
  <1> QED
    BY <1>1, <1>2, Programs DEF Cpu!I

LEMMA UnprotectingFits ==
    ASSUME NEW n \in 1 .. 7, Unprotecting(n)
    PROVE  Fits(Cpu!x86_EnterRealMode, n)
PROOF
  BY UnprotectingProgram DEF Fits, Unprotecting

LEMMA UnprotectingStep ==
    ASSUME NEW n \in 1 .. 7, Doing(Cpu!x86_EnterRealMode, n), Unprotecting(n), Cpu!Step
    PROVE  Doing(Cpu!x86_EnterRealMode, n + 1)' /\ Unprotecting(n + 1)' /\ n < 7
PROOF
  <1> DEFINE instr == Cpu!x86_EnterRealMode[n]
  <1>1. /\ n <= 6 /\ cpu' = Cpu!Executed(cpu, instr)
        /\ Doing(Cpu!x86_EnterRealMode, n + 1)'
    BY UnprotectingProgram, NextInstruction
  <1>2. cpu \in Cpus
    BY DEF Unprotecting
  <1>3. CASE n = 1
    <2> DEFINE d == Cpu!Loaded(cpu, "cs", instr.arg)
    <2>1. instr.op = "jump" /\ instr.arg = 24 /\ "cs" \in Cpu!SegmentRegisters
      BY <1>3, UnprotectingProgram DEF Cpu!SegmentRegisters
    <2> HIDE DEF instr
    <2>2. d \in Descriptors /\ d.base = 0 /\ ~d.big
      BY <1>2, <1>3, <2>1, LoadsProtected DEF Unprotecting
    <2> HIDE DEF d
    <2>3. /\ cpu' \in Cpus /\ (cpu'.protected <=> cpu.protected) /\ cpu'.table = cpu.table
          /\ (cpu'.interrupts <=> cpu.interrupts)
          /\ cpu'.cs = d /\ cpu'.ds = cpu.ds /\ cpu'.ss = cpu.ss
      BY <1>1, <1>2, <2>1, <2>2, ExecutesLoad DEF d
    <2> QED
      BY <1>1, <1>3, <2>2, <2>3 DEF Unprotecting, Based
  <1>4. CASE n = 2
    <2>1. PeOff(instr)
      BY <1>4, UnprotectingProgram
    <2> HIDE DEF instr
    <2>2. /\ cpu' \in Cpus /\ ~cpu'.protected /\ cpu'.table = cpu.table
          /\ (cpu'.interrupts <=> cpu.interrupts)
          /\ cpu'.cs = cpu.cs /\ cpu'.ds = cpu.ds /\ cpu'.ss = cpu.ss
      BY <1>1, <1>2, <2>1, ExecutesPeOff
    <2> QED
      BY <1>1, <1>4, <2>2 DEF Unprotecting, Based
  <1>5. CASE n \in {3, 4, 5}
    <2>1. PICK r \in {"cs", "ds", "ss"} :
             /\ instr.op = r \/ (instr.op = "jump" /\ r = "cs")
             /\ instr.arg = 0
      BY <1>5, UnprotectingProgram
    <2> HIDE DEF instr
    <2>2. /\ cpu' \in Cpus /\ ~cpu'.protected /\ ~cpu'.cs.big /\ Based(cpu')
          /\ cpu'.table = cpu.table /\ (cpu'.interrupts <=> cpu.interrupts)
      BY <1>1, <1>2, <1>5, <2>1, RealLoad DEF Unprotecting
    <2> QED
      BY <1>1, <1>5, <2>2 DEF Unprotecting
  <1>6. CASE n = 6
    <2>1. instr.op = "sti"
      BY <1>6, UnprotectingProgram
    <2> HIDE DEF instr
    <2>2. /\ cpu' \in Cpus /\ cpu'.interrupts /\ (cpu'.protected <=> cpu.protected)
          /\ cpu'.table = cpu.table
          /\ cpu'.cs = cpu.cs /\ cpu'.ds = cpu.ds /\ cpu'.ss = cpu.ss
      BY <1>1, <1>2, <2>1, ExecutesSti
    <2> QED
      BY <1>1, <1>6, <2>2 DEF Unprotecting, Based
  <1> QED
    BY <1>1, <1>3, <1>4, <1>5, <1>6

\* What C code runs on, as FitsC, register by register.
InFlat(c) ==
    /\ c \in Cpus /\ c.protected /\ c.cs.code
    /\ Cpu!Flat(c.cs) /\ Cpu!Flat(c.ds) /\ Cpu!Flat(c.ss)

\* i686_GDT_Load.
Loading(n) ==
    /\ InFlat(cpu) /\ ~cpu.interrupts
    /\ n >= 2 => cpu.table = "kernel"
    /\ n >= 5 => Cpu!Flat(cpu.es)

LEMMA LoadingProgram ==
    LET program == Cpu!i686_GDT_Load
    IN  /\ Len(program) = 5 /\ IsProgram(program)
        /\ program[1].bits = 32 /\ program[1].op = "lgdt" /\ program[1].arg = "kernel"
        /\ program[2].bits = 32 /\ program[2].op = "jump" /\ program[2].arg = 8
        /\ program[3].bits = 32 /\ program[3].op = "ds" /\ program[3].arg = 16
        /\ program[4].bits = 32 /\ program[4].op = "es" /\ program[4].arg = 16
        /\ program[5].bits = 32 /\ program[5].op = "ss" /\ program[5].arg = 16
PROOF
  <1> DEFINE program == Cpu!i686_GDT_Load
  <1>1. /\ program[1] = Cpu!I(32, "lgdt", "kernel") /\ program[2] = Cpu!I(32, "jump", 8)
        /\ program[3] = Cpu!I(32, "ds", 16) /\ program[4] = Cpu!I(32, "es", 16)
        /\ program[5] = Cpu!I(32, "ss", 16)
    BY DEF Cpu!i686_GDT_Load
  <1> QED
    BY <1>1, Programs DEF Cpu!I

LEMMA LoadingFits ==
    ASSUME NEW n \in 1 .. 6, Loading(n)
    PROVE  Fits(Cpu!i686_GDT_Load, n)
PROOF
  <1>1. cpu.cs.big
    BY FlatFacts DEF Loading, InFlat
  <1> QED
    BY <1>1, LoadingProgram DEF Fits

LEMMA LoadingStep ==
    ASSUME NEW n \in 1 .. 6, Doing(Cpu!i686_GDT_Load, n), Loading(n), Cpu!Step
    PROVE  Doing(Cpu!i686_GDT_Load, n + 1)' /\ Loading(n + 1)' /\ n < 6
PROOF
  <1> DEFINE instr == Cpu!i686_GDT_Load[n]
  <1>1. /\ n <= 5 /\ cpu' = Cpu!Executed(cpu, instr)
        /\ Doing(Cpu!i686_GDT_Load, n + 1)'
    BY LoadingProgram, NextInstruction
  <1>2. cpu \in Cpus
    BY DEF Loading, InFlat
  <1>3. CASE n = 1
    <2>1. instr.op = "lgdt" /\ instr.arg = "kernel"
      BY <1>3, LoadingProgram
    <2> HIDE DEF instr
    <2>2. /\ cpu' \in Cpus /\ (cpu'.protected <=> cpu.protected) /\ cpu'.table = "kernel"
          /\ (cpu'.interrupts <=> cpu.interrupts)
          /\ cpu'.cs = cpu.cs /\ cpu'.ds = cpu.ds /\ cpu'.ss = cpu.ss
      BY <1>1, <1>2, <2>1, ExecutesLgdt
    <2> QED
      BY <1>1, <1>3, <2>2 DEF Loading, InFlat
  <1>4. CASE n \in 2 .. 5
    <2>1. PICK r \in Cpu!SegmentRegisters :
             /\ n = 2 => r = "cs" /\ instr.op = "jump" /\ instr.arg = 8
             /\ n = 3 => r = "ds" /\ instr.op = "ds" /\ instr.arg = 16
             /\ n = 4 => r = "es" /\ instr.op = "es" /\ instr.arg = 16
             /\ n = 5 => r = "ss" /\ instr.op = "ss" /\ instr.arg = 16
      BY <1>4, LoadingProgram DEF Cpu!SegmentRegisters
    <2> DEFINE d == Cpu!Loaded(cpu, r, instr.arg)
    <2>2. cpu.protected /\ cpu.table = "kernel"
      BY <1>4 DEF Loading, InFlat
    <2>3. instr.op = r \/ (instr.op = "jump" /\ r = "cs")
      BY <1>4, <2>1
    <2>4. instr.arg \in {8, 16} /\ (r = "cs" => instr.arg = 8)
      BY <1>4, <2>1
    <2> HIDE DEF instr
    <2>5. d \in Descriptors /\ Cpu!Flat(d) /\ (r = "cs" => d.code)
      BY <1>2, <2>2, <2>4, LoadsProtected
    <2> HIDE DEF d
    <2>6. /\ cpu' \in Cpus /\ (cpu'.protected <=> cpu.protected) /\ cpu'.table = cpu.table
          /\ (cpu'.interrupts <=> cpu.interrupts)
          /\ cpu'.cs = (IF r = "cs" THEN d ELSE cpu.cs)
          /\ cpu'.ds = (IF r = "ds" THEN d ELSE cpu.ds)
          /\ cpu'.es = (IF r = "es" THEN d ELSE cpu.es)
          /\ cpu'.ss = (IF r = "ss" THEN d ELSE cpu.ss)
      BY <1>1, <1>2, <2>3, <2>5, ExecutesLoad DEF d
    <2>7. InFlat(cpu') /\ ~cpu'.interrupts
      BY <2>2, <2>5, <2>6 DEF Loading, InFlat
    <2>8. n >= 4 => Cpu!Flat(cpu'.es)
      BY <1>4, <2>1, <2>5, <2>6 DEF Loading
    <2> QED
      BY <1>1, <1>4, <2>2, <2>6, <2>7, <2>8 DEF Loading
  <1> QED
    BY <1>1, <1>3, <1>4

\* The mode and the segments at each point of the boot, with the instructions
\* still to come.
Modes ==
    /\ at = "stage1" => todo = <<>> /\ Entering(1) /\ cpu.interrupts
    /\ at = "entry" => \E n \in 1 .. 3 : Doing(Cpu!entry_A20, n) /\ Entering(n)
    /\ at = "a20" => todo = <<>> /\ Entering(3)
    /\ at = "switch" =>
          /\ ~cpu.interrupts
          /\ \E n \in 1 .. 6 : Doing(Cpu!entry_pmode, n) /\ Protecting(n)
    /\ at \in {"disk", "partition", "fat", "detect", "elf"} /\ calling = "no" =>
          todo = <<>> /\ InFlat(cpu) /\ ~cpu.interrupts /\ cpu.table = "stage2"
    /\ calling = "entering" =>
          \E n \in 1 .. 7 : Doing(Cpu!x86_EnterRealMode, n) /\ Unprotecting(n)
    /\ calling = "leaving" =>
          /\ cpu.table = "stage2"
          /\ \E n \in 1 .. 6 : Doing(Cpu!x86_EnterProtectedMode, n) /\ Protecting(n)
    /\ at = "gdt" => \E n \in 1 .. 6 : Doing(Cpu!i686_GDT_Load, n) /\ Loading(n)
    /\ at \in {"log", "loop"} =>
          todo = <<>> /\ InFlat(cpu) /\ cpu.table = "kernel" /\ Cpu!Flat(cpu.es)
    /\ at \in {"halted", "restarted", "undefined"} =>
          todo = <<>> /\ cpu \in Cpus /\ (cpu.interrupts => ~cpu.protected)

\* Before the first instruction, and after the last.
LEMMA Begun ==
    ASSUME NEW program, IsProgram(program), todo' = program
    PROVE  Doing(program, 1)'
PROOF
  <1> PICK S : program \in Seq(S)
    BY DEF IsProgram
  <1>1. SubSeq(program, 1, Len(program)) = program /\ Len(program) \in Nat
    BY SubSeqFull
  <1> QED
    BY <1>1 DEF Doing

LEMMA Over ==
    ASSUME todo = <<>>, NEW n \in Nat
    PROVE  /\ Doing(Cpu!entry_A20, n) => n = 3
           /\ Doing(Cpu!entry_pmode, n) => n = 6
           /\ Doing(Cpu!x86_EnterRealMode, n) => n = 7
           /\ Doing(Cpu!x86_EnterProtectedMode, n) => n = 6
           /\ Doing(Cpu!i686_GDT_Load, n) => n = 6
PROOF
  <1>1. ASSUME NEW program, IsProgram(program), Doing(program, n)
        PROVE  n = Len(program) + 1
    BY <1>1, NextInstruction
  <1>2. 2 + 1 = 3 /\ 5 + 1 = 6 /\ 6 + 1 = 7
    OBVIOUS
  <1> QED
    BY <1>1, <1>2, Programs, Zenon

LEMMA ModesIdle ==
    ASSUME Modes, UNCHANGED <<cpu, todo, at, calling>>
    PROVE  Modes'
PROOF
  BY DEF Modes, Doing, Entering, Protecting, Unprotecting, Loading

LEMMA InstructionModes ==
    ASSUME Order, Modes, Cpu!Step, UNCHANGED <<at, calling>>
    PROVE  Modes'
PROOF
  <1>1. todo # <<>>
    BY DEF Cpu!Step
  <1>2. CASE at = "entry"
    <2>1. PICK n \in 1 .. 3 : Doing(Cpu!entry_A20, n) /\ Entering(n)
      BY <1>2 DEF Modes
    <2>2. Doing(Cpu!entry_A20, n + 1)' /\ Entering(n + 1)' /\ n + 1 \in 1 .. 3
      <3>1. n # 3
        BY <1>1, <2>1, Programs, NextInstruction
      <3> QED
        BY <2>1, <3>1, EnteringStep
    <2> QED
      BY <1>2, <2>2 DEF Modes, Order
  <1>3. CASE at = "switch"
    <2>1. PICK n \in 1 .. 6 : Doing(Cpu!entry_pmode, n) /\ Protecting(n)
      BY <1>3 DEF Modes
    <2>2. /\ Doing(Cpu!entry_pmode, n + 1)' /\ Protecting(n + 1)' /\ n + 1 \in 1 .. 6
          /\ ~cpu.interrupts
      <3>1. ~cpu.interrupts /\ Cpu!entry_pmode # Cpu!x86_EnterProtectedMode
        BY <1>3, ProtectingPrograms DEF Modes
      <3>2. Doing(Cpu!entry_pmode, n + 1)' /\ Protecting(n + 1)' /\ n < 6
        BY <2>1, <3>1, ProtectingStep
      <3> QED
        BY <3>1, <3>2
    <2>3. ~cpu'.interrupts
      BY <2>2 DEF Protecting
    <2> QED
      BY <1>3, <2>2, <2>3 DEF Modes, Order
  <1>4. CASE calling = "entering"
    <2>1. PICK n \in 1 .. 7 : Doing(Cpu!x86_EnterRealMode, n) /\ Unprotecting(n)
      BY <1>4 DEF Modes
    <2>2. /\ Doing(Cpu!x86_EnterRealMode, n + 1)' /\ Unprotecting(n + 1)'
          /\ n + 1 \in 1 .. 7
      BY <2>1, UnprotectingStep
    <2> QED
      BY <1>4, <2>2 DEF Modes, Order
  <1>5. CASE calling = "leaving"
    <2>1. PICK n \in 1 .. 6 : Doing(Cpu!x86_EnterProtectedMode, n) /\ Protecting(n)
      BY <1>5 DEF Modes
    <2>2. /\ Doing(Cpu!x86_EnterProtectedMode, n + 1)' /\ Protecting(n + 1)'
          /\ n + 1 \in 1 .. 6
      <3>1. /\ cpu.table = "stage2"
            /\ Cpu!entry_pmode # Cpu!x86_EnterProtectedMode
        BY <1>5, ProtectingPrograms DEF Modes
      <3>2. Doing(Cpu!x86_EnterProtectedMode, n + 1)' /\ Protecting(n + 1)' /\ n < 6
        BY <2>1, <3>1, ProtectingStep
      <3> QED
        BY <3>2
    <2>3. cpu'.table = "stage2"
      BY <2>2 DEF Protecting
    <2> QED
      BY <1>5, <2>2, <2>3 DEF Modes, Order
  <1>6. CASE at = "gdt"
    <2>1. PICK n \in 1 .. 6 : Doing(Cpu!i686_GDT_Load, n) /\ Loading(n)
      BY <1>6 DEF Modes
    <2>2. Doing(Cpu!i686_GDT_Load, n + 1)' /\ Loading(n + 1)' /\ n + 1 \in 1 .. 6
      BY <2>1, LoadingStep
    <2> QED
      BY <1>6, <2>2 DEF Modes, Order
  <1> QED
    BY <1>1, <1>2, <1>3, <1>4, <1>5, <1>6 DEF Modes, Order

LEMMA RealModes ==
    ASSUME A20IInv, Calm, Order, Modes,
           Stage1 \/ Reboot \/ Stage2 \/ EnableA20 \/ Controller \/ Press
    PROVE  Modes'
PROOF
  <1>1. CASE Stage1 \/ Press
    BY <1>1, ModesIdle DEF Stage1, Press, notKeyboard
  <1>2. CASE Reboot
    BY <1>2 DEF Reboot, Modes, Entering, Order
  <1>3. CASE Stage2
    <2>1. at = "stage1" /\ UNCHANGED <<cpu, calling>> /\ calling = "no"
      BY <1>3 DEF Stage2, Order
    <2>2. CASE at' = "entry" /\ todo' = Cpu!entry_A20
      <3>1. Doing(Cpu!entry_A20, 1)' /\ Entering(1)'
        BY <2>1, <2>2, Begun, Programs DEF Modes, Entering
      <3> QED
        BY <2>1, <2>2, <3>1 DEF Modes
    <2>3. CASE at' = "undefined" /\ UNCHANGED todo
      BY <2>1, <2>3 DEF Modes, Entering
    <2> QED
      BY <1>3, <2>2, <2>3 DEF Stage2
  <1>4. CASE EnableA20
    <2>1. UNCHANGED <<cpu, calling>> /\ (at = "entry" \/ at = "a20") /\ calling = "no"
      BY <1>4 DEF EnableA20, notKeyboard, Order
    <2>2. CASE at = "entry" /\ todo = <<>> /\ at' = "a20" /\ UNCHANGED todo
      <3>1. Entering(3)
        BY <2>2, Over DEF Modes
      <3> QED
        BY <2>1, <2>2, <3>1 DEF Modes, Entering
    <2>3. CASE at = "a20" /\ UNCHANGED <<todo, at>>
      BY <2>1, <2>3, ModesIdle
    <2>4. CASE at = "a20" /\ at' = "switch" /\ todo' = Cpu!entry_pmode
      <3>1. Doing(Cpu!entry_pmode, 1)'
        BY <2>4, Begun, Programs
      <3>2. Protecting(1)' /\ ~cpu'.interrupts
        BY <2>1, <2>4 DEF Modes, Entering, Protecting
      <3> QED
        BY <2>1, <2>4, <3>1, <3>2 DEF Modes
    <2> QED
      BY <1>4, <2>2, <2>3, <2>4 DEF EnableA20
  <1>5. CASE Controller
    <2>1. /\ at = "a20" \/ at = "restarted"
          /\ UNCHANGED <<cpu, todo, calling>> /\ calling = "no"
          /\ at' = at \/ at' = "restarted"
      BY <1>5, CalmController DEF Controller, notKeyboard, Order
    <2> QED
      BY <2>1 DEF Modes, Entering
  <1> QED
    BY <1>1, <1>2, <1>3, <1>4, <1>5

LEMMA StageTwoModes ==
    ASSUME Order, Modes,
           \/ EnterStart \/ CallBios \/ Bios \/ BackInC \/ DISK_Initialize
           \/ MBR_DetectPartition \/ FAT_Initialize \/ Memory_Detect \/ LoadKernel
    PROVE  Modes'
PROOF
  <1>1. CASE EnterStart
    <2>1. /\ at = "switch" /\ todo = <<>> /\ at' = "disk" /\ calling = "no"
          /\ UNCHANGED <<cpu, todo, calling>>
      BY <1>1 DEF EnterStart, notPart, Order
    <2>2. Protecting(6) /\ ~cpu.interrupts
      BY <2>1, Over DEF Modes
    <2> QED
      BY <2>1, <2>2 DEF Modes, Protecting, InFlat
  <1>2. CASE CallBios
    <2>1. /\ calling' = "entering" /\ todo' = Cpu!x86_EnterRealMode
          /\ UNCHANGED <<cpu, at>> /\ (at = "disk" \/ at = "detect") /\ calling = "no"
      BY <1>2 DEF CallBios, InC, notPart
    <2>2. Doing(Cpu!x86_EnterRealMode, 1)'
      BY <2>1, Begun, Programs
    <2>3. Unprotecting(1)'
      <3>1. InFlat(cpu) /\ ~cpu.interrupts /\ cpu.table = "stage2"
        BY <2>1 DEF Modes
      <3>2. cpu.cs.big /\ Based(cpu)
        BY <3>1, FlatFacts DEF InFlat, Based
      <3> QED
        BY <2>1, <3>1, <3>2 DEF Unprotecting, InFlat, Based
    <2> QED
      BY <2>1, <2>2, <2>3 DEF Modes
  <1>3. CASE Bios
    <2>1. /\ calling = "entering" /\ todo = <<>> /\ calling' = "leaving"
          /\ todo' = Cpu!x86_EnterProtectedMode
          /\ UNCHANGED <<cpu, at>> /\ (at = "disk" \/ at = "detect")
      BY <1>3 DEF Bios, notPart, Order
    <2>2. Doing(Cpu!x86_EnterProtectedMode, 1)'
      BY <2>1, Begun, Programs
    <2>3. Unprotecting(7)
      BY <2>1, Over DEF Modes
    <2>4. Protecting(1)' /\ cpu'.table = "stage2"
      BY <2>1, <2>3 DEF Unprotecting, Protecting
    <2> QED
      BY <2>1, <2>2, <2>4 DEF Modes
  <1>4. CASE BackInC
    <2>1. /\ calling = "leaving" /\ todo = <<>> /\ calling' = "no"
          /\ UNCHANGED <<cpu, todo, at>> /\ (at = "disk" \/ at = "detect")
      BY <1>4 DEF BackInC, notPart, Order
    <2>2. Protecting(6)
      BY <2>1, Over DEF Modes
    <2> QED
      BY <2>1, <2>2 DEF Modes, Protecting, InFlat
  <1>5. CASE DISK_Initialize \/ MBR_DetectPartition \/ FAT_Initialize \/ Memory_Detect
    <2>1. /\ calling = "no" /\ UNCHANGED <<cpu, todo, calling>>
          /\ at \in {"disk", "partition", "fat", "detect"}
          /\ at' \in {"disk", "partition", "fat", "detect", "elf", "halted", "undefined"}
      BY <1>5, AfterIs DEF DISK_Initialize, MBR_DetectPartition, FAT_Initialize,
         Memory_Detect, notPart, InC
    <2> QED
      BY <2>1 DEF Modes, InFlat
  <1>6. CASE LoadKernel
    <2>1. /\ at = "elf" /\ calling = "no" /\ UNCHANGED <<cpu, calling>>
          /\ InFlat(cpu) /\ ~cpu.interrupts
      BY <1>6 DEF LoadKernel, notPart, InC, Modes
    <2>2. CASE UNCHANGED <<at, todo>>
      BY <2>1, <2>2, ModesIdle
    <2>3. CASE at' = "gdt" /\ todo' = Cpu!i686_GDT_Load
      <3>1. Doing(Cpu!i686_GDT_Load, 1)' /\ Loading(1)'
        BY <2>1, <2>3, Begun, Programs DEF Loading, InFlat
      <3> QED
        BY <2>1, <2>3, <3>1 DEF Modes
    <2>4. CASE at' \in {"halted", "undefined"} /\ UNCHANGED todo
      BY <2>1, <2>4 DEF Modes, InFlat
    <2> QED
      BY <1>6, <2>2, <2>3, <2>4 DEF LoadKernel
  <1> QED
    BY <1>1, <1>2, <1>3, <1>4, <1>5, <1>6

LEMMA KernelModes ==
    ASSUME Order, Modes, HAL_Initialize \/ LogRegions
    PROVE  Modes'
PROOF
  <1>1. CASE HAL_Initialize
    <2>1. /\ at = "gdt" /\ calling = "no" /\ todo = <<>> /\ at' = "log"
          /\ UNCHANGED <<todo, calling>>
      BY <1>1 DEF HAL_Initialize, InC
    <2>2. Loading(6)
      BY <2>1, Over DEF Modes
    <2>3. PICK on \in BOOLEAN : cpu' = [cpu EXCEPT !.interrupts = on]
      BY <1>1 DEF HAL_Initialize
    <2>4. cpu \in Cpus
      BY <2>2 DEF Loading, InFlat
    <2>5. /\ cpu' \in Cpus /\ (cpu'.protected <=> cpu.protected)
          /\ cpu'.table = cpu.table
          /\ cpu'.cs = cpu.cs /\ cpu'.ds = cpu.ds /\ cpu'.es = cpu.es /\ cpu'.ss = cpu.ss
      BY <2>3, <2>4, Zenon DEF Cpus
    <2> QED
      BY <2>1, <2>2, <2>5 DEF Modes, Loading, InFlat
  <1>2. CASE LogRegions
    <2>1. /\ at = "log" /\ UNCHANGED <<cpu, todo, calling>> /\ calling = "no"
          /\ (at' = at \/ at' = "loop")
      BY <1>2 DEF LogRegions, notPart, Order
    <2> QED
      BY <2>1 DEF Modes, InFlat
  <1> QED
    BY <1>1, <1>2

LEMMA ModesStep ==
    ASSUME A20IInv, Calm, Order, Modes, [BootNext]_bootVars
    PROVE  Modes'
PROOF
  <1>1. CASE UNCHANGED bootVars
    BY <1>1, ModesIdle DEF bootVars
  <1>2. CASE Instruction
    BY <1>2, InstructionModes DEF Instruction
  <1> QED
    BY <1>1, <1>2, RealModes, StageTwoModes, KernelModes DEF BootNext, BootWork

LEMMA ModesInit == BootInit => Modes
PROOF
  <1> SUFFICES ASSUME BootInit PROVE Modes
    OBVIOUS
  <1> DEFINE real == [Cpu!RealSegment EXCEPT !.code = TRUE]
  <1>1. /\ Cpu!RealSegment.base = 0 /\ ~Cpu!RealSegment.big
        /\ Cpu!RealSegment \in Descriptors
        /\ real.base = 0 /\ ~real.big /\ real \in Descriptors
    BY Zenon DEF Cpu!RealSegment, Descriptors
  <1>2. /\ cpu \in Cpus /\ ~cpu.protected /\ cpu.interrupts
        /\ cpu.cs = real /\ cpu.ds = Cpu!RealSegment /\ cpu.ss = Cpu!RealSegment
    BY <1>1, Zenon DEF BootInit, Cpu!Init, Cpus
  <1>3. at = "stage1" /\ calling = "no" /\ todo = <<>>
    BY DEF BootInit, Cpu!Init
  <1> HIDE DEF real
  <1>4. Entering(1)
    BY <1>1, <1>2 DEF Entering, Based
  <1> QED
    BY <1>2, <1>3, <1>4 DEF Modes

LEMMA FitsBiosIs ==
    ASSUME cpu \in Cpus
    PROVE  /\ ~cpu.protected /\ cpu.interrupts /\ ~cpu.cs.big /\ Based(cpu) => Cpu!FitsBios
           /\ InFlat(cpu) => Cpu!FitsC
PROOF
  <1>1. cpu["cs"] = cpu.cs /\ cpu["ds"] = cpu.ds /\ cpu["ss"] = cpu.ss
    OBVIOUS
  <1>2. ASSUME ~cpu.protected, cpu.interrupts, ~cpu.cs.big, Based(cpu)
        PROVE  Cpu!FitsBios
    BY <1>1, <1>2, Zenon DEF Based, Cpu!FitsBios
  <1>3. ASSUME InFlat(cpu)
        PROVE  Cpu!FitsC
    BY <1>1, <1>3, Zenon DEF InFlat, Cpu!FitsC
  <1> QED
    BY <1>2, <1>3

LEMMA FitsAreEqual ==
    ASSUME cpu \in Cpus, NEW program, IsProgram(program), NEW n \in Nat,
           Doing(program, n), Fits(program, n), todo # <<>>
    PROVE  (Head(todo).bits = 32) = cpu.cs.big
PROOF
  <1>1. Head(todo) = program[n] /\ n <= Len(program)
    <2> PICK S : program \in Seq(S)
      BY DEF IsProgram
    <2>1. n # Len(program) + 1 /\ n \in 1 .. Len(program) + 1 /\ Len(program) \in Nat
      BY NextInstruction DEF Doing
    <2> QED
      BY <2>1, NextInstruction
  <1>2. (Head(todo).bits = 32) <=> cpu.cs.big
    BY <1>1 DEF Fits
  <1>3. cpu.cs.big \in BOOLEAN
    BY Zenon DEF Cpus, Descriptors
  <1> QED
    BY <1>2, <1>3, Zenon

LEMMA ModesFit == Order /\ Modes => CodeFits /\ InterruptsHaveAHandler
PROOF
  <1> SUFFICES ASSUME Order, Modes PROVE CodeFits /\ InterruptsHaveAHandler
    OBVIOUS
  <1>1. cpu \in Cpus /\ (todo # <<>> => (Head(todo).bits = 32) = cpu.cs.big)
    <2>1. CASE at = "entry"
      <3>1. PICK n \in 1 .. 3 : Doing(Cpu!entry_A20, n) /\ Entering(n)
        BY <2>1 DEF Modes
      <3> QED
        BY <3>1, EnteringFits, FitsAreEqual, Programs DEF Entering
    <2>2. CASE at = "switch"
      <3>1. PICK n \in 1 .. 6 : Doing(Cpu!entry_pmode, n) /\ Protecting(n)
        BY <2>2 DEF Modes
      <3> QED
        BY <3>1, ProtectingFits, FitsAreEqual, Programs DEF Protecting
    <2>3. CASE calling = "entering"
      <3>1. PICK n \in 1 .. 7 : Doing(Cpu!x86_EnterRealMode, n) /\ Unprotecting(n)
        BY <2>3 DEF Modes
      <3> QED
        BY <3>1, UnprotectingFits, FitsAreEqual, Programs DEF Unprotecting
    <2>4. CASE calling = "leaving"
      <3>1. PICK n \in 1 .. 6 : Doing(Cpu!x86_EnterProtectedMode, n) /\ Protecting(n)
        BY <2>4 DEF Modes
      <3> QED
        BY <3>1, ProtectingFits, FitsAreEqual, Programs DEF Protecting
    <2>5. CASE at = "gdt"
      <3>1. PICK n \in 1 .. 6 : Doing(Cpu!i686_GDT_Load, n) /\ Loading(n)
        BY <2>5 DEF Modes
      <3> QED
        BY <3>1, LoadingFits, FitsAreEqual, Programs DEF Loading, InFlat
    <2> QED
      BY <2>1, <2>2, <2>3, <2>4, <2>5 DEF Modes, Order, Entering, InFlat
  <1>2. ASSUME InC, Part(at) \/ at \in {"gdt", "log", "loop"}
        PROVE  Cpu!FitsC
    <2>1. InFlat(cpu)
      <3>1. CASE Part(at)
        BY <1>2, <3>1, PartIs DEF Modes, InC
      <3>2. CASE at = "gdt"
        BY <3>2 DEF Modes, Loading
      <3>3. CASE at \in {"log", "loop"}
        BY <3>3 DEF Modes
      <3> QED
        BY <1>2, <3>1, <3>2, <3>3
    <2> QED
      BY <1>1, <2>1, FitsBiosIs
  <1>3. ASSUME at = "stage1" \/ (calling = "entering" /\ todo = <<>>)
        PROVE  Cpu!FitsBios
    <2>1. CASE at = "stage1"
      BY <1>1, <2>1, FitsBiosIs DEF Modes, Entering
    <2>2. CASE calling = "entering" /\ todo = <<>>
      <3>1. Unprotecting(7)
        BY <2>2, Over DEF Modes
      <3> QED
        BY <1>1, <3>1, FitsBiosIs DEF Unprotecting
    <2> QED
      BY <1>3, <2>1, <2>2
  <1>4. at \in {"log", "loop"} => cpu.table = "kernel" /\ Cpu!Flat(cpu.es)
    BY DEF Modes
  <1>5. InterruptsHaveAHandler
    <2> SUFFICES ASSUME cpu.interrupts PROVE ~cpu.protected \/ at \in {"log", "loop"}
      BY DEF InterruptsHaveAHandler
    <2>1. CASE calling = "entering"
      BY <2>1 DEF Modes, Unprotecting
    <2>2. CASE calling = "leaving"
      BY <2>2 DEF Modes, Protecting
    <2>3. CASE calling = "no"
      BY <2>3 DEF Modes, Order, Entering, Protecting, Loading
    <2> QED
      BY <2>1, <2>2, <2>3 DEF Order
  <1> QED
    BY <1>1, <1>2, <1>3, <1>4, <1>5 DEF CodeFits

\* The order of the parts and the modes are one invariant: a reset by the
\* keyboard controller in the middle of a program would break both.
Ordered == A20IInv /\ Calm /\ Order /\ Modes

LEMMA AlwaysOrdered == BootSpec => []Ordered
PROOF
  <1>1. BootInit => Ordered
    BY KeyboardInit, OrderInit, ModesInit DEF Ordered
  <1>2. Ordered /\ [BootNext]_bootVars => Ordered'
    BY KeyboardKept, CalmStep, OrderStep, ModesStep DEF Ordered
  <1> QED
    BY <1>1, <1>2, PTL DEF BootSpec

\* No instruction runs in a segment of the other width, C code always finds flat
\* segments, and every call of BIOS finds real mode (entry.asm:12-45, x86.asm:1-48,
\* gdt_asm.asm).
THEOREM CodeAlwaysFits == BootSpec => []CodeFits
PROOF
  <1>1. Ordered => CodeFits
    BY ModesFit DEF Ordered
  <1> QED
    BY <1>1, AlwaysOrdered, PTL

\* Interrupts are on in real mode and in the initialised kernel only
\* (entry.asm:13, x86.asm:22, 28).
THEOREM InterruptsAlwaysHandled == BootSpec => []InterruptsHaveAHandler
PROOF
  <1>1. Ordered => InterruptsHaveAHandler
    BY ModesFit DEF Ordered
  <1> QED
    BY <1>1, AlwaysOrdered, PTL
-----------------------------------------------------------------------------
(* The map of memory                                                        *)

LEMMA MachineFacts ==
    ASSUME machine \in Machines
    PROVE  /\ MachineOk(machine) /\ BlocksOk(machine)
           /\ machine.regions \in Seq(Regions) /\ machine.end \in {"zero", "error"}
           /\ machine.file \in Images /\ machine.entry \in Nat
PROOF
  BY MachineAssumption DEF MachineOk

LEMMA MachineStep ==
    ASSUME [BootNext]_bootVars
    PROVE  machine' = machine
PROOF
  <1>1. CASE UNCHANGED bootVars
    BY <1>1 DEF bootVars
  <1>2. CASE Stage1 \/ Reboot \/ Stage2 \/ Instruction
    BY <1>2 DEF Stage1, Reboot, Stage2, Instruction
  <1>3. CASE EnableA20 \/ Controller \/ Press
    BY <1>3 DEF EnableA20, Controller, Press, notKeyboard
  <1>4. CASE EnterStart \/ CallBios \/ Bios \/ BackInC
    BY <1>4 DEF EnterStart, CallBios, Bios, BackInC, notPart
  <1>5. CASE DISK_Initialize \/ MBR_DetectPartition \/ FAT_Initialize \/ Memory_Detect
    BY <1>5 DEF DISK_Initialize, MBR_DetectPartition, FAT_Initialize, Memory_Detect,
       notPart
  <1>6. CASE LoadKernel \/ HAL_Initialize \/ LogRegions
    BY <1>6 DEF LoadKernel, HAL_Initialize, LogRegions, notPart
  <1> QED
    BY <1>1, <1>2, <1>3, <1>4, <1>5, <1>6 DEF BootNext, BootWork

Begins(s, t) ==
    /\ s \in Seq(Regions) /\ t \in Seq(Regions) /\ Len(s) <= Len(t)
    /\ \A k \in 1 .. Len(s) : s[k] = t[k]

\* How many regions the kernel is to get.
Wanted ==
    IF machine.end = "zero" /\ machine.regions # <<>>
    THEN Len(machine.regions) - 1 ELSE Len(machine.regions)

\* The table holds the first of BIOS's regions; the continuation says how many,
\* and between a call and the look at its answer, whether another one comes.
Collecting ==
    /\ detect \in {"call", "test", "done", "undefined"}
    /\ Begins(g_MemRegions, machine.regions)
    /\ continuation \in 0 .. Len(machine.regions) /\ ret \in {-1, 0, 24}
    /\ Len(g_MemRegions) <= Wanted
    /\ Len(g_MemRegions) <= MAX_REGIONS \/ detect = "undefined"
    /\ detect = "call" => continuation = Len(g_MemRegions)
    /\ detect = "test" =>
          \/ /\ ret = 24 /\ continuation = Len(g_MemRegions) + 1
             /\ Len(g_MemRegions) < Wanted /\ region = machine.regions[continuation]
          \/ (ret <= 0 \/ continuation = 0) /\ Len(g_MemRegions) = Wanted
    /\ detect = "done" => Len(g_MemRegions) = Wanted

\* The kernel is reached with the whole table, and logs it in order.
Logging ==
    /\ at \in {"elf", "gdt", "log", "loop"} => detect = "done"
    /\ detect = "undefined" => at = "undefined"
    /\ Begins(logged, g_MemRegions)
    /\ at = "loop" => Len(logged) = Len(g_MemRegions)

LEMMA WantedFacts ==
    ASSUME machine \in Machines
    PROVE  /\ Len(machine.regions) \in Nat /\ Wanted \in 0 .. Len(machine.regions)
           /\ machine.end # "zero" => Wanted = Len(machine.regions)
           /\ (machine.end = "zero" /\ Len(machine.regions) > 0) =>
                 Wanted = Len(machine.regions) - 1
PROOF
  <1>1. machine.regions \in Seq(Regions) /\ Len(machine.regions) \in Nat
    BY MachineFacts
  <1>2. machine.regions # <<>> => Len(machine.regions) > 0
    BY <1>1, EmptySeq
  <1>3. machine.regions = <<>> => Len(machine.regions) = 0
    BY EmptySeq
  <1> QED
    BY <1>1, <1>2, <1>3 DEF Wanted

LEMMA BeginsAppend ==
    ASSUME NEW s, NEW t, Begins(s, t), Len(s) < Len(t), NEW r, r = t[Len(s) + 1]
    PROVE  /\ Begins(Append(s, r), t) /\ Len(Append(s, r)) = Len(s) + 1
           /\ \A l : Begins(l, s) => Begins(l, Append(s, r))
PROOF
  <1>1. s \in Seq(Regions) /\ t \in Seq(Regions) /\ Len(s) \in Nat /\ Len(t) \in Nat
    BY DEF Begins
  <1>2. r \in Regions
    BY <1>1, ElementOfSeq
  <1>3. /\ Append(s, r) \in Seq(Regions) /\ Len(Append(s, r)) = Len(s) + 1
        /\ \A k \in 1 .. Len(s) : Append(s, r)[k] = s[k]
        /\ Append(s, r)[Len(s) + 1] = r
    BY <1>1, <1>2, AppendProperties
  <1>4. Begins(Append(s, r), t)
    <2>1. ASSUME NEW k \in 1 .. Len(s) + 1
          PROVE  Append(s, r)[k] = t[k]
      <3>1. CASE k = Len(s) + 1
        BY <1>3, <3>1
      <3>2. CASE k \in 1 .. Len(s)
        BY <1>3, <3>2 DEF Begins
      <3> QED
        BY <1>1, <3>1, <3>2
    <2> QED
      BY <1>1, <1>3, <2>1 DEF Begins
  <1>5. ASSUME NEW l, Begins(l, s)
        PROVE  Begins(l, Append(s, r))
    <2>1. Len(l) \in Nat /\ Len(l) <= Len(s)
      BY <1>5 DEF Begins
    <2>2. ASSUME NEW k \in 1 .. Len(l)
          PROVE  l[k] = Append(s, r)[k]
      <3>1. k \in 1 .. Len(s) /\ l[k] = s[k]
        BY <1>1, <1>5, <2>1 DEF Begins
      <3> QED
        BY <1>3, <3>1
    <2> QED
      BY <1>1, <1>3, <1>5, <2>1, <2>2 DEF Begins
  <1> QED
    BY <1>3, <1>4, <1>5

LEMMA CollectingStep ==
    ASSUME machine \in Machines, machine' = machine, Collecting,
           Map!GetNextBlock \/ Map!Keep \/ Map!Done \/ UNCHANGED mapVars
    PROVE  /\ Collecting'
           /\ \A l : Begins(l, g_MemRegions) => Begins(l, g_MemRegions')
PROOF
  <1> DEFINE R == machine.regions
             g == g_MemRegions
  <1>1. /\ Len(R) \in Nat /\ Wanted \in 0 .. Len(R) /\ Wanted' = Wanted
        /\ R \in Seq(Regions) /\ DOMAIN R = 1 .. Len(R)
        /\ Begins(g, R) /\ Len(g) \in Nat
    BY WantedFacts, MachineFacts DEF Wanted, Collecting, Begins
  <1>2. CASE UNCHANGED mapVars
    BY <1>1, <1>2 DEF mapVars, Collecting
  <1>3. CASE Map!GetNextBlock
    <2> DEFINE n == continuation + 1
    <2>1. /\ detect = "call" /\ detect' = "test" /\ g' = g /\ continuation = Len(g)
      BY <1>3 DEF Map!GetNextBlock, Collecting
    <2>2. CASE n \in DOMAIN R
      <3>1. ret' = 24 /\ region' = R[n]
            /\ continuation' = (IF n = Len(R) /\ machine.end = "zero" THEN 0 ELSE n)
        BY <1>3, <2>2 DEF Map!GetNextBlock, Map!NextContinuation
      <3>2. CASE n = Len(R) /\ machine.end = "zero"
        <4>1. Len(g) = Wanted
          BY <1>1, <2>1, <3>2, WantedFacts
        <4> QED
          BY <1>1, <2>1, <3>1, <3>2, <4>1 DEF Collecting
      <3>3. CASE ~(n = Len(R) /\ machine.end = "zero")
        <4>1. Len(g) < Wanted
          BY <1>1, <2>1, <2>2, <3>3, WantedFacts
        <4> QED
          BY <1>1, <2>1, <2>2, <3>1, <3>3, <4>1 DEF Collecting
      <3> QED
        BY <3>2, <3>3
    <2>3. CASE n \notin DOMAIN R
      <3>1. ret' = -1 /\ UNCHANGED <<region, continuation>>
        BY <1>3, <2>3 DEF Map!GetNextBlock
      <3>2. Len(g) = Wanted
        BY <1>1, <2>1, <2>3 DEF Collecting
      <3> QED
        BY <1>1, <2>1, <3>1, <3>2 DEF Collecting
    <2> QED
      BY <2>2, <2>3
  <1>4. CASE Map!Keep
    <2>1. /\ detect = "test" /\ ret > 0 /\ continuation # 0
          /\ g' = Append(g, region) /\ UNCHANGED <<continuation, region, ret>>
          /\ detect' = IF Len(g) < MAX_REGIONS THEN "call" ELSE "undefined"
      BY <1>4 DEF Map!Keep
    <2>2. /\ ret = 24 /\ continuation = Len(g) + 1 /\ Len(g) < Wanted
          /\ region = R[continuation]
      BY <2>1 DEF Collecting
    <2>3. /\ Begins(g', R) /\ Len(g') = Len(g) + 1
          /\ \A l : Begins(l, g) => Begins(l, g')
      BY <1>1, <2>1, <2>2, BeginsAppend
    <2>4. MAX_REGIONS \in Nat
      BY PlaceAssumption
    <2> QED
      BY <1>1, <2>1, <2>2, <2>3, <2>4 DEF Collecting
  <1>5. CASE Map!Done
    BY <1>1, <1>5 DEF Map!Done, Collecting
  <1> QED
    BY <1>2, <1>3, <1>4, <1>5

\* The step that detection may take, and when.
LEMMA MapStep ==
    ASSUME [BootNext]_bootVars
    PROVE  \/ UNCHANGED mapVars
           \/ at = "detect" /\ at' = at /\ Map!GetNextBlock
           \/ at = "detect" /\ Map!Keep
              /\ at' = IF detect' = "undefined" THEN "undefined" ELSE at
           \/ at = "detect" /\ Map!Done /\ at' = "elf"
PROOF
  <1>1. CASE UNCHANGED bootVars
    BY <1>1 DEF bootVars
  <1>2. CASE Stage1 \/ Reboot \/ Stage2 \/ Instruction
    BY <1>2 DEF Stage1, Reboot, Stage2, Instruction
  <1>3. CASE EnableA20 \/ Controller \/ Press
    BY <1>3 DEF EnableA20, Controller, Press, notKeyboard
  <1>4. CASE EnterStart \/ CallBios \/ Bios \/ BackInC
    BY <1>4 DEF EnterStart, CallBios, Bios, BackInC, notPart
  <1>5. CASE DISK_Initialize \/ MBR_DetectPartition \/ FAT_Initialize
    BY <1>5 DEF DISK_Initialize, MBR_DetectPartition, FAT_Initialize
  <1>6. CASE Memory_Detect
    BY <1>6, AfterIs DEF Memory_Detect
  <1>7. CASE LoadKernel \/ HAL_Initialize \/ LogRegions
    BY <1>7 DEF LoadKernel, HAL_Initialize, LogRegions, notPart
  <1> QED
    BY <1>1, <1>2, <1>3, <1>4, <1>5, <1>6, <1>7 DEF BootNext, BootWork

\* The kernel is entered from the loader alone, and goes on as it began.
LEMMA KernelOrder ==
    ASSUME A20IInv, Calm, Order, [BootNext]_bootVars
    PROVE  /\ at' \in {"elf", "gdt", "log", "loop"} =>
                 at \in {"detect", "elf", "gdt", "log", "loop"}
           /\ at' = "elf" /\ at = "detect" => Map!Done
           /\ at' \in {"gdt", "log", "loop"} => at \in {"elf", "gdt", "log", "loop"}
           /\ at = "undefined" => at' = "undefined"
           /\ logged' # logged => LogRegions
           /\ at' = "loop" => at = "loop" \/ LogRegions
PROOF
  <1>1. CASE UNCHANGED bootVars
    BY <1>1 DEF bootVars, Order
  <1>2. CASE Stage1 \/ Reboot \/ Stage2 \/ Instruction
    BY <1>2 DEF Stage1, Reboot, Stage2, Instruction, Order
  <1>3. CASE EnableA20 \/ Controller \/ Press
    <2>1. logged' = logged
      BY <1>3 DEF EnableA20, Controller, Press, notKeyboard
    <2>2. at' = at \/ (at \in {"entry", "a20", "restarted"}
                       /\ at' \in {"a20", "switch", "restarted"})
      BY <1>3, CalmController DEF EnableA20, Controller, Press
    <2> QED
      BY <2>1, <2>2, Zenon DEF Order
  <1>4. CASE EnterStart \/ CallBios \/ Bios \/ BackInC
    BY <1>4 DEF EnterStart, CallBios, Bios, BackInC, notPart, Order
  <1>5. CASE DISK_Initialize \/ MBR_DetectPartition \/ FAT_Initialize
    BY <1>5, AfterIs DEF DISK_Initialize, MBR_DetectPartition, FAT_Initialize
  <1>6. CASE Memory_Detect
    BY <1>6, AfterIs DEF Memory_Detect, Map!Keep
  <1>7. CASE LoadKernel
    BY <1>7 DEF LoadKernel, notPart
  <1>8. CASE HAL_Initialize
    BY <1>8 DEF HAL_Initialize
  <1>9. CASE LogRegions
    BY <1>9 DEF LogRegions
  <1> QED
    BY <1>1, <1>2, <1>3, <1>4, <1>5, <1>6, <1>7, <1>8, <1>9 DEF BootNext, BootWork

LEMMA CollectingInit == BootInit => Collecting /\ Logging
PROOF
  <1> SUFFICES ASSUME BootInit PROVE Collecting /\ Logging
    OBVIOUS
  <1>1. /\ machine \in Machines /\ detect = "call" /\ continuation = 0 /\ ret = 0
        /\ g_MemRegions = <<>> /\ at = "stage1" /\ logged = <<>>
    BY DEF BootInit, Map!Init
  <1>2. Begins(g_MemRegions, machine.regions) /\ Begins(logged, g_MemRegions)
    BY <1>1, MachineFacts, EmptySeq DEF Begins
  <1>3. Len(g_MemRegions) = 0
    BY <1>1, EmptySeq
  <1>4. MAX_REGIONS \in Nat
    BY PlaceAssumption
  <1> QED
    BY <1>1, <1>2, <1>3, <1>4, WantedFacts DEF Collecting, Logging

LEMMA LoggingStep ==
    ASSUME A20IInv, Calm, Order, Collecting, Logging, [BootNext]_bootVars
    PROVE  Collecting' /\ Logging'
PROOF
  <1>1. machine \in Machines /\ machine' = machine
    BY MachineStep DEF Order
  <1>2. /\ Collecting'
        /\ \A l : Begins(l, g_MemRegions) => Begins(l, g_MemRegions')
    BY <1>1, MapStep, CollectingStep
  <1>3. at' \in {"elf", "gdt", "log", "loop"} => detect' = "done"
    <2>1. CASE UNCHANGED mapVars
      BY <2>1, KernelOrder DEF mapVars, Logging, Map!Done
    <2>2. CASE at = "detect" /\ at' = at
      BY <2>2
    <2>3. CASE at = "detect" /\ at' = IF detect' = "undefined" THEN "undefined" ELSE at
      BY <2>3
    <2>4. CASE Map!Done
      BY <2>4 DEF Map!Done
    <2> QED
      BY <2>1, <2>2, <2>3, <2>4, MapStep
  <1>4. detect' = "undefined" => at' = "undefined"
    <2>1. CASE UNCHANGED mapVars
      BY <2>1, KernelOrder DEF mapVars, Logging
    <2> QED
      BY <2>1, MapStep DEF Map!Done, Map!GetNextBlock
  <1>5. CASE LogRegions
    <2>1. at = "log" /\ g_MemRegions' = g_MemRegions
      BY <1>5 DEF LogRegions, mapVars
    <2>2. CASE Len(logged) < Len(g_MemRegions)
      <3>1. logged' = Append(logged, g_MemRegions[Len(logged) + 1]) /\ at' = at
        BY <1>5, <2>2 DEF LogRegions
      <3>2. Begins(logged', g_MemRegions)
        BY <2>2, <3>1, BeginsAppend DEF Logging
      <3> QED
        BY <1>2, <1>3, <1>4, <2>1, <3>1, <3>2 DEF Logging
    <2>3. CASE ~(Len(logged) < Len(g_MemRegions))
      <3>1. logged' = logged
        BY <1>5, <2>3 DEF LogRegions
      <3>2. Begins(logged, g_MemRegions)
        BY DEF Logging
      <3>3. Len(logged) \in Nat /\ Len(g_MemRegions) \in Nat
            /\ Len(logged) <= Len(g_MemRegions)
        BY <3>2 DEF Begins
      <3>4. Len(logged) = Len(g_MemRegions)
        BY <2>3, <3>3
      <3> QED
        BY <1>2, <1>3, <1>4, <2>1, <3>1, <3>2, <3>4 DEF Logging
    <2> QED
      BY <2>2, <2>3
  <1>6. CASE ~LogRegions
    <2>1. logged' = logged /\ (at' = "loop" => at = "loop")
      BY <1>6, KernelOrder
    <2>2. Begins(logged', g_MemRegions')
      BY <1>2, <2>1 DEF Logging
    <2>3. at' = "loop" => Len(logged') = Len(g_MemRegions')
      <3> SUFFICES ASSUME at' = "loop" PROVE Len(logged') = Len(g_MemRegions')
        OBVIOUS
      <3>1. at = "loop"
        BY <2>1
      <3>2. UNCHANGED mapVars
        BY <3>1, MapStep
      <3> QED
        BY <2>1, <3>1, <3>2 DEF Logging, mapVars
    <2> QED
      BY <1>2, <1>3, <1>4, <2>2, <2>3 DEF Logging
  <1> QED
    BY <1>2, <1>5, <1>6

LEMMA LoggedIsReported ==
    machine \in Machines /\ Collecting /\ Logging => RegionsReachKernel
PROOF
  <1> SUFFICES ASSUME machine \in Machines, Collecting, Logging, at = "loop"
               PROVE  logged = Map!Reported
    BY DEF RegionsReachKernel
  <1> DEFINE R == machine.regions
  <1>1. /\ R \in Seq(Regions) /\ Len(R) \in Nat /\ Wanted \in 0 .. Len(R)
        /\ machine.end # "zero" => Wanted = Len(R)
        /\ (machine.end = "zero" /\ Len(R) > 0) => Wanted = Len(R) - 1
    BY MachineFacts, WantedFacts
  <1>2. /\ logged \in Seq(Regions) /\ Len(logged) = Wanted
        /\ \A k \in 1 .. Wanted : logged[k] = R[k]
    <2>1. /\ Len(g_MemRegions) = Wanted /\ Len(logged) = Len(g_MemRegions)
          /\ Begins(logged, g_MemRegions) /\ Begins(g_MemRegions, R)
      BY DEF Collecting, Logging
    <2> QED
      BY <2>1 DEF Begins
  <1>3. CASE machine.end = "zero" /\ R # <<>>
    <2>1. Len(R) > 0
      BY <1>1, <1>3, EmptySeq
    <2>2. Map!Reported = SubSeq(R, 1, Len(R) - 1)
      BY <1>3 DEF Map!Reported
    <2>3. Wanted = Len(R) - 1
      BY <1>1, <1>3, <2>1
    <2>4. /\ SubSeq(R, 1, Wanted) \in Seq(Regions) /\ Len(SubSeq(R, 1, Wanted)) = Wanted
          /\ \A k \in 1 .. Wanted : SubSeq(R, 1, Wanted)[k] = R[k]
      <3>1. 1 <= 1 /\ Wanted <= Len(R) /\ Wanted + 1 >= 1 /\ Wanted - 1 + 1 = Wanted
            /\ Wanted \in Int /\ \A k \in 1 .. Wanted : 1 + k - 1 = k
        BY <1>1
      <3>2. \A k \in 1 .. Wanted : R[k] \in Regions
        BY <1>1, ElementOfSeq
      <3> HIDE DEF R
      <3>3. SubSeq(R, 1, Wanted) = [k \in 1 .. Wanted |-> R[k]]
        BY <1>1, <3>1
      <3> QED
        BY <1>1, <3>2, <3>3, SubSeqProperties
    <2> QED
      BY <1>2, <2>2, <2>3, <2>4, SeqEqual
  <1>4. CASE ~(machine.end = "zero" /\ R # <<>>)
    <2>1. Map!Reported = R
      BY <1>4 DEF Map!Reported
    <2>2. Wanted = Len(R)
      BY <1>4 DEF Wanted
    <2> QED
      BY <1>1, <1>2, <2>1, <2>2, SeqEqual
  <1> QED
    BY <1>3, <1>4

Detected == Ordered /\ Collecting /\ Logging

LEMMA AlwaysDetected == BootSpec => []Detected
PROOF
  <1>1. BootInit => Detected
    BY KeyboardInit, OrderInit, ModesInit, CollectingInit DEF Detected, Ordered
  <1>2. Detected /\ [BootNext]_bootVars => Detected'
    BY KeyboardKept, CalmStep, OrderStep, ModesStep, LoggingStep DEF Detected, Ordered
  <1> QED
    BY <1>1, <1>2, PTL DEF BootSpec

\* The kernel logs exactly what BIOS told, in its order, for every list that it
\* may tell (memdetect.c:19-33, kernel/main.c:27-33).
THEOREM RegionsAlwaysReachKernel == BootSpec => []RegionsReachKernel
PROOF
  <1>1. Detected => RegionsReachKernel
    BY LoggedIsReported DEF Detected, Ordered, Order
  <1> QED
    BY <1>1, AlwaysDetected, PTL
-----------------------------------------------------------------------------
(* The second stage                                                         *)

\* Where sector k of the second stage goes.
Place(k) == STAGE2_LOAD_OFFSET + (16 * PARAGRAPHS) * k

SectorsUpTo(n) == \A k \in 0 .. n - 1 : ram[Place(k)] = Sector!SectorOf(k)

\* The blocks before the one at hand lie in memory, and the next one goes right
\* after them.
Sectors ==
    /\ ram \in [Places -> Int] /\ cut \in BOOLEAN /\ count \in Nat
    /\ block \in 1 .. Len(machine.blocks) + 1
    /\ es = machine.ends[block - 1] * PARAGRAPHS
    /\ loader \in {"read", "reset"} =>
          block <= Len(machine.blocks) /\ count \in 0 .. machine.blocks[block].count
    /\ loader = "left" => block = Len(machine.blocks) + 1
    /\ ~cut => SectorsUpTo(machine.ends[block - 1])

Counters ==
    /\ loader \in {"start", "block", "read", "reset", "left", "key", "rebooted",
                   "undefined"}
    /\ tries \in 0 .. 3 /\ failed \in 0 .. 3
    /\ loader \in {"read", "reset"} => tries # 0

\* Stage 2 is entered from the loader alone; the partition entry is in its place
\* from the boot sector's first instructions until it is read.
Handed ==
    /\ loader = "start" => at = "stage1"
    /\ at \in {"stage1", "restarted", "undefined"} \/ loader = "left"
    /\ loader # "start" /\ at \in {"stage1", "entry", "a20", "switch", "disk", "partition"} =>
          ram[PARTITION_ENTRY_SEGMENT * 16] = Sector!TABLE_ENTRY
    /\ partition \in {UNKNOWN, GARBAGE} \cup Nat
    /\ PartitionIsTheBooted

LEMMA Quotients ==
    ASSUME NEW n \in Nat, NEW s \in Nat \ {0}
    PROVE  /\ n \div s \in Nat /\ n % s \in 0 .. s - 1
           /\ n = (n \div s) * s + (n % s)
           /\ n < s => n \div s = 0 /\ n % s = n
PROOF
  <1>1. /\ n \div s \in Nat /\ n % s \in 0 .. s - 1
        /\ n = (n \div s) * s + (n % s)
    BY SMT
  <1>2. n < s => n \div s = 0 /\ n % s = n
    BY SMT
  <1> QED
    BY <1>1, <1>2

LEMMA Divides ==
    ASSUME NEW n \in Nat, NEW s \in Nat \ {0}
    PROVE  \E q \in Nat, r \in 0 .. s - 1 :
              /\ q = n \div s /\ r = n % s /\ n = q * s + r
              /\ n < s => q = 0 /\ r = n
PROOF
  <1>1. /\ n \div s \in Nat /\ n % s \in 0 .. s - 1
        /\ n = (n \div s) * s + (n % s)
        /\ n < s => n \div s = 0 /\ n % s = n
    BY Quotients
  <1> WITNESS n \div s \in Nat, n % s \in 0 .. s - 1
  <1> QED
    BY <1>1, Zenon

\* Dividing by the width of a sector in memory.
LEMMA Multiples ==
    ASSUME NEW w \in Nat \ {0}, NEW n \in Nat, NEW x \in Nat
    PROVE  /\ n * w \in Nat
           /\ (n * w) \div w = n
           /\ x >= n * w => x \div w >= n
           /\ \A m \in Nat : m < n => m * w + w <= n * w
PROOF
  <1>1. n * w \in Nat
    BY SMT
  <1>2. \A m \in Nat : m < n => m * w + w <= n * w
    <2> SUFFICES ASSUME NEW m \in Nat, m < n PROVE m * w + w <= n * w
      OBVIOUS
    <2>1. PICK d \in Nat : n = m + 1 + d
      <3>1. n - m - 1 \in Nat /\ n = m + 1 + (n - m - 1)
        OBVIOUS
      <3> QED
        BY <3>1
    <2>2. n * w = m * w + w + d * w /\ d * w \in Nat /\ m * w \in Nat
      BY <2>1
    <2> QED
      BY <2>2
  <1>3. ASSUME NEW y \in Nat, y >= n * w
        PROVE  y \div w >= n
    <2>1. PICK q \in Nat, r \in 0 .. w - 1 : y \div w = q /\ y = q * w + r
      BY Quotients
    <2>2. CASE q < n
      <3>1. \A m \in Nat : m < q + 1 => m * w + w <= (q + 1) * w
        OBVIOUS
      <3>2. q * w + w <= n * w
        BY <1>2, <2>2
      <3>3. q * w \in Nat
        BY <2>1
      <3> QED
        BY <1>1, <1>3, <2>1, <3>2, <3>3
    <2> QED
      BY <2>1, <2>2
  <1>4. (n * w) \div w = n
    <2>1. PICK q \in Nat, r \in 0 .. w - 1 : (n * w) \div w = q /\ n * w = q * w + r
      BY <1>1, Quotients
    <2>2. q >= n
      BY <1>1, <1>3, <2>1
    <2>3. CASE q > n
      <3>1. PICK d \in Nat : q = n + 1 + d
        <4>1. q - n - 1 \in Nat /\ q = n + 1 + (q - n - 1)
          BY <2>1, <2>3
        <4> QED
          BY <4>1
      <3>2. q * w = n * w + w + d * w /\ d * w \in Nat
        BY <3>1
      <3> QED
        BY <1>1, <2>1, <3>2
    <2> QED
      BY <2>1, <2>2, <2>3
  <1> QED
    BY <1>1, <1>2, <1>3, <1>4

\* What lba_to_chs puts into CL and CH, of a sector that has six bits.
Packed(c, s) == (c % 256) + 256 * Sector!Or((c \div 256) % 4, (s \div 64) % 4)

LEMMA PackedIs ==
    ASSUME NEW c \in 0 .. 1023, NEW s \in 1 .. 63
    PROVE  Packed(c, s) = c
PROOF
  <1>1. (s \div 64) % 4 = 0 /\ s % 64 = s
    OBVIOUS
  <1>2. (c \div 256) % 4 = c \div 256 /\ (c % 256) + 256 * (c \div 256) = c
    OBVIOUS
  <1>3. \A x \in 0 .. 3 : Sector!Or(x, 0) = x
    BY DEF Sector!Or
  <1>4. c \div 256 \in 0 .. 3
    OBVIOUS
  <1>5. Sector!Or((c \div 256) % 4, (s \div 64) % 4) = c \div 256
    BY <1>1, <1>2, <1>3, <1>4
  <1> QED
    BY <1>1, <1>2, <1>5 DEF Packed

\* A block is read from where it is, whichever way it is addressed.
LEMMA AddressedIs ==
    ASSUME machine \in Machines, NEW lba \in Nat, Addressable(machine, lba)
    PROVE  Sector!Addressed(lba) = lba
PROOF
  <1>1. /\ machine.header.sectors \in Nat \ {0} /\ machine.header.heads \in Nat \ {0}
        /\ machine.drive.sectors \in 1 .. 63 /\ machine.drive.heads \in 1 .. 256
    BY MachineFacts DEF MachineOk, Geometries, DriveGeometries
  <1>2. PICK hs \in Nat \ {0}, hh \in Nat \ {0}, ds \in 1 .. 63, dh \in 1 .. 256 :
            /\ machine.header.sectors = hs /\ machine.header.heads = hh
            /\ machine.drive.sectors = ds /\ machine.drive.heads = dh
    BY <1>1
  <1>3. CASE machine.extensions
    BY <1>3 DEF Sector!Addressed
  <1>4. PICK t \in Nat, s \in 0 .. hs - 1 :
            /\ t = lba \div hs /\ s = lba % hs /\ lba = t * hs + s
            /\ lba < hs => t = 0 /\ s = lba
    BY Divides
  <1>5. PICK c \in Nat, h \in 0 .. hh - 1 :
            /\ c = t \div hh /\ h = t % hh /\ t = c * hh + h
            /\ t < hh => c = 0 /\ h = t
    BY <1>4, Divides
  <1>10. lba < 65536 => lba % 65536 = lba
    OBVIOUS
  <1> DEFINE Sent(x) == (Packed((x \div hs) \div hh, (x % hs) + 1) * dh
                         + (((x \div hs) % hh) % 256)) * ds
                        + (((x % hs) + 1) % 64) - 1
  <1>11. ~machine.extensions => Sector!Addressed(lba) = Sent(lba % 65536)
    BY <1>2 DEF Sector!Addressed, Packed
  <1>13. Sent(lba) = (Packed(c, s + 1) * dh + (h % 256)) * ds + ((s + 1) % 64) - 1
    <2>1. lba \div hs = t /\ lba % hs = s /\ t \div hh = c /\ t % hh = h
      BY <1>4, <1>5
    <2>2. Sent(lba) = (Packed(t \div hh, s + 1) * dh + ((t % hh) % 256)) * ds
                      + ((s + 1) % 64) - 1
      BY <2>1, Zenon
    <2> QED
      BY <2>1, <2>2, Zenon
  <1> HIDE DEF Sent
  <1>14. ASSUME c < 1024, s < 63, h < 256
         PROVE  Sent(lba) = (c * dh + h) * ds + (s + 1) - 1
    <2>3. c \in 0 .. 1023 /\ s + 1 \in 1 .. 63
      BY <1>14
    <2>1. Packed(c, s + 1) = c
      BY <2>3, PackedIs
    <2>4. (s + 1) % 64 = s + 1
      BY <1>14
    <2>2. h % 256 = h
      BY <1>14
    <2> QED
      BY <1>13, <2>1, <2>2, <2>4, Zenon
  <1>12. ~machine.extensions /\ lba < 65536 /\ c < 1024 /\ s < 63 /\ h < 256 =>
           Sector!Addressed(lba) = (c * dh + h) * ds + (s + 1) - 1
    BY <1>10, <1>11, <1>14
  <1>6. CASE ~machine.extensions /\ lba < 65536 /\ machine.header = machine.drive /\ c < 1024
    <2>1. hs = ds /\ hh = dh /\ s < 63 /\ h < 256
      BY <1>2, <1>6
    <2>2. Sector!Addressed(lba) = (c * hh + h) * hs + (s + 1) - 1
      BY <1>12, <1>6, <2>1
    <2>3. Sector!Addressed(lba) = t * hs + (s + 1) - 1
      BY <1>5, <2>2
    <2>4. t * hs \in Nat /\ s \in Nat
      BY <1>4
    <2> QED
      BY <1>4, <2>3, <2>4
  <1>7. CASE ~machine.extensions /\ lba < 65536 /\ lba < hs /\ lba < ds
    <2>4. t = 0 /\ s = lba
      BY <1>4, <1>7
    <2>5. c = 0 /\ h = 0
      BY <1>5, <2>4
    <2>6. ds <= 63
      OBVIOUS
    <2>1. t = 0 /\ s = lba /\ c = 0 /\ h = 0 /\ s < 63
      BY <1>7, <2>4, <2>5, <2>6
    <2>2. (0 * dh + 0) * ds = 0
      OBVIOUS
    <2>3. Sector!Addressed(lba) = (0 * dh + 0) * ds + (lba + 1) - 1
      BY <1>12, <1>7, <2>1
    <2> QED
      BY <2>2, <2>3
  <1>8. Min({hs, ds}) <= hs /\ Min({hs, ds}) <= ds
    BY MinOfTwo
  <1>9. \/ machine.extensions
        \/ lba < 65536 /\ machine.header = machine.drive /\ c < 1024
        \/ lba < 65536 /\ lba < hs /\ lba < ds
    <2>1. Min({hs, ds}) \in Nat
      BY MinOfTwo
    <2>2. CASE machine.header = machine.drive /\ lba < 65536
               /\ (lba \div machine.drive.sectors) \div machine.drive.heads < 1024
      <3>1. hs = ds /\ hh = dh
        BY <1>2, <2>2
      <3>2. (lba \div hs) \div hh < 1024
        BY <1>2, <2>2, <3>1
      <3>3. lba \div hs = t /\ t \div hh = c
        BY <1>4, <1>5, Zenon
      <3>4. c < 1024
        BY <3>2, <3>3
      <3> QED
        BY <2>2, <3>4
    <2>3. CASE lba < Min({machine.header.sectors, machine.drive.sectors}) /\ lba < 65536
      BY <1>2, <1>8, <2>1, <2>3
    <2> QED
      BY <2>2, <2>3 DEF Addressable
  <1> QED
    BY <1>3, <1>6, <1>7, <1>9

\* The list's blocks come one after the other.
LEMMA BlockFacts ==
    ASSUME machine \in Machines
    PROVE  /\ Len(machine.blocks) \in 1 .. 5
           /\ machine.ends[0] = 0
           /\ \A b \in 0 .. Len(machine.blocks) : machine.ends[b] \in Nat
           /\ \A b \in 1 .. Len(machine.blocks) :
                 /\ machine.blocks[b].lba \in Nat /\ machine.blocks[b].count \in Nat \ {0}
                 /\ Addressable(machine, machine.blocks[b].lba)
                 /\ machine.ends[b] = machine.ends[b - 1] + machine.blocks[b].count
PROOF
  <1> DEFINE L == Len(machine.blocks)
  <1>1. BlocksOk(machine)
    BY MachineFacts
  <1>2. L \in 1 .. 5 /\ DOMAIN machine.blocks = 1 .. L
    BY <1>1 DEF BlocksOk
  <1>3. machine.ends \in [0 .. L -> 0 .. 5 * 255] /\ machine.ends[0] = 0
    BY <1>1, Zenon DEF BlocksOk
  <1>4. \A b \in 0 .. L : machine.ends[b] \in Nat
    <2> DEFINE S == 0 .. L
               T == 0 .. 5 * 255
    <2>1. \A x \in T : x \in Nat
      OBVIOUS
    <2>2. \A b \in S : machine.ends[b] \in T
      BY <1>3
    <2> QED
      BY <2>1, <2>2, Zenon
  <1>5. \A b \in DOMAIN machine.blocks :
           /\ machine.blocks[b].lba \in Nat \ {0} /\ machine.blocks[b].count \in 1 .. 255
           /\ Addressable(machine, machine.blocks[b].lba)
           /\ machine.ends[b] = machine.ends[b - 1] + machine.blocks[b].count
    BY <1>1, Zenon DEF BlocksOk
  <1>6. \A x \in 1 .. 255 : x \in Nat \ {0}
    OBVIOUS
  <1>7. \A x \in Nat \ {0} : x \in Nat
    OBVIOUS
  <1> HIDE DEF L
  <1>8. \A b \in 1 .. L :
           /\ machine.blocks[b].lba \in Nat /\ machine.blocks[b].count \in Nat \ {0}
           /\ Addressable(machine, machine.blocks[b].lba)
           /\ machine.ends[b] = machine.ends[b - 1] + machine.blocks[b].count
    BY <1>2, <1>5, <1>6, <1>7
  <1> QED
    BY <1>2, <1>3, <1>4, <1>8, Zenon DEF L

LEMMA EndsGrow ==
    ASSUME machine \in Machines, NEW a \in 0 .. Len(machine.blocks),
           NEW b \in 0 .. Len(machine.blocks), a < b
    PROVE  machine.ends[a] < machine.ends[b]
PROOF
  <1> DEFINE E(n) == machine.ends[n]
             L == Len(machine.blocks)
  <1>1. L \in 1 .. 5 /\ \A n \in 0 .. L : E(n) \in Nat
    BY BlockFacts
  <1>2. \A n \in 1 .. L : E(n - 1) < E(n)
    <2> SUFFICES ASSUME NEW n \in 1 .. L PROVE E(n - 1) < E(n)
      OBVIOUS
    <2>1. n - 1 \in 0 .. L
      BY <1>1
    <2>2. E(n) = E(n - 1) + machine.blocks[n].count /\ machine.blocks[n].count \in Nat \ {0}
      BY BlockFacts
    <2>3. E(n - 1) \in Nat
      BY <1>1, <2>1
    <2> HIDE DEF E
    <2> QED
      BY <2>2, <2>3
  <1>3. \A n \in 0 .. L : n + 1 <= L => E(n) < E(n + 1)
    <2> SUFFICES ASSUME NEW n \in 0 .. L, n + 1 <= L PROVE E(n) < E(n + 1)
      OBVIOUS
    <2>1. n + 1 \in 1 .. L /\ (n + 1) - 1 = n
      BY <1>1
    <2> QED
      BY <1>2, <2>1
  <1> HIDE DEF E, L
  <1>4. \A n \in 0 .. L : n + 2 <= L => E(n) < E(n + 2)
    <2> SUFFICES ASSUME NEW n \in 0 .. L, n + 2 <= L PROVE E(n) < E(n + 2)
      OBVIOUS
    <2>1. n + 1 \in 0 .. L /\ n + 2 \in 0 .. L /\ (n + 1) + 1 = n + 2
      BY <1>1
    <2> QED
      BY <1>1, <1>3, <2>1
  <1>5. \A n \in 0 .. L : n + 3 <= L => E(n) < E(n + 3)
    <2> SUFFICES ASSUME NEW n \in 0 .. L, n + 3 <= L PROVE E(n) < E(n + 3)
      OBVIOUS
    <2>1. n + 1 \in 0 .. L /\ n + 3 \in 0 .. L /\ (n + 1) + 2 = n + 3
      BY <1>1
    <2> QED
      BY <1>1, <1>3, <1>4, <2>1
  <1>6. \A n \in 0 .. L : n + 4 <= L => E(n) < E(n + 4)
    <2> SUFFICES ASSUME NEW n \in 0 .. L, n + 4 <= L PROVE E(n) < E(n + 4)
      OBVIOUS
    <2>1. n + 1 \in 0 .. L /\ n + 4 \in 0 .. L /\ (n + 1) + 3 = n + 4
      BY <1>1
    <2> QED
      BY <1>1, <1>3, <1>5, <2>1
  <1>7. \A n \in 0 .. L : n + 5 <= L => E(n) < E(n + 5)
    <2> SUFFICES ASSUME NEW n \in 0 .. L, n + 5 <= L PROVE E(n) < E(n + 5)
      OBVIOUS
    <2>1. n + 1 \in 0 .. L /\ n + 5 \in 0 .. L /\ (n + 1) + 4 = n + 5
      BY <1>1
    <2> QED
      BY <1>1, <1>3, <1>6, <2>1
  <1>9. a \in 0 .. L /\ b \in 0 .. L /\ b <= L
    BY <1>1 DEF L
  <1>8. b = a + 1 \/ b = a + 2 \/ b = a + 3 \/ b = a + 4 \/ b = a + 5
    BY <1>1, <1>9
  <1>10. E(a) < E(b)
    BY <1>3, <1>4, <1>5, <1>6, <1>7, <1>8, <1>9
  <1> QED
    BY <1>10 DEF E

\* Sector k of the second stage is in the one block that holds it.
LEMMA SectorOfIs ==
    ASSUME machine \in Machines, NEW b \in 1 .. Len(machine.blocks),
           NEW k \in Nat, machine.ends[b - 1] <= k, k < machine.ends[b]
    PROVE  Sector!SectorOf(k) = machine.blocks[b].lba + (k - machine.ends[b - 1])
PROOF
  <1> DEFINE Holds(j) == machine.ends[j - 1] <= k /\ k < machine.ends[j]
             D == DOMAIN machine.blocks
             c == CHOOSE j \in D : Holds(j)
  <1>1. D = 1 .. Len(machine.blocks)
    BY MachineFacts DEF BlocksOk
  <1>2. ASSUME NEW j \in D, Holds(j)
        PROVE  j = b
    <2>1. /\ j \in 1 .. Len(machine.blocks) /\ Len(machine.blocks) \in 1 .. 5
          /\ machine.ends[j] \in Nat /\ machine.ends[j - 1] \in Nat
          /\ machine.ends[b] \in Nat /\ machine.ends[b - 1] \in Nat
      <3>1. j \in 1 .. Len(machine.blocks) /\ Len(machine.blocks) \in 1 .. 5
        BY <1>1, <1>2, BlockFacts
      <3>2. /\ j \in 0 .. Len(machine.blocks) /\ j - 1 \in 0 .. Len(machine.blocks)
            /\ b \in 0 .. Len(machine.blocks) /\ b - 1 \in 0 .. Len(machine.blocks)
        BY <3>1
      <3> QED
        BY <3>1, <3>2, BlockFacts
    <2>2. CASE j < b
      <3>1. machine.ends[j] <= machine.ends[b - 1]
        <4>1. j = b - 1 \/ j < b - 1
          BY <2>1, <2>2
        <4>2. j < b - 1 => machine.ends[j] < machine.ends[b - 1]
          BY <2>1, EndsGrow
        <4> QED
          BY <2>1, <4>1, <4>2
      <3> QED
        BY <1>2, <2>1, <3>1
    <2>3. CASE b < j
      <3>1. machine.ends[b] <= machine.ends[j - 1]
        <4>1. b = j - 1 \/ b < j - 1
          BY <2>1, <2>3
        <4>2. b < j - 1 => machine.ends[b] < machine.ends[j - 1]
          BY <2>1, EndsGrow
        <4> QED
          BY <2>1, <4>1, <4>2
      <3> QED
        BY <1>2, <2>1, <3>1
    <2> QED
      BY <2>1, <2>2, <2>3
  <1>3. b \in D /\ Holds(b)
    BY <1>1
  <1>4. c = b
    <2> HIDE DEF D, Holds
    <2>1. c \in D /\ Holds(c)
      BY <1>3
    <2> HIDE DEF c
    <2> QED
      BY <1>2, <2>1
  <1>5. Sector!SectorOf(k) = machine.blocks[c].lba + (k - machine.ends[c - 1])
    BY DEF Sector!SectorOf, Sector!Blocks
  <1> HIDE DEF c
  <1> QED
    BY <1>4, <1>5

\* The size of a sector in memory, and a place counted in sectors.
WIDTH == 16 * PARAGRAPHS

LEMMA PlaceFacts ==
    /\ WIDTH \in Nat \ {0} /\ \A k \in Nat : Place(k) \in Nat
    /\ \A a \in Nat, b \in Nat : a < b => Place(a) + WIDTH <= Place(b)
    /\ \A a \in Nat, n \in Nat, p \in Nat : p >= Place(a + n) =>
          p >= Place(a) /\ (p - Place(a)) \div WIDTH >= n
    /\ \A a \in Nat, n \in Nat : (Place(a + n) - Place(a)) \div WIDTH = n
    /\ \A e \in Nat : Sector!Linear(e * PARAGRAPHS, STAGE2_LOAD_OFFSET) = Place(e)
PROOF
  <1>1. STAGE2_LOAD_OFFSET \in Nat /\ PARAGRAPHS \in Nat \ {0}
    BY PlaceAssumption
  <1>2. PICK w \in Nat \ {0}, s \in Nat : w = WIDTH /\ s = STAGE2_LOAD_OFFSET
    BY <1>1 DEF WIDTH
  <1>3. \A k : Place(k) = s + w * k
    BY <1>2 DEF Place, WIDTH
  <1>4. ASSUME NEW k \in Nat
        PROVE  w * k \in Nat /\ w * k = k * w /\ Place(k) \in Nat
    BY <1>3
  <1>5. ASSUME NEW a \in Nat, NEW b \in Nat, a < b
        PROVE  Place(a) + w <= Place(b)
    <2>1. a * w + w <= b * w
      BY <1>5, Multiples
    <2>2. Place(a) = s + a * w /\ Place(b) = s + b * w
      BY <1>3, <1>4
    <2>3. a * w \in Nat /\ b * w \in Nat
      OBVIOUS
    <2> DEFINE x == a * w
               y == b * w
    <2>4. x \in Nat /\ y \in Nat /\ x + w <= y /\ Place(a) = s + x /\ Place(b) = s + y
      BY <2>1, <2>2, <2>3
    <2> HIDE DEF x, y
    <2> QED
      BY <2>4
  <1>6. ASSUME NEW a \in Nat, NEW n \in Nat
        PROVE  Place(a + n) = Place(a) + n * w /\ n * w \in Nat
    <2>1. w * (a + n) = w * a + w * n
      OBVIOUS
    <2> QED
      BY <1>3, <1>4, <2>1
  <1>7. ASSUME NEW a \in Nat, NEW n \in Nat, NEW p \in Nat, p >= Place(a + n)
        PROVE  p >= Place(a) /\ (p - Place(a)) \div w >= n
    <2>1. /\ Place(a) \in Nat /\ p >= Place(a) /\ p - Place(a) \in Nat
          /\ p - Place(a) >= n * w
      BY <1>4, <1>6, <1>7
    <2> QED
      BY <2>1, Multiples
  <1>8. ASSUME NEW a \in Nat, NEW n \in Nat
        PROVE  (Place(a + n) - Place(a)) \div w = n
    <2>1. Place(a + n) - Place(a) = n * w
      BY <1>4, <1>6
    <2> QED
      BY <2>1, Multiples
  <1>9. ASSUME NEW e \in Nat
        PROVE  Sector!Linear(e * PARAGRAPHS, STAGE2_LOAD_OFFSET) = Place(e)
    <2>1. PICK p \in Nat : p = PARAGRAPHS
      BY <1>1
    <2>2. (e * p) * 16 + s = s + (16 * p) * e
      OBVIOUS
    <2> QED
      BY <1>2, <2>1, <2>2 DEF Sector!Linear, Place
  <1> QED
    BY <1>2, <1>4, <1>5, <1>7, <1>8, <1>9

LEMMA PlacesApart ==
    ASSUME machine \in Machines, NEW b \in 1 .. Len(machine.blocks),
           NEW k \in 0 .. machine.ends[b] - 1
    PROVE  /\ Place(k) \in Places
           /\ Place(k) + WIDTH <= MEMORY_FAT_ADDR
           /\ Place(k) + WIDTH <= PARTITION_ENTRY_SEGMENT * 16
PROOF
  <1> DEFINE L == Len(machine.blocks)
  <1>1. /\ L \in 1 .. 5 /\ machine.ends[b] \in Nat /\ machine.ends[L] \in Nat
        /\ machine.ends[b] <= machine.ends[L]
    <2>1. L \in 1 .. 5
      BY BlockFacts
    <2>2. b \in 0 .. L /\ L \in 0 .. L /\ (b = L \/ b < L)
      BY <2>1
    <2>3. b < L => machine.ends[b] < machine.ends[L]
      BY <2>2, EndsGrow
    <2>4. machine.ends[b] \in Nat /\ machine.ends[L] \in Nat
      BY <2>2, BlockFacts
    <2> QED
      BY <2>1, <2>2, <2>3, <2>4
  <1>2. k \in 0 .. machine.ends[L] - 1
    BY <1>1
  <1>3. \A n \in 0 .. machine.ends[L] - 1 :
           /\ Place(n) \in Places
           /\ Place(n) + WIDTH <= MEMORY_FAT_ADDR
           /\ Place(n) + WIDTH <= PARTITION_ENTRY_SEGMENT * 16
    BY MachineFacts, Zenon DEF BlocksOk, Place, WIDTH
  <1> HIDE DEF L
  <1> QED
    BY <1>2, <1>3

\* A call of BIOS for the block at hand leaves the blocks before it and the
\* partition entry alone, and brings the sectors that it is asked for.
LEMMA FilledIs ==
    ASSUME machine \in Machines, ram \in [Places -> Int],
           block \in 1 .. Len(machine.blocks),
           es = machine.ends[block - 1] * PARAGRAPHS,
           NEW n \in 0 .. machine.blocks[block].count
    PROVE  /\ Sector!Filled(n) \in [Places -> Int]
           /\ \A k \in 0 .. machine.ends[block - 1] - 1 :
                 Sector!Filled(n)[Place(k)] = ram[Place(k)]
           /\ \A k \in Nat : machine.ends[block - 1] <= k /\ k < machine.ends[block - 1] + n =>
                 Sector!Filled(n)[Place(k)] = Sector!SectorOf(k)
           /\ Sector!Filled(n)[PARTITION_ENTRY_SEGMENT * 16] =
                 ram[PARTITION_ENTRY_SEGMENT * 16]
PROOF
  <1>1. PICK e \in Nat, c \in Nat \ {0}, lba \in Nat, f \in Nat :
           /\ e = machine.ends[block - 1] /\ c = machine.blocks[block].count
           /\ lba = machine.blocks[block].lba /\ f = machine.ends[block]
           /\ f = e + c /\ Addressable(machine, lba)
    <2>1. block - 1 \in 0 .. Len(machine.blocks) /\ block \in 0 .. Len(machine.blocks)
      BY BlockFacts
    <2>2. /\ machine.ends[block - 1] \in Nat /\ machine.blocks[block].count \in Nat \ {0}
          /\ machine.blocks[block].lba \in Nat /\ machine.ends[block] \in Nat
          /\ machine.ends[block] = machine.ends[block - 1] + machine.blocks[block].count
          /\ Addressable(machine, machine.blocks[block].lba)
      BY <2>1, BlockFacts
    <2> QED
      BY <2>2, Zenon
  <1>11. n \in Nat /\ n <= c
    BY <1>1
  <1>12. f = e + c
    BY <1>1, Zenon
  <1>2. Sector!Addressed(lba) = lba
    BY <1>1, AddressedIs
  <1> DEFINE nth(p) == (p - Place(e)) \div WIDTH
  <1>3. Sector!Filled(n) = [p \in Places |-> IF p >= Place(e) /\ nth(p) < n
                                              THEN lba + nth(p) ELSE ram[p]]
    <2>1. Sector!Linear(es, STAGE2_LOAD_OFFSET) = Place(e)
      BY <1>1, PlaceFacts
    <2>2. Sector!Filled(n) =
             [p \in Places |-> IF p >= Place(e) /\ nth(p) < n
                               THEN Sector!Addressed(lba) + nth(p) ELSE ram[p]]
      BY <1>1, <2>1, Zenon DEF Sector!Filled, Sector!Blocks, WIDTH
    <2> QED
      BY <1>2, <2>2, Zenon
  <1>4. Places \subseteq Nat /\ PARTITION_ENTRY_SEGMENT * 16 \in Places
    BY PlaceAssumption
  <1>5. ASSUME NEW p \in Places
        PROVE  p >= Place(e) => nth(p) \in Int
    <2>1. p \in Nat /\ Place(e) \in Nat /\ WIDTH \in Nat \ {0}
      BY <1>4, PlaceFacts
    <2>2. CASE p >= Place(e)
      <3>1. PICK x \in Nat : x = p - Place(e)
        BY <2>1, <2>2
      <3> QED
        BY <2>1, <3>1, Quotients
    <2> QED
      BY <2>2
  <1> HIDE DEF nth
  <1>6. Sector!Filled(n) \in [Places -> Int]
    BY <1>3, <1>5
  <1>7. ASSUME NEW k \in Nat, k < f
        PROVE  Place(k) \in Places
    <2>1. k \in 0 .. machine.ends[block] - 1
      BY <1>1, <1>7
    <2> QED
      BY <2>1, PlacesApart
  <1>8. ASSUME NEW k \in 0 .. e - 1
        PROVE  Sector!Filled(n)[Place(k)] = ram[Place(k)]
    <2>1. k \in Nat /\ k < e /\ k < f
      BY <1>1, SMTT(40)
    <2>2. Place(k) + WIDTH <= Place(e) /\ Place(k) \in Nat /\ Place(e) \in Nat
          /\ WIDTH \in Nat \ {0}
      BY <2>1, PlaceFacts
    <2>3. ~(Place(k) >= Place(e))
      BY <2>2
    <2> QED
      BY <1>3, <1>7, <2>1, <2>3
  <1>9. ASSUME NEW k \in Nat, e <= k, k < e + n
        PROVE  Sector!Filled(n)[Place(k)] = Sector!SectorOf(k)
    <2>1. PICK d \in Nat : k = e + d /\ d < n /\ k < f /\ d = k - e
      <3>1. k - e \in Nat /\ k = e + (k - e) /\ k - e < n /\ k < f
        BY <1>9, <1>11, <1>12
      <3> QED
        BY <3>1
    <2>2. nth(Place(k)) = d
      BY <2>1, PlaceFacts DEF nth
    <2>3. Place(k) >= Place(e)
      <3>1. Place(k) \in Nat /\ Place(e) \in Nat /\ WIDTH \in Nat
            /\ (e < k => Place(e) + WIDTH <= Place(k))
        BY PlaceFacts
      <3> QED
        BY <1>9, <3>1
    <2>4. Sector!Filled(n)[Place(k)] = lba + d
      BY <1>3, <1>7, <2>1, <2>2, <2>3
    <2>5. Sector!SectorOf(k) = lba + (k - e)
      BY <1>1, <1>9, <2>1, SectorOfIs
    <2> QED
      BY <2>1, <2>4, <2>5
  <1>10. Sector!Filled(n)[PARTITION_ENTRY_SEGMENT * 16] = ram[PARTITION_ENTRY_SEGMENT * 16]
    <2> DEFINE q == PARTITION_ENTRY_SEGMENT * 16
    <2>1. q \in Nat /\ q \in Places
      BY <1>4
    <2>2. q >= Place(e + n)
      <3>1. PICK k \in Nat : k = f - 1 /\ k \in 0 .. machine.ends[block] - 1
        <4>1. f - 1 \in Nat /\ f - 1 \in 0 .. f - 1
          BY <1>12
        <4> QED
          BY <1>1, <4>1
      <3>2. Place(k) + WIDTH <= q
        BY <3>1, PlacesApart
      <3>3. e + n \in Nat /\ e + n <= k + 1
        BY <1>11, <1>12, <3>1
      <3>4. /\ Place(e + n) \in Nat /\ Place(k + 1) \in Nat /\ Place(k) \in Nat
            /\ e + n < k + 1 => Place(e + n) + WIDTH <= Place(k + 1)
            /\ WIDTH \in Nat
        <4>1. k + 1 \in Nat
          BY <3>1
        <4> QED
          BY <3>1, <3>3, <4>1, PlaceFacts
      <3>5. Place(k + 1) = Place(k) + WIDTH
        <4>1. PICK w \in Nat : w = WIDTH
          BY PlaceFacts
        <4>2. w * (k + 1) = w * k + w /\ w * k \in Nat
          OBVIOUS
        <4>3. STAGE2_LOAD_OFFSET \in Nat
          BY PlaceAssumption
        <4> QED
          BY <4>1, <4>2, <4>3 DEF Place, WIDTH
      <3> HIDE DEF q
      <3> QED
        BY <2>1, <3>2, <3>3, <3>4, <3>5
    <2>3. nth(q) >= n
      <3>1. \A p \in Nat : p >= Place(e + n) => (p - Place(e)) \div WIDTH >= n
        BY <1>1, <1>11, PlaceFacts
      <3> HIDE DEF q
      <3> QED
        BY <2>1, <2>2, <3>1 DEF nth
    <2>4. ~(nth(q) < n)
      <3>1. \A p \in Nat : p >= Place(e + n) => p >= Place(e)
        BY <1>1, <1>11, PlaceFacts
      <3>2. nth(q) \in Int
        BY <1>5, <2>1, <2>2, <3>1
      <3> HIDE DEF q
      <3> QED
        BY <1>11, <2>3, <3>2
    <2> QED
      BY <1>3, <2>1, <2>4, Zenon
  <1> QED
    BY <1>1, <1>6, <1>8, <1>9, <1>10, Zenon

\* The steps that the boot sector's registers and what it loaded may see.
LEMMA LoadStep ==
    ASSUME [BootNext]_bootVars
    PROVE  \/ at = "stage1" /\ Sector!Work /\ at' = at
           \/ at = "stage1" /\ Sector!Reboot /\ at' = "restarted"
           \/ /\ at = "fat" /\ at' \in {"detect", "halted"}
              /\ ram' = [ram EXCEPT ![MEMORY_FAT_ADDR] = DRIVER]
              /\ UNCHANGED <<loader, block, es, count, tries, failed, cut>>
           \/ UNCHANGED sectorVars
PROOF
  <1>1. CASE UNCHANGED bootVars
    BY <1>1 DEF bootVars
  <1>2. CASE Stage1 \/ Reboot
    BY <1>2 DEF Stage1, Reboot
  <1>3. CASE Stage2 \/ Instruction
    BY <1>3 DEF Stage2, Instruction
  <1>4. CASE EnableA20 \/ Controller \/ Press
    BY <1>4 DEF EnableA20, Controller, Press, notKeyboard
  <1>5. CASE EnterStart \/ CallBios \/ Bios \/ BackInC
    BY <1>5 DEF EnterStart, CallBios, Bios, BackInC
  <1>6. CASE DISK_Initialize \/ MBR_DetectPartition \/ Memory_Detect
    BY <1>6 DEF DISK_Initialize, MBR_DetectPartition, Memory_Detect
  <1>7. CASE FAT_Initialize
    BY <1>7, AfterIs DEF FAT_Initialize
  <1>8. CASE LoadKernel \/ HAL_Initialize \/ LogRegions
    BY <1>8 DEF LoadKernel, HAL_Initialize, LogRegions
  <1> QED
    BY <1>1, <1>2, <1>3, <1>4, <1>5, <1>6, <1>7, <1>8 DEF BootNext, BootWork

LEMMA SectorsKept ==
    ASSUME machine \in Machines, machine' = machine, Sectors,
           ram' \in [Places -> Int], UNCHANGED <<block, es, cut>>, count' \in Nat,
           \A k \in 0 .. machine.ends[block - 1] - 1 : ram'[Place(k)] = ram[Place(k)],
           loader' \in {"read", "reset"} =>
              block <= Len(machine.blocks) /\ count' \in 0 .. machine.blocks[block].count,
           loader' = "left" => block = Len(machine.blocks) + 1
    PROVE  Sectors'
PROOF
  <1>1. \A k : Sector!SectorOf(k)' = Sector!SectorOf(k)
    BY DEF Sector!SectorOf, Sector!Blocks
  <1>2. \A k : Place(k)' = Place(k)
    BY DEF Place
  <1>3. SectorsUpTo(machine.ends[block - 1]) => SectorsUpTo(machine.ends[block - 1])'
    BY <1>1, <1>2 DEF SectorsUpTo
  <1> QED
    BY <1>3 DEF Sectors

\* What else is put into memory lies behind the second stage.
LEMMA ElsewhereKept ==
    ASSUME machine \in Machines, Sectors, NEW v \in Int,
           NEW q \in {MEMORY_FAT_ADDR, PARTITION_ENTRY_SEGMENT * 16},
           ram' = [ram EXCEPT ![q] = v]
    PROVE  /\ ram' \in [Places -> Int]
           /\ \A k \in 0 .. machine.ends[block - 1] - 1 : ram'[Place(k)] = ram[Place(k)]
PROOF
  <1>1. ram' \in [Places -> Int]
    BY DEF Sectors
  <1>2. ASSUME NEW k \in 0 .. machine.ends[block - 1] - 1
        PROVE  ram'[Place(k)] = ram[Place(k)]
    <2>1. block \in 1 .. Len(machine.blocks) + 1 /\ Len(machine.blocks) \in 1 .. 5
          /\ machine.ends[0] = 0
      BY BlockFacts DEF Sectors
    <2>2. block - 1 # 0
      <3>1. CASE block - 1 = 0
        <4>1. k \in 0 .. 0 - 1
          BY <2>1, <3>1
        <4> QED
          BY <4>1
      <3> QED
        BY <3>1
    <2>3. block - 1 \in 1 .. Len(machine.blocks)
      BY <2>1, <2>2
    <2>4. /\ Place(k) \in Places /\ Place(k) + WIDTH <= MEMORY_FAT_ADDR
          /\ Place(k) + WIDTH <= PARTITION_ENTRY_SEGMENT * 16
      BY <2>3, PlacesApart
    <2>5. Places \subseteq Nat /\ WIDTH \in Nat \ {0} /\ q \in Places
      BY PlaceFacts, PlaceAssumption
    <2>6. Place(k) # q
      BY <2>4, <2>5
    <2> QED
      BY <2>4, <2>6 DEF Sectors
  <1> QED
    BY <1>1, <1>2

\* A block that is read whole joins those before it.
LEMMA ReadKeeps ==
    ASSUME machine \in Machines, machine' = machine, Sectors, Sector!Read
    PROVE  Sectors'
PROOF
  <1>1. /\ block \in 1 .. Len(machine.blocks) /\ Len(machine.blocks) \in 1 .. 5
        /\ es = machine.ends[block - 1] * PARAGRAPHS
        /\ count \in 0 .. machine.blocks[block].count /\ ram \in [Places -> Int]
        /\ ram' = Sector!Filled(count)
    BY BlockFacts DEF Sectors, Sector!Read
  <1>2. PICK e \in Nat, c \in Nat \ {0}, f \in Nat, p \in Nat :
           /\ e = machine.ends[block - 1] /\ c = machine.blocks[block].count
           /\ f = machine.ends[block] /\ f = e + c /\ p = PARAGRAPHS
    <2>1. block - 1 \in 0 .. Len(machine.blocks) /\ block \in 0 .. Len(machine.blocks)
      BY <1>1
    <2>2. /\ machine.ends[block - 1] \in Nat /\ machine.blocks[block].count \in Nat \ {0}
          /\ machine.ends[block] \in Nat /\ PARAGRAPHS \in Nat
          /\ machine.ends[block] = machine.ends[block - 1] + machine.blocks[block].count
      BY <1>1, <2>1, BlockFacts, PlaceAssumption
    <2> QED
      BY <2>2, Zenon
  <1>3. /\ ram' \in [Places -> Int]
        /\ \A k \in 0 .. e - 1 : ram'[Place(k)] = ram[Place(k)]
        /\ \A k \in Nat : e <= k /\ k < e + count => ram'[Place(k)] = Sector!SectorOf(k)
    BY <1>1, <1>2, FilledIs
  <1>4. /\ block' = block + 1 /\ loader' # "read" /\ loader' # "reset" /\ loader' # "left"
        /\ es' = es + machine.blocks[block].count * PARAGRAPHS /\ count' = count
        /\ cut' = (cut \/ count < machine.blocks[block].count)
    BY DEF Sector!Read, Sector!Goes, Sector!Blocks
  <1>5. es' = machine'.ends[block' - 1] * PARAGRAPHS
    <2>1. block' - 1 = block
      BY <1>1, <1>4
    <2>2. es' = e * p + c * p
      BY <1>1, <1>2, <1>4, Zenon
    <2>3. (e + c) * p = e * p + c * p
      OBVIOUS
    <2>4. machine'.ends[block' - 1] = e + c
      BY <1>2, <2>1, Zenon
    <2> QED
      BY <1>2, <2>2, <2>3, <2>4, Zenon
  <1>6. ASSUME ~cut'
        PROVE  \A k \in 0 .. f - 1 : ram'[Place(k)] = Sector!SectorOf(k)
    <2>1. ~cut /\ ~(count < c)
      BY <1>2, <1>4, <1>6, Zenon
    <2>2. count \in 0 .. c
      BY <1>1, <1>2, Zenon
    <2>3. count = c
      BY <2>1, <2>2
    <2>4. \A k \in 0 .. e - 1 : ram[Place(k)] = Sector!SectorOf(k)
      BY <1>2, <2>1, Zenon DEF Sectors, SectorsUpTo
    <2> SUFFICES ASSUME NEW k \in 0 .. f - 1 PROVE ram'[Place(k)] = Sector!SectorOf(k)
      OBVIOUS
    <2>5. f = e + c
      BY <1>2, Zenon
    <2>6. CASE k < e
      <3>1. k \in 0 .. e - 1
        BY <2>6
      <3> QED
        BY <1>3, <2>4, <3>1, Zenon
    <2>7. CASE ~(k < e)
      <3>1. k \in Nat /\ e <= k /\ k < e + count
        BY <2>3, <2>5, <2>7
      <3> QED
        BY <1>3, <3>1, Zenon
    <2> QED
      BY <2>6, <2>7
  <1>7. block' \in 1 .. Len(machine'.blocks) + 1 /\ block' - 1 = block
    BY <1>1, <1>4
  <1>8. ~cut' => SectorsUpTo(machine.ends[block - 1])'
    <2>1. machine'.ends[block' - 1] = f
      BY <1>2, <1>7, Zenon
    <2>2. \A k : Sector!SectorOf(k)' = Sector!SectorOf(k) /\ Place(k)' = Place(k)
      BY DEF Sector!SectorOf, Sector!Blocks, Place
    <2> QED
      BY <1>6, <2>1, <2>2 DEF SectorsUpTo
  <1>9. cut' \in BOOLEAN /\ count' \in Nat
    BY <1>4, Zenon DEF Sectors
  <1> QED
    BY <1>3, <1>4, <1>5, <1>7, <1>8, <1>9, Zenon DEF Sectors

LEMMA SectorsStep ==
    ASSUME machine \in Machines, machine' = machine, Sectors,
           [BootNext]_bootVars
    PROVE  Sectors'
PROOF
  <1> DEFINE L == Len(machine.blocks)
             Same == UNCHANGED <<block, es, cut>>
             Whole == \A k \in 0 .. machine.ends[block - 1] - 1 : ram'[Place(k)] = ram[Place(k)]
  <1>1. CASE UNCHANGED sectorVars
    BY <1>1, SectorsKept DEF sectorVars, Sectors
  <1>2. CASE /\ ram' = [ram EXCEPT ![MEMORY_FAT_ADDR] = DRIVER]
             /\ UNCHANGED <<loader, block, es, count, cut>>
    <2>1. DRIVER \in Int
      BY DEF DRIVER
    <2>2. ram' \in [Places -> Int] /\ Whole
      BY <1>2, <2>1, ElsewhereKept
    <2> QED
      BY <1>2, <2>2, SectorsKept DEF Sectors
  <1>3. CASE Sector!Start
    <2>1. Sector!TABLE_ENTRY \in Int
      BY DEF Sector!TABLE_ENTRY
    <2>2. ram' = [ram EXCEPT ![PARTITION_ENTRY_SEGMENT * 16] = Sector!TABLE_ENTRY]
      <3>1. Sector!Linear(PARTITION_ENTRY_SEGMENT, 0) = PARTITION_ENTRY_SEGMENT * 16
        BY PlaceAssumption DEF Sector!Linear
      <3> QED
        BY <1>3, <3>1 DEF Sector!Start
    <2>3. ram' \in [Places -> Int] /\ Whole
      BY <2>1, <2>2, ElsewhereKept
    <2>4. Same /\ count' = count /\ loader' = "block"
      BY <1>3 DEF Sector!Start
    <2> QED
      BY <2>3, <2>4, SectorsKept DEF Sectors
  <1>4. CASE Sector!NextBlock
    <2>1. block \in 1 .. L /\ machine.blocks[block].count \in Nat
      BY <1>4, BlockFacts DEF Sector!NextBlock, Sector!IsBlock, Sector!Blocks, Sectors
    <2>2. /\ Same /\ ram' = ram /\ count' = machine.blocks[block].count
          /\ loader' = "read"
      BY <1>4 DEF Sector!NextBlock, Sector!Blocks
    <2> QED
      BY <2>1, <2>2, SectorsKept DEF Sectors
  <1>5. CASE Sector!Jump
    <2>1. ~(block <= L) /\ Same /\ ram' = ram /\ count' = count /\ loader' = "left"
      BY <1>5 DEF Sector!Jump, Sector!IsBlock, Sector!Blocks
    <2>2. block = L + 1
      BY <2>1, BlockFacts DEF Sectors
    <2> QED
      BY <2>1, <2>2, SectorsKept DEF Sectors
  <1>6. CASE Sector!Read
    BY <1>6, ReadKeeps
  <1>7. CASE Sector!ReadFails
    <2>1. PICK n \in 0 .. count : /\ ram' = Sector!Filled(n)
                                  /\ count' = count \/ count' = n
      BY <1>7, Zenon DEF Sector!ReadFails
    <2>2. /\ block \in 1 .. L /\ count \in 0 .. machine.blocks[block].count
          /\ machine.blocks[block].count \in Nat
      BY <1>7, BlockFacts DEF Sector!ReadFails, Sectors
    <2>3. n \in 0 .. machine.blocks[block].count /\ n \in Nat
      BY <2>1, <2>2
    <2>4. ram' \in [Places -> Int] /\ Whole
      BY <2>1, <2>2, <2>3, FilledIs DEF Sectors
    <2>5. Same /\ loader' # "left"
      BY <1>7 DEF Sector!ReadFails, Sector!Goes
    <2>6. count' \in 0 .. machine.blocks[block].count /\ count' \in Nat
      BY <2>1, <2>2, <2>3
    <2> QED
      BY <2>2, <2>4, <2>5, <2>6, SectorsKept
  <1>8. CASE Sector!Reset \/ Sector!ResetFails
    <2>1. Same /\ ram' = ram /\ count' = count /\ loader = "reset" /\ loader' # "left"
      BY <1>8 DEF Sector!Reset, Sector!ResetFails
    <2> QED
      BY <2>1, SectorsKept DEF Sectors
  <1>9. CASE Sector!Reboot
    <2>1. Same /\ ram' = ram /\ count' = count /\ loader' = "rebooted"
      BY <1>9 DEF Sector!Reboot
    <2> QED
      BY <2>1, SectorsKept DEF Sectors
  <1> QED
    BY <1>1, <1>2, <1>3, <1>4, <1>5, <1>6, <1>7, <1>8, <1>9, LoadStep DEF Sector!Work

LEMMA CountersStep ==
    ASSUME Attempts, Counters, [BootNext]_bootVars
    PROVE  Counters'
PROOF
  <1>1. CASE UNCHANGED <<loader, tries, failed>>
    BY <1>1 DEF Counters
  <1>2. CASE Sector!Start \/ Sector!Jump \/ Sector!ResetFails \/ Sector!Reboot
    BY <1>2 DEF Counters, Sector!Start, Sector!Jump, Sector!ResetFails, Sector!Reboot
  <1>3. CASE Sector!NextBlock
    BY <1>3 DEF Counters, Sector!NextBlock
  <1>4. CASE Sector!Read
    BY <1>4 DEF Counters, Sector!Read, Sector!Goes
  <1>5. CASE Sector!ReadFails
    <2>1. /\ loader = "read" /\ tries' = tries /\ failed' = failed + 1
          /\ loader' = "reset" \/ loader' = "undefined"
      BY <1>5 DEF Sector!ReadFails, Sector!Goes
    <2>2. failed \in 0 .. 2 /\ tries \in 1 .. 3
      BY <2>1 DEF Attempts, Counters
    <2> QED
      BY <2>1, <2>2 DEF Counters
  <1>6. CASE Sector!Reset
    BY <1>6 DEF Counters, Sector!Reset
  <1> QED
    BY <1>1, <1>2, <1>3, <1>4, <1>5, <1>6, SectorStep DEF Sector!Work

\* Who may follow whom.
LEMMA AtStep ==
    ASSUME A20IInv, Calm, Order, [BootNext]_bootVars
    PROVE  /\ \/ at' = at
              \/ at' \in {"restarted", "undefined"}
              \/ at' = "halted" /\ at \in {"disk", "fat", "elf"}
              \/ at = "stage1" /\ at' = "entry" /\ loader = "left"
              \/ at = "entry" /\ at' = "a20"
              \/ at = "a20" /\ at' = "switch"
              \/ at = "switch" /\ at' = "disk"
              \/ at = "disk" /\ at' = "partition"
              \/ at = "partition" /\ at' = "fat" /\ MBR_DetectPartition
              \/ at = "fat" /\ at' = "detect"
              \/ at = "detect" /\ at' = "elf"
              \/ at = "elf" /\ at' = "gdt"
              \/ at = "gdt" /\ at' = "log"
              \/ at = "log" /\ at' = "loop"
           /\ at = "stage1" /\ at' # at => loader # "start"
           /\ partition' # partition => MBR_DetectPartition
PROOF
  <1>1. CASE UNCHANGED bootVars
    BY <1>1 DEF bootVars
  <1>2. CASE Stage1 \/ Reboot \/ Stage2 \/ Instruction
    BY <1>2 DEF Stage1, Reboot, Stage2, Instruction, Sector!Reboot
  <1>3. CASE EnableA20
    BY <1>3 DEF EnableA20, notKeyboard
  <1>4. CASE Controller \/ Press
    BY <1>4, CalmController DEF Controller, Press, notKeyboard
  <1>5. CASE EnterStart \/ CallBios \/ Bios \/ BackInC
    BY <1>5 DEF EnterStart, CallBios, Bios, BackInC
  <1>6. CASE DISK_Initialize \/ MBR_DetectPartition \/ FAT_Initialize \/ Memory_Detect
    BY <1>6, AfterIs DEF DISK_Initialize, MBR_DetectPartition, FAT_Initialize, Memory_Detect
  <1>7. CASE LoadKernel
    BY <1>7 DEF LoadKernel
  <1>8. CASE HAL_Initialize
    BY <1>8 DEF HAL_Initialize
  <1>9. CASE LogRegions
    BY <1>9 DEF LogRegions
  <1> QED
    BY <1>1, <1>2, <1>3, <1>4, <1>5, <1>6, <1>7, <1>8, <1>9 DEF BootNext, BootWork

\* The entry's place is written by the boot sector's start alone until it is read.
LEMMA EntryStep ==
    ASSUME machine \in Machines, Sectors, [BootNext]_bootVars, at # "fat"
    PROVE  /\ loader' = "start" => loader = "start"
           /\ loader = "start" /\ loader' # "start" =>
                 ram'[PARTITION_ENTRY_SEGMENT * 16] = Sector!TABLE_ENTRY
           /\ loader # "start" =>
                 ram'[PARTITION_ENTRY_SEGMENT * 16] = ram[PARTITION_ENTRY_SEGMENT * 16]
           /\ at # "stage1" => loader' = loader
PROOF
  <1>1. PARTITION_ENTRY_SEGMENT * 16 \in Places /\ ram \in [Places -> Int]
    BY PlaceAssumption DEF Sectors
  <1>2. CASE UNCHANGED sectorVars
    BY <1>2 DEF sectorVars
  <1>3. CASE at = "stage1" /\ Sector!Start
    <2>1. Sector!Linear(PARTITION_ENTRY_SEGMENT, 0) = PARTITION_ENTRY_SEGMENT * 16
      BY PlaceAssumption DEF Sector!Linear
    <2>2. /\ loader = "start" /\ loader' = "block"
          /\ ram' = [ram EXCEPT ![PARTITION_ENTRY_SEGMENT * 16] = Sector!TABLE_ENTRY]
      BY <1>3, <2>1 DEF Sector!Start
    <2> QED
      BY <1>1, <1>3, <2>2
  <1>4. CASE at = "stage1" /\ (Sector!Read \/ Sector!ReadFails)
    <2>1. /\ block \in 1 .. Len(machine.blocks) /\ loader = "read" /\ loader' # "start"
          /\ count \in 0 .. machine.blocks[block].count /\ count \in Nat
          /\ machine.blocks[block].count \in Nat
      BY <1>4, BlockFacts DEF Sectors, Sector!Read, Sector!ReadFails, Sector!Goes
    <2>2. PICK n \in 0 .. count : ram' = Sector!Filled(n)
      BY <1>4, <2>1 DEF Sector!Read, Sector!ReadFails
    <2>3. n \in 0 .. machine.blocks[block].count
      BY <2>1, <2>2
    <2> QED
      BY <1>4, <2>1, <2>2, <2>3, FilledIs DEF Sectors
  <1>5. CASE at = "stage1" /\ (Sector!NextBlock \/ Sector!Jump \/ Sector!Reset
                               \/ Sector!ResetFails \/ Sector!Reboot)
    BY <1>5 DEF Sector!NextBlock, Sector!Jump, Sector!Reset, Sector!ResetFails, Sector!Reboot
  <1> QED
    BY <1>2, <1>3, <1>4, <1>5, LoadStep DEF Sector!Work

LEMMA HandedStep ==
    ASSUME A20IInv, Calm, Order, Sectors, Handed, [BootNext]_bootVars
    PROVE  Handed'
PROOF
  <1> DEFINE Early == {"stage1", "entry", "a20", "switch", "disk", "partition"}
             q == PARTITION_ENTRY_SEGMENT * 16
  <1>1. machine \in Machines /\ machine' = machine
    BY MachineStep DEF Order
  <1>2. CASE MBR_DetectPartition
    <2>1. /\ at = "partition" /\ at' = "fat" /\ UNCHANGED <<loader, ram>>
      BY <1>2, AfterIs DEF MBR_DetectPartition, sectorVars
    <2>2. ram[q] = Sector!TABLE_ENTRY /\ loader = "left"
      BY <2>1 DEF Handed
    <2>3. partition' = IF machine.id < 128 THEN 0 ELSE machine.entry
      BY <1>2, <2>2 DEF MBR_DetectPartition
    <2>4. machine.entry \in Nat
      BY <1>1, MachineFacts
    <2>5. partition' \in Nat
      BY <2>3, <2>4
    <2> QED
      BY <1>1, <2>1, <2>2, <2>3, <2>5 DEF Handed, PartitionIsTheBooted
  <1>3. CASE ~MBR_DetectPartition
    <2>1. partition' = partition
      BY <1>3, AtStep
    <2>2. PartitionIsTheBooted'
      BY <1>1, <1>3, <2>1, AtStep DEF Handed, PartitionIsTheBooted
    <2>3. CASE at = "fat"
      <3>1. loader' = loader /\ at' \notin Early
        BY <2>3, AtStep, LoadStep DEF sectorVars
      <3> QED
        BY <2>1, <2>2, <2>3, <3>1 DEF Handed
    <2>4. CASE at # "fat"
      <3>1. /\ loader' = "start" => loader = "start"
            /\ loader = "start" /\ loader' # "start" => ram'[q] = Sector!TABLE_ENTRY
            /\ loader # "start" => ram'[q] = ram[q]
            /\ at # "stage1" => loader' = loader
        BY <1>1, <2>4, EntryStep
      <3>2. loader' = "start" => at' = "stage1"
        BY <3>1, AtStep DEF Handed
      <3>3. at' \in {"stage1", "restarted", "undefined"} \/ loader' = "left"
        <4>1. CASE at = "stage1"
          <5>1. at' = "entry" => loader' = "left"
            BY <4>1, AtStep, LoadStep DEF sectorVars
          <5> QED
            BY <4>1, <5>1, AtStep
        <4>2. CASE at # "stage1"
          BY <3>1, <4>2, AtStep, <1>3 DEF Handed
        <4> QED
          BY <4>1, <4>2
      <3>4. at' \in Early => at \in Early
        BY <2>4, AtStep
      <3>5. loader' # "start" /\ at' \in Early => ram'[q] = Sector!TABLE_ENTRY
        BY <3>1, <3>4 DEF Handed
      <3> QED
        BY <2>1, <2>2, <3>2, <3>3, <3>5 DEF Handed
    <2> QED
      BY <2>3, <2>4
  <1> QED
    BY <1>2, <1>3

LEMMA LoadInit == BootInit => Attempts /\ Sectors /\ Counters /\ Handed
PROOF
  <1> SUFFICES ASSUME BootInit PROVE Attempts /\ Sectors /\ Counters /\ Handed
    OBVIOUS
  <1>1. /\ machine \in Machines /\ at = "stage1" /\ partition = UNKNOWN
        /\ loader = "start" /\ block = 1 /\ es = 0 /\ count = 0 /\ tries = 0
        /\ failed = 0 /\ cut = FALSE
        /\ ram = [p \in Places |-> IF p = BOOT_SECTOR THEN Sector!CODE ELSE Sector!EMPTY]
    BY Zenon DEF BootInit, Sector!Init
  <1>2. ram \in [Places -> Int]
    BY <1>1 DEF Sector!CODE, Sector!EMPTY
  <1>3. machine.ends[0] = 0 /\ Len(machine.blocks) \in 1 .. 5 /\ block - 1 = 0
    BY <1>1, BlockFacts
  <1>4. es = machine.ends[block - 1] * PARAGRAPHS
    BY <1>1, <1>3, PlaceAssumption
  <1>5. SectorsUpTo(machine.ends[block - 1])
    BY <1>3 DEF SectorsUpTo
  <1>6. Sectors
    <2>1. block \in 1 .. Len(machine.blocks) + 1 /\ loader # "read" /\ loader # "reset"
          /\ loader # "left" /\ cut \in BOOLEAN /\ count \in Nat
      <3>1. loader # "read" /\ loader # "reset" /\ loader # "left" /\ cut \in BOOLEAN
        BY <1>1, Zenon
      <3>2. block = 1 /\ count = 0
        BY <1>1, Zenon
      <3>3. block \in 1 .. Len(machine.blocks) + 1 /\ count \in Nat
        BY <1>3, <3>2
      <3> QED
        BY <3>1, <3>3
    <2> QED
      BY <1>2, <1>4, <1>5, <2>1, Zenon DEF Sectors
  <1> QED
    BY <1>1, <1>6 DEF Attempts, Counters, Handed, PartitionIsTheBooted

\* The whole invariant of the boot.
Booting == Detected /\ IInv /\ Attempts /\ Sectors /\ Counters /\ Handed
           /\ faults \in 0 .. MaxFaults

LEMMA AlwaysBooting == BootSpec => []Booting
PROOF
  <1>1. BootInit => Booting
    <2>1. BootInit => faults \in 0 .. MaxFaults
      BY SizeAssumption DEF BootInit, Init
    <2> QED
      BY <2>1, KeyboardInit, OrderInit, ModesInit, CollectingInit, KernelInit, LoadInit
      DEF Booting, Detected, Ordered
  <1>2. Booting /\ [BootNext]_bootVars => Booting'
    <2> SUFFICES ASSUME Booting, [BootNext]_bootVars PROVE Booting'
      OBVIOUS
    <2>1. Detected'
      BY KeyboardKept, CalmStep, OrderStep, ModesStep, LoggingStep
      DEF Booting, Detected, Ordered
    <2>2. IInv' /\ Attempts' /\ Counters' /\ faults' \in 0 .. MaxFaults
      BY KernelStep, AttemptsStep, CountersStep, BootFaultsStep DEF Booting
    <2>3. Sectors'
      BY MachineStep, SectorsStep DEF Booting, Detected, Ordered, Order
    <2>4. Handed'
      BY HandedStep DEF Booting, Detected, Ordered
    <2> QED
      BY <2>1, <2>2, <2>3, <2>4 DEF Booting
  <1> QED
    BY <1>1, <1>2, PTL DEF BootSpec

LEMMA BootTypes == Booting => BootTypeOK /\ TypeOK
PROOF
  <1> SUFFICES ASSUME Booting PROVE BootTypeOK /\ TypeOK
    OBVIOUS
  <1>1. A20IInv /\ Order /\ Collecting /\ IInv /\ Sectors /\ Counters /\ Handed
        /\ machine \in Machines /\ faults \in 0 .. MaxFaults
    BY DEF Booting, Detected, Ordered, Order
  <1>2. Sector!TypeOK
    <2>1. es \in Nat
      <3>1. block - 1 \in 0 .. Len(machine.blocks)
        BY <1>1, BlockFacts DEF Sectors
      <3>2. PICK e \in Nat, p \in Nat : e = machine.ends[block - 1] /\ p = PARAGRAPHS
        BY <1>1, <3>1, BlockFacts, PlaceAssumption
      <3>3. e * p \in Nat
        OBVIOUS
      <3>4. es = e * p
        BY <1>1, <3>2, Zenon DEF Sectors
      <3> QED
        BY <3>3, <3>4, Zenon
    <2>2. ram \in [Places -> {Sector!EMPTY, Sector!TABLE_ENTRY, Sector!CODE} \cup Int]
      BY <1>1 DEF Sectors, Sector!EMPTY, Sector!TABLE_ENTRY, Sector!CODE
    <2> QED
      BY <1>1, <2>1, <2>2, Zenon DEF Sectors, Counters, Sector!TypeOK, Sector!Blocks
  <1>3. Keyboard!TypeOK
    BY <1>1, Zenon DEF A20IInv, Keyboard!TypeOK, Keyboard!Program, Keyboard!Commands,
       Keyboard!Byte, Keyboard!A20, Keyboard!RESET
  <1>4. Map!TypeOK
    BY <1>1, Zenon DEF Collecting, Map!TypeOK
  <1>5. /\ at \in {"stage1", "entry", "a20", "switch", "gdt", "log"} \cup Ends \/ Part(at)
        /\ calling # "no" => at \in {"disk", "detect"}
    BY <1>1, PartIs DEF Order, Ends
  <1>6. TypeOK
    BY <1>1, InvKeepsTypes
  <1> QED
    BY <1>1, <1>2, <1>3, <1>4, <1>5, <1>6, Zenon DEF BootTypeOK, Order, Handed

\* The variables of all parts keep their types, whatever the order in which the
\* parts run.
THEOREM BootTypesCorrect == BootSpec => [](BootTypeOK /\ TypeOK)
PROOF
  BY BootTypes, AlwaysBooting, PTL

\* The jump finds the sectors of the block list at the addresses they are linked
\* for, for every list, drive and geometry (boot.asm:121-138, 227-319), and what
\* stage 2 writes later leaves them there (fat.c:142-149).
THEOREM StageTwoAlwaysWhole == BootSpec => []StageTwoWhole
PROOF
  <1>1. Booting => StageTwoWhole
    <2> SUFFICES ASSUME Booting, loader = "left", ~cut,
                        NEW k \in 0 .. Sector!Size - 1
                 PROVE  ram[Place(k)] = Sector!SectorOf(k)
      BY DEF StageTwoWhole, Sector!StageTwoWhole, Place
    <2>1. block = Len(machine.blocks) + 1 /\ SectorsUpTo(machine.ends[block - 1])
      BY DEF Booting, Sectors
    <2>2. block - 1 = Len(machine.blocks)
      BY <2>1, BlockFacts DEF Booting, Detected, Ordered, Order
    <2> QED
      BY <2>1, <2>2 DEF SectorsUpTo, Sector!Size, Sector!Blocks
  <1> QED
    BY <1>1, AlwaysBooting, PTL

\* The file system is mounted at the partition that the master boot record told
\* the boot sector of (boot.asm:65-72, mbr.c:27-42).
THEOREM PartitionAlwaysTheBooted == BootSpec => []PartitionIsTheBooted
PROOF
  <1>1. Booting => PartitionIsTheBooted
    BY DEF Booting, Handed
  <1> QED
    BY <1>1, AlwaysBooting, PTL
=============================================================================
