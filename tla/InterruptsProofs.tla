--------------------------- MODULE InterruptsProofs ---------------------------
(***************************************************************************)
(* Theorems on Interrupts: what is left in service, the mask, the number   *)
(* of an interrupt, and which lines come through.                          *)
(*                                                                         *)
(* None of these is inductive alone.  That a handler is called with the    *)
(* right line rests on the words that i8259_Configure wrote, so Configuring *)
(* follows its twelve writes one by one; that nothing stays in service     *)
(* rests on what an interrupt put in service, so Serving and Ending follow *)
(* an interrupt from its acknowledgement to its last write.                *)
(***************************************************************************)
EXTENDS Interrupts, SequenceTheorems, TLAPS

\* How many of the words of an initialization, and the mask after it, a
\* controller has been told.
Told(c, words, offset, cascade) ==
    /\ words >= 1 => ~c.auto /\ c.needs4
    /\ words = 1 => c.expects = "offset"
    /\ words = 2 => c.expects = "cascade"
    /\ words = 3 => c.expects = "mode"
    /\ words >= 4 => c.expects = "mask"
    /\ words >= 2 => c.offset = offset
    /\ words >= 3 => c.cascade = cascade
    /\ words >= 5 => c.imr = Bits

First(words)  == Told(pic[1], words, {5}, {2})
Second(words) == Told(pic[2], words, {3, 5}, {1})

Configured == First(4) /\ Second(4)

\* After n of the writes of i8259_Configure, which take turns.
Made(n) ==
    /\ todo = SubSeq(Configure, n + 1, 12)
    /\ First(((n + 1) \div 2) - 1) /\ Second((n \div 2) - 1)
    /\ PicMask = Lines

Low  == PicMask \cap Bits
High == {l - 8 : l \in PicMask \ Bits}

\* A call of i8259_SetMask by a device's driver.
Masking ==
    \/ todo = SetMask(PicMask)
    \/ todo = <<Outb(2, "data", High)>> /\ pic[1].imr = Low
    \/ todo = <<>> /\ pic[1].imr = Low /\ pic[2].imr = High

\* Before interrupts are handled none comes, and afterwards one at a time.
Flags ==
    /\ enabled => pc = "running" /\ driver
    /\ frame # NoFrame => ~enabled /\ driver /\ pc \in {"running", "halted"}
    /\ driver => hasPic
    /\ pc \in {"idt", "probe", "probed"} => ~driver
    /\ pc = "register" => driver

Configuring == pc = "register" => \E n \in 0 .. 12 : Made(n)

Running ==
    pc = "running" /\ driver =>
        /\ Configured /\ Masking
        /\ IrqVectors \subseteq isrHandlers /\ IrqVectors \subseteq gates

\* No device asks on the line of the second controller.
CascadeIsFree == 2 \notin pic[1].irr

\* What is in service while the line of an interrupt, or none, is handled.
InService(line, vector) ==
    \/ line \in Bits /\ vector = 32 + line /\ pic[1].isr = {line} /\ pic[2].isr = {}
    \/ line \in Lines \ Bits /\ vector = 32 + line
       /\ pic[1].isr = {2} /\ pic[2].isr = {line - 8}
    \/ line = SPURIOUS /\ vector = 39 /\ pic[1].isr = {} /\ pic[2].isr = {}
    \/ line = SPURIOUS /\ vector = 47 /\ pic[1].isr = {2} /\ pic[2].isr = {}

Single(lines) == \A x, y \in lines : x = y

Serving == frame.at \in {"isr", "irq"} =>
               InService(frame.line, frame.vector) /\ frame.writes = <<>>

\* The numbers stay, and each write ends what its controller has in service.
Ending ==
    frame.at = "end" =>
        /\ \/ frame.line \in Lines /\ frame.vector = 32 + frame.line
           \/ frame.line = SPURIOUS /\ frame.vector \in {39, 47}
        /\ Single(pic[1].isr) /\ Single(pic[2].isr)
        /\ \/ frame.writes = <<Outb(2, "command", {5}), Outb(1, "command", {5})>>
           \/ frame.writes = <<Outb(1, "command", {5})>> /\ pic[2].isr = {}
           \/ frame.writes = <<>> /\ pic[1].isr = {} /\ pic[2].isr = {}

Idle == frame.at = "none" => frame = NoFrame

IInv ==
    /\ TypeOK /\ Flags /\ Configuring /\ Running /\ CascadeIsFree
    /\ Serving /\ Ending /\ Idle /\ NothingLeftInService
-----------------------------------------------------------------------------
(* Bytes and controllers                                                    *)

\* A set of bits has a least one, so Min is defined.
LEMMA MinOfBits ==
    ASSUME NEW S \in SUBSET Bits, S # {}
    PROVE  Min(S) \in S /\ \A y \in S : Min(S) <= y
PROOF
  <1>1. \E x \in S : \A y \in S : x <= y
    <2>1. \A y \in S : y \in {0, 1, 2, 3, 4, 5, 6, 7}
      BY DEF Bits
    <2>2. CASE 0 \in S
      BY <2>1, <2>2
    <2>3. CASE 0 \notin S /\ 1 \in S
      BY <2>1, <2>3
    <2>4. CASE 0 \notin S /\ 1 \notin S /\ 2 \in S
      BY <2>1, <2>4
    <2>5. CASE S \cap {0, 1, 2} = {} /\ 3 \in S
      BY <2>1, <2>5
    <2>6. CASE S \cap {0, 1, 2, 3} = {} /\ 4 \in S
      BY <2>1, <2>6
    <2>7. CASE S \cap {0, 1, 2, 3, 4} = {} /\ 5 \in S
      BY <2>1, <2>7
    <2>8. CASE S \cap {0, 1, 2, 3, 4, 5} = {}
      BY <2>1, <2>8
    <2> QED
      BY <2>2, <2>3, <2>4, <2>5, <2>6, <2>7, <2>8
  <1> QED
    BY <1>1 DEF Min

LEMMA RemoveMin ==
    ASSUME NEW S \in SUBSET Bits, Single(S), S # {}
    PROVE  S \ {Min(S)} = {}
PROOF
  BY MinOfBits DEF Single

\* What a byte to the command port does to a controller.
LEMMA CommandedType ==
    ASSUME NEW c \in Controller, NEW byte \in SUBSET Bits
    PROVE  Commanded(c, byte) \in Controller
PROOF
  <1>1. CASE 4 \in byte
    <2>1. (0 \in byte) \in BOOLEAN
      OBVIOUS
    <2>2. Commanded(c, byte) = [c EXCEPT !.imr = {}, !.irr = {}, !.isr = {},
              !.auto = FALSE, !.expects = "offset", !.needs4 = (0 \in byte)]
      BY <1>1, Zenon DEF Commanded
    <2> QED
      BY <2>1, <2>2 DEF Controller
  <1>2. CASE 4 \notin byte /\ 5 \in byte /\ c.isr # {} /\ byte \cap {3, 4} = {}
    <2>1. c.isr \ {Min(c.isr)} \in SUBSET Bits
      BY DEF Controller
    <2> QED
      BY <1>2, <2>1 DEF Commanded, Controller
  <1>3. CASE 4 \notin byte /\ ~(5 \in byte /\ c.isr # {} /\ byte \cap {3, 4} = {})
    BY <1>3 DEF Commanded
  <1> QED
    BY <1>1, <1>2, <1>3

LEMMA SuppliedType ==
    ASSUME NEW c \in Controller, NEW byte \in SUBSET Bits
    PROVE  Supplied(c, byte) \in Controller
PROOF
  <1>1. CASE c.expects = "offset"
    BY <1>1 DEF Supplied, Controller
  <1>2. CASE c.expects = "cascade"
    BY <1>2 DEF Supplied, Controller
  <1>3. CASE c.expects = "mode"
    <2>1. (1 \in byte) \in BOOLEAN
      OBVIOUS
    <2> QED
      BY <1>3, <2>1 DEF Supplied, Controller
  <1>4. CASE c.expects \notin {"offset", "cascade", "mode"}
    BY <1>4 DEF Supplied, Controller
  <1> QED
    BY <1>1, <1>2, <1>3, <1>4

\* The first initialization word, which has the bits 0 and 4.
LEMMA Reset ==
    ASSUME NEW c \in Controller, NEW offset, NEW cascade
    PROVE  /\ Told(Commanded(c, {0, 4}), 1, offset, cascade)
           /\ Commanded(c, {0, 4}).isr = {} /\ Commanded(c, {0, 4}).irr = {}
PROOF
  <1>1. Commanded(c, {0, 4}) = [c EXCEPT !.imr = {}, !.irr = {}, !.isr = {},
            !.auto = FALSE, !.expects = "offset", !.needs4 = TRUE]
    <2>1. (0 \in {0, 4}) = TRUE /\ 4 \in {0, 4}
      OBVIOUS
    <2> QED
      BY <2>1, Zenon DEF Commanded
  <1>2. /\ Commanded(c, {0, 4}).isr = {} /\ Commanded(c, {0, 4}).irr = {}
        /\ Commanded(c, {0, 4}).expects = "offset"
    BY <1>1 DEF Controller
  <1>3. Commanded(c, {0, 4}).auto = FALSE
    BY <1>1 DEF Controller
  <1>4. Commanded(c, {0, 4}).needs4 = TRUE
    BY <1>1 DEF Controller
  <1> QED
    BY <1>2, <1>3, <1>4 DEF Told

\* The second to the fourth, and the mask.
LEMMA NextWord ==
    ASSUME NEW c \in Controller, NEW words \in 1 .. 4,
           NEW offset, NEW cascade, NEW byte \in SUBSET Bits,
           Told(c, words, offset, cascade),
           words = 1 => byte = offset,
           words = 2 => byte = cascade,
           words = 3 => 1 \notin byte,
           words = 4 => byte = Bits
    PROVE  Told(Supplied(c, byte), words + 1, offset, cascade)
PROOF
  <1>1. CASE words = 1
    <2>1. Supplied(c, byte) = [c EXCEPT !.offset = byte, !.expects = "cascade"]
      BY <1>1 DEF Supplied, Told
    <2> QED
      BY <1>1, <2>1 DEF Told, Controller
  <1>2. CASE words = 2
    <2>1. Supplied(c, byte) = [c EXCEPT !.cascade = byte, !.expects = "mode"]
      <3>1. c.needs4 /\ c.expects = "cascade"
        BY <1>2 DEF Told
      <3> QED
        BY <3>1, Zenon DEF Supplied
    <2> QED
      BY <1>2, <2>1 DEF Told, Controller
  <1>3. CASE words = 3
    <2>1. Supplied(c, byte) = [c EXCEPT !.auto = FALSE, !.expects = "mask"]
      <3>1. (1 \in byte) = FALSE /\ c.expects = "mode"
        BY <1>3 DEF Told
      <3> QED
        BY <3>1, Zenon DEF Supplied
    <2> QED
      BY <1>3, <2>1 DEF Told, Controller
  <1>4. CASE words = 4
    <2>1. Supplied(c, byte) = [c EXCEPT !.imr = byte]
      BY <1>4 DEF Supplied, Told
    <2> QED
      BY <1>4, <2>1 DEF Told, Controller
  <1> QED
    BY <1>1, <1>2, <1>3, <1>4

\* A mask written to a controller that expects one.
LEMMA MaskWord ==
    ASSUME NEW c \in Controller, NEW offset, NEW cascade, NEW byte \in SUBSET Bits,
           Told(c, 4, offset, cascade)
    PROVE  /\ Told(Supplied(c, byte), 4, offset, cascade)
           /\ Supplied(c, byte).imr = byte
PROOF
  <1>1. Supplied(c, byte) = [c EXCEPT !.imr = byte]
    BY DEF Supplied, Told
  <1> QED
    BY <1>1 DEF Told, Controller

\* No word to the data port changes what is in service or asked for.
LEMMA SuppliedKeeps ==
    ASSUME NEW c \in Controller, NEW byte \in SUBSET Bits
    PROVE  Supplied(c, byte).isr = c.isr /\ Supplied(c, byte).irr = c.irr
PROOF
  BY DEF Supplied, Controller

\* A write reaches one controller and leaves the other alone.
LEMMA WrittenTo ==
    ASSUME pic \in [Pics -> Controller], NEW w \in ByteWrite
    PROVE  /\ Written(w) \in [Pics -> Controller]
           /\ \A p \in Pics : p # w.pic => Written(w)[p] = pic[p]
           /\ hasPic => Written(w)[w.pic] =
                 IF w.port = "command" THEN Commanded(pic[w.pic], w.byte)
                 ELSE Supplied(pic[w.pic], w.byte)
           /\ ~hasPic => Written(w) = pic
PROOF
  <1>1. w.pic \in Pics /\ w.byte \in SUBSET Bits /\ pic[w.pic] \in Controller
    BY DEF ByteWrite
  <1>2. /\ Commanded(pic[w.pic], w.byte) \in Controller
        /\ Supplied(pic[w.pic], w.byte) \in Controller
    BY <1>1, CommandedType, SuppliedType
  <1> QED
    BY <1>1, <1>2 DEF Written

\* What a request, an acknowledgement and an end of interrupt leave alone.
SameWords(c, d) ==
    /\ d.imr = c.imr /\ d.expects = c.expects /\ d.needs4 = c.needs4
    /\ d.offset = c.offset /\ d.cascade = c.cascade /\ d.auto = c.auto

LEMMA SameTold ==
    ASSUME NEW c, NEW d, SameWords(c, d), NEW words, NEW offset, NEW cascade,
           Told(c, words, offset, cascade)
    PROVE  Told(d, words, offset, cascade)
PROOF
  BY DEF SameWords, Told

\* The end of interrupt, which has bit 5.
LEMMA EndWord ==
    ASSUME NEW c \in Controller
    PROVE  /\ Single(c.isr) => Commanded(c, {5}).isr = {}
           /\ Commanded(c, {5}).irr = c.irr /\ SameWords(c, Commanded(c, {5}))
PROOF
  <1>1. CASE c.isr # {}
    <2>1. Commanded(c, {5}) = [c EXCEPT !.isr = c.isr \ {Min(c.isr)}]
      BY <1>1 DEF Commanded
    <2>2. c.isr \in SUBSET Bits
      BY DEF Controller
    <2>3. Single(c.isr) => c.isr \ {Min(c.isr)} = {}
      BY <1>1, <2>2, RemoveMin
    <2> QED
      BY <2>1, <2>3 DEF SameWords, Controller
  <1>2. CASE c.isr = {}
    <2>1. Commanded(c, {5}) = c
      BY <1>2 DEF Commanded
    <2> QED
      BY <1>2, <2>1 DEF SameWords
  <1> QED
    BY <1>1, <1>2
-----------------------------------------------------------------------------
(* The sequences of writes                                                  *)

LEMMA HighBits ==
    ASSUME NEW mask \in SUBSET Lines
    PROVE  {l - 8 : l \in mask \ Bits} \in SUBSET Bits
PROOF
  BY DEF Lines, Bits

LEMMA SetMaskWrites ==
    ASSUME NEW mask \in SUBSET Lines
    PROVE  /\ SetMask(mask) \in Seq(ByteWrite) /\ Len(SetMask(mask)) = 2
           /\ SetMask(mask)[1] = Outb(1, "data", mask \cap Bits)
           /\ SetMask(mask)[2] = Outb(2, "data", {l - 8 : l \in mask \ Bits})
           /\ SetMask(mask) # <<>> /\ Head(SetMask(mask)) = SetMask(mask)[1]
           /\ Tail(SetMask(mask)) = <<SetMask(mask)[2]>>
PROOF
  <1> DEFINE a == Outb(1, "data", mask \cap Bits)
             b == Outb(2, "data", {l - 8 : l \in mask \ Bits})
  <1>1. a \in ByteWrite /\ b \in ByteWrite
    BY HighBits DEF Outb, ByteWrite, Pics
  <1>2. SetMask(mask) = <<a, b>>
    BY DEF SetMask
  <1> HIDE DEF a, b
  <1>3. /\ <<a, b>> \in Seq(ByteWrite) /\ Len(<<a, b>>) = 2 /\ <<a, b>> # <<>>
        /\ Head(<<a, b>>) = a /\ Tail(<<a, b>>) = <<b>>
        /\ <<a, b>>[1] = a /\ <<a, b>>[2] = b
    BY <1>1
  <1>4. /\ SetMask(mask) \in Seq(ByteWrite) /\ Len(SetMask(mask)) = 2
        /\ SetMask(mask)[1] = a /\ SetMask(mask)[2] = b
        /\ SetMask(mask) # <<>> /\ Head(SetMask(mask)) = SetMask(mask)[1]
        /\ Tail(SetMask(mask)) = <<SetMask(mask)[2]>>
    BY <1>2, <1>3
  <1> QED
    BY <1>4 DEF a, b

\* All lines masked are all bits of both controllers.
LEMMA AllLines ==
    Lines \cap Bits = Bits /\ {l - 8 : l \in Lines \ Bits} = Bits
PROOF
  <1>1. Lines \cap Bits = Bits
    BY DEF Lines, Bits
  <1>2. ASSUME NEW b \in Bits
        PROVE  b \in {l - 8 : l \in Lines \ Bits}
    <2>1. b + 8 \in Lines \ Bits /\ b = (b + 8) - 8
      BY DEF Lines, Bits
    <2> QED
      BY <2>1
  <1>3. {l - 8 : l \in Lines \ Bits} \in SUBSET Bits
    BY HighBits
  <1> QED
    BY <1>1, <1>2, <1>3

\* The twelve writes of i8259_Configure.
LEMMA ConfigureWrites ==
    /\ Configure \in Seq(ByteWrite) /\ Len(Configure) = 12
    /\ Configure[1] = Outb(1, "data", Bits)        /\ Configure[2] = Outb(2, "data", Bits)
    /\ Configure[3] = Outb(1, "command", {0, 4})   /\ Configure[4] = Outb(2, "command", {0, 4})
    /\ Configure[5] = Outb(1, "data", {5})         /\ Configure[6] = Outb(2, "data", {3, 5})
    /\ Configure[7] = Outb(1, "data", {2})         /\ Configure[8] = Outb(2, "data", {1})
    /\ Configure[9] = Outb(1, "data", {0})         /\ Configure[10] = Outb(2, "data", {0})
    /\ Configure[11] = Outb(1, "data", Bits)       /\ Configure[12] = Outb(2, "data", Bits)
PROOF
  <1> DEFINE words ==
        <<Outb(1, "command", {0, 4}), Outb(2, "command", {0, 4}),
          Outb(1, "data", {5}),       Outb(2, "data", {3, 5}),
          Outb(1, "data", {2}),       Outb(2, "data", {1}),
          Outb(1, "data", {0}),       Outb(2, "data", {0})>>
        mask == SetMask(Lines)
  <1> DEFINE front == mask \o words
  <1>1. Configure = front \o mask
    BY DEF Configure
  <1>2. /\ mask \in Seq(ByteWrite) /\ Len(mask) = 2
        /\ mask[1] = Outb(1, "data", Bits) /\ mask[2] = Outb(2, "data", Bits)
    BY SetMaskWrites, AllLines
  <1>3. ASSUME NEW p \in Pics, NEW port \in {"command", "data"}, NEW byte \in SUBSET Bits
        PROVE  Outb(p, port, byte) \in ByteWrite
    BY DEF Outb, ByteWrite
  <1>4. \A byte \in {{0, 4}, {5}, {3, 5}, {2}, {1}, {0}} : byte \in SUBSET Bits
    BY DEF Bits
  <1>5. 1 \in Pics /\ 2 \in Pics
    BY DEF Pics
  <1>6. \A p \in Pics : \A byte \in {{0, 4}, {5}, {3, 5}, {2}, {1}, {0}} :
            /\ Outb(p, "command", byte) \in ByteWrite
            /\ Outb(p, "data", byte) \in ByteWrite
    BY <1>3, <1>4
  <1>7. /\ words \in Seq(ByteWrite) /\ Len(words) = 8
        /\ words[1] = Outb(1, "command", {0, 4}) /\ words[2] = Outb(2, "command", {0, 4})
        /\ words[3] = Outb(1, "data", {5})       /\ words[4] = Outb(2, "data", {3, 5})
        /\ words[5] = Outb(1, "data", {2})       /\ words[6] = Outb(2, "data", {1})
        /\ words[7] = Outb(1, "data", {0})       /\ words[8] = Outb(2, "data", {0})
    BY <1>5, <1>6
  <1> HIDE DEF words, mask
  <1>8. /\ front \in Seq(ByteWrite) /\ Len(front) = Len(mask) + Len(words)
        /\ \A i \in 1 .. Len(mask) + Len(words) :
              front[i] = IF i <= Len(mask) THEN mask[i] ELSE words[i - Len(mask)]
    BY <1>2, <1>7, ConcatProperties, ZenonT(60) DEF front
  <1> HIDE DEF front
  <1>9. /\ front \o mask \in Seq(ByteWrite) /\ Len(front \o mask) = Len(front) + Len(mask)
        /\ \A i \in 1 .. Len(front) + Len(mask) :
              (front \o mask)[i] = IF i <= Len(front) THEN front[i] ELSE mask[i - Len(front)]
    <2>1. front \in Seq(ByteWrite) /\ mask \in Seq(ByteWrite)
      BY <1>2, <1>8
    <2> QED
      BY <2>1, ConcatProperties, Zenon
  <1>10. /\ Configure \in Seq(ByteWrite) /\ Len(Configure) = Len(front) + Len(mask)
         /\ \A i \in 1 .. Len(front) + Len(mask) :
               Configure[i] = IF i <= Len(front) THEN front[i] ELSE mask[i - Len(front)]
    BY <1>1, <1>9, Zenon
  <1>11. Len(mask) = 2 /\ Len(words) = 8 /\ Len(front) = 10
    BY <1>2, <1>7, <1>8
  <1>12. \A i \in 1 .. 10 : front[i] = IF i <= 2 THEN mask[i] ELSE words[i - 2]
    BY <1>8, <1>11
  <1>13. \A i \in 1 .. 12 : Configure[i] = IF i <= 10 THEN front[i] ELSE mask[i - 10]
    BY <1>10, <1>11
  <1>14. /\ Configure[1] = mask[1] /\ Configure[2] = mask[2]
         /\ Configure[3] = words[1] /\ Configure[4] = words[2]
         /\ Configure[5] = words[3] /\ Configure[6] = words[4]
         /\ Configure[7] = words[5] /\ Configure[8] = words[6]
         /\ Configure[9] = words[7] /\ Configure[10] = words[8]
         /\ Configure[11] = mask[1] /\ Configure[12] = mask[2]
    BY <1>12, <1>13
  <1>15. Len(Configure) = 12
    BY <1>10, <1>11
  <1> QED
    BY <1>2, <1>7, <1>10, <1>14, <1>15

\* What is left of it after n writes, and the write that comes next.
LEMMA ConfigureRest ==
    ASSUME NEW n \in 0 .. 12
    PROVE  /\ SubSeq(Configure, n + 1, 12) = <<>> <=> n = 12
           /\ n < 12 => /\ Head(SubSeq(Configure, n + 1, 12)) = Configure[n + 1]
                        /\ Tail(SubSeq(Configure, n + 1, 12)) = SubSeq(Configure, n + 2, 12)
PROOF
  <1>1. Configure \in Seq(ByteWrite) /\ Len(Configure) = 12
    BY ConfigureWrites
  <1>2. CASE n = 12
    BY <1>1, <1>2, SubSeqEmpty
  <1>3. CASE n < 12
    <2>1. n + 1 \in 1 .. Len(Configure) /\ 12 \in n + 1 .. Len(Configure)
      BY <1>1, <1>3
    <2>2. /\ Head(SubSeq(Configure, n + 1, 12)) = Configure[n + 1]
          /\ Tail(SubSeq(Configure, n + 1, 12)) = SubSeq(Configure, (n + 1) + 1, 12)
      BY <1>1, <2>1, HeadTailOfSubSeq
    <2>3. (n + 1) + 1 = n + 2
      OBVIOUS
    <2>4. \A i \in n + 1 .. 12 : Configure[i] \in ByteWrite
      <3>1. \A i \in 1 .. Len(Configure) : Configure[i] \in ByteWrite
        BY <1>1, ElementOfSeq, Zenon
      <3> QED
        BY <1>1, <3>1
    <2>5. Len(SubSeq(Configure, n + 1, 12)) = 12 - (n + 1) + 1
      <3>1. n + 1 \in Int /\ 12 \in Int /\ n + 1 <= 12
        BY <1>3
      <3> QED
        BY <3>1, <2>4, SubSeqProperties
    <2>6. SubSeq(Configure, n + 1, 12) # <<>>
      <3>1. Len(<<>>) = 0
        OBVIOUS
      <3>2. Len(SubSeq(Configure, n + 1, 12)) # 0
        BY <1>3, <2>5
      <3> QED
        BY <3>1, <3>2, Zenon
    <2> QED
      BY <1>3, <2>2, <2>3, <2>6
  <1> QED
    BY <1>2, <1>3
-----------------------------------------------------------------------------
(* Initialization                                                           *)

LEMMA InitInv == Init => IInv
PROOF
  <1> SUFFICES ASSUME Init PROVE IInv
    OBVIOUS
  <1>1. \A p \in Pics : BiosPic(p) \in Controller
    <2>1. {3} \in SUBSET Bits /\ {4, 5, 6} \in SUBSET Bits
          /\ {2} \in SUBSET Bits /\ {1} \in SUBSET Bits /\ {} \in SUBSET Bits
      BY DEF Bits
    <2> QED
      BY <2>1 DEF BiosPic, Controller, Pics
  <1>2. pic \in [Pics -> Controller]
    BY <1>1 DEF Init, InitialPic
  <1>3. frame \in [vector : Vectors \cup {NONE}, at : {"none", "isr", "irq", "end"},
                   writes : Seq(ByteWrite), line : Lines \cup {NONE, SPURIOUS}]
    BY DEF Init, NoFrame
  <1>4. requests \in 0 .. MaxRequests
    BY DeviceAssumption DEF Init
  <1>5. todo \in Seq(ByteWrite)
    BY DEF Init
  <1>6. TypeOK
    BY <1>2, <1>3, <1>4, <1>5 DEF Init, TypeOK
  <1>7. \A p \in Pics : pic[p].irr = {} /\ pic[p].isr = {}
    BY DEF Init, InitialPic, BiosPic
  <1>8. 1 \in Pics /\ 2 \in Pics
    BY DEF Pics
  <1>9. frame.at = "none"
    BY DEF Init, NoFrame
  <1>10. Flags /\ Configuring /\ Running /\ Idle
    BY DEF Init, Flags, Configuring, Running, Idle
  <1>11. CascadeIsFree /\ NothingLeftInService
    BY <1>7, <1>8 DEF CascadeIsFree, NothingLeftInService
  <1>12. Serving /\ Ending
    BY <1>9 DEF Serving, Ending
  <1> QED
    BY <1>6, <1>10, <1>11, <1>12 DEF IInv

\* The kernel's own steps leave what concerns interrupts and controllers alone.
LEMMA OwnStep ==
    ASSUME IInv, frame = NoFrame, frame' = NoFrame, pic' = pic
    PROVE  CascadeIsFree' /\ Serving' /\ Ending' /\ Idle' /\ NothingLeftInService'
PROOF
  <1>1. frame'.at = "none"
    BY DEF NoFrame
  <1>2. Serving' /\ Ending' /\ Idle'
    BY <1>1 DEF Serving, Ending, Idle
  <1>3. CascadeIsFree' /\ NothingLeftInService'
    BY DEF IInv, CascadeIsFree, NothingLeftInService
  <1> QED
    BY <1>2, <1>3

LEMMA InitializeGatesStep ==
    ASSUME IInv, InitializeGates
    PROVE  IInv'
PROOF
  <1>1. TypeOK'
    BY DEF IInv, TypeOK, InitializeGates, EnableGates
  <1>2. Flags' /\ Configuring' /\ Running'
    BY DEF IInv, Flags, Configuring, Running, InitializeGates, At
  <1>3. frame = NoFrame /\ frame' = NoFrame /\ pic' = pic
    BY DEF InitializeGates, At
  <1> QED
    BY <1>1, <1>2, <1>3, OwnStep DEF IInv

LEMMA ProbeStep ==
    ASSUME IInv, Probe
    PROVE  IInv'
PROOF
  <1>1. ProbeMask \in SUBSET Lines /\ Lines \in SUBSET Lines
    BY DEF ProbeMask, Lines
  <1>2. todo' \in Seq(ByteWrite)
    BY <1>1, SetMaskWrites, ConcatProperties DEF Probe
  <1>3. TypeOK'
    BY <1>1, <1>2 DEF IInv, TypeOK, Probe, kernel
  <1>4. Flags' /\ Configuring' /\ Running'
    BY DEF IInv, Flags, Configuring, Running, Probe, At, kernel
  <1>5. frame = NoFrame /\ frame' = NoFrame /\ pic' = pic
    BY DEF Probe, At
  <1> QED
    BY <1>3, <1>4, <1>5, OwnStep DEF IInv

\* Only controllers can have answered with the probing mask.
LEMMA ProbedStep ==
    ASSUME IInv, Probed
    PROVE  IInv'
PROOF
  <1>1. frame = NoFrame /\ frame' = NoFrame /\ pic' = pic
    BY DEF Probed, At
  <1>2. CASE ReadMask = ProbeMask
    <2>1. hasPic
      <3>1. 3 \in Lines /\ 3 \notin ProbeMask
        BY DEF Lines, ProbeMask
      <3> QED
        BY <1>2, <3>1 DEF ReadMask
    <2>2. pc' = "register" /\ driver' = TRUE /\ PicMask' = Lines /\ todo' = Configure
      BY <1>2 DEF Probed
    <2>3. TypeOK'
      BY <2>2, ConfigureWrites DEF IInv, TypeOK, Probed
    <2>4. ~enabled
      BY DEF IInv, Flags, Probed, At
    <2>5. Flags'
      BY <1>1, <2>1, <2>2, <2>4 DEF Flags, Probed
    <2>6. Made(0)'
      <3>1. SubSeq(Configure, 0 + 1, 12) = Configure
        BY ConfigureWrites, SubSeqFull
      <3>2. First(-1)' /\ Second(-1)'
        BY DEF First, Second, Told
      <3>3. ((0 + 1) \div 2) - 1 = -1 /\ (0 \div 2) - 1 = -1
        OBVIOUS
      <3> QED
        BY <2>2, <3>1, <3>2, <3>3 DEF Made
    <2>7. Configuring' /\ Running'
      BY <2>2, <2>6 DEF Configuring, Running
    <2> QED
      BY <1>1, <2>3, <2>5, <2>7, OwnStep DEF IInv
  <1>3. CASE ReadMask # ProbeMask
    <2>1. pc' = "running" /\ UNCHANGED <<driver, PicMask, todo>> /\ pc = "probed"
      BY <1>3 DEF Probed, At
    <2>2. TypeOK'
      BY <2>1 DEF IInv, TypeOK, Probed
    <2>3. Flags' /\ Configuring' /\ Running'
      BY <2>1 DEF IInv, Flags, Configuring, Running, Probed
    <2> QED
      BY <1>1, <2>2, <2>3, OwnStep DEF IInv
  <1> QED
    BY <1>2, <1>3

\* Interrupts are enabled when all twelve writes are made.
LEMMA RegisterAndEnableStep ==
    ASSUME IInv, RegisterAndEnable
    PROVE  IInv'
PROOF
  <1>1. frame = NoFrame /\ frame' = NoFrame /\ pic' = pic /\ pc = "register" /\ todo = <<>>
    BY DEF RegisterAndEnable, At
  <1>2. IrqVectors \subseteq Vectors
    BY DEF IrqVectors, Vectors, Lines, PIC_REMAP_OFFSET
  <1>3. TypeOK'
    BY <1>2 DEF IInv, TypeOK, RegisterAndEnable, EnableGates
  <1>4. Flags' /\ Configuring'
    BY <1>1 DEF IInv, Flags, Configuring, RegisterAndEnable
  <1>5. PICK n \in 0 .. 12 : Made(n)
    BY <1>1 DEF IInv, Configuring
  <1>6. n = 12
    BY <1>1, <1>5, ConfigureRest DEF Made
  <1>7. First(5) /\ Second(5)
    <2>1. ((12 + 1) \div 2) - 1 = 5 /\ (12 \div 2) - 1 = 5
      OBVIOUS
    <2> QED
      BY <1>5, <1>6, <2>1 DEF Made
  <1>8. Configured'
    BY <1>1, <1>7 DEF Configured, First, Second, Told
  <1>9. Masking'
    <2>1. PicMask = Lines /\ PicMask' = Lines
      BY <1>5 DEF Made, RegisterAndEnable
    <2> QED
      BY <1>1, <1>7, <2>1, AllLines DEF Masking, First, Second, Told, Low, High,
         RegisterAndEnable
  <1>10. Running'
    BY <1>8, <1>9 DEF Running, RegisterAndEnable, EnableGates
  <1> QED
    BY <1>1, <1>3, <1>4, <1>10, OwnStep DEF IInv

-----------------------------------------------------------------------------
(* The writes of a driver call                                              *)

\* With nothing in service, no write puts anything there or makes a request.
LEMMA QuietWrite ==
    ASSUME pic \in [Pics -> Controller], NEW w \in ByteWrite, NEW p \in Pics,
           pic[p].isr = {}
    PROVE  Written(w)[p].isr = {} /\ Written(w)[p].irr \subseteq pic[p].irr
PROOF
  <1>1. w.pic \in Pics /\ w.byte \in SUBSET Bits /\ pic[p] \in Controller
    BY DEF ByteWrite
  <1>2. /\ Supplied(pic[p], w.byte).isr = {} /\ Supplied(pic[p], w.byte).irr = pic[p].irr
    BY <1>1, SuppliedKeeps
  <1>3. /\ Commanded(pic[p], w.byte).isr = {}
        /\ Commanded(pic[p], w.byte).irr \subseteq pic[p].irr
    <2>1. CASE 4 \in w.byte
      <3>1. Commanded(pic[p], w.byte).isr = {} /\ Commanded(pic[p], w.byte).irr = {}
        BY <1>1, <2>1 DEF Commanded, Controller
      <3> QED
        BY <3>1
    <2>2. CASE 4 \notin w.byte
      BY <2>2 DEF Commanded
    <2> QED
      BY <2>1, <2>2
  <1>4. CASE p # w.pic \/ ~hasPic
    <2>1. Written(w)[p] = pic[p]
      BY <1>4, WrittenTo
    <2> QED
      BY <2>1
  <1>5. CASE p = w.pic /\ hasPic
    <2>1. Written(w)[p] = IF w.port = "command" THEN Commanded(pic[p], w.byte)
                          ELSE Supplied(pic[p], w.byte)
      BY <1>5, WrittenTo
    <2>2. CASE w.port = "command"
      BY <1>3, <2>1, <2>2
    <2>3. CASE w.port # "command"
      BY <1>2, <2>1, <2>3
    <2> QED
      BY <2>2, <2>3
  <1> QED
    BY <1>4, <1>5

LEMMA OutWrites ==
    ASSUME pic \in [Pics -> Controller], hasPic, NEW p \in Pics,
           NEW port \in {"command", "data"}, NEW byte \in SUBSET Bits,
           pic' = Written(Outb(p, port, byte))
    PROVE  /\ \A q \in Pics : q # p => pic'[q] = pic[q]
           /\ port = "command" => pic'[p] = Commanded(pic[p], byte)
           /\ port = "data" => pic'[p] = Supplied(pic[p], byte)
PROOF
  <1> DEFINE w == Outb(p, port, byte)
  <1>1. w \in ByteWrite /\ w.pic = p /\ w.port = port /\ w.byte = byte
    BY DEF Outb, ByteWrite
  <1> HIDE DEF w
  <1>2. pic' = Written(w)
    BY DEF w
  <1> QED
    BY <1>1, <1>2, WrittenTo

\* One write of i8259_Configure.
LEMMA MadeNext ==
    ASSUME pic \in [Pics -> Controller], hasPic, NEW n \in 0 .. 11, Made(n),
           todo' = SubSeq(Configure, n + 2, 12), PicMask' = PicMask,
           pic' = Written(Configure[n + 1])
    PROVE  Made(n + 1)'
PROOF
  <1>1. 1 \in Pics /\ 2 \in Pics /\ pic[1] \in Controller /\ pic[2] \in Controller
    BY DEF Pics
  <1>2. /\ {5} \in SUBSET Bits /\ {3, 5} \in SUBSET Bits /\ {2} \in SUBSET Bits
        /\ {1} \in SUBSET Bits /\ {0} \in SUBSET Bits /\ {0, 4} \in SUBSET Bits
        /\ Bits \in SUBSET Bits
    BY DEF Bits
  <1>3. ASSUME NEW k \in Int, NEW m \in Int,
               k = ((n + 2) \div 2) - 1, m = ((n + 1) \div 2) - 1,
               First(k)', Second(m)'
        PROVE  Made(n + 1)'
    <2>1. (n + 1) + 1 = n + 2
      OBVIOUS
    <2> QED
      BY <1>3, <2>1 DEF Made
  <1>4. CASE n = 0
    <2>1. First(0)' /\ Second(-1)'
      BY DEF First, Second, Told
    <2> QED
      BY <1>3, <1>4, <2>1
  <1>5. CASE n = 1
    <2>1. First(0)' /\ Second(0)'
      BY DEF First, Second, Told
    <2> QED
      BY <1>3, <1>5, <2>1
  <1>6. CASE n = 2
    <2>1. pic'[1] = Commanded(pic[1], {0, 4})
      BY <1>1, <1>2, <1>6, ConfigureWrites, OutWrites
    <2>2. First(1)' /\ Second(0)'
      BY <1>1, <2>1, Reset DEF First, Second, Told
    <2> QED
      BY <1>3, <1>6, <2>2
  <1>7. CASE n = 3
    <2>1. pic'[2] = Commanded(pic[2], {0, 4}) /\ pic'[1] = pic[1]
      BY <1>1, <1>2, <1>7, ConfigureWrites, OutWrites
    <2>2. First(1)
      BY <1>7 DEF Made
    <2>3. First(1)' /\ Second(1)'
      BY <1>1, <2>1, <2>2, Reset DEF First, Second
    <2> QED
      BY <1>3, <1>7, <2>3
  <1>8. CASE n = 4
    <2>1. pic'[1] = Supplied(pic[1], {5}) /\ pic'[2] = pic[2]
      BY <1>1, <1>2, <1>8, ConfigureWrites, OutWrites
    <2>2. First(1) /\ Second(1)
      BY <1>8 DEF Made
    <2>3. First(1 + 1)' /\ Second(1)'
      BY <1>1, <1>2, <2>1, <2>2, NextWord DEF First, Second
    <2> QED
      BY <1>3, <1>8, <2>3
  <1>9. CASE n = 5
    <2>1. pic'[2] = Supplied(pic[2], {3, 5}) /\ pic'[1] = pic[1]
      BY <1>1, <1>2, <1>9, ConfigureWrites, OutWrites
    <2>2. First(2) /\ Second(1)
      BY <1>9 DEF Made
    <2>3. First(2)' /\ Second(1 + 1)'
      BY <1>1, <1>2, <2>1, <2>2, NextWord DEF First, Second
    <2> QED
      BY <1>3, <1>9, <2>3
  <1>10. CASE n = 6
    <2>1. pic'[1] = Supplied(pic[1], {2}) /\ pic'[2] = pic[2]
      BY <1>1, <1>2, <1>10, ConfigureWrites, OutWrites
    <2>2. First(2) /\ Second(2)
      BY <1>10 DEF Made
    <2>3. First(2 + 1)' /\ Second(2)'
      BY <1>1, <1>2, <2>1, <2>2, NextWord DEF First, Second
    <2> QED
      BY <1>3, <1>10, <2>3
  <1>11. CASE n = 7
    <2>1. pic'[2] = Supplied(pic[2], {1}) /\ pic'[1] = pic[1]
      BY <1>1, <1>2, <1>11, ConfigureWrites, OutWrites
    <2>2. First(3) /\ Second(2)
      BY <1>11 DEF Made
    <2>3. First(3)' /\ Second(2 + 1)'
      BY <1>1, <1>2, <2>1, <2>2, NextWord DEF First, Second
    <2> QED
      BY <1>3, <1>11, <2>3
  <1>12. CASE n = 8
    <2>1. pic'[1] = Supplied(pic[1], {0}) /\ pic'[2] = pic[2]
      BY <1>1, <1>2, <1>12, ConfigureWrites, OutWrites
    <2>2. First(3) /\ Second(3)
      BY <1>12 DEF Made
    <2>3. First(3 + 1)' /\ Second(3)'
      BY <1>1, <1>2, <2>1, <2>2, NextWord DEF First, Second
    <2> QED
      BY <1>3, <1>12, <2>3
  <1>13. CASE n = 9
    <2>1. pic'[2] = Supplied(pic[2], {0}) /\ pic'[1] = pic[1]
      BY <1>1, <1>2, <1>13, ConfigureWrites, OutWrites
    <2>2. First(4) /\ Second(3)
      BY <1>13 DEF Made
    <2>3. First(4)' /\ Second(3 + 1)'
      BY <1>1, <1>2, <2>1, <2>2, NextWord DEF First, Second
    <2> QED
      BY <1>3, <1>13, <2>3
  <1>14. CASE n = 10
    <2>1. pic'[1] = Supplied(pic[1], Bits) /\ pic'[2] = pic[2]
      BY <1>1, <1>2, <1>14, ConfigureWrites, OutWrites
    <2>2. First(4) /\ Second(4)
      BY <1>14 DEF Made
    <2>3. First(4 + 1)' /\ Second(4)'
      BY <1>1, <1>2, <2>1, <2>2, NextWord DEF First, Second
    <2> QED
      BY <1>3, <1>14, <2>3
  <1>15. CASE n = 11
    <2>1. pic'[2] = Supplied(pic[2], Bits) /\ pic'[1] = pic[1]
      BY <1>1, <1>2, <1>15, ConfigureWrites, OutWrites
    <2>2. First(5) /\ Second(4)
      BY <1>15 DEF Made
    <2>3. First(5)' /\ Second(4 + 1)'
      BY <1>1, <1>2, <2>1, <2>2, NextWord DEF First, Second
    <2> QED
      BY <1>3, <1>15, <2>3
  <1> QED
    BY <1>4, <1>5, <1>6, <1>7, <1>8, <1>9, <1>10, <1>11, <1>12, <1>13, <1>14, <1>15

\* The next write of the call of i8259_SetMask that is under way.
LEMMA MaskNext ==
    ASSUME TypeOK, hasPic, Configured, Masking, todo # <<>>,
           pic' = Written(Head(todo)), todo' = Tail(todo), PicMask' = PicMask
    PROVE  Configured' /\ Masking'
PROOF
  <1>1. 1 \in Pics /\ 2 \in Pics /\ pic \in [Pics -> Controller]
        /\ pic[1] \in Controller /\ pic[2] \in Controller
    BY DEF Pics, TypeOK
  <1>2. PicMask \in SUBSET Lines /\ Low \in SUBSET Bits /\ High \in SUBSET Bits
    BY HighBits DEF TypeOK, Low, High
  <1>3. Low' = Low /\ High' = High
    BY DEF Low, High
  <1>4. CASE todo = SetMask(PicMask)
    <2>1. /\ Head(todo) = Outb(1, "data", Low)
          /\ todo' = <<Outb(2, "data", High)>>
      BY <1>2, <1>4, SetMaskWrites DEF Low, High
    <2>2. pic'[1] = Supplied(pic[1], Low) /\ pic'[2] = pic[2]
      BY <1>1, <1>2, <2>1, OutWrites
    <2>3. First(4)' /\ Second(4)' /\ pic'[1].imr = Low
      BY <1>1, <1>2, <2>2, MaskWord, SMTT(40) DEF Configured, First, Second
    <2> QED
      BY <1>3, <2>1, <2>3 DEF Configured, Masking
  <1>5. CASE todo = <<Outb(2, "data", High)>> /\ pic[1].imr = Low
    <2>1. Head(todo) = Outb(2, "data", High) /\ todo' = <<>>
      BY <1>5
    <2>2. pic'[2] = Supplied(pic[2], High) /\ pic'[1] = pic[1]
      BY <1>1, <1>2, <2>1, OutWrites
    <2>3. First(4)'
      BY <2>2 DEF Configured, First, Second
    <2>4. Second(4)' /\ pic'[2].imr = High
      BY <1>1, <1>2, <2>2, MaskWord, SMTT(40) DEF Configured, First, Second
    <2> QED
      BY <1>3, <1>5, <2>1, <2>2, <2>3, <2>4 DEF Configured, Masking
  <1> QED
    BY <1>4, <1>5 DEF Masking

LEMMA OutStep ==
    ASSUME IInv, Out
    PROVE  IInv'
PROOF
  <1>1. TypeOK /\ pic \in [Pics -> Controller] /\ todo \in Seq(ByteWrite) /\ todo # <<>>
    BY DEF IInv, TypeOK, Out
  <1>2. Head(todo) \in ByteWrite /\ Tail(todo) \in Seq(ByteWrite)
    BY <1>1, HeadTailProperties
  <1>3. frame = NoFrame /\ frame' = NoFrame /\ pic' = Written(Head(todo)) /\ todo' = Tail(todo)
    BY DEF Out
  <1>4. TypeOK'
    <2>1. pic' \in [Pics -> Controller]
      BY <1>1, <1>2, <1>3, WrittenTo
    <2> QED
      BY <1>1, <1>2, <2>1 DEF TypeOK, Out, kernel
  <1>5. Flags'
    BY <1>3 DEF IInv, Flags, Out, kernel
  <1>6. Configuring'
    <2> SUFFICES ASSUME pc = "register" PROVE \E n \in 0 .. 12 : Made(n)'
      BY DEF Out, Configuring
    <2>1. PICK n \in 0 .. 12 : Made(n)
      BY DEF IInv, Configuring
    <2>2. todo = SubSeq(Configure, n + 1, 12) /\ hasPic
      BY <2>1 DEF Made, IInv, Flags
    <2>3. n \in 0 .. 11
      BY <1>1, <2>2, ConfigureRest
    <2>4. /\ todo' = SubSeq(Configure, n + 2, 12) /\ Head(todo) = Configure[n + 1]
      BY <1>3, <2>2, <2>3, ConfigureRest
    <2>5. Made(n + 1)'
      BY <1>1, <1>3, <2>1, <2>2, <2>3, <2>4, MadeNext DEF Out
    <2>6. n + 1 \in 0 .. 12
      BY <2>3
    <2> QED
      BY <2>5, <2>6
  <1>7. Running'
    <2> SUFFICES ASSUME pc = "running", driver
                 PROVE  Configured' /\ Masking'
      BY DEF IInv, Running, Out, kernel
    <2>1. hasPic /\ Configured /\ Masking
      BY DEF IInv, Running, Flags
    <2> QED
      BY <1>1, <1>3, <2>1, MaskNext DEF Out
  <1>8. NothingLeftInService' /\ CascadeIsFree'
    <2>1. pic[1].isr = {} /\ pic[2].isr = {} /\ 1 \in Pics /\ 2 \in Pics
      BY <1>3 DEF IInv, NothingLeftInService, Pics
    <2>2. pic'[1].isr = {} /\ pic'[2].isr = {} /\ pic'[1].irr \subseteq pic[1].irr
      BY <1>1, <1>2, <1>3, <2>1, QuietWrite
    <2> QED
      BY <2>2 DEF IInv, NothingLeftInService, CascadeIsFree
  <1>9. Serving' /\ Ending' /\ Idle'
    BY <1>3 DEF Serving, Ending, Idle, NoFrame
  <1> QED
    BY <1>4, <1>5, <1>6, <1>7, <1>8, <1>9 DEF IInv

LEMMA RegisterHandlerStep ==
    ASSUME IInv, NEW irq \in Devices, RegisterHandler(irq)
    PROVE  IInv'
PROOF
  <1>1. frame = NoFrame /\ frame' = NoFrame /\ pic' = pic /\ pc = "running"
    BY DEF RegisterHandler, At
  <1>2. irq \in Lines
    BY DeviceAssumption
  <1>3. TypeOK'
    BY <1>2 DEF IInv, TypeOK, RegisterHandler
  <1>4. Flags' /\ Configuring'
    BY <1>1 DEF IInv, Flags, Configuring, RegisterHandler
  <1>5. Running'
    BY <1>1 DEF IInv, Running, Configured, First, Second, Masking, Low, High,
       RegisterHandler
  <1> QED
    BY <1>1, <1>3, <1>4, <1>5, OwnStep DEF IInv

\* A call of i8259_Mask or i8259_Unmask begins.
LEMMA SetPicMaskStep ==
    ASSUME IInv, NEW mask \in SUBSET Lines, SetPicMask(mask)
    PROVE  IInv'
PROOF
  <1>1. frame = NoFrame /\ frame' = NoFrame /\ pic' = pic /\ pc = "running"
    BY DEF SetPicMask, At
  <1>2. PicMask' = mask /\ todo' = SetMask(mask)
    BY DEF SetPicMask
  <1>3. TypeOK'
    BY <1>2, SetMaskWrites DEF IInv, TypeOK, SetPicMask, kernel
  <1>4. Flags' /\ Configuring'
    BY <1>1 DEF IInv, Flags, Configuring, SetPicMask, kernel
  <1>5. Masking'
    BY <1>2 DEF Masking
  <1>6. Running'
    BY <1>1, <1>5 DEF IInv, Running, Configured, First, Second, SetPicMask, kernel
  <1> QED
    BY <1>1, <1>3, <1>4, <1>6, OwnStep DEF IInv
-----------------------------------------------------------------------------
(* Requests and interrupts                                                  *)

\* What requests, acknowledgements and ends of interrupts do not touch.
Apart ==
    /\ pic' \in [Pics -> Controller] /\ \A p \in Pics : SameWords(pic[p], pic'[p])
    /\ 2 \notin pic'[1].irr
    /\ UNCHANGED <<todo, PicMask, driver, gates, isrHandlers, irqHandlers, hasPic>>

LEMMA ApartStep ==
    ASSUME IInv, Apart, pc' = pc
    PROVE  Configuring' /\ Running' /\ CascadeIsFree'
PROOF
  <1>1. 1 \in Pics /\ 2 \in Pics
    BY DEF Pics
  <1>2. \A words : (First(words) => First(words)') /\ (Second(words) => Second(words)')
    BY <1>1, SameTold DEF Apart, First, Second
  <1>3. Configuring'
    <2> SUFFICES ASSUME pc = "register" PROVE \E n \in 0 .. 12 : Made(n)'
      BY DEF Configuring
    <2>1. PICK n \in 0 .. 12 : Made(n)
      BY DEF IInv, Configuring
    <2>2. Made(n)'
      BY <1>2, <2>1 DEF Made, Apart
    <2> QED
      BY <2>2
  <1>4. pic'[1].imr = pic[1].imr /\ pic'[2].imr = pic[2].imr
    BY <1>1 DEF Apart, SameWords
  <1>5. Running'
    <2> SUFFICES ASSUME pc = "running", driver
                 PROVE  /\ Configured' /\ Masking'
                        /\ IrqVectors \subseteq isrHandlers /\ IrqVectors \subseteq gates
      BY DEF Apart, Running
    <2>1. /\ Configured /\ Masking
          /\ IrqVectors \subseteq isrHandlers /\ IrqVectors \subseteq gates
      BY DEF IInv, Running
    <2>2. Configured'
      BY <1>2, <2>1 DEF Configured
    <2>3. Masking'
      BY <1>4, <2>1 DEF Masking, Low, High, Apart
    <2> QED
      BY <2>1, <2>2, <2>3
  <1>6. CascadeIsFree'
    BY DEF CascadeIsFree, Apart
  <1> QED
    BY <1>3, <1>5, <1>6

LEMMA RaiseStep ==
    ASSUME IInv, NEW l \in Devices, Raise(l)
    PROVE  IInv'
PROOF
  <1>1. l \in Lines /\ l # 2 /\ 1 \in Pics /\ 2 \in Pics
    BY DeviceAssumption DEF Pics
  <1>2. pic \in [Pics -> Controller] /\ pic[1] \in Controller /\ pic[2] \in Controller
    BY <1>1 DEF IInv, TypeOK
  <1>3. /\ pic' \in [Pics -> Controller]
        /\ \A p \in Pics : SameWords(pic[p], pic'[p]) /\ pic'[p].isr = pic[p].isr
        /\ 2 \notin pic'[1].irr
    <2>1. CASE l < 8
      <3>1. pic[1].irr \cup {l} \in SUBSET Bits
        BY <1>1, <1>2, <2>1 DEF Controller, Lines, Bits
      <3>2. pic' = [pic EXCEPT ![1] = [pic[1] EXCEPT !.irr = pic[1].irr \cup {l}]]
        BY <2>1 DEF Raise
      <3>3. [pic[1] EXCEPT !.irr = pic[1].irr \cup {l}] \in Controller
        BY <1>2, <3>1 DEF Controller
      <3> QED
        BY <1>1, <1>2, <3>2, <3>3 DEF IInv, CascadeIsFree, SameWords, Controller
    <2>2. CASE ~(l < 8)
      <3>1. pic[2].irr \cup {l - 8} \in SUBSET Bits
        BY <1>1, <1>2, <2>2 DEF Controller, Lines, Bits
      <3>2. pic' = [pic EXCEPT ![2] = [pic[2] EXCEPT !.irr = pic[2].irr \cup {l - 8}]]
        BY <2>2 DEF Raise
      <3>3. [pic[2] EXCEPT !.irr = pic[2].irr \cup {l - 8}] \in Controller
        BY <1>2, <3>1 DEF Controller
      <3> QED
        BY <1>1, <1>2, <3>2, <3>3 DEF IInv, CascadeIsFree, SameWords, Controller
    <2> QED
      BY <2>1, <2>2
  <1>4. Apart /\ pc' = pc
    BY <1>3 DEF Apart, Raise, kernel
  <1>5. TypeOK'
    BY <1>3, DeviceAssumption DEF IInv, TypeOK, Raise, kernel
  <1>6. Flags' /\ Idle'
    BY DEF IInv, Flags, Idle, Raise, kernel
  <1>7. pic'[1].isr = pic[1].isr /\ pic'[2].isr = pic[2].isr /\ frame' = frame
    BY <1>1, <1>3 DEF Raise
  <1>8. Serving'
    BY <1>7 DEF IInv, Serving, InService
  <1>9. Ending'
    BY <1>7 DEF IInv, Ending, Single
  <1>10. NothingLeftInService'
    BY <1>7 DEF IInv, NothingLeftInService
  <1> QED
    BY <1>4, <1>5, <1>6, <1>8, <1>9, <1>10, ApartStep DEF IInv

\* An interrupt comes.
Taken(line, vector) ==
    /\ enabled /\ Apart /\ pc' = pc /\ Interrupted(vector, line)
    /\ InService(line, vector)'
    /\ line \in Lines \cup {SPURIOUS} /\ vector \in Vectors
    /\ requests' \in 0 .. MaxRequests

LEMMA TakenStep ==
    ASSUME IInv, NEW line, NEW vector, Taken(line, vector)
    PROVE  IInv'
PROOF
  <1>1. /\ frame' = [vector |-> vector, at |-> "isr", writes |-> <<>>, line |-> line]
        /\ enabled' = FALSE
    BY DEF Taken, Interrupted
  <1>2. /\ frame'.at = "isr" /\ frame'.vector = vector /\ frame'.line = line
        /\ frame'.writes = <<>>
    BY <1>1
  <1>3. frame' # NoFrame
    BY <1>2 DEF NoFrame
  <1>4. frame' \in [vector : Vectors \cup {NONE}, at : {"none", "isr", "irq", "end"},
                    writes : Seq(ByteWrite), line : Lines \cup {NONE, SPURIOUS}]
    <2>1. vector \in Vectors \cup {NONE} /\ line \in Lines \cup {NONE, SPURIOUS}
      BY DEF Taken
    <2>2. <<>> \in Seq(ByteWrite)
      OBVIOUS
    <2> QED
      BY <1>1, <2>1, <2>2
  <1>5. TypeOK'
    BY <1>1, <1>4 DEF IInv, TypeOK, Taken, Apart
  <1>6. Flags'
    BY <1>1 DEF IInv, Flags, Taken, Apart
  <1>7. Configuring' /\ Running' /\ CascadeIsFree'
    BY ApartStep DEF Taken
  <1>8. Serving'
    BY <1>2 DEF Serving, Taken
  <1>9. Ending' /\ Idle' /\ NothingLeftInService'
    BY <1>2, <1>3 DEF Ending, Idle, NothingLeftInService
  <1> QED
    BY <1>5, <1>6, <1>7, <1>8, <1>9 DEF IInv

LEMMA Offsets ==
    Value({5}) = 32 /\ Value({3, 5}) = 40 /\ Value({1}) = 2
PROOF
  BY DEF Value

LEMMA ServeSame ==
    ASSUME NEW c \in Controller, NEW l \in Bits, ~c.auto, c.isr = {}
    PROVE  /\ Serve(c, l) \in Controller /\ SameWords(c, Serve(c, l))
           /\ Serve(c, l).isr = {l} /\ Serve(c, l).irr \subseteq c.irr
PROOF
  <1>1. Serve(c, l) = [c EXCEPT !.irr = c.irr \ {l}, !.isr = {l}]
    BY Zenon DEF Serve
  <1>2. c.irr \ {l} \in SUBSET Bits /\ {l} \in SUBSET Bits
    BY DEF Controller
  <1> QED
    BY <1>1, <1>2 DEF Controller, SameWords

\* When an interrupt can come, the controllers are set up and serve nothing.
LEMMA WhenEnabled ==
    ASSUME IInv, enabled
    PROVE  /\ pc = "running" /\ driver /\ frame = NoFrame
           /\ pic \in [Pics -> Controller] /\ 1 \in Pics /\ 2 \in Pics
           /\ pic[1] \in Controller /\ pic[2] \in Controller
           /\ pic[1].isr = {} /\ pic[2].isr = {}
           /\ ~pic[1].auto /\ ~pic[2].auto
           /\ pic[1].offset = {5} /\ pic[2].offset = {3, 5}
           /\ pic[1].cascade = {2} /\ pic[2].cascade = {1}
           /\ 2 \notin pic[1].irr /\ Masking
PROOF
  <1>1. pc = "running" /\ driver /\ frame = NoFrame
    BY DEF IInv, Flags
  <1>2. pic \in [Pics -> Controller] /\ 1 \in Pics /\ 2 \in Pics
    BY DEF IInv, TypeOK, Pics
  <1>3. Configured /\ Masking
    BY <1>1 DEF IInv, Running
  <1>4. /\ ~pic[1].auto /\ ~pic[2].auto
        /\ pic[1].offset = {5} /\ pic[2].offset = {3, 5}
        /\ pic[1].cascade = {2} /\ pic[2].cascade = {1}
    BY <1>3 DEF Configured, First, Second, Told
  <1>5. pic[1].isr = {} /\ pic[2].isr = {} /\ 2 \notin pic[1].irr
    BY <1>1 DEF IInv, NothingLeftInService, CascadeIsFree
  <1> QED
    BY <1>1, <1>2, <1>3, <1>4, <1>5

\* Which line the controllers offer: the most urgent of the first, or the
\* second's most urgent one, and none that is masked.
LEMMA Offered ==
    ASSUME IInv, enabled, Asking(1) # {}
    PROVE  /\ Min(Asking(1)) \in Bits /\ Min(Asking(1)) \notin pic[1].imr
           /\ Min(Asking(1)) = 2 =>
                 Min(Asking(2)) \in Bits /\ Min(Asking(2)) \notin pic[2].imr
PROOF
  <1>1. /\ pic[1] \in Controller /\ pic[2] \in Controller /\ 2 \notin pic[1].irr
    BY WhenEnabled
  <1>2. /\ Asking(2) = Urgent(pic[2], pic[2].irr)
        /\ Asking(1) = Urgent(pic[1], pic[1].irr \cup
                              (IF Asking(2) # {} THEN {2} ELSE {}))
    BY DEF Asking
  <1>3. Asking(2) \in SUBSET (Bits \ pic[2].imr)
    BY <1>1, <1>2 DEF Urgent, Controller
  <1>4. Asking(1) \in SUBSET (Bits \ pic[1].imr)
    <2>1. 2 \in Bits
      BY DEF Bits
    <2> QED
      BY <1>1, <1>2, <2>1 DEF Urgent, Controller
  <1>5. 2 \in Asking(1) => Asking(2) # {}
    BY <1>1, <1>2 DEF Urgent
  <1>6. Min(Asking(1)) \in Asking(1)
    BY <1>4, MinOfBits
  <1>7. Asking(2) # {} => Min(Asking(2)) \in Asking(2)
    BY <1>3, MinOfBits
  <1> QED
    BY <1>3, <1>4, <1>5, <1>6, <1>7

\* The interrupt that is acknowledged, for a line of either controller.
LEMMA AcknowledgeTakes ==
    ASSUME IInv, Acknowledge
    PROVE  \E line \in Lines : /\ Taken(line, 32 + line)
                               /\ todo = <<>> => line \notin PicMask
PROOF
  <1>1. enabled /\ Asking(1) # {}
    BY DEF Acknowledge
  <1>2. PICK l \in Bits : l = Min(Asking(1)) /\ l \notin pic[1].imr
    BY <1>1, Offered
  <1>3. l \in pic[1].cascade /\ Value(pic[2].cascade) = l <=> l = 2
    <2>1. pic[1].cascade = {2} /\ Value(pic[2].cascade) = 2
      BY <1>1, WhenEnabled, Offsets
    <2> QED
      BY <1>2, <2>1
  <1>4. /\ pc' = pc /\ requests' \in 0 .. MaxRequests
        /\ UNCHANGED <<todo, PicMask, driver, gates, isrHandlers, irqHandlers, hasPic>>
    BY DEF IInv, TypeOK, Acknowledge, kernel
  <1>5. todo = <<>> => pic[1].imr = Low /\ pic[2].imr = High
    <2>1. SetMask(PicMask) # <<>> /\ <<Outb(2, "data", High)>> # <<>>
      BY SetMaskWrites DEF IInv, TypeOK
    <2> QED
      BY <1>1, <2>1, WhenEnabled DEF Masking
  <1>6. CASE l = 2
    <2>0. PICK s \in Bits : s = Min(Asking(2)) /\ s \notin pic[2].imr
      BY <1>1, <1>2, <1>6, Offered
    <2>1. /\ Interrupted(Value(pic[2].offset) + s, 8 + s)
          /\ pic' = [pic EXCEPT ![1] = Serve(pic[1], 2), ![2] = Serve(pic[2], s)]
      BY <1>2, <1>3, <1>6, <2>0 DEF Acknowledge
    <2>2. s \in Bits /\ 2 \in Bits /\ 8 + s \in Lines \ Bits /\ (8 + s) - 8 = s
          /\ 40 + s = 32 + (8 + s) /\ 32 + (8 + s) \in Vectors
      BY DEF Bits, Lines, Vectors
    <2>3. /\ Serve(pic[1], 2) \in Controller /\ SameWords(pic[1], Serve(pic[1], 2))
          /\ Serve(pic[1], 2).isr = {2} /\ Serve(pic[1], 2).irr \subseteq pic[1].irr
          /\ Serve(pic[2], s) \in Controller /\ SameWords(pic[2], Serve(pic[2], s))
          /\ Serve(pic[2], s).isr = {s}
      BY <1>1, <2>2, WhenEnabled, ServeSame
    <2>4. pic'[1] = Serve(pic[1], 2) /\ pic'[2] = Serve(pic[2], s)
          /\ pic' \in [Pics -> Controller]
      BY <1>1, <2>1, <2>3, WhenEnabled DEF Pics
    <2>5. Apart
      <3>1. \A p \in Pics : p = 1 \/ p = 2
        BY DEF Pics
      <3>2. 2 \notin pic'[1].irr
        BY <1>1, <2>3, <2>4, WhenEnabled
      <3> QED
        BY <1>4, <2>3, <2>4, <3>1, <3>2 DEF Apart
    <2>6. Interrupted(32 + (8 + s), 8 + s)
      BY <1>1, <2>1, <2>2, WhenEnabled, Offsets
    <2>7. InService(8 + s, 32 + (8 + s))'
      BY <2>2, <2>3, <2>4 DEF InService
    <2>8. Taken(8 + s, 32 + (8 + s))
      BY <1>1, <1>4, <2>2, <2>5, <2>6, <2>7 DEF Taken
    <2>9. todo = <<>> => 8 + s \notin PicMask
      BY <1>5, <2>0, <2>2 DEF High
    <2> QED
      BY <2>2, <2>8, <2>9
  <1>7. CASE l # 2
    <2>1. /\ Interrupted(Value(pic[1].offset) + l, l)
          /\ pic' = [pic EXCEPT ![1] = Serve(pic[1], l)]
      BY <1>2, <1>3, <1>7 DEF Acknowledge
    <2>2. l \in Bits /\ l \in Lines /\ 32 + l \in Vectors
      BY DEF Bits, Lines, Vectors
    <2>3. todo = <<>> => l \notin PicMask
      BY <1>2, <1>5, <2>2 DEF Low
    <2>4. /\ Serve(pic[1], l) \in Controller /\ SameWords(pic[1], Serve(pic[1], l))
          /\ Serve(pic[1], l).isr = {l} /\ Serve(pic[1], l).irr \subseteq pic[1].irr
      BY <1>1, <2>2, WhenEnabled, ServeSame
    <2>5. pic'[1] = Serve(pic[1], l) /\ pic'[2] = pic[2] /\ pic' \in [Pics -> Controller]
      BY <1>1, <2>1, <2>4, WhenEnabled
    <2>6. Apart
      <3>1. \A p \in Pics : p = 1 \/ p = 2
        BY DEF Pics
      <3>2. 2 \notin pic'[1].irr
        BY <1>1, <2>4, <2>5, WhenEnabled
      <3>3. SameWords(pic[2], pic'[2])
        BY <2>5 DEF SameWords
      <3> QED
        BY <1>4, <2>4, <2>5, <3>1, <3>2, <3>3 DEF Apart
    <2>7. Interrupted(32 + l, l)
      BY <1>1, <2>1, WhenEnabled, Offsets
    <2>8. InService(l, 32 + l)'
      BY <1>1, <2>2, <2>4, <2>5, WhenEnabled DEF InService
    <2>9. Taken(l, 32 + l)
      BY <1>1, <1>4, <2>2, <2>6, <2>7, <2>8 DEF Taken
    <2> QED
      BY <2>2, <2>3, <2>9
  <1> QED
    BY <1>6, <1>7

LEMMA AcknowledgeStep ==
    ASSUME IInv, Acknowledge
    PROVE  IInv'
PROOF
  <1>1. PICK line \in Lines : Taken(line, 32 + line)
    BY AcknowledgeTakes
  <1> QED
    BY <1>1, TakenStep

LEMMA SpuriousFirstStep ==
    ASSUME IInv, SpuriousFirst
    PROVE  IInv'
PROOF
  <1>1. enabled /\ pic' = pic /\ pc' = pc /\ requests' = requests + 1 /\ requests < MaxRequests
    BY DEF SpuriousFirst
  <1>2. Interrupted(39, SPURIOUS)
    <2>1. Value(pic[1].offset) = 32
      BY <1>1, WhenEnabled, Offsets
    <2> QED
      BY <2>1 DEF SpuriousFirst
  <1>3. Apart
    BY <1>1, WhenEnabled DEF SpuriousFirst, Apart, SameWords, kernel
  <1>4. InService(SPURIOUS, 39)'
    BY <1>1, WhenEnabled DEF InService
  <1>5. requests' \in 0 .. MaxRequests /\ 39 \in Vectors
    BY <1>1, DeviceAssumption DEF IInv, TypeOK, Vectors
  <1>6. Taken(SPURIOUS, 39)
    BY <1>1, <1>2, <1>3, <1>4, <1>5 DEF Taken
  <1> QED
    BY <1>6, TakenStep

LEMMA SpuriousSecondStep ==
    ASSUME IInv, SpuriousSecond
    PROVE  IInv'
PROOF
  <1>1. /\ enabled /\ pc' = pc /\ requests' = requests + 1 /\ requests < MaxRequests
        /\ pic' = [pic EXCEPT ![1] = Serve(pic[1], 2)] /\ 2 \in Bits
    BY DEF SpuriousSecond, Bits
  <1>2. Interrupted(47, SPURIOUS)
    <2>1. Value(pic[2].offset) = 40
      BY <1>1, WhenEnabled, Offsets
    <2> QED
      BY <2>1 DEF SpuriousSecond
  <1>3. /\ Serve(pic[1], 2) \in Controller /\ SameWords(pic[1], Serve(pic[1], 2))
        /\ Serve(pic[1], 2).isr = {2} /\ Serve(pic[1], 2).irr \subseteq pic[1].irr
    BY <1>1, WhenEnabled, ServeSame
  <1>4. /\ pic'[1] = Serve(pic[1], 2) /\ pic'[2] = pic[2] /\ pic' \in [Pics -> Controller]
    BY <1>1, <1>3, WhenEnabled
  <1>5. Apart
    <2>1. \A p \in Pics : p = 1 \/ p = 2
      BY DEF Pics
    <2>2. 2 \notin pic'[1].irr /\ SameWords(pic[2], pic'[2])
      BY <1>1, <1>3, <1>4, WhenEnabled DEF SameWords
    <2>3. UNCHANGED <<todo, PicMask, driver, gates, isrHandlers, irqHandlers, hasPic>>
      BY DEF SpuriousSecond, kernel
    <2> QED
      BY <1>3, <1>4, <2>1, <2>2, <2>3 DEF Apart
  <1>6. InService(SPURIOUS, 47)'
    <2>1. pic'[1].isr = {2} /\ pic'[2].isr = {}
      BY <1>1, <1>3, <1>4, WhenEnabled
    <2> QED
      BY <2>1 DEF InService
  <1>7. requests' \in 0 .. MaxRequests /\ 47 \in Vectors
    BY <1>1, DeviceAssumption DEF IInv, TypeOK, Vectors
  <1>8. Taken(SPURIOUS, 47)
    BY <1>1, <1>2, <1>5, <1>6, <1>7 DEF Taken
  <1> QED
    BY <1>8, TakenStep
-----------------------------------------------------------------------------
(* Handling an interrupt                                                    *)

\* The kernel halts, whatever it was doing.
LEMMA HaltStep ==
    ASSUME IInv, pc' = "halted", frame' = frame, enabled' = FALSE,
           UNCHANGED <<todo, PicMask, kernel, hasPic, pic, requests>>
    PROVE  IInv'
PROOF
  <1>1. TypeOK'
    BY DEF IInv, TypeOK, kernel
  <1>2. Flags'
    BY DEF IInv, Flags, kernel
  <1>3. Configuring' /\ Running'
    BY DEF Configuring, Running
  <1>4. CascadeIsFree' /\ NothingLeftInService' /\ Idle'
    BY DEF IInv, CascadeIsFree, NothingLeftInService, Idle
  <1>5. Serving'
    BY DEF IInv, Serving, InService
  <1>6. Ending'
    BY DEF IInv, Ending, Single
  <1> QED
    BY <1>1, <1>2, <1>3, <1>4, <1>5, <1>6 DEF IInv

\* What can be said of the kernel while it handles an interrupt.
LEMMA WhenHandling ==
    ASSUME IInv, frame.at # "none", pc # "halted"
    PROVE  /\ frame # NoFrame /\ ~enabled /\ driver /\ pc = "running" /\ hasPic
           /\ IrqVectors \subseteq isrHandlers /\ IrqVectors \subseteq gates
PROOF
  <1>1. frame # NoFrame
    BY DEF NoFrame
  <1> QED
    BY <1>1 DEF IInv, Flags, Running

\* The gates and handlers of all IRQ lines are in place, so an interrupt
\* always gets as far as i686_IRQ_Handler.
LEMMA DispatchStep ==
    ASSUME IInv, Dispatch
    PROVE  IInv'
PROOF
  <1>1. frame.at = "isr" /\ pc # "halted"
    BY DEF Dispatch
  <1>2. InService(frame.line, frame.vector) /\ frame.writes = <<>>
    BY <1>1 DEF IInv, Serving
  <1>3. frame.vector \in gates \cap isrHandlers
    <2>1. IrqVectors \subseteq isrHandlers /\ IrqVectors \subseteq gates
      BY <1>1, WhenHandling
    <2>2. frame.vector \in IrqVectors
      <3>1. \E l \in Lines : frame.vector = 32 + l
        <4>1. 7 \in Lines /\ 15 \in Lines /\ Bits \subseteq Lines /\ 39 = 32 + 7 /\ 47 = 32 + 15
          BY DEF Lines, Bits
        <4> QED
          BY <1>2, <4>1 DEF InService
      <3> QED
        BY <3>1 DEF IrqVectors, PIC_REMAP_OFFSET
    <2> QED
      BY <2>1, <2>2
  <1>4. /\ frame' = [frame EXCEPT !.at = "irq"] /\ pc' = pc /\ enabled' = enabled
        /\ UNCHANGED <<todo, PicMask, driver, gates, isrHandlers, irqHandlers, hasPic,
                       pic, requests>>
    BY <1>3, Zenon DEF Dispatch, kernel
  <1>5. /\ frame' \in [vector : Vectors \cup {NONE}, at : {"none", "isr", "irq", "end"},
                       writes : Seq(ByteWrite), line : Lines \cup {NONE, SPURIOUS}]
        /\ frame'.at = "irq" /\ frame'.vector = frame.vector /\ frame'.line = frame.line
        /\ frame'.writes = frame.writes
    BY <1>4 DEF IInv, TypeOK
  <1>6. TypeOK'
    BY <1>4, <1>5 DEF IInv, TypeOK
  <1>7. frame' # NoFrame
    BY <1>5 DEF NoFrame
  <1>8. Flags'
    BY <1>1, <1>4, WhenHandling DEF IInv, Flags
  <1>9. Serving'
    BY <1>2, <1>4, <1>5 DEF Serving, InService
  <1>10. Ending' /\ Idle' /\ NothingLeftInService'
    BY <1>5, <1>7 DEF Ending, Idle, NothingLeftInService
  <1>11. Configuring' /\ Running' /\ CascadeIsFree'
    <2>1. Apart
      BY <1>4 DEF IInv, TypeOK, CascadeIsFree, Apart, SameWords
    <2> QED
      BY <1>4, <2>1, ApartStep
  <1> QED
    BY <1>6, <1>8, <1>9, <1>10, <1>11 DEF IInv

LEMMA EndWrites ==
    ASSUME NEW irq \in Lines
    PROVE  /\ SendEndOfInterrupt(irq) \in Seq(ByteWrite)
           /\ irq \in Bits => SendEndOfInterrupt(irq) = <<Outb(1, "command", {5})>>
           /\ irq \notin Bits => SendEndOfInterrupt(irq) =
                 <<Outb(2, "command", {5}), Outb(1, "command", {5})>>
PROOF
  <1> DEFINE a == Outb(2, "command", {5})
             b == Outb(1, "command", {5})
  <1>1. a \in ByteWrite /\ b \in ByteWrite
    <2>1. {5} \in SUBSET Bits /\ 1 \in Pics /\ 2 \in Pics
      BY DEF Bits, Pics
    <2> QED
      BY <2>1 DEF Outb, ByteWrite
  <1>2. SendEndOfInterrupt(irq) = (IF irq >= 8 THEN <<a>> ELSE <<>>) \o <<b>>
    BY DEF SendEndOfInterrupt
  <1>3. irq \in Bits <=> ~(irq >= 8)
    BY DEF Bits, Lines
  <1> HIDE DEF a, b
  <1>4. <<>> \o <<b>> = <<b>> /\ <<a>> \o <<b>> = <<a, b>>
    <2>1. <<b>> \in Seq(ByteWrite) /\ <<a>> \in Seq(ByteWrite) /\ <<a, b>> \in Seq(ByteWrite)
      BY <1>1
    <2>2. <<>> \o <<b>> = <<b>>
      BY <2>1, ConcatEmptySeq
    <2>3. /\ <<a>> \o <<b>> \in Seq(ByteWrite) /\ Len(<<a>> \o <<b>>) = 2
          /\ (<<a>> \o <<b>>)[1] = a /\ (<<a>> \o <<b>>)[2] = b
      BY <2>1, ConcatProperties
    <2>4. <<a>> \o <<b>> = <<a, b>>
      <3>1. /\ Len(<<a, b>>) = 2 /\ <<a, b>>[1] = a /\ <<a, b>>[2] = b
            /\ \A i \in 1 .. 2 : i = 1 \/ i = 2
        OBVIOUS
      <3>2. \A i \in 1 .. Len(<<a>> \o <<b>>) : (<<a>> \o <<b>>)[i] = <<a, b>>[i]
        BY <2>3, <3>1
      <3> QED
        BY <2>1, <2>3, <3>1, <3>2, SeqEqual, Zenon
    <2> QED
      BY <2>2, <2>4
  <1>5. <<b>> \in Seq(ByteWrite) /\ <<a, b>> \in Seq(ByteWrite)
    BY <1>1
  <1>6. /\ irq \in Bits => SendEndOfInterrupt(irq) = <<b>>
        /\ irq \notin Bits => SendEndOfInterrupt(irq) = <<a, b>>
    BY <1>2, <1>3, <1>4
  <1> QED
    BY <1>5, <1>6 DEF a, b

LEMMA HandleIrqStep ==
    ASSUME IInv, HandleIrq
    PROVE  IInv'
PROOF
  <1>1. frame.at = "irq" /\ pc # "halted"
    BY DEF HandleIrq
  <1>2. InService(frame.line, frame.vector)
    BY <1>1 DEF IInv, Serving
  <1> DEFINE irq == frame.vector - 32
  <1>3. /\ frame' = [frame EXCEPT !.at = "end", !.writes = SendEndOfInterrupt(irq)]
        /\ UNCHANGED <<pc, todo, PicMask, driver, gates, isrHandlers, irqHandlers,
                       enabled, hasPic, pic, requests>>
    BY DEF HandleIrq, kernel, PIC_REMAP_OFFSET
  <1>4. irq \in Lines /\ (irq \in Bits => pic[2].isr = {})
    <2>1. 7 \in Lines /\ 15 \in Lines \ Bits /\ Bits \subseteq Lines
          /\ 39 - 32 = 7 /\ 47 - 32 = 15 /\ (\A l \in Lines : (32 + l) - 32 = l)
      BY DEF Lines, Bits
    <2> QED
      BY <1>2, <2>1 DEF InService
  <1>5. /\ \/ frame.line \in Lines /\ frame.vector = 32 + frame.line
           \/ frame.line = SPURIOUS /\ frame.vector \in {39, 47}
        /\ Single(pic[1].isr) /\ Single(pic[2].isr)
    <2>1. Bits \subseteq Lines
      BY DEF Lines, Bits
    <2> QED
      BY <1>2, <2>1 DEF InService, Single
  <1>6. /\ frame' \in [vector : Vectors \cup {NONE}, at : {"none", "isr", "irq", "end"},
                       writes : Seq(ByteWrite), line : Lines \cup {NONE, SPURIOUS}]
        /\ frame'.at = "end" /\ frame'.vector = frame.vector /\ frame'.line = frame.line
        /\ frame'.writes = SendEndOfInterrupt(irq)
    <2>1. SendEndOfInterrupt(irq) \in Seq(ByteWrite)
      BY <1>4, EndWrites
    <2> HIDE DEF irq
    <2> QED
      BY <1>3, <2>1 DEF IInv, TypeOK
  <1>7. TypeOK'
    BY <1>3, <1>6 DEF IInv, TypeOK
  <1>8. frame' # NoFrame
    BY <1>6 DEF NoFrame
  <1>9. Flags'
    BY <1>1, <1>3, WhenHandling DEF IInv, Flags
  <1>10. Ending'
    <2>1. \/ frame'.writes = <<Outb(2, "command", {5}), Outb(1, "command", {5})>>
          \/ frame'.writes = <<Outb(1, "command", {5})>> /\ pic'[2].isr = {}
      BY <1>3, <1>4, <1>6, EndWrites
    <2>2. /\ \/ frame'.line \in Lines /\ frame'.vector = 32 + frame'.line
             \/ frame'.line = SPURIOUS /\ frame'.vector \in {39, 47}
          /\ Single(pic'[1].isr) /\ Single(pic'[2].isr)
      BY <1>3, <1>5, <1>6
    <2> QED
      BY <2>1, <2>2 DEF Ending
  <1>11. Serving' /\ Idle' /\ NothingLeftInService'
    BY <1>6, <1>8 DEF Serving, Idle, NothingLeftInService
  <1>12. Configuring' /\ Running' /\ CascadeIsFree'
    <2>1. Apart
      BY <1>3 DEF IInv, TypeOK, CascadeIsFree, Apart, SameWords
    <2> QED
      BY <1>3, <2>1, ApartStep
  <1> QED
    BY <1>7, <1>9, <1>10, <1>11, <1>12 DEF IInv

\* One of the writes of i8259_SendEndOfInterrupt, to controller p.
LEMMA EndWrite ==
    ASSUME IInv, NEW p \in Pics, pic' = Written(Outb(p, "command", {5})), hasPic,
           UNCHANGED <<todo, PicMask, driver, gates, isrHandlers, irqHandlers, hasPic>>
    PROVE  /\ Apart
           /\ Single(pic[p].isr) => pic'[p].isr = {}
           /\ \A q \in Pics : q # p => pic'[q].isr = pic[q].isr
PROOF
  <1> DEFINE w == Outb(p, "command", {5})
  <1>1. w \in ByteWrite /\ w.pic = p /\ w.port = "command" /\ w.byte = {5}
    <2>1. {5} \in SUBSET Bits
      BY DEF Bits
    <2> QED
      BY <2>1 DEF Outb, ByteWrite
  <1>2. pic \in [Pics -> Controller] /\ pic' = Written(w)
    BY DEF IInv, TypeOK
  <1> HIDE DEF w
  <1>3. /\ pic' \in [Pics -> Controller] /\ pic'[p] = Commanded(pic[p], {5})
        /\ \A q \in Pics : q # p => pic'[q] = pic[q]
    BY <1>1, <1>2, WrittenTo
  <1>4. /\ Single(pic[p].isr) => pic'[p].isr = {}
        /\ pic'[p].irr = pic[p].irr /\ SameWords(pic[p], pic'[p])
    <2>1. pic[p] \in Controller
      BY <1>2
    <2> QED
      BY <1>3, <2>1, EndWord
  <1>5. \A q \in Pics : SameWords(pic[q], pic'[q]) /\ pic'[q].irr = pic[q].irr
    BY <1>3, <1>4 DEF SameWords
  <1>6. 2 \notin pic'[1].irr
    BY <1>5 DEF IInv, CascadeIsFree, Pics
  <1> QED
    BY <1>3, <1>4, <1>5, <1>6 DEF Apart

\* The return, with nothing left in service.
LEMMA ReturnStep ==
    ASSUME IInv, EndOfInterrupt, frame.writes = <<>>
    PROVE  IInv'
PROOF
  <1>1. /\ frame.at = "end" /\ pc # "halted" /\ frame' = NoFrame /\ enabled' = TRUE
        /\ UNCHANGED <<pc, todo, PicMask, driver, gates, isrHandlers, irqHandlers,
                       hasPic, pic, requests>>
    BY DEF EndOfInterrupt, ReturnFromInterrupt, kernel
  <1>2. pic[1].isr = {} /\ pic[2].isr = {}
    BY <1>1 DEF IInv, Ending
  <1>3. TypeOK'
    <2>1. NoFrame \in [vector : Vectors \cup {NONE}, at : {"none", "isr", "irq", "end"},
                       writes : Seq(ByteWrite), line : Lines \cup {NONE, SPURIOUS}]
      BY DEF NoFrame
    <2> QED
      BY <1>1, <2>1 DEF IInv, TypeOK
  <1>4. Flags'
    BY <1>1, WhenHandling DEF IInv, Flags
  <1>5. Configuring' /\ Running' /\ CascadeIsFree'
    <2>1. Apart
      BY <1>1 DEF IInv, TypeOK, CascadeIsFree, Apart, SameWords
    <2> QED
      BY <1>1, <2>1, ApartStep
  <1>6. Serving' /\ Ending' /\ Idle'
    BY <1>1 DEF Serving, Ending, Idle, NoFrame
  <1>7. NothingLeftInService'
    BY <1>1, <1>2 DEF NothingLeftInService
  <1> QED
    BY <1>3, <1>4, <1>5, <1>6, <1>7 DEF IInv

LEMMA EndOfInterruptStep ==
    ASSUME IInv, EndOfInterrupt
    PROVE  IInv'
PROOF
  <1>1. CASE frame.writes = <<>>
    BY <1>1, ReturnStep
  <1>2. CASE frame.writes # <<>>
    <2> DEFINE second == Outb(2, "command", {5})
               first  == Outb(1, "command", {5})
    <2>1. /\ frame.at = "end" /\ pc # "halted" /\ pic' = Written(Head(frame.writes))
          /\ frame' = [frame EXCEPT !.writes = Tail(frame.writes)]
          /\ enabled' = enabled
          /\ UNCHANGED <<pc, todo, PicMask, driver, gates, isrHandlers, irqHandlers,
                         hasPic, requests>>
      BY <1>2 DEF EndOfInterrupt, kernel
    <2>2. /\ Single(pic[1].isr) /\ Single(pic[2].isr)
          /\ \/ frame.line \in Lines /\ frame.vector = 32 + frame.line
             \/ frame.line = SPURIOUS /\ frame.vector \in {39, 47}
          /\ \/ frame.writes = <<second, first>>
             \/ frame.writes = <<first>> /\ pic[2].isr = {}
      BY <1>2, <2>1 DEF IInv, Ending
    <2>3. hasPic /\ frame # NoFrame /\ 1 \in Pics /\ 2 \in Pics
      BY <2>1, WhenHandling DEF Pics
    <2>4. frame.writes \in Seq(ByteWrite) /\ Tail(frame.writes) \in Seq(ByteWrite)
      <3>1. frame.writes \in Seq(ByteWrite)
        BY DEF IInv, TypeOK
      <3> QED
        BY <1>2, <3>1, HeadTailProperties
    <2>5. /\ frame' \in [vector : Vectors \cup {NONE}, at : {"none", "isr", "irq", "end"},
                         writes : Seq(ByteWrite), line : Lines \cup {NONE, SPURIOUS}]
          /\ frame'.at = "end" /\ frame'.vector = frame.vector
          /\ frame'.line = frame.line /\ frame'.writes = Tail(frame.writes)
      BY <2>1, <2>4 DEF IInv, TypeOK
    <2>6. Apart /\ Ending'
      <3>1. ASSUME frame.writes = <<second, first>>
            PROVE  Apart /\ Ending'
        <4>1. Head(frame.writes) = second /\ frame'.writes = <<first>>
          <5> HIDE DEF first, second
          <5> QED
            BY <2>5, <3>1
        <4>2. /\ Apart /\ pic'[2].isr = {} /\ pic'[1].isr = pic[1].isr
          BY <2>1, <2>2, <2>3, <4>1, EndWrite
        <4>3. Single(pic'[1].isr) /\ Single(pic'[2].isr)
          BY <2>2, <4>2 DEF Single
        <4> QED
          BY <2>2, <2>5, <4>1, <4>2, <4>3 DEF Ending
      <3>2. ASSUME frame.writes = <<first>>, pic[2].isr = {}
            PROVE  Apart /\ Ending'
        <4>1. Head(frame.writes) = first /\ frame'.writes = <<>>
          <5> HIDE DEF first
          <5> QED
            BY <2>5, <3>2
        <4>2. /\ Apart /\ pic'[1].isr = {} /\ pic'[2].isr = {}
          BY <2>1, <2>2, <2>3, <3>2, <4>1, EndWrite
        <4>3. Single(pic'[1].isr) /\ Single(pic'[2].isr)
          BY <4>2 DEF Single
        <4> QED
          BY <2>2, <2>5, <4>1, <4>2, <4>3 DEF Ending
      <3> QED
        BY <2>2, <3>1, <3>2
    <2>7. TypeOK'
      BY <2>1, <2>5, <2>6 DEF IInv, TypeOK, Apart
    <2>8. frame' # NoFrame
      BY <2>5 DEF NoFrame
    <2>9. Flags'
      BY <2>1, <2>3 DEF IInv, Flags
    <2>10. Configuring' /\ Running' /\ CascadeIsFree'
      BY <2>1, <2>6, ApartStep
    <2>11. Serving' /\ Idle' /\ NothingLeftInService'
      BY <2>5, <2>8 DEF Serving, Idle, NothingLeftInService
    <2> QED
      BY <2>6, <2>7, <2>9, <2>10, <2>11 DEF IInv
  <1> QED
    BY <1>1, <1>2
-----------------------------------------------------------------------------
(* The invariant, and what follows                                          *)

LEMMA IInvStep == IInv /\ [Next]_vars => IInv'
PROOF
  <1> SUFFICES ASSUME IInv, [Next]_vars
               PROVE  IInv'
    OBVIOUS
  <1>1. CASE InitializeGates
    BY <1>1, InitializeGatesStep
  <1>2. CASE Probe
    BY <1>2, ProbeStep
  <1>3. CASE Probed
    BY <1>3, ProbedStep
  <1>4. CASE RegisterAndEnable
    BY <1>4, RegisterAndEnableStep
  <1>5. CASE Out
    BY <1>5, OutStep
  <1>6. ASSUME NEW irq \in Devices, RegisterHandler(irq) PROVE IInv'
    BY <1>6, RegisterHandlerStep
  <1>7. ASSUME NEW irq \in Devices \cup {2}, Mask(irq) \/ Unmask(irq) PROVE IInv'
    <2>1. irq \in Lines /\ PicMask \subseteq Lines
      BY DeviceAssumption DEF IInv, TypeOK, Lines
    <2>2. PICK mask \in SUBSET Lines : SetPicMask(mask)
      BY <1>7, <2>1 DEF Mask, Unmask
    <2> QED
      BY <2>2, SetPicMaskStep
  <1>8. CASE Acknowledge
    BY <1>8, AcknowledgeStep
  <1>9. CASE Dispatch
    BY <1>9, DispatchStep
  <1>10. CASE HandleIrq
    BY <1>10, HandleIrqStep
  <1>11. CASE EndOfInterrupt
    BY <1>11, EndOfInterruptStep
  <1>12. CASE Spurious
    BY <1>12, SpuriousFirstStep, SpuriousSecondStep DEF Spurious
  <1>13. CASE Exception
    BY <1>13, HaltStep DEF Exception
  <1>14. ASSUME NEW l \in Devices, Raise(l) PROVE IInv'
    BY <1>14, RaiseStep
  <1>15. CASE Halted \/ UNCHANGED vars
    <2>1. /\ UNCHANGED <<pc, todo, PicMask, driver, gates, isrHandlers, irqHandlers>>
          /\ UNCHANGED <<frame, enabled, hasPic, pic, requests>>
      BY <1>15 DEF Halted, vars, kernel
    <2>2. TypeOK' /\ Flags' /\ Idle'
      BY <2>1 DEF IInv, TypeOK, Flags, Idle
    <2>3. Configuring' /\ Running' /\ CascadeIsFree'
      <3>1. Apart
        BY <2>1 DEF IInv, TypeOK, CascadeIsFree, Apart, SameWords
      <3> QED
        BY <2>1, <3>1, ApartStep
    <2>4. Serving'
      BY <2>1 DEF IInv, Serving, InService
    <2>5. Ending' /\ NothingLeftInService'
      BY <2>1 DEF IInv, Ending, NothingLeftInService
    <2> QED
      BY <2>2, <2>3, <2>4, <2>5 DEF IInv
  <1> QED
    BY <1>1, <1>2, <1>3, <1>4, <1>5, <1>6, <1>7, <1>8, <1>9, <1>10, <1>11, <1>12, <1>13,
       <1>14, <1>15 DEF Next, Initialize, Handle, Driver

LEMMA Invariant == Spec => []IInv
PROOF
  <1> QED
    BY InitInv, IInvStep, PTL DEF Spec

\* Every variable keeps its type: the masks and words that are written are
\* bytes, and the vector of an interrupt is one of the 256 of g_IDT (idt.c:27).
THEOREM TypeCorrect == Spec => []TypeOK
PROOF
  <1>1. IInv => TypeOK
    BY DEF IInv
  <1> QED
    BY <1>1, Invariant, PTL

\* For any devices and any number of requests, whatever i686_IRQ_Handler
\* answers leaves no line in service (irq.c:16-32, i8259.c:110-115).
THEOREM NothingIsLeftInService == Spec => []NothingLeftInService
PROOF
  <1>1. IInv => NothingLeftInService
    BY DEF IInv
  <1> QED
    BY <1>1, Invariant, PTL

\* Whatever the BIOS left and whichever calls the drivers make, g_PicMask is
\* the controllers' mask once no call is under way (i8259.c:58-65, 72-108,
\* 122-130).
THEOREM MaskIsAlwaysWritten == Spec => []MaskIsWritten
PROOF
  <1>1. IInv => MaskIsWritten
    <2> SUFFICES ASSUME IInv, pc = "running", driver, todo = <<>>
                 PROVE  pic[1].imr = Low /\ pic[2].imr = High
      BY DEF MaskIsWritten, Low, High
    <2>1. Masking
      BY DEF IInv, Running
    <2>2. SetMask(PicMask) # <<>> /\ <<Outb(2, "data", High)>> # <<>>
      BY SetMaskWrites DEF IInv, TypeOK
    <2> QED
      BY <2>1, <2>2 DEF Masking
  <1> QED
    BY <1>1, Invariant, PTL

\* The words of i8259_Configure and the subtraction of PIC_REMAP_OFFSET agree
\* for all sixteen lines (irq.c:18, 52, i8259.c:84-104).
THEOREM IrqIsAlwaysTheLine == Spec => []IrqIsTheLine
PROOF
  <1>1. IInv => IrqIsTheLine
    <2> SUFFICES ASSUME IInv, frame.at \in {"irq", "end"}
                 PROVE  IF frame.line = SPURIOUS
                        THEN frame.vector - PIC_REMAP_OFFSET \in {7, 15}
                        ELSE frame.vector - PIC_REMAP_OFFSET = frame.line
      BY DEF IrqIsTheLine
    <2>1. \/ frame.line \in Lines /\ frame.vector = 32 + frame.line
          \/ frame.line = SPURIOUS /\ frame.vector \in {39, 47}
      <3>1. Bits \subseteq Lines
        BY DEF Bits, Lines
      <3> QED
        BY <3>1 DEF IInv, Serving, Ending, InService
    <2>2. CASE frame.line \in Lines /\ frame.vector = 32 + frame.line
      BY <2>2 DEF Lines, SPURIOUS, PIC_REMAP_OFFSET
    <2>3. CASE frame.line = SPURIOUS /\ frame.vector \in {39, 47}
      BY <2>3 DEF PIC_REMAP_OFFSET
    <2> QED
      BY <2>1, <2>2, <2>3
  <1> QED
    BY <1>1, Invariant, PTL

\* A line that comes is one its driver had unmasked, because the controllers'
\* masks are g_PicMask whenever no call is under way (i8259.c:58-65,
\* 106-108, 122-130).
THEOREM OnlyUnmaskedLinesAlways == Spec => OnlyUnmaskedLines
PROOF
  <1> DEFINE Unmasked == frame = NoFrame /\ frame'.line \in Lines /\ todo = <<>>
                         => frame'.line \notin PicMask
  <1>1. IInv /\ [Next]_vars => [Unmasked]_vars
    <2> SUFFICES ASSUME IInv, Next, frame = NoFrame, frame'.line \in Lines, todo = <<>>
                 PROVE  frame'.line \notin PicMask
      OBVIOUS
    <2>1. frame.at = "none" /\ frame.line \notin Lines
      BY DEF NoFrame, NONE, Lines
    <2>2. frame' # frame
      BY <2>1
    <2>3. \/ Acknowledge \/ Spurious
      BY <2>1, <2>2 DEF Next, Initialize, InitializeGates, Probe, Probed,
         RegisterAndEnable, Out, Driver, RegisterHandler, Mask, Unmask, SetPicMask, Handle,
         Dispatch, HandleIrq, EndOfInterrupt, Exception, Halted, Raise, vars
    <2>4. CASE Acknowledge
      <3>1. PICK line \in Lines : Taken(line, 32 + line) /\ line \notin PicMask
        BY <2>4, AcknowledgeTakes
      <3>2. frame'.line = line
        BY <3>1 DEF Taken, Interrupted
      <3> QED
        BY <3>1, <3>2
    <2>5. CASE Spurious
      <3>1. frame'.line = SPURIOUS
        BY <2>5 DEF Spurious, SpuriousFirst, SpuriousSecond, Interrupted
      <3> QED
        BY <3>1 DEF SPURIOUS, Lines
    <2> QED
      BY <2>3, <2>4, <2>5
  <1>2. Spec => [][Unmasked]_vars
    BY <1>1, Invariant, PTL DEF Spec
  <1> QED
    BY <1>2 DEF OnlyUnmaskedLines
=============================================================================
