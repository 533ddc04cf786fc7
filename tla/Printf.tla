------------------------------- MODULE Printf -------------------------------
(***************************************************************************)
(* Formatted output: printf of the second stage (stage2/stdio.c), vfprintf *)
(* of the kernel over VFS_Write (kernel/stdio.c, hal/vfs.c) and            *)
(* TextDevice::VFormat of the core library, and the console they write to. *)
(*                                                                         *)
(* The three share one machine of five states over the characters of the   *)
(* format; a step is one turn of its loop, or one character written.  They *)
(* differ in where a character goes, in how a number is converted, and in  *)
(* that the core library stops at the first write that fails.              *)
(*                                                                         *)
(* An argument is a record of the kind of value the caller passed and its  *)
(* value; a number is the unsigned value of its bits.                      *)
(***************************************************************************)
EXTENDS Console

CONSTANTS
    Programs,   \* which of "stage2", "kernel", "core" is running
    WORD,       \* int and long are modulo WORD
    LONG_WORD,  \* long long is modulo LONG_WORD
    Words,      \* the numbers passed as int and long
    LongWords,  \* the numbers passed as long long
    Strings,    \* the strings passed
    Formats,    \* the formats passed
    Colors,     \* logf: the text before a message, by its level
    ColorReset, \* and that behind it
    LogFormats, \* the formats passed to it
    Buffers,    \* the sequences of bytes passed to print_buffer
    MaxCalls    \* bound: calls in a behaviour, of which printf is the first

Radixes == {8, 10, 16}
HexChars == <<"0", "1", "2", "3", "4", "5", "6", "7",
              "8", "9", "a", "b", "c", "d", "e", "f">>

ASSUME PrintfAssumption ==
    /\ Programs \subseteq {"stage2", "kernel", "core"}
    /\ WORD \in Nat \ {0, 1} /\ LONG_WORD \in Nat \ {0, 1} /\ WORD <= LONG_WORD
    /\ Words \subseteq 0 .. WORD - 1 /\ LongWords \subseteq 0 .. LONG_WORD - 1
    /\ Strings \subseteq Seq(Chars) /\ Formats \cup LogFormats \subseteq Seq(Chars)
    /\ Colors \in Seq(Seq(Chars)) /\ ColorReset \in Seq(Chars)
    /\ Buffers \subseteq Seq(0 .. 255)
    /\ {HexChars[i] : i \in 1 .. 16} \cup {"-", "%", "[", "]", "s"} \subseteq Printable
    /\ MaxCalls \in Nat \ {0}

\* The index of print_buffer has 16 bits and the count it is compared with 32
\* (stdio.c:309): from 2^16 bytes on the loop never ends.
ASSUME BufferAssumption == \A buffer \in Buffers : Len(buffer) < 65536

VARIABLES
    program,    \* the program that runs
    file,       \* where it writes: a file of the kernel, or a device
    busy,       \* a call of printf runs
    fmt,        \* its format, from the next character on
    state,      \* its state and length
    length,
    args,       \* its arguments, from the next one on
    queue,      \* what the conversion at hand has still to write
    parts,      \* what the call will write when it is done with its format
    ok,         \* its result in the core library
    calls,      \* number of calls so far
    written,    \* history: what the call has written
    meaning,    \* history: what it was to write
    signs       \* history: the call has converted a negative number

machine == <<fmt, state, length, args, queue, parts, ok>>
vars    == <<program, file, busy, machine, calls, written, meaning, signs, console>>

Values(kind) ==
    CASE kind = "char" -> Chars [] kind = "string" -> Strings
      [] kind = "word" -> Words [] kind = "long"   -> LongWords

ArgOf(kind) == [kind : {kind}, value : Values(kind)]
Arg         == UNION {ArgOf(kind) : kind \in {"char", "string", "word", "long"}}
-----------------------------------------------------------------------------
(* What a format means                                                      *)

Modifiers == {<<>>, <<"h">>, <<"h", "h">>, <<"l">>, <<"l", "l">>}
Signed    == {"d", "i"}
Unsigned  == {"u", "o", "x", "X", "p"}

Radix(spec) == CASE spec \in Signed \cup {"u"} -> 10 [] spec = "o" -> 8 [] OTHER -> 16

\* The digits of a number in a radix, without leading zeros.
Numeral(number, radix) ==
    LET power[k \in 0 .. LONG_WORD] == IF k = 0 THEN 1 ELSE radix * power[k - 1]
        digits == CHOOSE k \in 1 .. LONG_WORD :
                     /\ number < power[k]
                     /\ k = 1 \/ number >= power[k - 1]
    IN  [i \in 1 .. digits |->
            HexChars[((number \div power[digits - i]) % radix) + 1]]

Integer(kind, bits) ==
    LET word == IF kind = "long" THEN LONG_WORD ELSE WORD
    IN  IF bits >= word \div 2 THEN bits - word ELSE bits

\* A format is cut into items: plain characters, and conversions, which are a
\* percent sign, the longest modifier that follows and one character more.
ItemLength(format) ==
    IF Head(format) # "%" THEN 1
    ELSE 2 + Max({Len(m) : m \in {n \in Modifiers : IsPrefix(n, Tail(format))}})

HasItem(format) == format # <<>> /\ ItemLength(format) <= Len(format)
Item(format)    == SubSeq(format, 1, ItemLength(format))
Rest(format)    == SubSeq(format, ItemLength(format) + 1, Len(format))

\* The kinds of the arguments an item takes: one, or none.
Takes(item) ==
    IF Len(item) = 1 THEN <<>> ELSE
    CASE Last(item) = "c"  -> <<"char">>
      [] Last(item) = "s"  -> <<"string">>
      [] Last(item) \in Signed \cup Unsigned ->
            IF SubSeq(item, 2, Len(item) - 1) = <<"l", "l">> THEN <<"long">> ELSE <<"word">>
      [] OTHER             -> <<>>

Kinds[format \in Seq(Chars)] ==
    IF HasItem(format) THEN Takes(Item(format)) \o Kinds[Rest(format)] ELSE <<>>

\* The arguments a caller passes with a format.
ArgumentsFor(format) ==
    {a \in TupleOf(Arg, Len(Kinds[format])) :
        \A i \in DOMAIN a : a[i].kind = Kinds[format][i]}

Text(spec, arg) ==
    CASE spec = "c"        -> <<arg.value>>
      [] spec = "s"        -> arg.value
      [] spec \in Unsigned -> Numeral(arg.value, Radix(spec))
      [] spec \in Signed   ->
            LET n == Integer(arg.kind, arg.value)
            IN  IF n < 0 THEN <<"-">> \o Numeral(-n, 10) ELSE Numeral(n, 10)

TextOf(item, arguments) ==
    IF Takes(item) # <<>> THEN Text(Last(item), Head(arguments))
    ELSE IF Len(item) = 1 \/ Last(item) = "%" THEN <<Last(item)>>
    ELSE <<>>

\* What is meant by a format, with the arguments passed for it.
Meaning[call \in Seq(Chars) \X Seq(Arg)] ==
    LET format    == call[1]
        arguments == call[2]
        item      == Item(format)
        left      == SubSeq(arguments, Len(Takes(item)) + 1, Len(arguments))
    IN  IF HasItem(format)
        THEN TextOf(item, arguments) \o Meaning[<<Rest(format), left>>]
        ELSE <<>>
-----------------------------------------------------------------------------
(* Writing                                                                  *)

\* VFS_Write: only these files are the console; what is written to another
\* goes to the debug port, to a device or nowhere.
Files == [stage2 |-> {"screen"},
          kernel |-> {"stdin", "stdout", "stderr", "debug"},
          core   |-> {"vga", "other"}]

OnScreen == file \in {"screen", "stdout", "stderr", "vga"}

Ready == busy /\ queue = <<>> /\ tab = NO_TAB

\* putc, fputc, and TextDevice::Write when the device takes the character.
WriteNext ==
    /\ busy /\ queue # <<>> /\ tab = NO_TAB
    /\ IF OnScreen THEN Putc(Head(queue)) ELSE UNCHANGED console
    /\ written' = Append(written, Head(queue))
    /\ queue' = Tail(queue)
    /\ UNCHANGED <<program, file, busy, fmt, state, length, args, parts, ok, calls,
                   meaning, signs>>

\* Another device of the core library does not take it (external); the rest of
\* the string or number is dropped with it.
WriteFails ==
    /\ busy /\ queue # <<>> /\ file = "other"
    /\ ok' = FALSE /\ queue' = <<>>
    /\ UNCHANGED <<program, file, busy, fmt, state, length, args, parts, calls,
                   written, meaning, signs, console>>

Tab ==
    /\ TabTurn \/ TabEnds
    /\ UNCHANGED <<program, file, busy, machine, calls, written, meaning, signs>>

\* After a failure the core library evaluates no argument and writes nothing.
Emit(text) == queue' = IF ok THEN text ELSE <<>>
-----------------------------------------------------------------------------
(* Numbers                                                                  *)

\* printf_unsigned: the remainders, the last one first.
Digits(number, radix) ==
    LET buffer[n \in 0 .. LONG_WORD] ==
            IF n < radix THEN <<HexChars[n + 1]>>
            ELSE Append(buffer[n \div radix], HexChars[(n % radix) + 1])
    IN  buffer[number]

\* printf_signed; that of the least number negates to itself, whose bits are
\* the digits wanted.
SignedDigits(n) == IF n < 0 THEN <<"-">> \o Digits(-n, 10) ELSE Digits(n, 10)

\* TextDevice::Write(TNumber, int): the loop divides the signed number itself,
\* so a negative one ends it after one digit, which is looked up with a
\* negative remainder unless it is 0: some byte before the table.
DeviceDigits(n) ==
    IF n >= 0 THEN {Digits(n, 10)}
    ELSE {<<"-", c>> : c \in IF (-n) % 10 = 0 THEN {"0"} ELSE Printable}

\* What a number may be written as.
Converted(spec, arg) ==
    LET n == Integer(arg.kind, arg.value)
    IN  IF spec \in Unsigned THEN {Digits(arg.value, Radix(spec))}
        ELSE IF program = "core" THEN DeviceDigits(n) ELSE {SignedDigits(n)}
-----------------------------------------------------------------------------
(* The machine: one turn for each character of the format                   *)

Consume == fmt' = Tail(fmt)

Elsewhere == UNCHANGED <<program, file, busy, parts, ok, calls, written, meaning, console>>

NormalTurn ==
    /\ Ready /\ fmt # <<>> /\ state = "normal"
    /\ Consume
    /\ IF Head(fmt) = "%" THEN state' = "length" /\ UNCHANGED queue
                          ELSE Emit(<<Head(fmt)>>) /\ UNCHANGED state
    /\ UNCHANGED <<length, args, signs>> /\ Elsewhere

\* The characters that only lengthen what is expected, by state, with the
\* length and the state they lead to.
Lengthening ==
    CASE state = "length" /\ Head(fmt) = "h"       -> <<"short", "length_short">>
      [] state = "length" /\ Head(fmt) = "l"       -> <<"long", "length_long">>
      [] state = "length_short" /\ Head(fmt) = "h" -> <<"short_short", "spec">>
      [] state = "length_long" /\ Head(fmt) = "l"  -> <<"long_long", "spec">>
      [] OTHER                                     -> <<>>

LengthTurn ==
    /\ Ready /\ fmt # <<>> /\ state # "normal" /\ Lengthening # <<>>
    /\ Consume
    /\ length' = Lengthening[1] /\ state' = Lengthening[2]
    /\ UNCHANGED <<args, queue, signs>> /\ Elsewhere

\* The va_arg a conversion makes.
Asked(spec) ==
    CASE spec = "c" -> "char"
      [] spec = "s" -> "string"
      [] spec \in Signed \cup Unsigned -> IF length = "long_long" THEN "long" ELSE "word"
      [] OTHER      -> "none"

\* What a conversion may write.  An argument of another kind than was passed,
\* or one too many, would be anything.
Conversion(spec) ==
    IF Asked(spec) = "none" THEN {IF spec = "%" THEN <<"%">> ELSE <<>>}
    ELSE IF args = <<>> \/ Head(args).kind # Asked(spec) THEN {<<c>> : c \in Printable}
    ELSE CASE spec = "c" -> {<<Head(args).value>>}
           [] spec = "s" -> {Head(args).value}
           [] OTHER      -> Converted(spec, Head(args))

Negative(spec) ==
    spec \in Signed /\ args # <<>> /\ Integer(Head(args).kind, Head(args).value) < 0

\* Mutant: the length is not reset.
SpecTurn_KeepsLength ==
    /\ Ready /\ fmt # <<>> /\ state # "normal" /\ Lengthening = <<>>
    /\ Consume
    /\ \E text \in Conversion(Head(fmt)) : Emit(text)
    /\ args' = IF ok /\ Asked(Head(fmt)) # "none" /\ args # <<>> THEN Tail(args) ELSE args
    /\ signs' = (signs \/ Negative(Head(fmt)))
    /\ state' = "normal" /\ UNCHANGED length
    /\ Elsewhere

SpecTurn ==
    /\ Ready /\ fmt # <<>> /\ state # "normal" /\ Lengthening = <<>>
    /\ Consume
    /\ \E text \in Conversion(Head(fmt)) : Emit(text)
    /\ args' = IF ok /\ Asked(Head(fmt)) # "none" /\ args # <<>> THEN Tail(args) ELSE args
    /\ signs' = (signs \/ Negative(Head(fmt)))
    /\ state' = "normal" /\ length' = "default"
    /\ Elsewhere

\* A text and then a format is written.
Parts == [text : Seq(Chars), fmt : Seq(Chars), args : Seq(Arg)]

Part(text, format, arguments) == [text |-> text, fmt |-> format, args |-> arguments]

Load(part) ==
    /\ queue' = part.text /\ fmt' = part.fmt /\ args' = part.args
    /\ state' = "normal" /\ length' = "default"

\* logf goes on to its next call.
NextPart ==
    /\ Ready /\ fmt = <<>> /\ parts # <<>>
    /\ Load(Head(parts)) /\ parts' = Tail(parts)
    /\ UNCHANGED <<program, file, busy, ok, calls, written, meaning, signs, console>>

\* The call returns.
Return ==
    /\ Ready /\ fmt = <<>> /\ parts = <<>>
    /\ busy' = FALSE
    /\ state' = "normal" /\ length' = "default" /\ args' = <<>> /\ ok' = TRUE
    /\ written' = <<>> /\ meaning' = <<>> /\ signs' = FALSE
    /\ UNCHANGED <<program, file, fmt, queue, parts, calls, console>>
-----------------------------------------------------------------------------
(* The calls                                                                *)

Init ==
    /\ program \in Programs
    /\ file \in Files[program]
    /\ busy = FALSE /\ fmt = <<>> /\ state = "normal" /\ length = "default"
    /\ args = <<>> /\ queue = <<>> /\ parts = <<>> /\ ok = TRUE /\ calls = 0
    /\ written = <<>> /\ meaning = <<>> /\ signs = FALSE
    /\ ConsoleInit

\* What the parts of a call mean, one after the other.
MeaningOf[ps \in Seq(Parts)] ==
    IF ps = <<>> THEN <<>>
    ELSE Head(ps).text \o Meaning[<<Head(ps).fmt, Head(ps).args>>]
         \o MeaningOf[Tail(ps)]

Begin(ps) ==
    /\ ~busy
    /\ calls' = calls + 1 /\ busy' = TRUE
    /\ Load(Head(ps)) /\ parts' = Tail(ps)
    /\ meaning' = MeaningOf[ps]
    /\ UNCHANGED <<program, file, ok, written, signs, console>>

Printf(format, arguments) ==
    /\ calls = 0
    /\ Begin(<<Part(<<>>, format, arguments)>>)

\* puts, fputs and TextDevice::Write of a string.
Puts(string) ==
    /\ calls < MaxCalls
    /\ Begin(<<Part(string, <<>>, <<>>)>>)

Nibbles(byte) == <<HexChars[(byte \div 16) + 1], HexChars[(byte % 16) + 1]>>

\* print_buffer, fprint_buffer and FormatBuffer: see BufferAssumption.
PrintBuffer(message, buffer) ==
    /\ calls = 0
    /\ Begin(<<Part(message \o FlattenSeq([i \in DOMAIN buffer |-> Nibbles(buffer[i])])
                    \o <<"\n">>, <<>>, <<>>)>>)

\* logf, which writes to the debug port: each level is above MIN_LOG_LEVEL.
Message(color, module, format, arguments) ==
    <<Part(color, <<"[", "%", "s", "]", " ">>, <<[kind |-> "string", value |-> module]>>),
      Part(<<>>, format, arguments),
      Part(ColorReset \o <<"\n">>, <<>>, <<>>)>>

Logf(level, module, format, arguments) ==
    /\ file = "debug" /\ calls = 0
    /\ Begin(Message(Colors[level], module, format, arguments))

Clear ==
    /\ ~busy /\ calls < MaxCalls
    /\ calls' = calls + 1
    /\ ClearScreen
    /\ UNCHANGED <<program, file, busy, machine, written, meaning, signs>>

\* The program does something else.
Idle == ~busy /\ UNCHANGED vars

Next ==
    \/ \E format \in Formats : \E arguments \in ArgumentsFor(format) :
          Printf(format, arguments)
    \/ \E string \in Strings : Puts(string)
    \/ \E message \in Strings, buffer \in Buffers : PrintBuffer(message, buffer)
    \/ \E level \in DOMAIN Colors, module \in Strings, format \in LogFormats :
          \E arguments \in ArgumentsFor(format) : Logf(level, module, format, arguments)
    \/ Clear \/ Idle \/ NextPart \/ Return
    \/ NormalTurn \/ LengthTurn \/ SpecTurn
    \/ WriteNext \/ WriteFails \/ Tab

Spec == Init /\ [][Next]_vars
-----------------------------------------------------------------------------
(* Properties                                                               *)

TypeOK ==
    /\ program \in Programs /\ file \in Files[program]
    /\ busy \in BOOLEAN /\ ok \in BOOLEAN /\ signs \in BOOLEAN
    /\ fmt \in Seq(Chars) /\ queue \in Seq(Chars) /\ args \in Seq(Arg)
    /\ state \in {"normal", "length", "length_short", "length_long", "spec"}
    /\ length \in {"default", "short_short", "short", "long", "long_long"}
    /\ parts \in Seq(Parts)
    /\ calls \in 0 .. MaxCalls
    /\ written \in Seq(Chars) /\ meaning \in Seq(Chars)
    /\ ConsoleTypeOK

\* When a call is done it has written what its format means: every conversion
\* takes the argument that was passed for it, whatever conversions or formats
\* went before, and numbers are written with all their digits.  A call of the core library that meets a
\* failure reports it and has written the beginning.  Excepted are negative
\* numbers of the core library.
OutputIsMeaning ==
    Ready /\ fmt = <<>> /\ parts = <<>> /\ ~(signs /\ program = "core")
    => IF ok THEN written = meaning ELSE IsStrictPrefix(written, meaning)

\* "convert number to ASCII" (TextDevice.hpp:44), of every number.
DeviceWritesNumbers ==
    Ready /\ fmt = <<>> /\ parts = <<>> /\ program = "core" /\ ok => written = meaning
=============================================================================
