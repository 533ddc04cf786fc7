-------------------------------- MODULE Path --------------------------------
(***************************************************************************)
(* How FAT_Open (stage2/fat.c) takes a path apart, and how FAT_GetShortName *)
(* makes the name of a directory entry of each component; with strchr,     *)
(* strlen and toupper, which they call.                                    *)
(*                                                                         *)
(* A text is a sequence of character codes.  A buffer holds MAX_PATH_SIZE   *)
(* of them.                                                                *)
(***************************************************************************)
EXTENDS Integers, FiniteSets, SequencesExt

CONSTANTS
    NAME,          \* characters of a short name, 8
    EXT,           \* characters of its extension, 3
    MAX_PATH_SIZE  \* characters of FAT_Open's buffer

ASSUME PathAssumption ==
    NAME \in Nat \ {0} /\ EXT \in Nat \ {0} /\ MAX_PATH_SIZE \in Nat

NUL   == 0
BLANK == 32
DOT   == 46
SLASH == 47

islower(c) == c \in 97 .. 122
toupper(c) == IF islower(c) THEN c - 32 ELSE c

First(places) == CHOOSE k \in places : \A j \in places : k <= j

\* The first place of c, or 0 for NULL.
strchr(text, c) ==
    LET places == {k \in DOMAIN text : text[k] = c}
    IN  IF places = {} THEN 0 ELSE First(places)

\* Mutant: no change to capitals in the extension.
GetShortName_Case(name) ==
    LET dot == strchr(name, DOT)
        ext == IF dot = 0 THEN NAME + EXT + 1 ELSE dot
        At(k) == IF k <= Len(name) THEN name[k] ELSE BLANK
    IN  [k \in 1 .. NAME + EXT |->
            IF k <= NAME THEN IF k < ext THEN toupper(At(k)) ELSE BLANK
            ELSE IF ext = NAME + EXT + 1 THEN BLANK ELSE At(ext + k - NAME)]

\* Without a dot, ext points behind the short name; so it does when the dot
\* happens to be there.
GetShortName(name) ==
    LET dot == strchr(name, DOT)
        ext == IF dot = 0 THEN NAME + EXT + 1 ELSE dot
        At(k) == IF k <= Len(name) THEN toupper(name[k]) ELSE BLANK
    IN  [k \in 1 .. NAME + EXT |->
            IF k <= NAME THEN IF k < ext THEN At(k) ELSE BLANK
            ELSE IF ext = NAME + EXT + 1 THEN BLANK ELSE At(ext + k - NAME)]

\* The text in a buffer.
Terminated(buffer) == SubSeq(buffer, 1, strchr(buffer, NUL) - 1)

\* One turn of FAT_Open's loop.  Behind the last component the terminator comes
\* a byte too late.
Take(w) ==
    LET delim  == strchr(w.path, SLASH)
        len    == IF delim # 0 THEN delim - 1 ELSE Len(w.path)
        copied == SubSeq(w.path, 1, len) \o SubSeq(w.buffer, len + 1, MAX_PATH_SIZE)
        end    == IF delim # 0 THEN len + 1 ELSE len + 2
        name   == [copied EXCEPT ![end] = NUL]
    IN  [path   |-> IF delim # 0 THEN SubSeq(w.path, delim + 1, Len(w.path)) ELSE <<>>,
         buffer |-> name,
         names  |-> Append(w.names, GetShortName(Terminated(name)))]

\* How far FAT_Open is with its path.  What is left has room in the buffer, with
\* the two characters behind it: FAT_Open copies without looking.
Walks == {w \in [path   : Seq(Nat),
                 buffer : [1 .. MAX_PATH_SIZE -> Nat],
                 names  : Seq([1 .. NAME + EXT -> Nat])] :
             Len(w.path) + 2 <= MAX_PATH_SIZE}

\* FAT_Open's loop.
TakeAll[w \in Walks] == IF w.path = <<>> THEN w ELSE TakeAll[Take(w)]

\* FAT_Open as far as its path goes: the short names it looks for, with a
\* buffer that held c everywhere.
Walked(text, c) ==
    LET start == [path   |-> IF text # <<>> /\ Head(text) = SLASH THEN Tail(text) ELSE text,
                  buffer |-> [k \in 1 .. MAX_PATH_SIZE |-> c],
                  names  |-> <<>>]
    IN  TakeAll[start].names
-----------------------------------------------------------------------------
(* What a path means                                                        *)

Split(text, c) ==
    LET cuts   == {0, Len(text) + 1} \cup {k \in DOMAIN text : text[k] = c}
        Cut(n) == CHOOSE k \in cuts : Cardinality({j \in cuts : j < k}) = n
    IN  [n \in 1 .. Cardinality(cuts) - 1 |-> SubSeq(text, Cut(n - 1) + 1, Cut(n) - 1)]

\* The pieces between slashes, without one at the beginning or the end.
Components(text) ==
    LET pieces == Split(text, SLASH)
        from == IF pieces[1] = <<>> THEN 2 ELSE 1
        upto == IF Last(pieces) = <<>> THEN Len(pieces) - 1 ELSE Len(pieces)
    IN  SubSeq(pieces, from, upto)

\* A name and perhaps a dot and an extension, neither too long.
Plain(name) ==
    LET parts == Split(name, DOT)
    IN  /\ Len(parts[1]) \in 1 .. NAME
        /\ Len(parts) = 1 \/ (Len(parts) = 2 /\ Len(parts[2]) <= EXT)

Padded(text, n) ==
    [k \in 1 .. n |-> IF k <= Len(text) THEN toupper(text[k]) ELSE BLANK]

Meant(name) ==
    LET parts == Split(name, DOT)
    IN  Padded(parts[1], NAME) \o Padded(IF Len(parts) = 2 THEN parts[2] ELSE <<>>, EXT)

\* A character behind the last component makes no difference: it is cut off, or
\* the text ends with a slash, or the buffer held none at that place.
Firm(text, c) ==
    LET names == Components(text)
        parts == Split(Last(names), DOT)
    IN  \/ Last(text) = SLASH
        \/ IF Len(parts) = 1 THEN Len(parts[1]) = NAME ELSE Len(parts[2]) = EXT
        \/ c = NUL /\ \A k \in DOMAIN names : Len(names[k]) <= Len(Last(names))
=============================================================================
