------------------------------ MODULE MCPrintf ------------------------------
(***************************************************************************)
(* Printf on a screen of two lines of four cells, with int of 5 and long   *)
(* long of 8 bits.                                                         *)
(***************************************************************************)
EXTENDS Printf

\* What the machine tells apart: the percent sign, both length characters, one
\* conversion of each kind, and a character that is neither.
Alphabet == {"%", "h", "l", "d", "s", "a"}

\* Every format of up to three characters and, with a percent sign before them,
\* four; and longer ones that fill the screen, meet its corners, or follow one
\* conversion by another of a different length.
MCFormats ==
    BoundedSeq(Alphabet, 3) \cup {<<"%">> \o f : f \in TupleOf(Alphabet, 3)} \cup
    {<<"a", "\n", "a", "a", "a", "a", "\t", "a">>,
     <<"a", "a", "a", "\t", "\n", "\r", "a">>,
     <<"%", "s", "%", "s", "%", "c">>,
     <<"%", "l", "l", "x", "%", "d", "%", "l", "o">>,
     <<"%", "l", "l", "d", "\r", "%", "h", "h", "u">>,
     <<"%", "l", "l", "l", "%", "i">>}

\* Logged: a conversion behind one of another length, with one left open at the
\* end, and one that is only that.
MCLogFormats ==
    {<<"%", "l", "l", "x", "%", "d", "%", "h">>, <<"%", "l">>, <<"a", "%", "s">>}

MCColors     == <<<<"c">>, <<"e">>>>
MCColorReset == <<"a">>
MCBuffers == {<<>>, <<0, 171>>}

MCStrings == {<<>>, <<"a", "\n", "\t">>, <<"\n", "a", "a">>}
MCPrintable == {"0", "1", "2", "3", "4", "5", "6", "7", "8", "9",
                "a", "b", "c", "d", "e", "f", "h", "l", "o", "s", "u", "x", "i",
                "-", "%", " ", "[", "]"}
=============================================================================
