----------------------------- MODULE MCOpenPath -----------------------------
(***************************************************************************)
(* OpenPath on the volumes of MCFat, with names of two characters and      *)
(* extensions of one.                                                      *)
(***************************************************************************)
EXTENDS MCFat, OpenPath

b == 98
k == 107
K == 75

\* The names of the volumes stand for these, and "none" for all others.
MCNameOf(key) ==
    CASE key = <<66, 32, 32>> -> "boot"      \* b
      [] key = <<75, 32, 66>> -> "kernel"    \* k.b
      [] key = <<75, 66, 32>> -> "empty"     \* kb
      [] key = <<75, 32, 32>> -> "odd"       \* k
      [] OTHER -> "none"

\* The root directory; "b" and "kb" in it; the kernel in "b", with capitals and
\* without, with a slash behind it and with something behind that; nothing
\* there; an extension that is left open.
Texts == {<<>>, <<SLASH>>, <<SLASH, b>>, <<k, b>>, <<k>>, <<SLASH, SLASH, b>>,
          <<SLASH, b, SLASH, K, DOT, b>>, <<b, SLASH, k, DOT, b, SLASH>>,
          <<b, SLASH, k, DOT, b, SLASH, k, b>>, <<b, SLASH, k, DOT>>}

MCGiven == (Texts \X {NUL})
           \cup {<<<<k>>, b>>, <<<<b, SLASH, k, DOT, b, SLASH>>, b>>,
                 <<<<SLASH, b, SLASH, K, DOT, b>>, b>>}

AsTheyAre == [n \in MCNames |-> {n}]
JustRoot  == {<<>>}
=============================================================================
