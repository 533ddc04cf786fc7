---------------------------- MODULE PrintfProofs ----------------------------
(***************************************************************************)
(* Theorems on Printf and Console, for every format, argument, string and  *)
(* size of the screen and of the numbers: the screen shows what was put,   *)
(* and what a call writes is what its format means.                        *)
(***************************************************************************)
EXTENDS Printf, SequenceTheorems, TLAPS

-----------------------------------------------------------------------------
(* The page                                                                *)

Line  == [Columns -> Printable \cup {NUL}]
Pages == [lines : Seq(Line), x : Columns]

Texts(p)     == Seq(Chars)
Length(text) == Len(text)

PageBody(page, output, p) ==
    IF output = <<>> THEN [lines |-> <<Blank>>, x |-> 0]
                     ELSE OnPage(page[Front(output)], Last(output))

Writing == INSTANCE Recursion WITH
    Arguments <- Texts, Rank <- Length, Body <- PageBody

LEMMA Sizes ==
    /\ SCREEN_WIDTH \in Nat \ {0} /\ SCREEN_HEIGHT \in Nat \ {0}
    /\ Printable \cap {NUL, "\n", "\t", "\r"} = {}
BY ConsoleAssumption, Zenon

LEMMA SpaceIsPrintable == \E c \in Printable : c = " "
BY ConsoleAssumption, Zenon

LEMMA FrontIs ==
    ASSUME NEW S, NEW s \in Seq(S), s # <<>>
    PROVE  /\ Front(s) \in Seq(S) /\ Len(Front(s)) = Len(s) - 1
           /\ Last(s) \in S
<1>1. PICK n \in Nat : Len(s) = n + 1
  <2>1. Len(s) \in Nat \ {0}
    BY EmptySeq
  <2>2. Len(s) - 1 \in Nat /\ Len(s) = (Len(s) - 1) + 1
    BY <2>1
  <2> QED BY <2>2
<1>2. \A i \in 1 .. n : s[i] \in S
  BY <1>1, ElementOfSeq
<1>3. SubSeq(s, 1, n) \in Seq(S) /\ Len(SubSeq(s, 1, n)) = n
  BY <1>2, SubSeqProperties
<1>4. s[n + 1] \in S
  BY <1>1, ElementOfSeq
<1>5. Len(s) - 1 = n
  BY <1>1
<1> QED BY <1>1, <1>3, <1>4, <1>5 DEF Front, Last

LEMMA AppendIs ==
    ASSUME NEW S, NEW s \in Seq(S), NEW c \in S
    PROVE  /\ Append(s, c) \in Seq(S) /\ Append(s, c) # <<>>
           /\ Front(Append(s, c)) = s /\ Last(Append(s, c)) = c
BY DEF Front, Last

LEMMA PageObeys == Writing!Obeys(Page, 0)
<1>1. ASSUME NEW s \in Texts(0), NEW f, NEW g, Writing!AgreeBelow(f, g, s, 0)
      PROVE  PageBody(f, s, 0) = PageBody(g, s, 0)
  <2>1. CASE s = <<>>
    BY <2>1 DEF PageBody
  <2>2. CASE s # <<>>
    <3>1. f[Front(s)] = g[Front(s)]
      BY <1>1, <2>2, FrontIs DEF Writing!AgreeBelow, Texts, Length
    <3> QED BY <2>2, <3>1 DEF PageBody
  <2> QED BY <2>1, <2>2
<1>2. \A s \in Texts(0) : Length(s) \in Nat
  BY DEF Texts, Length
<1>3. Writing!LooksBelow(0)
  BY <1>1, <1>2, Zenon DEF Writing!LooksBelow
<1>4. Writing!Obeys(Writing!Function(0), 0)
  BY <1>3, Writing!FunctionObeys
<1>5. Page = Writing!Function(0)
  BY Zenon DEF Page, Writing!Function, Writing!Obeys, PageBody, Texts
<1> QED BY <1>4, <1>5

LEMMA PageStep ==
    ASSUME NEW s \in Seq(Chars), NEW c \in Chars
    PROVE  Page[Append(s, c)] = OnPage(Page[s], c)
<1>1. Append(s, c) \in Texts(0)
  BY AppendIs DEF Texts
<1>2. Page[Append(s, c)] = PageBody(Page, Append(s, c), 0)
  BY <1>1, PageObeys DEF Writing!Obeys
<1> QED BY <1>2, AppendIs DEF PageBody

LEMMA EmptyPage == Page[<<>>] = [lines |-> <<Blank>>, x |-> 0]
<1>1. <<>> \in Texts(0)
  BY DEF Texts
<1>2. Page[<<>>] = PageBody(Page, <<>>, 0)
  BY <1>1, PageObeys DEF Writing!Obeys
<1> QED BY <1>2 DEF PageBody

-----------------------------------------------------------------------------
(* What the screen shows of the lines of a page                             *)

\* The lines that have been scrolled out, and the screen.
Gone(lines) == Max({0, Len(lines) - SCREEN_HEIGHT})
View(lines) ==
    [y \in Rows |-> IF Gone(lines) + y + 1 \in DOMAIN lines
                    THEN lines[Gone(lines) + y + 1] ELSE Blank]

LEMMA BlankIsLine == Blank \in Line
BY DEF Blank, Line

LEMMA GoneIs ==
    ASSUME NEW lines \in Seq(Line)
    PROVE  /\ Gone(lines) \in Nat
           /\ Gone(lines) = IF Len(lines) > SCREEN_HEIGHT
                            THEN Len(lines) - SCREEN_HEIGHT ELSE 0
<1>1. PICK k \in Int : k = Len(lines) - SCREEN_HEIGHT
  <2>1. Len(lines) \in Nat /\ SCREEN_HEIGHT \in Nat
    BY Sizes
  <2>2. Len(lines) - SCREEN_HEIGHT \in Int
    BY <2>1
  <2> QED BY <2>2
<1>2. \E x \in {0, k} : \A y \in {0, k} : x >= y
  <2>1. 0 >= k \/ k >= 0
    OBVIOUS
  <2> QED BY <2>1
<1>3. Max({0, k}) \in {0, k} /\ \A y \in {0, k} : Max({0, k}) >= y
  BY <1>2 DEF Max
<1>4. Max({0, k}) = IF k > 0 THEN k ELSE 0
  BY <1>3
<1>5. SCREEN_HEIGHT \in Nat /\ Len(lines) \in Nat
  BY Sizes
<1> QED BY <1>1, <1>4, <1>5 DEF Gone

\* The last line is on the screen.
LEMMA LastLineShown ==
    ASSUME NEW lines \in Seq(Line), lines # <<>>
    PROVE  Len(lines) - 1 - Gone(lines) \in Rows
BY GoneIs, Sizes DEF Rows

\* A character in the last line is that character on the screen.
Printed(lines, x, c) == [lines EXCEPT ![Len(lines)][x] = c]

LEMMA PrintedShows ==
    ASSUME NEW lines \in Seq(Line), lines # <<>>, NEW x \in Columns, NEW c \in Printable
    PROVE  /\ Printed(lines, x, c) \in Seq(Line) /\ Len(Printed(lines, x, c)) = Len(lines)
           /\ View(Printed(lines, x, c)) = [View(lines) EXCEPT ![Len(lines) - 1 - Gone(lines)][x] = c]
<1> DEFINE n == Len(lines)
           l == [lines[n] EXCEPT ![x] = c]
           printed == [lines EXCEPT ![n] = l]
           row == n - 1 - Gone(lines)
<1>1. n \in 1 .. Len(lines) /\ lines[n] \in Line
  OBVIOUS
<1>2. l \in Line
  BY <1>1 DEF Line
<1>3. /\ printed \in Seq(Line) /\ Len(printed) = n
      /\ \A j \in 1 .. n : printed[j] = IF j = n THEN l ELSE lines[j]
  <2> HIDE DEF l
  <2> QED BY <1>1, <1>2, ExceptSeq
<1>4. printed = Printed(lines, x, c)
  BY DEF Printed
<1>5. row \in Rows /\ Gone(printed) = Gone(lines) /\ Gone(lines) \in Nat
      /\ DOMAIN lines = 1 .. n /\ DOMAIN printed = 1 .. n
  <2>1. row \in Rows /\ Gone(lines) \in Nat
    BY LastLineShown, GoneIs
  <2>2. Gone(printed) = Gone(lines)
    BY <1>3 DEF Gone
  <2>3. DOMAIN lines = 1 .. n /\ DOMAIN printed = 1 .. n
    <3> HIDE DEF printed
    <3> QED BY <1>3, LenProperties
  <2> QED BY <2>1, <2>2, <2>3
<1> HIDE DEF printed
<1>6. ASSUME NEW y \in Rows
      PROVE  View(printed)[y] = [View(lines) EXCEPT ![row] = l][y]
  <2>1. y \in Nat /\ Gone(lines) + y + 1 \in Nat /\ (y = row <=> Gone(lines) + y + 1 = n)
    BY <1>1, <1>5 DEF Rows
  <2>2. CASE y = row
    <3>1. View(printed)[y] = printed[n]
      BY <1>1, <1>5, <2>1, <2>2 DEF View
    <3>2. [View(lines) EXCEPT ![row] = l][y] = l
      BY <1>5, <2>2 DEF View
    <3> QED BY <1>1, <1>3, <3>1, <3>2
  <2>3. CASE y # row
    <3>1. [View(lines) EXCEPT ![row] = l][y] = View(lines)[y]
      BY <2>3 DEF View
    <3>2. Gone(lines) + y + 1 \in 1 .. n =>
             printed[Gone(lines) + y + 1] = lines[Gone(lines) + y + 1]
      BY <1>3, <2>1, <2>3
    <3> QED BY <1>5, <3>1, <3>2 DEF View
  <2> QED BY <2>2, <2>3
<1>7. View(lines)[row] = lines[n]
  <2>1. Gone(lines) + row + 1 = n
    BY <1>1, <1>5
  <2> QED BY <1>1, <1>5, <2>1 DEF View
<1>8. View(printed) = [View(lines) EXCEPT ![row] = l]
  <2> HIDE DEF row, l
  <2> QED BY <1>6 DEF View
<1>9. [View(lines) EXCEPT ![row][x] = c] = [View(lines) EXCEPT ![row] = l]
  BY <1>7
<1> HIDE DEF row, l
<1> QED BY <1>1, <1>3, <1>4, <1>8, <1>9 DEF row

\* A line more scrolls the screen when it was full, and not before.
LEMMA LineShows ==
    ASSUME NEW lines \in Seq(Line), lines # <<>>
    PROVE  LET more == Append(lines, Blank)
               row  == Len(lines) - Gone(lines)
           IN  /\ more \in Seq(Line) /\ Len(more) = Len(lines) + 1
               /\ row >= SCREEN_HEIGHT => /\ View(more) = Scrolled(View(lines), 1)
                                          /\ row - 1 = Len(lines) - Gone(more)
               /\ ~(row >= SCREEN_HEIGHT) => /\ View(more) = View(lines)
                                             /\ row = Len(lines) - Gone(more)
<1> DEFINE n == Len(lines)
           more == Append(lines, Blank)
           row  == n - Gone(lines)
<1>1. /\ more \in Seq(Line) /\ Len(more) = n + 1 /\ n \in Nat \ {0}
      /\ \A j \in 1 .. n : more[j] = lines[j]
      /\ more[n + 1] = Blank
  BY BlankIsLine, AppendProperties
<1>2. DOMAIN lines = 1 .. n /\ DOMAIN more = 1 .. n + 1
  <2> HIDE DEF more
  <2> QED BY <1>1, LenProperties
<1> HIDE DEF more
<1>3. /\ Gone(lines) = (IF n > SCREEN_HEIGHT THEN n - SCREEN_HEIGHT ELSE 0)
      /\ Gone(more) = (IF n + 1 > SCREEN_HEIGHT THEN n + 1 - SCREEN_HEIGHT ELSE 0)
      /\ SCREEN_HEIGHT \in Nat \ {0}
  BY <1>1, GoneIs, Sizes
<1>4. CASE row >= SCREEN_HEIGHT
  <2>1. n >= SCREEN_HEIGHT /\ Gone(more) = Gone(lines) + 1 /\ Gone(lines) \in Nat
        /\ row = SCREEN_HEIGHT /\ n = Gone(lines) + SCREEN_HEIGHT
    BY <1>1, <1>3, <1>4
  <2>2. ASSUME NEW y \in Rows PROVE View(more)[y] = Scrolled(View(lines), 1)[y]
    <3>1. y \in Nat /\ y < SCREEN_HEIGHT
      BY <1>3 DEF Rows
    <3>2. CASE y + 1 \in Rows
      <4>1. y + 1 < SCREEN_HEIGHT
        BY <1>3, <3>2 DEF Rows
      <4>2. Gone(more) + y + 1 = Gone(lines) + (y + 1) + 1
            /\ Gone(more) + y + 1 \in 1 .. n /\ Gone(more) + y + 1 \in 1 .. n + 1
        <5>1. PICK g \in Nat, m \in Nat, h \in Nat \ {0} :
                 g = Gone(lines) /\ m = n /\ h = SCREEN_HEIGHT
          BY <1>1, <1>3, <2>1
        <5>2. Gone(more) = g + 1 /\ m = g + h /\ y \in Nat /\ y + 1 < h
          BY <2>1, <3>1, <4>1, <5>1
        <5>3. (g + 1) + y + 1 = g + (y + 1) + 1
              /\ (g + 1) + y + 1 \in 1 .. m /\ (g + 1) + y + 1 \in 1 .. m + 1
          BY <5>2
        <5> QED BY <5>1, <5>2, <5>3
      <4>3. View(more)[y] = more[Gone(more) + y + 1]
        BY <1>2, <4>2 DEF View
      <4>4. Scrolled(View(lines), 1)[y] = View(lines)[y + 1]
        BY <3>2 DEF Scrolled
      <4>5. View(lines)[y + 1] = lines[Gone(lines) + (y + 1) + 1]
        BY <1>2, <3>2, <4>2 DEF View
      <4> QED BY <1>1, <4>2, <4>3, <4>4, <4>5
    <3>3. CASE y + 1 \notin Rows
      <4>1. y + 1 = SCREEN_HEIGHT
        BY <1>3, <3>1, <3>3 DEF Rows
      <4>2. Gone(more) + y + 1 = n + 1
        BY <1>1, <2>1, <3>1, <4>1
      <4>3. View(more)[y] = more[n + 1]
        BY <1>1, <1>2, <4>2 DEF View
      <4>4. Scrolled(View(lines), 1)[y] = Blank
        BY <3>3 DEF Scrolled
      <4> QED BY <1>1, <4>3, <4>4
    <3> QED BY <3>2, <3>3
  <2>3. View(more) = Scrolled(View(lines), 1)
    BY <2>2 DEF View, Scrolled
  <2>4. row - 1 = n - Gone(more)
    <3>1. PICK g \in Nat, h \in Nat \ {0} : g = Gone(lines) /\ h = SCREEN_HEIGHT
      BY <1>1, <1>3, <2>1
    <3>2. Gone(more) = g + 1 /\ n = g + h /\ row = h
      BY <2>1, <3>1
    <3>3. h - 1 = (g + h) - (g + 1)
      OBVIOUS
    <3> QED BY <3>2, <3>3
  <2> QED BY <1>1, <1>4, <2>3, <2>4 DEF more
<1>5. CASE ~(row >= SCREEN_HEIGHT)
  <2>1. n < SCREEN_HEIGHT /\ Gone(more) = 0 /\ Gone(lines) = 0
    BY <1>1, <1>3, <1>5
  <2>2. ASSUME NEW y \in Rows PROVE View(more)[y] = View(lines)[y]
    <3>1. y \in Nat
      BY DEF Rows
    <3>2. CASE y + 1 \in 1 .. n
      BY <1>1, <1>2, <2>1, <3>1, <3>2 DEF View
    <3>3. CASE y + 1 \notin 1 .. n
      <4>1. View(lines)[y] = Blank
        BY <1>2, <2>1, <3>1, <3>3 DEF View
      <4>2. y + 1 \in 1 .. n + 1 => y + 1 = n + 1
        BY <1>1, <3>1, <3>3
      <4>3. View(more)[y] = Blank
        BY <1>1, <1>2, <2>1, <3>1, <4>2 DEF View
      <4> QED BY <4>1, <4>3
    <3> QED BY <3>2, <3>3
  <2>3. View(more) = View(lines)
    BY <2>2 DEF View
  <2> QED BY <1>1, <1>3, <1>5, <2>1, <2>3 DEF more
<1> QED BY <1>4, <1>5

-----------------------------------------------------------------------------
(* Putting a character                                                     *)

\* The page goes on where the screen does.
PageGoesOn(page) ==
    page \in Pages /\ page.lines # <<>>

\* The screen, given the page.
Shows(page) ==
    /\ screen = View(page.lines)
    /\ screenX = page.x /\ screenY = Len(page.lines) - 1 - Gone(page.lines)
    /\ cursor = screenY * SCREEN_WIDTH + screenX

LEMMA OnPageIs ==
    ASSUME NEW page, NEW c
    PROVE  LET printed == [page.lines EXCEPT ![Len(page.lines)][page.x] = c]
           IN  /\ c = "\n" => OnPage(page, c) = [lines |-> Append(page.lines, Blank), x |-> 0]
               /\ c = "\r" => OnPage(page, c) = [lines |-> page.lines, x |-> 0]
               /\ c \notin {"\n", "\r"} => OnPage(page, c) =
                     IF page.x + 1 < SCREEN_WIDTH
                     THEN [lines |-> printed, x |-> page.x + 1]
                     ELSE [lines |-> Append(printed, Blank), x |-> 0]
BY Zenon DEF OnPage

LEMMA PutCharIs ==
    ASSUME NEW c, PutChar(c)
    PROVE  /\ c = "\n" => Settle(screen, 0, screenY + 1)
           /\ c = "\r" => Settle(screen, 0, screenY)
           /\ c \notin {"\n", "\r"} =>
                 Settle([screen EXCEPT ![screenY][screenX] = c], screenX + 1, screenY)
           /\ put' = Append(put, c)
BY Zenon DEF PutChar

\* A line is begun on the screen.
LEMMA SettleBelow ==
    ASSUME NEW lines \in Seq(Line), lines # <<>>, NEW x \in {0, SCREEN_WIDTH}, NEW y,
           y = Len(lines) - 1 - Gone(lines) + IF x = 0 THEN 1 ELSE 0,
           Settle(View(lines), x, y)
    PROVE  Shows([lines |-> Append(lines, Blank), x |-> 0])'
<1> DEFINE row == Len(lines) - Gone(lines)
           more == Append(lines, Blank)
<1>1. SCREEN_WIDTH \in Nat \ {0} /\ Len(lines) \in Nat /\ Gone(lines) \in Nat
  BY Sizes, GoneIs
<1>2. IF x >= SCREEN_WIDTH THEN y + 1 = row ELSE y = row
  BY <1>1
<1>3. screenX' = 0
  BY <1>1 DEF Settle
<1>4. IF row >= SCREEN_HEIGHT
      THEN screen' = Scrolled(View(lines), 1) /\ screenY' = row - 1
      ELSE screen' = View(lines) /\ screenY' = row
  BY <1>2 DEF Settle
<1>5. screen' = View(more) /\ screenY' = Len(more) - 1 - Gone(more)
  <2>1. more \in Seq(Line) /\ Len(more) = Len(lines) + 1
    BY LineShows
  <2>2. Len(more) - 1 - Gone(more) = Len(lines) - Gone(more)
    <3>1. Gone(more) \in Nat
      BY <2>1, GoneIs
    <3> HIDE DEF more
    <3> QED BY <1>1, <2>1, <3>1
  <2> QED BY <1>4, <2>2, LineShows
<1>6. cursor' = screenY' * SCREEN_WIDTH + screenX'
  BY DEF Settle
<1> HIDE DEF more
<1>7. PICK page : page = [lines |-> more, x |-> 0]
  OBVIOUS
<1>8. page.lines = more /\ page.x = 0
  BY <1>7
<1>9. Shows(page)'
  BY <1>3, <1>5, <1>6, <1>8 DEF Shows
<1> QED BY <1>7, <1>9 DEF more

\* A character is put on the page as it is on the screen.
LEMMA PutCharShows ==
    ASSUME NEW page, PageGoesOn(page), Shows(page), NEW c \in Chars, c # "\t", PutChar(c)
    PROVE  PageGoesOn(OnPage(page, c)) /\ Shows(OnPage(page, c))'
<1> DEFINE lines == page.lines
           printed == [lines EXCEPT ![Len(lines)][page.x] = c]
<1>1. lines \in Seq(Line) /\ lines # <<>> /\ page.x \in Columns /\ page.x \in Nat
  BY DEF PageGoesOn, Pages, Columns
<1>2. 0 \in Columns /\ SCREEN_WIDTH \in Nat \ {0}
  BY Sizes DEF Columns
<1>3. \A l \in Seq(Line), x \in Columns :
         l # <<>> => PageGoesOn([lines |-> l, x |-> x])
  BY DEF PageGoesOn, Pages
<1>4. screenY \in Rows
  BY <1>1, LastLineShown DEF Shows
<1>5. CASE c = "\n"
  <2>1. PageGoesOn([lines |-> Append(lines, Blank), x |-> 0])
    <3>1. Append(lines, Blank) \in Seq(Line) /\ Append(lines, Blank) # <<>>
      BY <1>1, BlankIsLine, AppendProperties
    <3> HIDE DEF lines
    <3> QED BY <1>2, <1>3, <3>1
  <2>2. Settle(View(lines), 0, screenY + 1)
    BY <1>5, PutCharIs DEF Shows
  <2>3. Shows([lines |-> Append(lines, Blank), x |-> 0])'
    <3>1. PICK x \in {0, SCREEN_WIDTH}, y \in {screenY + 1} : x = 0
      OBVIOUS
    <3>2. y = Len(lines) - 1 - Gone(lines) + IF x = 0 THEN 1 ELSE 0
      BY <3>1 DEF Shows
    <3> HIDE DEF lines
    <3>3. Settle(View(lines), x, y)
      BY <2>2, <3>1
    <3> QED BY <1>1, <3>2, <3>3, SettleBelow
  <2> QED BY <1>5, <2>1, <2>3, OnPageIs
<1>6. CASE c = "\r"
  <2>1. PageGoesOn([lines |-> lines, x |-> 0])
    <3> HIDE DEF lines
    <3> QED BY <1>1, <1>2, <1>3
  <2>2. Settle(View(lines), 0, screenY)
    BY <1>6, PutCharIs DEF Shows
  <2>3. screenX' = 0 /\ screen' = View(lines) /\ screenY' = screenY
        /\ cursor' = screenY' * SCREEN_WIDTH + screenX'
    BY <1>2, <1>4, <2>2, Sizes DEF Settle, Rows
  <2>4. Shows([lines |-> lines, x |-> 0])'
    BY <2>3 DEF Shows
  <2> QED BY <1>6, <2>1, <2>4, OnPageIs
<1>7. CASE c \notin {"\n", "\r"}
  <2>1. c \in Printable
    BY <1>7 DEF Chars
  <2>2. /\ printed \in Seq(Line) /\ Len(printed) = Len(lines)
        /\ View(printed) = [View(lines) EXCEPT ![screenY][screenX] = c]
    <3>1. screenY = Len(lines) - 1 - Gone(lines) /\ screenX = page.x
      BY DEF Shows
    <3>2. PICK l \in Seq(Line), x \in Columns, d \in Printable :
             l = lines /\ x = page.x /\ d = c /\ l # <<>>
      BY <1>1, <2>1
    <3>3. l # <<>>
      BY <3>2
    <3>4. Printed(l, x, d) = printed
      BY <3>2 DEF Printed
    <3> HIDE DEF printed, lines
    <3>5. /\ Printed(l, x, d) \in Seq(Line) /\ Len(Printed(l, x, d)) = Len(l)
          /\ View(Printed(l, x, d)) = [View(l) EXCEPT ![Len(l) - 1 - Gone(l)][x] = d]
      BY <3>3, PrintedShows
    <3> QED BY <3>1, <3>2, <3>5, <3>4
  <2>3. Settle(View(printed), screenX + 1, screenY)
    BY <1>7, <2>2, PutCharIs, SMTT(40) DEF Shows
  <2>4. printed # <<>>
    <3> HIDE DEF printed, lines
    <3> QED BY <1>1, <2>2, EmptySeq
  <2>5. CASE page.x + 1 < SCREEN_WIDTH
    <3>1. screenX' = page.x + 1 /\ screen' = View(printed) /\ screenY' = screenY
          /\ cursor' = screenY' * SCREEN_WIDTH + screenX'
      <4>1. screenX + 1 = page.x + 1
        BY DEF Shows
      <4> HIDE DEF printed, lines
      <4> QED BY <1>1, <1>2, <1>4, <2>3, <2>5, <4>1, Sizes DEF Settle, Rows
    <3>2. PageGoesOn([lines |-> printed, x |-> page.x + 1])
      <4>1. page.x + 1 \in Columns
        BY <1>1, <1>2, <2>5 DEF Columns
      <4> HIDE DEF printed
      <4> QED BY <1>3, <2>2, <2>4, <4>1
    <3>3. Len(printed) - 1 - Gone(printed) = screenY
      BY <2>2 DEF Shows, Gone
    <3>4. PICK next : next = [lines |-> printed, x |-> page.x + 1]
      OBVIOUS
    <3> HIDE DEF printed
    <3>5. next.lines = printed /\ next.x = page.x + 1
      BY <3>4
    <3>6. Shows(next)'
      BY <3>1, <3>3, <3>5 DEF Shows
    <3> QED BY <1>7, <2>5, <3>2, <3>4, <3>6, OnPageIs DEF printed
  <2>6. CASE ~(page.x + 1 < SCREEN_WIDTH)
    <3>1. PageGoesOn([lines |-> Append(printed, Blank), x |-> 0])
      <4> HIDE DEF printed
      <4>1. Append(printed, Blank) \in Seq(Line) /\ Append(printed, Blank) # <<>>
        BY <2>2, BlankIsLine, AppendProperties
      <4> QED BY <1>2, <1>3, <4>1
    <3>2. screenX + 1 = SCREEN_WIDTH
      BY <1>1, <1>2, <2>6 DEF Shows, Columns
    <3>3. Shows([lines |-> Append(printed, Blank), x |-> 0])'
      <4>1. PICK x \in {0, SCREEN_WIDTH}, y \in {screenY} : x = SCREEN_WIDTH
        OBVIOUS
      <4>2. screenY = Len(printed) - 1 - Gone(printed) /\ screenY \in Int
        BY <1>4, <2>2, Sizes DEF Shows, Gone, Rows
      <4> HIDE DEF printed
      <4>3. y = Len(printed) - 1 - Gone(printed) + IF x = 0 THEN 1 ELSE 0
        BY <1>2, <4>1, <4>2
      <4>4. Settle(View(printed), x, y)
        BY <2>3, <3>2, <4>1
      <4> QED BY <2>2, <2>4, <4>3, <4>4, SettleBelow
    <3> QED BY <1>7, <2>6, <3>1, <3>3, OnPageIs
  <2> QED BY <2>5, <2>6
<1> QED BY <1>5, <1>6, <1>7

-----------------------------------------------------------------------------
(* The console                                                             *)

Showing ==
    /\ put \in Seq(Chars) /\ tab \in {NO_TAB} \cup 0 .. 4
    /\ PageGoesOn(Page[put]) /\ Shows(Page[put])

LEMMA ShowingMeans == Showing => ConsoleTypeOK /\ ScreenShowsOutput
<1> SUFFICES ASSUME Showing PROVE ConsoleTypeOK /\ ScreenShowsOutput
  OBVIOUS
<1> DEFINE lines == Page[put].lines
<1>1. lines \in Seq(Line) /\ lines # <<>> /\ Page[put].x \in Columns
  BY DEF Showing, PageGoesOn, Pages
<1>2. View(lines) \in Screens
  <2> HIDE DEF lines
  <2>1. \A i \in DOMAIN lines : lines[i] \in Line
    BY <1>1, LenProperties, ElementOfSeq
  <2> QED BY <2>1, BlankIsLine DEF View, Screens, Line
<1>3. screenX \in Columns /\ screenY \in Rows
  BY <1>1, LastLineShown DEF Showing, Shows
<1>4. cursor \in Nat
  <2>1. PICK w \in Nat, y \in Nat, x \in Nat :
           w = SCREEN_WIDTH /\ y = screenY /\ x = screenX
    BY <1>3, Sizes DEF Columns, Rows
  <2>2. y * w + x \in Nat
    OBVIOUS
  <2> QED BY <2>1, <2>2 DEF Showing, Shows
<1>5. ConsoleTypeOK
  BY <1>2, <1>3, <1>4 DEF ConsoleTypeOK, Showing, Shows
<1>6. ScreenShowsOutput
  BY Zenon DEF ScreenShowsOutput, Showing, Shows, View, Gone
<1> QED BY <1>5, <1>6

Cleared ==
    /\ screen = BlankScreen /\ screenX = 0 /\ screenY = 0 /\ cursor = 0 /\ put = <<>>
    /\ tab \in {NO_TAB} \cup 0 .. 4

LEMMA TabTypes == NO_TAB \in {NO_TAB} \cup 0 .. 4 /\ 0 \in {NO_TAB} \cup 0 .. 4
OBVIOUS

LEMMA ClearedShows == Cleared => Showing
<1> SUFFICES ASSUME Cleared PROVE Showing
  OBVIOUS
<1>1. <<Blank>> \in Seq(Line) /\ Len(<<Blank>>) = 1 /\ <<Blank>> # <<>>
      /\ 0 \in Columns /\ <<Blank>>[1] = Blank
  BY BlankIsLine, Sizes DEF Columns
<1>2. PICK lines \in Seq(Line) : lines = <<Blank>>
  BY <1>1
<1>3. Gone(lines) = 0
  <2>1. Len(lines) = 1
    BY <1>1, <1>2
  <2>2. ~(1 > SCREEN_HEIGHT)
    BY Sizes
  <2>3. Gone(lines) = IF Len(lines) > SCREEN_HEIGHT
                      THEN Len(lines) - SCREEN_HEIGHT ELSE 0
    BY GoneIs
  <2> QED BY <2>1, <2>2, <2>3
<1>4. View(lines) = BlankScreen
  <2>1. DOMAIN lines = 1 .. 1 /\ lines[1] = Blank
    BY <1>1, <1>2, LenProperties
  <2>2. ASSUME NEW y \in Rows PROVE View(lines)[y] = Blank
    BY <1>3, <2>1 DEF View, Rows
  <2> QED BY <2>2 DEF View, BlankScreen
<1>5. PICK page : page = [lines |-> lines, x |-> 0]
  OBVIOUS
<1>6. page.lines = lines /\ page.x = 0 /\ page \in Pages
  BY <1>1, <1>5 DEF Pages
<1>7. Page[put] = page
  BY <1>2, <1>5, EmptyPage DEF Cleared
<1>8. Shows(page)
  <2>1. Len(lines) - 1 - Gone(lines) = 0 /\ 0 * SCREEN_WIDTH + 0 = 0
    BY <1>1, <1>2, <1>3, Sizes
  <2> QED BY <1>4, <1>6, <2>1 DEF Shows, Cleared
<1>9. PageGoesOn(page) /\ put \in Seq(Chars) /\ tab \in {NO_TAB} \cup 0 .. 4
  BY <1>1, <1>2, <1>6 DEF PageGoesOn, Cleared
<1> QED BY <1>7, <1>8, <1>9 DEF Showing

LEMMA PutCharKeeps ==
    ASSUME Showing, NEW c \in Chars, c # "\t", PutChar(c),
           tab' \in {NO_TAB} \cup 0 .. 4
    PROVE  Showing'
<1>1. put' = Append(put, c) /\ put \in Seq(Chars)
  BY PutCharIs DEF Showing
<1>2. PICK page : page = Page[put]
  OBVIOUS
<1>3. PageGoesOn(OnPage(page, c)) /\ Shows(OnPage(page, c))'
  BY <1>2, PutCharShows DEF Showing
<1>4. put' \in Seq(Chars) /\ Page[put'] = OnPage(page, c)
  BY <1>1, <1>2, PageStep, AppendProperties
<1> QED BY <1>3, <1>4 DEF Showing

-----------------------------------------------------------------------------
(* Numbers                                                                 *)

LEMMA NumberSizes ==
    /\ WORD \in Nat \ {0, 1} /\ LONG_WORD \in Nat \ {0, 1} /\ WORD <= LONG_WORD
    /\ Words \subseteq 0 .. WORD - 1 /\ LongWords \subseteq 0 .. LONG_WORD - 1
BY PrintfAssumption

LEMMA HexCharsArePrintable ==
    ASSUME NEW i \in 1 .. 16
    PROVE  HexChars[i] \in Printable
<1>1. {HexChars[j] : j \in 1 .. 16} \subseteq Printable
  BY PrintfAssumption, Zenon
<1> QED BY <1>1

LEMMA Remainders ==
    ASSUME NEW n \in Nat, NEW r \in Radixes
    PROVE  /\ n \div r \in Nat /\ n % r \in 0 .. r - 1
           /\ n = (n \div r) * r + (n % r)
           /\ n >= r => n \div r < n /\ n \div r >= 1 /\ n \div r + 1 <= n
           /\ n < r => n \div r = 0 /\ n % r = n
BY DEF Radixes

Numbers(p) == 0 .. LONG_WORD
Self(n)    == n

DigitsBody(buffer, n, radix) ==
    IF n < radix THEN <<HexChars[n + 1]>>
    ELSE Append(buffer[n \div radix], HexChars[(n % radix) + 1])

Counting == INSTANCE Recursion WITH
    Arguments <- Numbers, Rank <- Self, Body <- DigitsBody

LEMMA DigitsStep ==
    ASSUME NEW r \in Radixes, NEW n \in 0 .. LONG_WORD
    PROVE  Digits(n, r) = IF n < r THEN <<HexChars[n + 1]>>
                          ELSE Append(Digits(n \div r, r), HexChars[(n % r) + 1])
<1>1. ASSUME NEW k \in Numbers(r), NEW f, NEW g, Counting!AgreeBelow(f, g, k, r)
      PROVE  DigitsBody(f, k, r) = DigitsBody(g, k, r)
  <2>1. CASE k < r
    BY <2>1 DEF DigitsBody
  <2>2. CASE ~(k < r)
    <3>1. k \in Nat /\ k <= LONG_WORD /\ LONG_WORD \in Nat /\ k >= r
      BY <2>2, NumberSizes DEF Numbers, Radixes
    <3>2. k \div r \in Numbers(r) /\ k \div r < k
      BY <3>1, Remainders DEF Numbers
    <3>3. f[k \div r] = g[k \div r]
      BY <1>1, <3>2 DEF Counting!AgreeBelow, Self
    <3> QED BY <3>3 DEF DigitsBody
  <2> QED BY <2>1, <2>2
<1>2. \A k \in Numbers(r) : Self(k) \in Nat
  BY NumberSizes DEF Numbers, Self
<1>3. Counting!LooksBelow(r)
  BY <1>1, <1>2, Zenon DEF Counting!LooksBelow
<1>4. Counting!Obeys(Counting!Function(r), r)
  BY <1>3, Counting!FunctionObeys
<1>5. \A k : Digits(k, r) = Counting!Function(r)[k]
  BY Zenon DEF Digits, Counting!Function, Counting!Obeys, DigitsBody, Numbers
<1>6. n \in Numbers(r)
  BY DEF Numbers
<1>7. Counting!Function(r)[n] = DigitsBody(Counting!Function(r), n, r)
  BY <1>4, <1>6 DEF Counting!Obeys
<1> QED BY <1>5, <1>7 DEF DigitsBody

PowerBody(power, k, radix) == IF k = 0 THEN 1 ELSE radix * power[k - 1]

Powers == INSTANCE Recursion WITH
    Arguments <- Numbers, Rank <- Self, Body <- PowerBody

Power(r) == Powers!Function(r)

\* d is the number of digits of n.
HasDigits(n, r, d) ==
    /\ d \in 1 .. LONG_WORD
    /\ n < Power(r)[d]
    /\ d = 1 \/ n >= Power(r)[d - 1]

Numerals(n, r, d) == [i \in 1 .. d |-> HexChars[((n \div Power(r)[d - i]) % r) + 1]]

LEMMA NumeralIs ==
    ASSUME NEW n, NEW r
    PROVE  Numeral(n, r) =
              Numerals(n, r, CHOOSE d \in 1 .. LONG_WORD :
                                n < Power(r)[d] /\ (d = 1 \/ n >= Power(r)[d - 1]))
BY Zenon DEF Numeral, Numerals, Power, Powers!Function, Powers!Obeys, PowerBody, Numbers

LEMMA PowerStep ==
    ASSUME NEW r \in Radixes, NEW k \in 0 .. LONG_WORD
    PROVE  Power(r)[k] = IF k = 0 THEN 1 ELSE r * Power(r)[k - 1]
<1>1. ASSUME NEW j \in Numbers(r), NEW f, NEW g, Powers!AgreeBelow(f, g, j, r)
      PROVE  PowerBody(f, j, r) = PowerBody(g, j, r)
  <2>1. CASE j = 0
    BY <2>1 DEF PowerBody
  <2>2. CASE j # 0
    <3>1. j - 1 \in Numbers(r) /\ j - 1 < j
      BY <2>2, NumberSizes DEF Numbers
    <3>2. f[j - 1] = g[j - 1]
      BY <1>1, <3>1 DEF Powers!AgreeBelow, Self
    <3> QED BY <3>2 DEF PowerBody
  <2> QED BY <2>1, <2>2
<1>2. \A j \in Numbers(r) : Self(j) \in Nat
  BY NumberSizes DEF Numbers, Self
<1>3. Powers!LooksBelow(r)
  BY <1>1, <1>2, Zenon DEF Powers!LooksBelow
<1>4. Powers!Obeys(Power(r), r)
  BY <1>3, Powers!FunctionObeys DEF Power
<1>5. k \in Numbers(r)
  BY DEF Numbers
<1>6. Power(r)[k] = PowerBody(Power(r), k, r)
  BY <1>4, <1>5 DEF Powers!Obeys
<1> QED BY <1>6 DEF PowerBody

LEMMA PowersAreNumbers ==
    ASSUME NEW r \in Radixes, NEW k \in 0 .. LONG_WORD
    PROVE  Power(r)[k] \in Nat \ {0}
<1> DEFINE S == {j \in Nat : j <= LONG_WORD => Power(r)[j] \in Nat \ {0}}
<1>1. 0 \in S
  BY PowerStep, NumberSizes
<1>2. ASSUME NEW j \in Nat, j \in S PROVE j + 1 \in S
  <2> SUFFICES ASSUME j + 1 <= LONG_WORD PROVE Power(r)[j + 1] \in Nat \ {0}
    OBVIOUS
  <2>1. j \in 0 .. LONG_WORD /\ j + 1 \in 0 .. LONG_WORD /\ j + 1 # 0 /\ (j + 1) - 1 = j
    BY NumberSizes
  <2>2. Power(r)[j] \in Nat \ {0}
    BY <1>2, <2>1
  <2>3. Power(r)[j + 1] = r * Power(r)[j]
    BY <2>1, PowerStep
  <2> QED BY <2>2, <2>3 DEF Radixes
<1> HIDE DEF S
<1>3. k \in S
  <2>1. k \in Nat
    BY NumberSizes
  <2> QED BY <1>1, <1>2, <2>1, Powers!SetInduction
<1> QED BY <1>3, NumberSizes DEF S

LEMMA PowersGrow ==
    ASSUME NEW r \in Radixes, NEW j \in 0 .. LONG_WORD, NEW k \in 0 .. LONG_WORD, j <= k
    PROVE  Power(r)[j] <= Power(r)[k]
<1> DEFINE S == {i \in Nat : j <= i /\ i <= LONG_WORD => Power(r)[j] <= Power(r)[i]}
<1>1. Power(r)[j] \in Nat
  BY PowersAreNumbers
<1>2. 0 \in S
  BY <1>1, NumberSizes
<1>3. ASSUME NEW i \in Nat, i \in S PROVE i + 1 \in S
  <2> SUFFICES ASSUME j <= i + 1, i + 1 <= LONG_WORD PROVE Power(r)[j] <= Power(r)[i + 1]
    OBVIOUS
  <2>1. CASE j = i + 1
    BY <1>1, <2>1
  <2>2. CASE j # i + 1
    <3>1. i \in 0 .. LONG_WORD /\ i + 1 \in 0 .. LONG_WORD /\ i + 1 # 0 /\ (i + 1) - 1 = i
          /\ j <= i
      BY <2>2, NumberSizes
    <3>2. Power(r)[j] <= Power(r)[i] /\ Power(r)[i] \in Nat
      BY <1>3, <3>1, PowersAreNumbers
    <3>3. Power(r)[i + 1] = r * Power(r)[i]
      BY <3>1, PowerStep
    <3> QED BY <1>1, <3>2, <3>3 DEF Radixes
  <2> QED BY <2>1, <2>2
<1> HIDE DEF S
<1>4. k \in S
  <2>1. k \in Nat
    BY NumberSizes
  <2> QED BY <1>2, <1>3, <2>1, Powers!SetInduction
<1> QED BY <1>4, NumberSizes DEF S

LEMMA OneNumberOfDigits ==
    ASSUME NEW n \in Nat, NEW r \in Radixes, NEW d, NEW e, HasDigits(n, r, d), HasDigits(n, r, e)
    PROVE  d = e
<1>1. ASSUME NEW i, NEW j, HasDigits(n, r, i), HasDigits(n, r, j), i < j PROVE FALSE
  <2>1. /\ i \in 0 .. LONG_WORD /\ j - 1 \in 0 .. LONG_WORD /\ j # 1
        /\ i <= j - 1
    BY <1>1, NumberSizes DEF HasDigits
  <2>2. Power(r)[i] <= Power(r)[j - 1]
    BY <2>1, PowersGrow
  <2>3. n < Power(r)[i] /\ n >= Power(r)[j - 1]
    BY <1>1, <2>1 DEF HasDigits
  <2>4. Power(r)[i] \in Nat /\ Power(r)[j - 1] \in Nat
    BY <2>1, PowersAreNumbers
  <2> QED BY <2>2, <2>3, <2>4
<1>2. d \in Nat /\ e \in Nat
  BY NumberSizes DEF HasDigits
<1>3. ~(d < e) /\ ~(e < d)
  BY <1>1
<1> QED BY <1>2, <1>3

LEMMA QuotientIs ==
    ASSUME NEW n \in Nat, NEW w \in Nat \ {0}, NEW t \in Nat, NEW u \in Nat,
           n = t * w + u, u < w
    PROVE  n \div w = t
<1>1. PICK q \in Nat, m \in Nat : q = n \div w /\ m < w /\ n = q * w + m
  <2>1. n \div w \in Nat /\ n % w \in 0 .. w - 1 /\ n = (n \div w) * w + (n % w)
    BY SMT
  <2> QED BY <2>1
<1>2. q * w + m = t * w + u
  BY <1>1
<1>3. ASSUME q < t PROVE FALSE
  <2>1. PICK k \in Nat : t = q + 1 + k
    <3>1. t - q - 1 \in Nat /\ t = q + 1 + (t - q - 1)
      BY <1>3
    <3> QED BY <3>1
  <2>2. (q + 1 + k) * w = q * w + w + k * w /\ k * w \in Nat /\ q * w \in Nat
    OBVIOUS
  <2> QED BY <1>1, <1>2, <2>1, <2>2
<1>4. ASSUME t < q PROVE FALSE
  <2>1. PICK k \in Nat : q = t + 1 + k
    <3>1. q - t - 1 \in Nat /\ q = t + 1 + (q - t - 1)
      BY <1>4
    <3> QED BY <3>1
  <2>2. (t + 1 + k) * w = t * w + w + k * w /\ k * w \in Nat /\ t * w \in Nat
    OBVIOUS
  <2> QED BY <1>1, <1>2, <2>1, <2>2
<1> QED BY <1>1, <1>3, <1>4

LEMMA DivideTwice ==
    ASSUME NEW n \in Nat, NEW r \in Radixes, NEW p \in Nat \ {0}
    PROVE  n \div (r * p) = (n \div r) \div p
<1>1. PICK q \in Nat, m \in Nat : q = n \div r /\ m < r /\ n = q * r + m
  <2>1. n \div r \in Nat /\ n % r \in 0 .. r - 1 /\ n = (n \div r) * r + (n % r)
    BY Remainders
  <2>2. n % r \in Nat /\ n % r < r
    BY <2>1 DEF Radixes
  <2> QED BY <2>1, <2>2
<1>2. PICK t \in Nat, s \in Nat : t = q \div p /\ s < p /\ q = t * p + s
  <2>1. q \div p \in Nat /\ q % p \in 0 .. p - 1 /\ q = (q \div p) * p + (q % p)
    BY SMT
  <2> QED BY <2>1
<1>3. PICK w \in Nat \ {0} : w = r * p
  BY DEF Radixes
<1>4. n = t * w + (s * r + m) /\ s * r + m \in Nat
  <2>1. PICK tp \in Nat : tp = t * p
    OBVIOUS
  <2>2. t * w = tp * r
    BY <1>3, <2>1 DEF Radixes
  <2>3. q = tp + s
    BY <1>2, <2>1
  <2> QED BY <1>1, <2>2, <2>3 DEF Radixes
<1>5. s * r + m < w
  BY <1>1, <1>2, <1>3 DEF Radixes
<1>6. n \div w = t
  <2>1. PICK u \in Nat : u = s * r + m
    BY <1>4
  <2> QED BY <1>4, <1>5, <2>1, QuotientIs
<1> QED BY <1>1, <1>2, <1>3, <1>6

\* A digit more.
LEMMA NumeralsStep ==
    ASSUME NEW n \in 0 .. LONG_WORD, NEW r \in Radixes, n >= r,
           NEW d \in Nat, d <= n, n < LONG_WORD, HasDigits(n \div r, r, d)
    PROVE  /\ HasDigits(n, r, d + 1)
           /\ Append(Numerals(n \div r, r, d), HexChars[(n % r) + 1])
                 = Numerals(n, r, d + 1)
<1>1. PICK q \in Nat, m \in Nat : /\ q = n \div r /\ m = n % r
                                   /\ m < r /\ n = q * r + m
  <2>1. n \in Nat
    BY NumberSizes
  <2>2. n \div r \in Nat /\ n % r \in 0 .. r - 1 /\ n = (n \div r) * r + (n % r)
    BY <2>1, Remainders
  <2>3. n % r \in Nat /\ n % r < r
    BY <2>2 DEF Radixes
  <2> QED BY <2>2, <2>3
<1>2. /\ d \in 1 .. LONG_WORD /\ d + 1 \in 1 .. LONG_WORD /\ d \in 0 .. LONG_WORD
      /\ d + 1 \in 0 .. LONG_WORD /\ (d + 1) - 1 = d /\ d + 1 # 0 /\ d + 1 # 1
      /\ d - 1 \in 0 .. LONG_WORD /\ d # 0 /\ n \in Nat
  BY NumberSizes DEF HasDigits
<1>3. Power(r)[d] \in Nat /\ Power(r)[d - 1] \in Nat
  BY <1>2, PowersAreNumbers
<1>4. Power(r)[d + 1] = r * Power(r)[d] /\ Power(r)[d] = r * Power(r)[d - 1]
  BY <1>2, PowerStep
<1>5. n < Power(r)[d + 1]
  <2>1. q < Power(r)[d]
    BY <1>1 DEF HasDigits
  <2>2. PICK p \in Nat : p = Power(r)[d] /\ q + 1 <= p
    BY <1>3, <2>1
  <2>3. n < r * p
    BY <1>1, <2>2 DEF Radixes
  <2> QED BY <1>4, <2>2, <2>3
<1>6. n >= Power(r)[d]
  <2>1. CASE d = 1
    <3>1. Power(r)[0] = 1
      BY PowerStep, NumberSizes
    <3>2. Power(r)[d] = r
      BY <1>4, <2>1, <3>1 DEF Radixes
    <3> QED BY <3>2
  <2>2. CASE d # 1
    <3>1. PICK p \in Nat : p = Power(r)[d - 1] /\ q >= p
      BY <1>1, <1>3, <2>2 DEF HasDigits
    <3>2. n >= r * p
      BY <1>1, <3>1 DEF Radixes
    <3> QED BY <1>4, <3>1, <3>2
  <2> QED BY <2>1, <2>2
<1>7. HasDigits(n, r, d + 1)
  BY <1>2, <1>5, <1>6 DEF HasDigits
<1> DEFINE more == Numerals(n, r, d + 1)
           most == Numerals(q, r, d)
           c == HexChars[m + 1]
<1>8. ASSUME NEW i \in 1 .. d PROVE more[i] = most[i]
  <2>1. d - i \in 0 .. LONG_WORD /\ d + 1 - i \in 0 .. LONG_WORD /\ d + 1 - i # 0
        /\ (d + 1 - i) - 1 = d - i /\ i \in 1 .. d + 1
    BY <1>2, NumberSizes
  <2>2. Power(r)[d + 1 - i] = r * Power(r)[d - i] /\ Power(r)[d - i] \in Nat \ {0}
    BY <2>1, PowerStep, PowersAreNumbers
  <2>3. n \div (r * Power(r)[d - i]) = (n \div r) \div Power(r)[d - i]
    BY <1>2, <2>2, DivideTwice
  <2>4. n \div Power(r)[d + 1 - i] = q \div Power(r)[d - i]
    BY <1>1, <2>2, <2>3
  <2>5. more[i] = HexChars[((n \div Power(r)[d + 1 - i]) % r) + 1]
    BY <2>1 DEF Numerals
  <2>6. most[i] = HexChars[((q \div Power(r)[d - i]) % r) + 1]
    BY DEF Numerals
  <2> QED BY <2>4, <2>5, <2>6
<1>9. more[d + 1] = c
  <2>1. Power(r)[0] = 1
    BY PowerStep, NumberSizes
  <2>2. (d + 1) - (d + 1) = 0 /\ d + 1 \in 1 .. d + 1
    BY <1>2
  <2>3. more[d + 1] = HexChars[((n \div Power(r)[0]) % r) + 1]
    BY <2>2 DEF Numerals
  <2>4. n \div 1 = n
    BY <1>2
  <2> QED BY <1>1, <2>1, <2>3, <2>4
<1>10. more \in [1 .. d + 1 -> Printable] /\ most \in [1 .. d -> Printable] /\ c \in Printable
  <2>1. \A k \in Nat : HexChars[(k % r) + 1] \in Printable
    <3> SUFFICES ASSUME NEW k \in Nat PROVE HexChars[(k % r) + 1] \in Printable
      OBVIOUS
    <3>1. (k % r) + 1 \in 1 .. 16
      BY Remainders DEF Radixes
    <3> QED BY <3>1, HexCharsArePrintable
  <2>2. \A i \in 0 .. LONG_WORD, k \in Nat : k \div Power(r)[i] \in Nat
    <3> SUFFICES ASSUME NEW i \in 0 .. LONG_WORD, NEW k \in Nat
                 PROVE  k \div Power(r)[i] \in Nat
      OBVIOUS
    <3>1. PICK p \in Nat \ {0} : p = Power(r)[i]
      BY PowersAreNumbers
    <3> QED BY <3>1
  <2>3. \A i \in 1 .. d + 1 : d + 1 - i \in 0 .. LONG_WORD
    BY <1>2, NumberSizes
  <2>4. \A i \in 1 .. d : d - i \in 0 .. LONG_WORD
    BY <1>2, NumberSizes
  <2>5. c \in Printable
    <3>1. m + 1 \in 1 .. 16
      BY <1>1 DEF Radixes
    <3> QED BY <3>1, HexCharsArePrintable
  <2>6. more \in [1 .. d + 1 -> Printable]
    BY <1>2, <2>1, <2>2, <2>3, SMTT(40) DEF Numerals
  <2>7. most \in [1 .. d -> Printable]
    BY <1>1, <2>1, <2>2, <2>4 DEF Numerals
  <2> QED BY <2>5, <2>6, <2>7
<1> HIDE DEF more, most, c
<1>11. Append(most, c) = more
  <2>1. most \in Seq(Printable) /\ Len(most) = d
    BY <1>10
  <2>2. more \in Seq(Printable) /\ Len(more) = d + 1
    BY <1>10
  <2>3. /\ Append(most, c) \in Seq(Printable) /\ Len(Append(most, c)) = d + 1
        /\ \A i \in 1 .. d : Append(most, c)[i] = most[i]
        /\ Append(most, c)[d + 1] = c
    BY <1>10, <2>1, AppendProperties
  <2>4. \A i \in 1 .. d + 1 : Append(most, c)[i] = more[i]
    BY <1>8, <1>9, <2>3
  <2> QED BY <2>2, <2>3, <2>4, SeqEqual
<1> QED BY <1>1, <1>7, <1>11 DEF more, most, c

\* The remainders, the last one first, are the digits.
LEMMA DigitsAreNumerals ==
    ASSUME NEW r \in Radixes, NEW n \in 0 .. LONG_WORD - 1
    PROVE  \E d \in Nat : d <= n + 1 /\ HasDigits(n, r, d) /\ Digits(n, r) = Numerals(n, r, d)
<1> DEFINE Known(k) == \E d \in Nat : /\ d <= k + 1 /\ HasDigits(k, r, d)
                                      /\ Digits(k, r) = Numerals(k, r, d)
           T == {k \in 0 .. LONG_WORD - 1 : ~Known(k)}
<1>1. LONG_WORD \in Nat \ {0, 1} /\ r \in Nat /\ r > 1
  BY NumberSizes DEF Radixes
<1>2. ASSUME NEW k \in T, \A j \in T : k <= j PROVE FALSE
  <2>1. k \in Nat /\ k < LONG_WORD /\ ~Known(k) /\ k \in 0 .. LONG_WORD
    BY <1>1
  <2>2. CASE k < r
    <3>1. Digits(k, r) = <<HexChars[k + 1]>>
      BY <2>1, <2>2, DigitsStep
    <3>2. Power(r)[0] = 1 /\ Power(r)[1] = r
      <4>1. Power(r)[0] = 1
        BY <1>1, PowerStep
      <4>2. 1 \in 0 .. LONG_WORD /\ 1 - 1 = 0
        BY <1>1
      <4>3. Power(r)[1] = r * Power(r)[0]
        BY <4>2, PowerStep
      <4> QED BY <1>1, <4>1, <4>3
    <3>3. HasDigits(k, r, 1)
      BY <1>1, <2>2, <3>2 DEF HasDigits
    <3>4. Numerals(k, r, 1) = <<HexChars[k + 1]>>
      <4>1. ASSUME NEW i \in 1 .. 1
            PROVE  ((k \div Power(r)[1 - i]) % r) + 1 = k + 1
        <5>1. Power(r)[1 - i] = 1
          BY <3>2
        <5>2. k \div 1 = k /\ k % r = k
          BY <2>1, <2>2, Remainders
        <5> QED BY <5>1, <5>2
      <4>2. Numerals(k, r, 1) = [i \in 1 .. 1 |-> HexChars[k + 1]]
        BY <4>1 DEF Numerals
      <4> QED BY <4>2
    <3>5. Known(k)
      <4>1. 1 \in Nat /\ 1 <= k + 1
        BY <2>1
      <4>2. Digits(k, r) = Numerals(k, r, 1)
        BY <3>1, <3>4
      <4> QED BY <3>3, <4>1, <4>2
    <3> HIDE DEF Known
    <3> QED BY <2>1, <3>5
  <2>3. CASE ~(k < r)
    <3>1. PICK q \in Nat : q = k \div r /\ q < k /\ q + 1 <= k
      <4>1. PICK j \in Nat : j = k
        BY <2>1
      <4>2. j >= r
        BY <1>1, <2>3, <4>1
      <4>3. j \div r \in Nat /\ j \div r < j /\ j \div r + 1 <= j
        BY <4>2, Remainders
      <4> QED BY <4>1, <4>3
    <3>2. q \in 0 .. LONG_WORD - 1 /\ q \notin T
      BY <1>1, <1>2, <2>1, <3>1
    <3>3. PICK d \in Nat : /\ d <= q + 1 /\ HasDigits(q, r, d)
                           /\ Digits(q, r) = Numerals(q, r, d)
      BY <3>2
    <3>4. Digits(k, r) = Append(Digits(q, r), HexChars[(k % r) + 1])
      BY <2>1, <2>3, <3>1, DigitsStep
    <3>5. d <= k /\ k >= r
      BY <1>1, <2>1, <2>3, <3>1, <3>3
    <3>6. HasDigits(k, r, d + 1) /\ Digits(k, r) = Numerals(k, r, d + 1)
      BY <2>1, <3>1, <3>3, <3>4, <3>5, NumeralsStep
    <3>7. Known(k)
      <4>1. d + 1 \in Nat /\ d + 1 <= k + 1
        BY <2>1, <3>5
      <4> QED BY <3>6, <4>1
    <3> HIDE DEF Known
    <3> QED BY <2>1, <3>7
  <2> QED BY <2>2, <2>3
<1>3. T \subseteq Nat
  BY <1>1
<1> HIDE DEF T
<1>4. T = {}
  BY <1>2, <1>3, Powers!LeastNatural
<1>5. Known(n)
  <2> HIDE DEF Known
  <2> QED BY <1>4 DEF T
<1> QED BY <1>5

LEMMA DigitsAreNumeral ==
    ASSUME NEW r \in Radixes, NEW n \in 0 .. LONG_WORD - 1
    PROVE  Digits(n, r) = Numeral(n, r)
<1>1. PICK d \in Nat : HasDigits(n, r, d) /\ Digits(n, r) = Numerals(n, r, d)
  BY DigitsAreNumerals
<1> DEFINE e == CHOOSE k \in 1 .. LONG_WORD :
                   n < Power(r)[k] /\ (k = 1 \/ n >= Power(r)[k - 1])
<1>2. d \in 1 .. LONG_WORD /\ n < Power(r)[d] /\ (d = 1 \/ n >= Power(r)[d - 1])
  BY <1>1 DEF HasDigits
<1>3. e \in 1 .. LONG_WORD /\ n < Power(r)[e] /\ (e = 1 \/ n >= Power(r)[e - 1])
  BY <1>2, Zenon
<1> HIDE DEF e
<1>4. HasDigits(n, r, e)
  BY <1>3 DEF HasDigits
<1>5. n \in Nat
  BY NumberSizes
<1>6. d = e
  BY <1>1, <1>4, <1>5, OneNumberOfDigits
<1>7. Numeral(n, r) = Numerals(n, r, e)
  BY NumeralIs, Zenon DEF e
<1> QED BY <1>1, <1>6, <1>7

\* They are characters of the table, and no others.
LEMMA DigitsType ==
    ASSUME NEW r \in Radixes, NEW n \in 0 .. LONG_WORD - 1
    PROVE  Digits(n, r) \in Seq(Printable)
<1>1. PICK d \in Nat : HasDigits(n, r, d) /\ Digits(n, r) = Numerals(n, r, d)
  BY DigitsAreNumerals
<1>2. ASSUME NEW i \in 1 .. d
      PROVE  HexChars[((n \div Power(r)[d - i]) % r) + 1] \in Printable
  <2>1. d - i \in 0 .. LONG_WORD
    BY <1>1, NumberSizes DEF HasDigits
  <2>2. PICK p \in Nat \ {0} : p = Power(r)[d - i]
    BY <2>1, PowersAreNumbers
  <2>3. n \div p \in Nat
    BY NumberSizes
  <2>4. ((n \div p) % r) + 1 \in 1 .. 16
    BY <2>3, Remainders DEF Radixes
  <2> QED BY <2>2, <2>4, HexCharsArePrintable
<1>3. Numerals(n, r, d) \in [1 .. d -> Printable]
  BY <1>2 DEF Numerals
<1>4. \A s \in [1 .. d -> Printable] : s \in Seq(Printable)
  OBVIOUS
<1> QED BY <1>1, <1>3, <1>4

-----------------------------------------------------------------------------
(* Formats                                                                 *)

StartsWith(t, s) == Len(s) <= Len(t) /\ \A i \in 1 .. Len(s) : s[i] = t[i]

LEMMA PrefixIs ==
    ASSUME NEW S, NEW s \in Seq(S), NEW t \in Seq(S)
    PROVE  IsPrefix(s, t) <=> StartsWith(t, s)
<1>1. SubSeq(s, 1, Len(s)) = s
  BY SubSeqFull
<1>2. CASE Len(s) <= Len(t)
  <2>1. PICK n \in Nat : n = Len(s) /\ n <= Len(t)
    BY <1>2, LenProperties
  <2>2. \A i \in 1 .. n : t[i] \in S
    BY <2>1, ElementOfSeq, LenProperties
  <2>3. /\ SubSeq(t, 1, n) \in Seq(S) /\ Len(SubSeq(t, 1, n)) = n
        /\ \A i \in 1 .. n : SubSeq(t, 1, n)[i] = t[i]
    <3>1. /\ SubSeq(t, 1, n) \in Seq(S)
          /\ Len(SubSeq(t, 1, n)) = IF 1 <= n THEN n - 1 + 1 ELSE 0
          /\ \A i \in 1 .. n - 1 + 1 : SubSeq(t, 1, n)[i] = t[1 + i - 1]
      BY <2>2, SubSeqProperties
    <3> QED BY <3>1
  <2>4. (s = SubSeq(t, 1, n)) <=> \A i \in 1 .. n : s[i] = t[i]
    BY <2>1, <2>3, SeqEqual
  <2> QED BY <1>1, <1>2, <2>1, <2>4 DEF IsPrefix, StartsWith
<1>3. CASE ~(Len(s) <= Len(t))
  BY <1>3 DEF IsPrefix, StartsWith
<1> QED BY <1>2, <1>3

\* The length of the longest modifier a text begins with.
Longest(text) == Max({Len(m) : m \in {n \in Modifiers : IsPrefix(n, text)}})

LEMMA ModifierIsPrefix ==
    ASSUME NEW text \in Seq(Chars)
    PROVE  /\ IsPrefix(<<>>, text)
           /\ \A c \in {"h", "l"} :
                 /\ IsPrefix(<<c>>, text) <=> Len(text) >= 1 /\ text[1] = c
                 /\ IsPrefix(<<c, c>>, text) <=> Len(text) >= 2 /\ text[1] = c /\ text[2] = c
<1> DEFINE S == Chars \cup {"h", "l"}
<1>1. text \in Seq(S) /\ Len(text) \in Nat
  BY SeqMonotonic
<1>2. IsPrefix(<<>>, text)
  <2>1. <<>> \in Seq(S) /\ Len(<<>>) = 0
    OBVIOUS
  <2>2. StartsWith(text, <<>>)
    BY <1>1 DEF StartsWith
  <2> HIDE DEF S
  <2> QED BY <1>1, <2>1, <2>2, PrefixIs
<1>3. ASSUME NEW c \in {"h", "l"}
      PROVE  /\ IsPrefix(<<c>>, text) <=> Len(text) >= 1 /\ text[1] = c
             /\ IsPrefix(<<c, c>>, text) <=> Len(text) >= 2 /\ text[1] = c /\ text[2] = c
  <2>1. c \in S
    OBVIOUS
  <2> HIDE DEF S
  <2>2. <<c>> \in Seq(S) /\ <<c, c>> \in Seq(S)
    BY <2>1
  <2>3. IsPrefix(<<c>>, text) <=> StartsWith(text, <<c>>)
    BY <1>1, <2>2, PrefixIs
  <2>4. IsPrefix(<<c, c>>, text) <=> StartsWith(text, <<c, c>>)
    BY <1>1, <2>2, PrefixIs
  <2>5. StartsWith(text, <<c>>) <=> Len(text) >= 1 /\ text[1] = c
    BY <1>1 DEF StartsWith
  <2>6. StartsWith(text, <<c, c>>) <=> Len(text) >= 2 /\ text[1] = c /\ text[2] = c
    <3>1. Len(<<c, c>>) = 2 /\ <<c, c>>[1] = c /\ <<c, c>>[2] = c /\ 1 .. 2 = {1, 2}
      OBVIOUS
    <3> QED BY <1>1, <3>1 DEF StartsWith
  <2> QED BY <2>3, <2>4, <2>5, <2>6
<1> QED BY <1>2, <1>3

LEMMA LongestIs ==
    ASSUME NEW text \in Seq(Chars)
    PROVE  Longest(text) =
              IF Len(text) >= 1 /\ text[1] \in {"h", "l"}
              THEN IF Len(text) >= 2 /\ text[2] = text[1] THEN 2 ELSE 1
              ELSE 0
<1> DEFINE S == {Len(m) : m \in {n \in Modifiers : IsPrefix(n, text)}}
<1>1. 0 \in S
  <2>1. <<>> \in Modifiers /\ Len(<<>>) = 0 /\ IsPrefix(<<>>, text)
    BY ModifierIsPrefix DEF Modifiers
  <2> QED BY <2>1
<1>2. 1 \in S <=> Len(text) >= 1 /\ text[1] \in {"h", "l"}
  <2>1. \A m \in Modifiers : Len(m) = 1 <=> m \in {<<"h">>, <<"l">>}
    BY DEF Modifiers
  <2>2. <<"h">> \in Modifiers /\ <<"l">> \in Modifiers
    BY DEF Modifiers
  <2>3. 1 \in S <=> IsPrefix(<<"h">>, text) \/ IsPrefix(<<"l">>, text)
    BY <2>1, <2>2
  <2> QED BY <2>3, ModifierIsPrefix
<1>3. 2 \in S <=> Len(text) >= 2 /\ text[1] \in {"h", "l"} /\ text[2] = text[1]
  <2>1. \A m \in Modifiers : Len(m) = 2 <=> m \in {<<"h", "h">>, <<"l", "l">>}
    BY DEF Modifiers
  <2>2. <<"h", "h">> \in Modifiers /\ <<"l", "l">> \in Modifiers
    BY DEF Modifiers
  <2>3. 2 \in S <=> IsPrefix(<<"h", "h">>, text) \/ IsPrefix(<<"l", "l">>, text)
    BY <2>1, <2>2
  <2> QED BY <2>3, ModifierIsPrefix
<1>4. S \subseteq 0 .. 2
  <2>1. \A m \in Modifiers : Len(m) \in 0 .. 2
    BY DEF Modifiers
  <2> QED BY <2>1
<1> HIDE DEF S
<1>5. \E x \in S : \A y \in S : x >= y
  BY <1>1, <1>4
<1>6. Max(S) \in S /\ \A y \in S : Max(S) >= y
  BY <1>5 DEF Max
<1>7. Max(S) = IF 2 \in S THEN 2 ELSE IF 1 \in S THEN 1 ELSE 0
  <2>1. PICK k \in 0 .. 2 : k = Max(S)
    BY <1>4, <1>6
  <2>2. k \in S /\ (2 \in S => k >= 2) /\ (1 \in S => k >= 1)
    BY <1>6, <2>1
  <2>3. k = IF 2 \in S THEN 2 ELSE IF 1 \in S THEN 1 ELSE 0
    BY <2>2
  <2> QED BY <2>1, <2>3
<1>8. Len(text) \in Nat
  OBVIOUS
<1>9. Longest(text) = Max(S)
  BY DEF Longest, S
<1> QED BY <1>2, <1>3, <1>7, <1>8, <1>9

\* What is left of a sequence after its first k elements.
LEMMA DropIs ==
    ASSUME NEW S, NEW s \in Seq(S), NEW k \in 0 .. Len(s)
    PROVE  /\ SubSeq(s, k + 1, Len(s)) \in Seq(S)
           /\ Len(SubSeq(s, k + 1, Len(s))) = Len(s) - k
           /\ \A i \in 1 .. Len(s) - k : SubSeq(s, k + 1, Len(s))[i] = s[k + i]
<1>1. PICK n \in Nat : n = Len(s) /\ k \in Nat /\ k <= n
  BY LenProperties
<1>2. \A i \in k + 1 .. n : s[i] \in S
  BY <1>1, ElementOfSeq
<1>3. /\ SubSeq(s, k + 1, n) \in Seq(S)
      /\ Len(SubSeq(s, k + 1, n)) = IF k + 1 <= n THEN n - (k + 1) + 1 ELSE 0
      /\ \A i \in 1 .. n - (k + 1) + 1 : SubSeq(s, k + 1, n)[i] = s[k + 1 + i - 1]
  BY <1>1, <1>2, SubSeqProperties
<1>4. n - (k + 1) + 1 = n - k
  BY <1>1
<1>5. \A i \in 1 .. n - k : SubSeq(s, k + 1, n)[i] = s[k + i]
  <2> SUFFICES ASSUME NEW i \in 1 .. n - k PROVE SubSeq(s, k + 1, n)[i] = s[k + i]
    OBVIOUS
  <2>1. k + 1 + i - 1 = k + i
    BY <1>1
  <2> QED BY <1>3, <1>4, <2>1
<1>6. Len(SubSeq(s, k + 1, n)) = n - k
  BY <1>1, <1>3
<1> QED BY <1>1, <1>3, <1>5, <1>6

LEMMA TakeIs ==
    ASSUME NEW S, NEW s \in Seq(S), NEW k \in 0 .. Len(s)
    PROVE  /\ SubSeq(s, 1, k) \in Seq(S) /\ Len(SubSeq(s, 1, k)) = k
           /\ \A i \in 1 .. k : SubSeq(s, 1, k)[i] = s[i]
<1>1. PICK n \in Nat : n = Len(s) /\ k \in Nat /\ k <= n
  BY LenProperties
<1>2. \A i \in 1 .. k : s[i] \in S
  BY <1>1, ElementOfSeq
<1>3. /\ SubSeq(s, 1, k) \in Seq(S)
      /\ Len(SubSeq(s, 1, k)) = IF 1 <= k THEN k - 1 + 1 ELSE 0
      /\ \A i \in 1 .. k - 1 + 1 : SubSeq(s, 1, k)[i] = s[1 + i - 1]
  BY <1>1, <1>2, SubSeqProperties
<1> QED BY <1>1, <1>3

LEMMA ItemLengthIs ==
    ASSUME NEW format \in Seq(Chars), format # <<>>
    PROVE  /\ ItemLength(format) = IF format[1] # "%" THEN 1 ELSE 2 + Longest(Tail(format))
           /\ ItemLength(format) \in 1 .. 4
<1>1. Head(format) = format[1] /\ Tail(format) \in Seq(Chars)
  BY HeadTailProperties
<1>2. ItemLength(format) = IF format[1] # "%" THEN 1 ELSE 2 + Longest(Tail(format))
  BY <1>1 DEF ItemLength, Longest
<1>3. Longest(Tail(format)) \in 0 .. 2
  <2>1. PICK t \in Seq(Chars) : t = Tail(format)
    BY <1>1
  <2>2. Longest(t) = 0 \/ Longest(t) = 1 \/ Longest(t) = 2
    BY LongestIs
  <2> QED BY <2>1, <2>2
<1> QED BY <1>2, <1>3

LEMMA ItemIs ==
    ASSUME NEW format \in Seq(Chars), HasItem(format)
    PROVE  /\ ItemLength(format) \in 1 .. Len(format)
           /\ Item(format) \in Seq(Chars) /\ Len(Item(format)) = ItemLength(format)
           /\ \A i \in 1 .. ItemLength(format) : Item(format)[i] = format[i]
           /\ Rest(format) \in Seq(Chars)
           /\ Len(Rest(format)) = Len(format) - ItemLength(format)
           /\ \A i \in 1 .. Len(format) - ItemLength(format) :
                 Rest(format)[i] = format[ItemLength(format) + i]
           /\ Len(Rest(format)) < Len(format)
<1>1. PICK k \in Nat \ {0} : k = ItemLength(format) /\ k <= Len(format)
  BY ItemLengthIs DEF HasItem
<1>2. k \in 0 .. Len(format) /\ k \in 1 .. Len(format) /\ Len(format) \in Nat
  BY <1>1, LenProperties
<1>3. /\ SubSeq(format, 1, k) \in Seq(Chars) /\ Len(SubSeq(format, 1, k)) = k
      /\ \A i \in 1 .. k : SubSeq(format, 1, k)[i] = format[i]
  BY <1>2, TakeIs
<1>4. /\ SubSeq(format, k + 1, Len(format)) \in Seq(Chars)
      /\ Len(SubSeq(format, k + 1, Len(format))) = Len(format) - k
      /\ \A i \in 1 .. Len(format) - k :
            SubSeq(format, k + 1, Len(format))[i] = format[k + i]
  BY <1>2, DropIs
<1>5. Len(format) - k < Len(format)
  BY <1>2
<1> QED BY <1>1, <1>2, <1>3, <1>4, <1>5 DEF Item, Rest

KindNames == {"char", "string", "word", "long"}

\* The kind a conversion takes, "none" if none.
KindOf(spec, long) ==
    IF spec = "c" THEN "char"
    ELSE IF spec = "s" THEN "string"
    ELSE IF spec \in Signed \cup Unsigned THEN IF long THEN "long" ELSE "word"
    ELSE "none"

Wanted(kind) == IF kind = "none" THEN <<>> ELSE <<kind>>

LEMMA TakesIs ==
    ASSUME NEW item
    PROVE  Takes(item) =
              IF Len(item) = 1 THEN <<>>
              ELSE Wanted(KindOf(Last(item), SubSeq(item, 2, Len(item) - 1) = <<"l", "l">>))
<1> DEFINE spec == Last(item)
           long == SubSeq(item, 2, Len(item) - 1) = <<"l", "l">>
<1> SUFFICES ASSUME Len(item) # 1 PROVE Takes(item) = Wanted(KindOf(spec, long))
  BY DEF Takes
<1>1. CASE spec = "c"
  <2>1. Takes(item) = <<"char">>
    BY <1>1, Zenon DEF Takes, Signed, Unsigned
  <2> QED BY <1>1, <2>1, Zenon DEF Wanted, KindOf
<1>2. CASE spec = "s"
  <2>1. Takes(item) = <<"string">>
    BY <1>2, Zenon DEF Takes, Signed, Unsigned
  <2> QED BY <1>2, <2>1, Zenon DEF Wanted, KindOf
<1>3. CASE spec \in Signed \cup Unsigned
  <2>1. spec # "c" /\ spec # "s"
    BY <1>3, Zenon DEF Signed, Unsigned
  <2>2. Takes(item) = IF long THEN <<"long">> ELSE <<"word">>
    BY <1>3, <2>1, Zenon DEF Takes
  <2> QED BY <1>3, <2>1, <2>2, Zenon DEF Wanted, KindOf
<1>4. CASE spec # "c" /\ spec # "s" /\ spec \notin Signed \cup Unsigned
  <2>1. Takes(item) = <<>>
    BY <1>4, Zenon DEF Takes
  <2> QED BY <1>4, <2>1, Zenon DEF Wanted, KindOf
<1> QED BY <1>1, <1>2, <1>3, <1>4

LEMMA TakesType ==
    ASSUME NEW item
    PROVE  /\ Takes(item) = <<>> \/ \E kind \in KindNames : Takes(item) = <<kind>>
           /\ Takes(item) \in Seq(KindNames) /\ Len(Takes(item)) \in {0, 1}
<1>1. Takes(item) = <<>> \/ \E kind \in KindNames : Takes(item) = <<kind>>
  BY TakesIs DEF Wanted, KindOf, KindNames
<1>2. CASE Takes(item) = <<>>
  <2>1. <<>> \in Seq(KindNames) /\ Len(<<>>) = 0
    OBVIOUS
  <2> QED BY <1>2, <2>1
<1>3. ASSUME NEW kind \in KindNames, Takes(item) = <<kind>>
      PROVE  Takes(item) \in Seq(KindNames) /\ Len(Takes(item)) = 1
  <2>1. <<kind>> \in Seq(KindNames) /\ Len(<<kind>>) = 1
    OBVIOUS
  <2> QED BY <1>3, <2>1
<1> QED BY <1>1, <1>2, <1>3

KindsBody(kinds, format, p) ==
    IF HasItem(format) THEN Takes(Item(format)) \o kinds[Rest(format)] ELSE <<>>

Asking == INSTANCE Recursion WITH
    Arguments <- Texts, Rank <- Length, Body <- KindsBody

LEMMA KindsStep ==
    ASSUME NEW format \in Seq(Chars)
    PROVE  Kinds[format] = IF HasItem(format)
                           THEN Takes(Item(format)) \o Kinds[Rest(format)] ELSE <<>>
<1>1. ASSUME NEW s \in Texts(0), NEW f, NEW g, Asking!AgreeBelow(f, g, s, 0)
      PROVE  KindsBody(f, s, 0) = KindsBody(g, s, 0)
  <2>1. CASE HasItem(s)
    <3>1. f[Rest(s)] = g[Rest(s)]
      BY <1>1, <2>1, ItemIs DEF Asking!AgreeBelow, Texts, Length
    <3> QED BY <3>1 DEF KindsBody
  <2>2. CASE ~HasItem(s)
    BY <2>2 DEF KindsBody
  <2> QED BY <2>1, <2>2
<1>2. \A s \in Texts(0) : Length(s) \in Nat
  BY DEF Texts, Length
<1>3. Asking!LooksBelow(0)
  BY <1>1, <1>2, Zenon DEF Asking!LooksBelow
<1>4. Asking!Obeys(Asking!Function(0), 0)
  BY <1>3, Asking!FunctionObeys
<1>5. Kinds = Asking!Function(0)
  BY Zenon DEF Kinds, Asking!Function, Asking!Obeys, KindsBody, Texts
<1>6. format \in Texts(0)
  BY DEF Texts
<1>7. Kinds[format] = KindsBody(Kinds, format, 0)
  BY <1>4, <1>5, <1>6 DEF Asking!Obeys
<1> QED BY <1>7 DEF KindsBody

LEMMA KindsType ==
    ASSUME NEW format \in Seq(Chars)
    PROVE  Kinds[format] \in Seq(KindNames)
<1> DEFINE S == {n \in Nat : \A s \in Seq(Chars) : Len(s) <= n => Kinds[s] \in Seq(KindNames)}
<1>1. ASSUME NEW s \in Seq(Chars), ~HasItem(s) PROVE Kinds[s] \in Seq(KindNames)
  <2>1. Kinds[s] = <<>>
    BY <1>1, KindsStep
  <2>2. <<>> \in Seq(KindNames)
    OBVIOUS
  <2> QED BY <2>1, <2>2
<1>2. 0 \in S
  <2> SUFFICES ASSUME NEW s \in Seq(Chars), Len(s) <= 0 PROVE Kinds[s] \in Seq(KindNames)
    OBVIOUS
  <2>1. s = <<>>
    BY EmptySeq
  <2> QED BY <1>1, <2>1 DEF HasItem
<1>3. ASSUME NEW n \in Nat, n \in S PROVE n + 1 \in S
  <2> SUFFICES ASSUME NEW s \in Seq(Chars), Len(s) <= n + 1 PROVE Kinds[s] \in Seq(KindNames)
    OBVIOUS
  <2>1. CASE HasItem(s)
    <3>1. Rest(s) \in Seq(Chars) /\ Len(Rest(s)) <= n
      BY <2>1, ItemIs, LenProperties
    <3>2. Kinds[Rest(s)] \in Seq(KindNames)
      BY <1>3, <3>1
    <3>3. Takes(Item(s)) \in Seq(KindNames)
      BY TakesType
    <3> QED BY <2>1, <3>2, <3>3, KindsStep, ConcatProperties
  <2>2. CASE ~HasItem(s)
    BY <1>1, <2>2
  <2> QED BY <2>1, <2>2
<1> HIDE DEF S
<1>4. Len(format) \in S
  BY <1>2, <1>3, LenProperties, Asking!SetInduction
<1> QED BY <1>4, LenProperties DEF S

-----------------------------------------------------------------------------
(* Meanings                                                                *)

Passed(p)     == Seq(Chars) \X Seq(Arg)
CallRank(call) == Len(call[1])

MeaningBody(means, call, p) ==
    LET format    == call[1]
        arguments == call[2]
        item      == Item(format)
        left      == SubSeq(arguments, Len(Takes(item)) + 1, Len(arguments))
    IN  IF HasItem(format)
        THEN TextOf(item, arguments) \o means[<<Rest(format), left>>]
        ELSE <<>>

Telling == INSTANCE Recursion WITH
    Arguments <- Passed, Rank <- CallRank, Body <- MeaningBody

Left(item, arguments) == SubSeq(arguments, Len(Takes(item)) + 1, Len(arguments))

LEMMA LeftType ==
    ASSUME NEW S, NEW s \in Seq(S), NEW k \in Nat
    PROVE  SubSeq(s, k + 1, Len(s)) \in Seq(S)
<1>1. CASE k <= Len(s)
  <2>1. k \in 0 .. Len(s)
    BY <1>1, LenProperties
  <2> QED BY <2>1, DropIs
<1>2. CASE ~(k <= Len(s))
  <2>1. PICK n \in Nat : n = Len(s) /\ n < k + 1
    BY <1>2, LenProperties
  <2>2. SubSeq(s, k + 1, n) = <<>>
    BY <2>1, SubSeqEmpty
  <2> QED BY <2>1, <2>2
<1> QED BY <1>1, <1>2

LEMMA MeaningStep ==
    ASSUME NEW format \in Seq(Chars), NEW arguments \in Seq(Arg)
    PROVE  Meaning[<<format, arguments>>] =
              IF HasItem(format)
              THEN TextOf(Item(format), arguments)
                   \o Meaning[<<Rest(format), Left(Item(format), arguments)>>]
              ELSE <<>>
<1>1. ASSUME NEW c \in Passed(0), NEW f, NEW g, Telling!AgreeBelow(f, g, c, 0)
      PROVE  MeaningBody(f, c, 0) = MeaningBody(g, c, 0)
  <2>1. PICK s \in Seq(Chars), a \in Seq(Arg) : s = c[1] /\ a = c[2]
    BY DEF Passed
  <2>2. CASE HasItem(s)
    <3>1. PICK d : d = <<Rest(s), Left(Item(s), a)>>
      OBVIOUS
    <3>2. Rest(s) \in Seq(Chars) /\ Len(Rest(s)) < Len(s)
      BY <2>2, ItemIs
    <3>3. Left(Item(s), a) \in Seq(Arg)
      <4>1. PICK k \in Nat : k = Len(Takes(Item(s)))
        BY TakesType
      <4> QED BY <4>1, LeftType DEF Left
    <3>4. d \in Passed(0) /\ d[1] = Rest(s)
      BY <3>1, <3>2, <3>3 DEF Passed
    <3>5. CallRank(d) < CallRank(c)
      BY <2>1, <3>2, <3>4 DEF CallRank
    <3>6. f[d] = g[d]
      BY <1>1, <3>4, <3>5 DEF Telling!AgreeBelow
    <3> QED BY <2>1, <3>1, <3>6 DEF MeaningBody, Left
  <2>3. CASE ~HasItem(s)
    BY <2>1, <2>3 DEF MeaningBody
  <2> QED BY <2>2, <2>3
<1>2. \A c \in Passed(0) : CallRank(c) \in Nat
  BY DEF Passed, CallRank
<1>3. Telling!LooksBelow(0)
  BY <1>1, <1>2, Zenon DEF Telling!LooksBelow
<1>4. Telling!Obeys(Telling!Function(0), 0)
  BY <1>3, Telling!FunctionObeys
<1>5. Meaning = Telling!Function(0)
  BY Zenon DEF Meaning, Telling!Function, Telling!Obeys, MeaningBody, Passed
<1>6. PICK call : call = <<format, arguments>>
  OBVIOUS
<1>7. call \in Passed(0) /\ call[1] = format /\ call[2] = arguments
  BY <1>6 DEF Passed
<1>8. Meaning[call] = MeaningBody(Meaning, call, 0)
  BY <1>4, <1>5, <1>7 DEF Telling!Obeys
<1> QED BY <1>6, <1>7, <1>8 DEF MeaningBody, Left

-----------------------------------------------------------------------------
(* Arguments                                                               *)

LEMMA ArgIs ==
    ASSUME NEW arg \in Arg
    PROVE  /\ arg.kind \in KindNames
           /\ arg.kind = "char" => arg.value \in Chars
           /\ arg.kind = "string" => arg.value \in Seq(Chars)
           /\ arg.kind = "word" => arg.value \in 0 .. WORD - 1
           /\ arg.kind = "long" => arg.value \in 0 .. LONG_WORD - 1
<1>1. PICK kind \in KindNames : arg \in ArgOf(kind)
  BY DEF Arg, KindNames
<1>2. arg.kind = kind /\ arg.value \in Values(kind)
  BY <1>1 DEF ArgOf
<1>3. Strings \subseteq Seq(Chars)
  BY PrintfAssumption
<1>4. CASE kind = "char"
  <2>1. Values(kind) = Chars
    BY <1>4, Zenon DEF Values
  <2> QED BY <1>2, <1>4, <2>1
<1>5. CASE kind = "string"
  <2>1. Values(kind) = Strings
    BY <1>5, Zenon DEF Values
  <2> QED BY <1>2, <1>3, <1>5, <2>1
<1>6. CASE kind = "word"
  <2>1. Values(kind) = Words
    BY <1>6, Zenon DEF Values
  <2> QED BY <1>2, <1>6, <2>1, NumberSizes
<1>7. CASE kind = "long"
  <2>1. Values(kind) = LongWords
    BY <1>7, Zenon DEF Values
  <2> QED BY <1>2, <1>7, <2>1, NumberSizes
<1> QED BY <1>1, <1>2, <1>4, <1>5, <1>6, <1>7 DEF KindNames

\* The arguments are of the kinds listed.
Match(arguments, kinds) ==
    /\ Len(arguments) = Len(kinds)
    /\ \A i \in 1 .. Len(arguments) : arguments[i].kind = kinds[i]

LEMMA FitIs ==
    ASSUME NEW format \in Seq(Chars), NEW arguments
    PROVE  arguments \in ArgumentsFor(format)
           <=> (arguments \in Seq(Arg) /\ Match(arguments, Kinds[format]))
<1>1. PICK kinds \in Seq(KindNames) : kinds = Kinds[format]
  BY KindsType
<1>2. PICK n \in Nat : n = Len(kinds)
  BY LenProperties
<1>3. ASSUME arguments \in ArgumentsFor(format)
      PROVE  arguments \in Seq(Arg) /\ Match(arguments, kinds)
  <2>1. arguments \in [1 .. n -> Arg] /\ \A i \in DOMAIN arguments : arguments[i].kind = kinds[i]
    BY <1>1, <1>2, <1>3 DEF ArgumentsFor, TupleOf
  <2>2. arguments \in Seq(Arg) /\ Len(arguments) = n
    BY <2>1
  <2> QED BY <1>2, <2>1, <2>2 DEF Match
<1>4. ASSUME arguments \in Seq(Arg), Match(arguments, kinds)
      PROVE  arguments \in ArgumentsFor(format)
  <2>1. Len(arguments) = n /\ DOMAIN arguments = 1 .. n
    BY <1>2, <1>4, LenProperties DEF Match
  <2>2. arguments \in [1 .. n -> Arg]
    BY <1>4, <2>1, LenProperties
  <2> QED BY <1>1, <1>2, <1>4, <2>1, <2>2 DEF ArgumentsFor, TupleOf, Match
<1> QED BY <1>1, <1>3, <1>4

LEMMA TailIs ==
    ASSUME NEW S, NEW s \in Seq(S), s # <<>>
    PROVE  /\ Len(s) \in Nat /\ Len(s) >= 1 /\ s[1] \in S /\ Head(s) = s[1]
           /\ Tail(s) \in Seq(S) /\ Len(Tail(s)) = Len(s) - 1
           /\ \A i \in 1 .. Len(s) - 1 : Tail(s)[i] = s[i + 1]
<1>1. Len(s) \in Nat /\ Len(s) # 0
  BY EmptySeq, LenProperties
<1> QED BY <1>1, HeadTailProperties, ElementOfSeq

LEMMA MatchOne ==
    ASSUME NEW kind \in KindNames, NEW kinds \in Seq(KindNames), NEW a \in Seq(Arg),
           Match(a, <<kind>> \o kinds)
    PROVE  /\ a # <<>> /\ Head(a) \in Arg /\ Head(a).kind = kind
           /\ Tail(a) \in Seq(Arg) /\ Match(Tail(a), kinds)
<1>1. PICK one \in Seq(KindNames) : one = <<kind>> /\ Len(one) = 1 /\ one[1] = kind
  <2>1. PICK one : one = <<kind>>
    OBVIOUS
  <2>2. one \in Seq(KindNames) /\ Len(one) = 1 /\ one[1] = kind
    BY <2>1
  <2> QED BY <2>1, <2>2
<1>2. PICK all \in Seq(KindNames) : all = one \o kinds
  BY ConcatProperties
<1>3. PICK n \in Nat : n = Len(kinds)
  BY LenProperties
<1>4. /\ Len(all) = n + 1 /\ all[1] = kind
      /\ \A i \in 1 .. n : all[i + 1] = kinds[i]
  <2>1. /\ Len(all) = 1 + n
        /\ \A i \in 1 .. 1 + n : all[i] = IF i <= 1 THEN one[i] ELSE kinds[i - 1]
    BY <1>1, <1>2, <1>3, ConcatProperties
  <2> QED BY <1>1, <2>1
<1>5. Len(a) = n + 1 /\ \A i \in 1 .. n + 1 : a[i].kind = all[i]
  BY <1>1, <1>2, <1>4 DEF Match
<1>6. a # <<>>
  BY <1>5
<1>7. /\ a[1] \in Arg /\ Head(a) = a[1] /\ Tail(a) \in Seq(Arg) /\ Len(Tail(a)) = n
      /\ \A i \in 1 .. n : Tail(a)[i] = a[i + 1]
  BY <1>5, <1>6, TailIs
<1>8. \A i \in 1 .. n : a[i + 1].kind = kinds[i]
  BY <1>4, <1>5
<1> QED BY <1>3, <1>4, <1>5, <1>6, <1>7, <1>8 DEF Match

\* The arguments of a format fit its first item and then the rest.
LEMMA FitStep ==
    ASSUME NEW format \in Seq(Chars), NEW a \in ArgumentsFor(format)
    PROVE  /\ a \in Seq(Arg)
           /\ ~HasItem(format) => a = <<>>
           /\ HasItem(format) => Left(Item(format), a) \in ArgumentsFor(Rest(format))
           /\ HasItem(format) /\ Takes(Item(format)) = <<>> => Left(Item(format), a) = a
           /\ \A kind \in KindNames :
                 HasItem(format) /\ Takes(Item(format)) = <<kind>>
                 => /\ a # <<>> /\ Head(a) \in Arg /\ Head(a).kind = kind
                    /\ Left(Item(format), a) = Tail(a)
<1>1. a \in Seq(Arg) /\ Match(a, Kinds[format])
  BY FitIs
<1>2. CASE ~HasItem(format)
  <2>1. Kinds[format] = <<>>
    BY <1>2, KindsStep
  <2>2. Len(a) = 0
    BY <1>1, <2>1 DEF Match
  <2> QED BY <1>1, <1>2, <2>2, EmptySeq
<1>3. CASE HasItem(format)
  <2>1. PICK rest \in Seq(Chars) : rest = Rest(format)
    BY <1>3, ItemIs
  <2>2. PICK kinds \in Seq(KindNames) : kinds = Kinds[rest]
    BY KindsType
  <2>3. Kinds[format] = Takes(Item(format)) \o kinds
    BY <1>3, <2>1, <2>2, KindsStep
  <2>4. CASE Takes(Item(format)) = <<>>
    <3>1. Kinds[format] = kinds
      BY <2>3, <2>4, ConcatEmptySeq
    <3>2. a \in ArgumentsFor(rest)
      BY <1>1, <2>2, <3>1, FitIs
    <3>3. Left(Item(format), a) = a
      <4>1. Left(Item(format), a) = SubSeq(a, 1, Len(a))
        BY <2>4 DEF Left
      <4> QED BY <1>1, <4>1, SubSeqFull
    <3> QED BY <1>1, <1>3, <2>1, <2>4, <3>2, <3>3
  <2>5. ASSUME NEW kind \in KindNames, Takes(Item(format)) = <<kind>>
        PROVE  /\ Left(Item(format), a) \in ArgumentsFor(rest)
               /\ a # <<>> /\ Head(a) \in Arg /\ Head(a).kind = kind
               /\ Left(Item(format), a) = Tail(a)
    <3>1. Match(a, <<kind>> \o kinds)
      BY <1>1, <2>3, <2>5
    <3>2. /\ a # <<>> /\ Head(a) \in Arg /\ Head(a).kind = kind
          /\ Tail(a) \in Seq(Arg) /\ Match(Tail(a), kinds)
      BY <1>1, <3>1, MatchOne
    <3>3. Left(Item(format), a) = Tail(a)
      <4>1. Left(Item(format), a) = SubSeq(a, 2, Len(a))
        BY <2>5 DEF Left
      <4> QED BY <1>1, <3>2, <4>1 DEF Tail
    <3>4. Tail(a) \in ArgumentsFor(rest)
      BY <2>2, <3>2, FitIs
    <3> QED BY <3>2, <3>3, <3>4
  <2>6. ASSUME NEW kind \in KindNames, NEW k2 \in KindNames, Takes(Item(format)) = <<kind>>, Takes(Item(format)) = <<k2>>
        PROVE  kind = k2
    BY <2>6
  <2>7. ASSUME NEW kind \in KindNames, Takes(Item(format)) = <<kind>>
        PROVE  Takes(Item(format)) # <<>>
    BY <2>7
  <2> QED BY <1>1, <1>3, <2>1, <2>4, <2>5, <2>6, <2>7, TakesType
<1> QED BY <1>2, <1>3

-----------------------------------------------------------------------------
(* What a conversion writes                                                *)

LEMMA RadixIs ==
    ASSUME NEW spec
    PROVE  Radix(spec) \in Radixes
<1>1. CASE spec \in Signed \cup {"u"}
  <2>1. Radix(spec) = 10
    BY <1>1, Zenon DEF Radix, Signed
  <2> QED BY <2>1 DEF Radixes
<1>2. CASE spec \notin Signed \cup {"u"} /\ spec = "o"
  <2>1. Radix(spec) = 8
    BY <1>2, Zenon DEF Radix
  <2> QED BY <2>1 DEF Radixes
<1>3. CASE spec \notin Signed \cup {"u"} /\ spec # "o"
  <2>1. Radix(spec) = 16
    BY <1>3, Zenon DEF Radix
  <2> QED BY <2>1 DEF Radixes
<1> QED BY <1>1, <1>2, <1>3

LEMMA IntegerIs ==
    ASSUME NEW kind \in {"word", "long"},
           NEW bits \in 0 .. (IF kind = "long" THEN LONG_WORD ELSE WORD) - 1
    PROVE  /\ Integer(kind, bits) \in Int
           /\ Integer(kind, bits) >= 0 => Integer(kind, bits) \in 0 .. LONG_WORD - 1
           /\ Integer(kind, bits) < 0 => -Integer(kind, bits) \in 0 .. LONG_WORD - 1
<1>1. PICK word \in Nat : /\ word = IF kind = "long" THEN LONG_WORD ELSE WORD
                          /\ word >= 2 /\ word <= LONG_WORD
  BY NumberSizes
<1>2. bits \in 0 .. word - 1
  BY <1>1
<1>3. Integer(kind, bits) = IF bits >= word \div 2 THEN bits - word ELSE bits
  BY <1>1 DEF Integer
<1>4. \A w \in Nat : w >= 2 => w \div 2 \in Nat /\ w \div 2 >= 1
  OBVIOUS
<1>5. PICK half \in Nat : half = word \div 2 /\ half >= 1
  BY <1>1, <1>4
<1>6. Integer(kind, bits) = IF bits >= half THEN bits - word ELSE bits
  BY <1>3, <1>5
<1>7. PICK long \in Nat : long = LONG_WORD
  BY NumberSizes
<1>8. CASE bits >= half
  <2>1. bits - word \in Int /\ bits - word < 0 /\ -(bits - word) \in 0 .. long - 1
    <3>1. bits \in Nat /\ bits <= word - 1
      BY <1>1, <1>2
    <3>2. PICK b \in Nat : b = bits /\ b <= word - 1 /\ b >= 1
      BY <1>5, <1>8, <3>1
    <3>3. word <= long
      BY <1>1, <1>7
    <3>4. b - word \in Int /\ b - word < 0 /\ -(b - word) \in 0 .. long - 1
      BY <1>1, <1>7, <3>2, <3>3
    <3> QED BY <3>2, <3>4
  <2> QED BY <1>6, <1>7, <1>8, <2>1
<1>9. CASE ~(bits >= half)
  <2>1. bits \in 0 .. long - 1
    BY <1>1, <1>2, <1>7
  <2> QED BY <1>6, <1>7, <1>9, <2>1
<1> QED BY <1>8, <1>9

Decimal(n) == IF n < 0 THEN <<"-">> \o Numeral(-n, 10) ELSE Numeral(n, 10)

LEMMA TextIs ==
    ASSUME NEW spec, NEW arg
    PROVE  /\ spec = "c" => Text(spec, arg) = <<arg.value>>
           /\ spec = "s" => Text(spec, arg) = arg.value
           /\ spec \in Unsigned => Text(spec, arg) = Numeral(arg.value, Radix(spec))
           /\ spec \in Signed => Text(spec, arg) = Decimal(Integer(arg.kind, arg.value))
<1>1. ASSUME spec = "c" PROVE Text(spec, arg) = <<arg.value>>
  BY <1>1, Zenon DEF Text, Signed, Unsigned
<1>2. ASSUME spec = "s" PROVE Text(spec, arg) = arg.value
  BY <1>2, Zenon DEF Text, Signed, Unsigned
<1>3. ASSUME spec \in Unsigned PROVE Text(spec, arg) = Numeral(arg.value, Radix(spec))
  <2>1. spec # "c" /\ spec # "s" /\ spec \notin Signed
    BY <1>3, Zenon DEF Signed, Unsigned
  <2> QED BY <1>3, <2>1, Zenon DEF Text
<1>4. ASSUME spec \in Signed PROVE Text(spec, arg) = Decimal(Integer(arg.kind, arg.value))
  <2>1. spec # "c" /\ spec # "s" /\ spec \notin Unsigned
    BY <1>4, Zenon DEF Signed, Unsigned
  <2> QED BY <1>4, <2>1, Zenon DEF Text, Decimal
<1> QED BY <1>1, <1>2, <1>3, <1>4

LEMMA DigitsAreText ==
    ASSUME NEW r \in Radixes, NEW n \in 0 .. LONG_WORD - 1
    PROVE  Digits(n, r) = Numeral(n, r) /\ Digits(n, r) \in Seq(Chars)
<1>1. Seq(Printable) \subseteq Seq(Chars)
  BY SeqMonotonic DEF Chars
<1> QED BY <1>1, DigitsAreNumeral, DigitsType

LEMMA MinusIsPrintable == \E c \in Printable : c = "-"
BY PrintfAssumption, Zenon

LEMMA SignedDigitsAreText ==
    ASSUME NEW n \in Int,
           n >= 0 => n \in 0 .. LONG_WORD - 1, n < 0 => -n \in 0 .. LONG_WORD - 1
    PROVE  SignedDigits(n) = Decimal(n) /\ SignedDigits(n) \in Seq(Chars)
<1>1. 10 \in Radixes
  BY DEF Radixes
<1>2. CASE n < 0
  <2>1. PICK m \in 0 .. LONG_WORD - 1 : m = -n
    BY <1>2
  <2>2. PICK text \in Seq(Chars) : text = Digits(m, 10) /\ text = Numeral(m, 10)
    BY <1>1, DigitsAreText
  <2>3. <<"-">> \in Seq(Chars)
    BY MinusIsPrintable DEF Chars
  <2>4. <<"-">> \o text \in Seq(Chars)
    BY <2>2, <2>3, ConcatProperties
  <2> QED BY <1>2, <2>1, <2>2, <2>4 DEF SignedDigits, Decimal
<1>3. CASE ~(n < 0)
  <2>1. n \in 0 .. LONG_WORD - 1
    BY <1>3
  <2>2. Digits(n, 10) \in Seq(Chars) /\ Digits(n, 10) = Numeral(n, 10)
    BY <1>1, <2>1, DigitsAreText
  <2> QED BY <1>3, <2>2 DEF SignedDigits, Decimal
<1> QED BY <1>2, <1>3

LEMMA DeviceDigitsAre ==
    ASSUME NEW n \in Int,
           n >= 0 => n \in 0 .. LONG_WORD - 1, n < 0 => -n \in 0 .. LONG_WORD - 1
    PROVE  /\ \A text \in DeviceDigits(n) : text \in Seq(Chars)
           /\ n >= 0 => DeviceDigits(n) = {Decimal(n)}
<1>1. CASE n >= 0
  <2>1. n \in 0 .. LONG_WORD - 1 /\ 10 \in Radixes /\ ~(n < 0)
    BY <1>1 DEF Radixes
  <2>2. Digits(n, 10) \in Seq(Chars) /\ Digits(n, 10) = Numeral(n, 10)
    BY <2>1, DigitsAreText
  <2> QED BY <1>1, <2>1, <2>2 DEF DeviceDigits, Decimal
<1>2. CASE ~(n >= 0)
  <2>1. {"0"} \subseteq Printable
    <3>1. HexChars[1] \in Printable
      BY HexCharsArePrintable
    <3> QED BY <3>1 DEF HexChars
  <2>2. ASSUME NEW text \in DeviceDigits(n) PROVE text \in Seq(Chars)
    <3>1. PICK c \in Printable : text = <<"-", c>>
      BY <1>2, <2>1, <2>2 DEF DeviceDigits
    <3> QED BY <3>1, MinusIsPrintable DEF Chars
  <2> QED BY <1>2, <2>2
<1> QED BY <1>1, <1>2

\* What a conversion of a number may write: its text, unless it is a negative
\* number of the core library.
LEMMA ConvertedIs ==
    ASSUME NEW spec \in Signed \cup Unsigned, NEW arg \in Arg, arg.kind \in {"word", "long"}
    PROVE  /\ \A text \in Converted(spec, arg) : text \in Seq(Chars)
           /\ Text(spec, arg) \in Seq(Chars)
           /\ ~(program = "core" /\ spec \in Signed /\ Integer(arg.kind, arg.value) < 0)
              => \A text \in Converted(spec, arg) : text = Text(spec, arg)
<1>1. PICK kind \in {"word", "long"} : kind = arg.kind
  OBVIOUS
<1>2. PICK bits \in 0 .. (IF kind = "long" THEN LONG_WORD ELSE WORD) - 1 : bits = arg.value
  BY <1>1, ArgIs
<1>3. PICK n \in Int : /\ n = Integer(kind, bits)
                       /\ n >= 0 => n \in 0 .. LONG_WORD - 1
                       /\ n < 0 => -n \in 0 .. LONG_WORD - 1
  BY IntegerIs
<1>4. CASE spec \in Unsigned
  <2>1. bits \in 0 .. LONG_WORD - 1
    BY <1>2, NumberSizes
  <2>2. PICK r \in Radixes : r = Radix(spec)
    BY RadixIs
  <2>3. Digits(bits, r) = Numeral(bits, r) /\ Digits(bits, r) \in Seq(Chars)
    BY <2>1, DigitsAreText
  <2>4. Converted(spec, arg) = {Digits(bits, r)}
    BY <1>2, <1>4, <2>2 DEF Converted
  <2>5. Text(spec, arg) = Numeral(bits, r)
    BY <1>2, <1>4, <2>2, TextIs
  <2> QED BY <2>3, <2>4, <2>5
<1>5. CASE spec \in Signed
  <2>1. spec \notin Unsigned
    BY <1>5 DEF Signed, Unsigned
  <2>2. Text(spec, arg) = Decimal(n)
    BY <1>1, <1>2, <1>3, <1>5, TextIs
  <2>3. Converted(spec, arg) = IF program = "core" THEN DeviceDigits(n) ELSE {SignedDigits(n)}
    BY <1>1, <1>2, <1>3, <2>1 DEF Converted
  <2>4. SignedDigits(n) = Decimal(n) /\ SignedDigits(n) \in Seq(Chars)
    BY <1>3, SignedDigitsAreText
  <2>5. /\ \A text \in DeviceDigits(n) : text \in Seq(Chars)
        /\ n >= 0 => DeviceDigits(n) = {Decimal(n)}
    BY <1>3, DeviceDigitsAre
  <2>6. ~(Integer(arg.kind, arg.value) < 0) <=> n >= 0
    BY <1>1, <1>2, <1>3
  <2> QED BY <1>5, <2>2, <2>3, <2>4, <2>5, <2>6
<1> QED BY <1>4, <1>5

\* A conversion of an argument of the kind it takes.
LEMMA TextType ==
    ASSUME NEW spec, NEW long, NEW arg \in Arg, arg.kind = KindOf(spec, long)
    PROVE  Text(spec, arg) \in Seq(Chars)
<1>1. KindOf(spec, long) # "none"
  BY ArgIs DEF KindNames
<1>2. CASE spec = "c"
  <2>1. arg.kind = "char"
    BY <1>2 DEF KindOf
  <2>2. arg.value \in Chars
    BY <2>1, ArgIs
  <2>3. Text(spec, arg) = <<arg.value>>
    BY <1>2, TextIs
  <2> QED BY <2>2, <2>3
<1>3. CASE spec = "s"
  <2>1. arg.kind = "string"
    BY <1>3 DEF KindOf
  <2> QED BY <1>3, <2>1, ArgIs, TextIs
<1>4. CASE spec # "c" /\ spec # "s"
  <2>1. spec \in Signed \cup Unsigned /\ arg.kind \in {"word", "long"}
    BY <1>1, <1>4 DEF KindOf
  <2> QED BY <2>1, ConvertedIs
<1> QED BY <1>2, <1>3, <1>4


LEMMA LastIs ==
    ASSUME NEW S, NEW s \in Seq(S), Len(s) >= 1
    PROVE  Last(s) \in S /\ Last(s) = s[Len(s)]
<1>1. PICK n \in Nat : n = Len(s) /\ n \in 1 .. Len(s)
  BY LenProperties
<1>2. s[n] \in S
  BY <1>1, ElementOfSeq
<1> QED BY <1>1, <1>2 DEF Last

LEMMA TextOfType ==
    ASSUME NEW format \in Seq(Chars), NEW a \in ArgumentsFor(format), HasItem(format)
    PROVE  TextOf(Item(format), a) \in Seq(Chars)
<1>1. PICK item \in Seq(Chars) : item = Item(format) /\ Len(item) >= 1
  <2>1. Item(format) \in Seq(Chars) /\ Len(Item(format)) >= 1
    BY ItemIs, LenProperties
  <2> QED BY <2>1
<1>2. CASE Takes(item) = <<>>
  <2>1. <<Last(item)>> \in Seq(Chars)
    BY <1>1, LastIs
  <2>2. <<>> \in Seq(Chars)
    OBVIOUS
  <2> QED BY <1>1, <1>2, <2>1, <2>2 DEF TextOf
<1>3. ASSUME NEW kind \in KindNames, Takes(item) = <<kind>>
      PROVE  TextOf(item, a) \in Seq(Chars)
  <2>1. Head(a) \in Arg /\ Head(a).kind = kind
    BY <1>1, <1>3, FitStep
  <2>2. PICK long : Takes(item) = IF Len(item) = 1 THEN <<>>
                                  ELSE Wanted(KindOf(Last(item), long))
    BY TakesIs
  <2>3. Takes(item) # <<>>
    BY <1>3
  <2>4. Wanted(KindOf(Last(item), long)) = <<kind>>
    BY <1>3, <2>2, <2>3
  <2>5. KindOf(Last(item), long) = kind
    <3>1. Wanted(KindOf(Last(item), long)) = <<KindOf(Last(item), long)>>
      BY <2>3, <2>4, <1>3 DEF Wanted
    <3> QED BY <2>4, <3>1
  <2>6. Text(Last(item), Head(a)) \in Seq(Chars)
    BY <2>1, <2>5, TextType
  <2> QED BY <2>3, <2>6 DEF TextOf
<1> QED BY <1>1, <1>2, <1>3, TakesType

LEMMA MeaningType ==
    ASSUME NEW format \in Seq(Chars), NEW a \in ArgumentsFor(format)
    PROVE  Meaning[<<format, a>>] \in Seq(Chars)
<1> DEFINE Typed(s) == \A b \in ArgumentsFor(s) : Meaning[<<s, b>>] \in Seq(Chars)
           S == {n \in Nat : \A s \in Seq(Chars) : Len(s) <= n => Typed(s)}
<1>1. ASSUME NEW s \in Seq(Chars), ~HasItem(s) PROVE Typed(s)
  <2> SUFFICES ASSUME NEW b \in ArgumentsFor(s) PROVE Meaning[<<s, b>>] \in Seq(Chars)
    OBVIOUS
  <2>1. Meaning[<<s, b>>] = <<>>
    BY <1>1, FitStep, MeaningStep
  <2>2. <<>> \in Seq(Chars)
    OBVIOUS
  <2> QED BY <2>1, <2>2
<1>2. 0 \in S
  <2> SUFFICES ASSUME NEW s \in Seq(Chars), Len(s) <= 0 PROVE Typed(s)
    OBVIOUS
  <2>1. s = <<>>
    BY EmptySeq
  <2> HIDE DEF Typed
  <2> QED BY <1>1, <2>1 DEF HasItem
<1>3. ASSUME NEW n \in Nat, n \in S PROVE n + 1 \in S
  <2> SUFFICES ASSUME NEW s \in Seq(Chars), Len(s) <= n + 1 PROVE Typed(s)
    OBVIOUS
  <2>1. CASE HasItem(s)
    <3> SUFFICES ASSUME NEW b \in ArgumentsFor(s) PROVE Meaning[<<s, b>>] \in Seq(Chars)
      OBVIOUS
    <3>1. PICK rest \in Seq(Chars) : rest = Rest(s) /\ Len(rest) <= n
      BY <2>1, ItemIs, LenProperties
    <3>2. PICK left \in ArgumentsFor(rest) : left = Left(Item(s), b)
      BY <2>1, <3>1, FitStep
    <3>3. Typed(rest)
      BY <1>3, <3>1
    <3>4. PICK more \in Seq(Chars) : more = Meaning[<<rest, left>>]
      BY <3>2, <3>3
    <3>5. PICK text \in Seq(Chars) : text = TextOf(Item(s), b)
      BY <2>1, TextOfType
    <3>6. b \in Seq(Arg)
      BY FitStep
    <3>7. Meaning[<<s, b>>] = text \o more
      BY <2>1, <3>1, <3>2, <3>4, <3>5, <3>6, MeaningStep
    <3> QED BY <3>4, <3>5, <3>7, ConcatProperties
  <2>2. CASE ~HasItem(s)
    BY <1>1, <2>2
  <2> QED BY <2>1, <2>2
<1> HIDE DEF S
<1>4. Len(format) \in S
  BY <1>2, <1>3, LenProperties, Asking!SetInduction
<1>5. Typed(format)
  BY <1>4, LenProperties DEF S
<1> QED BY <1>5

-----------------------------------------------------------------------------
(* The meaning of a call                                                   *)

PartsOf(p)      == Seq(Parts)
OfPart(part)    == part.text \o Meaning[<<part.fmt, part.args>>]
MeaningOfBody(means, ps, p) ==
    IF ps = <<>> THEN <<>>
    ELSE Head(ps).text \o Meaning[<<Head(ps).fmt, Head(ps).args>>] \o means[Tail(ps)]

Summing == INSTANCE Recursion WITH
    Arguments <- PartsOf, Rank <- Length, Body <- MeaningOfBody

LEMMA MeaningOfStep ==
    ASSUME NEW ps \in Seq(Parts)
    PROVE  MeaningOf[ps] = IF ps = <<>> THEN <<>>
                           ELSE OfPart(Head(ps)) \o MeaningOf[Tail(ps)]
<1>1. ASSUME NEW s \in PartsOf(0), NEW f, NEW g, Summing!AgreeBelow(f, g, s, 0)
      PROVE  MeaningOfBody(f, s, 0) = MeaningOfBody(g, s, 0)
  <2>1. CASE s # <<>>
    <3>1. Tail(s) \in PartsOf(0) /\ Length(Tail(s)) < Length(s)
      BY <2>1, TailIs DEF PartsOf, Length
    <3>2. f[Tail(s)] = g[Tail(s)]
      BY <1>1, <3>1 DEF Summing!AgreeBelow
    <3> QED BY <3>2 DEF MeaningOfBody
  <2>2. CASE s = <<>>
    BY <2>2 DEF MeaningOfBody
  <2> QED BY <2>1, <2>2
<1>2. \A s \in PartsOf(0) : Length(s) \in Nat
  BY DEF PartsOf, Length
<1>3. Summing!LooksBelow(0)
  BY <1>1, <1>2, Zenon DEF Summing!LooksBelow
<1>4. Summing!Obeys(Summing!Function(0), 0)
  BY <1>3, Summing!FunctionObeys
<1>5. MeaningOf = Summing!Function(0)
  BY Zenon DEF MeaningOf, Summing!Function, Summing!Obeys, MeaningOfBody, PartsOf
<1>6. ps \in PartsOf(0)
  BY DEF PartsOf
<1>7. MeaningOf[ps] = MeaningOfBody(MeaningOf, ps, 0)
  BY <1>4, <1>5, <1>6 DEF Summing!Obeys
<1> QED BY <1>7, Zenon DEF MeaningOfBody, OfPart

\* The arguments of each part are those of its format.
FittingParts(ps) == \A i \in DOMAIN ps : ps[i].args \in ArgumentsFor(ps[i].fmt)

LEMMA OfPartType ==
    ASSUME NEW part \in Parts, part.args \in ArgumentsFor(part.fmt)
    PROVE  OfPart(part) \in Seq(Chars)
<1>1. part.text \in Seq(Chars) /\ part.fmt \in Seq(Chars)
  BY DEF Parts
<1>2. Meaning[<<part.fmt, part.args>>] \in Seq(Chars)
  BY <1>1, MeaningType
<1> QED BY <1>1, <1>2, ConcatProperties DEF OfPart

LEMMA FittingTail ==
    ASSUME NEW ps \in Seq(Parts), ps # <<>>, FittingParts(ps)
    PROVE  /\ Head(ps) \in Parts /\ Head(ps).args \in ArgumentsFor(Head(ps).fmt)
           /\ Tail(ps) \in Seq(Parts) /\ FittingParts(Tail(ps))
           /\ Len(Tail(ps)) = Len(ps) - 1
<1>1. PICK n \in Nat : n = Len(ps) /\ n >= 1
  BY TailIs
<1>2. PICK rest \in Seq(Parts) : /\ rest = Tail(ps) /\ Len(rest) = n - 1
                                 /\ \A i \in 1 .. n - 1 : rest[i] = ps[i + 1]
  <2>1. /\ Tail(ps) \in Seq(Parts) /\ Len(Tail(ps)) = Len(ps) - 1
        /\ \A i \in 1 .. Len(ps) - 1 : Tail(ps)[i] = ps[i + 1]
    BY TailIs
  <2> QED BY <1>1, <2>1
<1>3. \A i \in 1 .. n : ps[i].args \in ArgumentsFor(ps[i].fmt)
  BY <1>1, LenProperties DEF FittingParts
<1>4. DOMAIN rest = 1 .. n - 1
  BY <1>2, LenProperties
<1>5. ASSUME NEW i \in 1 .. n - 1 PROVE rest[i].args \in ArgumentsFor(rest[i].fmt)
  <2>1. i + 1 \in 1 .. n /\ rest[i] = ps[i + 1]
    BY <1>1, <1>2
  <2> QED BY <1>3, <2>1
<1>6. Head(ps) = ps[1] /\ ps[1] \in Parts /\ 1 \in 1 .. n
  BY <1>1, TailIs
<1> QED BY <1>1, <1>2, <1>3, <1>4, <1>5, <1>6 DEF FittingParts

LEMMA MeaningOfType ==
    ASSUME NEW ps \in Seq(Parts), FittingParts(ps)
    PROVE  MeaningOf[ps] \in Seq(Chars)
<1> DEFINE S == {n \in Nat : \A s \in Seq(Parts) :
                    Len(s) <= n /\ FittingParts(s) => MeaningOf[s] \in Seq(Chars)}
<1>1. MeaningOf[<<>>] \in Seq(Chars)
  <2>1. <<>> \in Seq(Parts) /\ <<>> \in Seq(Chars)
    OBVIOUS
  <2>2. MeaningOf[<<>>] = <<>>
    BY <2>1, MeaningOfStep
  <2> QED BY <2>1, <2>2
<1>2. 0 \in S
  <2> SUFFICES ASSUME NEW s \in Seq(Parts), Len(s) <= 0
               PROVE  MeaningOf[s] \in Seq(Chars)
    OBVIOUS
  <2>1. s = <<>>
    BY EmptySeq
  <2> QED BY <1>1, <2>1
<1>3. ASSUME NEW n \in Nat, n \in S PROVE n + 1 \in S
  <2> SUFFICES ASSUME NEW s \in Seq(Parts), Len(s) <= n + 1, FittingParts(s)
               PROVE  MeaningOf[s] \in Seq(Chars)
    OBVIOUS
  <2>1. CASE s = <<>>
    BY <1>1, <2>1
  <2>2. CASE s # <<>>
    <3>1. PICK rest \in Seq(Parts) : rest = Tail(s) /\ FittingParts(rest) /\ Len(rest) <= n
      <4>1. Tail(s) \in Seq(Parts) /\ FittingParts(Tail(s)) /\ Len(Tail(s)) = Len(s) - 1
        BY <2>2, FittingTail
      <4>2. Len(s) \in Nat
        OBVIOUS
      <4>3. Len(Tail(s)) <= n
        BY <4>1, <4>2
      <4> HIDE DEF S
      <4> QED BY <4>1, <4>3
    <3>2. MeaningOf[rest] \in Seq(Chars)
      BY <1>3, <3>1
    <3>3. OfPart(Head(s)) \in Seq(Chars)
      BY <2>2, FittingTail, OfPartType
    <3>4. MeaningOf[s] = OfPart(Head(s)) \o MeaningOf[rest]
      BY <2>2, <3>1, MeaningOfStep
    <3> QED BY <3>2, <3>3, <3>4, ConcatProperties
  <2> QED BY <2>1, <2>2
<1> HIDE DEF S
<1>4. Len(ps) \in S
  BY <1>2, <1>3, LenProperties, Summing!SetInduction
<1> QED BY <1>4, LenProperties DEF S

-----------------------------------------------------------------------------
(* The machine within a format                                             *)

\* The characters of the conversion at hand that were consumed.
Pending ==
    IF state = "normal" THEN <<>>
    ELSE IF state = "length" THEN <<"%">>
    ELSE IF state = "length_short" THEN <<"%", "h">>
    ELSE IF state = "length_long" THEN <<"%", "l">>
    ELSE IF length = "short_short" THEN <<"%", "h", "h">> ELSE <<"%", "l", "l">>

States == {"normal", "length", "length_short", "length_long", "spec"}

LengthKnown ==
    /\ Pending \in Seq(Chars)
    /\ state \in {"normal", "length"} => length = "default"
    /\ state = "length_short" => length = "short"
    /\ state = "length_long" => length = "long"
    /\ state = "spec" => length \in {"short_short", "long_long"}

LEMMA PendingIs ==
    ASSUME state \in States \ {"normal"}
    PROVE  /\ Len(Pending) = IF state = "length" THEN 1 ELSE IF state = "spec" THEN 3 ELSE 2
           /\ Pending[1] = "%"
           /\ state = "length_short" => Pending[2] = "h"
           /\ state = "length_long" => Pending[2] = "l"
           /\ state = "spec" /\ length = "short_short" => Pending[2] = "h" /\ Pending[3] = "h"
           /\ state = "spec" /\ length # "short_short" => Pending[2] = "l" /\ Pending[3] = "l"
<1>1. CASE state = "length"
  <2>1. Pending = <<"%">>
    BY <1>1 DEF Pending
  <2> QED BY <1>1, <2>1
<1>2. CASE state = "length_short"
  <2>1. Pending = <<"%", "h">>
    BY <1>2 DEF Pending
  <2> QED BY <1>2, <2>1
<1>3. CASE state = "length_long"
  <2>1. Pending = <<"%", "l">>
    BY <1>3 DEF Pending
  <2> QED BY <1>3, <2>1
<1>4. CASE state = "spec" /\ length = "short_short"
  <2>1. Pending = <<"%", "h", "h">>
    BY <1>4 DEF Pending
  <2> QED BY <1>4, <2>1
<1>5. CASE state = "spec" /\ length # "short_short"
  <2>1. Pending = <<"%", "l", "l">>
    BY <1>5 DEF Pending
  <2> QED BY <1>5, <2>1
<1> QED BY <1>1, <1>2, <1>3, <1>4, <1>5 DEF States

LEMMA LengtheningIs ==
    ASSUME state \in States \ {"normal"}
    PROVE  /\ Lengthening = IF state = "length" /\ Head(fmt) = "h"
                            THEN <<"short", "length_short">>
                            ELSE IF state = "length" /\ Head(fmt) = "l"
                            THEN <<"long", "length_long">>
                            ELSE IF state = "length_short" /\ Head(fmt) = "h"
                            THEN <<"short_short", "spec">>
                            ELSE IF state = "length_long" /\ Head(fmt) = "l"
                            THEN <<"long_long", "spec">>
                            ELSE <<>>
<1>1. CASE state = "length" /\ Head(fmt) = "h"
  BY <1>1, Zenon DEF Lengthening
<1>2. CASE state = "length" /\ Head(fmt) = "l"
  BY <1>2, Zenon DEF Lengthening
<1>3. CASE state = "length_short" /\ Head(fmt) = "h"
  BY <1>3, Zenon DEF Lengthening
<1>4. CASE state = "length_long" /\ Head(fmt) = "l"
  BY <1>4, Zenon DEF Lengthening
<1>5. CASE /\ ~(state = "length" /\ Head(fmt) = "h") /\ ~(state = "length" /\ Head(fmt) = "l")
           /\ ~(state = "length_short" /\ Head(fmt) = "h")
           /\ ~(state = "length_long" /\ Head(fmt) = "l")
  <2>1. Lengthening = <<>>
    BY <1>5, Zenon DEF Lengthening
  <2> QED BY <1>5, <2>1
<1> QED BY <1>1, <1>2, <1>3, <1>4, <1>5, Zenon

\* What the machine was given, from the item it is in on.
Ahead == Pending \o fmt

LEMMA AheadIs ==
    ASSUME fmt \in Seq(Chars), LengthKnown, state \in States \ {"normal"}
    PROVE  \E k \in 1 .. 3 :
              /\ k = Len(Pending) /\ Ahead \in Seq(Chars) /\ Len(Ahead) = k + Len(fmt)
              /\ \A i \in 1 .. k : Ahead[i] = Pending[i]
              /\ \A i \in 1 .. Len(fmt) : Ahead[k + i] = fmt[i]
<1>1. PICK k \in 1 .. 3 : k = Len(Pending)
  BY PendingIs
<1>2. PICK p \in Seq(Chars) : p = Pending /\ Len(p) = k
  BY <1>1 DEF LengthKnown
<1>3. PICK n \in Nat : n = Len(fmt)
  BY LenProperties
<1>4. /\ p \o fmt \in Seq(Chars) /\ Len(p \o fmt) = k + n
      /\ \A i \in 1 .. k + n : (p \o fmt)[i] = IF i <= k THEN p[i] ELSE fmt[i - k]
  BY <1>2, <1>3, ConcatProperties
<1>5. \A i \in 1 .. k : (p \o fmt)[i] = p[i]
  BY <1>3, <1>4
<1>6. ASSUME NEW i \in 1 .. n PROVE (p \o fmt)[k + i] = fmt[i]
  <2>1. k + i \in 1 .. k + n /\ ~(k + i <= k) /\ (k + i) - k = i
    BY <1>3
  <2> QED BY <1>4, <2>1
<1> QED BY <1>1, <1>2, <1>3, <1>4, <1>5, <1>6 DEF Ahead

\* The item ends with the next character, if there is one, unless that is read
\* as a length.
LEMMA AheadItemLength ==
    ASSUME fmt \in Seq(Chars), LengthKnown, state \in States \ {"normal"},
           fmt = <<>> \/ Lengthening = <<>>
    PROVE  Ahead # <<>> /\ ItemLength(Ahead) = Len(Pending) + 1
<1>1. PICK k \in 1 .. 3 : /\ k = Len(Pending) /\ Ahead \in Seq(Chars)
                          /\ Len(Ahead) = k + Len(fmt)
                          /\ \A i \in 1 .. k : Ahead[i] = Pending[i]
                          /\ \A i \in 1 .. Len(fmt) : Ahead[k + i] = fmt[i]
  BY AheadIs
<1>2. PICK w \in Seq(Chars) : w = Ahead
  BY <1>1
<1>3. PICK n \in Nat : n = Len(fmt)
  BY LenProperties
<1>4. /\ Len(w) = k + n /\ w # <<>>
      /\ \A i \in 1 .. k : w[i] = Pending[i]
      /\ n >= 1 => w[k + 1] = fmt[1]
  BY <1>1, <1>2, <1>3
<1>5. PICK t \in Seq(Chars) : t = Tail(w)
  BY <1>4, TailIs
<1>6. /\ Len(t) = k + n - 1
      /\ k + n - 1 >= 1 => t[1] = w[2]
      /\ k + n - 1 >= 2 => t[2] = w[3]
  BY <1>3, <1>4, <1>5, TailIs
<1>7. w[1] = "%"
  BY <1>4, PendingIs
<1>8. Longest(t) = IF k + n - 1 >= 1 /\ w[2] \in {"h", "l"}
                   THEN IF k + n - 1 >= 2 /\ w[3] = w[2] THEN 2 ELSE 1 ELSE 0
  BY <1>3, <1>6, LongestIs
<1>9. n >= 1 => /\ state = "length" => fmt[1] \notin {"h", "l"}
                /\ state = "length_short" => fmt[1] # "h"
                /\ state = "length_long" => fmt[1] # "l"
  <2> SUFFICES ASSUME n >= 1 PROVE /\ state = "length" => fmt[1] \notin {"h", "l"}
                                   /\ state = "length_short" => fmt[1] # "h"
                                   /\ state = "length_long" => fmt[1] # "l"
    OBVIOUS
  <2>1. fmt # <<>> /\ Head(fmt) = fmt[1]
    BY <1>3, TailIs, EmptySeq
  <2>2. Lengthening = <<>>
    BY <2>1
  <2> QED BY <2>1, <2>2, LengtheningIs
<1>10. Longest(t) = k - 1
  <2>1. CASE state = "length"
    <3>1. k = 1
      BY <1>1, <2>1, PendingIs
    <3>2. Longest(t) = IF n >= 1 /\ w[2] \in {"h", "l"}
                       THEN IF n >= 2 /\ w[3] = w[2] THEN 2 ELSE 1 ELSE 0
      BY <1>3, <1>8, <3>1
    <3>3. n >= 1 => w[2] = fmt[1]
      BY <1>4, <3>1
    <3> QED BY <1>9, <2>1, <3>1, <3>2, <3>3
  <2>2. CASE state \in {"length_short", "length_long"}
    <3>1. /\ k = 2
          /\ state = "length_short" => w[2] = "h"
          /\ state = "length_long" => w[2] = "l"
      BY <1>1, <1>4, <2>2, PendingIs
    <3>2. Longest(t) = IF w[2] \in {"h", "l"}
                       THEN IF n >= 1 /\ w[3] = w[2] THEN 2 ELSE 1 ELSE 0
      BY <1>3, <1>8, <3>1
    <3>3. n >= 1 => w[3] = fmt[1]
      BY <1>4, <3>1
    <3> QED BY <1>9, <2>2, <3>1, <3>2, <3>3
  <2>3. CASE state = "spec"
    <3>1. k = 3 /\ w[2] = Pending[2] /\ w[3] = Pending[3]
      <4>1. k = 3
        BY <1>1, <2>3, PendingIs
      <4>2. 2 \in 1 .. k /\ 3 \in 1 .. k
        BY <4>1
      <4> QED BY <1>4, <4>1, <4>2
    <3>2. w[2] \in {"h", "l"} /\ w[3] = w[2]
      BY <2>3, <3>1, PendingIs
    <3>3. Longest(t) = IF w[2] \in {"h", "l"} THEN IF w[3] = w[2] THEN 2 ELSE 1 ELSE 0
      BY <1>3, <1>8, <3>1
    <3> QED BY <3>1, <3>2, <3>3
  <2> QED BY <2>1, <2>2, <2>3 DEF States
<1>11. ItemLength(w) = 2 + Longest(t)
  BY <1>4, <1>5, <1>7, ItemLengthIs
<1> QED BY <1>1, <1>2, <1>4, <1>10, <1>11


LEMMA AheadIsText ==
    ASSUME fmt \in Seq(Chars), LengthKnown, state \in States
    PROVE  /\ Ahead \in Seq(Chars)
           /\ state = "normal" => Ahead = fmt
           /\ fmt = <<>> => ~HasItem(Ahead)
<1>1. CASE state = "normal"
  <2>1. Pending = <<>>
    BY <1>1 DEF Pending
  <2>2. Ahead = fmt
    BY <2>1, ConcatEmptySeq DEF Ahead
  <2> QED BY <1>1, <2>2 DEF HasItem
<1>2. CASE state \in States \ {"normal"}
  <2>1. PICK k \in 1 .. 3 : k = Len(Pending) /\ Ahead \in Seq(Chars) /\ Len(Ahead) = k + Len(fmt)
    BY <1>2, AheadIs
  <2>2. ASSUME fmt = <<>> PROVE ~HasItem(Ahead)
    <3>1. ItemLength(Ahead) = Len(Pending) + 1
      BY <1>2, <2>2, AheadItemLength
    <3>2. Len(Ahead) = Len(Pending)
      BY <2>1, <2>2
    <3> QED BY <2>1, <3>1, <3>2 DEF HasItem
  <2> QED BY <1>2, <2>1, <2>2
<1> QED BY <1>1, <1>2

\* A character outside a conversion is an item that writes itself.
LEMMA NormalItem ==
    ASSUME fmt \in Seq(Chars), fmt # <<>>, Head(fmt) # "%", NEW a \in ArgumentsFor(fmt)
    PROVE  /\ Tail(fmt) \in Seq(Chars) /\ a \in ArgumentsFor(Tail(fmt))
           /\ Meaning[<<fmt, a>>] = <<Head(fmt)>> \o Meaning[<<Tail(fmt), a>>]
<1>1. PICK n \in Nat : n = Len(fmt) /\ n >= 1
  BY TailIs
<1>2. ItemLength(fmt) = 1 /\ fmt[1] = Head(fmt)
  BY TailIs, ItemLengthIs
<1>3. HasItem(fmt)
  BY <1>1, <1>2 DEF HasItem
<1>4. PICK item \in Seq(Chars) : item = Item(fmt) /\ Len(item) = 1 /\ item[1] = fmt[1]
  <2>1. /\ Item(fmt) \in Seq(Chars) /\ Len(Item(fmt)) = ItemLength(fmt)
        /\ \A i \in 1 .. ItemLength(fmt) : Item(fmt)[i] = fmt[i]
    BY <1>3, ItemIs
  <2> QED BY <1>2, <2>1
<1>5. Takes(item) = <<>> /\ Last(item) = Head(fmt)
  <2>1. Last(item) = item[1]
    BY <1>4 DEF Last
  <2>2. Takes(item) = <<>>
    BY <1>4, TakesIs
  <2> QED BY <1>2, <1>4, <2>1, <2>2
<1>6. Rest(fmt) = Tail(fmt)
  BY <1>2 DEF Rest, Tail
<1>7. Left(item, a) = a /\ a \in Seq(Arg) /\ Left(item, a) \in ArgumentsFor(Rest(fmt))
  BY <1>3, <1>4, <1>5, FitStep
<1>8. TextOf(item, a) = <<Head(fmt)>>
  BY <1>4, <1>5 DEF TextOf
<1>9. Meaning[<<fmt, a>>] = TextOf(item, a) \o Meaning[<<Rest(fmt), Left(item, a)>>]
  BY <1>3, <1>4, <1>7, MeaningStep
<1> QED BY <1>6, <1>7, <1>8, <1>9, TailIs

LEMMA AskedIs == \A spec : Asked(spec) = KindOf(spec, length = "long_long")
<1> SUFFICES ASSUME NEW spec PROVE Asked(spec) = KindOf(spec, length = "long_long")
  OBVIOUS
<1>1. CASE spec = "c"
  <2>1. Asked(spec) = "char"
    BY <1>1, Zenon DEF Asked, Signed, Unsigned
  <2> QED BY <1>1, <2>1, Zenon DEF KindOf
<1>2. CASE spec = "s"
  <2>1. Asked(spec) = "string"
    BY <1>2, Zenon DEF Asked, Signed, Unsigned
  <2> QED BY <1>2, <2>1, Zenon DEF KindOf
<1>3. CASE spec \in Signed \cup Unsigned
  <2>1. spec # "c" /\ spec # "s"
    BY <1>3, Zenon DEF Signed, Unsigned
  <2>2. Asked(spec) = IF length = "long_long" THEN "long" ELSE "word"
    BY <1>3, <2>1, Zenon DEF Asked
  <2> QED BY <1>3, <2>1, <2>2, Zenon DEF KindOf
<1>4. CASE spec # "c" /\ spec # "s" /\ spec \notin Signed \cup Unsigned
  <2>1. Asked(spec) = "none"
    BY <1>4, Zenon DEF Asked
  <2> QED BY <1>4, <2>1, Zenon DEF KindOf
<1> QED BY <1>1, <1>2, <1>3, <1>4

\* The last character of a conversion: what it asks for is what its item takes.
LEMMA SpecItem ==
    ASSUME fmt \in Seq(Chars), fmt # <<>>, LengthKnown, state \in States \ {"normal"},
           Lengthening = <<>>
    PROVE  /\ HasItem(Ahead) /\ Rest(Ahead) = Tail(fmt) /\ Tail(fmt) \in Seq(Chars)
           /\ Len(Item(Ahead)) # 1 /\ Last(Item(Ahead)) = Head(fmt)
           /\ Takes(Item(Ahead)) = Wanted(Asked(Head(fmt)))
<1>1. PICK k \in 1 .. 3 : /\ k = Len(Pending) /\ Ahead \in Seq(Chars)
                          /\ Len(Ahead) = k + Len(fmt)
                          /\ \A i \in 1 .. k : Ahead[i] = Pending[i]
                          /\ \A i \in 1 .. Len(fmt) : Ahead[k + i] = fmt[i]
  BY AheadIs
<1>2. PICK w \in Seq(Chars) : w = Ahead
  BY <1>1
<1>3. PICK n \in Nat : n = Len(fmt) /\ n >= 1
  BY TailIs
<1>4. /\ Len(w) = k + n
      /\ \A i \in 1 .. k : w[i] = Pending[i]
      /\ \A i \in 1 .. n : w[k + i] = fmt[i]
  BY <1>1, <1>2, <1>3
<1>5. w # <<>> /\ ItemLength(w) = k + 1
  BY <1>1, <1>2, AheadItemLength
<1>6. HasItem(w)
  BY <1>3, <1>4, <1>5 DEF HasItem
<1>7. PICK item \in Seq(Chars) : /\ item = Item(w) /\ Len(item) = k + 1
                                 /\ \A i \in 1 .. k + 1 : item[i] = w[i]
  <2>1. /\ Item(w) \in Seq(Chars) /\ Len(Item(w)) = ItemLength(w)
        /\ \A i \in 1 .. ItemLength(w) : Item(w)[i] = w[i]
    BY <1>6, ItemIs
  <2> QED BY <1>5, <2>1
<1>8. PICK rest \in Seq(Chars) : /\ rest = Rest(w) /\ Len(rest) = n - 1
                                 /\ \A i \in 1 .. n - 1 : rest[i] = w[k + 1 + i]
  <2>1. /\ Rest(w) \in Seq(Chars) /\ Len(Rest(w)) = Len(w) - ItemLength(w)
        /\ \A i \in 1 .. Len(w) - ItemLength(w) : Rest(w)[i] = w[ItemLength(w) + i]
    BY <1>6, ItemIs
  <2>2. Len(w) - ItemLength(w) = n - 1
    BY <1>3, <1>4, <1>5
  <2> QED BY <1>5, <2>1, <2>2
<1>9. /\ Head(fmt) = fmt[1] /\ Tail(fmt) \in Seq(Chars) /\ Len(Tail(fmt)) = n - 1
      /\ \A i \in 1 .. n - 1 : Tail(fmt)[i] = fmt[i + 1]
  BY <1>3, TailIs
<1>10. rest = Tail(fmt)
  <2>1. ASSUME NEW i \in 1 .. n - 1 PROVE rest[i] = Tail(fmt)[i]
    <3>1. i + 1 \in 1 .. n /\ k + (i + 1) = k + 1 + i
      BY <1>3
    <3> QED BY <1>4, <1>8, <1>9, <3>1
  <2>2. Len(rest) = Len(Tail(fmt)) /\ \A i \in 1 .. Len(rest) : rest[i] = Tail(fmt)[i]
    BY <1>8, <1>9, <2>1
  <2> QED BY <1>9, <2>2, SeqEqual
<1>11. Last(item) = Head(fmt)
  <2>1. Last(item) = item[k + 1]
    BY <1>7, LastIs
  <2>2. k + 1 \in 1 .. k + 1 /\ 1 \in 1 .. n
    BY <1>3
  <2> QED BY <1>4, <1>7, <1>9, <2>1, <2>2
<1> DEFINE middle == SubSeq(item, 2, Len(item) - 1)
<1>12. (middle = <<"l", "l">>) <=> (length = "long_long")
  <2>1. PICK front \in Seq(Chars) : /\ front = SubSeq(item, 1, k) /\ Len(front) = k
                                    /\ \A i \in 1 .. k : front[i] = Pending[i]
    <3>1. k \in 0 .. Len(item)
      BY <1>7
    <3>2. /\ SubSeq(item, 1, k) \in Seq(Chars) /\ Len(SubSeq(item, 1, k)) = k
          /\ \A i \in 1 .. k : SubSeq(item, 1, k)[i] = item[i]
      BY <3>1, TakeIs
    <3>3. \A i \in 1 .. k : item[i] = Pending[i]
      BY <1>4, <1>7
    <3> QED BY <3>2, <3>3
  <2>2. middle \in Seq(Chars) /\ Len(middle) = k - 1
        /\ \A i \in 1 .. k - 1 : middle[i] = Pending[i + 1]
    <3>1. \A i \in 2 .. k : item[i] \in Chars
      BY <1>7, ElementOfSeq
    <3>2. /\ SubSeq(item, 2, k) \in Seq(Chars)
          /\ Len(SubSeq(item, 2, k)) = IF 2 <= k THEN k - 2 + 1 ELSE 0
          /\ \A i \in 1 .. k - 2 + 1 : SubSeq(item, 2, k)[i] = item[2 + i - 1]
      BY <3>1, SubSeqProperties
    <3>3. middle = SubSeq(item, 2, k)
      BY <1>7
    <3>4. ASSUME NEW i \in 1 .. k - 1 PROVE SubSeq(item, 2, k)[i] = Pending[i + 1]
      <4>1. i \in 1 .. k - 2 + 1 /\ 2 + i - 1 = i + 1 /\ i + 1 \in 1 .. k /\ i + 1 \in 1 .. k + 1
        OBVIOUS
      <4> QED BY <1>4, <1>7, <3>2, <4>1
    <3> QED BY <3>2, <3>3, <3>4
  <2> HIDE DEF middle
  <2>3. CASE state = "spec"
    <3>1. k = 3
      BY <1>1, <2>3, PendingIs
    <3>2. Len(middle) = 2 /\ middle[1] = Pending[2] /\ middle[2] = Pending[3]
      BY <2>2, <3>1
    <3>3. CASE length = "short_short"
      <4>1. middle[1] = "h"
        BY <2>3, <3>2, <3>3, PendingIs
      <4> QED BY <3>3, <4>1
    <3>4. CASE length = "long_long"
      <4>1. middle[1] = "l" /\ middle[2] = "l"
        BY <2>3, <3>2, <3>4, PendingIs
      <4> QED BY <2>2, <3>2, <3>4, <4>1
    <3> QED BY <2>3, <3>3, <3>4 DEF LengthKnown
  <2>4. CASE state # "spec"
    <3>1. k # 3
      <4>1. Len(Pending) = IF state = "length" THEN 1 ELSE IF state = "spec" THEN 3 ELSE 2
        BY PendingIs
      <4>2. Len(Pending) = IF state = "length" THEN 1 ELSE 2
        BY <2>4, <4>1
      <4> QED BY <1>1, <4>2
    <3>2. Len(middle) # 2
      BY <2>2, <3>1
    <3> QED BY <2>4, <3>2 DEF LengthKnown, States
  <2> QED BY <2>3, <2>4
<1>13. Takes(item) = Wanted(Asked(Head(fmt)))
  <2>1. Len(item) # 1
    BY <1>7
  <2>2. Takes(item) = Wanted(KindOf(Last(item), middle = <<"l", "l">>))
    BY <2>1, TakesIs
  <2>3. KindOf(Last(item), middle = <<"l", "l">>) = KindOf(Head(fmt), length = "long_long")
    BY <1>11, <1>12, Zenon DEF KindOf
  <2> QED BY <2>2, <2>3, AskedIs
<1> QED BY <1>2, <1>6, <1>7, <1>8, <1>9, <1>10, <1>11, <1>13


\* A character moves from one sequence to the one before it.
LEMMA MoveOne ==
    ASSUME NEW S, NEW w \in Seq(S), NEW q \in Seq(S), NEW r \in Seq(S), q # <<>>
    PROVE  Append(w, Head(q)) \o (Tail(q) \o r) = w \o (q \o r)
<1>1. PICK h \in S, t \in Seq(S) : h = Head(q) /\ t = Tail(q)
  BY TailIs
<1>2. PICK one \in Seq(S) : one = <<h>>
  <2>1. <<h>> \in Seq(S)
    OBVIOUS
  <2> QED BY <2>1
<1>3. q = one \o t
  <2>1. PICK n \in Nat : n = Len(q) /\ n >= 1
    BY TailIs
  <2>2. PICK x \in Seq(S) : /\ x = one \o t /\ Len(x) = 1 + (n - 1)
                            /\ \A i \in 1 .. 1 + (n - 1) : x[i] = IF i <= 1 THEN one[i] ELSE t[i - 1]
    <3>1. Len(one) = 1 /\ Len(t) = n - 1
      BY <1>1, <1>2, <2>1, TailIs
    <3>2. /\ one \o t \in Seq(S) /\ Len(one \o t) = Len(one) + Len(t)
          /\ \A i \in 1 .. Len(one) + Len(t) :
                (one \o t)[i] = IF i <= Len(one) THEN one[i] ELSE t[i - Len(one)]
      BY ConcatProperties
    <3> QED BY <3>1, <3>2
  <2>3. ASSUME NEW i \in 1 .. n PROVE q[i] = x[i]
    <3>1. CASE i = 1
      BY <1>1, <1>2, <2>1, <2>2, <3>1, TailIs
    <3>2. CASE i # 1
      <4>1. i - 1 \in 1 .. n - 1 /\ (i - 1) + 1 = i /\ ~(i <= 1) /\ i \in 1 .. 1 + (n - 1)
        BY <2>1, <3>2
      <4>2. \A j \in 1 .. n - 1 : t[j] = q[j + 1]
        BY <1>1, <2>1, TailIs
      <4> QED BY <2>2, <4>1, <4>2
    <3> QED BY <3>1, <3>2
  <2>4. Len(q) = Len(x) /\ \A i \in 1 .. Len(q) : q[i] = x[i]
    BY <2>1, <2>2, <2>3
  <2> QED BY <2>2, <2>4, SeqEqual
<1>4. Append(w, h) = w \o one
  BY <1>2, AppendIsConcat
<1>5. t \o r \in Seq(S)
  BY ConcatProperties
<1>6. (w \o one) \o (t \o r) = w \o (one \o (t \o r))
  BY <1>1, <1>2, <1>5, ConcatAssociative, SMTT(40)
<1>7. one \o (t \o r) = (one \o t) \o r
  BY <1>1, <1>2, ConcatAssociative
<1> QED BY <1>1, <1>3, <1>4, <1>6, <1>7

LEMMA HeadAndTail ==
    ASSUME NEW S, NEW p \in Seq(S), NEW q \in Seq(S), q # <<>>
    PROVE  (p \o <<Head(q)>>) \o Tail(q) = p \o q
<1>1. <<>> \in Seq(S)
  OBVIOUS
<1>2. Head(q) \in S /\ Tail(q) \in Seq(S)
  BY TailIs
<1>3. Append(p, Head(q)) \o (Tail(q) \o <<>>) = p \o (q \o <<>>)
  BY <1>1, MoveOne
<1>4. Tail(q) \o <<>> = Tail(q) /\ q \o <<>> = q
  BY <1>2, ConcatEmptySeq
<1>5. Append(p, Head(q)) = p \o <<Head(q)>>
  BY <1>2, AppendIsConcat
<1> QED BY <1>3, <1>4, <1>5

\* Reading a percent sign or a length.
LEMMA Reads ==
    ASSUME fmt \in Seq(Chars), fmt # <<>>, LengthKnown, state \in States,
           fmt' = Tail(fmt), Pending' = Append(Pending, Head(fmt))
    PROVE  Ahead' = Ahead /\ Pending' \in Seq(Chars)
<1>1. PICK p \in Seq(Chars) : p = Pending
  BY DEF LengthKnown
<1>2. Head(fmt) \in Chars
  BY TailIs
<1>3. Append(p, Head(fmt)) = p \o <<Head(fmt)>> /\ Append(p, Head(fmt)) \in Seq(Chars)
  BY <1>2, AppendIsConcat, AppendProperties
<1>4. (p \o <<Head(fmt)>>) \o Tail(fmt) = p \o fmt
  BY HeadAndTail
<1>5. Ahead' = Pending' \o fmt'
  BY DEF Ahead
<1>6. Ahead = p \o fmt
  BY <1>1 DEF Ahead
<1> QED BY <1>1, <1>3, <1>4, <1>5, <1>6

LEMMA PercentRead ==
    ASSUME fmt \in Seq(Chars), fmt # <<>>, LengthKnown, state = "normal",
           Head(fmt) = "%", fmt' = Tail(fmt), state' = "length", length' = length
    PROVE  Ahead' = Ahead /\ LengthKnown'
<1>1. Pending = <<>> /\ Pending' = <<"%">>
  BY DEF Pending
<1>2. Append(<<>>, "%") = <<"%">>
  OBVIOUS
<1>3. Pending' = Append(Pending, Head(fmt))
  BY <1>1, <1>2
<1>4. Ahead' = Ahead /\ Pending' \in Seq(Chars)
  BY <1>3, Reads DEF States
<1> QED BY <1>4 DEF LengthKnown

LEMMA LengthRead ==
    ASSUME fmt \in Seq(Chars), LengthKnown, state \in States, LengthTurn
    PROVE  /\ Ahead' = Ahead /\ LengthKnown' /\ state' \in States
           /\ length' \in {"short_short", "short", "long", "long_long"}
<1>1. /\ fmt # <<>> /\ fmt' = Tail(fmt) /\ state # "normal" /\ Lengthening # <<>>
      /\ length' = Lengthening[1] /\ state' = Lengthening[2]
  BY DEF LengthTurn, Consume
<1>2. CASE state = "length" /\ Head(fmt) = "h"
  <2>1. length' = "short" /\ state' = "length_short"
    BY <1>1, <1>2, LengtheningIs DEF States
  <2>2. Pending' = Append(Pending, Head(fmt))
    <3>1. Pending = <<"%">> /\ Pending' = <<"%", "h">>
      BY <1>2, <2>1 DEF Pending
    <3> QED BY <1>2, <3>1
  <2> QED BY <1>1, <2>1, <2>2, Reads DEF States, LengthKnown
<1>3. CASE state = "length" /\ Head(fmt) = "l"
  <2>1. length' = "long" /\ state' = "length_long"
    BY <1>1, <1>3, LengtheningIs DEF States
  <2>2. Pending' = Append(Pending, Head(fmt))
    <3>1. Pending = <<"%">> /\ Pending' = <<"%", "l">>
      BY <1>3, <2>1 DEF Pending
    <3> QED BY <1>3, <3>1
  <2> QED BY <1>1, <2>1, <2>2, Reads DEF States, LengthKnown
<1>4. CASE state = "length_short" /\ Head(fmt) = "h"
  <2>1. length' = "short_short" /\ state' = "spec"
    BY <1>1, <1>4, LengtheningIs DEF States
  <2>2. Pending' = Append(Pending, Head(fmt))
    <3>1. Pending = <<"%", "h">> /\ Pending' = <<"%", "h", "h">>
      BY <1>4, <2>1 DEF Pending
    <3> QED BY <1>4, <3>1
  <2> QED BY <1>1, <2>1, <2>2, Reads DEF States, LengthKnown
<1>5. CASE state = "length_long" /\ Head(fmt) = "l"
  <2>1. length' = "long_long" /\ state' = "spec"
    BY <1>1, <1>5, LengtheningIs DEF States
  <2>2. Pending' = Append(Pending, Head(fmt))
    <3>1. Pending = <<"%", "l">> /\ Pending' = <<"%", "l", "l">>
      BY <1>5, <2>1 DEF Pending
    <3> QED BY <1>5, <3>1
  <2> QED BY <1>1, <2>1, <2>2, Reads DEF States, LengthKnown
<1> QED BY <1>1, <1>2, <1>3, <1>4, <1>5, LengtheningIs

-----------------------------------------------------------------------------
(* The invariant                                                           *)

Lengths == {"default", "short_short", "short", "long", "long_long"}

Context == program \in Programs /\ file \in Files[program]

MachineTyped ==
    /\ busy \in BOOLEAN /\ ok \in BOOLEAN /\ signs \in BOOLEAN
    /\ fmt \in Seq(Chars) /\ queue \in Seq(Chars) /\ args \in Seq(Arg)
    /\ state \in States /\ length \in Lengths /\ parts \in Seq(Parts)
    /\ calls \in 0 .. MaxCalls
    /\ written \in Seq(Chars) /\ meaning \in Seq(Chars)

\* Between calls nothing is left of the last one; after a failure, which only
\* another device has, nothing is queued, and it has no parts to come.
Resting ==
    /\ ~busy => /\ ok /\ ~signs /\ state = "normal"
                /\ fmt = <<>> /\ args = <<>> /\ queue = <<>> /\ parts = <<>>
                /\ written = <<>> /\ meaning = <<>>
    /\ ~ok => file = "other" /\ queue = <<>>
    /\ file = "other" => parts = <<>>

\* The arguments left are those of what is left of the format.
Fitting == (ok => args \in ArgumentsFor(Ahead)) /\ FittingParts(parts)

\* What the format and the parts to come mean.
Owed == Meaning[<<Ahead, args>>] \o MeaningOf[parts]

\* What was written, what is queued and what is owed are what was meant.
Told ==
    ~(signs /\ program = "core")
    => IF ok THEN written \o (queue \o Owed) = meaning ELSE IsStrictPrefix(written, meaning)

MachineInv == Context /\ MachineTyped /\ LengthKnown /\ Resting /\ Fitting /\ Told

IInv == MachineInv /\ Showing

LEMMA TypesInvariant == IInv => TypeOK
BY ShowingMeans, Zenon DEF IInv, MachineInv, Context, MachineTyped, TypeOK, States, Lengths

LEMMA NothingAhead ==
    ASSUME MachineTyped, LengthKnown, Fitting, ok, fmt = <<>>
    PROVE  Meaning[<<Ahead, args>>] = <<>> /\ args = <<>>
<1>1. Ahead \in Seq(Chars) /\ ~HasItem(Ahead)
  BY AheadIsText DEF MachineTyped
<1>2. args \in ArgumentsFor(Ahead)
  BY DEF Fitting
<1> QED BY <1>1, <1>2, FitStep, MeaningStep

LEMMA OwedType ==
    ASSUME MachineTyped, LengthKnown, Fitting, ok
    PROVE  /\ Meaning[<<Ahead, args>>] \in Seq(Chars) /\ MeaningOf[parts] \in Seq(Chars)
           /\ Owed \in Seq(Chars)
<1>1. Ahead \in Seq(Chars) /\ args \in ArgumentsFor(Ahead)
  BY AheadIsText DEF MachineTyped, Fitting
<1>2. Meaning[<<Ahead, args>>] \in Seq(Chars)
  BY <1>1, MeaningType
<1>3. MeaningOf[parts] \in Seq(Chars)
  BY MeaningOfType DEF MachineTyped, Fitting
<1> QED BY <1>2, <1>3, ConcatProperties DEF Owed

LEMMA NothingMeant == MeaningOf[<<>>] = <<>> /\ FittingParts(<<>>) /\ <<>> \in Seq(Parts)
<1>1. <<>> \in Seq(Parts) /\ DOMAIN <<>> = {}
  OBVIOUS
<1> QED BY <1>1, MeaningOfStep DEF FittingParts

\* A call that is done has written what it was to write.
LEMMA InvariantTells == IInv => OutputIsMeaning
<1> SUFFICES ASSUME IInv, Ready, fmt = <<>>, parts = <<>>, ~(signs /\ program = "core")
             PROVE  IF ok THEN written = meaning ELSE IsStrictPrefix(written, meaning)
  BY Zenon DEF OutputIsMeaning
<1>1. CASE ok
  <2>1. Meaning[<<Ahead, args>>] = <<>>
    BY <1>1, NothingAhead DEF IInv, MachineInv
  <2>2. MeaningOf[parts] = <<>>
    BY NothingMeant
  <2>3. Owed = <<>>
    <3>1. <<>> \o <<>> = <<>>
      OBVIOUS
    <3> QED BY <2>1, <2>2, <3>1, Zenon DEF Owed
  <2>4. written \o (queue \o Owed) = meaning
    BY <1>1 DEF IInv, MachineInv, Told
  <2>5. queue = <<>> /\ written \in Seq(Chars)
    BY DEF Ready, IInv, MachineInv, MachineTyped
  <2>6. <<>> \o <<>> = <<>> /\ written \o <<>> = written
    BY <2>5, ConcatEmptySeq
  <2>7. written = meaning
    BY <2>3, <2>4, <2>5, <2>6
  <2> QED BY <1>1, <2>7
<1>2. CASE ~ok
  BY <1>2 DEF IInv, MachineInv, Told
<1> QED BY <1>1, <1>2

\* Nothing is left of a call.
AtRest ==
    /\ state = "normal" /\ fmt = <<>> /\ args = <<>> /\ queue = <<>> /\ parts = <<>>
    /\ written = <<>> /\ meaning = <<>> /\ length = "default"
    /\ ok

LEMMA RestingTells ==
    AtRest => LengthKnown /\ Fitting /\ Told /\ Ahead = <<>>
<1> SUFFICES ASSUME AtRest PROVE LengthKnown /\ Fitting /\ Told /\ Ahead = <<>>
  OBVIOUS
<1>1. <<>> \in Seq(Chars) /\ <<>> \in Seq(Arg) /\ <<>> \o <<>> = <<>>
  OBVIOUS
<1>2. Pending = <<>> /\ LengthKnown
  BY <1>1 DEF AtRest, Pending, LengthKnown
<1>3. Ahead = <<>>
  BY <1>1, <1>2 DEF AtRest, Ahead
<1>4. args \in ArgumentsFor(Ahead)
  <2>1. ~HasItem(<<>>)
    BY DEF HasItem
  <2>2. Kinds[<<>>] = <<>>
    BY <1>1, <2>1, KindsStep
  <2>3. Match(<<>>, <<>>)
    BY DEF Match
  <2> QED BY <1>1, <1>3, <2>2, <2>3, FitIs DEF AtRest
<1>5. Fitting
  BY <1>4, NothingMeant DEF AtRest, Fitting
<1>6. Meaning[<<Ahead, args>>] = <<>>
  <2>1. ~HasItem(<<>>)
    BY DEF HasItem
  <2> QED BY <1>1, <1>3, <2>1, MeaningStep DEF AtRest
<1>7. Owed = <<>>
  BY <1>1, <1>6, NothingMeant DEF AtRest, Owed
<1>8. Told
  <2>1. PICK e : e = <<>>
    OBVIOUS
  <2>2. e \o (e \o e) = e
    BY <1>1, <2>1
  <2>3. written = e /\ meaning = e /\ queue = e /\ Owed = e
    BY <1>7, <2>1 DEF AtRest
  <2>4. written \o (queue \o Owed) = meaning /\ ok
    BY <2>2, <2>3 DEF AtRest
  <2> QED BY <2>4 DEF Told
<1> QED BY <1>2, <1>3, <1>5, <1>8

LEMMA InitInvariant == Init => IInv
<1> SUFFICES ASSUME Init PROVE IInv
  OBVIOUS
<1>1. Context
  BY DEF Init, Context
<1>2. <<>> \in Seq(Chars) /\ <<>> \in Seq(Arg)
  OBVIOUS
<1>3. AtRest /\ calls = 0 /\ busy = FALSE /\ ok = TRUE /\ signs = FALSE
  BY DEF Init, AtRest
<1>4. 0 \in 0 .. MaxCalls
  BY PrintfAssumption
<1>5. MachineTyped
  BY <1>2, <1>3, <1>4, NothingMeant DEF MachineTyped, AtRest, States, Lengths
<1>6. LengthKnown /\ Fitting /\ Told
  BY <1>3, RestingTells
<1>7. Resting
  BY <1>3 DEF Resting, AtRest
<1>8. Showing
  BY TabTypes, ClearedShows DEF Init, ConsoleInit, Cleared
<1> QED BY <1>1, <1>5, <1>6, <1>7, <1>8 DEF IInv, MachineInv

-----------------------------------------------------------------------------
(* The steps                                                               *)

LEMMA SameScreen ==
    ASSUME Showing, UNCHANGED <<screen, screenX, screenY, cursor, put>>,
           tab' \in {NO_TAB} \cup 0 .. 4
    PROVE  Showing'
<1>1. PICK page : page = Page[put]
  OBVIOUS
<1>2. Shows(page) /\ PageGoesOn(page) /\ put \in Seq(Chars)
  BY <1>1 DEF Showing
<1>3. Shows(page)'
  BY <1>2 DEF Shows
<1> QED BY <1>1, <1>2, <1>3 DEF Showing

LEMMA PutcKeeps ==
    ASSUME Showing, NEW c \in Chars, Putc(c)
    PROVE  Showing'
<1>1. CASE c = "\t"
  BY <1>1, SameScreen, TabTypes DEF Putc
<1>2. CASE c # "\t"
  <2>1. PutChar(c) /\ tab' = tab
    BY <1>2 DEF Putc
  <2>2. tab' \in {NO_TAB} \cup 0 .. 4
    BY <2>1 DEF Showing
  <2> QED BY <1>2, <2>1, <2>2, PutCharKeeps
<1> QED BY <1>1, <1>2

LEMMA TabKeeps == ASSUME Showing, TabTurn \/ TabEnds PROVE Showing'
<1>1. screenX \in Columns /\ screenY \in Rows
  BY ShowingMeans DEF ConsoleTypeOK
<1>2. PICK x \in Nat : x = screenX /\ x < SCREEN_WIDTH
  BY <1>1, Sizes DEF Columns
<1>3. CASE TabTurn
  <2>1. PICK c \in Printable : c = " "
    BY SpaceIsPrintable
  <2>2. tab # NO_TAB /\ tab < 4 - (screenX % 4) /\ tab' = tab + 1 /\ PutChar(c)
    BY <1>3, <2>1, Zenon DEF TabTurn
  <2>3. c \in Chars /\ c # "\t"
    BY Sizes DEF Chars
  <2>4. x % 4 \in 0 .. 3
    OBVIOUS
  <2>5. tab \in 0 .. 4
    BY <2>2 DEF Showing
  <2>6. tab' \in {NO_TAB} \cup 0 .. 4
    BY <1>2, <2>2, <2>4, <2>5
  <2> QED BY <2>2, <2>3, <2>6, PutCharKeeps
<1>4. CASE TabEnds
  <2>1. Settle(screen, screenX, screenY) /\ tab' = NO_TAB /\ put' = put
    BY <1>4 DEF TabEnds
  <2>2. ~(screenX >= SCREEN_WIDTH) /\ ~(screenY >= SCREEN_HEIGHT)
    BY <1>1, Sizes DEF Columns, Rows
  <2>3. screenX' = screenX /\ screenY' = screenY /\ screen' = screen
        /\ cursor' = screenY' * SCREEN_WIDTH + screenX'
    BY <2>1, <2>2 DEF Settle
  <2>4. cursor = screenY * SCREEN_WIDTH + screenX
    BY DEF Showing, Shows
  <2>5. cursor' = cursor
    BY <2>3, <2>4
  <2> QED BY <2>1, <2>3, <2>5, SameScreen, TabTypes
<1> QED BY <1>3, <1>4

LEMMA ClearKeeps == ASSUME Showing, ClearScreen PROVE Showing'
<1>1. Cleared'
  BY DEF ClearScreen, Cleared, Showing
<1>2. Cleared' => Showing'
  BY ClearedShows, PTL
<1> QED BY <1>1, <1>2


LEMMA SameAhead ==
    ASSUME fmt' = fmt, state' = state, length' = length
    PROVE  Pending' = Pending /\ Ahead' = Ahead /\ (LengthKnown => LengthKnown')
<1>1. Pending' = Pending
  BY DEF Pending
<1>2. Ahead' = Ahead
  BY <1>1 DEF Ahead
<1> QED BY <1>1, <1>2 DEF LengthKnown

LEMMA MachineSame ==
    ASSUME MachineInv, UNCHANGED <<program, file, busy, machine, written, meaning, signs>>,
           calls' \in 0 .. MaxCalls
    PROVE  MachineInv'
<1>1. /\ fmt' = fmt /\ state' = state /\ length' = length /\ args' = args
      /\ queue' = queue /\ parts' = parts /\ ok' = ok
      /\ program' = program /\ file' = file /\ busy' = busy
      /\ written' = written /\ meaning' = meaning /\ signs' = signs
  BY DEF machine
<1>2. Ahead' = Ahead /\ LengthKnown'
  BY <1>1, SameAhead DEF MachineInv
<1>3. Owed' = Owed
  BY <1>1, <1>2 DEF Owed
<1>4. Context'
  BY <1>1 DEF MachineInv, Context
<1>5. MachineTyped'
  BY <1>1 DEF MachineInv, MachineTyped
<1>6. Resting'
  BY <1>1 DEF MachineInv, Resting
<1>7. Fitting'
  BY <1>1, <1>2 DEF MachineInv, Fitting, FittingParts
<1>8. Told'
  <2>1. Told
    BY DEF MachineInv
  <2>2. queue' \o Owed' = queue \o Owed
    BY <1>1, <1>3
  <2>3. written' \o (queue' \o Owed') = written \o (queue \o Owed)
    BY <1>1, <2>2
  <2> QED BY <1>1, <2>1, <2>3, SMTT(40) DEF Told
<1> QED BY <1>2, <1>4, <1>5, <1>6, <1>7, <1>8 DEF MachineInv

LEMMA WriteNextKeeps ==
    ASSUME IInv, WriteNext
    PROVE  IInv'
<1>1. /\ busy /\ queue # <<>> /\ tab = NO_TAB
      /\ written' = Append(written, Head(queue)) /\ queue' = Tail(queue)
      /\ program' = program /\ file' = file /\ busy' = busy /\ fmt' = fmt
      /\ state' = state /\ length' = length /\ args' = args /\ parts' = parts
      /\ ok' = ok /\ calls' = calls /\ meaning' = meaning /\ signs' = signs
  BY DEF WriteNext
<1>2. MachineTyped /\ LengthKnown /\ Fitting /\ Resting /\ Context /\ Told /\ Showing
  BY DEF IInv, MachineInv
<1>3. ok /\ queue \in Seq(Chars) /\ written \in Seq(Chars)
  BY <1>1, <1>2 DEF Resting, MachineTyped
<1>4. Head(queue) \in Chars /\ Tail(queue) \in Seq(Chars)
  BY <1>1, <1>3, TailIs
<1>5. Showing'
  <2>1. CASE OnScreen
    <3>1. Putc(Head(queue))
      BY <2>1 DEF WriteNext
    <3> QED BY <1>2, <1>4, <3>1, PutcKeeps
  <2>2. CASE ~OnScreen
    <3>1. UNCHANGED console
      BY <2>2 DEF WriteNext
    <3>2. UNCHANGED <<screen, screenX, screenY, cursor, put>> /\ tab' = tab
      BY <3>1 DEF console
    <3> QED BY <1>1, <1>2, <3>2, SameScreen, TabTypes
  <2> QED BY <2>1, <2>2
<1>6. Ahead' = Ahead /\ LengthKnown'
  BY <1>1, <1>2, SameAhead
<1>7. Owed' = Owed /\ Owed \in Seq(Chars)
  BY <1>1, <1>2, <1>3, <1>6, OwedType DEF Owed
<1>8. Told'
  <2>1. written' \o (queue' \o Owed') = written \o (queue \o Owed)
    BY <1>1, <1>3, <1>7, MoveOne, SMTT(40)
  <2>2. ~(signs /\ program = "core") => written \o (queue \o Owed) = meaning
    BY <1>2, <1>3 DEF Told
  <2>3. ~(signs' /\ program' = "core") => written' \o (queue' \o Owed') = meaning'
    BY <1>1, <2>1, <2>2
  <2> QED BY <1>1, <1>3, <2>3, Zenon DEF Told
<1>9. MachineTyped'
  BY <1>1, <1>2, <1>4, AppendProperties DEF MachineTyped
<1>10. Context' /\ Resting' /\ Fitting'
  BY <1>1, <1>2, <1>3, <1>6 DEF Context, Resting, Fitting, FittingParts
<1> QED BY <1>5, <1>6, <1>8, <1>9, <1>10 DEF IInv, MachineInv

LEMMA BeginningIsPrefix ==
    ASSUME NEW S, NEW w \in Seq(S), NEW q \in Seq(S), q # <<>>
    PROVE  IsStrictPrefix(w, w \o q)
<1>1. PICK n \in Nat, m \in Nat : n = Len(w) /\ m = Len(q) /\ m >= 1
  BY TailIs, LenProperties
<1>2. PICK x \in Seq(S) : /\ x = w \o q /\ Len(x) = n + m
                          /\ \A i \in 1 .. n + m : x[i] = IF i <= n THEN w[i] ELSE q[i - n]
  <2>1. /\ w \o q \in Seq(S) /\ Len(w \o q) = Len(w) + Len(q)
        /\ \A i \in 1 .. Len(w) + Len(q) :
              (w \o q)[i] = IF i <= Len(w) THEN w[i] ELSE q[i - Len(w)]
    BY ConcatProperties
  <2> QED BY <1>1, <2>1
<1>3. \A i \in 1 .. n : w[i] = x[i]
  BY <1>1, <1>2
<1>4. StartsWith(x, w) /\ x # w
  BY <1>1, <1>2, <1>3 DEF StartsWith
<1>5. IsPrefix(w, x)
  BY <1>2, <1>4, PrefixIs
<1> QED BY <1>2, <1>4, <1>5 DEF IsStrictPrefix

LEMMA WriteFailsKeeps ==
    ASSUME IInv, WriteFails
    PROVE  IInv'
<1>1. /\ busy /\ queue # <<>> /\ file = "other" /\ ok' = FALSE /\ queue' = <<>>
      /\ program' = program /\ file' = file /\ busy' = busy /\ fmt' = fmt
      /\ state' = state /\ length' = length /\ args' = args /\ parts' = parts
      /\ calls' = calls /\ written' = written /\ meaning' = meaning /\ signs' = signs
      /\ UNCHANGED console
  BY DEF WriteFails
<1>2. MachineTyped /\ LengthKnown /\ Fitting /\ Resting /\ Context /\ Told /\ Showing
  BY DEF IInv, MachineInv
<1>3. ok /\ queue \in Seq(Chars) /\ written \in Seq(Chars)
  BY <1>1, <1>2 DEF Resting, MachineTyped
<1>4. Showing'
  <2>1. UNCHANGED <<screen, screenX, screenY, cursor, put>> /\ tab' = tab
    BY <1>1 DEF console
  <2>2. tab' \in {NO_TAB} \cup 0 .. 4
    BY <1>2, <2>1 DEF Showing
  <2> QED BY <1>2, <2>1, <2>2, SameScreen
<1>5. LengthKnown'
  BY <1>1, <1>2, SameAhead
<1>6. Owed \in Seq(Chars)
  BY <1>2, <1>3, OwedType
<1>7. Told'
  <2>1. PICK q \in Seq(Chars) : q = queue \o Owed /\ Len(q) = Len(queue) + Len(Owed)
    BY <1>3, <1>6, ConcatProperties
  <2>2. q # <<>>
    <3>1. Len(queue) >= 1 /\ Len(queue) \in Nat /\ Len(Owed) \in Nat
      BY <1>1, <1>3, <1>6, TailIs, LenProperties
    <3> QED BY <2>1, <3>1
  <2>3. IsStrictPrefix(written, written \o q)
    BY <1>3, <2>2, BeginningIsPrefix
  <2>4. ~(signs /\ program = "core") => written \o q = meaning
    BY <1>2, <1>3, <2>1 DEF Told
  <2>5. ~(signs' /\ program' = "core") => IsStrictPrefix(written', meaning')
    BY <1>1, <2>3, <2>4
  <2> QED BY <1>1, <2>5, Zenon DEF Told
<1>8. <<>> \in Seq(Chars)
  OBVIOUS
<1>9. MachineTyped'
  BY <1>1, <1>2, <1>8 DEF MachineTyped
<1>10. Context' /\ Resting' /\ Fitting'
  BY <1>1, <1>2, <1>3 DEF Context, Resting, Fitting, FittingParts
<1> QED BY <1>4, <1>5, <1>7, <1>9, <1>10 DEF IInv, MachineInv


\* A text is queued that was owed.
Before(w, t, m, r) == w \o ((t \o m) \o r)
After(w, t, m, r)  == w \o (t \o (m \o r))

LEMMA SaidAndOwed ==
    ASSUME NEW S, NEW w \in Seq(S), NEW t \in Seq(S), NEW m \in Seq(S), NEW r \in Seq(S)
    PROVE  Before(w, t, m, r) = After(w, t, m, r)
<1>1. (t \o m) \o r = t \o (m \o r)
  BY ConcatAssociative
<1> QED BY <1>1 DEF Before, After

LEMMA SameConsole == ASSUME Showing, UNCHANGED console PROVE Showing'
<1>1. UNCHANGED <<screen, screenX, screenY, cursor, put>> /\ tab' = tab
  BY DEF console
<1>2. tab' \in {NO_TAB} \cup 0 .. 4
  BY <1>1 DEF Showing
<1> QED BY <1>1, <1>2, SameScreen

QueuesWhatIsMeant ==
    /\ Meaning[<<Ahead, args>>] = queue' \o Meaning[<<Ahead, args>>]'
    /\ queue' \in Seq(Chars) /\ Meaning[<<Ahead, args>>]' \in Seq(Chars)

\* A turn of the machine queues text and leaves owed what follows it.
LEMMA TurnTells ==
    ASSUME MachineInv, queue = <<>>, parts' = parts, ok' = ok, program' = program,
           written' = written, meaning' = meaning, signs => signs',
           ~ok => queue' = <<>>,
           ok /\ ~(signs' /\ program = "core") => QueuesWhatIsMeant
    PROVE  Told'
<1>1. MachineTyped /\ LengthKnown /\ Fitting /\ Told
  BY DEF MachineInv
<1>2. CASE ok /\ ~(signs' /\ program = "core")
  <2>1. PICK r \in Seq(Chars) : r = MeaningOf[parts]
    BY <1>1, <1>2, OwedType
  <2>2. PICK t \in Seq(Chars), m \in Seq(Chars) :
           t = queue' /\ m = Meaning[<<Ahead, args>>]' /\ Meaning[<<Ahead, args>>] = t \o m
    BY <1>2 DEF QueuesWhatIsMeant
  <2>3. Owed = (t \o m) \o r
    BY <2>1, <2>2 DEF Owed
  <2>4. written \o (queue \o Owed) = written \o (t \o (m \o r))
    <3>1. PICK w \in Seq(Chars) : w = written
      BY <1>1 DEF MachineTyped
    <3>2. Before(w, t, m, r) = After(w, t, m, r)
      <4>1. w \in Seq(Chars) /\ t \in Seq(Chars) /\ m \in Seq(Chars) /\ r \in Seq(Chars)
        BY <2>1, <2>2, <3>1
      <4> QED BY <4>1, SaidAndOwed
    <3>3. PICK owed : owed = Owed
      OBVIOUS
    <3>4. owed \in Seq(Chars)
      BY <1>1, <1>2, <3>3, OwedType
    <3>5. <<>> \o owed = owed
      BY <3>4, ConcatEmptySeq
    <3>6. queue \o Owed = owed
      BY <3>3, <3>5
    <3>7. owed = (t \o m) \o r
      BY <2>3, <3>3
    <3> QED BY <3>1, <3>2, <3>6, <3>7 DEF Before, After
  <2>5. Owed' = m \o r
    BY <2>1, <2>2 DEF Owed
  <2>6. written \o (queue \o Owed) = meaning
    BY <1>1, <1>2 DEF Told
  <2>7. written' \o (queue' \o Owed') = meaning'
    BY <2>2, <2>4, <2>5, <2>6
  <2> QED BY <1>2, <2>7 DEF Told
<1>3. CASE ~ok /\ ~(signs' /\ program = "core")
  <2>1. IsStrictPrefix(written, meaning)
    BY <1>1, <1>3 DEF Told
  <2> QED BY <1>3, <2>1 DEF Told
<1>4. CASE signs' /\ program = "core"
  BY <1>4 DEF Told
<1> QED BY <1>2, <1>3, <1>4

LEMMA LengthTurnKeeps == ASSUME IInv, LengthTurn PROVE IInv'
<1>1. /\ Ready /\ fmt # <<>> /\ fmt' = Tail(fmt) /\ args' = args /\ queue' = queue
      /\ signs' = signs /\ program' = program /\ file' = file /\ busy' = busy
      /\ parts' = parts /\ ok' = ok /\ calls' = calls /\ written' = written
      /\ meaning' = meaning /\ UNCHANGED console
  BY DEF LengthTurn, Elsewhere, Consume
<1>2. MachineTyped /\ LengthKnown /\ Fitting /\ Resting /\ Context /\ Told /\ Showing
  BY DEF IInv, MachineInv
<1>3. /\ Ahead' = Ahead /\ LengthKnown' /\ state' \in States /\ length' \in Lengths
  BY <1>2, LengthRead DEF MachineTyped, Lengths
<1>4. Owed' = Owed
  BY <1>1, <1>3 DEF Owed
<1>5. Told'
  <2>1. queue' \o Owed' = queue \o Owed
    BY <1>1, <1>4
  <2>2. written' \o (queue' \o Owed') = written \o (queue \o Owed)
    BY <1>1, <2>1
  <2> QED BY <1>1, <1>2, <2>2 DEF Told
<1>6. MachineTyped'
  BY <1>1, <1>2, <1>3, TailIs DEF MachineTyped
<1>7. Context' /\ Resting' /\ Fitting'
  BY <1>1, <1>2, <1>3 DEF Context, Resting, Fitting, FittingParts, Ready
<1>8. Showing'
  BY <1>1, <1>2, SameConsole
<1> QED BY <1>3, <1>5, <1>6, <1>7, <1>8 DEF IInv, MachineInv

LEMMA NormalTurnKeeps == ASSUME IInv, NormalTurn PROVE IInv'
<1>1. /\ busy /\ queue = <<>> /\ fmt # <<>> /\ fmt' = Tail(fmt) /\ state = "normal"
      /\ args' = args /\ length' = length
      /\ signs' = signs /\ program' = program /\ file' = file /\ busy' = busy
      /\ parts' = parts /\ ok' = ok /\ calls' = calls /\ written' = written
      /\ meaning' = meaning /\ UNCHANGED console
  BY DEF NormalTurn, Ready, Elsewhere, Consume
<1>2. MachineTyped /\ LengthKnown /\ Fitting /\ Resting /\ Context /\ Told /\ Showing
  BY DEF IInv, MachineInv
<1>3. Showing'
  BY <1>1, <1>2, SameConsole
<1>4. CASE Head(fmt) = "%"
  <2>1. state' = "length" /\ queue' = queue
    BY <1>4 DEF NormalTurn
  <2>2. Ahead' = Ahead /\ LengthKnown'
    BY <1>1, <1>2, <1>4, <2>1, PercentRead DEF MachineTyped
  <2>3. Owed' = Owed
    BY <1>1, <2>2 DEF Owed
  <2>4. Told'
    <3>1. queue' \o Owed' = queue \o Owed
      BY <2>1, <2>3
    <3>2. written' \o (queue' \o Owed') = written \o (queue \o Owed)
      BY <1>1, <3>1
    <3> QED BY <1>1, <1>2, <3>2 DEF Told
  <2>5. MachineTyped'
    BY <1>1, <1>2, <2>1, TailIs DEF MachineTyped, States
  <2>6. Context' /\ Resting' /\ Fitting'
    BY <1>1, <1>2, <2>1, <2>2 DEF Context, Resting, Fitting, FittingParts
  <2> QED BY <1>3, <2>2, <2>4, <2>5, <2>6 DEF IInv, MachineInv
<1>5. CASE Head(fmt) # "%"
  <2>1. state' = "normal" /\ queue' = IF ok THEN <<Head(fmt)>> ELSE <<>>
    BY <1>1, <1>5 DEF NormalTurn, Emit
  <2>2. Head(fmt) \in Chars /\ Tail(fmt) \in Seq(Chars) /\ fmt \in Seq(Chars)
    BY <1>1, <1>2, TailIs DEF MachineTyped
  <2>3. <<Head(fmt)>> \in Seq(Chars) /\ <<>> \in Seq(Chars)
    BY <2>2
  <2>4. Pending = <<>> /\ Pending' = <<>> /\ LengthKnown'
    BY <1>1, <1>2, <2>1, <2>3 DEF Pending, LengthKnown
  <2>5. Ahead = fmt /\ Ahead' = Tail(fmt)
    <3>1. <<>> \o fmt = fmt /\ <<>> \o Tail(fmt) = Tail(fmt)
      BY <2>2, ConcatEmptySeq
    <3> QED BY <1>1, <2>4, <3>1 DEF Ahead
  <2>6. ASSUME ok
        PROVE  /\ args \in ArgumentsFor(Tail(fmt))
               /\ Meaning[<<fmt, args>>] = <<Head(fmt)>> \o Meaning[<<Tail(fmt), args>>]
               /\ Meaning[<<Tail(fmt), args>>] \in Seq(Chars)
    <3>1. args \in ArgumentsFor(fmt)
      BY <1>2, <2>5, <2>6 DEF Fitting
    <3>2. /\ args \in ArgumentsFor(Tail(fmt))
          /\ Meaning[<<fmt, args>>] = <<Head(fmt)>> \o Meaning[<<Tail(fmt), args>>]
      BY <1>1, <1>5, <2>2, <3>1, NormalItem
    <3> QED BY <2>2, <3>2, MeaningType
  <2>7. Meaning[<<Ahead, args>>]' = Meaning[<<Tail(fmt), args>>]
    BY <1>1, <2>5
  <2>8. Told'
    <3>1. MachineInv /\ (signs => signs') /\ (~ok => queue' = <<>>)
      BY <1>1, <2>1 DEF IInv
    <3>2. ok => QueuesWhatIsMeant
      BY <2>1, <2>3, <2>5, <2>6, <2>7 DEF QueuesWhatIsMeant
    <3> QED BY <1>1, <3>1, <3>2, TurnTells
  <2>9. MachineTyped'
    BY <1>1, <1>2, <2>1, <2>2, <2>3 DEF MachineTyped, States
  <2>10. Context' /\ Resting' /\ Fitting'
    BY <1>1, <1>2, <2>1, <2>5, <2>6 DEF Context, Resting, Fitting, FittingParts
  <2> QED BY <1>3, <2>4, <2>8, <2>9, <2>10 DEF IInv, MachineInv
<1> QED BY <1>4, <1>5


LEMMA ConversionIs ==
    ASSUME NEW c, Asked(c) # "none", args # <<>>, Head(args) \in Arg,
           Head(args).kind = Asked(c)
    PROVE  \A text \in Conversion(c) :
              /\ text \in Seq(Chars)
              /\ ~(program = "core" /\ Negative(c)) => text = Text(c, Head(args))
<1>1. PICK arg \in Arg : arg = Head(args) /\ arg.kind = Asked(c)
  OBVIOUS
<1>2. arg.kind = KindOf(c, length = "long_long")
  BY <1>1, AskedIs
<1>3. Text(c, arg) \in Seq(Chars)
  BY <1>2, TextType
<1>4. CASE c = "c"
  <2>1. Conversion(c) = {<<arg.value>>}
    BY <1>1, <1>4, Zenon DEF Conversion
  <2>2. Text(c, arg) = <<arg.value>>
    BY <1>4, TextIs
  <2> QED BY <1>1, <1>3, <2>1, <2>2
<1>5. CASE c = "s"
  <2>1. Conversion(c) = {arg.value}
    BY <1>1, <1>5, Zenon DEF Conversion
  <2>2. Text(c, arg) = arg.value
    BY <1>5, TextIs
  <2> QED BY <1>1, <1>3, <2>1, <2>2
<1>6. CASE c # "c" /\ c # "s"
  <2>1. Conversion(c) = Converted(c, arg)
    BY <1>1, <1>6, Zenon DEF Conversion
  <2>2. c \in Signed \cup Unsigned /\ arg.kind \in {"word", "long"}
    BY <1>1, <1>2, <1>6 DEF KindOf
  <2>3. /\ \A text \in Converted(c, arg) : text \in Seq(Chars)
        /\ ~(program = "core" /\ c \in Signed /\ Integer(arg.kind, arg.value) < 0)
           => \A text \in Converted(c, arg) : text = Text(c, arg)
    BY <2>2, ConvertedIs
  <2>4. Negative(c) <=> (c \in Signed /\ Integer(arg.kind, arg.value) < 0)
    BY <1>1 DEF Negative
  <2> QED BY <1>1, <2>1, <2>3, <2>4
<1> QED BY <1>4, <1>5, <1>6

\* What the last character of a conversion writes, and which arguments it leaves.
LEMMA SpecTells ==
    ASSUME MachineInv, ok, fmt # <<>>, state # "normal", Lengthening = <<>>,
           NEW text \in Conversion(Head(fmt)),
           NEW left, left = IF Asked(Head(fmt)) # "none" /\ args # <<>>
                            THEN Tail(args) ELSE args
    PROVE  /\ text \in Seq(Chars) /\ Tail(fmt) \in Seq(Chars)
           /\ left \in Seq(Arg) /\ left \in ArgumentsFor(Tail(fmt))
           /\ Meaning[<<Tail(fmt), left>>] \in Seq(Chars)
           /\ ~(program = "core" /\ Negative(Head(fmt)))
              => Meaning[<<Ahead, args>>] = text \o Meaning[<<Tail(fmt), left>>]
<1>1. MachineTyped /\ LengthKnown /\ Fitting
  BY DEF MachineInv
<1>2. PICK c : c = Head(fmt)
  OBVIOUS
<1>3. PICK w \in Seq(Chars) : w = Ahead
  BY <1>1, AheadIsText DEF MachineTyped
<1>4. /\ HasItem(w) /\ Rest(w) = Tail(fmt) /\ Tail(fmt) \in Seq(Chars)
      /\ Len(Item(w)) # 1 /\ Last(Item(w)) = c /\ Takes(Item(w)) = Wanted(Asked(c))
  BY <1>1, <1>2, <1>3, SpecItem DEF MachineTyped
<1>5. args \in ArgumentsFor(w)
  BY <1>1, <1>3 DEF Fitting
<1>6. args \in Seq(Arg) /\ Left(Item(w), args) \in ArgumentsFor(Tail(fmt))
  BY <1>4, <1>5, FitStep
<1>7. Meaning[<<w, args>>] =
         TextOf(Item(w), args) \o Meaning[<<Tail(fmt), Left(Item(w), args)>>]
  BY <1>4, <1>6, MeaningStep
<1>8. CASE Asked(c) = "none"
  <2>1. Takes(Item(w)) = <<>>
    BY <1>4, <1>8 DEF Wanted
  <2>2. Left(Item(w), args) = args /\ left = args
    BY <1>2, <1>4, <1>5, <1>8, <2>1, FitStep
  <2>3. text = TextOf(Item(w), args)
    <3>1. text = IF c = "%" THEN <<"%">> ELSE <<>>
      BY <1>2, <1>8 DEF Conversion
    <3>2. TextOf(Item(w), args) = IF c = "%" THEN <<c>> ELSE <<>>
      BY <1>4, <2>1 DEF TextOf
    <3> QED BY <3>1, <3>2
  <2>4. TextOf(Item(w), args) \in Seq(Chars)
    BY <1>4, <1>5, TextOfType
  <2> QED BY <1>3, <1>4, <1>6, <1>7, <2>2, <2>3, <2>4, MeaningType
<1>9. CASE Asked(c) # "none"
  <2>1. PICK kind \in KindNames : kind = Asked(c) /\ Takes(Item(w)) = <<kind>>
    <3>1. Takes(Item(w)) = <<Asked(c)>>
      BY <1>4, <1>9 DEF Wanted
    <3>2. Asked(c) \in KindNames
      BY <1>9, AskedIs DEF KindOf, KindNames
    <3> QED BY <3>1, <3>2
  <2>2. /\ args # <<>> /\ Head(args) \in Arg /\ Head(args).kind = Asked(c)
        /\ Left(Item(w), args) = Tail(args)
    BY <1>4, <1>5, <2>1, FitStep
  <2>3. left = Tail(args) /\ Tail(args) \in Seq(Arg)
    BY <1>2, <1>6, <1>9, <2>2, TailIs
  <2>4. /\ text \in Seq(Chars)
        /\ ~(program = "core" /\ Negative(c)) => text = Text(c, Head(args))
    BY <1>2, <1>9, <2>2, ConversionIs
  <2>5. TextOf(Item(w), args) = Text(c, Head(args))
    <3>1. Takes(Item(w)) # <<>>
      BY <2>1
    <3> QED BY <1>4, <3>1 DEF TextOf
  <2> QED BY <1>2, <1>3, <1>4, <1>6, <1>7, <2>2, <2>3, <2>4, <2>5, MeaningType
<1> QED BY <1>8, <1>9

LEMMA SpecTurnKeeps == ASSUME IInv, SpecTurn PROVE IInv'
<1>1. /\ busy /\ queue = <<>> /\ fmt # <<>> /\ fmt' = Tail(fmt) /\ state # "normal"
      /\ Lengthening = <<>> /\ state' = "normal" /\ length' = "default"
      /\ program' = program /\ file' = file /\ busy' = busy
      /\ parts' = parts /\ ok' = ok /\ calls' = calls /\ written' = written
      /\ meaning' = meaning /\ UNCHANGED console
  BY DEF SpecTurn, Ready, Elsewhere, Consume
<1>2. signs' = (signs \/ Negative(Head(fmt)))
  BY DEF SpecTurn
<1>3. MachineTyped /\ LengthKnown /\ Fitting /\ Resting /\ Context /\ Showing /\ MachineInv
  BY DEF IInv, MachineInv
<1>4. fmt' \in Seq(Chars)
  BY <1>1, <1>3, TailIs DEF MachineTyped
<1>5. Pending' = <<>> /\ LengthKnown' /\ Ahead' = fmt'
  <2>1. Pending' = <<>>
    BY <1>1 DEF Pending
  <2>2. <<>> \in Seq(Chars) /\ <<>> \o fmt' = fmt'
    BY <1>4, ConcatEmptySeq
  <2>3. Ahead' = fmt'
    BY <2>1, <2>2 DEF Ahead
  <2> QED BY <1>1, <2>1, <2>2, <2>3 DEF LengthKnown
<1>6. Showing'
  BY <1>1, <1>3, SameConsole
<1>7. signs' \in BOOLEAN /\ (signs => signs') /\ (Negative(Head(fmt)) => signs')
  BY <1>2, <1>3, Zenon DEF MachineTyped
<1>8. CASE ok
  <2>1. PICK text \in Conversion(Head(fmt)) : queue' = text
    BY <1>8 DEF SpecTurn, Emit
  <2>2. args' = IF Asked(Head(fmt)) # "none" /\ args # <<>> THEN Tail(args) ELSE args
    BY <1>8 DEF SpecTurn
  <2>3. PICK left : left = args'
    OBVIOUS
  <2>4. /\ text \in Seq(Chars) /\ Tail(fmt) \in Seq(Chars)
        /\ left \in Seq(Arg) /\ left \in ArgumentsFor(Tail(fmt))
        /\ Meaning[<<Tail(fmt), left>>] \in Seq(Chars)
        /\ ~(program = "core" /\ Negative(Head(fmt)))
           => Meaning[<<Ahead, args>>] = text \o Meaning[<<Tail(fmt), left>>]
    BY <1>1, <1>3, <1>8, <2>1, <2>2, <2>3, SpecTells
  <2>5. Meaning[<<Ahead, args>>]' = Meaning[<<Tail(fmt), left>>]
    BY <1>1, <1>5, <2>3
  <2>6. ~(signs' /\ program = "core") => QueuesWhatIsMeant
    BY <1>7, <2>1, <2>4, <2>5 DEF QueuesWhatIsMeant
  <2>7. Told'
    BY <1>1, <1>3, <1>7, <1>8, <2>6, TurnTells
  <2>8. MachineTyped'
    BY <1>1, <1>3, <1>4, <1>7, <2>1, <2>3, <2>4 DEF MachineTyped, States, Lengths
  <2>9. Context' /\ Resting'
    BY <1>1, <1>3, <1>8 DEF Context, Resting
  <2>10. Fitting'
    BY <1>1, <1>3, <1>5, <2>3, <2>4 DEF Fitting, FittingParts
  <2> QED BY <1>5, <1>6, <2>7, <2>8, <2>9, <2>10 DEF IInv, MachineInv
<1>9. CASE ~ok
  <2>1. queue' = <<>> /\ args' = args
    BY <1>9 DEF SpecTurn, Emit
  <2>2. Told'
    BY <1>1, <1>3, <1>7, <1>9, <2>1, TurnTells
  <2>3. <<>> \in Seq(Chars)
    OBVIOUS
  <2>4. MachineTyped'
    BY <1>1, <1>3, <1>4, <1>7, <2>1, <2>3 DEF MachineTyped, States, Lengths
  <2>5. Context' /\ Resting' /\ Fitting'
    BY <1>1, <1>3, <1>9, <2>1 DEF Context, Resting, Fitting, FittingParts
  <2> QED BY <1>5, <1>6, <2>2, <2>4, <2>5 DEF IInv, MachineInv
<1> QED BY <1>8, <1>9


\* The machine begins with a part of a call.
LEMMA LoadIs ==
    ASSUME NEW part \in Parts, part.args \in ArgumentsFor(part.fmt), Load(part)
    PROVE  /\ queue' = part.text /\ fmt' = part.fmt /\ args' = part.args
           /\ state' = "normal" /\ length' = "default"
           /\ queue' \in Seq(Chars) /\ fmt' \in Seq(Chars) /\ args' \in Seq(Arg)
           /\ LengthKnown' /\ Ahead' = fmt' /\ args' \in ArgumentsFor(fmt')
           /\ Meaning[<<Ahead, args>>]' = Meaning[<<part.fmt, part.args>>]
           /\ Meaning[<<part.fmt, part.args>>] \in Seq(Chars)
<1>1. /\ queue' = part.text /\ fmt' = part.fmt /\ args' = part.args
      /\ state' = "normal" /\ length' = "default"
  BY DEF Load
<1>2. part.text \in Seq(Chars) /\ part.fmt \in Seq(Chars) /\ part.args \in Seq(Arg)
  BY DEF Parts
<1>3. Pending' = <<>>
  BY <1>1 DEF Pending
<1>4. <<>> \in Seq(Chars) /\ <<>> \o part.fmt = part.fmt
  BY <1>2, ConcatEmptySeq
<1>5. LengthKnown' /\ Ahead' = fmt'
  BY <1>1, <1>3, <1>4 DEF LengthKnown, Ahead
<1>6. Meaning[<<part.fmt, part.args>>] \in Seq(Chars)
  BY <1>2, MeaningType
<1> QED BY <1>1, <1>2, <1>5, <1>6

LeftFirst(q, m, r)  == (q \o m) \o r
RightFirst(q, m, r) == q \o (m \o r)

LEMMA EitherFirst ==
    ASSUME NEW S, NEW q \in Seq(S), NEW m \in Seq(S), NEW r \in Seq(S)
    PROVE  LeftFirst(q, m, r) = RightFirst(q, m, r)
BY ConcatAssociative DEF LeftFirst, RightFirst

\* What the parts left of a call mean is what the first one queues and owes.
LEMMA PartsTell ==
    ASSUME NEW ps \in Seq(Parts), ps # <<>>, FittingParts(ps), NEW q, NEW m,
           q = Head(ps).text, m = Meaning[<<Head(ps).fmt, Head(ps).args>>]
    PROVE  MeaningOf[ps] = q \o (m \o MeaningOf[Tail(ps)])
<1>1. PICK part \in Parts : part = Head(ps) /\ part.args \in ArgumentsFor(part.fmt)
  BY FittingTail
<1>2. q \in Seq(Chars) /\ m \in Seq(Chars)
  <2>1. part.text \in Seq(Chars) /\ part.fmt \in Seq(Chars)
    BY DEF Parts
  <2> QED BY <1>1, <2>1, MeaningType
<1>3. PICK r \in Seq(Chars) : r = MeaningOf[Tail(ps)]
  BY FittingTail, MeaningOfType
<1>4. OfPart(Head(ps)) = q \o m
  BY DEF OfPart
<1>5. MeaningOf[ps] = (q \o m) \o r
  BY <1>3, <1>4, MeaningOfStep
<1>6. q \in Seq(Chars) /\ m \in Seq(Chars) /\ r \in Seq(Chars)
  BY <1>2, <1>3
<1>7. LeftFirst(q, m, r) = RightFirst(q, m, r)
  BY <1>6, EitherFirst
<1> QED BY <1>3, <1>5, <1>7 DEF LeftFirst, RightFirst

LEMMA NextPartKeeps == ASSUME IInv, NextPart PROVE IInv'
<1>1. /\ busy /\ queue = <<>> /\ fmt = <<>> /\ parts # <<>> /\ Load(Head(parts))
      /\ parts' = Tail(parts) /\ program' = program /\ file' = file /\ busy' = busy
      /\ ok' = ok /\ calls' = calls /\ written' = written /\ meaning' = meaning
      /\ signs' = signs /\ UNCHANGED console
  BY DEF NextPart, Ready
<1>2. MachineTyped /\ LengthKnown /\ Fitting /\ Resting /\ Context /\ Showing /\ Told
  BY DEF IInv, MachineInv
<1>3. ok /\ file # "other"
  BY <1>1, <1>2 DEF Resting
<1>4. parts \in Seq(Parts) /\ FittingParts(parts)
  BY <1>2 DEF MachineTyped, Fitting
<1>5. PICK part \in Parts : part = Head(parts) /\ part.args \in ArgumentsFor(part.fmt)
  BY <1>1, <1>4, FittingTail
<1>6. Tail(parts) \in Seq(Parts) /\ FittingParts(Tail(parts))
  BY <1>1, <1>4, FittingTail
<1>7. /\ queue' = part.text /\ fmt' = part.fmt /\ args' = part.args
      /\ state' = "normal" /\ length' = "default"
      /\ queue' \in Seq(Chars) /\ fmt' \in Seq(Chars) /\ args' \in Seq(Arg)
      /\ LengthKnown' /\ Ahead' = fmt' /\ args' \in ArgumentsFor(fmt')
      /\ Meaning[<<Ahead, args>>]' = Meaning[<<part.fmt, part.args>>]
  BY <1>1, <1>5, LoadIs
<1>8. Owed = MeaningOf[parts]
  <2>1. Meaning[<<Ahead, args>>] = <<>>
    BY <1>1, <1>2, <1>3, NothingAhead
  <2>2. MeaningOf[parts] \in Seq(Chars)
    BY <1>4, MeaningOfType
  <2>3. <<>> \o MeaningOf[parts] = MeaningOf[parts]
    BY <2>2, ConcatEmptySeq
  <2> QED BY <2>1, <2>3 DEF Owed
<1>9. queue' \o Owed' = MeaningOf[parts]
  <2>1. PICK q, m : q = part.text /\ m = Meaning[<<part.fmt, part.args>>]
    OBVIOUS
  <2>2. MeaningOf[parts] = q \o (m \o MeaningOf[Tail(parts)])
    BY <1>1, <1>4, <1>5, <2>1, PartsTell
  <2>3. Owed' = m \o MeaningOf[Tail(parts)]
    BY <1>1, <1>7, <2>1 DEF Owed
  <2> QED BY <1>7, <2>1, <2>2, <2>3
<1>10. Told'
  <2>1. <<>> \o MeaningOf[parts] = MeaningOf[parts]
    BY <1>4, MeaningOfType, ConcatEmptySeq
  <2>2. queue \o Owed = MeaningOf[parts]
    BY <1>1, <1>8, <2>1
  <2>3. written' \o (queue' \o Owed') = written \o (queue \o Owed)
    BY <1>1, <1>9, <2>2
  <2> QED BY <1>1, <1>2, <1>3, <2>3 DEF Told
<1>11. MachineTyped'
  BY <1>1, <1>2, <1>6, <1>7 DEF MachineTyped, States, Lengths
<1>12. Context' /\ Resting' /\ Fitting'
  BY <1>1, <1>2, <1>3, <1>6, <1>7 DEF Context, Resting, Fitting
<1>13. Showing'
  BY <1>1, <1>2, SameConsole
<1> QED BY <1>7, <1>10, <1>11, <1>12, <1>13 DEF IInv, MachineInv


LEMMA ReturnKeeps == ASSUME IInv, Return PROVE IInv'
<1>1. /\ queue = <<>> /\ fmt = <<>> /\ parts = <<>> /\ busy' = FALSE
      /\ state' = "normal" /\ length' = "default" /\ args' = <<>> /\ ok' = TRUE
      /\ written' = <<>> /\ meaning' = <<>> /\ signs' = FALSE
      /\ program' = program /\ file' = file /\ fmt' = fmt /\ queue' = queue
      /\ parts' = parts /\ calls' = calls /\ UNCHANGED console
  BY DEF Return, Ready
<1>2. MachineTyped /\ Context /\ Showing
  BY DEF IInv, MachineInv
<1>3. AtRest'
  BY <1>1 DEF AtRest
<1>4. (LengthKnown /\ Fitting /\ Told)'
  <2>1. AtRest' => (LengthKnown /\ Fitting /\ Told)'
    BY RestingTells, PTL
  <2> QED BY <1>3, <2>1
<1>5. <<>> \in Seq(Chars) /\ <<>> \in Seq(Arg)
  OBVIOUS
<1>6. MachineTyped'
  BY <1>1, <1>2, <1>5 DEF MachineTyped, States, Lengths
<1>7. Context' /\ Resting'
  BY <1>1, <1>2 DEF Context, Resting
<1>8. Showing'
  BY <1>1, <1>2, SameConsole
<1> QED BY <1>4, <1>6, <1>7, <1>8 DEF IInv, MachineInv

LEMMA BeginKeeps ==
    ASSUME IInv, NEW ps \in Seq(Parts), ps # <<>>, FittingParts(ps), Begin(ps),
           calls < MaxCalls, file = "other" => Tail(ps) = <<>>
    PROVE  IInv'
<1>1. /\ ~busy /\ calls' = calls + 1 /\ busy' = TRUE /\ Load(Head(ps))
      /\ parts' = Tail(ps) /\ meaning' = MeaningOf[ps]
      /\ program' = program /\ file' = file /\ ok' = ok /\ written' = written
      /\ signs' = signs /\ UNCHANGED console
  BY DEF Begin
<1>2. MachineTyped /\ Resting /\ Context /\ Showing
  BY DEF IInv, MachineInv
<1>3. ok /\ written = <<>>
  BY <1>1, <1>2 DEF Resting
<1>4. PICK part \in Parts : part = Head(ps) /\ part.args \in ArgumentsFor(part.fmt)
  BY FittingTail
<1>5. Tail(ps) \in Seq(Parts) /\ FittingParts(Tail(ps)) /\ MeaningOf[ps] \in Seq(Chars)
  BY FittingTail, MeaningOfType
<1>6. /\ queue' = part.text /\ fmt' = part.fmt /\ args' = part.args
      /\ state' = "normal" /\ length' = "default"
      /\ queue' \in Seq(Chars) /\ fmt' \in Seq(Chars) /\ args' \in Seq(Arg)
      /\ LengthKnown' /\ Ahead' = fmt' /\ args' \in ArgumentsFor(fmt')
      /\ Meaning[<<Ahead, args>>]' = Meaning[<<part.fmt, part.args>>]
  BY <1>1, <1>4, LoadIs
<1>7. queue' \o Owed' = meaning'
  <2>1. PICK q, m : q = part.text /\ m = Meaning[<<part.fmt, part.args>>]
    OBVIOUS
  <2>2. MeaningOf[ps] = q \o (m \o MeaningOf[Tail(ps)])
    BY <1>4, <2>1, PartsTell
  <2>3. Owed' = m \o MeaningOf[Tail(ps)]
    BY <1>1, <1>6, <2>1 DEF Owed
  <2> QED BY <1>1, <1>6, <2>1, <2>2, <2>3
<1>8. Told'
  <2>1. <<>> \o MeaningOf[ps] = MeaningOf[ps]
    BY <1>5, ConcatEmptySeq
  <2>2. written' \o (queue' \o Owed') = meaning'
    BY <1>1, <1>3, <1>7, <2>1
  <2> QED BY <1>1, <1>3, <2>2 DEF Told
<1>9. calls' \in 0 .. MaxCalls
  BY <1>1, <1>2, PrintfAssumption DEF MachineTyped
<1>10. MachineTyped'
  BY <1>1, <1>2, <1>5, <1>6, <1>9 DEF MachineTyped, States, Lengths
<1>11. Context' /\ Resting' /\ Fitting'
  BY <1>1, <1>2, <1>3, <1>5, <1>6 DEF Context, Resting, Fitting
<1>12. Showing'
  BY <1>1, <1>2, SameConsole
<1> QED BY <1>6, <1>8, <1>10, <1>11, <1>12 DEF IInv, MachineInv

\* A call of one part.
LEMMA OnePart ==
    ASSUME NEW text \in Seq(Chars), NEW format \in Seq(Chars),
           NEW a \in ArgumentsFor(format)
    PROVE  /\ <<Part(text, format, a)>> \in Seq(Parts)
           /\ <<Part(text, format, a)>> # <<>>
           /\ FittingParts(<<Part(text, format, a)>>)
           /\ Tail(<<Part(text, format, a)>>) = <<>>
<1>1. PICK part : part = Part(text, format, a)
  OBVIOUS
<1>2. a \in Seq(Arg)
  BY FitStep
<1>3. part \in Parts /\ part.fmt = format /\ part.args = a
  BY <1>1, <1>2 DEF Part, Parts
<1>4. PICK ps : ps = <<part>>
  OBVIOUS
<1>5. ps \in Seq(Parts) /\ Len(ps) = 1 /\ ps[1] = part /\ ps # <<>> /\ DOMAIN ps = 1 .. 1
  BY <1>3, <1>4
<1>6. FittingParts(ps)
  BY <1>3, <1>5 DEF FittingParts
<1>7. Tail(ps) = <<>>
  <2>1. Tail(ps) \in Seq(Parts) /\ Len(Tail(ps)) = 0
    BY <1>5, TailIs
  <2> QED BY <2>1, EmptySeq
<1> QED BY <1>1, <1>4, <1>5, <1>6, <1>7

LEMMA NoArguments == <<>> \in Seq(Chars) /\ <<>> \in ArgumentsFor(<<>>)
<1>1. <<>> \in Seq(Chars) /\ <<>> \in Seq(Arg)
  OBVIOUS
<1>2. Kinds[<<>>] = <<>>
  <2>1. ~HasItem(<<>>)
    BY DEF HasItem
  <2> QED BY <1>1, <2>1, KindsStep
<1>3. Match(<<>>, <<>>)
  BY DEF Match
<1> QED BY <1>1, <1>2, <1>3, FitIs

\* Flattening a sequence of sequences.
Places(seqs)                == 1 .. Len(seqs)
Place(i)                    == i
FlattenBody(flat, i, seqs) == IF i = 1 THEN seqs[i] ELSE flat[i - 1] \o seqs[i]

Flattening == INSTANCE Recursion WITH
    Arguments <- Places, Rank <- Place, Body <- FlattenBody

LEMMA FlattenType ==
    ASSUME NEW S, NEW seqs \in Seq(Seq(S))
    PROVE  FlattenSeq(seqs) \in Seq(S)
<1>1. PICK n \in Nat : n = Len(seqs)
  BY LenProperties
<1>2. CASE n = 0
  <2>1. FlattenSeq(seqs) = <<>>
    BY <1>1, <1>2, EmptySeq DEF FlattenSeq
  <2>2. <<>> \in Seq(S)
    OBVIOUS
  <2> QED BY <2>1, <2>2
<1>3. CASE n # 0
  <2> DEFINE flat == Flattening!Function(seqs)
  <2>1. FlattenSeq(seqs) = flat[Len(seqs)]
    BY <1>1, <1>3, Zenon
       DEF FlattenSeq, Flattening!Function, Flattening!Obeys, Places, FlattenBody
  <2>2. Flattening!LooksBelow(seqs)
    <3>1. ASSUME NEW i \in Places(seqs), NEW f, NEW g, Flattening!AgreeBelow(f, g, i, seqs)
          PROVE  FlattenBody(f, i, seqs) = FlattenBody(g, i, seqs)
      <4>1. CASE i = 1
        BY <4>1 DEF FlattenBody
      <4>2. CASE i # 1
        <5>1. i - 1 \in Places(seqs) /\ Place(i - 1) < Place(i)
          BY <1>1, <4>2 DEF Places, Place
        <5>2. f[i - 1] = g[i - 1]
          BY <3>1, <5>1 DEF Flattening!AgreeBelow
        <5> QED BY <5>2 DEF FlattenBody
      <4> QED BY <4>1, <4>2
    <3>2. \A i \in Places(seqs) : Place(i) \in Nat
      BY DEF Places, Place
    <3> QED BY <3>1, <3>2, Zenon DEF Flattening!LooksBelow
  <2>3. Flattening!Obeys(flat, seqs)
    BY <2>2, Flattening!FunctionObeys
  <2> HIDE DEF flat
  <2>4. \A i \in 1 .. n : flat[i] = IF i = 1 THEN seqs[i] ELSE flat[i - 1] \o seqs[i]
    BY <1>1, <2>3 DEF Flattening!Obeys, FlattenBody, Places
  <2> DEFINE T == {k \in Nat : k + 1 \in 1 .. n => flat[k + 1] \in Seq(S)}
  <2>5. \A i \in 1 .. n : seqs[i] \in Seq(S)
    BY <1>1, ElementOfSeq
  <2>6. 0 \in T
    BY <2>4, <2>5
  <2>7. ASSUME NEW k \in Nat, k \in T PROVE k + 1 \in T
    <3> SUFFICES ASSUME k + 2 \in 1 .. n PROVE flat[k + 2] \in Seq(S)
      OBVIOUS
    <3>1. k + 1 \in 1 .. n /\ k + 2 # 1 /\ (k + 2) - 1 = k + 1
      BY <1>1
    <3>2. flat[k + 1] \in Seq(S)
      BY <2>7, <3>1
    <3>3. flat[k + 2] = flat[k + 1] \o seqs[k + 2]
      BY <2>4, <3>1
    <3> QED BY <2>5, <3>2, <3>3, ConcatProperties
  <2> HIDE DEF T
  <2>8. n - 1 \in T
    BY <1>3, <2>6, <2>7, Flattening!SetInduction, SMTT(40)
  <2>9. flat[n] \in Seq(S)
    BY <1>3, <2>8 DEF T
  <2> QED BY <1>1, <2>1, <2>9
<1> QED BY <1>2, <1>3

-----------------------------------------------------------------------------
(* The calls                                                               *)

LEMMA CallsAreTyped ==
    /\ Strings \subseteq Seq(Chars) /\ Formats \subseteq Seq(Chars)
    /\ LogFormats \subseteq Seq(Chars) /\ Colors \in Seq(Seq(Chars))
    /\ ColorReset \in Seq(Chars) /\ Buffers \subseteq Seq(0 .. 255)
    /\ MaxCalls \in Nat \ {0}
BY PrintfAssumption

LEMMA PrintfKeeps ==
    ASSUME IInv, NEW format \in Formats, NEW a \in ArgumentsFor(format), Printf(format, a)
    PROVE  IInv'
<1>1. calls < MaxCalls
  BY CallsAreTyped DEF Printf
<1>2. format \in Seq(Chars) /\ <<>> \in Seq(Chars)
  BY CallsAreTyped
<1>3. PICK ps : ps = <<Part(<<>>, format, a)>>
  OBVIOUS
<1>4. Begin(ps)
  BY <1>3 DEF Printf
<1>5. ps \in Seq(Parts) /\ ps # <<>> /\ FittingParts(ps) /\ Tail(ps) = <<>>
  BY <1>2, <1>3, OnePart
<1> QED BY <1>1, <1>4, <1>5, BeginKeeps

LEMMA PutsKeeps ==
    ASSUME IInv, NEW string \in Strings, Puts(string)
    PROVE  IInv'
<1>1. PICK ps : ps = <<Part(string, <<>>, <<>>)>>
  OBVIOUS
<1>2. calls < MaxCalls /\ Begin(ps)
  BY <1>1 DEF Puts
<1>3. string \in Seq(Chars)
  BY CallsAreTyped
<1>4. ps \in Seq(Parts) /\ ps # <<>> /\ FittingParts(ps) /\ Tail(ps) = <<>>
  BY <1>1, <1>3, NoArguments, OnePart
<1> QED BY <1>2, <1>4, BeginKeeps

LEMMA NibblesType == ASSUME NEW byte \in 0 .. 255 PROVE Nibbles(byte) \in Seq(Chars)
<1>1. byte \div 16 \in 0 .. 15 /\ byte % 16 \in 0 .. 15
  OBVIOUS
<1>2. PICK h \in 1 .. 16, l \in 1 .. 16 : h = (byte \div 16) + 1 /\ l = (byte % 16) + 1
  BY <1>1
<1>3. HexChars[h] \in Chars /\ HexChars[l] \in Chars
  BY HexCharsArePrintable DEF Chars
<1> QED BY <1>2, <1>3 DEF Nibbles

LEMMA PrintBufferKeeps ==
    ASSUME IInv, NEW message \in Strings, NEW buffer \in Buffers,
           PrintBuffer(message, buffer)
    PROVE  IInv'
<1>1. calls < MaxCalls
  BY CallsAreTyped DEF PrintBuffer
<1>2. message \in Seq(Chars) /\ buffer \in Seq(0 .. 255)
  BY CallsAreTyped
<1>3. PICK digits : digits = [i \in DOMAIN buffer |-> Nibbles(buffer[i])]
  OBVIOUS
<1>4. digits \in Seq(Seq(Chars))
  <2>1. PICK n \in Nat : n = Len(buffer) /\ DOMAIN buffer = 1 .. n
    BY <1>2, LenProperties
  <2>2. \A i \in 1 .. n : Nibbles(buffer[i]) \in Seq(Chars)
    BY <1>2, <2>1, ElementOfSeq, NibblesType
  <2>3. digits \in [1 .. n -> Seq(Chars)]
    BY <1>3, <2>1, <2>2
  <2> QED BY <2>3
<1>5. PICK dump \in Seq(Chars) : dump = FlattenSeq(digits)
  BY <1>4, FlattenType
<1>6. PICK end \in Seq(Chars) : end = <<"\n">>
  <2>1. <<"\n">> \in Seq(Chars)
    BY DEF Chars
  <2> QED BY <2>1
<1>7. PICK text \in Seq(Chars) : text = message \o dump \o end
  <2>1. message \o dump \in Seq(Chars)
    BY <1>2, <1>5, ConcatProperties
  <2>2. message \o dump \o end \in Seq(Chars)
    BY <1>6, <2>1, ConcatProperties
  <2> QED BY <2>2
<1>8. PICK ps : ps = <<Part(text, <<>>, <<>>)>>
  OBVIOUS
<1>9. Begin(ps)
  BY <1>3, <1>5, <1>6, <1>7, <1>8, Zenon DEF PrintBuffer
<1>10. ps \in Seq(Parts) /\ ps # <<>> /\ FittingParts(ps) /\ Tail(ps) = <<>>
  BY <1>8, NoArguments, OnePart
<1> QED BY <1>1, <1>9, <1>10, BeginKeeps

\* A plain character takes no argument.
LEMMA PlainKinds ==
    ASSUME NEW format \in Seq(Chars), format # <<>>, format[1] # "%"
    PROVE  Kinds[format] = Kinds[Tail(format)]
<1>1. PICK n \in Nat : n = Len(format) /\ n >= 1
  BY TailIs
<1>2. ItemLength(format) = 1
  BY ItemLengthIs
<1>3. HasItem(format) /\ Rest(format) = Tail(format)
  BY <1>1, <1>2 DEF HasItem, Rest, Tail
<1>4. Len(Item(format)) = 1
  BY <1>2, <1>3, ItemIs
<1>5. Takes(Item(format)) = <<>>
  BY <1>4, TakesIs
<1>6. Kinds[Tail(format)] \in Seq(KindNames)
  BY TailIs, KindsType
<1>7. <<>> \o Kinds[Tail(format)] = Kinds[Tail(format)]
  BY <1>6, ConcatEmptySeq
<1> QED BY <1>3, <1>5, <1>7, KindsStep

LEMMA StringKinds ==
    ASSUME NEW format \in Seq(Chars), Len(format) >= 2, format[1] = "%", format[2] = "s"
    PROVE  /\ Rest(format) \in Seq(Chars) /\ Len(Rest(format)) = Len(format) - 2
           /\ \A i \in 1 .. Len(format) - 2 : Rest(format)[i] = format[2 + i]
           /\ Kinds[format] = <<"string">> \o Kinds[Rest(format)]
<1>1. PICK n \in Nat : n = Len(format) /\ n >= 2 /\ format # <<>>
  BY EmptySeq, LenProperties
<1>2. PICK t \in Seq(Chars) : t = Tail(format) /\ Len(t) = n - 1 /\ t[1] = "s"
  <2>1. /\ Tail(format) \in Seq(Chars) /\ Len(Tail(format)) = n - 1
        /\ \A i \in 1 .. n - 1 : Tail(format)[i] = format[i + 1]
    BY <1>1, TailIs
  <2>2. Tail(format)[1] = format[2]
    BY <1>1, <2>1
  <2> QED BY <2>1, <2>2
<1>3. Longest(t) = 0
  BY <1>2, LongestIs
<1>4. ItemLength(format) = 2
  BY <1>1, <1>2, <1>3, ItemLengthIs
<1>5. HasItem(format)
  BY <1>1, <1>4 DEF HasItem
<1>6. PICK item \in Seq(Chars) : item = Item(format) /\ Len(item) = 2 /\ item[2] = "s"
  <2>1. /\ Item(format) \in Seq(Chars) /\ Len(Item(format)) = 2
        /\ \A i \in 1 .. 2 : Item(format)[i] = format[i]
    BY <1>4, <1>5, ItemIs
  <2> QED BY <2>1
<1>7. Last(item) = "s"
  BY <1>6 DEF Last
<1>8. Takes(item) = <<"string">>
  <2>1. PICK long : Takes(item) = IF Len(item) = 1 THEN <<>>
                                  ELSE Wanted(KindOf(Last(item), long))
    BY TakesIs
  <2>2. Takes(item) = Wanted(KindOf("s", long))
    BY <1>6, <1>7, <2>1
  <2> QED BY <2>2 DEF Wanted, KindOf
<1>9. /\ Rest(format) \in Seq(Chars) /\ Len(Rest(format)) = Len(format) - 2
      /\ \A i \in 1 .. Len(format) - 2 : Rest(format)[i] = format[2 + i]
  <2>1. /\ Rest(format) \in Seq(Chars)
        /\ Len(Rest(format)) = Len(format) - ItemLength(format)
        /\ \A i \in 1 .. Len(format) - ItemLength(format) :
              Rest(format)[i] = format[ItemLength(format) + i]
    BY <1>5, ItemIs, Zenon
  <2> QED BY <1>4, <2>1, Zenon
<1>10. Kinds[format] = Takes(Item(format)) \o Kinds[Rest(format)]
  BY <1>5, KindsStep, Zenon
<1>11. Kinds[format] = <<"string">> \o Kinds[Rest(format)]
  BY <1>6, <1>8, <1>10, Zenon
<1> QED BY <1>9, <1>11, Zenon


\* What is left of a format behind its first character.
LEMMA TailOf ==
    ASSUME NEW format \in Seq(Chars), NEW n \in Nat, Len(format) = n + 1
    PROVE  \E t \in Seq(Chars) : /\ t = Tail(format) /\ Len(t) = n /\ format # <<>>
                                 /\ \A i \in 1 .. n : t[i] = format[i + 1]
<1>1. format # <<>>
  BY EmptySeq
<1>2. /\ Tail(format) \in Seq(Chars) /\ Len(Tail(format)) = n
      /\ \A i \in 1 .. n : Tail(format)[i] = format[i + 1]
  BY <1>1, TailIs
<1>3. PICK t \in Seq(Chars) : t = Tail(format)
  BY <1>2
<1>4. Len(t) = n /\ \A i \in 1 .. n : t[i] = format[i + 1]
  BY <1>2, <1>3
<1> QED BY <1>1, <1>3, <1>4

LEMMA BehindString ==
    ASSUME NEW g \in Seq(Chars), Len(g) = 4, g[1] = "%", g[2] = "s"
    PROVE  \E h \in Seq(Chars) : /\ Len(h) = 2 /\ h[1] = g[3] /\ h[2] = g[4]
                                 /\ Kinds[g] = <<"string">> \o Kinds[h]
<1>1. PICK h : h = Rest(g)
  OBVIOUS
<1>2. Len(g) >= 2
  OBVIOUS
<1>3. /\ h \in Seq(Chars) /\ Len(h) = Len(g) - 2
      /\ \A i \in 1 .. Len(g) - 2 : h[i] = g[2 + i]
  BY <1>1, <1>2, StringKinds, Zenon
<1>4. Len(h) = 2 /\ h[1] = g[3] /\ h[2] = g[4]
  BY <1>3
<1>5. Kinds[g] = <<"string">> \o Kinds[h]
  BY <1>1, <1>2, StringKinds, Zenon
<1> QED BY <1>3, <1>4, <1>5, Zenon

\* What logf writes before a message, "[%s] ", takes one string.
LEMMA BracketKinds ==
    ASSUME NEW c \in Chars, c # "%",
           NEW format \in Seq(Chars), Len(format) = 5,
           format[1] = "[", format[2] = "%", format[3] = "s", format[4] = "]", format[5] = c
    PROVE  Kinds[format] = <<"string">>
<1>1. PICK g \in Seq(Chars) : /\ g = Tail(format) /\ Len(g) = 4 /\ format # <<>>
                              /\ \A i \in 1 .. 4 : g[i] = format[i + 1]
  <2>1. PICK n \in Nat : n = 4
    OBVIOUS
  <2>2. Len(format) = n + 1
    BY <2>1
  <2>3. PICK g \in Seq(Chars) : /\ g = Tail(format) /\ Len(g) = n /\ format # <<>>
                                /\ \A i \in 1 .. n : g[i] = format[i + 1]
    BY <2>2, TailOf, Zenon
  <2> QED BY <2>1, <2>3, Zenon
<1>2. g[1] = "%" /\ g[2] = "s" /\ g[3] = "]" /\ g[4] = c
  <2>1. \A i \in 1 .. 4 : g[i] = format[i + 1]
    BY <1>1
  <2> QED BY <2>1
<1>3. Kinds[format] = Kinds[g]
  <2>1. format[1] # "%"
    OBVIOUS
  <2> QED BY <1>1, <2>1, PlainKinds
<1>4. PICK h \in Seq(Chars) : /\ Len(h) = 2 /\ h[1] = "]" /\ h[2] = c
                              /\ Kinds[g] = <<"string">> \o Kinds[h]
  <2>1. Len(g) = 4
    BY <1>1
  <2>2. PICK h \in Seq(Chars) : /\ Len(h) = 2 /\ h[1] = g[3] /\ h[2] = g[4]
                                /\ Kinds[g] = <<"string">> \o Kinds[h]
    BY <1>2, <2>1, BehindString, Zenon
  <2> QED BY <1>2, <2>2, Zenon
<1>5. PICK t \in Seq(Chars) : /\ t = Tail(h) /\ Len(t) = 1 /\ h # <<>>
                              /\ \A i \in 1 .. 1 : t[i] = h[i + 1]
  <2>1. PICK n \in Nat : n = 1
    OBVIOUS
  <2>2. Len(h) = 2
    BY <1>4, Zenon
  <2>3. Len(h) = n + 1
    BY <2>1, <2>2
  <2>4. PICK t \in Seq(Chars) : /\ t = Tail(h) /\ Len(t) = n /\ h # <<>>
                                /\ \A i \in 1 .. n : t[i] = h[i + 1]
    BY <2>3, TailOf, Zenon
  <2> QED BY <2>1, <2>4, Zenon
<1>6. Kinds[h] = Kinds[t]
  <2>1. h[1] # "%"
    <3>1. h[1] = "]"
      BY <1>4, Zenon
    <3> QED BY <3>1
  <2> QED BY <1>5, <2>1, PlainKinds
<1>7. t # <<>> /\ Tail(t) = <<>> /\ t[1] # "%"
  <2>1. PICK e \in Seq(Chars) : e = Tail(t) /\ Len(e) = 0 /\ t # <<>>
    <3>1. PICK n \in Nat : n = 0
      OBVIOUS
    <3>2. Len(t) = n + 1
      BY <1>5, <3>1
    <3>3. PICK e \in Seq(Chars) : e = Tail(t) /\ Len(e) = n /\ t # <<>>
      BY <3>2, TailOf, Zenon
    <3> QED BY <3>1, <3>3, Zenon
  <2>2. e = <<>>
    BY <2>1, EmptySeq
  <2>3. h[2] = c
    BY <1>4, Zenon
  <2>4. \A i \in 1 .. 1 : t[i] = h[i + 1]
    BY <1>5
  <2>5. t[1] = c
    BY <2>3, <2>4
  <2> QED BY <2>1, <2>2, <2>5
<1>8. Kinds[t] = Kinds[<<>>]
  BY <1>7, PlainKinds
<1>9. Kinds[<<>>] = <<>>
  <2>1. ~HasItem(<<>>) /\ <<>> \in Seq(Chars)
    BY DEF HasItem
  <2> QED BY <2>1, KindsStep
<1>10. <<"string">> \o <<>> = <<"string">>
  OBVIOUS
<1>11. Kinds[g] = <<"string">> \o Kinds[h]
  BY <1>4, Zenon
<1> QED BY <1>3, <1>6, <1>8, <1>9, <1>10, <1>11

LEMMA StringArg ==
    ASSUME NEW string \in Strings, NEW a, a = <<[kind |-> "string", value |-> string]>>
    PROVE  a \in Seq(Arg) /\ Match(a, <<"string">>)
<1>1. Values("string") = Strings
  BY Zenon DEF Values
<1>2. PICK arg : arg = [kind |-> "string", value |-> string]
  OBVIOUS
<1>3. arg \in ArgOf("string") /\ arg.kind = "string"
  BY <1>1, <1>2 DEF ArgOf
<1>4. arg \in Arg
  BY <1>3 DEF Arg
<1>5. a = <<arg>>
  BY <1>2
<1> QED BY <1>3, <1>4, <1>5 DEF Match

LEMMA BracketsArePrintable == {"-", "%", "[", "]", "s"} \subseteq Printable
BY PrintfAssumption, Zenon

LEMMA LogfKeeps ==
    ASSUME IInv, NEW level \in DOMAIN Colors, NEW module \in Strings,
           NEW format \in LogFormats, NEW a \in ArgumentsFor(format),
           Logf(level, module, format, a)
    PROVE  IInv'
<1>1. calls < MaxCalls /\ file # "other"
  BY CallsAreTyped DEF Logf
<1>2. /\ format \in Seq(Chars) /\ Colors[level] \in Seq(Chars) /\ <<>> \in Seq(Chars)
      /\ module \in Seq(Chars)
  <2>1. Colors[level] \in Seq(Chars)
    BY CallsAreTyped, LenProperties, ElementOfSeq
  <2> QED BY <2>1, CallsAreTyped
<1>3. PICK sp \in Printable : sp = " "
  BY SpaceIsPrintable
<1>4. sp # "%"
  BY <1>3, Zenon
<1>5. PICK brackets \in Seq(Chars) : brackets = <<"[", "%", "s", "]", sp>>
  <2>1. "[" \in Chars /\ "%" \in Chars /\ "s" \in Chars /\ "]" \in Chars /\ sp \in Chars
    BY BracketsArePrintable DEF Chars
  <2>2. <<"[", "%", "s", "]", sp>> \in Seq(Chars)
    BY <2>1
  <2> QED BY <2>2
<1>6. PICK name : name = <<[kind |-> "string", value |-> module]>>
  OBVIOUS
<1>7. name \in ArgumentsFor(brackets)
  <2>1. sp \in Chars
    BY DEF Chars
  <2>2. Kinds[brackets] = <<"string">>
    <3>1. /\ Len(brackets) = 5 /\ brackets[1] = "[" /\ brackets[2] = "%"
          /\ brackets[3] = "s" /\ brackets[4] = "]" /\ brackets[5] = sp
      BY <1>5
    <3> QED BY <1>4, <2>1, <3>1, BracketKinds
  <2>3. name \in Seq(Arg) /\ Match(name, <<"string">>)
    BY <1>6, StringArg
  <2> QED BY <2>2, <2>3, FitIs
<1>8. PICK end \in Seq(Chars) : end = ColorReset \o <<"\n">>
  <2>1. <<"\n">> \in Seq(Chars)
    BY DEF Chars
  <2> QED BY <2>1, CallsAreTyped, ConcatProperties
<1>9. PICK p1, p2, p3 : /\ p1 = Part(Colors[level], brackets, name)
                        /\ p2 = Part(<<>>, format, a)
                        /\ p3 = Part(end, <<>>, <<>>)
  OBVIOUS
<1>10. name \in Seq(Arg) /\ a \in Seq(Arg) /\ <<>> \in Seq(Arg)
  BY <1>2, <1>7, FitStep
<1>11. /\ p1 \in Parts /\ p1.args \in ArgumentsFor(p1.fmt)
       /\ p2 \in Parts /\ p2.args \in ArgumentsFor(p2.fmt)
       /\ p3 \in Parts /\ p3.args \in ArgumentsFor(p3.fmt)
  <2>1. /\ p1 = [text |-> Colors[level], fmt |-> brackets, args |-> name]
        /\ p2 = [text |-> <<>>, fmt |-> format, args |-> a]
        /\ p3 = [text |-> end, fmt |-> <<>>, args |-> <<>>]
    BY <1>9 DEF Part
  <2>2. p1 \in Parts /\ p1.fmt = brackets /\ p1.args = name
    BY <1>2, <1>10, <2>1 DEF Parts
  <2>3. p2 \in Parts /\ p2.fmt = format /\ p2.args = a
    BY <1>2, <1>10, <2>1 DEF Parts
  <2>4. p3 \in Parts /\ p3.fmt = <<>> /\ p3.args = <<>>
    BY <1>2, <1>10, <2>1 DEF Parts
  <2> QED BY <1>7, <2>2, <2>3, <2>4, NoArguments
<1>12. PICK ps \in Seq(Parts) : ps = <<p1, p2, p3>>
  <2>1. <<p1, p2, p3>> \in Seq(Parts)
    BY <1>11
  <2> QED BY <2>1
<1>13. ps # <<>> /\ FittingParts(ps)
  <2>1. ps # <<>> /\ DOMAIN ps = 1 .. 3 /\ ps[1] = p1 /\ ps[2] = p2 /\ ps[3] = p3
    BY <1>12
  <2> QED BY <1>11, <2>1 DEF FittingParts
<1>14. Begin(ps)
  BY <1>3, <1>5, <1>6, <1>8, <1>9, <1>12, Zenon DEF Logf, Message
<1> QED BY <1>1, <1>13, <1>14, BeginKeeps

LEMMA ClearCallKeeps == ASSUME IInv, Clear PROVE IInv'
<1>1. /\ calls < MaxCalls /\ calls' = calls + 1 /\ ClearScreen
      /\ UNCHANGED <<program, file, busy, machine, written, meaning, signs>>
  BY DEF Clear
<1>2. MachineInv /\ Showing
  BY DEF IInv
<1>3. calls' \in 0 .. MaxCalls
  BY <1>1, <1>2, CallsAreTyped DEF MachineInv, MachineTyped
<1> QED BY <1>1, <1>2, <1>3, MachineSame, ClearKeeps DEF IInv

LEMMA TabCallKeeps == ASSUME IInv, Tab PROVE IInv'
<1>1. /\ TabTurn \/ TabEnds
      /\ UNCHANGED <<program, file, busy, machine, calls, written, meaning, signs>>
  BY DEF Tab
<1>2. MachineInv /\ Showing
  BY DEF IInv
<1>3. calls' \in 0 .. MaxCalls
  BY <1>1, <1>2 DEF MachineInv, MachineTyped
<1> QED BY <1>1, <1>2, <1>3, MachineSame, TabKeeps DEF IInv

LEMMA NothingKeeps == ASSUME IInv, UNCHANGED vars PROVE IInv'
<1>1. /\ UNCHANGED <<program, file, busy, machine, calls, written, meaning, signs>>
      /\ UNCHANGED console
  BY DEF vars
<1>2. MachineInv /\ Showing
  BY DEF IInv
<1>3. calls' \in 0 .. MaxCalls
  BY <1>1, <1>2 DEF MachineInv, MachineTyped
<1> QED BY <1>1, <1>2, <1>3, MachineSame, SameConsole DEF IInv

LEMMA NextKeeps == IInv /\ [Next]_vars => IInv'
<1> SUFFICES ASSUME IInv, [Next]_vars PROVE IInv'
  OBVIOUS
<1>1. ASSUME NEW format \in Formats, NEW a \in ArgumentsFor(format), Printf(format, a)
      PROVE  IInv'
  BY <1>1, PrintfKeeps
<1>2. ASSUME NEW string \in Strings, Puts(string) PROVE IInv'
  BY <1>2, PutsKeeps
<1>3. ASSUME NEW message \in Strings, NEW buffer \in Buffers, PrintBuffer(message, buffer)
      PROVE  IInv'
  BY <1>3, PrintBufferKeeps
<1>4. ASSUME NEW level \in DOMAIN Colors, NEW module \in Strings, NEW format \in LogFormats,
             NEW a \in ArgumentsFor(format), Logf(level, module, format, a)
      PROVE  IInv'
  BY <1>4, LogfKeeps
<1>5. CASE Clear
  BY <1>5, ClearCallKeeps
<1>6. CASE Idle
  BY <1>6, NothingKeeps DEF Idle
<1>7. CASE NextPart
  BY <1>7, NextPartKeeps
<1>8. CASE Return
  BY <1>8, ReturnKeeps
<1>9. CASE NormalTurn
  BY <1>9, NormalTurnKeeps
<1>10. CASE LengthTurn
  BY <1>10, LengthTurnKeeps
<1>11. CASE SpecTurn
  BY <1>11, SpecTurnKeeps
<1>12. CASE WriteNext
  BY <1>12, WriteNextKeeps
<1>13. CASE WriteFails
  BY <1>13, WriteFailsKeeps
<1>14. CASE Tab
  BY <1>14, TabCallKeeps
<1>15. CASE UNCHANGED vars
  BY <1>15, NothingKeeps
<1> QED BY <1>1, <1>2, <1>3, <1>4, <1>5, <1>6, <1>7, <1>8, <1>9, <1>10, <1>11, <1>12,
           <1>13, <1>14, <1>15, Zenon DEF Next

LEMMA InvariantHolds == Spec => []IInv
<1>1. Init => IInv
  BY InitInvariant
<1>2. IInv /\ [Next]_vars => IInv'
  BY NextKeeps
<1> QED BY <1>1, <1>2, PTL DEF Spec

-----------------------------------------------------------------------------
(* The theorems                                                            *)

\* The machine, its call and the console keep their types.
THEOREM TypesHold == Spec => []TypeOK
BY InvariantHolds, TypesInvariant, PTL

\* Whatever is written by whatever calls, the screen shows the last lines of it
\* and the cursor is behind it: putc wraps, scrolls and expands tabs without
\* losing, repeating or displacing a character.
THEOREM ScreenAlwaysShowsOutput == Spec => []ScreenShowsOutput
<1>1. IInv => ScreenShowsOutput
  BY ShowingMeans DEF IInv
<1> QED BY <1>1, InvariantHolds, PTL

\* Whatever the format and the arguments that fit it, the loop of five states
\* writes what they mean: no conversion takes the argument of another, a format
\* that ends within a conversion writes nothing for it, and the digits written
\* by dividing are the digits of the number.
THEOREM OutputAlwaysIsMeaning == Spec => []OutputIsMeaning
BY InvariantHolds, InvariantTells, PTL
=============================================================================
