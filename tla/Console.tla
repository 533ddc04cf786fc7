------------------------------ MODULE Console ------------------------------
(***************************************************************************)
(* The text console: putc of the second stage (stage2/stdio.c), VGA_putc   *)
(* of the kernel (vga_text.c) and VGATextDevice::PutChar of the core       *)
(* library, which are one program three times.                             *)
(*                                                                         *)
(* A cell holds a character, or NUL after it was cleared.  Its colour is   *)
(* always the default and left out.  A step puts one character, or is one  *)
(* turn of the loop that a tab runs.                                       *)
(***************************************************************************)
EXTENDS Integers, SequencesExt

CONSTANTS
    SCREEN_WIDTH,
    SCREEN_HEIGHT,
    Printable     \* the characters that occupy a cell, the space among them

NUL      == ""
NO_TAB   == -1
Chars    == Printable \cup {"\n", "\t", "\r"}
Rows     == 0 .. SCREEN_HEIGHT - 1
Columns  == 0 .. SCREEN_WIDTH - 1
Screens  == [Rows -> [Columns -> Printable \cup {NUL}]]

ASSUME ConsoleAssumption ==
    /\ SCREEN_WIDTH \in Nat \ {0} /\ SCREEN_HEIGHT \in Nat \ {0}
    /\ " " \in Printable /\ Printable \cap {NUL, "\n", "\t", "\r"} = {}

VARIABLES
    screen,     \* the cells at g_ScreenBuffer
    screenX,    \* g_ScreenX
    screenY,    \* g_ScreenY
    cursor,     \* the position in the cursor registers of the adapter
    tab,        \* i of the loop a tab runs, or NO_TAB
    put         \* history: the characters put since the last clear, a tab as
                \* its spaces

console == <<screen, screenX, screenY, cursor, tab, put>>

Blank       == [x \in Columns |-> NUL]
BlankScreen == [y \in Rows |-> Blank]

\* Every program clears the screen before it writes.
ConsoleInit ==
    /\ screen = BlankScreen
    /\ screenX = 0 /\ screenY = 0 /\ cursor = 0
    /\ tab = NO_TAB /\ put = <<>>

\* Mutant: the line scrolled in at the bottom is not cleared.
Scrolled_NotCleared(cells, lines) ==
    [y \in Rows |-> IF y + lines \in Rows THEN cells[y + lines] ELSE cells[y]]

\* scrollback.
Scrolled(cells, lines) ==
    [y \in Rows |-> IF y + lines \in Rows THEN cells[y + lines] ELSE Blank]

\* Mutant: a full line is noticed one character late.
Settle_Late(cells, x, y) ==
    LET full == x > SCREEN_WIDTH
        row  == IF full THEN y + 1 ELSE y
    IN  /\ screenX' = IF full THEN 0 ELSE x
        /\ IF row >= SCREEN_HEIGHT
           THEN screen' = Scrolled(cells, 1) /\ screenY' = row - 1
           ELSE screen' = cells /\ screenY' = row
        /\ cursor' = screenY' * SCREEN_WIDTH + screenX'

\* What putc does after its switch: wrap, scroll, setcursor.
Settle(cells, x, y) ==
    LET full == x >= SCREEN_WIDTH
        row  == IF full THEN y + 1 ELSE y
    IN  /\ screenX' = IF full THEN 0 ELSE x
        /\ IF row >= SCREEN_HEIGHT
           THEN screen' = Scrolled(cells, 1) /\ screenY' = row - 1
           ELSE screen' = cells /\ screenY' = row
        /\ cursor' = screenY' * SCREEN_WIDTH + screenX'

\* putc of anything but a tab.
PutChar(c) ==
    /\ CASE c = "\n" -> Settle(screen, 0, screenY + 1)
         [] c = "\r" -> Settle(screen, 0, screenY)
         [] OTHER    -> Settle([screen EXCEPT ![screenY][screenX] = c],
                               screenX + 1, screenY)
    /\ put' = Append(put, c)

\* putc.
Putc(c) ==
    IF c = "\t" THEN tab' = 0 /\ UNCHANGED <<screen, screenX, screenY, cursor, put>>
                ELSE PutChar(c) /\ UNCHANGED tab

\* A turn of the loop of a tab, and its end.  The column is read anew in every
\* turn, after the space of the turn before moved it, so that a tab may emit
\* fewer spaces than the column it began in asks for.  No comment or document
\* says how many it should: "put" takes the spaces as they come.
TabTurn ==
    /\ tab # NO_TAB /\ tab < 4 - (screenX % 4)
    /\ PutChar(" ")
    /\ tab' = tab + 1

TabEnds ==
    /\ tab # NO_TAB /\ tab >= 4 - (screenX % 4)
    /\ Settle(screen, screenX, screenY)
    /\ tab' = NO_TAB
    /\ UNCHANGED put

\* clrscr.
ClearScreen ==
    /\ screen' = BlankScreen
    /\ screenX' = 0 /\ screenY' = 0 /\ cursor' = 0
    /\ put' = <<>>
    /\ UNCHANGED tab
-----------------------------------------------------------------------------
(* Properties                                                               *)

ConsoleTypeOK ==
    /\ screen \in Screens
    /\ screenX \in Columns /\ screenY \in Rows
    /\ cursor \in Nat
    /\ tab \in {NO_TAB} \cup 0 .. 4
    /\ put \in Seq(Chars)

\* Everything that was put, written on a page without an end: a line is begun
\* by a newline or by a character for which the line before has no room left.
OnPage(page, c) ==
    LET last    == Len(page.lines)
        printed == [page.lines EXCEPT ![last][page.x] = c]
    IN  CASE c = "\n" -> [lines |-> Append(page.lines, Blank), x |-> 0]
          [] c = "\r" -> [lines |-> page.lines, x |-> 0]
          [] OTHER -> IF page.x + 1 < SCREEN_WIDTH
                      THEN [lines |-> printed, x |-> page.x + 1]
                      ELSE [lines |-> Append(printed, Blank), x |-> 0]

Page[output \in Seq(Chars)] ==
    IF output = <<>> THEN [lines |-> <<Blank>>, x |-> 0]
                     ELSE OnPage(Page[Front(output)], Last(output))

\* The screen is the last SCREEN_HEIGHT lines of that page, and the cursor is
\* where it goes on: wrapping, scrolling and tabs lose, repeat or displace
\* nothing, wherever on the screen they meet.
ScreenShowsOutput ==
    LET page    == Page[put]
        gone    == Max({0, Len(page.lines) - SCREEN_HEIGHT})
        Line(n) == IF n \in DOMAIN page.lines THEN page.lines[n] ELSE Blank
    IN  /\ screen = [y \in Rows |-> Line(gone + y + 1)]
        /\ screenX = page.x /\ screenY = Len(page.lines) - 1 - gone
        /\ cursor = screenY * SCREEN_WIDTH + screenX
=============================================================================
