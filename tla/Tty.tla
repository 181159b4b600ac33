--------------------------------- MODULE Tty ---------------------------------
(***************************************************************************)
(* The terminal of tty.c on either of its screens, VGA text or a linear    *)
(* framebuffer: what a character and a backspace do to the cells and the   *)
(* cursor.  vga.c has a cursor of its own, which tty.c sets before every   *)
(* character.  Left out are how a character looks, colours, '\r', '\t' and *)
(* escape sequences.                                                       *)
(***************************************************************************)
EXTENDS Integers, Sequences

CONSTANTS
    WIDTH, HEIGHT,
    Newline,    \* '\n'
    Blank       \* an empty cell, or a space

ASSUME TtyAssumption == WIDTH \in Nat /\ WIDTH > 1 /\ HEIGHT \in Nat /\ HEIGHT > 1

VARIABLES
    framebuffer,    \* framebuffer_available()
    screen          \* tty_x, tty_y, and the cells, by row and column

Columns == 0 .. WIDTH - 1
Rows == 0 .. HEIGHT - 1

BlankRow == [x \in Columns |-> Blank]
Cleared(row) == [x |-> 0, y |-> row, cells |-> [y \in Rows |-> BlankRow]]

\* vga_scroll, framebuffer_scroll
Scrolled(cells) == [y \in Rows |-> IF y + 1 \in Rows THEN cells[y + 1] ELSE BlankRow]

AtCorner(s) == s.x = WIDTH - 1 /\ s.y = HEIGHT - 1

\* The screen s with c where the cursor is, on either screen.  vga_raw_putc moves vga.c's
\* cursor on, and scrolls when that leaves the screen.
FramebufferDrawn(s, c) == [s EXCEPT !.cells[s.y][s.x] = c]

VgaDrawn(s, c) ==
    LET drawn == FramebufferDrawn(s, c)
    IN IF AtCorner(s) THEN [drawn EXCEPT !.cells = Scrolled(@)] ELSE drawn

Drawn(s, c) == IF framebuffer THEN FramebufferDrawn(s, c) ELSE VgaDrawn(s, c)

\* tty_newline
NextLine(s) ==
    IF s.y + 1 \in Rows THEN [s EXCEPT !.x = 0, !.y = @ + 1]
    ELSE [s EXCEPT !.x = 0, !.cells = Scrolled(@)]

\* tty_write_char
Written(s, c) ==
    IF c = Newline THEN NextLine(s)
    ELSE IF s.x + 1 \in Columns THEN [Drawn(s, c) EXCEPT !.x = @ + 1]
    ELSE NextLine(Drawn(s, c))

\* Mutant: stays in its row.
BackspacedInRow(s) ==
    Drawn([s EXCEPT !.x = IF @ > 0 THEN @ - 1 ELSE @], Blank)

\* tty_backspace: one cell back, to the end of the row above from the first of a row.
Backspaced(s) ==
    Drawn(IF s.x > 0 THEN [s EXCEPT !.x = @ - 1]
          ELSE IF s.y > 0 THEN [s EXCEPT !.x = WIDTH - 1, !.y = @ - 1]
          ELSE s, Blank)

\* The last characters before the cursor are text, as far as the screen goes back, and all
\* cells from the cursor on are blank.
Shows(s, text) ==
    LET Cell(i) == s.cells[i \div WIDTH][i % WIDTH]
        cursor == s.y * WIDTH + s.x
    IN /\ \A i \in cursor .. WIDTH * HEIGHT - 1 : Cell(i) = Blank
       /\ \A i \in DOMAIN text :
            LET at == cursor - (1 + Len(text) - i) IN at >= 0 => Cell(at) = text[i]
==============================================================================
