--------------------------- MODULE Keyboard_proofs ---------------------------
(***************************************************************************)
(* Proofs about the keyboard and the read of standard input, with a ring,  *)
(* a screen and lines of any size.                                         *)
(***************************************************************************)
EXTENDS Keyboard, SequenceTheorems, TLAPS

Cells == 0 .. SIZE - 1
Codes == Chars \cup {Nul}
Glyphs == Chars \cup {Prompt, Blank}
Screens == [x : Columns, y : Rows, cells : [Rows -> [Columns -> Glyphs]]]
Text == Chars \ {Backspace}

\* How many characters wait, and the cell k behind r.
Gap == IF kbd_head >= kbd_tail THEN kbd_head - kbd_tail ELSE kbd_head - kbd_tail + SIZE
Behind(r, k) == IF r + k < SIZE THEN r + k ELSE r + k - SIZE

\* What waits are characters; and keyboard_getc, once it has seen one, still has it.
RingInv ==
    /\ \A k \in 0 .. Gap - 1 : kbd_buffer[Behind(kbd_tail, k)] \in Chars
    /\ pc \in {"load", "advance"} => kbd_head # kbd_tail
    /\ pc = "advance" => c = kbd_buffer[kbd_tail]

\* A character that was taken out is in the line as soon as it is dealt with.
LineInv ==
    /\ pc # "edit" => line = typed
    /\ pc = "edit" => c \in Chars /\ typed = Spelled(line, c)

\* The inductive invariant.
KeyInv == TypeOK /\ RingInv /\ LineInv
-----------------------------------------------------------------------------
(* Arithmetic of the ring.                                                 *)

LEMMA ModIs ==
    ASSUME NEW N \in Nat \ {0}, NEW r \in 0 .. N - 1, NEW k \in 0 .. N
    PROVE  (r + k) % N = IF r + k < N THEN r + k ELSE r + k - N
  OBVIOUS

LEMMA DifferenceIs ==
    ASSUME NEW N \in Nat \ {0}, NEW h \in 0 .. N - 1, NEW t \in 0 .. N - 1
    PROVE  (h - t) % N = IF h >= t THEN h - t ELSE h - t + N
  OBVIOUS

LEMMA BehindFacts ==
    ASSUME NEW r \in Cells
    PROVE  /\ \A k \in 0 .. SIZE : Behind(r, k) \in Cells /\ (r + k) % SIZE = Behind(r, k)
           /\ After(r) = Behind(r, 1)
           /\ \A k \in 0 .. SIZE - 1 : Behind(Behind(r, k), 1) = Behind(r, k + 1)
           /\ \A k \in 0 .. SIZE - 1 : Behind(Behind(r, 1), k) = Behind(r, k + 1)
           /\ \A j, k \in 0 .. SIZE - 1 : Behind(r, j) = Behind(r, k) => j = k
<1>1. SIZE \in Nat \ {0} /\ r \in 0 .. SIZE - 1
  BY KeyboardAssumption DEF KeyboardAssumption, Cells
<1>2. ASSUME NEW k \in 0 .. SIZE
      PROVE  (r + k) % SIZE = Behind(r, k)
  BY <1>1, ModIs, Zenon DEF Behind
<1>3. After(r) = Behind(r, 1)
  <2>1. 1 \in 0 .. SIZE
    BY <1>1
  <2> QED BY <1>2, <2>1 DEF After
<1>4. /\ \A k \in 0 .. SIZE : Behind(r, k) \in Cells
      /\ \A k \in 0 .. SIZE - 1 : Behind(Behind(r, k), 1) = Behind(r, k + 1)
      /\ \A k \in 0 .. SIZE - 1 : Behind(Behind(r, 1), k) = Behind(r, k + 1)
      /\ \A j, k \in 0 .. SIZE - 1 : Behind(r, j) = Behind(r, k) => j = k
  BY <1>1 DEF Behind, Cells
<1> QED BY <1>2, <1>3, <1>4

LEMMA GapIs ==
    ASSUME kbd_head \in Cells, kbd_tail \in Cells
    PROVE  /\ SIZE \in Nat /\ SIZE > 1 /\ Gap \in 0 .. SIZE - 1
           /\ (kbd_head - kbd_tail) % SIZE = Gap
           /\ kbd_head = Behind(kbd_tail, Gap)
           /\ (Gap = 0) = (kbd_head = kbd_tail)
           /\ (After(kbd_head) = kbd_tail) = (Gap = SIZE - 1)
<1>1. SIZE \in Nat \ {0} /\ SIZE > 1
  BY KeyboardAssumption DEF KeyboardAssumption
<1>2. (kbd_head - kbd_tail) % SIZE = Gap
  BY <1>1, DifferenceIs, Zenon DEF Gap, Cells
<1>3. /\ Gap \in 0 .. SIZE - 1 /\ kbd_head = Behind(kbd_tail, Gap)
      /\ (Gap = 0) = (kbd_head = kbd_tail)
      /\ (Behind(kbd_head, 1) = kbd_tail) = (Gap = SIZE - 1)
  BY <1>1 DEF Gap, Behind, Cells
<1>4. After(kbd_head) = Behind(kbd_head, 1)
  BY BehindFacts
<1> QED BY <1>1, <1>2, <1>3, <1>4

(* Sequences.                                                              *)

LEMMA IsTail ==
    ASSUME NEW S, NEW q \in Seq(S), NEW r \in Seq(S), Len(q) # 0, Len(r) = Len(q) - 1,
           \A k \in 1 .. Len(r) : r[k] = q[k + 1]
    PROVE  r = Tail(q) /\ q # <<>>
<1>1. q # <<>>
  OBVIOUS
<1>2. /\ Tail(q) \in Seq(S) /\ Len(Tail(q)) = Len(q) - 1
      /\ \A k \in 1 .. Len(Tail(q)) : Tail(q)[k] = q[k + 1]
  BY <1>1, HeadTailProperties
<1>3. Len(r) = Len(Tail(q)) /\ \A k \in 1 .. Len(r) : r[k] = Tail(q)[k]
  BY <1>2
<1> QED BY <1>1, <1>2, <1>3, SeqEqual

LEMMA IsAppend ==
    ASSUME NEW S, NEW q \in Seq(S), NEW r \in Seq(S), NEW x \in S, Len(r) = Len(q) + 1,
           \A k \in 1 .. Len(q) : r[k] = q[k], r[Len(q) + 1] = x
    PROVE  r = Append(q, x)
<1>1. /\ Append(q, x) \in Seq(S) /\ Len(Append(q, x)) = Len(q) + 1
      /\ Append(q, x)[Len(q) + 1] = x
      /\ \A k \in 1 .. Len(q) : Append(q, x)[k] = q[k]
  BY AppendProperties
<1>2. Len(q) \in Nat /\ \A k \in 1 .. Len(q) + 1 : k \in 1 .. Len(q) \/ k = Len(q) + 1
  OBVIOUS
<1>3. Len(r) = Len(Append(q, x)) /\ \A k \in 1 .. Len(r) : r[k] = Append(q, x)[k]
  BY <1>1, <1>2
<1> QED BY <1>1, <1>3, SeqEqual

LEMMA FrontIs ==
    ASSUME NEW S, NEW q \in Seq(S), q # <<>>
    PROVE  /\ Front(q) \in Seq(S) /\ Len(Front(q)) = Len(q) - 1 /\ Len(q) > 0
           /\ \A k \in 1 .. Len(q) - 1 : Front(q)[k] = q[k]
<1>1. Len(q) \in Nat /\ Len(q) > 0
  OBVIOUS
<1>2. PICK n \in Nat : n = Len(q) - 1
  BY <1>1
<1>3. \A k \in 1 .. n : q[k] \in S /\ 1 + k - 1 = k
  BY <1>1, <1>2
<1>4. /\ SubSeq(q, 1, n) \in Seq(S)
      /\ Len(SubSeq(q, 1, n)) = IF 1 <= n THEN n - 1 + 1 ELSE 0
      /\ \A k \in 1 .. n - 1 + 1 : SubSeq(q, 1, n)[k] = q[1 + k - 1]
  BY <1>3, SubSeqProperties
<1>5. Len(SubSeq(q, 1, n)) = n /\ \A k \in 1 .. n : SubSeq(q, 1, n)[k] = q[k]
  BY <1>3, <1>4
<1> QED BY <1>1, <1>2, <1>4, <1>5 DEF Front

\* A line with one more key is a line.
LEMMA SpelledIs ==
    ASSUME NEW q \in Seq(Text), NEW k \in Chars
    PROVE  Spelled(q, k) \in Seq(Text)
<1>1. CASE k # Backspace
  <2>1. k \in Text
    BY <1>1 DEF Text
  <2>2. Append(q, k) \in Seq(Text)
    BY <2>1
  <2> QED BY <1>1, <2>2 DEF Spelled
<1>2. CASE k = Backspace /\ q # <<>>
  BY <1>2, FrontIs DEF Spelled
<1>3. CASE k = Backspace /\ q = <<>>
  BY <1>3 DEF Spelled
<1> QED BY <1>1, <1>2, <1>3
-----------------------------------------------------------------------------
(* The screen.                                                             *)

LEMMA BlankRowIs == BlankRow \in [Columns -> Glyphs]
  BY DEF BlankRow, Glyphs

LEMMA ClearedIs == ASSUME NEW row \in Rows PROVE Cleared(row) \in Screens
<1>1. 0 \in Columns
  BY TtyAssumption DEF TtyAssumption, Columns
<1> QED BY <1>1, BlankRowIs DEF Cleared, Screens

LEMMA ScrolledIs ==
    ASSUME NEW cells \in [Rows -> [Columns -> Glyphs]]
    PROVE  Scrolled(cells) \in [Rows -> [Columns -> Glyphs]]
  BY BlankRowIs DEF Scrolled

LEMMA DrawnIs ==
    ASSUME NEW s \in Screens, NEW k \in Glyphs
    PROVE  Drawn(s, k) \in Screens /\ Drawn(s, k).x = s.x /\ Drawn(s, k).y = s.y
<1>1. /\ FramebufferDrawn(s, k) \in Screens
      /\ FramebufferDrawn(s, k).x = s.x /\ FramebufferDrawn(s, k).y = s.y
  BY DEF FramebufferDrawn, Screens
<1>2. VgaDrawn(s, k) \in Screens /\ VgaDrawn(s, k).x = s.x /\ VgaDrawn(s, k).y = s.y
  BY <1>1, ScrolledIs DEF VgaDrawn, Screens
<1> QED BY <1>1, <1>2 DEF Drawn

LEMMA NextLineIs == ASSUME NEW s \in Screens PROVE NextLine(s) \in Screens
<1>1. 0 \in Columns
  BY TtyAssumption DEF TtyAssumption, Columns
<1> QED BY <1>1, ScrolledIs DEF NextLine, Screens

LEMMA WrittenIs ==
    ASSUME NEW s \in Screens, NEW k \in Glyphs
    PROVE  Written(s, k) \in Screens
<1>1. Drawn(s, k) \in Screens /\ Drawn(s, k).x = s.x
  BY DrawnIs
<1>2. NextLine(s) \in Screens /\ NextLine(Drawn(s, k)) \in Screens
  BY <1>1, NextLineIs
<1>3. s.x + 1 \in Columns => [Drawn(s, k) EXCEPT !.x = @ + 1] \in Screens
  BY <1>1 DEF Screens
<1> QED BY <1>2, <1>3 DEF Written

LEMMA BackspacedIs == ASSUME NEW s \in Screens PROVE Backspaced(s) \in Screens
<1> DEFINE back == IF s.x > 0 THEN [s EXCEPT !.x = @ - 1]
                   ELSE IF s.y > 0 THEN [s EXCEPT !.x = WIDTH - 1, !.y = @ - 1]
                   ELSE s
<1>1. back \in Screens
  <2>1. s.x \in Columns /\ s.y \in Rows
    BY DEF Screens
  <2>2. /\ WIDTH - 1 \in Columns
        /\ s.x > 0 => s.x - 1 \in Columns
        /\ s.y > 0 => s.y - 1 \in Rows
    BY <2>1, TtyAssumption DEF TtyAssumption, Columns, Rows
  <2> QED BY <2>2 DEF Screens
<1> HIDE DEF back
<1>2. Drawn(back, Blank) \in Screens
  BY <1>1, DrawnIs DEF Glyphs
<1> QED BY <1>2 DEF Backspaced, back

-----------------------------------------------------------------------------
(* The inductive invariant.                                                *)

\* TypeOK in parts.
RingTypeOK ==
    /\ kbd_buffer \in [Cells -> Codes]
    /\ kbd_head \in Cells /\ kbd_tail \in Cells
    /\ shift \in {0, 1} /\ dropped \in BOOLEAN
ReadTypeOK ==
    /\ pc \in {"idle", "getc", "load", "advance", "edit"}
    /\ c \in Codes
    /\ count \in Nat /\ count \in Counts \cup {0}
    /\ line \in Seq(Text) /\ typed \in Seq(Text)
    /\ Len(line) <= count /\ (pc # "idle" => Len(line) < count)
ScreenTypeOK == screen \in Screens /\ framebuffer \in BOOLEAN /\ cornered \in BOOLEAN

LEMMA TypesAre == TypeOK <=> (RingTypeOK /\ ReadTypeOK /\ ScreenTypeOK)
<1>1. count \in Counts \cup {0} => count \in Nat
  BY KeyboardAssumption DEF KeyboardAssumption
<1> QED BY <1>1 DEF TypeOK, RingTypeOK, ReadTypeOK, ScreenTypeOK, Cells, Codes, Text, Screens, Glyphs

LEMMA CharsAre == Chars \subseteq Glyphs /\ Prompt \in Glyphs /\ Enter \in Text /\ Backspace \in Chars
  BY KeyboardAssumption DEF KeyboardAssumption, Chars, Glyphs, Text

LEMMA CharIs == ASSUME shift \in {0, 1}, NEW k \in Keys PROVE Char(k) \in Chars
  BY DEF Char, Keys, Chars

LEMMA InitKeyInv == Init => KeyInv
<1> SUFFICES ASSUME Init PROVE KeyInv
  OBVIOUS
<1>1. SIZE \in Nat /\ SIZE > 1 /\ HEIGHT \in Nat /\ HEIGHT > 1
  BY KeyboardAssumption, TtyAssumption DEF KeyboardAssumption, TtyAssumption
<1>2. RingTypeOK
  <2>1. kbd_buffer = [i \in Cells |-> Nul] /\ kbd_buffer \in [Cells -> Codes]
    BY DEF Init, Cells, Codes
  <2>2. kbd_head \in Cells /\ kbd_tail \in Cells
    BY <1>1 DEF Init, Cells
  <2> QED BY <2>1, <2>2 DEF Init, RingTypeOK
<1>3. ReadTypeOK
  BY DEF Init, ReadTypeOK, Codes
<1>4. ScreenTypeOK
  <2>1. 0 \in Rows
    BY <1>1 DEF Rows
  <2> QED BY <2>1, ClearedIs DEF Init, ScreenTypeOK
<1>5. RingInv
  BY <1>1 DEF Init, RingInv, Gap
<1>6. LineInv
  BY DEF Init, LineInv
<1> QED BY <1>2, <1>3, <1>4, <1>5, <1>6, TypesAre DEF KeyInv

\* The interrupt.
LEMMA PushStep ==
    ASSUME RingTypeOK, RingInv, NEW k \in Chars, Push(k), UNCHANGED <<pc, c, shift>>
    PROVE  RingTypeOK' /\ RingInv'
<1>1. kbd_buffer \in [Cells -> Codes] /\ kbd_head \in Cells /\ kbd_tail \in Cells
  BY DEF RingTypeOK
<1>2. CASE After(kbd_head) = kbd_tail
  <2>1. UNCHANGED ring /\ dropped' = ~dropped
    BY <1>2 DEF Push
  <2>2. RingTypeOK'
    BY <2>1 DEF RingTypeOK, ring
  <2>3. RingInv'
    BY <2>1 DEF RingInv, ring, Gap, Behind
  <2> QED BY <2>2, <2>3
<1>3. CASE After(kbd_head) # kbd_tail
  <2>1. /\ kbd_buffer' = [kbd_buffer EXCEPT ![kbd_head] = k]
        /\ kbd_head' = After(kbd_head) /\ kbd_tail' = kbd_tail /\ dropped' = dropped
    BY <1>3 DEF Push
  <2>2. /\ kbd_head' = Behind(kbd_head, 1) /\ kbd_head' \in Cells
        /\ 1 \in 0 .. SIZE
    <3>1. 1 \in 0 .. SIZE
      BY <1>1, GapIs
    <3> QED BY <1>1, <2>1, <3>1, BehindFacts
  <2>3. RingTypeOK'
    BY <1>1, <2>1, <2>2 DEF RingTypeOK, Codes
  <2>4. Gap \in 0 .. SIZE - 2 /\ Gap' = Gap + 1
    <3>1. Gap \in 0 .. SIZE - 1 /\ SIZE \in Nat /\ Gap # SIZE - 1
      BY <1>1, <1>3, GapIs
    <3> QED BY <1>1, <2>1, <2>2, <3>1 DEF Gap, Behind, Cells
  <2>5. ASSUME NEW i \in 0 .. Gap' - 1
        PROVE  kbd_buffer'[Behind(kbd_tail, i)] \in Chars
    <3>1. Behind(kbd_tail, i) \in Cells
      <4>1. i \in 0 .. SIZE
        BY <1>1, <2>4, GapIs
      <4> QED BY <1>1, <4>1, BehindFacts
    <3>2. CASE i = Gap
      BY <1>1, <2>1, <3>1, <3>2, GapIs
    <3>3. CASE i # Gap
      <4>1. i \in 0 .. Gap - 1
        BY <2>4, <3>3
      <4> QED BY <1>1, <2>1, <3>1, <4>1 DEF RingInv
    <3> QED BY <3>2, <3>3
  <2>6. kbd_head' # kbd_tail'
    BY <1>3, <2>1
  <2>7. pc = "advance" => kbd_buffer'[kbd_tail] = kbd_buffer[kbd_tail]
    <3>1. pc = "advance" => kbd_tail # kbd_head
      BY DEF RingInv
    <3> QED BY <1>1, <2>1, <3>1
  <2>8. RingInv'
    BY <2>1, <2>5, <2>6, <2>7 DEF RingInv, Behind
  <2> QED BY <2>3, <2>8
<1> QED BY <1>2, <1>3

LEMMA InterruptStep == KeyInv /\ Interrupt => KeyInv'
<1> SUFFICES ASSUME KeyInv, Interrupt PROVE KeyInv'
  OBVIOUS
<1>1. /\ RingTypeOK /\ ReadTypeOK /\ ScreenTypeOK /\ RingInv /\ LineInv
      /\ UNCHANGED <<pc, c, count, line, typed, tty>>
  BY TypesAre DEF KeyInv, Interrupt, KeyPress, ShiftDown, ShiftUp
<1>2. ReadTypeOK' /\ ScreenTypeOK' /\ LineInv'
  BY <1>1 DEF ReadTypeOK, ScreenTypeOK, LineInv, Spelled, tty
<1>3. CASE ShiftDown \/ ShiftUp
  <2>1. RingTypeOK'
    BY <1>1, <1>3 DEF RingTypeOK, ShiftDown, ShiftUp, ring
  <2>2. RingInv'
    BY <1>1, <1>3 DEF RingInv, ShiftDown, ShiftUp, ring, Gap, Behind
  <2>3. TypeOK'
    BY <1>2, <2>1, TypesAre, PTL
  <2> QED BY <1>2, <2>2, <2>3 DEF KeyInv
<1>4. ASSUME NEW k \in Keys, KeyPress(k) PROVE KeyInv'
  <2>1. Char(k) \in Chars
    BY <1>1, CharIs DEF RingTypeOK
  <2>2. RingTypeOK' /\ RingInv'
    BY <1>1, <1>4, <2>1, PushStep DEF KeyPress
  <2>3. TypeOK'
    BY <1>2, <2>2, TypesAre, PTL
  <2> QED BY <1>2, <2>2, <2>3 DEF KeyInv
<1> QED BY <1>3, <1>4 DEF Interrupt

\* The read.
LEMMA ReadStep ==
    ASSUME KeyInv, NEW n \in Counts, NEW row \in Rows, Read(n, row)
    PROVE  KeyInv'
<1>1. RingTypeOK /\ ReadTypeOK /\ ScreenTypeOK /\ RingInv
  BY TypesAre DEF KeyInv
<1>2. n \in Nat \ {0}
  BY KeyboardAssumption DEF KeyboardAssumption
<1>3. Written(Cleared(row), Prompt) \in Screens
  BY ClearedIs, WrittenIs, CharsAre
<1>4. RingTypeOK' /\ RingInv'
  BY <1>1 DEF Read, ring, RingTypeOK, RingInv, Gap, Behind
<1>5. ScreenTypeOK'
  BY <1>1, <1>3 DEF Read, ScreenTypeOK
<1>6. ReadTypeOK'
  <2>1. c' \in Codes /\ count' = n /\ line' = <<>> /\ typed' = <<>> /\ pc' = "getc"
    BY <1>1 DEF Read, ReadTypeOK
  <2> QED BY <1>2, <2>1 DEF ReadTypeOK
<1>7. LineInv'
  BY DEF Read, LineInv
<1>8. TypeOK'
  BY <1>4, <1>5, <1>6, TypesAre, PTL
<1> QED BY <1>4, <1>7, <1>8 DEF KeyInv

LEMMA GetcStep == KeyInv /\ (GetcCheck \/ GetcLoad) => KeyInv'
<1> SUFFICES ASSUME KeyInv, GetcCheck \/ GetcLoad PROVE KeyInv'
  OBVIOUS
<1>1. RingTypeOK /\ ReadTypeOK /\ ScreenTypeOK /\ RingInv /\ LineInv
  BY TypesAre DEF KeyInv
<1>2. UNCHANGED <<ring, shift, count, line, tty, typed, dropped>>
  BY DEF GetcCheck, GetcLoad
<1>3. c' \in Codes
  BY <1>1 DEF GetcCheck, GetcLoad, RingTypeOK, ReadTypeOK
<1>4. RingTypeOK'
  BY <1>1, <1>2 DEF ring, RingTypeOK
<1>5. RingInv'
  <2>1. pc' \in {"load", "advance"} => kbd_head' # kbd_tail'
    BY <1>1, <1>2 DEF GetcCheck, GetcLoad, ring, RingInv
  <2>2. pc' = "advance" => c' = kbd_buffer'[kbd_tail']
    BY <1>2 DEF GetcCheck, GetcLoad, ring
  <2> QED BY <1>1, <1>2, <2>1, <2>2 DEF ring, RingInv, Gap, Behind
<1>6. ScreenTypeOK'
  BY <1>1, <1>2 DEF tty, ScreenTypeOK
<1>7. ReadTypeOK'
  BY <1>1, <1>2, <1>3 DEF GetcCheck, GetcLoad, ReadTypeOK
<1>8. LineInv'
  BY <1>1, <1>2 DEF GetcCheck, GetcLoad, LineInv
<1>9. TypeOK'
  BY <1>4, <1>6, <1>7, TypesAre, PTL
<1> QED BY <1>5, <1>8, <1>9 DEF KeyInv

\* The first of those that wait is the one that keyboard_getc has loaded.
LEMMA FirstOut ==
    ASSUME RingTypeOK, RingInv, pc = "advance"
    PROVE  /\ kbd_buffer[kbd_tail] \in Chars /\ c = kbd_buffer[kbd_tail]
           /\ Gap \in 1 .. SIZE - 1 /\ Behind(kbd_tail, 0) = kbd_tail
<1>1. kbd_head \in Cells /\ kbd_tail \in Cells /\ kbd_head # kbd_tail
  BY DEF RingTypeOK, RingInv
<1>2. SIZE \in Nat /\ Gap \in 1 .. SIZE - 1
  BY <1>1, GapIs
<1>3. Behind(kbd_tail, 0) = kbd_tail
  BY <1>1, <1>2 DEF Behind, Cells
<1>4. 0 \in 0 .. Gap - 1
  BY <1>2
<1> QED BY <1>2, <1>3, <1>4 DEF RingInv

LEMMA AdvanceStep == KeyInv /\ GetcAdvance => KeyInv'
<1> SUFFICES ASSUME KeyInv, GetcAdvance PROVE KeyInv'
  OBVIOUS
<1>1. RingTypeOK /\ ReadTypeOK /\ ScreenTypeOK /\ RingInv /\ LineInv
  BY TypesAre DEF KeyInv
<1>2. /\ pc = "advance" /\ pc' = "edit" /\ typed' = Spelled(typed, c) /\ c \in Chars
      /\ Gap \in 1 .. SIZE - 1
  BY <1>1, FirstOut DEF GetcAdvance
<1>3. kbd_head \in Cells /\ kbd_tail \in Cells /\ SIZE \in Nat
  BY <1>1, GapIs DEF RingTypeOK
<1>4. kbd_tail' = Behind(kbd_tail, 1) /\ kbd_tail' \in Cells
  <2>1. 1 \in 0 .. SIZE
    BY <1>2, <1>3
  <2> QED BY <1>3, <2>1, BehindFacts DEF GetcAdvance
<1>5. Gap' = Gap - 1
  BY <1>2, <1>3, <1>4 DEF Gap, Behind, Cells, GetcAdvance
<1>6. RingTypeOK'
  BY <1>1, <1>4 DEF RingTypeOK, GetcAdvance
<1>7. RingInv'
  <2>1. ASSUME NEW i \in 0 .. Gap' - 1 PROVE kbd_buffer'[Behind(kbd_tail', i)] \in Chars
    <3>1. i \in 0 .. SIZE - 1 /\ i + 1 \in 0 .. Gap - 1
      BY <1>2, <1>3, <1>5
    <3>2. Behind(kbd_tail', i) = Behind(kbd_tail, i + 1)
      BY <1>3, <1>4, <3>1, BehindFacts
    <3> QED BY <1>1, <3>1, <3>2 DEF RingInv, GetcAdvance
  <2> QED BY <1>2, <2>1 DEF RingInv, Behind
<1>8. ScreenTypeOK'
  BY <1>1 DEF tty, ScreenTypeOK, GetcAdvance
<1>9. line = typed /\ LineInv'
  BY <1>1, <1>2 DEF GetcAdvance, LineInv
<1>10. ReadTypeOK'
  <2>1. typed' \in Seq(Text)
    BY <1>1, <1>2, SpelledIs DEF ReadTypeOK
  <2>2. UNCHANGED <<c, count, line>>
    BY DEF GetcAdvance
  <2> QED BY <1>1, <1>2, <2>1, <2>2 DEF ReadTypeOK
<1>11. TypeOK'
  BY <1>6, <1>8, <1>10, TypesAre, PTL
<1> QED BY <1>7, <1>9, <1>11 DEF KeyInv

\* What the three ways to deal with a character make of the line.
LEMMA EditStep == KeyInv /\ (EditEnter \/ EditBackspace \/ EditOther) => KeyInv'
<1> SUFFICES ASSUME KeyInv, EditEnter \/ EditBackspace \/ EditOther PROVE KeyInv'
  OBVIOUS
<1>1. /\ RingTypeOK /\ ReadTypeOK /\ ScreenTypeOK /\ RingInv /\ LineInv
      /\ pc = "edit" /\ pc' \in {"idle", "getc"} /\ UNCHANGED <<ring, shift, c, count, typed, dropped>>
  BY TypesAre DEF KeyInv, EditEnter, EditBackspace, EditOther
<1>2. c \in Chars /\ typed = Spelled(line, c) /\ c \in Glyphs
  BY <1>1, CharsAre DEF LineInv
<1>3. RingTypeOK' /\ RingInv'
  BY <1>1 DEF RingTypeOK, RingInv, ring, Gap, Behind
<1>4. ScreenTypeOK'
  <2>1. Written(screen, c) \in Screens /\ Backspaced(screen) \in Screens
    BY <1>1, <1>2, WrittenIs, BackspacedIs DEF ScreenTypeOK
  <2>2. screen' \in Screens /\ framebuffer' = framebuffer
    BY <1>1, <2>1 DEF EditEnter, EditBackspace, EditOther, Echo, ScreenTypeOK
  <2>3. cornered' \in BOOLEAN
    BY <1>1 DEF EditEnter, EditBackspace, EditOther, Echo, ScreenTypeOK
  <2> QED BY <1>1, <2>2, <2>3 DEF ScreenTypeOK
<1>5. line' = typed
  BY <1>2, KeyboardAssumption
  DEF KeyboardAssumption, EditEnter, EditBackspace, EditOther, Spelled
<1>6. LineInv'
  BY <1>1, <1>5 DEF LineInv
<1>7. Len(line') <= count /\ (pc' # "idle" => Len(line') < count)
  <2>1. line \in Seq(Text) /\ Len(line) \in Nat /\ Len(line) < count /\ count \in Nat
    BY <1>1 DEF ReadTypeOK
  <2>2. CASE EditEnter
    BY <1>1, <2>1, <2>2 DEF EditEnter
  <2>3. CASE EditBackspace
    <3>1. Len(line') <= Len(line)  /\ Len(line') \in Nat
      BY <2>1, <2>3, FrontIs DEF EditBackspace
    <3> QED BY <2>1, <3>1
  <2>4. CASE EditOther
    BY <1>1, <2>1, <2>4 DEF EditOther
  <2> QED BY <2>2, <2>3, <2>4
<1>8. ReadTypeOK'
  BY <1>1, <1>5, <1>7 DEF ReadTypeOK
<1>9. TypeOK'
  BY <1>3, <1>4, <1>8, TypesAre, PTL
<1> QED BY <1>3, <1>6, <1>9 DEF KeyInv

LEMMA KeyInvStep == KeyInv /\ [Next]_vars => KeyInv'
<1>1. KeyInv /\ UNCHANGED vars => KeyInv'
  BY DEF vars, ring, tty, KeyInv, TypeOK, RingInv, LineInv, Gap, Behind, Spelled
<1> QED BY <1>1, InterruptStep, ReadStep, GetcStep, AdvanceStep, EditStep DEF Next, Reading

LEMMA KeyInvariance == Init /\ [][Next]_vars => []KeyInv
  BY InitKeyInv, KeyInvStep, PTL

-----------------------------------------------------------------------------
(* The ring as a queue.                                                    *)

\* What waits is the stretch of the ring behind kbd_tail.
WaitingFacts ==
    /\ Waiting \in Seq(Codes) /\ Len(Waiting) = Gap
    /\ \A k \in 1 .. Gap : Waiting[k] = kbd_buffer[Behind(kbd_tail, k - 1)]

LEMMA WaitingIs == RingTypeOK => WaitingFacts
<1> SUFFICES ASSUME RingTypeOK PROVE WaitingFacts
  OBVIOUS
<1> DEFINE s == [k \in 1 .. Gap |-> kbd_buffer[Behind(kbd_tail, k - 1)]]
<1>1. /\ kbd_buffer \in [Cells -> Codes] /\ kbd_head \in Cells /\ kbd_tail \in Cells
      /\ (kbd_head - kbd_tail) % SIZE = Gap /\ Gap \in 0 .. SIZE - 1 /\ SIZE \in Nat
  BY GapIs DEF RingTypeOK
<1>2. ASSUME NEW k \in 1 .. Gap
      PROVE  (kbd_tail + k - 1) % SIZE = Behind(kbd_tail, k - 1) /\ Behind(kbd_tail, k - 1) \in Cells
  <2>1. k - 1 \in 0 .. SIZE /\ kbd_tail + k - 1 = kbd_tail + (k - 1)
    BY <1>1 DEF Cells
  <2>2. (kbd_tail + (k - 1)) % SIZE = Behind(kbd_tail, k - 1) /\ Behind(kbd_tail, k - 1) \in Cells
    BY <1>1, <2>1, BehindFacts
  <2> QED BY <2>1, <2>2
<1>3. Waiting = s
  BY <1>1, <1>2, Zenon DEF Waiting
<1>4. s \in [1 .. Gap -> Codes] /\ \A k \in 1 .. Gap : s[k] = kbd_buffer[Behind(kbd_tail, k - 1)]
  BY <1>1, <1>2
<1> HIDE DEF s
<1>5. s \in Seq(Codes) /\ Len(s) = Gap
  BY <1>1, <1>4
<1> QED BY <1>3, <1>4, <1>5 DEF WaitingFacts

LEMMA SameWaiting == UNCHANGED ring => Waiting' = Waiting
  BY Zenon DEF ring, Waiting

\* A key that finds room goes behind the others, and one that does not is dropped.
LEMMA KeyPressFifo ==
    ASSUME KeyInv, KeyInv', NEW k \in Keys, KeyPress(k)
    PROVE  Fifo!Put(Char(k)) \/ Fifo!Drop
<1>1. /\ RingTypeOK /\ RingTypeOK' /\ Push(Char(k))
  BY TypesAre, PTL DEF KeyInv, KeyPress
<1>2. WaitingFacts /\ WaitingFacts'
  BY <1>1, WaitingIs, PTL
<1>3. /\ kbd_buffer \in [Cells -> Codes] /\ kbd_head \in Cells /\ kbd_tail \in Cells
      /\ SIZE \in Nat /\ Gap \in 0 .. SIZE - 1 /\ Char(k) \in Chars
  BY <1>1, GapIs, CharIs DEF RingTypeOK
<1>4. CASE After(kbd_head) = kbd_tail
  <2>1. UNCHANGED ring /\ dropped' = ~dropped
    BY <1>1, <1>4 DEF Push
  <2>2. Waiting' = Waiting
    BY <2>1, SameWaiting
  <2>3. Len(Waiting) = SIZE - 1
    BY <1>2, <1>3, <1>4, GapIs DEF WaitingFacts
  <2> QED BY <2>1, <2>2, <2>3 DEF Fifo!Drop
<1>5. CASE After(kbd_head) # kbd_tail
  <2>1. /\ kbd_buffer' = [kbd_buffer EXCEPT ![kbd_head] = Char(k)]
        /\ kbd_head' = After(kbd_head) /\ kbd_tail' = kbd_tail /\ dropped' = dropped
    BY <1>1, <1>5 DEF Push
  <2>2. kbd_head' = Behind(kbd_head, 1) /\ Gap # SIZE - 1 /\ kbd_head = Behind(kbd_tail, Gap)
    BY <1>3, <1>5, <2>1, BehindFacts, GapIs
  <2>3. Gap' = Gap + 1
    BY <1>3, <2>1, <2>2 DEF Gap, Behind, Cells
  <2>4. ASSUME NEW i \in 1 .. Gap
        PROVE  Waiting'[i] = Waiting[i]
    <3>1. i - 1 \in 0 .. SIZE - 1 /\ i - 1 \in 0 .. SIZE /\ i - 1 # Gap /\ i \in 1 .. Gap'
      BY <1>3, <2>3
    <3>2. Behind(kbd_tail, i - 1) # kbd_head /\ Behind(kbd_tail, i - 1) \in Cells
      BY <1>3, <2>2, <3>1, BehindFacts
    <3>3. Waiting'[i] = kbd_buffer'[Behind(kbd_tail, i - 1)]
      BY <1>2, <2>1, <3>1 DEF WaitingFacts, Behind
    <3>4. Waiting[i] = kbd_buffer[Behind(kbd_tail, i - 1)]
      BY <1>2 DEF WaitingFacts
    <3> QED BY <1>3, <2>1, <3>2, <3>3, <3>4
  <2>5. Waiting'[Gap + 1] = Char(k)
    <3>1. Gap + 1 \in 1 .. Gap' /\ Gap + 1 - 1 = Gap
      BY <1>3, <2>3
    <3>2. Waiting'[Gap + 1] = kbd_buffer'[Behind(kbd_tail, Gap)]
      BY <1>2, <2>1, <3>1 DEF WaitingFacts, Behind
    <3> QED BY <1>3, <2>1, <2>2, <3>2
  <2>6. /\ Waiting \in Seq(Codes) /\ Waiting' \in Seq(Codes) /\ Char(k) \in Codes
        /\ Len(Waiting) = Gap /\ Len(Waiting') = Gap + 1
    BY <1>2, <1>3, <2>3 DEF WaitingFacts, Codes
  <2>7. Waiting' = Append(Waiting, Char(k))
    BY <2>4, <2>5, <2>6, IsAppend
  <2>8. Len(Waiting) < SIZE - 1
    BY <1>3, <2>2, <2>6
  <2> QED BY <2>1, <2>7, <2>8 DEF Fifo!Put
<1> QED BY <1>4, <1>5

LEMMA AdvanceIsGet == ASSUME KeyInv, KeyInv', GetcAdvance PROVE Fifo!Get
<1>1. RingTypeOK /\ RingTypeOK' /\ RingInv
  BY TypesAre, PTL DEF KeyInv
<1>2. WaitingFacts /\ WaitingFacts'
  BY <1>1, WaitingIs, PTL
<1>3. /\ kbd_head \in Cells /\ kbd_tail \in Cells /\ SIZE \in Nat /\ Gap \in 1 .. SIZE - 1
      /\ kbd_buffer' = kbd_buffer /\ kbd_head' = kbd_head /\ dropped' = dropped
  BY <1>1, GapIs, FirstOut DEF RingTypeOK, GetcAdvance
<1>4. kbd_tail' = Behind(kbd_tail, 1)
  BY <1>3, BehindFacts DEF GetcAdvance
<1>5. Gap' = Gap - 1
  BY <1>3, <1>4 DEF Gap, Behind, Cells
<1>6. ASSUME NEW i \in 1 .. Gap'
      PROVE  Waiting'[i] = Waiting[i + 1]
  <2>1. i - 1 \in 0 .. SIZE - 1 /\ i - 1 + 1 = i /\ i + 1 - 1 = i /\ i + 1 \in 1 .. Gap
    BY <1>3, <1>5
  <2>2. Behind(Behind(kbd_tail, 1), i - 1) = Behind(kbd_tail, i)
    BY <1>3, <2>1, BehindFacts
  <2>3. Waiting'[i] = kbd_buffer'[Behind(kbd_tail', i - 1)]
    BY <1>2 DEF WaitingFacts, Behind
  <2>4. Waiting[i + 1] = kbd_buffer[Behind(kbd_tail, i)]
    BY <1>2, <2>1 DEF WaitingFacts
  <2> QED BY <1>3, <1>4, <2>2, <2>3, <2>4
<1>7. /\ Waiting \in Seq(Codes) /\ Waiting' \in Seq(Codes)
      /\ Len(Waiting) # 0 /\ Len(Waiting') = Len(Waiting) - 1 /\ Len(Waiting') = Gap'
  BY <1>2, <1>3, <1>5 DEF WaitingFacts
<1>8. Waiting' = Tail(Waiting) /\ Waiting # <<>>
  BY <1>6, <1>7, IsTail
<1> QED BY <1>3, <1>8 DEF Fifo!Get

LEMMA FifoStep == KeyInv /\ KeyInv' /\ [Next]_vars => [Fifo!Next]_<<Waiting, dropped, FALSE>>
<1> SUFFICES ASSUME KeyInv, KeyInv', [Next]_vars
             PROVE  [Fifo!Next]_<<Waiting, dropped, FALSE>>
  OBVIOUS
<1>1. ASSUME NEW k \in Keys, KeyPress(k) PROVE Fifo!Next
  <2>1. Char(k) \in Chars
    BY CharIs DEF KeyInv, TypeOK
  <2> QED BY <1>1, <2>1, KeyPressFifo DEF Fifo!Next
<1>2. CASE GetcAdvance
  BY <1>2, AdvanceIsGet DEF Fifo!Next
<1>3. CASE UNCHANGED <<ring, dropped>>
  BY <1>3, SameWaiting
<1>4. \/ \E k \in Keys : KeyPress(k)
      \/ GetcAdvance
      \/ UNCHANGED <<ring, dropped>>
  BY DEF Next, vars, Interrupt, ShiftDown, ShiftUp, Reading, GetcCheck, GetcLoad,
         EditEnter, EditBackspace, EditOther, Read
<1> QED BY <1>1, <1>2, <1>3, <1>4

LEMMA InitFifo == Init => Fifo!Init
<1> SUFFICES ASSUME Init PROVE Fifo!Init
  OBVIOUS
<1>1. WaitingFacts
  BY InitKeyInv, TypesAre, WaitingIs DEF KeyInv
<1>2. Gap = 0
  BY DEF Init, Gap
<1>3. Waiting = <<>>
  BY <1>1, <1>2 DEF WaitingFacts
<1> QED BY <1>3 DEF Fifo!Init, Init

-----------------------------------------------------------------------------
(* The screen as one line of cells.                                        *)

LEMMA Grows ==
    ASSUME NEW w \in Nat \ {0}, NEW a \in Int, NEW b \in Int, a < b
    PROVE  a * w + w <= b * w
<1>1. PICK d \in Nat : d > 0 /\ b = a + d
  <2>1. b - a \in Nat /\ b - a > 0 /\ b = a + (b - a)
    OBVIOUS
  <2> QED BY <2>1
<1>2. b * w = a * w + d * w
  BY <1>1
<1>3. d * w >= w
  BY <1>1
<1> QED BY <1>2, <1>3

LEMMA Parts ==
    ASSUME NEW w \in Nat \ {0}, NEW i \in Nat
    PROVE  i = (i \div w) * w + (i % w) /\ i % w \in 0 .. w - 1 /\ i \div w \in Nat
<1>1. i = w * (i \div w) + (i % w) /\ i % w \in 0 .. w - 1 /\ i \div w \in Int
  OBVIOUS
<1>2. w * (i \div w) = (i \div w) * w
  BY <1>1
<1>3. i \div w \in Nat
  OBVIOUS
<1> QED BY <1>1, <1>2, <1>3

LEMMA PartsAre ==
    ASSUME NEW w \in Nat \ {0}, NEW q \in Nat, NEW r \in 0 .. w - 1,
           NEW i \in Nat, i = q * w + r
    PROVE  i \div w = q /\ i % w = r
<1>1. PICK p \in Nat : p = i \div w
  BY Parts
<1>2. PICK s \in 0 .. w - 1 : s = i % w
  BY Parts
<1>3. p * w + s = q * w + r
  BY <1>1, <1>2, Parts
<1>4. p * w \in Int /\ q * w \in Int
  OBVIOUS
<1>5. ~(p < q)
  BY <1>3, <1>4, Grows
<1>6. ~(q < p)
  BY <1>3, <1>4, Grows
<1>7. p = q
  BY <1>5, <1>6
<1>8. s = r
  BY <1>3, <1>4, <1>7
<1> QED BY <1>1, <1>2, <1>7, <1>8

Area == WIDTH * HEIGHT
Cursor(s) == s.y * WIDTH + s.x
Linear(cells) == [i \in 0 .. Area - 1 |-> cells[i \div WIDTH][i % WIDTH]]

LEMMA ScreenSize ==
    /\ WIDTH \in Nat \ {0} /\ WIDTH > 1 /\ HEIGHT \in Nat \ {0} /\ HEIGHT > 1 /\ Area \in Nat
    /\ Area = HEIGHT * WIDTH /\ (HEIGHT - 1) * WIDTH = Area - WIDTH
<1>1. WIDTH \in Nat /\ WIDTH > 1 /\ HEIGHT \in Nat /\ HEIGHT > 1
  BY TtyAssumption DEF TtyAssumption
<1> QED BY <1>1 DEF Area

\* A place in a row is a place in the line.
LEMMA PlaceIs ==
    ASSUME NEW y \in Rows, NEW x \in Columns, NEW i \in Int, i = y * WIDTH + x
    PROVE  i \in 0 .. Area - 1 /\ i \div WIDTH = y /\ i % WIDTH = x
<1>1. y \in Nat /\ y < HEIGHT /\ x \in 0 .. WIDTH - 1 /\ y * WIDTH \in Nat
  BY ScreenSize DEF Rows, Columns
<1>2. y * WIDTH + WIDTH <= HEIGHT * WIDTH
  BY <1>1, ScreenSize, Grows
<1>3. i \in Nat /\ i < Area
  BY <1>1, <1>2, ScreenSize
<1>4. i \div WIDTH = y /\ i % WIDTH = x
  BY <1>1, <1>3, ScreenSize, PartsAre
<1> QED BY <1>3, <1>4, ScreenSize

LEMMA PlaceOf ==
    ASSUME NEW i \in 0 .. Area - 1
    PROVE  /\ i \div WIDTH \in Rows /\ i % WIDTH \in Columns
           /\ i = (i \div WIDTH) * WIDTH + (i % WIDTH)
           /\ (i + WIDTH \in 0 .. Area - 1) = ((i \div WIDTH) + 1 \in Rows)
<1>1. PICK y \in Nat, x \in 0 .. WIDTH - 1 :
        y = i \div WIDTH /\ x = i % WIDTH /\ i = y * WIDTH + x
  <2>1. i \in Nat
    OBVIOUS
  <2> QED BY <2>1, ScreenSize, Parts
<1>2. y * WIDTH \in Nat /\ HEIGHT * WIDTH \in Nat
  BY ScreenSize
<1>3. y < HEIGHT
  <2>1. CASE HEIGHT <= y
    <3>1. HEIGHT * WIDTH <= y * WIDTH
      <4>1. HEIGHT = y \/ HEIGHT < y
        BY <2>1, ScreenSize
      <4>2. HEIGHT < y => HEIGHT * WIDTH + WIDTH <= y * WIDTH
        BY ScreenSize, Grows
      <4> QED BY <1>2, <4>1, <4>2, ScreenSize
    <3> QED BY <1>1, <1>2, <3>1, ScreenSize
  <2> QED BY <2>1, ScreenSize
<1>4. (y + 1) * WIDTH = y * WIDTH + WIDTH
  BY ScreenSize
<1>5. y + 1 < HEIGHT => i + WIDTH < Area
  <2> SUFFICES ASSUME y + 1 < HEIGHT PROVE i + WIDTH < Area
    OBVIOUS
  <2>1. (y + 1) * WIDTH + WIDTH <= HEIGHT * WIDTH
    BY ScreenSize, Grows
  <2> QED BY <1>1, <1>2, <1>4, <2>1, ScreenSize
<1>6. y + 1 = HEIGHT => ~(i + WIDTH < Area)
  <2> SUFFICES ASSUME y + 1 = HEIGHT PROVE Area <= i + WIDTH
    BY <1>1, ScreenSize
  <2>1. Area = y * WIDTH + WIDTH
    BY <1>4, ScreenSize
  <2> QED BY <1>1, <1>2, <2>1, ScreenSize
<1>7. y \in Rows /\ x \in Columns /\ (y + 1 \in Rows <=> y + 1 < HEIGHT)
  BY <1>3, ScreenSize DEF Rows, Columns
<1>8. i + WIDTH \in 0 .. Area - 1 <=> i + WIDTH < Area
  BY ScreenSize
<1>9. y + 1 < HEIGHT \/ y + 1 = HEIGHT
  BY <1>3, ScreenSize
<1> QED BY <1>1, <1>5, <1>6, <1>7, <1>8, <1>9

LEMMA CursorIs ==
    ASSUME NEW s \in Screens
    PROVE  /\ Cursor(s) \in 0 .. Area - 1 /\ s.y \in Rows /\ s.x \in Columns
           /\ Cursor(s) \div WIDTH = s.y /\ Cursor(s) % WIDTH = s.x
<1>1. s.y \in Rows /\ s.x \in Columns
  BY DEF Screens
<1>2. Cursor(s) \in Int
  BY <1>1, ScreenSize DEF Cursor, Rows, Columns
<1> QED BY <1>1, <1>2, PlaceIs DEF Cursor

LEMMA LinearIs ==
    ASSUME NEW cells \in [Rows -> [Columns -> Glyphs]]
    PROVE  Linear(cells) \in [0 .. Area - 1 -> Glyphs]
<1>1. \A i \in 0 .. Area - 1 : cells[i \div WIDTH][i % WIDTH] \in Glyphs
  BY PlaceOf
<1> QED BY <1>1 DEF Linear

LEMMA DrawnLinear ==
    ASSUME NEW s \in Screens, NEW k \in Glyphs
    PROVE  Linear(FramebufferDrawn(s, k).cells) = [Linear(s.cells) EXCEPT ![Cursor(s)] = k]
<1> DEFINE d == FramebufferDrawn(s, k).cells
<1>1. ASSUME NEW y \in Rows, NEW x \in Columns
      PROVE  d[y][x] = IF y = s.y /\ x = s.x THEN k ELSE s.cells[y][x]
  BY DEF FramebufferDrawn, Screens
<1>2. ASSUME NEW i \in 0 .. Area - 1
      PROVE  (i = Cursor(s)) = (i \div WIDTH = s.y /\ i % WIDTH = s.x)
  <2>1. i = (i \div WIDTH) * WIDTH + (i % WIDTH)
    BY PlaceOf
  <2>2. i \div WIDTH = s.y /\ i % WIDTH = s.x => i = Cursor(s)
    BY <2>1, Zenon DEF Cursor
  <2> QED BY <2>2, CursorIs
<1> HIDE DEF d
<1>3. ASSUME NEW i \in 0 .. Area - 1
      PROVE  d[i \div WIDTH][i % WIDTH]
                = IF i = Cursor(s) THEN k ELSE s.cells[i \div WIDTH][i % WIDTH]
  <2>1. i \div WIDTH \in Rows /\ i % WIDTH \in Columns
    BY PlaceOf
  <2> QED BY <1>1, <1>2, <2>1, Zenon
<1>4. Linear(d) = [i \in 0 .. Area - 1 |-> IF i = Cursor(s) THEN k ELSE Linear(s.cells)[i]]
  <2>1. \A i \in 0 .. Area - 1 : Linear(s.cells)[i] = s.cells[i \div WIDTH][i % WIDTH]
    BY Zenon DEF Linear
  <2> QED BY <1>3, <2>1, Zenon DEF Linear
<1>5. DOMAIN Linear(s.cells) = 0 .. Area - 1
  BY Zenon DEF Linear
<1>6. [Linear(s.cells) EXCEPT ![Cursor(s)] = k]
        = [i \in 0 .. Area - 1 |-> IF i = Cursor(s) THEN k ELSE Linear(s.cells)[i]]
  BY <1>5, Zenon
<1> QED BY <1>4, <1>6 DEF d

LEMMA ScrolledLinear ==
    ASSUME NEW cells \in [Rows -> [Columns -> Glyphs]], NEW i \in 0 .. Area - 1
    PROVE  Linear(Scrolled(cells))[i]
                = IF i + WIDTH \in 0 .. Area - 1 THEN Linear(cells)[i + WIDTH] ELSE Blank
<1>1. PICK y \in Rows, x \in Columns :
        /\ y = i \div WIDTH /\ x = i % WIDTH /\ i = y * WIDTH + x
        /\ (i + WIDTH \in 0 .. Area - 1) = (y + 1 \in Rows)
  BY PlaceOf
<1>2. Linear(Scrolled(cells))[i] = Scrolled(cells)[y][x]
  BY <1>1, Zenon DEF Linear
<1>3. CASE y + 1 \in Rows
  <2>1. i + WIDTH \in Int /\ i + WIDTH = (y + 1) * WIDTH + x
    <3>1. y \in Nat /\ x \in Nat /\ y * WIDTH \in Nat
      BY ScreenSize DEF Rows, Columns
    <3>2. (y + 1) * WIDTH = y * WIDTH + WIDTH
      BY <3>1, ScreenSize
    <3> QED BY <1>1, <3>1, <3>2, ScreenSize
  <2>2. (i + WIDTH) \div WIDTH = y + 1 /\ (i + WIDTH) % WIDTH = x
    BY <1>3, <2>1, PlaceIs
  <2>3. Linear(cells)[i + WIDTH] = cells[y + 1][x]
    BY <1>1, <1>3, <2>2, Zenon DEF Linear
  <2>4. Scrolled(cells)[y][x] = cells[y + 1][x]
    BY <1>3 DEF Scrolled
  <2> QED BY <1>1, <1>2, <1>3, <2>3, <2>4
<1>4. CASE y + 1 \notin Rows
  <2>1. Scrolled(cells)[y][x] = Blank
    BY <1>4 DEF Scrolled, BlankRow
  <2> QED BY <1>1, <1>2, <1>4, <2>1
<1> QED BY <1>3, <1>4

(* A line of N cells on which text ends before the cell cur.               *)
Sees(N, L, cur, text) ==
    /\ \A i \in cur .. N - 1 : L[i] = Blank
    /\ \A k \in 1 .. Len(text) : k <= cur => L[cur - k] = text[Len(text) + 1 - k]

LEMMA SeesPut ==
    ASSUME NEW N \in Nat, NEW L \in [0 .. N - 1 -> Glyphs], NEW cur \in 0 .. N - 1,
           NEW text \in Seq(Glyphs), NEW k \in Glyphs, Sees(N, L, cur, text)
    PROVE  Sees(N, [L EXCEPT ![cur] = k], cur + 1, Append(text, k))
<1> DEFINE M == [L EXCEPT ![cur] = k]
           more == Append(text, k)
<1>1. M[cur] = k /\ \A i \in 0 .. N - 1 : i # cur => M[i] = L[i]
  OBVIOUS
<1>2. /\ more \in Seq(Glyphs) /\ Len(more) = Len(text) + 1 /\ more[Len(text) + 1] = k
      /\ \A j \in 1 .. Len(text) : more[j] = text[j]
  BY AppendProperties
<1> HIDE DEF M, more
<1>3. \A i \in cur + 1 .. N - 1 : M[i] = Blank
  BY <1>1 DEF Sees
<1>4. ASSUME NEW j \in 1 .. Len(more), j <= cur + 1
      PROVE  M[cur + 1 - j] = more[Len(more) + 1 - j]
  <2>1. CASE j = 1
    <3>1. cur + 1 - j = cur /\ Len(more) + 1 - j = Len(text) + 1
      BY <1>2, <2>1
    <3> QED BY <1>1, <1>2, <3>1
  <2>2. CASE j # 1
    <3>1. PICK h \in 1 .. Len(text) :
            h = j - 1 /\ h <= cur /\ Len(more) + 1 - j = Len(text) + 1 - h
      BY <1>2, <1>4, <2>2
    <3>2. L[cur - h] = text[Len(text) + 1 - h]
      BY <3>1 DEF Sees
    <3>3. cur + 1 - j = cur - h /\ cur - h \in 0 .. N - 1 /\ cur - h # cur
      BY <1>2, <3>1
    <3>4. Len(text) + 1 - h \in 1 .. Len(text)
      BY <3>1
    <3> QED BY <1>1, <1>2, <3>1, <3>2, <3>3, <3>4
  <2> QED BY <2>1, <2>2
<1>5. Sees(N, M, cur + 1, more)
  BY <1>3, <1>4 DEF Sees
<1> QED BY <1>5 DEF M, more

\* M is L with everything moved up by w cells.
MovedUp(N, w, L, M) ==
    \A i \in 0 .. N - 1 : M[i] = IF i + w \in 0 .. N - 1 THEN L[i + w] ELSE Blank

LEMMA SeesScrolled ==
    ASSUME NEW N \in Nat, NEW w \in Nat \ {0}, NEW L, NEW M, NEW cur \in w .. N,
           NEW text \in Seq(Glyphs), Sees(N, L, cur, text), MovedUp(N, w, L, M)
    PROVE  Sees(N, M, cur - w, text)
<1> USE DEF MovedUp
<1>1. ASSUME NEW i \in cur - w .. N - 1 PROVE M[i] = Blank
  <2>1. i \in 0 .. N - 1 /\ i + w >= cur
    OBVIOUS
  <2>2. CASE i + w \in 0 .. N - 1
    <3>1. i + w \in cur .. N - 1
      BY <2>1, <2>2
    <3> QED BY <2>1, <2>2, <3>1 DEF Sees
  <2> QED BY <2>1, <2>2
<1>2. ASSUME NEW k \in 1 .. Len(text), k <= cur - w
      PROVE  M[cur - w - k] = text[Len(text) + 1 - k]
  <2>1. PICK i \in 0 .. N - 1 : i = cur - w - k /\ i + w = cur - k /\ i + w \in 0 .. N - 1
    BY <1>2
  <2>2. L[cur - k] = text[Len(text) + 1 - k]
    BY <1>2 DEF Sees
  <2> QED BY <2>1, <2>2
<1> QED BY <1>1, <1>2 DEF Sees

\* One cell back, or none from the first, and the cell there blank.
LEMMA SeesBack ==
    ASSUME NEW N \in Nat, NEW L \in [0 .. N - 1 -> Glyphs], NEW cur \in 0 .. N - 1,
           NEW text \in Seq(Glyphs), text # <<>>, Sees(N, L, cur, text),
           NEW to \in 0 .. N - 1, to = IF cur > 0 THEN cur - 1 ELSE 0,
           NEW M, M = [L EXCEPT ![to] = Blank]
    PROVE  Sees(N, M, to, Front(text))
<1> DEFINE less == Front(text)
<1>1. M[to] = Blank /\ \A i \in 0 .. N - 1 : i # to => M[i] = L[i]
  BY DEF Glyphs
<1>2. /\ less \in Seq(Glyphs) /\ Len(less) = Len(text) - 1 /\ Len(text) > 0
      /\ \A k \in 1 .. Len(text) - 1 : less[k] = text[k]
  BY FrontIs
<1> HIDE DEF less
<1>3. ASSUME NEW i \in to .. N - 1 PROVE M[i] = Blank
  <2>1. CASE i = to
    BY <1>1, <2>1
  <2>2. CASE i # to
    <3>1. i \in cur .. N - 1 /\ i \in 0 .. N - 1
      BY <2>2
    <3> QED BY <1>1, <2>2, <3>1 DEF Sees
  <2> QED BY <2>1, <2>2
<1>4. ASSUME NEW k \in 1 .. Len(less), k <= to
      PROVE  M[to - k] = less[Len(less) + 1 - k]
  <2>1. PICK h \in 1 .. Len(text) : h = k + 1 /\ h <= cur /\ to - k = cur - h /\ cur > 0
    BY <1>2, <1>4
  <2>2. L[cur - h] = text[Len(text) + 1 - h]
    BY <2>1 DEF Sees
  <2>3. PICK n \in Nat : n = Len(text) /\ Len(less) = n - 1
    BY <1>2
  <2>4. /\ to - k \in 0 .. N - 1 /\ to - k # to
        /\ Len(less) + 1 - k = Len(text) + 1 - h
    BY <1>4, <2>1, <2>3
  <2>5. Len(text) + 1 - h \in 1 .. Len(text) - 1
    BY <1>4, <2>1, <2>3
  <2> QED BY <1>1, <1>2, <2>1, <2>2, <2>4, <2>5
<1>5. Sees(N, M, to, less)
  BY <1>3, <1>4 DEF Sees
<1> QED BY <1>5 DEF less

\* That is what Shows says.
LEMMA ShowsIs ==
    ASSUME NEW s \in Screens, NEW text \in Seq(Glyphs)
    PROVE  Shows(s, text) = Sees(Area, Linear(s.cells), Cursor(s), text)
<1> DEFINE L == Linear(s.cells)  cur == Cursor(s)
<1>1. \A i \in 0 .. Area - 1 : s.cells[i \div WIDTH][i % WIDTH] = L[i]
  BY Zenon DEF Linear
<1>2. cur \in 0 .. Area - 1 /\ Area \in Nat /\ cur = s.y * WIDTH + s.x /\ Area = WIDTH * HEIGHT
  BY CursorIs, ScreenSize DEF Cursor, Area
<1>3. Shows(s, text) =
        /\ \A i \in cur .. Area - 1 : s.cells[i \div WIDTH][i % WIDTH] = Blank
        /\ \A i \in DOMAIN text :
            LET at == cur - (1 + Len(text) - i)
            IN at >= 0 => s.cells[at \div WIDTH][at % WIDTH] = text[i]
  BY <1>2, Zenon DEF Shows
<1> HIDE DEF L, cur
<1>4. (\A i \in cur .. Area - 1 : s.cells[i \div WIDTH][i % WIDTH] = Blank)
        = (\A i \in cur .. Area - 1 : L[i] = Blank)
  <2>1. \A i \in cur .. Area - 1 : i \in 0 .. Area - 1
    BY <1>2
  <2> QED BY <1>1, <2>1, Zenon
<1>5. (\A i \in DOMAIN text :
            LET at == cur - (1 + Len(text) - i)
            IN at >= 0 => s.cells[at \div WIDTH][at % WIDTH] = text[i])
        = (\A i \in 1 .. Len(text) :
            cur - (1 + Len(text) - i) >= 0 => L[cur - (1 + Len(text) - i)] = text[i])
  <2>1. DOMAIN text = 1 .. Len(text)
    OBVIOUS
  <2>2. \A i \in 1 .. Len(text) :
            cur - (1 + Len(text) - i) >= 0 => cur - (1 + Len(text) - i) \in 0 .. Area - 1
    BY <1>2
  <2> QED BY <1>1, <2>1, <2>2, Zenon
<1>6. (\A i \in 1 .. Len(text) :
            cur - (1 + Len(text) - i) >= 0 => L[cur - (1 + Len(text) - i)] = text[i])
        = (\A k \in 1 .. Len(text) : k <= cur => L[cur - k] = text[Len(text) + 1 - k])
  <2>1. PICK n \in Nat : n = Len(text)
    OBVIOUS
  <2>2. ASSUME NEW i \in 1 .. n
        PROVE  /\ 1 + n - i \in 1 .. n /\ n + 1 - (1 + n - i) = i
               /\ (1 + n - i <= cur) = (cur - (1 + n - i) >= 0)
               /\ 1 + n - i = n + 1 - i /\ 1 + n - (1 + n - i) = i
    BY <1>2
  <2>3. ASSUME \A k \in 1 .. n : k <= cur => L[cur - k] = text[n + 1 - k],
               NEW i \in 1 .. n, cur - (1 + n - i) >= 0
        PROVE  L[cur - (1 + n - i)] = text[i]
    BY <2>2, <2>3, Zenon
  <2>4. ASSUME \A i \in 1 .. n : cur - (1 + n - i) >= 0 => L[cur - (1 + n - i)] = text[i],
               NEW k \in 1 .. n, k <= cur
        PROVE  L[cur - k] = text[n + 1 - k]
    <3>1. 1 + n - k \in 1 .. n /\ cur - (1 + n - (1 + n - k)) = cur - k /\ cur - k >= 0
      BY <1>2, <2>2, <2>4
    <3> QED BY <2>2, <2>4, <3>1, ZenonT(60)
  <2> QED BY <2>1, <2>3, <2>4, Zenon
<1> QED BY <1>3, <1>4, <1>5, <1>6, Zenon DEF Sees, L, cur

\* A character that is written goes behind the text.
LEMMA WrittenShows ==
    ASSUME NEW s \in Screens, NEW k \in Glyphs, k # Newline, framebuffer \/ ~AtCorner(s),
           NEW text \in Seq(Glyphs), Shows(s, text)
    PROVE  Shows(Written(s, k), Append(text, k))
<1> DEFINE d == FramebufferDrawn(s, k)
           t == Written(s, k)
           L == Linear(d.cells)
<1>1. Drawn(s, k) = d
  BY DEF Drawn, VgaDrawn
<1>2. /\ d \in Screens /\ d.x = s.x /\ d.y = s.y /\ t \in Screens
      /\ s.x \in 0 .. WIDTH - 1 /\ s.y \in 0 .. HEIGHT - 1
  <2>1. d \in Screens /\ d.x = s.x /\ d.y = s.y
    BY <1>1, DrawnIs
  <2>2. t \in Screens
    BY WrittenIs
  <2>3. s.x \in 0 .. WIDTH - 1 /\ s.y \in 0 .. HEIGHT - 1
    BY DEF Screens, Columns, Rows
  <2> QED BY <2>1, <2>2, <2>3
<1>3. Cursor(s) \in 0 .. Area - 1 /\ Cursor(s) = s.y * WIDTH + s.x /\ s.y * WIDTH \in Nat
  <2>1. Cursor(s) \in 0 .. Area - 1 /\ Cursor(s) = s.y * WIDTH + s.x
    BY CursorIs DEF Cursor
  <2>2. s.y * WIDTH \in Nat
    BY <1>2, ScreenSize
  <2> QED BY <2>1, <2>2
<1>4. Sees(Area, L, Cursor(s) + 1, Append(text, k))
  <2>1. Sees(Area, Linear(s.cells), Cursor(s), text)
    BY ShowsIs
  <2>2. Linear(s.cells) \in [0 .. Area - 1 -> Glyphs]
    BY LinearIs DEF Screens
  <2>3. L = [Linear(s.cells) EXCEPT ![Cursor(s)] = k]
    BY DrawnLinear
  <2>4. Area \in Nat
    BY ScreenSize
  <2>5. Cursor(s) \in 0 .. Area - 1
    BY <1>3
  <2> HIDE DEF d, t, L
  <2>6. Sees(Area, [Linear(s.cells) EXCEPT ![Cursor(s)] = k], Cursor(s) + 1, Append(text, k))
    BY <2>1, <2>2, <2>4, <2>5, SeesPut
  <2> QED BY <2>3, <2>6
<1>5. Append(text, k) \in Seq(Glyphs)
  OBVIOUS
<1>6. CASE s.x + 1 \in Columns
  <2>1. t = [d EXCEPT !.x = @ + 1]
    BY <1>1, <1>6 DEF Written
  <2>2. t.cells = d.cells /\ t.x = s.x + 1 /\ t.y = s.y
    BY <1>2, <2>1 DEF Screens
  <2>3. Cursor(t) = Cursor(s) + 1
    BY <1>2, <1>3, <2>2, ScreenSize DEF Cursor
  <2> QED BY <1>2, <1>4, <1>5, <2>2, <2>3, ShowsIs
<1>7. CASE s.x + 1 \notin Columns
  <2>1. t = NextLine(d) /\ s.x = WIDTH - 1
    BY <1>1, <1>2, <1>7, ScreenSize DEF Written, Columns
  <2>2. CASE s.y + 1 \in Rows
    <3>1. t = [d EXCEPT !.x = 0, !.y = @ + 1]
      BY <1>2, <2>1, <2>2 DEF NextLine
    <3>2. t.cells = d.cells /\ t.x = 0 /\ t.y = s.y + 1
      BY <1>2, <3>1 DEF Screens
    <3>3. (s.y + 1) * WIDTH = s.y * WIDTH + WIDTH
      BY <1>2, ScreenSize
    <3>4. Cursor(t) = Cursor(s) + 1
      BY <1>2, <1>3, <2>1, <3>2, <3>3, ScreenSize, SMTT(60) DEF Cursor
    <3> QED BY <1>2, <1>4, <1>5, <3>2, <3>4, ShowsIs
  <2>3. CASE s.y + 1 \notin Rows
    <3>1. t = [d EXCEPT !.x = 0, !.cells = Scrolled(@)]
      BY <1>2, <2>1, <2>3 DEF NextLine
    <3>2. t.cells = Scrolled(d.cells) /\ t.x = 0 /\ t.y = s.y
      BY <1>2, <3>1 DEF Screens
    <3>3. Cursor(t) = (Cursor(s) + 1) - WIDTH /\ Cursor(s) + 1 \in WIDTH .. Area
      <4>1. s.y = HEIGHT - 1
        BY <1>2, <2>3, ScreenSize DEF Rows
      <4>2. s.y * WIDTH = Area - WIDTH
        BY <4>1, ScreenSize
      <4>3. Cursor(t) = s.y * WIDTH
        BY <1>3, <3>2 DEF Cursor
      <4> HIDE DEF t
      <4> QED BY <1>3, <2>1, <4>2, <4>3, ScreenSize
    <3>4. MovedUp(Area, WIDTH, L, Linear(t.cells))
      <4>1. d.cells \in [Rows -> [Columns -> Glyphs]]
        BY <1>2 DEF Screens
      <4> QED BY <3>2, <4>1, ScrolledLinear DEF MovedUp
    <3>5. Sees(Area, Linear(t.cells), (Cursor(s) + 1) - WIDTH, Append(text, k))
      <4> HIDE DEF d, t, L
      <4> QED BY <1>4, <1>5, <3>3, <3>4, ScreenSize, SeesScrolled
    <3> QED BY <1>2, <1>5, <3>3, <3>5, ShowsIs
  <2> QED BY <2>2, <2>3
<1> QED BY <1>6, <1>7

\* A backspace takes the last of the text away.
LEMMA BackspacedShows ==
    ASSUME NEW s \in Screens, NEW text \in Seq(Glyphs), text # <<>>, Shows(s, text)
    PROVE  Shows(Backspaced(s), Front(text))
<1> DEFINE back == IF s.x > 0 THEN [s EXCEPT !.x = @ - 1]
                   ELSE IF s.y > 0 THEN [s EXCEPT !.x = WIDTH - 1, !.y = @ - 1]
                   ELSE s
           d == FramebufferDrawn(back, Blank)
<1>1. s.x \in 0 .. WIDTH - 1 /\ s.y \in 0 .. HEIGHT - 1 /\ s.y * WIDTH \in Nat
  BY ScreenSize DEF Screens, Columns, Rows
<1>2. /\ back \in Screens /\ back.cells = s.cells /\ ~AtCorner(back)
      /\ Cursor(back) = IF Cursor(s) > 0 THEN Cursor(s) - 1 ELSE 0
  <2>1. CASE s.x > 0
    <3>1. back = [s EXCEPT !.x = @ - 1] /\ s.x - 1 \in Columns
      BY <1>1, <2>1, ScreenSize, SMTT(60) DEF Columns
    <3>2. back \in Screens /\ back.cells = s.cells /\ back.x = s.x - 1 /\ back.y = s.y
      BY <3>1 DEF Screens
    <3>3. Cursor(s) > 0 /\ Cursor(back) = Cursor(s) - 1
      <4> HIDE DEF back
      <4> QED BY <1>1, <2>1, <3>2, ScreenSize DEF Cursor
    <3>4. ~AtCorner(back)
      BY <1>1, <3>2, ScreenSize DEF AtCorner
    <3> QED BY <3>2, <3>3, <3>4
  <2>2. CASE ~(s.x > 0) /\ s.y > 0
    <3>1. /\ back = [s EXCEPT !.x = WIDTH - 1, !.y = @ - 1]
          /\ WIDTH - 1 \in Columns /\ s.y - 1 \in Rows
      BY <1>1, <2>2, ScreenSize, SMTT(60) DEF Columns, Rows
    <3>2. /\ back \in Screens /\ back.cells = s.cells
          /\ back.x = WIDTH - 1 /\ back.y = s.y - 1
      BY <3>1 DEF Screens
    <3>3. (s.y - 1) * WIDTH = s.y * WIDTH - WIDTH /\ s.y * WIDTH >= WIDTH
      <4>1. 0 * WIDTH + WIDTH <= s.y * WIDTH
        BY <1>1, <2>2, ScreenSize, Grows
      <4> QED BY <1>1, <4>1, ScreenSize
    <3>4. Cursor(s) > 0 /\ Cursor(back) = Cursor(s) - 1
      <4> HIDE DEF back
      <4>1. Cursor(back) = (s.y - 1) * WIDTH + (WIDTH - 1) /\ Cursor(s) = s.y * WIDTH + s.x
        BY <3>2 DEF Cursor
      <4>2. s.x = 0
        BY <1>1, <2>2
      <4> QED BY <1>1, <3>3, <4>1, <4>2, ScreenSize
    <3>5. ~AtCorner(back)
      BY <1>1, <3>2, ScreenSize DEF AtCorner
    <3> QED BY <3>2, <3>4, <3>5
  <2>3. CASE ~(s.x > 0) /\ ~(s.y > 0)
    <3>1. back = s /\ s.x = 0 /\ s.y = 0
      BY <1>1, <2>3
    <3> QED BY <3>1, ScreenSize DEF Cursor, AtCorner
  <2> QED BY <2>1, <2>2, <2>3
<1> HIDE DEF back
<1>3. Backspaced(s) = d
  <2>1. Backspaced(s) = Drawn(back, Blank)
    BY Zenon DEF Backspaced, back
  <2> QED BY <1>2, <2>1 DEF Drawn, VgaDrawn
<1>4. /\ d \in Screens /\ d.x = back.x /\ d.y = back.y
  BY <1>2 DEF FramebufferDrawn, Screens, Glyphs
<1>5. Cursor(d) = Cursor(back) /\ Cursor(back) \in 0 .. Area - 1 /\ Cursor(s) \in 0 .. Area - 1
  BY <1>2, <1>4, CursorIs DEF Cursor
<1>6. Sees(Area, Linear(s.cells), Cursor(s), text) /\ Area \in Nat
  BY ShowsIs, ScreenSize
<1>7. Linear(s.cells) \in [0 .. Area - 1 -> Glyphs]
  BY LinearIs DEF Screens
<1>8. Linear(d.cells) = [Linear(s.cells) EXCEPT ![Cursor(back)] = Blank]
  <2>1. Blank \in Glyphs
    BY DEF Glyphs
  <2> QED BY <1>2, <2>1, DrawnLinear
<1> HIDE DEF d
<1>9. Sees(Area, Linear(d.cells), Cursor(back), Front(text))
  BY <1>2, <1>5, <1>6, <1>7, <1>8, SeesBack
<1>10. Front(text) \in Seq(Glyphs)
  BY FrontIs
<1> QED BY <1>3, <1>4, <1>5, <1>9, <1>10, ShowsIs

LEMMA ClearedShows == ASSUME NEW row \in Rows PROVE Shows(Cleared(row), <<>>)
<1>1. Cleared(row) \in Screens /\ Area \in Nat
  BY ClearedIs, ScreenSize
<1>2. ASSUME NEW i \in 0 .. Area - 1 PROVE Linear(Cleared(row).cells)[i] = Blank
  <2>1. i \div WIDTH \in Rows /\ i % WIDTH \in Columns
    BY PlaceOf
  <2> QED BY <2>1, Zenon DEF Linear, Cleared, BlankRow
<1>3. Cursor(Cleared(row)) \in 0 .. Area - 1
  BY <1>1, CursorIs
<1>4. Sees(Area, Linear(Cleared(row).cells), Cursor(Cleared(row)), <<>>)
  BY <1>1, <1>2, <1>3 DEF Sees
<1>5. <<>> \in Seq(Glyphs)
  OBVIOUS
<1> QED BY <1>1, <1>4, <1>5, ShowsIs, Zenon

-----------------------------------------------------------------------------
(* What the screen shows.                                                  *)

\* A line with its prompt.
LEMMA Prompted ==
    ASSUME NEW q \in Seq(Text)
    PROVE  /\ <<Prompt>> \o q \in Seq(Glyphs) /\ <<Prompt>> \o q # <<>> /\ q \in Seq(Glyphs)
           /\ \A k \in Text : <<Prompt>> \o Append(q, k) = Append(<<Prompt>> \o q, k)
           /\ q # <<>> => <<Prompt>> \o Front(q) = Front(<<Prompt>> \o q)
<1>1. q \in Seq(Glyphs) /\ <<Prompt>> \in Seq(Glyphs) /\ Len(<<Prompt>>) = 1
  <2>1. Text \subseteq Glyphs /\ Prompt \in Glyphs
    BY CharsAre DEF Text
  <2> QED BY <2>1
<1>2. /\ <<Prompt>> \o q \in Seq(Glyphs) /\ Len(<<Prompt>> \o q) = Len(q) + 1
      /\ \A i \in 1 .. Len(q) + 1 : (<<Prompt>> \o q)[i] = IF i = 1 THEN Prompt ELSE q[i - 1]
  BY <1>1
<1>3. ASSUME NEW k \in Text PROVE <<Prompt>> \o Append(q, k) = Append(<<Prompt>> \o q, k)
  BY <1>1
<1>4. ASSUME q # <<>> PROVE <<Prompt>> \o Front(q) = Front(<<Prompt>> \o q)
  <2> DEFINE f == Front(q)  g == Front(<<Prompt>> \o q)
  <2>1. /\ f \in Seq(Glyphs) /\ Len(f) = Len(q) - 1 /\ Len(q) > 0
        /\ \A i \in 1 .. Len(q) - 1 : f[i] = q[i]
    BY <1>1, <1>4, FrontIs
  <2>2. /\ g \in Seq(Glyphs) /\ Len(g) = Len(q)
        /\ \A i \in 1 .. Len(q) : g[i] = (<<Prompt>> \o q)[i]
    <3>1. <<Prompt>> \o q # <<>> /\ Len(q) \in Nat
      BY <1>1, <1>2
    <3>2. /\ g \in Seq(Glyphs) /\ Len(g) = Len(<<Prompt>> \o q) - 1
          /\ \A i \in 1 .. Len(<<Prompt>> \o q) - 1 : g[i] = (<<Prompt>> \o q)[i]
      BY <1>2, <3>1, FrontIs
    <3> QED BY <1>2, <3>1, <3>2
  <2> HIDE DEF f, g
  <2>3. /\ <<Prompt>> \o f \in Seq(Glyphs) /\ Len(<<Prompt>> \o f) = Len(q)
        /\ \A i \in 1 .. Len(q) : (<<Prompt>> \o f)[i] = IF i = 1 THEN Prompt ELSE f[i - 1]
    BY <1>1, <2>1
  <2>4. ASSUME NEW i \in 1 .. Len(q) PROVE (<<Prompt>> \o f)[i] = g[i]
    <3>1. i \in 1 .. Len(q) + 1 /\ (i # 1 => i - 1 \in 1 .. Len(q) - 1)
      OBVIOUS
    <3> QED BY <1>2, <2>1, <2>2, <2>3, <3>1
  <2>5. <<Prompt>> \o f = g
    BY <2>2, <2>3, <2>4, SeqEqual, ZenonT(60)
  <2> QED BY <2>5 DEF f, g
<1>5. <<Prompt>> \o q # <<>>
  BY <1>1, <1>2
<1> QED BY <1>1, <1>2, <1>3, <1>4, <1>5

LEMMA ReadShows ==
    ASSUME NEW n \in Counts, NEW row \in Rows, Read(n, row)
    PROVE  EchoIsLine'
<1>1. /\ Cleared(row) \in Screens /\ Prompt \in Glyphs /\ Prompt # Newline
      /\ ~AtCorner(Cleared(row)) /\ <<>> \in Seq(Glyphs)
  <2>1. Cleared(row) \in Screens /\ Prompt \in Glyphs
    BY ClearedIs, CharsAre
  <2>2. Prompt # Newline
    BY KeyboardAssumption DEF KeyboardAssumption, Enter
  <2>3. ~AtCorner(Cleared(row))
    BY ScreenSize DEF AtCorner, Cleared
  <2> QED BY <2>1, <2>2, <2>3
<1>2. Shows(Written(Cleared(row), Prompt), Append(<<>>, Prompt))
  BY <1>1, ClearedShows, WrittenShows
<1>3. Append(<<>>, Prompt) = <<Prompt>> \o <<>>
  OBVIOUS
<1>4. screen' = Written(Cleared(row), Prompt) /\ line' = <<>>
  BY DEF Read
<1> QED BY <1>2, <1>3, <1>4 DEF EchoIsLine

LEMMA EditShows ==
    ASSUME KeyInv, EchoIsLine, EditEnter \/ EditBackspace \/ EditOther
    PROVE  EchoIsLine'
<1> DEFINE shown == <<Prompt>> \o line
<1>1. /\ pc = "edit" /\ line \in Seq(Text) /\ c \in Chars /\ screen \in Screens
      /\ framebuffer' = framebuffer
  BY TypesAre DEF KeyInv, ReadTypeOK, ScreenTypeOK, LineInv, EditEnter, EditBackspace, EditOther, Echo
<1>2. shown \in Seq(Glyphs) /\ shown # <<>>
  BY <1>1, Prompted
<1>3. framebuffer \/ ~cornered => Shows(screen, shown)
  BY <1>1 DEF EchoIsLine
<1>4. CASE EditEnter
  <2>1. pc' = "idle" /\ line' = Append(line, Enter)
    BY <1>4 DEF EditEnter
  <2>2. Last(line') = Enter
    BY <1>1, <2>1 DEF Last
  <2> QED BY <2>1, <2>2 DEF EchoIsLine
<1>5. CASE EditBackspace
  <2> SUFFICES ASSUME framebuffer \/ ~cornered
               PROVE  Shows(screen', <<Prompt>> \o line')
    BY <1>1, <1>5 DEF EditBackspace, EchoIsLine
  <2>1. CASE line # <<>>
    <3>1. line' = Front(line) /\ screen' = Backspaced(screen)
      BY <1>5, <2>1 DEF EditBackspace
    <3>2. <<Prompt>> \o line' = Front(shown)
      BY <1>1, <2>1, <3>1, Prompted
    <3>3. Shows(Backspaced(screen), Front(shown))
      BY <1>1, <1>2, <1>3, BackspacedShows
    <3> QED BY <3>1, <3>2, <3>3
  <2>2. CASE line = <<>>
    BY <1>3, <1>5, <2>2 DEF EditBackspace
  <2> QED BY <2>1, <2>2
<1>6. CASE EditOther
  <2>1. /\ line' = Append(line, c) /\ screen' = Written(screen, c)
        /\ cornered' = (cornered \/ AtCorner(screen)) /\ c # Newline /\ c \in Text
    BY <1>1, <1>6 DEF EditOther, Echo, Text, Enter
  <2> SUFFICES ASSUME framebuffer' \/ ~cornered'
               PROVE  Shows(screen', <<Prompt>> \o line')
    BY DEF EchoIsLine
  <2>2. <<Prompt>> \o line' = Append(shown, c)
    BY <1>1, <2>1, Prompted
  <2>3. (framebuffer \/ ~AtCorner(screen)) /\ Shows(screen, shown)
    BY <1>1, <1>3, <2>1
  <2>4. c \in Glyphs
    BY <1>1, CharsAre
  <2>5. Shows(Written(screen, c), Append(shown, c))
    BY <1>1, <1>2, <2>1, <2>3, <2>4, WrittenShows
  <2> QED BY <2>1, <2>2, <2>5
<1> QED BY <1>4, <1>5, <1>6

LEMMA EchoStep == KeyInv /\ EchoIsLine /\ [Next]_vars => EchoIsLine'
<1> SUFFICES ASSUME KeyInv, EchoIsLine, [Next]_vars PROVE EchoIsLine'
  OBVIOUS
<1>1. CASE EditEnter \/ EditBackspace \/ EditOther
  BY <1>1, EditShows
<1>2. ASSUME NEW n \in Counts, NEW row \in Rows, Read(n, row) PROVE EchoIsLine'
  BY <1>2, ReadShows
<1>3. CASE Interrupt \/ GetcCheck \/ GetcLoad \/ GetcAdvance \/ UNCHANGED vars
  <2>1. /\ UNCHANGED <<line, screen, framebuffer, cornered>>
        /\ pc' = pc \/ pc # "idle"
    BY <1>3 DEF Interrupt, KeyPress, ShiftDown, ShiftUp, GetcCheck, GetcLoad, GetcAdvance, vars, tty
  <2> QED BY <2>1 DEF EchoIsLine
<1> QED BY <1>1, <1>2, <1>3 DEF Next, Reading
-----------------------------------------------------------------------------
(* Theorems.                                                               *)

\* Every variable has its type, and no read stores more than it was asked for
\* (keyboard.c:40-78, api.c:41-64, tty.c:28-33, 79-122).
THEOREM KeyboardTypes == Spec => []TypeOK
<1>1. KeyInv => TypeOK
  BY DEF KeyInv
<1> QED BY <1>1, KeyInvariance, PTL DEF Spec

\* A ring of any size is a first-in first-out queue that drops a character only when
\* SIZE - 1 of them wait, whatever keys come between the steps of keyboard_getc
\* (keyboard.c:40-78).
THEOREM TheRingIsAQueue == Spec => FifoKept
<1> QED BY FifoStep, InitFifo, KeyInvariance, PTL DEF Spec, FifoKept, Fifo!Spec

\* A read of any length has in buf the line that the keys spell (api.c:41-64 with
\* keyboard.c:69-78).
THEOREM TheLineIsAsTyped == Spec => []LineAsTyped
<1>1. KeyInv => LineAsTyped
  BY DEF KeyInv, LineInv, LineAsTyped
<1> QED BY <1>1, KeyInvariance, PTL DEF Spec

\* A screen of any size shows the line that will be returned, but for what VGA text does
\* once its last cell is written (api.c:41-64 with tty.c:28-33, 79-122).
THEOREM TheScreenShowsTheLine == Spec => []EchoIsLine
<1>1. Init => EchoIsLine
  BY DEF Init, EchoIsLine
<1> QED BY <1>1, EchoStep, KeyInvariance, PTL DEF Spec
===============================================================================
