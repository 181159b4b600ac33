------------------------------ MODULE Keyboard ------------------------------
(***************************************************************************)
(* Typing a line: the keyboard interrupt and its ring buffer               *)
(* (drivers/keyboard.c), and the read of standard input that empties it    *)
(* (api.c).                                                                *)
(*                                                                         *)
(* The interrupt handler runs with interrupts off, so it is one action; it *)
(* may come between any two steps of the read, which runs with interrupts  *)
(* on.  One task reads at a time: nothing in the code keeps two tasks from *)
(* taking keys out of the ring at once.  The terminal that shows the line  *)
(* is Tty.                                                                 *)
(***************************************************************************)
EXTENDS Tty, SequencesExt

CONSTANTS
    SIZE,       \* KBD_BUFFER_SIZE
    Letters,    \* the keys that have a character of their own with shift
    Backspace,  \* the key, and the character '\b'
    Nul,        \* the 0 of a buffer never written
    Counts,     \* the counts a read asks for
    Prompt      \* what stands on the screen before the line

Enter == Newline    \* the key, and the character

VARIABLES
    kbd_buffer, kbd_head, kbd_tail, shift,
    pc,         \* where the read has got to
    c,          \* the character it holds
    count,      \* what it was asked for
    line,       \* buf up to read_bytes
    typed,      \* history: the line that the characters taken out of the ring spell
    dropped,    \* history: whether an odd number of characters was dropped
    cornered    \* history: the last cell of the screen was written in this read

ring == <<kbd_buffer, kbd_head, kbd_tail>>
tty == <<framebuffer, screen, cornered>>
vars == <<ring, shift, pc, c, count, line, tty, typed, dropped>>

Keys == Letters \cup {Enter, Backspace}
Chars == (Letters \X {0, 1}) \cup {Enter, Backspace}

ASSUME KeyboardAssumption ==
    /\ SIZE \in Nat /\ SIZE > 1
    /\ Enter # Backspace
    /\ {Enter, Backspace, Nul, Prompt, Blank} \cap (Letters \cup Letters \X {0, 1}) = {}
    /\ {Nul, Prompt, Blank} \cap {Enter, Backspace} = {}
    /\ Counts \subseteq Nat \ {0}   \* a read of 0 bytes returns at once

Init ==
    /\ kbd_buffer = [i \in 0 .. SIZE - 1 |-> Nul]
    /\ kbd_head = 0 /\ kbd_tail = 0
    /\ shift = 0
    /\ pc = "idle"
    /\ c = Nul
    /\ count = 0
    /\ line = <<>>
    /\ framebuffer \in BOOLEAN
    /\ screen = Cleared(0)
    /\ cornered = FALSE
    /\ typed = <<>>
    /\ dropped = FALSE
-----------------------------------------------------------------------------
(* The interrupt.  Scan codes that reach neither shift nor the ring (other  *)
(* releases, keys with no character) change nothing.  Escape is left out:   *)
(* its echo is the start of an escape sequence to tty.c.                    *)

\* scancode_table and scancode_shift_table
Char(k) == IF k \in Letters THEN <<k, shift>> ELSE k

After(i) == (i + 1) % SIZE

\* Mutants: kbd_push does not look for room; makes room by moving
\* kbd_tail, under the feet of the read.
PushAnyway(k) ==
    /\ kbd_buffer' = [kbd_buffer EXCEPT ![kbd_head] = k]
    /\ kbd_head' = After(kbd_head)
    /\ UNCHANGED <<kbd_tail, dropped>>
PushDropsOldest(k) ==
    /\ kbd_buffer' = [kbd_buffer EXCEPT ![kbd_head] = k]
    /\ kbd_head' = After(kbd_head)
    /\ kbd_tail' = IF kbd_head' = kbd_tail THEN After(kbd_tail) ELSE kbd_tail
    /\ UNCHANGED dropped

\* kbd_push: a character that finds no room is dropped.
Push(k) ==
    \/ /\ After(kbd_head) # kbd_tail
       /\ kbd_buffer' = [kbd_buffer EXCEPT ![kbd_head] = k]
       /\ kbd_head' = After(kbd_head)
       /\ UNCHANGED <<kbd_tail, dropped>>
    \/ /\ After(kbd_head) = kbd_tail
       /\ dropped' = ~dropped
       /\ UNCHANGED ring

KeyPress(k) ==
    /\ Push(Char(k))
    /\ UNCHANGED <<shift, pc, c, count, line, tty, typed>>

\* Either shift key goes down, or up.
ShiftDown ==
    /\ shift' = 1
    /\ UNCHANGED <<ring, pc, c, count, line, tty, typed, dropped>>

ShiftUp ==
    /\ shift' = 0
    /\ UNCHANGED <<ring, pc, c, count, line, tty, typed, dropped>>
-----------------------------------------------------------------------------
(* The read.                                                               *)

\* k_sys_read(0, buf, n), with the cursor behind a fresh prompt in some row.  What stands
\* above the prompt is not kept.
Read(n, row) ==
    /\ pc = "idle"
    /\ pc' = "getc"
    /\ count' = n
    /\ line' = <<>> /\ typed' = <<>>
    /\ screen' = Written(Cleared(row), Prompt)
    /\ cornered' = FALSE
    /\ UNCHANGED <<ring, shift, c, framebuffer, dropped>>

\* Mutant: a head that has wrapped round is taken for an empty ring.
GetcCheckLess ==
    /\ pc = "getc"
    /\ kbd_head > kbd_tail
    /\ pc' = "load"
    /\ UNCHANGED <<ring, shift, c, count, line, tty, typed, dropped>>

\* keyboard_getc spins until the ring is not empty.
GetcCheck ==
    /\ pc = "getc"
    /\ kbd_head # kbd_tail
    /\ pc' = "load"
    /\ UNCHANGED <<ring, shift, c, count, line, tty, typed, dropped>>

GetcLoad ==
    /\ pc = "load"
    /\ c' = kbd_buffer[kbd_tail]
    /\ pc' = "advance"
    /\ UNCHANGED <<ring, shift, count, line, tty, typed, dropped>>

\* The line s once the character k is typed.
Spelled(s, k) ==
    IF k # Backspace THEN Append(s, k) ELSE IF s = <<>> THEN s ELSE Front(s)

GetcAdvance ==
    /\ pc = "advance"
    /\ kbd_tail' = After(kbd_tail)
    /\ typed' = Spelled(typed, kbd_buffer[kbd_tail])
    /\ pc' = "edit"
    /\ UNCHANGED <<kbd_buffer, kbd_head, shift, c, count, line, tty, dropped>>

\* tty_write_char(k)
Echo(k) ==
    /\ screen' = Written(screen, k)
    /\ cornered' = (cornered \/ (k # Enter /\ AtCorner(screen)))
    /\ UNCHANGED framebuffer

\* '\n' ends the read.
EditEnter ==
    /\ pc = "edit" /\ c = Enter
    /\ line' = Append(line, Enter)
    /\ Echo(Enter)
    /\ pc' = "idle"
    /\ UNCHANGED <<ring, shift, c, count, typed, dropped>>

\* '\b' takes the last character back, on the screen too, if there is one.
EditBackspace ==
    /\ pc = "edit" /\ c = Backspace
    /\ IF line # <<>>
       THEN line' = Front(line) /\ screen' = Backspaced(screen)
       ELSE UNCHANGED <<line, screen>>
    /\ pc' = "getc"
    /\ UNCHANGED <<ring, shift, c, count, framebuffer, cornered, typed, dropped>>

\* Mutant: the test for the last character comes too late.
EditOtherPastCount ==
    /\ pc = "edit" /\ c \notin {Enter, Backspace}
    /\ line' = Append(line, c)
    /\ Echo(c)
    /\ pc' = IF Len(line) = count THEN "idle" ELSE "getc"
    /\ UNCHANGED <<ring, shift, c, count, typed, dropped>>

\* Any other character is stored and echoed; the last that fits ends the read.
EditOther ==
    /\ pc = "edit" /\ c \notin {Enter, Backspace}
    /\ line' = Append(line, c)
    /\ Echo(c)
    /\ pc' = IF Len(line') = count THEN "idle" ELSE "getc"
    /\ UNCHANGED <<ring, shift, c, count, typed, dropped>>
-----------------------------------------------------------------------------
Interrupt == ShiftDown \/ ShiftUp \/ \E k \in Keys : KeyPress(k)
Reading ==
    \/ GetcCheck \/ GetcLoad \/ GetcAdvance
    \/ EditEnter \/ EditBackspace \/ EditOther

Next == Interrupt \/ Reading \/ \E n \in Counts, row \in Rows : Read(n, row)

\* The task that reads gets its turns (EveryTaskRuns of Tasks); nobody has to type.
Spec == Init /\ [][Next]_vars /\ WF_vars(Reading)
-----------------------------------------------------------------------------
(* Properties.                                                             *)

\* Every variable has its type, and the line stays within the count asked for.
TypeOK ==
    /\ kbd_buffer \in [0 .. SIZE - 1 -> Chars \cup {Nul}]
    /\ kbd_head \in 0 .. SIZE - 1 /\ kbd_tail \in 0 .. SIZE - 1
    /\ shift \in {0, 1}
    /\ pc \in {"idle", "getc", "load", "advance", "edit"}
    /\ c \in Chars \cup {Nul}
    /\ count \in Counts \cup {0}
    /\ line \in Seq(Chars \ {Backspace}) /\ typed \in Seq(Chars \ {Backspace})
    /\ Len(line) <= count /\ (pc # "idle" => Len(line) < count)
    /\ screen \in [x : Columns, y : Rows,
                  cells : [Rows -> [Columns -> Chars \cup {Prompt, Blank}]]]
    /\ framebuffer \in BOOLEAN /\ cornered \in BOOLEAN
    /\ dropped \in BOOLEAN

\* The characters that wait in the ring.
Waiting == [i \in 1 .. (kbd_head - kbd_tail) % SIZE |->
                kbd_buffer[(kbd_tail + i - 1) % SIZE]]

\* The ring is a first-in first-out queue that drops a character only when SIZE - 1
\* of them wait, whatever interrupts come between the steps of keyboard_getc
\* (keyboard.c:40-78).
Fifo == INSTANCE BoundedFifo WITH Items <- Chars, Capacity <- SIZE - 1, queue <- Waiting,
                             emptied <- FALSE
FifoKept == Fifo!Spec

\* Between characters the read has in buf the line that the keys spell: no key was
\* skipped, doubled or overwritten on its way (api.c:41-64 with keyboard.c:69-78).
LineAsTyped == pc \in {"idle", "getc"} => line = typed

\* The screen shows the line that will be returned, behind an untouched prompt, over ends
\* of rows and scrolling (api.c:41-64 with tty.c:28-33, 79-122).  In VGA text it does not
\* once the last cell is written, which scrolls twice (vga.c:62-64, tty.c:120).
EchoIsLine ==
    /\ framebuffer \/ ~cornered
    /\ pc # "idle" \/ (line # <<>> /\ Last(line) # Enter)
    => Shows(screen, <<Prompt>> \o line)

\* An Enter that got into the ring ends a read, if the count does not first.
EnterEndsRead ==
    (pc # "idle" /\ Enter \in Range(Waiting)) ~> pc = "idle"
==============================================================================
