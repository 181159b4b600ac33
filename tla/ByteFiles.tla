------------------------------ MODULE ByteFiles ------------------------------
(***************************************************************************)
(* What files promise to programs: an open file has a position; a read     *)
(* returns the bytes that follow it, a write puts bytes there, both move   *)
(* it by what they did; a seek moves it from the start, from where it is   *)
(* or from the end.                                                        *)
(***************************************************************************)
EXTENDS Integers, SequencesExt

CONSTANTS
    Handles, Names,
    Strings,    \* what a write can put into a file
    Counts,     \* how much a read asks for
    Moves,      \* how far a seek goes
    Initial     \* the content of each file at the start

VARIABLES
    content,    \* of each file, its bytes
    opened,     \* of each open handle, its file and position
    got         \* what the last call read

Init ==
    /\ content = Initial
    /\ opened = << >>
    /\ got = <<>>

FileOf(h) == content[opened[h].name]

Open(h) ==
    /\ h \notin DOMAIN opened
    /\ DOMAIN opened' = DOMAIN opened \cup {h}
    /\ \E f \in Names :
        opened' = [k \in DOMAIN opened \cup {h} |->
                    IF k = h THEN [name |-> f, position |-> 0] ELSE opened[k]]
    /\ got' = <<>>
    /\ UNCHANGED content

Close(h) ==
    /\ opened' = Restrict(opened, DOMAIN opened \ {h})
    /\ got' = <<>>
    /\ UNCHANGED content

\* As many of n bytes as the file has from the position on.
Read(h, n) ==
    LET end == Len(FileOf(h))
        from == Min({opened[h].position, end})
    IN /\ got' = SubSeq(FileOf(h), from + 1, Min({from + n, end}))
       /\ opened' = [opened EXCEPT ![h].position = @ + Len(got')]
       /\ UNCHANGED content

Write(h, s) ==
    LET p == opened[h].position
        Put(bytes) == SubSeq(bytes, 1, p) \o s \o SubSeq(bytes, p + Len(s) + 1, Len(bytes))
    IN /\ p <= Len(FileOf(h))
       /\ content' = [content EXCEPT ![opened[h].name] = Put(@)]
       /\ opened' = [opened EXCEPT ![h].position = @ + Len(s)]
       /\ got' = <<>>

Seek(h, n) ==
    /\ \E base \in {0, opened[h].position, Len(FileOf(h))} :
        /\ base + n >= 0
        /\ opened' = [opened EXCEPT ![h].position = base + n]
    /\ got' = <<>>
    /\ UNCHANGED content

Next ==
    \/ \E h \in DOMAIN opened :
        \/ Close(h)
        \/ \E n \in Counts : Read(h, n)
        \/ \E s \in Strings : Write(h, s)
        \/ \E n \in Moves : Seek(h, n)
    \/ \E h \in Handles : Open(h)

Spec == Init /\ [][Next]_<<content, opened, got>>
==============================================================================
