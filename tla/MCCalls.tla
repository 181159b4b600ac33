------------------------------- MODULE MCCalls -------------------------------
(* Calls with constants for TLC.                                             *)
EXTENDS Calls

CONSTANTS byte, path, otherPath, payload, one, two, log, notes, version, alpha, beta, zero, beyond,
          init, motd, dot, trailer, scratch

IncrementsMC == {-1, 1, 2}
MovesMC == {-1, 2}
TextMC == [p \in {version} |-> <<alpha, beta, alpha>>]
NodeSizeMC == [p \in {version} |-> 4]

\* A program of one segment, and one of two that follow each other.
OneSegment == <<[segments |-> <<[vaddr |-> 101, offset |-> 1, filesz |-> 1, memsz |-> 2]>>], alpha>>
TwoSegments ==
    <<[segments |-> <<[vaddr |-> 100, offset |-> 2, filesz |-> 2, memsz |-> 2],
                      [vaddr |-> 102, offset |-> 1, filesz |-> 1, memsz |-> 3]>>], alpha, beta, alpha>>

EntriesMC ==
    {[name |-> n, namesize |-> l, data |-> d] : n \in {init}, l \in {1, 3}, d \in {<<>>, OneSegment, TwoSegments}}
    \cup {[name |-> motd, namesize |-> 2, data |-> d] : d \in {<<alpha>>, <<beta, alpha, beta, alpha>>}}
    \cup {[name |-> dot, namesize |-> 1, data |-> <<>>]}
ListsMC == UNION {[1 .. n -> EntriesMC] : n \in 0 .. 2}
ArchivesMC ==
    {<<>>}
    \cup {<<[start |-> 8, entries |-> l]>> : l \in ListsMC}
    \cup {<<[start |-> 8, entries |-> l], [start |-> 96, entries |-> <<e>>]>> : l \in ListsMC, e \in EntriesMC}

\* The two paths are interchangeable.
AlikeMC == Permutations({path, otherPath})
==============================================================================
