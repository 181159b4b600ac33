------------------------------- MODULE Regions -------------------------------
(***************************************************************************)
(* What alloc and alloc_free (sys/kernel/alloc.c) promise to the rest of   *)
(* the kernel, with no free list and no headers: a pointer handed out      *)
(* stands for a run of heap words that nobody else holds, until it is      *)
(* freed.  Heap implements this specification as long as one caller at a   *)
(* time is inside the allocator.                                           *)
(***************************************************************************)
EXTENDS Integers

CONSTANTS
    Callers,    \* the tasks that call malloc and free
    HeapSize    \* words in the heap array

VARIABLE
    held        \* held[c]: the regions [at, words] that c has and not freed

\* The words of a region.
WordsOf(h) == h.at .. h.at + h.words - 1

\* No caller holds a word of the region r.
Unheld(r) ==
    \A d \in Callers : \A h \in held[d] : WordsOf(h) \cap WordsOf(r) = {}

Init == held = [c \in Callers |-> {}]

\* malloc hands out a region inside the heap that nobody holds.  A malloc that
\* returns NULL changes nothing here.
Grant(c) ==
    \E a \in 0 .. HeapSize, n \in 0 .. HeapSize :
        LET r == [at |-> a, words |-> n] IN
        /\ a + n <= HeapSize
        /\ Unheld(r)
        /\ held' = [held EXCEPT ![c] = @ \cup {r}]

\* free takes back one region of its caller.
Release(c) ==
    \E h \in held[c] : held' = [held EXCEPT ![c] = @ \ {h}]

Next == \E c \in Callers : Grant(c) \/ Release(c)

Spec == Init /\ [][Next]_held
==============================================================================
