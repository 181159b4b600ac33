-------------------------------- MODULE Heap --------------------------------
(***************************************************************************)
(* The kernel heap, sys/kernel/alloc.c: a first-fit list of blocks, each   *)
(* behind a header {size, is_free, next}, split on alloc and merged on     *)
(* alloc_free.  malloc and free (api.c) only forward to these two.         *)
(*                                                                         *)
(* alloc and alloc_free take no lock and syscalls run with interrupts on   *)
(* (syscall.c, "sti"), so a call is a sequence of steps of its caller, one *)
(* per loop round or group of assignments, between which another task may  *)
(* run.  Sizes and addresses count 4-byte words: alloc rounds every        *)
(* request up to one, and the heap and its headers are whole words.        *)
(***************************************************************************)
EXTENDS Integers

CONSTANTS
    Callers,        \* the tasks that call malloc and free
    HeapSize,       \* words in the heap array
    HeaderWords,    \* sizeof(block_header_t) in words
    Requests        \* byte sizes the kernel asks for

ASSUME HeapAssumption ==
    /\ HeaderWords \in Nat \ {0}
    /\ HeapSize \in Nat
    /\ HeapSize > HeaderWords
    /\ Requests \subseteq Nat

VARIABLES
    initialized,    \* is_initialized
    size,           \* size[a], isFree[a], next[a]: the header at word a; a word
    isFree,         \*   no longer under a header keeps what was last written
    next,
    pc,             \* pc[c]: where c is inside alloc or alloc_free
    want,           \* want[c]: alloc's rounded size, in words
    curr,           \* curr[c]: the local curr of the call c is in
    held,           \* held[c]: regions malloc gave to c and c has not freed
    linked          \* history: the headers that the list from free_list threads

vars == <<initialized, size, isFree, next, pc, want, curr, held, linked>>
headers == <<size, isFree, next>>

NULL == -1
Addr == 0 .. HeapSize - HeaderWords

\* (size + 3) & ~3, in words.
RoundUp(n) == (n + 3) \div 4

\* The first word after the block at b: where its neighbour starts.
End(b) == b + HeaderWords + size[b]

PcValues == {"idle", "scan", "split", "take", "merge"}

Init ==
    /\ initialized = FALSE
    /\ size = [a \in Addr |-> 0]
    /\ isFree = [a \in Addr |-> FALSE]
    /\ next = [a \in Addr |-> NULL]
    /\ pc = [c \in Callers |-> "idle"]
    /\ want = [c \in Callers |-> 0]
    /\ curr = [c \in Callers |-> NULL]
    /\ held = [c \in Callers |-> {}]
    /\ linked = {}
-----------------------------------------------------------------------------
\* A call returns: its locals are gone.
Return(c) ==
    /\ pc' = [pc EXCEPT ![c] = "idle"]
    /\ want' = [want EXCEPT ![c] = 0]
    /\ curr' = [curr EXCEPT ![c] = NULL]

\* The first call lays the whole array out as one free block.
LayOut ==
    IF initialized
    THEN UNCHANGED <<initialized, headers, linked>>
    ELSE /\ initialized' = TRUE
         /\ size' = [size EXCEPT ![0] = HeapSize - HeaderWords]
         /\ isFree' = [isFree EXCEPT ![0] = TRUE]
         /\ next' = [next EXCEPT ![0] = NULL]
         /\ linked' = {0}

\* alloc(n) up to its loop.
AllocEnter(c) ==
    \E n \in Requests :
        /\ pc[c] = "idle"
        /\ LayOut
        /\ want' = [want EXCEPT ![c] = RoundUp(n)]
        /\ curr' = [curr EXCEPT ![c] = 0]
        /\ pc' = [pc EXCEPT ![c] = "scan"]
        /\ UNCHANGED held

\* Mutants: the block's use is not looked at; a block of just the right size will not do.
FitsInUse(c) == size[curr[c]] >= want[c]
FitsStrictly(c) == isFree[curr[c]] /\ size[curr[c]] > want[c]

Fits(c) == isFree[curr[c]] /\ size[curr[c]] >= want[c]

\* The block under curr will not do: curr = curr->next.
ScanNext(c) ==
    /\ pc[c] = "scan" /\ curr[c] # NULL /\ ~Fits(c)
    /\ curr' = [curr EXCEPT ![c] = next[curr[c]]]
    /\ UNCHANGED <<initialized, headers, pc, want, held, linked>>

\* The end of the list: alloc returns NULL.
ScanFail(c) ==
    /\ pc[c] = "scan" /\ curr[c] = NULL
    /\ Return(c)
    /\ UNCHANGED <<initialized, headers, held, linked>>

\* Mutant: splits without room for the header of the rest.
ScanFoundNoRoom(c) ==
    /\ pc[c] = "scan" /\ curr[c] # NULL /\ Fits(c)
    /\ pc' = [pc EXCEPT ![c] = IF size[curr[c]] > want[c] THEN "split" ELSE "take"]
    /\ UNCHANGED <<initialized, headers, want, curr, held, linked>>

\* A free block that is large enough; is it worth splitting?
ScanFound(c) ==
    /\ pc[c] = "scan" /\ curr[c] # NULL /\ Fits(c)
    /\ pc' = [pc EXCEPT ![c] =
                IF size[curr[c]] > want[c] + HeaderWords + 1 THEN "split" ELSE "take"]
    /\ UNCHANGED <<initialized, headers, want, curr, held, linked>>

\* Mutant: the rest is linked as the last block.
SplitLosesNext(c) ==
    LET b == curr[c]
        rest == b + HeaderWords + want[c]
    IN /\ pc[c] = "split"
       /\ size' = [size EXCEPT ![rest] = size[b] - want[c] - HeaderWords, ![b] = want[c]]
       /\ isFree' = [isFree EXCEPT ![rest] = TRUE]
       /\ next' = [next EXCEPT ![rest] = NULL, ![b] = rest]
       /\ linked' = linked \cup {rest}
       /\ pc' = [pc EXCEPT ![c] = "take"]
       /\ UNCHANGED <<initialized, want, curr, held>>

\* The tail of the block under curr becomes a free block of its own.
Split(c) ==
    LET b == curr[c]
        rest == b + HeaderWords + want[c]
    IN /\ pc[c] = "split"
       /\ size' = [size EXCEPT ![rest] = size[b] - want[c] - HeaderWords, ![b] = want[c]]
       /\ isFree' = [isFree EXCEPT ![rest] = TRUE]
       /\ next' = [next EXCEPT ![rest] = next[b], ![b] = rest]
       /\ linked' = linked \cup {rest}
       /\ pc' = [pc EXCEPT ![c] = "take"]
       /\ UNCHANGED <<initialized, want, curr, held>>

\* curr->is_free = 0 and the address behind the header is returned.
Take(c) ==
    /\ pc[c] = "take"
    /\ isFree' = [isFree EXCEPT ![curr[c]] = FALSE]
    /\ held' = [held EXCEPT ![c] =
                  @ \cup {[at |-> curr[c] + HeaderWords, words |-> want[c]]}]
    /\ Return(c)
    /\ UNCHANGED <<initialized, size, next, linked>>

\* Mutant: the header is looked for at ptr, not before it.
FreeEnterAtPtr(c) ==
    \E h \in held[c] :
        /\ pc[c] = "idle"
        /\ isFree' = [isFree EXCEPT ![h.at] = TRUE]
        /\ held' = [held EXCEPT ![c] = @ \ {h}]
        /\ curr' = [curr EXCEPT ![c] = 0]
        /\ pc' = [pc EXCEPT ![c] = "merge"]
        /\ UNCHANGED <<initialized, size, next, want, linked>>

\* alloc_free(ptr) up to its loop.  A NULL ptr returns at once and changes nothing.
FreeEnter(c) ==
    \E h \in held[c] :
        /\ pc[c] = "idle"
        /\ isFree' = [isFree EXCEPT ![h.at - HeaderWords] = TRUE]
        /\ held' = [held EXCEPT ![c] = @ \ {h}]
        /\ curr' = [curr EXCEPT ![c] = 0]
        /\ pc' = [pc EXCEPT ![c] = "merge"]
        /\ UNCHANGED <<initialized, size, next, want, linked>>

InMerge(c) == pc[c] = "merge" /\ curr[c] # NULL /\ next[curr[c]] # NULL
\* Mutant: the neighbour's use is not looked at.
FirstFree(c) == isFree[curr[c]]
BothFree(c) == isFree[curr[c]] /\ isFree[next[curr[c]]]

\* Mutant: goes on after the block it swallowed, as if a third could not be free.
MergeAbsorbAndMove(c) ==
    LET b == curr[c]
        n == next[b]
    IN /\ InMerge(c) /\ BothFree(c)
       /\ size' = [size EXCEPT ![b] = @ + HeaderWords + size[n]]
       /\ next' = [next EXCEPT ![b] = next[n]]
       /\ linked' = linked \ {n}
       /\ curr' = [curr EXCEPT ![c] = next[n]]
       /\ UNCHANGED <<initialized, isFree, pc, want, held>>

\* Two free neighbours: curr swallows the second and stays, to look at the next.
MergeAbsorb(c) ==
    LET b == curr[c]
        n == next[b]
    IN /\ InMerge(c) /\ BothFree(c)
       /\ size' = [size EXCEPT ![b] = @ + HeaderWords + size[n]]
       /\ next' = [next EXCEPT ![b] = next[n]]
       /\ linked' = linked \ {n}
       /\ UNCHANGED <<initialized, isFree, pc, want, curr, held>>

\* Mutant: moves on only past a used block.
MergeNextPastUsed(c) ==
    /\ InMerge(c) /\ ~BothFree(c)
    /\ curr' = IF isFree[curr[c]] THEN curr ELSE [curr EXCEPT ![c] = next[curr[c]]]
    /\ UNCHANGED <<initialized, headers, pc, want, held, linked>>

MergeNext(c) ==
    /\ InMerge(c) /\ ~BothFree(c)
    /\ curr' = [curr EXCEPT ![c] = next[curr[c]]]
    /\ UNCHANGED <<initialized, headers, pc, want, held, linked>>

MergeDone(c) ==
    /\ pc[c] = "merge" /\ ~InMerge(c)
    /\ Return(c)
    /\ UNCHANGED <<initialized, headers, held, linked>>

Continue(c) ==
    \/ ScanNext(c) \/ ScanFail(c) \/ ScanFound(c) \/ Split(c) \/ Take(c)
    \/ MergeAbsorb(c) \/ MergeNext(c) \/ MergeDone(c)

Next == \E c \in Callers : AllocEnter(c) \/ FreeEnter(c) \/ Continue(c)

\* A call that has begun goes on: nothing in alloc.c waits.  That anyone calls
\* malloc or free is not assumed.
Spec == Init /\ [][Next]_vars /\ \A c \in Callers : WF_vars(Continue(c))
-----------------------------------------------------------------------------
(* Properties. *)

Region == [at : 0 .. HeapSize, words : 0 .. HeapSize]

\* Every variable has its type.
TypeOK ==
    /\ initialized \in BOOLEAN
    /\ size \in [Addr -> 0 .. HeapSize]
    /\ isFree \in [Addr -> BOOLEAN]
    /\ next \in [Addr -> Addr \cup {NULL}]
    /\ pc \in [Callers -> PcValues]
    /\ want \in [Callers -> Nat]
    /\ curr \in [Callers -> Addr \cup {NULL}]
    /\ held \in [Callers -> SUBSET Region]
    /\ linked \subseteq Addr

\* The blocks on the list tile the heap: each one's next is the block that
\* starts where it ends, the last ends at the end of the heap, none overlap.
Tiling ==
    /\ initialized => 0 \in linked
    /\ \A b \in linked :
        /\ End(b) <= HeapSize
        /\ IF End(b) = HeapSize THEN next[b] = NULL
                               ELSE next[b] = End(b) /\ End(b) \in linked
    /\ \A a, b \in linked : a < b => End(a) <= b

\* What following next from free_list reaches.
Reached ==
    LET after[n \in 0 .. HeapSize] ==
            IF n = 0 THEN {0}
            ELSE LET before == after[n - 1]
                 IN before \cup ({next[a] : a \in before} \ {NULL})
    IN after[HeapSize]

\* No block ever drops off the list: whatever the splits and merges, the walk
\* that alloc and alloc_free make from free_list (alloc.c:38, 66) passes every
\* block of a heap it tiles without a gap, also in the middle of a call.
ListTilesHeap == Tiling /\ (initialized => Reached = linked)

\* A block a caller still holds is on the list, used, as large as was asked and
\* at most a header and a word larger (alloc.c:42), and a used block has a
\* holder: a free of one block never frees or swallows another.
HeldBlocks ==
    /\ \A c \in Callers : \A h \in held[c] :
        LET b == h.at - HeaderWords IN
        /\ b \in linked /\ ~isFree[b]
        /\ size[b] - h.words \in 0 .. HeaderWords + 1
    /\ \A b \in linked :
        isFree[b] \/ \E c \in Callers : \E h \in held[c] : h.at = b + HeaderWords

\* Two regions that are held at one time share no word: the stacks of two live
\* tasks are separate memory.
HeldDisjoint ==
    \A c, d \in Callers : \A g \in held[c], h \in held[d] :
        <<c, g>> # <<d, h>> => g.at + g.words <= h.at \/ h.at + h.words <= g.at

\* Between calls no two neighbours are both free: one pass of alloc_free's loop
\* undoes all fragmentation, so what was freed can be handed out whole again.
Coalesced ==
    (\A c \in Callers : pc[c] = "idle") =>
        \A b \in linked : next[b] # NULL => ~(isFree[b] /\ isFree[next[b]])

\* alloc returns NULL only when no block on the list would do: the scan, which
\* looks at one block per step, overlooks none.
NullOnlyWhenNothingFits ==
    [][\A c \in Callers :
        pc[c] = "scan" /\ pc'[c] = "idle" =>
            \A b \in linked : ~(isFree[b] /\ size[b] >= want[c])]_vars

\* Every call returns: neither loop can go round in a list that was cut and
\* joined under it.
CallsReturn == \A c \in Callers : pc[c] # "idle" ~> pc[c] = "idle"

\* The allocator keeps its promise: what callers hold changes only as Regions
\* allows, one unheld region of the heap at a time.
Promise == INSTANCE Regions
PromiseKept == Promise!Spec
==============================================================================
