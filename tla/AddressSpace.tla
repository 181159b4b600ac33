---------------------------- MODULE AddressSpace ----------------------------
(***************************************************************************)
(* The memory that brk and mmap2 (syscall.c) hand out.  All programs share *)
(* one break; a call is cut into its accesses to it.  mmap2 takes its      *)
(* pages from the break too, and munmap gives nothing back.                *)
(*                                                                         *)
(* TickPoints: where in a call a tick may switch to another task.  Windows *)
(* are the points where that breaks what is promised.                      *)
(***************************************************************************)
EXTENDS Programs, Integers

CONSTANTS
    Tasks, TickPoints,
    TOP,            \* 2^32
    PAGE,
    FirstBreak,     \* 0x01100000
    Lengths,        \* what mmap2 is asked for
    Increments      \* how far a program wants the break from the one it knows

Points == {"user", "store", "return", "add", "sum"}
Windows == {"store", "add", "sum"}

BadMemoryHabits == {
    "brk over others",      \* ask for more behind a break that has moved since
    "run out" }             \* go on when the addresses end

ASSUME AddressSpaceAssumption ==
    /\ TickPoints \subseteq Points /\ {"user", "return"} \subseteq TickPoints
    /\ PAGE \in Nat \ {0} /\ TOP \in Nat \ {0} /\ TOP % PAGE = 0
    /\ FirstBreak \in 1 .. TOP - 1
    /\ Lengths \subseteq 1 .. TOP - 1
    /\ Increments \subseteq Int

VARIABLES
    current_process_brk,
    at,         \* per task: where its call is
    arg,        \* its new_brk or length; 0, as are addr and sum, when there is none
    addr,       \* its allocated_addr
    sum,        \* what mmap2 is about to store
    known,      \* the break that the program was told last, 0 if none
    given       \* history: how often each address was given to a program

memory == <<current_process_brk, at, arg, addr, sum, known, given>>

Addresses32 == 0 .. TOP - 1

MemoryInit ==
    /\ current_process_brk = FirstBreak
    /\ at = [t \in Tasks |-> "user"]
    /\ arg = [t \in Tasks |-> 0]
    /\ addr = [t \in Tasks |-> 0]
    /\ sum = [t \in Tasks |-> 0]
    /\ known = [t \in Tasks |-> 0]
    /\ given = [x \in Addresses32 |-> 0]
-----------------------------------------------------------------------------
\* t executes from p on; every other task was switched from at a tick point.
From(t, p) == at[t] = p /\ \A u \in Tasks \ {t} : at[u] \in TickPoints

To(t, p) == at' = [at EXCEPT ![t] = p]

Return(t) ==
    /\ To(t, "user")
    /\ arg' = [arg EXCEPT ![t] = 0]
    /\ addr' = [addr EXCEPT ![t] = 0]
    /\ sum' = [sum EXCEPT ![t] = 0]

\* brk(0)
BrkAsk(t) ==
    /\ From(t, "user")
    /\ known' = [known EXCEPT ![t] = current_process_brk]
    /\ UNCHANGED <<current_process_brk, at, arg, addr, sum, given>>

\* Mutant: any break will do.
BrkUnchecked(t, new) ==
    /\ From(t, "user") /\ new # 0
    /\ arg' = [arg EXCEPT ![t] = new]
    /\ To(t, "store")
    /\ UNCHANGED <<current_process_brk, addr, sum, known, given>>

\* brk(new) compares new with the break.
Brk(t, new) ==
    /\ From(t, "user") /\ new # 0
    /\ arg' = [arg EXCEPT ![t] = new]
    /\ To(t, IF new >= current_process_brk THEN "store" ELSE "return")
    /\ UNCHANGED <<current_process_brk, addr, sum, known, given>>

BrkStore(t) ==
    /\ From(t, "store")
    /\ current_process_brk' = arg[t]
    /\ To(t, "return")
    /\ UNCHANGED <<arg, addr, sum, known, given>>

\* given, once n addresses from a on are given to a program.
GivenFrom(a, n) ==
    [x \in Addresses32 |-> given[x] + (IF (x - a) % TOP < n THEN 1 ELSE 0)]

\* The program takes what lies between the break it knew and the one it asked for, if
\* that is what brk returns.
BrkReturn(t) ==
    /\ From(t, "return")
    /\ known' = [known EXCEPT ![t] = current_process_brk]
    /\ given' = IF current_process_brk = arg[t] /\ arg[t] > known[t]
                THEN GivenFrom(known[t], arg[t] - known[t]) ELSE given
    /\ Return(t)
    /\ UNCHANGED current_process_brk

Mmap(t, length) ==
    /\ From(t, "user")
    /\ arg' = [arg EXCEPT ![t] = length]
    /\ addr' = [addr EXCEPT ![t] = current_process_brk]
    /\ To(t, "add")
    /\ UNCHANGED <<current_process_brk, sum, known, given>>

\* Mutant: rounds down.
AlignedDown(n) == (n \div PAGE) * PAGE

Aligned(n) == (((n + PAGE - 1) % TOP) \div PAGE) * PAGE

MmapAdd(t) ==
    /\ From(t, "add")
    /\ sum' = [sum EXCEPT ![t] = (current_process_brk + Aligned(arg[t])) % TOP]
    /\ To(t, "sum")
    /\ UNCHANGED <<current_process_brk, arg, addr, known, given>>

MmapStore(t) ==
    /\ From(t, "sum")
    /\ current_process_brk' = sum[t]
    /\ given' = GivenFrom(addr[t], arg[t])
    /\ Return(t)
    /\ UNCHANGED known
-----------------------------------------------------------------------------
MemoryCalls(t) ==
    \/ BrkAsk(t)
    \/ \E n \in Increments :
        /\ known[t] # 0
        /\ OnlyIf("brk over others", n > 0 /\ known[t] # current_process_brk)
        /\ OnlyIf("run out", known[t] + n \notin Addresses32)
        /\ Brk(t, (known[t] + n) % TOP)
    \/ \E length \in Lengths :
        /\ OnlyIf("run out", current_process_brk + length + PAGE - 1 >= TOP)
        /\ Mmap(t, length)

MemoryNext ==
    \E t \in Tasks :
        MemoryCalls(t) \/ BrkStore(t) \/ BrkReturn(t) \/ MmapAdd(t) \/ MmapStore(t)
-----------------------------------------------------------------------------
(* Properties.                                                             *)

MemoryTypeOK ==
    /\ current_process_brk \in Addresses32
    /\ at \in [Tasks -> Points]
    /\ arg \in [Tasks -> Addresses32] /\ addr \in [Tasks -> Addresses32]
    /\ sum \in [Tasks -> Addresses32] /\ known \in [Tasks -> Addresses32]
    /\ given \in [Addresses32 -> Nat]

\* No address is given to programs twice, by brk, by mmap2 or by one of each, whatever
\* tasks call them at a time (syscall.c:78-90, 201-211).
GivenOnce == \A x \in Addresses32 : given[x] <= 1

\* The break never falls, not even when a task stores what it worked out earlier
\* (syscall.c:86-88, 208).
BrkNeverFalls == [][current_process_brk' >= current_process_brk]_memory
==============================================================================
