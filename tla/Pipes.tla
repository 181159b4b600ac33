-------------------------------- MODULE Pipes --------------------------------
(***************************************************************************)
(* One pipe_t of fs/vfs.c, a task that writes to it and a task that reads. *)
(* Each may close its end, and when both ends are closed either task may   *)
(* make a pipe again.                                                      *)
(*                                                                         *)
(* pipe_write and pipe_read move one byte per round of their loops and     *)
(* never wait: a write stops where the ring is full, a read where it is    *)
(* empty.  Both tasks are in the kernel with interrupts on, so a timer     *)
(* tick may hand the CPU from one to the other between any two accesses to *)
(* memory; count, which both change, is loaded by one instruction and      *)
(* stored by another (the kernel is compiled with -O0).                    *)
(***************************************************************************)
EXTENDS Integers, Sequences

CONSTANTS
    PIPE_SIZE,
    Bytes,      \* what a byte can be
    Blank,      \* a byte of the ring never written
    Sizes,      \* the sizes calls ask for
    TickPoints  \* where a tick may come

VARIABLES
    data, read_pos, write_pos, count,   \* the pipe_t
    ends,       \* its readers, writers and used
    cpu,        \* the task that runs, "writer" or "reader"
    pc,         \* where each has got to; "user" outside the two functions
    left,       \* bytes each still wants to move: size - written, size - read
    loaded      \* count as each last loaded it

pipe == <<data, read_pos, write_pos, count>>
vars == <<pipe, ends, cpu, pc, left, loaded>>

Tasks == {"writer", "reader"}
Points == {"user", "check", "move", "advance", "count", "countWrite", "closeTest", "closeFree"}

\* Where a tick breaks the pipe: between the load and the store of count, and between
\* the test of readers and writers and the store to used.
Windows == {"countWrite", "closeFree"}

ASSUME PipesAssumption ==
    /\ PIPE_SIZE \in Nat \ {0}
    /\ Blank \notin Bytes
    /\ Sizes \subseteq Nat \ {0}      \* a call for 0 bytes returns at once
    /\ TickPoints \subseteq Points

\* vfs_pipe
Init ==
    /\ data = [i \in 0 .. PIPE_SIZE - 1 |-> Blank]
    /\ read_pos = 0 /\ write_pos = 0 /\ count = 0
    /\ ends = [readers |-> 1, writers |-> 1, used |-> TRUE]
    /\ cpu = "writer"
    /\ pc = [t \in Tasks |-> "user"]
    /\ left = [t \in Tasks |-> 0]
    /\ loaded = [t \in Tasks |-> 0]
-----------------------------------------------------------------------------
At(t, point) == cpu = t /\ pc[t] = point
Goto(t, point) == pc' = [pc EXCEPT ![t] = point]
After(i) == (i + 1) % PIPE_SIZE

\* The timer interrupt, with only these two tasks in the ring.
Tick ==
    /\ pc[cpu] \in TickPoints
    /\ cpu' \in Tasks \ {cpu}
    /\ UNCHANGED <<pipe, ends, pc, left, loaded>>

\* The count of the end that t has, and whether t has it.
CountOf(t) == IF t = "writer" THEN "writers" ELSE "readers"
HasEnd(t) == ends[CountOf(t)] > 0

\* write(fd, buf, n) or read(fd, buf, n).  A write without a reader is refused.
Call(t) ==
    /\ At(t, "user")
    /\ HasEnd(t) /\ (t = "writer" => HasEnd("reader"))
    /\ \E n \in Sizes : left' = [left EXCEPT ![t] = n]
    /\ Goto(t, "check")
    /\ UNCHANGED <<pipe, ends, cpu, loaded>>

\* Mutants: a write goes on in a full ring; a read leaves the last byte.
MayMoveLeavesOne(t) == left[t] > 0 /\ IF t = "writer" THEN count < PIPE_SIZE ELSE count > 1
MayMoveOneMore(t) == left[t] > 0 /\ IF t = "writer" THEN count <= PIPE_SIZE ELSE count > 0

\* The condition of the while loop.
MayMove(t) == left[t] > 0 /\ IF t = "writer" THEN count < PIPE_SIZE ELSE count > 0

Check(t) ==
    /\ At(t, "check")
    /\ MayMove(t)
    /\ Goto(t, "move")
    /\ UNCHANGED <<pipe, ends, cpu, left, loaded>>

\* The loop is over: the call returns how much it moved.
Return(t) ==
    /\ At(t, "check")
    /\ ~MayMove(t)
    /\ Goto(t, "user")
    /\ left' = [left EXCEPT ![t] = 0]
    /\ loaded' = [loaded EXCEPT ![t] = 0]
    /\ UNCHANGED <<pipe, ends, cpu>>

\* pipe->data[pipe->write_pos] = buffer[written++]
Store ==
    /\ At("writer", "move")
    /\ \E b \in Bytes : data' = [data EXCEPT ![write_pos] = b]
    /\ left' = [left EXCEPT !["writer"] = @ - 1]
    /\ Goto("writer", "advance")
    /\ UNCHANGED <<read_pos, write_pos, count, ends, cpu, loaded>>

\* buffer[read++] = pipe->data[pipe->read_pos]
Load ==
    /\ At("reader", "move")
    /\ left' = [left EXCEPT !["reader"] = @ - 1]
    /\ Goto("reader", "advance")
    /\ UNCHANGED <<pipe, ends, cpu, loaded>>

\* pipe->write_pos = (pipe->write_pos + 1) % PIPE_SIZE, or read_pos.
Advance(t) ==
    /\ At(t, "advance")
    /\ IF t = "writer"
       THEN write_pos' = After(write_pos) /\ UNCHANGED read_pos
       ELSE read_pos' = After(read_pos) /\ UNCHANGED write_pos
    /\ Goto(t, "count")
    /\ UNCHANGED <<data, count, ends, cpu, left, loaded>>

\* pipe->count++, or pipe->count--: the load and the store.
Count(t) ==
    /\ At(t, "count")
    /\ loaded' = [loaded EXCEPT ![t] = count]
    /\ Goto(t, "countWrite")
    /\ UNCHANGED <<pipe, ends, cpu, left>>

\* Mutant: count is worked out from the positions, which are equal in a full ring too.
CountWriteDistance(t) ==
    /\ At(t, "countWrite")
    /\ count' = (write_pos - read_pos) % PIPE_SIZE
    /\ Goto(t, "check")
    /\ UNCHANGED <<data, read_pos, write_pos, ends, cpu, left, loaded>>

CountWrite(t) ==
    /\ At(t, "countWrite")
    /\ count' = IF t = "writer" THEN loaded[t] + 1 ELSE loaded[t] - 1
    /\ Goto(t, "check")
    /\ UNCHANGED <<data, read_pos, write_pos, ends, cpu, left, loaded>>

\* vfs_close: readers or writers goes down, and if both are 0 the pipe is free.
Close(t) ==
    /\ At(t, "user") /\ HasEnd(t)
    /\ ends' = [ends EXCEPT ![CountOf(t)] = @ - 1]
    /\ Goto(t, "closeTest")
    /\ UNCHANGED <<pipe, cpu, left, loaded>>

CloseTest(t) ==
    /\ At(t, "closeTest")
    /\ Goto(t, IF ends.readers = 0 /\ ends.writers = 0 THEN "closeFree" ELSE "user")
    /\ UNCHANGED <<pipe, ends, cpu, left, loaded>>

CloseFree(t) ==
    /\ At(t, "closeFree")
    /\ ends' = [ends EXCEPT !.used = FALSE]
    /\ Goto(t, "user")
    /\ UNCHANGED <<pipe, cpu, left, loaded>>

\* vfs_pipe: the pipe is taken again.
Open(t) ==
    /\ At(t, "user")
    /\ ~ends.used
    /\ read_pos' = 0 /\ write_pos' = 0 /\ count' = 0
    /\ ends' = [readers |-> 1, writers |-> 1, used |-> TRUE]
    /\ UNCHANGED <<data, cpu, pc, left, loaded>>
-----------------------------------------------------------------------------
Kernel(t) ==
    \/ Check(t) \/ Return(t) \/ Advance(t) \/ Count(t) \/ CountWrite(t)
    \/ CloseTest(t) \/ CloseFree(t)
    \/ (t = "writer" /\ Store) \/ (t = "reader" /\ Load)

Next == Tick \/ \E t \in Tasks : Call(t) \/ Close(t) \/ Open(t) \/ Kernel(t)

\* As in Tasks: a task whose turn comes again and again gets on with its call, and
\* ticks come.  The reader reads again and again; the writer need not write.
Spec ==
    /\ Init /\ [][Next]_vars
    /\ \A t \in Tasks : SF_vars(Kernel(t))
    /\ SF_vars(Call("reader"))
    /\ SF_vars(Tick)
-----------------------------------------------------------------------------
(* Properties.                                                             *)

\* Every variable has its type, and count stays within the ring.
TypeOK ==
    /\ data \in [0 .. PIPE_SIZE - 1 -> Bytes \cup {Blank}]
    /\ read_pos \in 0 .. PIPE_SIZE - 1 /\ write_pos \in 0 .. PIPE_SIZE - 1
    /\ count \in 0 .. PIPE_SIZE
    /\ ends \in [readers : 0 .. 1, writers : 0 .. 1, used : BOOLEAN]
    /\ cpu \in Tasks
    /\ pc \in [Tasks -> Points]
    /\ left \in [Tasks -> Nat]
    /\ loaded \in [Tasks -> 0 .. PIPE_SIZE]

IsOpen == HasEnd("reader") \/ HasEnd("writer")

\* The bytes in the pipe while an end is open: those that count stands for, but for one
\* that the reader has moved past and not yet taken off count.
Waiting ==
    LET passed == IF pc["reader"] \in {"count", "countWrite"} THEN 1 ELSE 0
        bytes == IF IsOpen THEN count - passed ELSE 0
    IN [i \in 1 .. bytes |-> data[(read_pos + i - 1) % PIPE_SIZE]]

\* A pipe is a first-in first-out queue of PIPE_SIZE bytes that loses none while an end is
\* open, and a new pipe is empty, with the writer and the reader interrupted anywhere in
\* their loops and while they close their ends (vfs.c:98-117, 328-331, 357-362).
Fifo == INSTANCE BoundedFifo
            WITH Items <- Bytes, Capacity <- PIPE_SIZE, queue <- Waiting, dropped <- FALSE,
                 emptied <- IsOpen
FifoKept == Fifo!Spec

\* The two positions and count agree whenever no byte is on its way: else the bytes
\* read from then on are not the bytes written (vfs.c:103, 114).
CountIsDistance ==
    (\A t \in Tasks : pc[t] \in {"user", "check", "move"}) =>
        (write_pos - read_pos - count) % PIPE_SIZE = 0

\* Once the writer has stopped, or closed its end, what is in the pipe is read to the last
\* byte, if the reader does not close its own (vfs.c:98-106).
PipeDrains == <>[](pc["writer"] = "user" /\ HasEnd("reader")) => <>[](count = 0)
==============================================================================
