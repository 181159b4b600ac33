-------------------------------- MODULE Files --------------------------------
(***************************************************************************)
(* Descriptors, files and pipes as the syscalls open, write and close see  *)
(* them: fd_table, vfs_open, vfs_write, vfs_close and vfs_pipe of          *)
(* fs/vfs.c, over the ramfs of fs/filesystem.c and the files that          *)
(* unpack_initramfs (main.c) puts there at boot.                           *)
(*                                                                         *)
(* A call is a sequence of steps of its task, split where it has found     *)
(* something free and not yet taken it, given something up and not yet     *)
(* forgotten it, or read a pointer and not yet used it.  TickPoints says   *)
(* where in a call a tick may switch to another task; Windows are the      *)
(* points where that breaks what is promised.  What a file holds is left   *)
(* out: which blocks are whose decides that.                               *)
(***************************************************************************)
EXTENDS Descriptors, FiniteSets

CONSTANTS
    Tasks,                  \* the tasks that make these syscalls
    TickPoints,             \* where a tick may come
    Nodes,                  \* where the heap can place a vfs_node_t
    MAX_FILES, PIPE_COUNT, TOTAL_BLOCKS, MAX_BLOCKS_PER_FILE, BLOCK_SIZE,
    RamPaths,               \* paths under no mount
    LongPaths,              \* those of more than 31 characters
    DriverPaths,            \* paths that procfs or devtmpfs knows
    MissingPaths,           \* paths under /proc or /dev that they do not know
    Sizes                   \* how many bytes a write has

Files == 0 .. MAX_FILES - 1
Blocks == 0 .. TOTAL_BLOCKS - 1
Slots == 0 .. MAX_BLOCKS_PER_FILE - 1
Pipes == 0 .. PIPE_COUNT - 1
Driver == -1    \* the internal_id of a node that is no ramfs file

Windows == {"openNode", "openFind", "openFill", "transfer", "closeClear", "pipeWriteEnd"}
Points == {"idle", "pipeReadEnd"} \cup Windows

ASSUME FilesAssumption ==
    /\ "idle" \in TickPoints /\ TickPoints \subseteq Points
    /\ MAX_FILES \in Nat /\ MAX_FILES > 0 /\ MAX_FILES % 2 = 0
    /\ PIPE_COUNT \in Nat /\ TOTAL_BLOCKS \in Nat \ {0}
    /\ MAX_BLOCKS_PER_FILE \in Nat \ {0} /\ BLOCK_SIZE \in Nat \ {0}
    /\ LongPaths \subseteq RamPaths
    /\ Sizes \subseteq Nat
    /\ Null \notin Nodes \cup Pipes \cup Fds \cup RamPaths \cup DriverPaths \cup MissingPaths
    /\ Nodes \cap Pipes = {}

VARIABLES
    file_table, bitmap,     \* bitmap: the blocks that block_bitmap has as used
    nodes,                  \* the nodes that malloc gave and free has not taken back
    internal_id,            \* of each node
    pipes,
    booting,                \* unpack_initramfs runs
    pc, path, fd, data      \* per task: where its call is, and its locals

ramfs == <<file_table, bitmap>>
locals == <<path, fd, data>>
vars == <<ramfs, fd_table, nodes, internal_id, pipes, booting, pc, locals>>

\* vfs_init; everything else is in .bss and zero.
Init ==
    /\ file_table = [i \in Files |->
            [name |-> Null, size |-> 0, blocks |-> [j \in Slots |-> 0], used |-> FALSE]]
    /\ bitmap = {}
    /\ fd_table = [f \in Fds |-> Empty]
    /\ nodes = {}
    /\ internal_id = [n \in Nodes |-> Driver]
    /\ pipes = [p \in Pipes |-> [used |-> FALSE, readers |-> 0, writers |-> 0]]
    /\ booting = TRUE
    /\ pc = [t \in Tasks |-> "idle"]
    /\ path = [t \in Tasks |-> Null]
    /\ fd = [t \in Tasks |-> Null]
    /\ data = [t \in Tasks |-> Null]
-----------------------------------------------------------------------------
(* filesystem.c                                                            *)

\* A name is cut to 31 characters.
NameOf(p) == [start |-> p, whole |-> p \notin LongPaths]

FreeFiles == {i \in Files : ~file_table[i].used}

\* The entry that fs_create(p) makes.
Created(p) ==
    [name |-> NameOf(p), size |-> 0, blocks |-> [j \in Slots |-> -1], used |-> TRUE]

\* Mutant: allocate_block does not mark the block it returns.
WriteRoundUnmarked(at, j) ==
    IF at.stopped \/ at.left = 0 THEN at
    ELSE IF at.blocks[j] = -1 /\ at.bitmap = Blocks THEN [at EXCEPT !.stopped = TRUE]
    ELSE [at EXCEPT !.blocks[j] = IF @ = -1 THEN Lowest(Blocks \ at.bitmap) ELSE @,
                    !.left = IF @ < BLOCK_SIZE THEN 0 ELSE @ - BLOCK_SIZE]

\* One round of the loop of fs_write, on the block in slot j.
WriteRound(at, j) ==
    IF at.stopped \/ at.left = 0 THEN at
    ELSE IF at.blocks[j] = -1 /\ at.bitmap = Blocks THEN [at EXCEPT !.stopped = TRUE]
    ELSE LET b == IF at.blocks[j] = -1 THEN Lowest(Blocks \ at.bitmap) ELSE at.blocks[j]
         IN [at EXCEPT !.blocks[j] = b,
                       !.bitmap = IF at.blocks[j] = -1 THEN @ \cup {b} ELSE @,
                       !.left = IF @ < BLOCK_SIZE THEN 0 ELSE @ - BLOCK_SIZE]

\* What the rounds make, one after the other, of n bytes and a file with these blocks.
WriteRounds(blocks, n) ==
    LET after[j \in 0 .. MAX_BLOCKS_PER_FILE] ==
            IF j = 0
            THEN [blocks |-> blocks, bitmap |-> bitmap, left |-> n, stopped |-> FALSE]
            ELSE WriteRound(after[j - 1], j - 1)
    IN after

\* fs_write of n bytes to entry i, which holds e: the size is set unless the blocks ran out.
FsWrite(i, e, n) ==
    LET end == WriteRounds(e.blocks, n)[MAX_BLOCKS_PER_FILE]
    IN /\ bitmap' = end.bitmap
       /\ file_table' = [file_table EXCEPT ![i] =
             [e EXCEPT !.blocks = end.blocks,
                       !.size = IF end.stopped THEN @ ELSE n - end.left]]

\* unpack_initramfs: one file of the archive.
Register(p, n) ==
    /\ booting
    /\ FreeFiles # {}
    /\ FsWrite(Lowest(FreeFiles), Created(p), n)
    /\ UNCHANGED <<fd_table, nodes, internal_id, pipes, booting, pc, locals>>

BootDone ==
    /\ booting
    /\ booting' = FALSE
    /\ UNCHANGED <<ramfs, fd_table, nodes, internal_id, pipes, pc, locals>>
-----------------------------------------------------------------------------
(* vfs_open.                                                               *)

\* t executes from point on; every other task was switched from at a tick point.
At(t, point) ==
    /\ ~booting /\ pc[t] = point
    /\ \A u \in Tasks \ {t} : pc[u] \in TickPoints

Goto(t, point) == pc' = [pc EXCEPT ![t] = point]

Return(t) ==
    /\ pc' = [pc EXCEPT ![t] = "idle"]
    /\ path' = [path EXCEPT ![t] = Null]
    /\ fd' = [fd EXCEPT ![t] = Null]
    /\ data' = [data EXCEPT ![t] = Null]

\* free(node); what a freed node holds is of no use to who respects NodesOwned.
Freed(n) ==
    /\ nodes' = nodes \ {n}
    /\ internal_id' = [internal_id EXCEPT ![n] = Driver]

\* A descriptor is found for p; with none left the open fails and changes nothing.
OpenPick(t, p) ==
    /\ At(t, "idle") /\ FreeFds # {}
    /\ Goto(t, "openNode")
    /\ path' = [path EXCEPT ![t] = p]
    /\ fd' = [fd EXCEPT ![t] = Lowest(FreeFds)]
    /\ UNCHANGED <<ramfs, fd_table, nodes, internal_id, pipes, booting, data>>

OpenNode(t) ==
    /\ At(t, "openNode")
    /\ \E n \in Nodes \ nodes :
        /\ nodes' = nodes \cup {n}
        /\ data' = [data EXCEPT ![t] = n]
    /\ Goto(t, "openFind")
    /\ UNCHANGED <<ramfs, fd_table, internal_id, pipes, booting, path, fd>>

OpenNoMemory(t) ==
    /\ At(t, "openNode") /\ Nodes \subseteq nodes
    /\ Return(t)
    /\ UNCHANGED <<ramfs, fd_table, nodes, internal_id, pipes, booting>>

\* What vfs.c takes for the entry i of file_table.  It declares FileEntry without the
\* ten blocks of filesystem.c, so that entries are half as long: an even one is the
\* start of entry i \div 2, up to the first block, which stands where vfs.c looks for
\* used.  An odd one has numbers of blocks for a name, which no path is.
LooksUsed(i) == file_table[i \div 2].blocks[0] # 0
LooksNamed(i, p) == i % 2 = 0 /\ file_table[i \div 2].name = [start |-> p, whole |-> TRUE]

Matches(p) == {i \in Files : LooksUsed(i) /\ LooksNamed(i, p)}

\* The node becomes that of a device, of the file found, or of one that is created.
OpenFind(t) ==
    LET p == path[t]
        is(i) == internal_id' = [internal_id EXCEPT ![data[t]] = i]
    IN /\ At(t, "openFind")
       /\ \/ p \in DriverPaths /\ is(Driver) /\ UNCHANGED ramfs
          \/ p \in RamPaths /\ Matches(p) # {} /\ is(Lowest(Matches(p))) /\ UNCHANGED ramfs
          \/ /\ p \in RamPaths /\ Matches(p) = {} /\ FreeFiles # {}
             /\ is(Lowest(FreeFiles))
             /\ file_table' = [file_table EXCEPT ![Lowest(FreeFiles)] = Created(p)]
             /\ UNCHANGED bitmap
       /\ Goto(t, "openFill")
       /\ UNCHANGED <<fd_table, nodes, pipes, booting, locals>>

Unknown(p) == p \in MissingPaths \/ (p \in RamPaths /\ Matches(p) = {} /\ FreeFiles = {})

\* Mutant: the node is not given back.
OpenUnknownKeepsNode(t) ==
    /\ At(t, "openFind") /\ Unknown(path[t])
    /\ Return(t)
    /\ UNCHANGED <<ramfs, fd_table, nodes, internal_id, pipes, booting>>

OpenUnknown(t) ==
    /\ At(t, "openFind") /\ Unknown(path[t])
    /\ Freed(data[t])
    /\ Return(t)
    /\ UNCHANGED <<ramfs, fd_table, pipes, booting>>

OpenFill(t) ==
    /\ At(t, "openFill")
    /\ fd_table' = [fd_table EXCEPT ![fd[t]] = [type |-> "VFS_FILE", data |-> data[t]]]
    /\ Return(t)
    /\ UNCHANGED <<ramfs, nodes, internal_id, pipes, booting>>
-----------------------------------------------------------------------------
(* vfs_read and vfs_write of a file, and vfs_close.                         *)

\* The node is read from the table, for either.
TransferTake(t, f) ==
    /\ At(t, "idle") /\ fd_table[f].type = "VFS_FILE"
    /\ data' = [data EXCEPT ![t] = fd_table[f].data]
    /\ Goto(t, "transfer")
    /\ UNCHANGED <<ramfs, fd_table, nodes, internal_id, pipes, booting, path, fd>>

\* node->read or node->write; only a write to ramfs changes anything here.
Transfer(t) ==
    LET i == internal_id[data[t]] IN
    /\ At(t, "transfer")
    /\ \/ UNCHANGED ramfs
       \/ i # Driver /\ \E n \in Sizes : FsWrite(i, file_table[i], n)
    /\ Return(t)
    /\ UNCHANGED <<fd_table, nodes, internal_id, pipes, booting>>

\* What a close of one of its ends makes of a pipe.
Released(type, pipe) ==
    LET readers == IF type = "PIPE_READ" /\ pipe.readers > 0 THEN pipe.readers - 1
                   ELSE pipe.readers
        writers == IF type = "PIPE_WRITE" /\ pipe.writers > 0 THEN pipe.writers - 1
                   ELSE pipe.writers
    IN [used |-> pipe.used /\ (readers # 0 \/ writers # 0),
        readers |-> readers, writers |-> writers]

\* What the descriptor stands for is given up ...
CloseRelease(t, f) ==
    LET old == fd_table[f] IN
    /\ At(t, "idle") /\ old.type # "EMPTY"
    /\ IF old.type = "VFS_FILE"
       THEN Freed(old.data) /\ UNCHANGED pipes
       ELSE /\ pipes' = [pipes EXCEPT ![old.data] = Released(old.type, @)]
            /\ UNCHANGED <<nodes, internal_id>>
    /\ fd' = [fd EXCEPT ![t] = f]
    /\ Goto(t, "closeClear")
    /\ UNCHANGED <<ramfs, fd_table, booting, path, data>>

\* ... and then the descriptor.
CloseClear(t) ==
    /\ At(t, "closeClear")
    /\ fd_table' = [fd_table EXCEPT ![fd[t]] = Empty]
    /\ Return(t)
    /\ UNCHANGED <<ramfs, nodes, internal_id, pipes, booting>>
-----------------------------------------------------------------------------
(* vfs_pipe.                                                               *)

FreePipes == {p \in Pipes : ~pipes[p].used}

\* Mutant: counts the ends on from what the last pipe in this place left behind.
PipeTakeCountsOn(t) ==
    LET p == Lowest(FreePipes) IN
    /\ At(t, "idle") /\ FreePipes # {}
    /\ pipes' = [pipes EXCEPT ![p] =
                    [used |-> TRUE, readers |-> @.readers + 1, writers |-> @.writers + 1]]
    /\ data' = [data EXCEPT ![t] = p]
    /\ Goto(t, "pipeReadEnd")
    /\ UNCHANGED <<ramfs, fd_table, nodes, internal_id, booting, path, fd>>

PipeTake(t) ==
    /\ At(t, "idle") /\ FreePipes # {}
    /\ pipes' = [pipes EXCEPT ![Lowest(FreePipes)] =
                    [used |-> TRUE, readers |-> 1, writers |-> 1]]
    /\ data' = [data EXCEPT ![t] = Lowest(FreePipes)]
    /\ Goto(t, "pipeReadEnd")
    /\ UNCHANGED <<ramfs, fd_table, nodes, internal_id, booting, path, fd>>

\* allocate_fd(FT_PIPE_READ, pipe), with a descriptor left.
PipeReadEnd(t) ==
    /\ At(t, "pipeReadEnd") /\ FreeFds # {}
    /\ fd_table' = Allocated("PIPE_READ", data[t])
    /\ fd' = [fd EXCEPT ![t] = Lowest(FreeFds)]
    /\ Goto(t, "pipeWriteEnd")
    /\ UNCHANGED <<ramfs, nodes, internal_id, pipes, booting, path, data>>

PipeWriteEnd(t) ==
    /\ At(t, "pipeWriteEnd") /\ FreeFds # {}
    /\ fd_table' = Allocated("PIPE_WRITE", data[t])
    /\ Return(t)
    /\ UNCHANGED <<ramfs, nodes, internal_id, pipes, booting>>

\* Mutant: the read end that the pipe got is not given back.
PipeFailKeepsReadEnd(t) ==
    /\ At(t, "pipeReadEnd") \/ At(t, "pipeWriteEnd")
    /\ FreeFds = {}
    /\ pipes' = [pipes EXCEPT ![data[t]].used = FALSE]
    /\ Return(t)
    /\ UNCHANGED <<ramfs, fd_table, nodes, internal_id, booting>>

\* No descriptor for one of the ends.
PipeFail(t) ==
    /\ At(t, "pipeReadEnd") \/ At(t, "pipeWriteEnd")
    /\ FreeFds = {}
    /\ fd_table' = IF pc[t] = "pipeWriteEnd"
                   THEN [fd_table EXCEPT ![fd[t]].type = "EMPTY"] ELSE fd_table
    /\ pipes' = [pipes EXCEPT ![data[t]].used = FALSE]
    /\ Return(t)
    /\ UNCHANGED <<ramfs, nodes, internal_id, booting>>
-----------------------------------------------------------------------------
Open(t) ==
    \/ \E p \in RamPaths \cup DriverPaths \cup MissingPaths : OpenPick(t, p)
    \/ OpenNode(t) \/ OpenNoMemory(t) \/ OpenFind(t) \/ OpenUnknown(t) \/ OpenFill(t)

Close(t) == (\E f \in Fds : CloseRelease(t, f)) \/ CloseClear(t)

Pipe(t) == PipeTake(t) \/ PipeReadEnd(t) \/ PipeWriteEnd(t) \/ PipeFail(t)

Next ==
    \/ \E p \in RamPaths, n \in Sizes \ {0} : Register(p, n)
    \/ BootDone
    \/ \E t \in Tasks :
        Open(t) \/ Close(t) \/ Pipe(t) \/ Transfer(t) \/ \E f \in Fds : TransferTake(t, f)

Spec == Init /\ [][Next]_vars
-----------------------------------------------------------------------------
(* Properties.                                                             *)

Names == {NameOf(p) : p \in RamPaths} \cup {Null}
Entries == [name : Names, size : Nat, blocks : [Slots -> Blocks \cup {-1}], used : BOOLEAN]

\* Every variable has its type.
TypeOK ==
    /\ file_table \in [Files -> Entries]
    /\ bitmap \subseteq Blocks
    /\ fd_table \in [Fds -> [type : {"EMPTY", "VFS_FILE", "PIPE_READ", "PIPE_WRITE"},
                             data : Nodes \cup Pipes \cup {Null}]]
    /\ nodes \subseteq Nodes
    /\ internal_id \in [Nodes -> Files \cup {Driver}]
    /\ pipes \in [Pipes -> [used : BOOLEAN, readers : 0 .. 1, writers : 0 .. 1]]
    /\ booting \in BOOLEAN
    /\ pc \in [Tasks -> Points]
    /\ fd \in [Tasks -> Fds \cup {Null}]
    /\ data \in [Tasks -> Nodes \cup Pipes \cup {Null}]

Idle == \A t \in Tasks : pc[t] = "idle"

Of(type) == {f \in Fds : fd_table[f].type = type}

\* Between calls the nodes on the heap are those of the open files, one each: no
\* error of vfs_open leaves one behind, no close frees one that is still open or
\* frees one twice.  And no call goes on with a node that was freed (vfs.c:234-296, 306,
\* 318, 341).
NodesOwned ==
    /\ Idle => /\ nodes = {fd_table[f].data : f \in Of("VFS_FILE")}
               /\ \A f, g \in Of("VFS_FILE") : fd_table[f].data = fd_table[g].data => f = g
    /\ \A t \in Tasks : pc[t] \in {"openFind", "openFill", "transfer"} => data[t] \in nodes

\* Between calls a pipe is in use exactly as long as one of its ends is open, and
\* knows which: whichever end closes first, and whether or not vfs_pipe found
\* descriptors for both (vfs.c:329-331, 363-366).
PipesCounted ==
    Idle => \A p \in Pipes :
        LET ends(type) == Cardinality({f \in Of(type) : fd_table[f].data = p}) IN
        /\ pipes[p].used <=> ends("PIPE_READ") + ends("PIPE_WRITE") > 0
        /\ pipes[p].used => /\ pipes[p].readers = ends("PIPE_READ")
                            /\ pipes[p].writers = ends("PIPE_WRITE")

\* Every block in use belongs to one file, once, and every file's blocks come before
\* its gaps and hold its size: also after writes that ran out of blocks, and whatever
\* file a descriptor was led to (filesystem.c:31-39, 75-91).
BlocksOwned ==
    LET made == {i \in Files : file_table[i].used}
        at == {x \in made \X Slots : file_table[x[1]].blocks[x[2]] # -1}
        blockAt(x) == file_table[x[1]].blocks[x[2]]
    IN /\ bitmap = {blockAt(x) : x \in at}
       /\ \A x, y \in at : blockAt(x) = blockAt(y) => x = y
       /\ \A i \in made :
            LET has == {j \in Slots : <<i, j>> \in at}
            IN /\ has = 0 .. Cardinality(has) - 1
               /\ file_table[i].size <= Cardinality(has) * BLOCK_SIZE

\* An open of a path leads to the first file that was made under it, also one that
\* unpack_initramfs registered (main.c:110, vfs.c:268-274).
OpenFindsFile ==
    [][\A t \in Tasks :
        pc[t] = "openFind" /\ pc'[t] = "openFill" /\ path[t] \in RamPaths =>
            internal_id'[data[t]] =
                Lowest({i \in Files : file_table'[i].name = NameOf(path[t])})]_vars
==============================================================================
