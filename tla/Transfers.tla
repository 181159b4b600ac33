------------------------------ MODULE Transfers ------------------------------
(***************************************************************************)
(* Bytes to and from open files: vfs_read, vfs_write and the offset of a   *)
(* descriptor (fs/vfs.c), llseek and writev (syscall.c), over the files of *)
(* ramfs (fs/filesystem.c) and the texts of procfs (fs/procfs.c).  A call  *)
(* is one action.  How an open finds its file and which blocks are whose   *)
(* is in Files; here a file has the bytes of its blocks, one after another,*)
(* and a node is the size it has noted.                                    *)
(*                                                                         *)
(* ramfs looks at no offset, and at a file's size only to report it.  The  *)
(* habits of programs that meet this are BadFileHabits.                    *)
(***************************************************************************)
EXTENDS Programs, Descriptors, SequencesExt, FiniteSets

CONSTANTS
    RamFiles, ProcFiles,
    Text,           \* of each file of procfs, what a read makes
    NodeSize,       \* and the size that an open notes
    BLOCK_SIZE, MAX_BLOCKS_PER_FILE, TOTAL_BLOCKS,
    OFFSETS,        \* 2^32
    Values, Zero,   \* the bytes that programs write, and that of a new block
    Beyond,         \* what lies in memory behind a text
    Counts,         \* how much reads and writes ask for
    Moves,          \* how far a seek goes
    MAX_OPEN        \* how many files are open at a time

BadFileHabits == {
    "read on",              \* read a ramfs file from another place than its start
    "read beyond",          \* read more of a ramfs file than it holds
    "write on",             \* write a ramfs file elsewhere, or in two pieces
    "write less",           \* write less to a ramfs file than it holds
    "fill the blocks",      \* write more than the blocks left can take
    "end elsewhere",        \* seek to the end when the file's size is not the node's
    "seek out",             \* seek to before the start or beyond the last offset
    "read to the top" }     \* read so much that offset and count exceed 32 bits

Strings == {[i \in 1 .. n |-> v] : n \in Counts \ {0}, v \in Values}

ASSUME TransfersAssumption ==
    /\ RamFiles \cap ProcFiles = {} /\ Null \notin RamFiles \cup ProcFiles
    /\ DOMAIN Text = ProcFiles /\ \A p \in ProcFiles : Text[p] \in Seq(Range(Text[p]))
    /\ NodeSize \in [ProcFiles -> Nat]
    /\ {BLOCK_SIZE, MAX_BLOCKS_PER_FILE, OFFSETS} \subseteq Nat \ {0}
    /\ TOTAL_BLOCKS \in Nat /\ MAX_OPEN \in Nat
    /\ Counts \subseteq 0 .. OFFSETS - 1 /\ Moves \subseteq Int

VARIABLES
    held,           \* of each file of ramfs, the bytes in its blocks
    size,           \* and its FileEntry's size
    free_blocks,
    offset,         \* of each descriptor
    node_size,      \* of each descriptor, its node's size
    got             \* what the last call read

transfers == <<held, size, free_blocks, offset, node_size, got>>

TransfersInit ==
    /\ held = [p \in RamFiles |-> <<>>]
    /\ size = [p \in RamFiles |-> 0]
    /\ free_blocks = TOTAL_BLOCKS
    /\ offset = [f \in Fds |-> 0]
    /\ node_size = [f \in Fds |-> 0]
    /\ got = <<>>
-----------------------------------------------------------------------------
FileFds == {f \in Fds : fd_table[f].type = "VFS_FILE"}
FileOf(f) == fd_table[f].data

FileOpen(p) ==
    LET f == Lowest(FreeFds) IN
    /\ FreeFds # {}
    /\ fd_table' = Allocated("VFS_FILE", p)
    /\ offset' = [offset EXCEPT ![f] = 0]
    /\ node_size' = [node_size EXCEPT ![f] = IF p \in ProcFiles THEN NodeSize[p] ELSE size[p]]
    /\ got' = <<>>
    /\ UNCHANGED <<held, size, free_blocks>>

FileClose(f) ==
    /\ fd_table' = [fd_table EXCEPT ![f] = Empty]
    /\ offset' = [offset EXCEPT ![f] = 0]
    /\ node_size' = [node_size EXCEPT ![f] = 0]
    /\ got' = <<>>
    /\ UNCHANGED <<held, size, free_blocks>>

\* Mutant: one byte too many at the end.
ProcReadOneMore(text, from, n) ==
    LET end == IF (from + n) % OFFSETS > Len(text) + 1 THEN Len(text) + 1 ELSE from + n
    IN IF from >= Len(text) THEN <<>>
       ELSE [i \in 1 .. end - from |-> IF from + i \in DOMAIN text THEN text[from + i] ELSE Beyond]

\* procfs_version_read, procfs_meminfo_read
ProcRead(text, from, n) ==
    LET end == IF (from + n) % OFFSETS > Len(text) THEN Len(text) ELSE from + n
    IN IF from >= Len(text) THEN <<>>
       ELSE [i \in 1 .. end - from |-> IF from + i \in DOMAIN text THEN text[from + i] ELSE Beyond]

\* fs_read: from the start, to the end of the last block.
RamRead(p, n) == SubSeq(held[p], 1, Min({n, Len(held[p])}))

BytesRead(f, n) ==
    IF FileOf(f) \in ProcFiles THEN ProcRead(Text[FileOf(f)], offset[f], n)
    ELSE RamRead(FileOf(f), n)

\* vfs_read
FileRead(f, n) ==
    /\ got' = BytesRead(f, n)
    /\ offset' = [offset EXCEPT ![f] = (@ + Len(got')) % OFFSETS]
    /\ UNCHANGED <<fd_table, held, size, free_blocks, node_size>>

\* A file of ramfs, with the free blocks, after fs_write of s.
FsWritten(file, s) ==
    LET most == Min({Len(s), MAX_BLOCKS_PER_FILE * BLOCK_SIZE})
        has == Len(file.held) \div BLOCK_SIZE
        needs == Max({has, (most + BLOCK_SIZE - 1) \div BLOCK_SIZE})
        gets == Min({needs, has + file.free})
        written == IF gets < needs THEN gets * BLOCK_SIZE ELSE most
        Byte(i) == IF i <= written THEN s[i]
                   ELSE IF i <= Len(file.held) THEN file.held[i] ELSE Zero
    IN [held |-> [i \in 1 .. gets * BLOCK_SIZE |-> Byte(i)],
        size |-> IF gets < needs THEN file.size ELSE written,
        free |-> file.free - (gets - has),
        written |-> file.written + written]

\* The file of the descriptor f after writes of pieces to it.
AfterWrites(f, pieces) ==
    LET after[k \in 0 .. Len(pieces)] ==
            IF k = 0
            THEN [held |-> held[FileOf(f)], size |-> size[FileOf(f)],
                  free |-> free_blocks, written |-> 0]
            ELSE FsWritten(after[k - 1], pieces[k])
    IN after[Len(pieces)]

\* vfs_write of one piece, or of several in turn by writev; procfs cannot be written.
FileWrite(f, pieces) ==
    LET p == FileOf(f)
        after == AfterWrites(f, pieces)
    IN /\ p \in RamFiles
       /\ held' = [held EXCEPT ![p] = after.held]
       /\ size' = [size EXCEPT ![p] = after.size]
       /\ free_blocks' = after.free
       /\ node_size' = [node_size EXCEPT ![f] = after.size]
       /\ offset' = [offset EXCEPT ![f] = (@ + after.written) % OFFSETS]
       /\ got' = <<>>
       /\ UNCHANGED fd_table

Whences == {"SEEK_SET", "SEEK_CUR", "SEEK_END"}

\* Where a seek counts from.
Base(f, whence) ==
    CASE whence = "SEEK_SET" -> 0
      [] whence = "SEEK_CUR" -> offset[f]
      [] whence = "SEEK_END" -> node_size[f]

\* llseek keeps the low 32 bits of what it is given.
FileSeek(f, whence, n) ==
    /\ offset' = [offset EXCEPT ![f] = (Base(f, whence) + n) % OFFSETS]
    /\ got' = <<>>
    /\ UNCHANGED <<fd_table, held, size, free_blocks, node_size>>
-----------------------------------------------------------------------------
(* The programs, with the habits they have.                                *)

Content(p) == IF p \in ProcFiles THEN Text[p] ELSE SubSeq(held[p], 1, size[p])

ReadCalls(f, n) ==
    LET ram == FileOf(f) \in RamFiles IN
    /\ OnlyIf("read on", ram /\ offset[f] # 0)
    /\ OnlyIf("read beyond", ram /\ Min({n, Len(held[FileOf(f)])}) > size[FileOf(f)])
    /\ OnlyIf("read to the top", ~ram /\ offset[f] + n >= OFFSETS)
    /\ FileRead(f, n)

WriteCalls(f, pieces) ==
    LET after == AfterWrites(f, pieces) IN
    /\ FileOf(f) \in RamFiles
    /\ OnlyIf("write on", offset[f] # 0 \/ Len(pieces) > 1)
    /\ OnlyIf("write less", \E i \in DOMAIN pieces : Len(pieces[i]) < size[FileOf(f)])
    /\ OnlyIf("fill the blocks", after.written > after.size)
    /\ FileWrite(f, pieces)

SeekCalls(f, whence, n) ==
    /\ OnlyIf("end elsewhere",
              whence = "SEEK_END" /\ node_size[f] # Len(Content(FileOf(f))))
    /\ OnlyIf("seek out", Base(f, whence) + n \notin 0 .. OFFSETS - 1)
    /\ FileSeek(f, whence, n)

TransfersNext ==
    \/ /\ Cardinality(FileFds) < MAX_OPEN
       /\ \E p \in RamFiles \cup ProcFiles : FileOpen(p)
    \/ \E f \in FileFds :
        \/ FileClose(f)
        \/ \E n \in Counts : ReadCalls(f, n)
        \/ \E s \in Strings \cup {<<>>} : WriteCalls(f, <<s>>)
        \/ \E s, t \in Strings : WriteCalls(f, <<s, t>>)
        \/ \E whence \in Whences, n \in Moves : SeekCalls(f, whence, n)
-----------------------------------------------------------------------------
(* Properties.                                                             *)

TransfersTypeOK ==
    /\ held \in [RamFiles -> Seq(Values \cup {Zero})]
    /\ size \in [RamFiles -> 0 .. MAX_BLOCKS_PER_FILE * BLOCK_SIZE]
    /\ free_blocks \in 0 .. TOTAL_BLOCKS
    /\ offset \in [Fds -> 0 .. OFFSETS - 1]
    /\ node_size \in [Fds -> Nat]

Plain == INSTANCE ByteFiles WITH
    Handles <- Fds, Names <- RamFiles \cup ProcFiles,
    Strings <- UNION {{SubSeq(s, 1, n) : n \in 0 .. Len(s)} : s \in Strings \cup {<<>>}},
    Initial <- [p \in RamFiles \cup ProcFiles |->
                    IF p \in ProcFiles THEN Text[p] ELSE <<>>],
    content <- [p \in RamFiles \cup ProcFiles |-> Content(p)],
    opened <- [f \in FileFds |-> [name |-> FileOf(f), position |-> offset[f]]]

\* What was written to a file is what a read of it returns, through whichever descriptor,
\* and every read or seek goes on from where the last call through its descriptor ended
\* (vfs.c:299-323, filesystem.c:75-104, procfs.c:14-45, syscall.c:309-317).
FilesKept == Plain!Spec
==============================================================================
