--------------------------------- MODULE Boot ---------------------------------
(***************************************************************************)
(* From the boot loader to the program init: unpack_initramfs walks every  *)
(* archive that the boot loader placed (main.c), elf_load_binary copies    *)
(* the segments of init to their addresses (elf.c), and execve does that   *)
(* again over the running program (task.c).                                *)
(*                                                                         *)
(* Memory is a function on the addresses in use.  An address holds a byte, *)
(* or at the start of a header all of it that the code looks at.  Numbers  *)
(* in hexadecimal, what is printed, and the framebuffer are left out; no   *)
(* name is longer than the 31 characters that fs_create keeps.             *)
(***************************************************************************)
EXTENDS Programs, SequencesExt

CONSTANTS
    Archives,           \* what can be placed: sequences of [start, entries]
    HEADER,             \* 110, the length of a cpio header
    MAX_FILES, FILE_MAX,    \* how many files ramfs has, and how long one can be
    InitName, TrailerName, DotNames,
    Nul, Scratch        \* a zero, and what a program writes

BadBuildHabits == { "image over archive" }    \* init is linked to where an archive lies
                                              \* (src/Makefile:77)

Entries == UNION {{m.entries[i] : i \in DOMAIN m.entries} : m \in UNION {Range(a) : a \in Archives}}

VARIABLES
    modules,            \* the archives, in the order of their tags
    ram,
    stage,              \* where kernel_main, or execve, is
    tag, ptr,           \* the archive that is unpacked, and how far
    segment,            \* the program header that is next
    registered,         \* the files that were made in ramfs
    init_elf_start, init_elf_size

boot == <<modules, ram, stage, tag, ptr, segment, registered, init_elf_start, init_elf_size>>
-----------------------------------------------------------------------------
(* What the archiver and the boot loader make: each header with its name,   *)
(* and each file, is filled up to a multiple of 4.                          *)

Filled(n) == n + ((-n) % 4)

Header(e) == [name |-> e.name, namesize |-> e.namesize, filesize |-> Len(e.data)]

CellsOf(e) ==
    LET head == Filled(HEADER + e.namesize)
        total == head + Filled(Len(e.data))
    IN [i \in 1 .. total |->
            IF i = 1 THEN Header(e)
            ELSE IF i > head /\ i <= head + Len(e.data) THEN e.data[i - head]
            ELSE Nul]

Trailer == [name |-> TrailerName, namesize |-> 1, data |-> <<>>]

Archive(m) == FlattenSeq([i \in 1 .. Len(m.entries) + 1 |->
                            CellsOf(IF i > Len(m.entries) THEN Trailer ELSE m.entries[i])])

EndOf(m) == m.start + Len(Archive(m))

\* The addresses that a segment, and all segments of an ELF file, have in memory.
PlaceOf(s) == s.vaddr .. s.vaddr + s.memsz - 1
Image(elf) == UNION {PlaceOf(s) : s \in Range(elf[1].segments)}

\* A linker's program: its segments lie in the file, and apart from each other in memory.
IsLinked(elf) ==
    LET segments == elf[1].segments IN
    /\ segments \in Seq([vaddr : Nat, offset : Nat, filesz : Nat, memsz : Nat])
    /\ \A s \in Range(segments) : s.filesz <= s.memsz /\ s.offset + s.filesz <= Len(elf)
    /\ \A i, j \in DOMAIN segments :
            i # j => PlaceOf(segments[i]) \cap PlaceOf(segments[j]) = {}

ASSUME BootAssumption ==
    /\ HEADER \in Nat \ {0} /\ MAX_FILES \in Nat /\ FILE_MAX \in Nat
    /\ InitName \notin DotNames \cup {TrailerName}
    /\ \A e \in Entries :
        /\ DOMAIN e = {"name", "namesize", "data"}
        /\ e.namesize \in Nat \ {0} /\ e.name # TrailerName
        /\ e.data \in Seq(Range(e.data))
        /\ e.name = InitName /\ e.data # <<>> => IsLinked(e.data)
    /\ \A ms \in Archives :
        /\ ms \in Seq([start : Nat, entries : Seq(Entries)])
        /\ \A i, j \in DOMAIN ms :
            i < j => EndOf(ms[i]) <= ms[j].start \/ EndOf(ms[j]) <= ms[i].start

Placed(ms) ==
    [x \in UNION {m.start .. EndOf(m) - 1 : m \in Range(ms)} |->
        LET m == CHOOSE m \in Range(ms) : x \in m.start .. EndOf(m) - 1
        IN Archive(m)[x - m.start + 1]]

InTheWay(ms) ==
    \E m \in Range(ms) : \E i \in DOMAIN m.entries :
        /\ m.entries[i].name = InitName /\ m.entries[i].data # <<>>
        /\ Image(m.entries[i].data) \cap DOMAIN Placed(ms) # {}

BootInit(ms) ==
    /\ OnlyIf("image over archive", InTheWay(ms))
    /\ modules = ms
    /\ ram = Placed(ms)
    /\ stage = "tags" /\ tag = 0 /\ ptr = 0 /\ segment = 0
    /\ registered = <<>>
    /\ init_elf_start = 0 /\ init_elf_size = 0
-----------------------------------------------------------------------------
(* kernel_main and unpack_initramfs                                         *)

\* A tag of type 3: its archive is unpacked.
ModuleTag ==
    /\ stage = "tags" /\ tag < Len(modules)
    /\ tag' = tag + 1
    /\ ptr' = modules[tag'].start
    /\ stage' = "unpack"
    /\ UNCHANGED <<modules, ram, segment, registered, init_elf_start, init_elf_size>>

Headers == {Header(e) : e \in Entries \cup {Trailer}}

\* Whether there is a header at ptr, before the end, and it is not the last.
Another ==
    /\ ptr < EndOf(modules[tag]) /\ ram[ptr] \in Headers
    /\ ram[ptr].name # TrailerName

\* (x + 3) & ~3
Aligned4(x) == ((x + 3) \div 4) * 4

\* Mutant: the header and the name are filled up each for itself.
FileDataByParts == ptr + Aligned4(HEADER) + Aligned4(ram[ptr].namesize)

FileData == ptr + Aligned4(HEADER + ram[ptr].namesize)

\* One round of the loop.  What is longer than FILE_MAX fs_write cuts off; there are
\* blocks for MAX_FILES files of that length.
Unpack ==
    LET header == ram[ptr]
        Copied(n) == [i \in 1 .. n |-> ram[FileData + i - 1]]
    IN /\ stage = "unpack" /\ Another
       /\ registered' =
            IF /\ header.filesize > 0 /\ header.name \notin DotNames
               /\ Len(registered) < MAX_FILES
            THEN Append(registered, [name |-> header.name,
                                     data |-> Copied(Min({header.filesize, FILE_MAX}))])
            ELSE registered
       /\ IF header.name = InitName
          THEN init_elf_start' = FileData /\ init_elf_size' = header.filesize
          ELSE UNCHANGED <<init_elf_start, init_elf_size>>
       /\ ptr' = FileData + Aligned4(header.filesize)
       /\ UNCHANGED <<modules, ram, stage, tag, segment>>

UnpackEnds ==
    /\ stage = "unpack" /\ ~Another
    /\ stage' = "tags"
    /\ UNCHANGED <<modules, ram, tag, ptr, segment, registered, init_elf_start, init_elf_size>>

\* What elf_load_binary asks of what it is given.
IsElf(x) == x \in {e.data[1] : e \in {e \in Entries : e.name = InitName /\ e.data # <<>>}}

\* The last tag: without an init, or if it is no program, the kernel halts.
TagsEnd ==
    /\ stage = "tags" /\ tag = Len(modules)
    /\ stage' = IF init_elf_start # 0 /\ init_elf_size # 0 /\ IsElf(ram[init_elf_start])
                THEN "load" ELSE "halted"
    /\ UNCHANGED <<modules, ram, tag, ptr, segment, registered, init_elf_start, init_elf_size>>

\* for (;;) hlt
Halt ==
    /\ stage = "halted"
    /\ UNCHANGED boot
-----------------------------------------------------------------------------
(* elf_load_binary and task_execve                                          *)

\* Of a header that a segment was copied over nothing can be said; here the loop ends.
ProgramHeaders == IF IsElf(ram[init_elf_start]) THEN ram[init_elf_start].segments ELSE <<>>

\* ram once the segment s is copied, and what it has more in memory is cleared.
Loaded(s) ==
    [x \in DOMAIN ram \cup PlaceOf(s) |->
        IF x \in s.vaddr .. s.vaddr + s.filesz - 1
        THEN ram[init_elf_start + s.offset + (x - s.vaddr)]
        ELSE IF x \in s.vaddr + s.filesz .. s.vaddr + s.memsz - 1 THEN Nul
        ELSE ram[x]]

LoadSegment ==
    /\ stage = "load" /\ segment < Len(ProgramHeaders)
    /\ segment' = segment + 1
    /\ ram' = Loaded(ProgramHeaders[segment'])
    /\ UNCHANGED <<modules, stage, tag, ptr, registered, init_elf_start, init_elf_size>>

LoadEnds ==
    /\ stage = "load" /\ segment >= Len(ProgramHeaders)
    /\ stage' = "started"
    /\ segment' = 0
    /\ UNCHANGED <<modules, ram, tag, ptr, registered, init_elf_start, init_elf_size>>

\* The program writes to its memory.
Run ==
    /\ stage \in {"started", "running"}
    /\ stage' = "running"
    /\ \E x \in DOMAIN ram \ DOMAIN Placed(modules) : ram' = [ram EXCEPT ![x] = Scratch]
    /\ UNCHANGED <<modules, tag, ptr, segment, registered, init_elf_start, init_elf_size>>

\* A reload that finds no program returns to the old one.
Execve ==
    /\ stage = "running"
    /\ stage' = IF IsElf(ram[init_elf_start]) THEN "load" ELSE "running"
    /\ UNCHANGED <<modules, ram, tag, ptr, segment, registered, init_elf_start, init_elf_size>>

BootNext ==
    \/ ModuleTag \/ Unpack \/ UnpackEnds \/ TagsEnd \/ Halt \/ LoadSegment \/ LoadEnds
    \/ Run \/ Execve
-----------------------------------------------------------------------------
(* Properties.                                                             *)

BootTypeOK ==
    /\ stage \in {"tags", "unpack", "load", "started", "running", "halted"}
    /\ tag \in 0 .. Len(modules) /\ ptr \in Nat /\ segment \in Nat
    /\ Len(registered) <= MAX_FILES
    /\ init_elf_start \in Nat /\ init_elf_size \in Nat

\* All files of all archives, in their order.
AllEntries == FlattenSeq([i \in DOMAIN modules |-> modules[i].entries])

\* Of entries, in their order, those that are an init, and those that become files.
Inits(es) ==
    FlattenSeq([i \in DOMAIN es |-> IF es[i].name = InitName THEN <<es[i]>> ELSE <<>>])

FilesOf(es) ==
    FlattenSeq([i \in DOMAIN es |->
        IF es[i].data # <<>> /\ es[i].name \notin DotNames THEN <<es[i]>> ELSE <<>>])

\* The program that starts, at boot and after every execve, is the last init of the
\* archives, unchanged, with the rest of its memory cleared; and the kernel halts only if
\* there is none.  By then ramfs has the files of the archives, in order, each under its
\* name, as far as there is room (main.c:71-125, 268-284, elf.c:48-77, task.c:172).
InitStarts ==
    LET inits == Inits(AllEntries)
        elf == inits[Len(inits)].data
        files == FilesOf(AllEntries)
    IN /\ stage = "halted" => inits = <<>> \/ elf = <<>>
       /\ stage = "started" =>
            /\ \A s \in Range(elf[1].segments) : \A i \in 0 .. s.memsz - 1 :
                    ram[s.vaddr + i] = IF i < s.filesz THEN elf[s.offset + i + 1] ELSE Nul
            /\ registered = [i \in 1 .. Min({Len(files), MAX_FILES}) |->
                    [name |-> files[i].name,
                     data |-> SubSeq(files[i].data, 1, Min({Len(files[i].data), FILE_MAX}))]]
==============================================================================
