# A specification of the Masix kernel

MazukiOS is a small i686 kernel (`src/sys/kernel`) with a shell (`src/world/shell.c`). The
kernel schedules tasks preemptively from the timer interrupt, copies a task on `fork`, and
offers files, pipes, AF_UNIX sockets and a loopback of AF_INET datagrams through one table
of descriptors. This directory holds TLA+ modules of its parts, the configurations TLC
checks them with, and theorems that TLAPS proves about them.

Paths below are relative to `src/sys/kernel` unless they start with `src/`.

One fact shapes every concurrent model here. The entry point of a syscall turns interrupts
on (`sti`, `syscall.c:346`) and keeps them on until just before it returns. The timer
interrupt switches tasks whatever it interrupted. So every function a syscall calls may be
cut between any two instructions, another task may run a syscall of its own there, and
nothing in the kernel takes a lock. The kernel is compiled with `-O0` (`src/Makefile:21`): a
variable is loaded and stored where the C code says so, and `x++` on memory may be cut in
two.

## Inventory

| component | state | operations | talks to |
|---|---|---|---|
| heap, `alloc.c` | the array, `is_initialized`, a list of blocks behind headers | `alloc`, `alloc_free` | everything that calls `malloc` / `free` |
| tasks and preemption, `task.c`, `drivers/pit.c` | the ring of `task_t`, `task_list_head`, `current_task`, `next_pid`, the TSS, two stacks per task | the tick, `task_fork`, `task_destroy`; `task_execve`; `task_init` and `task_create` at boot; `sleep`, which nothing calls | heap; entered from syscalls and from IRQ 0 |
| syscall entry, `syscall.c` | `current_process_brk`, one for all tasks | the dispatch on the number; brk, mmap2, munmap, writev, llseek | tasks, keyboard, descriptors |
| keyboard and standard input, `drivers/keyboard.c`, `api.c` | the ring of characters, the shift flag | IRQ 1, `keyboard_getc`, the line editing of `k_sys_read(0)` | TTY for the echo |
| descriptors and `vfs_open`, `fs/vfs.c` | `fd_table`, the list of mounts | open, read, write, close | heap, ramfs, procfs, devtmpfs, pipes, sockets |
| pipes, `fs/vfs.c` | 8 rings of 4096 bytes, counts of readers and writers | `vfs_pipe`, `pipe_read`, `pipe_write`, close | descriptors |
| AF_UNIX sockets, `fs/vfs.c` | 8 slots: ring, peer, pending connection, path | socket, bind, listen, connect, accept, send, recv, close | descriptors |
| AF_INET loopback, `fs/vfs.c` | 8 slots: ring of 8 datagrams, own and peer address | socket, bind, connect, send(to), recv(from), close | descriptors |
| ramfs, `fs/filesystem.c` | table of 64 files, pool of blocks | create, read, write; delete, which nothing calls | `vfs_open`, initramfs |
| procfs, devtmpfs | the seed of `dev_random` | text and bytes on read | `vfs_open` |
| TTY, VGA, framebuffer, `tty.c` | cursor, screen, escape-sequence state | put a character, newline, backspace, scroll | standard output, keyboard echo |
| boot, `main.c` | where the ELF file of init lies | the order of initialisation, the cpio walk of each initramfs | all |
| ELF loader, `elf.c` | none | copies segments to fixed addresses | boot, `task_execve` |
| RTL8139, `drivers/rtl8139.c` | receive offset, transmit index | init, send, receive poll | polled by every tick (`drivers/pit.c:24`); sockets do not use it |
| GDT, IDT, PIC, panic | tables written once | | tasks use `write_tss` |
| serial, power, port I/O | none | | |
| kernel libc, `klibc.c` | none | string functions, `itoa` | all |
| shell, `src/world/shell.c` | the line | fork, exit, read, write | the environment of the models |
| build, `src/configure.c`, `src/Makefile` | | | not part of the running system |

What is hard, and what makes each part correct:

- **Heap.** Splitting and merging must keep the list a tiling of the array through any
  sequence of calls. Correct: two live allocations never overlap; NULL only when nothing
  fits; what is freed can be allocated again. Interrupted calls share the list unlocked.
- **Tasks.** A tick between two statements of a fork or an exit; a stack freed while it is
  still in use; a ring edited by two tasks. Correct: every task goes on exactly where it was
  interrupted and on its own stacks, the ring is a round-robin queue, pids are unique, every
  task gets its turn, forks and exits finish.
- **Keyboard and pipes.** Rings with a producer and a consumer that interrupt each other.
  Correct: bounded FIFO queues; a line reads as it was typed, and as it is shown.
- **Sockets.** Indices and descriptors stored in another socket outlive what they name; a
  slot that is used again keeps what is not reset. Correct: bytes reach the peer and nobody
  else, in order; a new socket starts empty; no slot is lost.
- **Descriptors and files.** A slot is chosen long before it is filled; a node is freed
  while another task reads through it; a write fails half way; an offset that one layer
  keeps is ignored by the next. Correct: a descriptor belongs to one open; a read returns
  what was written.
- **Memory.** One break for all tasks, read and written in separate accesses, moved by two
  calls that do not know of each other. Correct: no address is given twice.
- **TTY.** The last column of the last row, and a backspace over the start of a row.
  Correct: the screen shows the line.
- **Boot.** Headers found by arithmetic, a program copied while its source must survive.
  Correct: init is what the archive has, at boot and after every execve.
- **RTL8139.** The device's write position is read with 8 bits of 16.

`PROJECT.json` lists the hazards at their lines, with the properties that cover them.

## Modules

| module | models | role |
|---|---|---|
| `Regions` | what the allocator promises: grant an unheld region, release a held one | abstract |
| `Heap` | `alloc.c`, each loop round or group of assignments a step | implements `Regions` |
| `Heap_proofs` | | theorems about `Heap` |
| `RoundRobin` | what the task list promises: a cyclic order, with joins and leaves | abstract |
| `Tasks` | the tick, the syscall entry, fork and exit, step by step | implements `RoundRobin` |
| `Tasks_proofs` | | theorems about `Tasks` |
| `BoundedFifo` | what a ring promises | abstract |
| `Tty` | a character, a newline and a backspace on either screen | used by `Keyboard` |
| `Keyboard` | IRQ 1, the ring, `keyboard_getc`, `k_sys_read(0)` with its echo | implements `BoundedFifo` |
| `Keyboard_proofs` | | theorems about `Keyboard` and `Tty` |
| `Pipes` | `pipe_write` and `pipe_read` of two tasks, access by access | implements `BoundedFifo` |
| `Pipes_proofs` | | theorems about `Pipes` |
| `Descriptors` | `fd_table` and `allocate_fd` | shared by `Files`, `Transfers` and the sockets |
| `Descriptors_proofs` | | lemmas for `Files_proofs` and `Sockets_proofs` |
| `Files` | `vfs_open`, `vfs_read`, `vfs_write`, `vfs_close`, `vfs_pipe` of several tasks in steps; `fs_create`, `fs_write`; the files of the initramfs | |
| `Files_proofs` | | theorems about `Files` |
| `ByteFiles` | what files promise: a read returns what was written, from where the last call ended | abstract |
| `Transfers` | read, write, writev and llseek on files of ramfs and procfs, a call an action | implements `ByteFiles` |
| `Streams` | what stream sockets promise: links of two ends, each with a queue | abstract |
| `UnixSockets` | the AF_UNIX calls, a call an action | implements `Streams` |
| `InetSockets` | the AF_INET calls on the loopback, a call an action | |
| `Sockets` | both families over one table of descriptors | |
| `Sockets_proofs` | | theorems about `Sockets` |
| `AddressSpace` | brk, mmap2 and munmap of several tasks, access by access | |
| `Boot` | the archives, init's segments, execve | |
| `Programs` | the habits of the programs that call | used by `Transfers`, `UnixSockets`, `InetSockets`, `AddressSpace`, `Boot` |
| `Calls` | the boot, and the calls of sockets, files and memory, over one `fd_table` | composes `Sockets`, `Transfers`, `AddressSpace`, `Boot` |
| `Calls_proofs` | | theorems about `AddressSpace`, `Transfers` and `Boot`, and about `Calls` |
| `MCHeap`, `MCTasks`, `MCKeyboard`, `MCPipes`, `MCFiles`, `MCCalls` | | constants for TLC |

### Heap

The header at word `a` is `size[a]`, `isFree[a]`, `next[a]`. Sizes and addresses count words
of 4 bytes, because `alloc` rounds requests up to a word and the header is three of them.
`pc[c]` says where the call of task `c` is: `scan` and `split` and `take` are the loop and
the body of `alloc`, `merge` the loop of `alloc_free`. Between two steps another caller may
take a step, as a tick allows. `held` is what the callers own; `linked` is a history of
which headers the list threads, so that invariants can speak of "the blocks" without walking
the list. `ListTilesHeap` ties it to the walk.

### Tasks

One CPU executes on one stack, `cpu`. `pc[t]` is the place in the code where the stack of
`t` left off: in user mode, in the idle loop, or before a statement of `task_fork` or
`task_destroy`. `saved[t]` is the frame that `t->esp` points to, with the stack it lies on,
so that a frame stored in the wrong task is visible. `Tick` is `pit_handler_asm` with
`schedule`; it may come wherever `pc[cpu]` is in `TickPoints`. Loading a frame that was
already popped is the end of what the code defines: the machine halts there in the model.
`Init` is the state at the end of `kernel_main`, with the idle task and the shell's.

### Keyboard

The interrupt handler runs with interrupts off and is one action; the read is one action per
access to the ring and one per character edited, echo included. `typed` (what the characters
taken out spell) and `dropped` are histories. One task reads at a time: the shell is the
only program that reads the keyboard, and forks no reader. `Tty` gives what an echoed
character does to the cells and to the cursor. It differs between the two screens:
`vga_raw_putc` moves a cursor of its own on, and scrolls, before `tty.c` does, so a
character in the last cell scrolls twice. `EchoIsLine` says that the screen shows
the line behind its prompt, as far as it has not scrolled away; in VGA text only until the
last cell is written.

### Pipes

One `pipe_t`, a task that writes and a task that reads. Each round of either loop is five
steps: the test, the byte, the position, and the load and the store of `count`. Either task
may close its end, in three steps, and once both ends are closed either may make the pipe
again. `Tick` hands the CPU over. `BoundedFifo` may be emptied only when the last end closes
or a pipe is made. Descriptors, and several pipes, are in `Files`.

### Files

`fd_table`, `file_table` and `pipes` are the arrays of the code; `bitmap` the set of blocks
that `block_bitmap` marks; `nodes` what `malloc` gave `vfs_open`. Several tasks make calls.
A syscall is split into steps where it has found something free and not yet taken it, given
something up and not yet forgotten it, or read a pointer and not yet used it: the descriptor
is picked, the node allocated, the file found or made, the descriptor filled in; a transfer
takes the node and then uses it; a close frees and then clears. `pc` names these points, and
a tick may come where `TickPoints` says. The search and the taking inside `allocate_fd`,
inside the choice of a pipe and inside `allocate_block` are one step: they are windows too,
a few instructions long, and not shown here. `WriteRound` is one round of the loop of
`fs_write`, and `WriteRounds` what the loop has done after some rounds. `LooksUsed` and `LooksNamed` say what `vfs.c`
sees in `file_table`: it declares entries of 40 bytes, and `filesystem.c`, which owns the
array, entries of 80. What a block holds, the offset and descriptors 0 to 2 are left out.
The number of files must be even, as the 64 are, so that the two views of the array end
together. One thing is not exact: in the view of `vfs.c` an odd entry has block numbers for
a name; a path of one letter could equal such a name by chance, and the model says that none
does.

### Transfers

What `Files` leaves out, and only that: the bytes. A file has the bytes of its blocks
(`held`) and its `size`; a descriptor has an offset and the size its node noted. `FsWritten`
is `fs_write`, with the blocks that run out in the middle; `writev` (`AfterWrites`) does that
for each of its pieces, on what the last one left.
`ProcRead` and `FileSeek` compute modulo `OFFSETS`, the 2^32 of the code, so that a sum that
wraps passes the test it should not pass. `got` is there to be seen: what the last call
read. `ByteFiles` speaks of contents, positions and `got` alone.

### UnixSockets, InetSockets, Sockets

Slots, descriptors and peers as the code has them, with what is *not* reset when a slot is
used again; the ring of bytes of a stream socket is a sequence. A call is one action: the windows inside these calls are of the kind
that `Files` shows, and opening them would only show them again. In `Streams` an end asks
for a partner, gets one, and has a queue of what was sent to it; the mapping takes a slot's
peer, pending connect and ring. `InetSockets` keeps the
ring of datagrams cell by cell with `head` and `tail`, since it is these that survive a
close, and `mail`, a history of what each socket was sent and has not received. Calls that
are refused and change nothing are left out. `Sockets` lets calls of both families alternate
in one behaviour, which is what the theorems are about.

### AddressSpace

`current_process_brk` is one variable for all tasks. `brk` tests, stores and returns;
`mmap2` reads, adds and stores. `given` is a history of what each task was told is its own.
`TOP` stands for 2^32.

### Boot

Memory is a function on the addresses in use; the archives are laid out in it by the rules
of the cpio format (`CellsOf`, external), and `unpack_initramfs` walks them with the
arithmetic of the code. `LoadSegment` is one round of the loop of `elf_load_binary`. A
started program writes anywhere but in the archives, and may ask for `execve`.

Its assumption says what an archiver, a boot loader and a linker make: archives that do not
overlap, in any order, of files of any names and lengths; an init that is not empty has
segments that lie in the file and not over each other, at any address (`IsLinked`). Several
files, in one archive or in several, may be called init.

### Calls

All that the calls share is `fd_table`. A behaviour is a boot, or uses one family of calls,
chosen at the start; programs with AF_UNIX sockets also ask for a datagram socket when no
descriptor is left for it. `TypeOK` is all types together.

## Windows

The code is not correct under ticks at arbitrary points; runs below show it. To say what
*is* correct, `Tasks`, `Pipes`, `Files` and `AddressSpace` take the set `TickPoints` as a
constant and name `Windows`: the points where a tick breaks the module.

- `Tasks`: between the read and the write of `next_pid` (`task.c:80`), between the read of
  `task_list_head->next` and the write of `task_list_head->next` (104-105), and in
  `task_destroy` from the search to the switch of stacks (122-151).
- `Pipes`: between the load and the store of `count` (`fs/vfs.c:103`, `114`), and in a
  close between the test of `readers` and `writers` and the store to `used` (331): the other
  task can close its end and make the pipe again there, and the store then frees it.
- `Files`: in `vfs_open` after the descriptor is picked (two opens fill in the same one),
  after the node is allocated, and after the file is found (`fs/vfs.c:234-296`); in a read
  or write between taking the node and using it (307); in a close between the free and the
  clearing of the entry (325-346); in `vfs_pipe` before the write end is allocated (366),
  where another task can close the read end, which it was never given, and open something
  else there that the failing call then clears.
- `AddressSpace`: in `brk` between test and store; in `mmap2` between load and add, and
  between add and store (`syscall.c:86-87`, `207-208`).

With the windows closed, which is what a `cli` / `sti` around them would give, the
properties hold, and the safety properties are proved. Each window was opened by itself and breaks a
property, so the set is not larger than needed. The properties thus say two things about the
code: where it needs protection, and that it needs no more.

## Habits

The socket calls, the transfers, the memory calls and the boot go wrong without any tick,
for programs that use them in certain ways. Their modules name these ways, as `Bad...Habits`,
and a program does such a thing only if `Habits` has it (`OnlyIf` in `Programs`). The run
with `Habits = {}` shows that programs without them get what the abstract specifications
promise, and it is proved for every value of the constants. Each habit was given to the programs by itself and breaks a property, so none is
named for nothing. They are what a program for this kernel must avoid, or what the kernel
would have to fix:

- *AF_UNIX.* `close unread`: what was not received is received by the slot's next socket.
  `open over hang-up`: `peer` still names the slot of a partner that is gone, and a new
  socket there gets the bytes. `close listener`: its waiting client is not told, and
  the slot's next socket can listen where it did. `listen unbound`: the path of the slot's
  last socket is still there. `listen connected`: nothing keeps a socket with a partner, or
  one that waits for an accept, from being bound and listening (`fs/vfs.c:447-454`). Its
  partner, or what it still has in `pending`, then looks like a client, and a client that
  connects takes the place of one that waits. `connect again` changes one end of a link only. `connect while
  pending`: the second client overwrites the first. `open over lost client`: accept follows
  the number of a descriptor that was closed and opened again. `accept without room` clears
  the pending client, and may keep a slot, before it fails.
- *AF_INET.* `close unread datagrams`: `head` and `tail` stay apart while `count` becomes 0.
  `bind automatic`: the ports that the kernel chooses are not compared with those bound.
- *Files.* ramfs ignores the offset. `read on`: a second read returns the same bytes, so a
  loop that reads to the end of a file never ends. `write on`: a second write, and the
  second piece of a `writev`, goes over the first. `write less` shortens the file, and `read
  beyond` then returns what was in its blocks before. `fill the blocks`: a write that runs
  out returns a count that `size` does not show. `end elsewhere`: `SEEK_END` counts from the
  size the node had when it was opened, which procfs makes up. `seek out`, `read to the
  top`: sums wrap at 32 bits.
- *Memory.* `brk over others`: mmap2 takes its pages from the break, and a program that
  extends its heap from the break it knew gets them again. `run out`: the sum wraps.
- *Boot.* `image over archive`: init is linked to a fixed address (`src/Makefile:77`), and
  nothing keeps an archive from lying there.

## Runs

| run | question | bounds |
|---|---|---|
| `heap_single` | Do list, blocks and results of the allocator stay right through every sequence of calls by one task at a time? Does it implement `Regions`? | 17 words, requests of 5, 12 and 17 bytes |
| `heap_race` *(violated)* | Is a block given to one task only, when two are inside `alloc`? | the same, 2 callers |
| `tasks_windows_closed` | With the windows closed, does every task keep its context, stacks and pid, is the ring a round-robin queue, do forks and exits finish? | 4 `task_t`, pids to 5, room for 8 stacks |
| `tasks_any_tick` *(violated)* | Does a task in user mode go on from its own frame, with ticks anywhere? | as above |
| `tasks_heap_full` *(violated)* | Does every task have stacks of its own when the heap runs out? | room for 5 stacks |
| `keyboard_one_reader` | Does a read return, and show, the line that was typed? Is the ring a FIFO? | ring of 4, one letter with and without shift, Enter, Backspace; reads of 2; a screen of 2 by 2, of either kind |
| `pipes_windows_closed` | Is a pipe a FIFO that loses nothing, over closes and reuse, and does it drain? | ring of 3, 2 byte values, calls of 1 and 4 bytes |
| `pipes_any_tick` *(violated)* | Does `count` say what is in the pipe, with ticks anywhere in reads and writes? | as above |
| `files_two_tasks` | With the windows closed, does every call that fails leave nothing behind, does a pipe live as long as its ends, is no block in two files, does no call use a node that was freed? | two tasks; 3 descriptors, 2 nodes, 2 files, 3 blocks, 2 pipes; writes of half a block and of two |
| `files_open_finds` *(violated)* | Does an open of a path lead to the file of that name? | as above |
| `calls_careful` | Do stream sockets implement `Streams`, datagrams reach who is at the port, files implement `ByteFiles`, is no slot lost and no address given twice, and does init start, for programs without bad habits? | 4 descriptors; 5 and 2 socket slots, a ring of 1 byte and one of 2 datagrams, 2 paths; 3 blocks of 2 bytes, 2 files open; addresses to 12, 2 tasks; archives of up to 2 files, and a second one of 1 |
| `calls_stale_bytes` *(violated)* | Is a new socket empty, if programs may close one with bytes unread? | as above |

**Why the bounds are enough.** The heap of 17 words holds up to three blocks, so there is a
block with two neighbours; the requests round up (5, 17), fit exactly, leave too little to
split, or take the whole heap. Four tasks are the idle task, a parent, and two more that
fork or exit in the middle of each other's forks and exits; with one task more the same
safety properties and the refinement hold too (1.1 million states, not kept as a run).
`MaxPid` stops the forks; `StackRoom` is 8, two stacks for each of four tasks, so that the
run of the healthy system never runs out, and 5 in the run that does. The rings wrap round
several times; calls longer than the pipe's ring stop short. A ring of four slots has all of
empty, part full, full and wrapped. The
screen of two by two has a last column that is also next to the first, and fills and
scrolls within two reads. In `Files` each resource can run out while the others last: there
are fewer nodes than descriptors, fewer blocks than two files can take, and a pipe can get
one descriptor of the two it needs. The places of nodes on the heap, and the tasks, are
interchangeable, so TLC takes them as symmetric; the run has no liveness property. In
`Calls` the families of calls share `fd_table` and nothing else that both write, so a
behaviour uses one family, or is a boot; AF_UNIX programs may also ask for a datagram socket
when no descriptor is left, which is how the two families meet. Five slots and four
descriptors let two streams exist at once, or a stream, a listener and a stranger; slots
outlast descriptors there and descriptors outlast slots among the two AF_INET sockets. With
two paths a socket can leave one listener for another. The ring of one byte is empty or full,
and a send of two bytes stops short; that bytes keep their order in longer rings is proved.
Paths are interchangeable, so TLC takes them as symmetric; this run too has no liveness
property. Two
ports are one that the kernel chooses and one that it does not. `OFFSETS` is 7, so that a
read of 5 bytes from offset 2 wraps; a file of two blocks of 2 bytes can be written beyond
its end, in full, and shorter; with 3 blocks the second file runs out in the middle of a
write. procfs notes a size that is not that of its text, as it does in the code. The break
can be moved up, down and past `TOP`. The archives have names of 1 and 3 characters behind a
header of 2, so that filling them up together and each for itself differ; empty files, two
inits, none, a file too long for ramfs, and one more than it takes.
Ring sizes enter the code only as a modulus and a limit.

**Fairness.** `Heap`: a call that began goes on (weak fairness of its steps); nothing in
`alloc.c` waits, and the properties of tasks say that a task gets its turns. Nobody has to
call. `Tasks`: the PIT fires for ever and the PIC holds an interrupt until it is taken, so a
tick that is possible again and again comes (strong fairness of `Tick`). A turn lasts 10 ms,
thousands of instructions, so a task whose turn comes again and again executes its next
statement (strong fairness of its kernel steps: `cpu` changes hands, so weak fairness would
say nothing). That a user task makes a syscall is not assumed, nor that it does not spin.
`Keyboard`: the reader goes on; nobody has to type. `Pipes`: as `Tasks`, and the reader
reads again and again while it has its end; the writer need not write.

**Deadlock** is checked everywhere but in `tasks_any_tick`, where the machine halts on
purpose.

### What the violated runs show

- `heap_race`: both tasks test `is_free` of the same block (`alloc.c:40`) before either
  clears it (`alloc.c:51`); both get it. The child of a `fork` then shares a stack with
  another task's child, where the shell says that it runs "on a completely separate stack"
  (`src/world/shell.c:173`).
- `tasks_any_tick`: `task_destroy` moves `current_task` to the next task (`task.c:133`) ten
  lines before it leaves the dead task's stack. A tick in between saves the dead task's
  stack pointer over that of the next task.
- `tasks_heap_full`: `task_fork` checks the allocation of the `task_t` but not those of the
  stacks (`task.c:82`), and in a heap of 64 KiB it is the stacks of 4 KiB that fail first.
- `files_open_finds`: `vfs.c` reads `file_table` with the wrong length of entry
  (`fs/vfs.c:32` against `fs/filesystem.c:41-46`). The first block of a file stands where
  `vfs.c` looks for `used`, so the file with block 0, the first that the initramfs registers
  (`main.c:111`), is never found and an open makes a second, empty one; the file in entry 1
  is opened as entry 2.
- `pipes_any_tick`: a tick between load and store of `count` loses the other side's change.
- `calls_stale_bytes`: `vfs_socket` resets `listening`, `connected`, `peer` and `pending` of
  the slot it takes, but not `read_pos`, `write_pos` and `count` (`fs/vfs.c:409-414`), and
  `vfs_close` does not either. A socket that nobody has connected to then has bytes to read,
  which were sent to another.

## Proofs

Everything here is proved for every value of the constants that satisfies the module's named
assumption; TLC evaluates the assumptions on its instances. These hypotheses occur, and a run shows
for each what happens without it:

| hypothesis | in | without it |
|---|---|---|
| one caller, `Callers = {k}` | `Heap_proofs` | `heap_race` |
| `WindowsClosed`: `TickPoints` meets no window | `Tasks_proofs`, `Pipes_proofs`, `Files_proofs`, memory in `Calls_proofs` | `tasks_any_tick`, `pipes_any_tick` |
| `Careful`, `MemoryCareful`, `TransfersCareful`, `BootCareful`: no bad habit of sockets, of memory calls, of files, of the build is among `Habits` | `Sockets_proofs`, `Calls_proofs` | `calls_stale_bytes`, and see Habits |
| `RoomForStacks` | `StacksApartAlways` | `tasks_heap_full` |

`Keyboard_proofs` has none, nor have the types of `Transfers` and of `Boot`, which hold with every
habit.

**`Heap_proofs`.** The invariant `HeldBlocks` is not inductive: that a free gives back
exactly its block needs that headers do not overlap, which needs the tiling. `IInv` conjoins
the types, `Tiling`, `HeldBlocks`, and where the call is: that `curr` is on the list and
that a block about to be split or taken is free and large enough. From it follow
`HeldDisjoint` (two held regions lie in two blocks, and blocks do not overlap), and that
each step is a step of `Regions` or changes nothing in it (`PromiseAlwaysKept`). `PassInv`
adds how far a call has come: `scan` has passed no block that would do, and two free
neighbours lie only where `merge` has still to go, or where a split is about to be
completed. It gives `NullIsHonest` and `CoalescedAlways`. `EveryBlockIsOnTheList` is about the walk along `next`,
a recursive function; it is proved by induction over the number of steps, since the walk
covers a prefix of the tiling.

**`Tasks_proofs`**, for any finite number of tasks. `IInv` is the conjunction of the types;
`FrameInv` (every task that is not on the CPU has its own frame saved, at its own program
point; the CPU is on the current task's stack but at the end of an exit); `RingInv` (`next`
is defined, and injective, on the tasks that are linked, which is what the search of
`task_destroy` needs to find the one predecessor); `LocalInv` (what the locals of a
half-done fork or exit name); `ChildInv` (a child being made belongs to one fork and has no
frame or code before the copy); `PidInv` (pids of live tasks and children are distinct and
below `next_pid`). There is one lemma per action, and `Invariance` puts them together. From
it follow `OwnContext`, `UserContextKept`, `UniquePids` and `TssIsRunning`.

- `StackInv` says when a task has its stacks; that a fork finds room for two is a count
  (`StacksFit`).
- `PlacedInv` says that every `task_t` is in the ring or in the hands of one fork or exit; it
  gives `NothingDangles`.
- `RoundRobinKept` is about `Queue`, which walks the ring. `OrderInv` says that there is a
  sequence without repetition whose neighbours, and last and first, are linked by `next`
  (`Circle`), from the task behind the running one; `RoundIs` shows that the walk returns this
  sequence. A tick turns it, the second write of a fork puts the child behind the idle task,
  and an exit takes its own task out; each is a step of `RoundRobin`.

**`Keyboard_proofs`**, for a ring, a screen and lines of any size. `KeyInv` says that what
lies between the positions are characters, that `keyboard_getc` still has the one it has
seen, and that the line is what the characters spell, but for the one being edited. The ring
implements `BoundedFifo`: a key is a put, the step of `kbd_tail` a get, everything else a
stutter. For the screen, the rows are laid end to end (`Linear`), and `Sees` says of that
row what `EchoIsLine` says of the screen; a character, a backspace and a
scroll then are an append, a removal of the last and a shift.

**`Pipes_proofs`**, for a ring of any size and calls of any length. In the middle of a loop
`count` is behind the positions by the byte that was moved and not counted; `PipeInv` says by
how much, for each place of the reader and the writer, that a writer past its test still has
room and a reader a byte, and that a task in a window runs. The mapping counts a byte as
written when `count` is stored and as read when `read_pos` moves.

**`Files_proofs`**, for any number of tasks, descriptors, nodes, files, blocks and pipes.
`FilesInv` conjoins the types and three parts. `RamInv`: blocks belong to one file, a file's
blocks come first and hold its size. This is carried through the loop of `fs_write` by
induction over the rounds, of which there are as many as a file has slots; a loop that runs
out has taken exactly the blocks that it stored. `NodesInv`: each node belongs to a
descriptor or to the one call whose `pc` says so. `PipesInv`: the same for ends of pipes,
with `vfs_pipe`'s first descriptor in the hands of the call. There is a lemma for each
action. That the descriptor `vfs_open` picked is still free when it is filled in needs the
windows closed.

**`Sockets_proofs`**, for any number of slots and descriptors, rings of any size, and both
families in one behaviour. For AF_UNIX, `UnixInv` adds to the properties: who listens is
bound, alone at its path and without partner (`ListenInv`); a peer that is there listens or
points back (`LinkInv`); a client that is noted waits for the one that noted it (`WaitInv`);
a slot that is given up is empty (`EmptyInv`). Each habit is what one of these needs. One was
found by the proof: `NoClientForgotten` could not be shown for a socket that listens after a
connect, and TLC then found a behaviour once it had two paths; it became `listen connected`.
`SocketsAreStreams` has one lemma per call: it is a step of `Streams` or a stutter. For
AF_INET, `RingInv` says that the cells from `head` on hold `mail`, modulo the size of the
ring, and `PortInv` why ports are distinct: a port the kernel chooses belongs to its
descriptor, the others were compared when they were bound.

**`Calls_proofs`** has four parts.

- *Memory.* `MemoryInv` says that one task at a time is inside an update (`AloneInv`), what
  its locals stand for (`LocalInv`), and that what lies behind the break, or is about to be
  returned to a task, was given to nobody (`GivenInv`).
- *Files*, with blocks, files and a disk of any size and any pieces in a `writev`.
  `TransfersInv` says that a file has whole blocks and no larger size than they hold; it is
  kept whatever programs do. `FsWrittenIs` says what one `fs_write` leaves: all that fits, or
  as much as the free blocks take, with the size that goes with either. `WritesInTurn` carries
  this through a `writev` by induction over its pieces. `FilesAreKept` has one lemma per call:
  each is a step of `ByteFiles` or a stutter. Where a habit is excluded is where such a lemma
  needs it: a write is one of `ByteFiles` because it begins at 0, has one piece and is not
  shorter than the file; a read, because it begins at 0 and stops at the size.
- *The boot*, with any archives of any files. The archives are joined sequences, so
  `JoinedHolds` says where each part of such a sequence lies (induction over the parts), and
  `FileIsPlaced` from it that a header, its name and its data are where the arithmetic of
  `unpack_initramfs` looks, in every archive. `BootInv` says what has been unpacked when the
  walk has come to the k-th file of the n-th archive (`Unpacked(Seen(modules, n - 1, k))`):
  the files in `registered` are the first of those seen, cut to size, and `init_elf_start`
  points at the data of the last init seen, still unchanged in memory. The other half is
  `ArchivesKept`, which no segment and no store of a program breaks unless init is linked to
  where an archive lies; it is why execve, much later, finds the same program.
  `SegmentsLoaded` counts the segments that are in memory; that a later one leaves an earlier
  one alone is what `IsLinked` gives.
- *All calls.* `CallsInv` says that while files are used no slot of a socket is, and that
  otherwise `fd_table` is that of the sockets and no file is open. Every step then is one of
  the sockets that leaves the files alone, or the other way round (`CallsAre`); memory and the
  boot take their own steps or none (`MemoryRuns`, `BootRuns`). `CallsAreTyped`,
  `CallsAreSafe` and `CallsImplement` state each property that `calls_careful` checks, of the
  very specification that it runs.

Statements about all numbers are proved in the form "a set of numbers with 0 and with the
successor of each member has all of them", from the well-foundedness of `<` on the naturals
(`Induction` in `Descriptors_proofs`).

**Only model-checked.** Liveness (`CallsReturn`, `EveryTaskRuns`, `SyscallsFinish`,
`EnterEndsRead`, `PipeDrains`): its proof needs ENABLED, which the prover does not reason
about. Every other property of a run that passes is a theorem. `FreshIsEmpty` and `OpenFindsFile` are false, and so is what the other violated runs
check, without the hypotheses above.

## Plan

Done: `Heap` against `Regions`; `Tasks` against `RoundRobin`; `Keyboard` and `Pipes` against
`BoundedFifo`, with `Tty` for the echo; `Files` with two tasks; `UnixSockets` against
`Streams`; `InetSockets`; `Transfers` against `ByteFiles`; `AddressSpace`; `Boot`; `Calls`, which puts
them together; the theorems above.

Models left: a second reader in `Keyboard`; a task that exits with descriptors open, which
takes `Tasks` and `Files` together.

## Not modelled

- **RTL8139.** Every tick polls it, and it answers ARP and echoes UDP. When its receive loop
  ends depends on registers of the device; the repository says how they are read, not what
  they hold, and a model of the device would be invented. Its one hazard is listed.
- **TTY.** Escape sequences, tabs and `\r`, and how characters are drawn. (The echo of a tab
  is several cells and a backspace takes back one; `Tty` has no tab and does not show it.)
- **devtmpfs.** Reads of zeros and of pseudo-random numbers, writes that go nowhere.
- **Descriptors of the wrong kind.** llseek takes the private data of any descriptor for a
  node, that of a pipe too; the programs here seek in files.
- **The socket call's arguments.** `MASIX_SOCKETCALL` takes them from `ebx` and the number of
  the call from `ecx`, Linux the other way round; the modules begin behind the dispatch.
- **`task_execve`'s frame**, `set_thread_area`, segment registers and the FPU on a switch:
  below the level at which the modules speak of a frame. That execve copies over the program
  of every task is listed as a hazard; only the caller's view is in `Boot`.
- **Kernel libc, `itoa`, serial, power, port I/O, descriptor tables of the CPU, panic.**
  Straight-line code or loops without state that another part depends on.
- **The shell** is the environment: it forks, exits, types and reads in any order.
- Nothing calls `sleep` or `fs_delete`.

Most lines of the repository are not the kernel's: of the 293 files the greater part are the
headers of musl that programs are compiled against (`src/world/musl/include`), declarations
without behaviour. The kernel and the shell have under 4000 lines, and `PROJECT.json` maps
the parts above to theirs.
