-------------------------------- MODULE Tasks --------------------------------
(***************************************************************************)
(* Tasks and preemption: sys/kernel/task.c, the timer interrupt of         *)
(* drivers/pit.c, and the entry and exit of a syscall (syscall.c).         *)
(*                                                                         *)
(* There is one CPU.  It executes on one stack at a time (cpu), and every  *)
(* task has a place in the code where its stack left off (pc).  A timer    *)
(* tick saves the stack pointer in current_task, steps current_task round  *)
(* the ring of tasks and loads the stack pointer saved there; it does this *)
(* whatever the interrupted code is doing, in the kernel too, because      *)
(* syscalls run with interrupts enabled (syscall.c:346).                   *)
(*                                                                         *)
(* The model starts where kernel_main ends: the ring holds the idle task   *)
(* (kernel_main's own loop of hlt) and the first user task.                *)
(***************************************************************************)
EXTENDS Integers, FiniteSets, SequencesExt

CONSTANTS
    Tasks,      \* where the heap can place a task_t
    Idle,       \* the task of task_init
    First,      \* the task of task_create
    Null,       \* the NULL pointer
    StackRoom,  \* how many 4 KiB stacks fit in the heap
    TickPoints, \* the values of pc at which a tick may come
    MaxPid      \* bound: a fork that would go past this pid does not begin

VARIABLES
    allocated,  \* the task_t's that malloc gave and free has not taken back
    next,       \* t->next
    pid,        \* t->pid
    kstack,     \* t->kernel_stack and t->user_stack: t stands for memory of
    ustack,     \*   its own, Null for address 0
    saved,      \* the frame at t->esp: the task on whose kernel stack it lies and
                \*   the point where its code goes on; Null once it was popped
    head,       \* task_list_head
    current,    \* current_task
    nextPid,    \* next_pid
    cpu,        \* the task on whose kernel stack the CPU executes
    tss,        \* the task whose kernel stack the next entry from user mode uses
    pc,         \* pc[t]: where the code on t's stack has got to
    obj,        \* its locals: child (task_fork), dead_task (task_destroy);
    prev,       \*   prev (task_destroy), task_list_head->next once read (line 104);
    got         \*   next_pid once read (line 80)

tcbs == <<allocated, next, pid, kstack, ustack>>
sched == <<saved, current, cpu, tss>>
locals == <<obj, prev, got>>
vars == <<tcbs, sched, locals, head, nextPid, pc>>

InFork == {"fork", "forkPid", "forkPidWrite", "forkStacks", "forkCopy",
           "forkLink", "forkLinkWrite"}
InExit == {"exit", "exitSearch", "exitHead", "exitCurrent", "exitFree", "exitSwitch"}
Points == {"none", "hlt", "user", "return", "spin", "halted"} \cup InFork \cup InExit

Frame(t, point) == [on |-> t, at |-> point]

\* Where a tick breaks task.c: between a read and the write that depends on it
\* (lines 80, 104-105), and from the search of task_destroy to its stack switch.
Windows == {"forkPidWrite", "forkLinkWrite"} \cup (InExit \ {"exit"})

ASSUME TasksAssumption ==
    /\ IsFiniteSet(Tasks)
    /\ Idle \in Tasks /\ First \in Tasks /\ Idle # First
    /\ Null \notin Tasks \cup [on : Tasks, at : Points]
    /\ StackRoom \in Nat /\ MaxPid \in Nat
    /\ TickPoints \subseteq Points \ {"none", "halted"}

Init ==
    /\ allocated = {Idle, First}
    /\ next = [t \in Tasks |->
                IF t = Idle THEN First ELSE IF t = First THEN Idle ELSE Null]
    /\ pid = [t \in Tasks |-> IF t = Idle THEN 1 ELSE IF t = First THEN 2 ELSE 0]
    /\ kstack = [t \in Tasks |-> IF t \in allocated THEN t ELSE Null]
    /\ ustack = kstack
    /\ saved = [t \in Tasks |-> IF t = First THEN Frame(First, "user") ELSE Null]
    /\ head = Idle
    /\ current = Idle
    /\ nextPid = 3
    /\ cpu = Idle
    /\ tss = Null     \* kernel_main's own stack
    /\ pc = [t \in Tasks |->
                IF t = Idle THEN "hlt" ELSE IF t = First THEN "user" ELSE "none"]
    /\ obj = [t \in Tasks |-> Null]
    /\ prev = [t \in Tasks |-> Null]
    /\ got = [t \in Tasks |-> 0]
-----------------------------------------------------------------------------
(* The timer interrupt: pit_handler_asm and schedule.                      *)

\* movl 4(current_task), %esp ... iret, from the saved frames fs: the frame of u is
\* popped and its code goes on.  What follows a frame that was popped before is not
\* code of this kernel any more: the machine stops here.
Load(u, fs, pcs) ==
    /\ saved' = [fs EXCEPT ![u] = Null]
    /\ tss' = u
    /\ cpu' = IF fs[u] = Null THEN cpu ELSE fs[u].on
    /\ pc' = [pcs EXCEPT ![cpu'] = IF fs[u] = Null THEN "halted" ELSE fs[u].at]

\* Mutants: esp is saved after schedule; schedule goes two tasks on.
TickSavesLate ==
    /\ pc[cpu] \in TickPoints
    /\ current' = next[current]
    /\ Load(current', [saved EXCEPT ![current'] = Frame(cpu, pc[cpu])], pc)
    /\ UNCHANGED <<tcbs, locals, head, nextPid>>
TickTwice ==
    /\ pc[cpu] \in TickPoints
    /\ current' = next[next[current]]
    /\ Load(current', [saved EXCEPT ![current] = Frame(cpu, pc[cpu])], pc)
    /\ UNCHANGED <<tcbs, locals, head, nextPid>>

Tick ==
    /\ pc[cpu] \in TickPoints
    /\ current' = next[current]
    /\ Load(current', [saved EXCEPT ![current] = Frame(cpu, pc[cpu])], pc)
    /\ UNCHANGED <<tcbs, locals, head, nextPid>>
-----------------------------------------------------------------------------
(* The steps of the code on the stack the CPU is on, t = cpu.              *)

At(t, point) == cpu = t /\ pc[t] = point
Goto(t, point) == pc' = [pc EXCEPT ![t] = point]

\* A user task enters the kernel: fork, exit_group, or exit.
SyscallFork(t) ==
    /\ At(t, "user") /\ nextPid <= MaxPid
    /\ Goto(t, "fork")
    /\ UNCHANGED <<tcbs, sched, locals, head, nextPid>>

SyscallExitGroup(t) ==
    /\ At(t, "user")
    /\ Goto(t, "exit")
    /\ UNCHANGED <<tcbs, sched, locals, head, nextPid>>

\* MASIX_EXIT never comes back from while(1).
SyscallExit(t) ==
    /\ At(t, "user")
    /\ Goto(t, "spin")
    /\ UNCHANGED <<tcbs, sched, locals, head, nextPid>>

\* cli, popa, iret: the syscall returns to its task.
Return(t) ==
    /\ At(t, "return")
    /\ Goto(t, "user")
    /\ obj' = [obj EXCEPT ![t] = Null]
    /\ prev' = [prev EXCEPT ![t] = Null]
    /\ got' = [got EXCEPT ![t] = 0]
    /\ UNCHANGED <<tcbs, sched, head, nextPid>>
-----------------------------------------------------------------------------
(* task_fork.                                                              *)

\* child = malloc(sizeof(task_t)); NULL ends the fork with -ENOMEM.
ForkAlloc(t) ==
    /\ At(t, "fork")
    /\ \E c \in Tasks \ allocated :
        /\ allocated' = allocated \cup {c}
        /\ obj' = [obj EXCEPT ![t] = c]
    /\ Goto(t, "forkPid")
    /\ UNCHANGED <<next, pid, kstack, ustack, sched, prev, got, head, nextPid>>

\* Mutant: tries again for ever.
ForkWaitsForMemory(t) ==
    /\ At(t, "fork")
    /\ Tasks \subseteq allocated
    /\ UNCHANGED vars

ForkNoMemory(t) ==
    /\ At(t, "fork")
    /\ Tasks \subseteq allocated
    /\ Goto(t, "return")
    /\ UNCHANGED <<tcbs, sched, locals, head, nextPid>>

\* child->pid = next_pid++, a read and a write.
ForkPid(t) ==
    /\ At(t, "forkPid")
    /\ got' = [got EXCEPT ![t] = nextPid]
    /\ Goto(t, "forkPidWrite")
    /\ UNCHANGED <<tcbs, sched, obj, prev, head, nextPid>>

\* Mutant: next_pid is not stepped.
ForkPidKeep(t) ==
    /\ At(t, "forkPidWrite")
    /\ pid' = [pid EXCEPT ![obj[t]] = got[t]]
    /\ Goto(t, "forkStacks")
    /\ UNCHANGED <<allocated, next, kstack, ustack, sched, locals, head, nextPid>>

ForkPidWrite(t) ==
    /\ At(t, "forkPidWrite")
    /\ nextPid' = got[t] + 1
    /\ pid' = [pid EXCEPT ![obj[t]] = got[t]]
    /\ Goto(t, "forkStacks")
    /\ UNCHANGED <<allocated, next, kstack, ustack, sched, locals, head>>

\* Stacks the heap still has room for.
StacksLeft ==
    StackRoom - Cardinality({u \in allocated : kstack[u] # Null})
              - Cardinality({u \in allocated : ustack[u] # Null})

\* Mutant: the child keeps the user stack of its parent.
ForkOneStack(t) ==
    /\ At(t, "forkStacks")
    /\ kstack' = [kstack EXCEPT ![obj[t]] = IF StacksLeft >= 1 THEN obj[t] ELSE Null]
    /\ ustack' = [ustack EXCEPT ![obj[t]] = ustack[t]]
    /\ Goto(t, "forkCopy")
    /\ UNCHANGED <<allocated, next, pid, sched, locals, head, nextPid>>

\* The two mallocs of the stacks, whose NULL nobody looks at.
ForkStacks(t) ==
    /\ At(t, "forkStacks")
    /\ kstack' = [kstack EXCEPT ![obj[t]] = IF StacksLeft >= 1 THEN obj[t] ELSE Null]
    /\ ustack' = [ustack EXCEPT ![obj[t]] = IF StacksLeft >= 2 THEN obj[t] ELSE Null]
    /\ Goto(t, "forkCopy")
    /\ UNCHANGED <<allocated, next, pid, sched, locals, head, nextPid>>

\* The child gets a copy of both stacks, and the frame that returns from this
\* syscall, moved to its own stacks, as its saved frame.
ForkCopy(t) ==
    /\ At(t, "forkCopy")
    /\ saved' = [saved EXCEPT ![obj[t]] = Frame(obj[t], "user")]
    /\ pc' = [pc EXCEPT ![t] = "forkLink", ![obj[t]] = "user"]
    /\ UNCHANGED <<tcbs, current, cpu, tss, locals, head, nextPid>>

\* Mutant: the child is linked back to the head.
ForkLinkToHead(t) ==
    /\ At(t, "forkLink")
    /\ next' = [next EXCEPT ![obj[t]] = head]
    /\ Goto(t, "forkLinkWrite")
    /\ UNCHANGED <<allocated, pid, kstack, ustack, sched, locals, head, nextPid>>

\* child->next = task_list_head->next
ForkLink(t) ==
    /\ At(t, "forkLink")
    /\ next' = [next EXCEPT ![obj[t]] = next[head]]
    /\ Goto(t, "forkLinkWrite")
    /\ UNCHANGED <<allocated, pid, kstack, ustack, sched, locals, head, nextPid>>

\* task_list_head->next = child
ForkLinkWrite(t) ==
    /\ At(t, "forkLinkWrite")
    /\ next' = [next EXCEPT ![head] = obj[t]]
    /\ Goto(t, "return")
    /\ UNCHANGED <<allocated, pid, kstack, ustack, sched, locals, head, nextPid>>
-----------------------------------------------------------------------------
(* task_destroy.                                                           *)

\* The last task of the ring halts; any other becomes dead_task.
ExitBegin(t) ==
    /\ At(t, "exit")
    /\ Goto(t, IF next[current] = current THEN "halted" ELSE "exitSearch")
    /\ obj' = [obj EXCEPT ![t] = current]
    /\ prev' = [prev EXCEPT ![t] = head]
    /\ UNCHANGED <<tcbs, sched, got, head, nextPid>>

\* One round of the search for the task before dead_task.
ExitSearch(t) ==
    /\ At(t, "exitSearch")
    /\ next[prev[t]] # obj[t]
    /\ prev' = [prev EXCEPT ![t] = next[prev[t]]]
    /\ UNCHANGED <<tcbs, sched, obj, got, head, nextPid, pc>>

\* The search is over: prev->next = dead_task->next
ExitUnlink(t) ==
    /\ At(t, "exitSearch")
    /\ next[prev[t]] = obj[t]
    /\ next' = [next EXCEPT ![prev[t]] = next[obj[t]]]
    /\ Goto(t, "exitHead")
    /\ UNCHANGED <<allocated, pid, kstack, ustack, sched, locals, head, nextPid>>

\* Mutant: dead_task is freed before its next is read for the last time.
ExitHeadFrees(t) ==
    /\ At(t, "exitHead")
    /\ allocated' = allocated \ {obj[t]}
    /\ next' = [next EXCEPT ![obj[t]] = Null]
    /\ Goto(t, "exitCurrent")
    /\ UNCHANGED <<pid, kstack, ustack, sched, locals, head, nextPid>>

ExitHead(t) ==
    /\ At(t, "exitHead")
    /\ head' = IF head = obj[t] THEN next[obj[t]] ELSE head
    /\ Goto(t, "exitCurrent")
    /\ UNCHANGED <<tcbs, sched, locals, nextPid>>

\* current_task = dead_task->next
ExitCurrent(t) ==
    /\ At(t, "exitCurrent")
    /\ current' = next[obj[t]]
    /\ Goto(t, "exitFree")
    /\ UNCHANGED <<tcbs, saved, cpu, tss, locals, head, nextPid>>

\* Mutant: the task_t itself is not freed.
ExitFreeStacks(t) ==
    /\ At(t, "exitFree")
    /\ kstack' = [kstack EXCEPT ![obj[t]] = Null]
    /\ ustack' = [ustack EXCEPT ![obj[t]] = Null]
    /\ Goto(t, "exitSwitch")
    /\ UNCHANGED <<allocated, next, pid, sched, locals, head, nextPid>>

\* The stacks and the task_t go back to the heap; the code below still runs on
\* one of them.  (What a freed task_t still holds is of no use to anyone.)
ExitFree(t) ==
    /\ At(t, "exitFree")
    /\ allocated' = allocated \ {obj[t]}
    /\ kstack' = [kstack EXCEPT ![obj[t]] = Null]
    /\ ustack' = [ustack EXCEPT ![obj[t]] = Null]
    /\ next' = [next EXCEPT ![obj[t]] = Null]
    /\ pid' = [pid EXCEPT ![obj[t]] = 0]
    /\ Goto(t, "exitSwitch")
    /\ UNCHANGED <<sched, locals, head, nextPid>>

\* Mutant: the TSS keeps naming the dead task's kernel stack.
ExitSwitchNoTss(t) ==
    /\ At(t, "exitSwitch")
    /\ cpu' = saved[current].on
    /\ pc' = [pc EXCEPT ![t] = "none"]
    /\ saved' = [saved EXCEPT ![current] = Null]
    /\ obj' = [obj EXCEPT ![t] = Null]
    /\ prev' = [prev EXCEPT ![t] = Null]
    /\ UNCHANGED <<tcbs, current, tss, got, head, nextPid>>

\* The frame saved in current_task is loaded; nothing of dead_task is left.
ExitSwitch(t) ==
    /\ At(t, "exitSwitch")
    /\ Load(current, saved, [pc EXCEPT ![t] = "none"])
    /\ obj' = [obj EXCEPT ![t] = Null]
    /\ prev' = [prev EXCEPT ![t] = Null]
    /\ UNCHANGED <<tcbs, current, got, head, nextPid>>
-----------------------------------------------------------------------------
ForkStep(t) ==
    \/ ForkAlloc(t) \/ ForkNoMemory(t) \/ ForkPid(t) \/ ForkPidWrite(t)
    \/ ForkStacks(t) \/ ForkCopy(t) \/ ForkLink(t) \/ ForkLinkWrite(t)

ExitStep(t) ==
    \/ ExitBegin(t) \/ ExitSearch(t) \/ ExitUnlink(t) \/ ExitHead(t)
    \/ ExitCurrent(t) \/ ExitFree(t) \/ ExitSwitch(t)

KernelStep(t) == ForkStep(t) \/ ExitStep(t) \/ Return(t)
Syscall(t) == SyscallFork(t) \/ SyscallExitGroup(t) \/ SyscallExit(t)

Next == Tick \/ \E t \in Tasks : Syscall(t) \/ KernelStep(t)

\* A turn lasts 10 ms, so a task that gets its turn again and again gets on with
\* its syscall; that a task in user mode ever makes one is not assumed.  The PIT
\* fires for ever and the PIC holds a tick back until it is taken, so a tick that
\* is possible again and again comes.
Spec ==
    /\ Init /\ [][Next]_vars
    /\ \A t \in Tasks : SF_vars(KernelStep(t))
    /\ SF_vars(Tick)
-----------------------------------------------------------------------------
(* Properties.                                                             *)

TaskOrNull == Tasks \cup {Null}

\* Every variable has its type.
TypeOK ==
    /\ allocated \subseteq Tasks
    /\ next \in [Tasks -> TaskOrNull]
    /\ pid \in [Tasks -> Nat]
    /\ kstack \in [Tasks -> TaskOrNull] /\ ustack \in [Tasks -> TaskOrNull]
    /\ saved \in [Tasks -> [on : Tasks, at : Points] \cup {Null}]
    /\ head \in Tasks /\ current \in Tasks /\ cpu \in Tasks /\ tss \in TaskOrNull
    /\ nextPid \in Nat
    /\ pc \in [Tasks -> Points]
    /\ obj \in [Tasks -> TaskOrNull] /\ prev \in [Tasks -> TaskOrNull]
    /\ got \in [Tasks -> Nat]

\* The tasks from nx[u] round the ring of the pointers nx, up to where it closes.
Round(nx, u) ==
    LET rounds == 1 .. Cardinality(Tasks)
        at[n \in rounds] == IF n = 1 THEN nx[u] ELSE nx[at[n - 1]]
        lengths == {n \in rounds :
                      /\ \A i \in 1 .. n : at[i] \in Tasks
                      /\ nx[at[n]] = at[1]}
    IN IF lengths = {} THEN <<>>
       ELSE [i \in 1 .. CHOOSE n \in lengths : \A m \in lengths : n <= m |-> at[i]]

\* The order in which the tasks come to run, the one that runs now last.
Queue == Round(next, current)

\* The ring is a round-robin queue: whatever tick comes between the steps of
\* forks and exits, a tick moves one task to the end, a fork adds its child
\* behind the idle task and an exit takes its own task out (task.c:67, 71, 104,
\* 122-133); no task is dropped from the ring, linked twice or overtaken.
Order == INSTANCE RoundRobin WITH queue <- Queue
RoundRobinKept == Order!Spec

Ring == Range(Queue)

\* A task that waits in user mode goes on from its own frame when its turn comes.
UserContextKept ==
    \A t \in Tasks : pc[t] = "user" /\ t # cpu => saved[t] = Frame(t, "user")

\* The tasks that have code to go on with.
Live == {t \in Tasks : pc[t] # "none"}

\* So does every other task, wherever it was interrupted, and the CPU is on the
\* stack of current_task but for the end of task_destroy.  Otherwise one task goes
\* on with another's frame and some task never goes on (task.c:133-146 against
\* pit.c:37-43).
OwnContext ==
    /\ \A t \in Live \ {cpu} : saved[t] = Frame(t, pc[t])
    /\ cpu = current \/ pc[cpu] \in {"exitFree", "exitSwitch"}

\* No two live tasks have one pid (task.c:80).
UniquePids ==
    \A t, u \in Live : t # u => pid[t] # pid[u]

\* No two live tasks share a kernel stack or a user stack.
StacksNotShared ==
    \A t, u \in Live : t # u => kstack[t] # kstack[u] /\ ustack[t] # ustack[u]

\* An interrupt or syscall from user mode enters on the running task's own
\* kernel stack: write_tss follows every switch (pit.c:45-52, task.c:145-151).
TssIsRunning == pc[cpu] = "user" => tss = cpu

\* Nothing in use is freed and nothing freed is kept: every task_t is in the
\* ring, or is a child being made, or one on its way out (task.c:122-137).
NothingDangles ==
    LET making == {obj[t] : t \in {u \in allocated : pc[u] \in InFork}} \ {Null}
        leaving == {cpu}
    IN /\ Ring \subseteq allocated
       /\ {head, current} \subseteq allocated
       /\ allocated \subseteq Ring \cup making \cup leaving

\* A task in user mode runs again, or it is the one that runs.
EveryTaskRuns ==
    \A t \in Tasks : [](pc[t] = "user" => <>(cpu = t))

\* A fork comes back to user mode and an exit_group leaves the ring and the heap,
\* under any number of ticks and other forks and exits in between.
SyscallsFinish ==
    /\ \A t \in Tasks : pc[t] = "fork" ~> pc[t] = "user"
    /\ \A t \in Tasks : pc[t] = "exit" ~> pc[t] = "none" /\ t \notin allocated
==============================================================================
