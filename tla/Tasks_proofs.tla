---------------------------- MODULE Tasks_proofs ----------------------------
(***************************************************************************)
(* Proofs about Tasks, for any set of tasks, any heap and any number of    *)
(* forks, as long as no tick comes inside one of the Windows.              *)
(***************************************************************************)
EXTENDS Tasks, FiniteSetTheorems, TLAPS

\* The hypothesis of the theorems.
WindowsClosed == TickPoints \cap Windows = {}

\* Where task_fork has a child in obj: while the child is not a task yet, and
\* once it has its frame.
Making == {"forkPid", "forkPidWrite", "forkStacks", "forkCopy"}
Linking == {"forkLink", "forkLinkWrite"}

\* A task_t that has a next but is not in the ring: a child whose link is being
\* written, or the dead task.
Apart ==
    IF pc[cpu] \in {"forkLinkWrite", "exitHead", "exitCurrent", "exitFree"}
    THEN {obj[cpu]} ELSE {}
Linked == {t \in Tasks : next[t] # Null} \ Apart

\* Every context that waits is whole, and was not interrupted in a window.
FrameInv ==
    /\ cpu \in Live
    /\ \A t \in Live \ {cpu} :
        saved[t] = Frame(t, pc[t]) /\ pc[t] \notin Windows
    /\ cpu = current \/ pc[cpu] \in {"exitFree", "exitSwitch"}
    /\ \A t \in Tasks : pc[t] = "hlt" <=> t = Idle
    /\ tss = cpu \/ cpu = Idle

\* next maps the linked tasks one-to-one to each other.
RingInv ==
    /\ head = Idle /\ Idle \in Linked
    /\ \A t \in Linked : next[t] \in Linked /\ t \in Live
    /\ \A t, u \in Linked : next[t] = next[u] => t = u
    /\ pc[cpu] \in {"exitHead", "exitCurrent"} => next[cpu] \in Linked
    /\ pc[cpu] \notin {"exitHead", "exitCurrent"} => current \in Linked

\* What the locals of a fork or an exit stand for.
LocalsOf(t) ==
    /\ pc[t] \in Making \cup Linking =>
        obj[t] \in allocated \ Linked /\ obj[t] # t
    /\ pc[t] \in Making \cup {"forkLink"} => next[obj[t]] = Null
    /\ pc[t] \in Making => pc[obj[t]] = "none"
    /\ pc[t] \in Linking => pc[obj[t]] = "user"
    /\ pc[t] = "forkLinkWrite" => next[obj[t]] = next[head]
    /\ pc[t] \in InExit \ {"exit"} => obj[t] = t
    /\ pc[t] = "exitSearch" => prev[t] \in Linked /\ next[t] # t
    /\ t \in Live => t \in allocated \/ pc[t] = "exitSwitch"
    /\ t \notin allocated => next[t] = Null
    /\ pc[t] = "exitSwitch" => t \notin allocated
LocalInv == \A t \in Tasks : LocalsOf(t)

\* No two forks have one child.
ChildInv ==
    \A t, u \in {v \in Tasks : pc[v] \in Making \cup Linking} :
        obj[t] = obj[u] => t = u

\* The tasks whose pid is decided.
Named == Live \cup {obj[t] : t \in {u \in Tasks : pc[u] \in {"forkStacks", "forkCopy"}}}

PidInv ==
    /\ nextPid > 0
    /\ \A t \in Tasks : pid[t] < nextPid
    /\ \A t \in Named : pid[t] > 0 \/ pc[t] = "exitSwitch"
    /\ \A t, u \in Named : t # u => pid[t] # pid[u]
    /\ \A t \in Tasks : pc[t] = "forkPidWrite" => got[t] = nextPid

\* The inductive invariant.
IInv == TypeOK /\ FrameInv /\ RingInv /\ LocalInv /\ ChildInv /\ PidInv
-----------------------------------------------------------------------------
(* Facts used below.                                                       *)

\* The running code of a task that is not on its way out is the current task's.
LEMMA Running ==
    ASSUME IInv, pc[cpu] \notin {"exitHead", "exitCurrent", "exitFree", "exitSwitch"}
    PROVE  /\ cpu = current /\ cpu \in Linked /\ cpu \in Live /\ cpu \in allocated
           /\ next[cpu] \in Linked
<1>1. /\ cpu \in Tasks /\ cpu = current /\ cpu \in Live /\ cpu \in Linked
      /\ next[cpu] \in Linked
  BY DEF IInv, TypeOK, FrameInv, RingInv
<1>2. cpu \in allocated
  BY <1>1 DEF IInv, LocalInv, LocalsOf
<1> QED BY <1>1, <1>2

LEMMA InitInv == Init => IInv
<1> USE TasksAssumption
<1> SUFFICES ASSUME Init PROVE IInv
  OBVIOUS
<1>1. TypeOK
  BY DEF Init, TypeOK, TaskOrNull, Points, InFork, InExit, Frame
<1>2. Linked = {Idle, First} /\ Live = {Idle, First} /\ Named = Live
  BY DEF Init, Linked, Apart, Live, Named
<1>3. FrameInv
  BY <1>2 DEF Init, FrameInv, Windows, InExit, Frame
<1>4. RingInv
  BY <1>2 DEF Init, RingInv
<1>5. LocalInv /\ ChildInv
  BY <1>2 DEF Init, LocalInv, LocalsOf, ChildInv, Making, Linking, InExit
<1>6. PidInv
  BY <1>2 DEF Init, PidInv
<1> QED BY <1>1, <1>3, <1>4, <1>5, <1>6 DEF IInv

\* A step that leaves the ring, the frames and the pids alone and moves the running
\* task between points where it holds no child and is not on its way out.
Plain == {"user", "return", "fork", "exit", "spin"}

LEMMA PlainStep ==
    ASSUME IInv, TypeOK', pc[cpu] \in Plain,
           NEW q \in Plain, pc' = [pc EXCEPT ![cpu] = q],
           UNCHANGED <<tcbs, sched, head, nextPid>>,
           \A t \in Tasks \ {cpu} :
               obj'[t] = obj[t] /\ prev'[t] = prev[t] /\ got'[t] = got[t]
    PROVE  IInv'
<1> USE DEF tcbs, sched
<1>1. cpu \in Linked /\ cpu \in allocated /\ cpu \in Tasks
  BY Running DEF Plain, IInv, TypeOK
<1>2. Linked' = Linked /\ Live' = Live /\ Named' = Named
  BY <1>1 DEF Linked, Apart, Live, Named, IInv, TypeOK, Plain
<1>3. FrameInv'
  BY <1>2 DEF IInv, TypeOK, FrameInv, Plain
<1>4. RingInv'
  BY <1>2 DEF IInv, TypeOK, RingInv, Plain
<1>5. LocalInv'
  <2> SUFFICES ASSUME NEW t \in Tasks PROVE LocalsOf(t)'
    BY DEF LocalInv
  <2>1. CASE t = cpu
    BY <1>1, <1>2, <2>1 DEF IInv, TypeOK, LocalsOf, Plain, Making, Linking, InExit
  <2>2. CASE t # cpu
    <3>1. LocalsOf(t)
      BY DEF IInv, LocalInv
    <3>2. pc'[t] = pc[t] /\ obj'[t] = obj[t] /\ prev'[t] = prev[t]
      BY <2>2 DEF IInv, TypeOK
    <3>3. pc[t] \in Making \cup Linking => pc'[obj[t]] = pc[obj[t]]
      <4>1. pc[t] \in Making \cup Linking => obj[t] # cpu
        BY <1>1, <3>1 DEF LocalsOf
      <4> QED BY <4>1 DEF IInv, TypeOK
    <3> QED BY <1>2, <3>1, <3>2, <3>3 DEF LocalsOf
  <2> QED BY <2>1, <2>2
<1>6. ChildInv'
  BY DEF IInv, TypeOK, ChildInv, Plain, Making, Linking
<1>7. PidInv'
  BY <1>2 DEF IInv, TypeOK, PidInv, Plain
<1> QED BY <1>3, <1>4, <1>5, <1>6, <1>7 DEF IInv

LEMMA PlainSteps ==
    ASSUME IInv, NEW t \in Tasks,
           \/ SyscallFork(t) \/ SyscallExitGroup(t) \/ SyscallExit(t)
           \/ Return(t) \/ ForkNoMemory(t)
    PROVE  IInv'
<1>1. PICK q \in Plain : pc' = [pc EXCEPT ![cpu] = q]
  BY DEF SyscallFork, SyscallExitGroup, SyscallExit, Return, ForkNoMemory, At, Goto, Plain
<1>2. pc[cpu] \in Plain /\ cpu = t
  BY DEF SyscallFork, SyscallExitGroup, SyscallExit, Return, ForkNoMemory, At, Plain
<1>3. UNCHANGED <<tcbs, sched, head, nextPid>>
  BY DEF SyscallFork, SyscallExitGroup, SyscallExit, Return, ForkNoMemory
<1>4. /\ obj' \in [Tasks -> TaskOrNull] /\ prev' \in [Tasks -> TaskOrNull]
      /\ got' \in [Tasks -> Nat]
      /\ \A u \in Tasks \ {cpu} :
            obj'[u] = obj[u] /\ prev'[u] = prev[u] /\ got'[u] = got[u]
  BY <1>2
  DEF IInv, TypeOK, TaskOrNull, SyscallFork, SyscallExitGroup, SyscallExit, Return,
      ForkNoMemory, locals
<1>5. TypeOK'
  BY <1>1, <1>3, <1>4 DEF IInv, TypeOK, tcbs, sched, Plain, Points, InFork, InExit
<1> QED BY <1>1, <1>2, <1>3, <1>4, <1>5, PlainStep
-----------------------------------------------------------------------------
(* task_fork: one lemma per step.                                          *)

\* No task that waits is about to have its stack switched away for good.
LEMMA NobodyLeaving ==
    ASSUME IInv, pc[cpu] \in Making \cup Linking \cup Plain
    PROVE  \A t \in Tasks : pc[t] # "exitSwitch" /\ (t \in Live => t \in allocated)
<1> SUFFICES ASSUME NEW t \in Tasks PROVE pc[t] # "exitSwitch"
  BY DEF IInv, LocalInv, LocalsOf
<1>1. t # cpu /\ t \in Live => pc[t] # "exitSwitch"
  BY DEF IInv, FrameInv, Windows, InExit
<1> QED BY <1>1 DEF Live, Making, Linking, Plain

\* A step of a fork that keeps the ring, and moves the running task from p to q.
LEMMA ForkMoves ==
    ASSUME IInv,
           pc[cpu] \in {"fork"} \cup Making,
           NEW q \in Making \cup {"forkLink"},
           pc'[cpu] = q, UNCHANGED <<next, current, cpu, tss, head>>,
           \A t \in Tasks \ {cpu} : pc[t] # "none" => pc'[t] = pc[t],
           Live' = Live \/ pc' = [pc EXCEPT ![cpu] = "forkLink", ![obj[cpu]] = "user"],
           \A t \in Live' \ {cpu} : saved'[t] = Frame(t, pc'[t])
    PROVE  Linked' = Linked /\ FrameInv' /\ RingInv'
<1>1. cpu \in Linked /\ cpu \in Live /\ cpu \in Tasks /\ Linked \subseteq Live
  BY Running DEF Making, IInv, TypeOK, RingInv
<1>2. Linked' = Linked
  BY DEF Linked, Apart, Making
<1>3. Live \subseteq Live'
  BY <1>1 DEF Live, Making
<1>4. RingInv'
  BY <1>2, <1>3 DEF IInv, RingInv, Making
<1>5. FrameInv'
  <2>1. cpu' \in Live'
    BY <1>1, <1>3
  <2>2. ASSUME NEW t \in Live' \ {cpu}
        PROVE  pc'[t] \notin Windows
    <3>1. CASE t \in Live
      BY <2>2, <3>1 DEF IInv, FrameInv, Live
    <3>2. CASE t \notin Live
      BY <2>2, <3>2 DEF IInv, TypeOK, Live, Windows, InExit
    <3> QED BY <3>1, <3>2
  <2>3. cpu = current /\ (tss = cpu \/ cpu = Idle)
    BY DEF IInv, FrameInv, Making
  <2>4. \A t \in Tasks : pc'[t] = "hlt" <=> t = Idle
    <3>1. cpu # Idle /\ Idle \in Live /\ Idle \in Tasks
      BY TasksAssumption DEF IInv, FrameInv, Making, Live
    <3>2. pc'[Idle] = "hlt"
      BY <3>1 DEF IInv, FrameInv, Live
    <3>3. ASSUME NEW t \in Tasks, pc'[t] = "hlt" PROVE t = Idle
      <4>1. t # cpu
        BY <3>3 DEF Making
      <4>2. CASE t \in Live
        BY <3>3, <4>1, <4>2 DEF IInv, FrameInv, Live
      <4>3. CASE t \notin Live
        BY <3>3, <4>1, <4>3 DEF Live, IInv, TypeOK
      <4> QED BY <4>2, <4>3
    <3> QED BY <3>2, <3>3
  <2> QED BY <2>1, <2>2, <2>3, <2>4 DEF FrameInv
<1> QED BY <1>2, <1>4, <1>5

LEMMA ForkAllocStep ==
    ASSUME IInv, ForkAlloc(cpu) PROVE IInv'
<1> USE DEF tcbs, sched, locals
<1>1. PICK c \in Tasks \ allocated :
        allocated' = allocated \cup {c} /\ obj' = [obj EXCEPT ![cpu] = c]
  BY DEF ForkAlloc
<1>2. /\ pc[cpu] = "fork" /\ pc' = [pc EXCEPT ![cpu] = "forkPid"]
      /\ UNCHANGED <<next, pid, kstack, ustack, saved, current, cpu, tss, prev, got, head, nextPid>>
  BY DEF ForkAlloc, At, Goto
<1>3. cpu \in Linked /\ cpu \in allocated /\ cpu \in Tasks
  BY <1>2, Running DEF IInv, TypeOK
<1>4. /\ next[c] = Null /\ pc[c] = "none" /\ c # cpu /\ c \notin Linked
      /\ \A t \in Tasks : pc[t] # "exitSwitch" /\ (t \in Live => t \in allocated)
  BY <1>1, <1>2, <1>3, NobodyLeaving DEF IInv, LocalInv, LocalsOf, Live, Plain, Linked
<1>5. TypeOK'
  BY <1>1, <1>2 DEF IInv, TypeOK, TaskOrNull, Points, InFork
<1>6. Live' = Live /\ Named' = Named
  BY <1>1, <1>2, <1>3 DEF Live, Named, IInv, TypeOK
<1>7. Linked' = Linked /\ FrameInv' /\ RingInv'
  <2>1. pc'[cpu] = "forkPid" /\ \A t \in Tasks \ {cpu} : pc'[t] = pc[t]
    BY <1>2, <1>3 DEF IInv, TypeOK
  <2>2. \A t \in Live' \ {cpu} : saved'[t] = Frame(t, pc'[t])
    BY <1>2, <1>6, <2>1 DEF IInv, FrameInv, Live
  <2> QED BY <1>2, <1>6, <2>1, <2>2, ForkMoves DEF Making
<1>8. LocalInv'
  <2> SUFFICES ASSUME NEW t \in Tasks PROVE LocalsOf(t)'
    BY DEF LocalInv
  <2>1. CASE t = cpu
    BY <1>1, <1>2, <1>3, <1>4, <1>7, <2>1
    DEF IInv, TypeOK, LocalsOf, Making, Linking, InExit
  <2>2. CASE t # cpu
    <3>1. LocalsOf(t)
      BY DEF IInv, LocalInv
    <3>2. pc'[t] = pc[t] /\ obj'[t] = obj[t] /\ prev'[t] = prev[t] /\ pc[t] # "exitSwitch"
      BY <1>1, <1>2, <1>4, <2>2 DEF IInv, TypeOK
    <3>3. pc[t] \in Making \cup Linking => pc'[obj[t]] = pc[obj[t]]
      <4>1. pc[t] \in Making \cup Linking => obj[t] # cpu
        BY <1>3, <3>1 DEF LocalsOf
      <4> QED BY <1>2, <4>1 DEF IInv, TypeOK
    <3> QED BY <1>1, <1>2, <1>6, <1>7, <3>1, <3>2, <3>3 DEF LocalsOf
  <2> QED BY <2>1, <2>2
<1>9. ChildInv'
  <2>1. \A t \in Tasks : pc[t] \in Making \cup Linking => obj[t] # c
    BY <1>1 DEF IInv, LocalInv, LocalsOf
  <2> QED BY <1>1, <1>2, <2>1 DEF IInv, TypeOK, ChildInv, Making, Linking
<1>10. PidInv'
  BY <1>2, <1>6 DEF IInv, TypeOK, PidInv
<1> QED BY <1>5, <1>7, <1>8, <1>9, <1>10 DEF IInv
\* The steps that fill in the child.
LEMMA MakingStep ==
    ASSUME IInv, TypeOK', PidInv', pc[cpu] \in Making, NEW q \in Making,
           pc' = [pc EXCEPT ![cpu] = q],
           UNCHANGED <<allocated, next, sched, obj, prev, head>>
    PROVE  IInv'
<1> USE DEF sched
<1>1. cpu \in Linked /\ cpu \in Tasks /\ cpu \in Live
  BY Running DEF Making, IInv, TypeOK
<1>2. Live' = Live
  BY <1>1 DEF Live, Making, IInv, TypeOK
<1>3. Linked' = Linked /\ FrameInv' /\ RingInv'
  <2>1. pc'[cpu] = q /\ \A t \in Tasks \ {cpu} : pc'[t] = pc[t]
    BY <1>1 DEF IInv, TypeOK
  <2>2. \A t \in Live' \ {cpu} : saved'[t] = Frame(t, pc'[t])
    BY <1>2, <2>1 DEF IInv, FrameInv, Live
  <2> QED BY <1>2, <2>1, <2>2, ForkMoves
<1>4. LocalInv'
  <2> SUFFICES ASSUME NEW t \in Tasks PROVE LocalsOf(t)'
    BY DEF LocalInv
  <2>1. LocalsOf(t)
    BY DEF IInv, LocalInv
  <2>2. pc[t] \in Making \cup Linking => pc'[obj[t]] = pc[obj[t]]
    <3>1. pc[t] \in Making \cup Linking => obj[t] # cpu
      BY <1>1, <2>1 DEF LocalsOf
    <3> QED BY <3>1 DEF IInv, TypeOK
  <2>3. CASE t = cpu
    BY <1>1, <1>2, <1>3, <2>1, <2>2, <2>3
    DEF IInv, TypeOK, LocalsOf, Making, Linking, InExit
  <2>4. CASE t # cpu
    <3>1. pc'[t] = pc[t]
      BY <2>4 DEF IInv, TypeOK
    <3> QED BY <1>2, <1>3, <2>1, <2>2, <3>1 DEF LocalsOf
  <2> QED BY <2>3, <2>4
<1>5. ChildInv'
  <2>1. {v \in Tasks : pc'[v] \in Making \cup Linking}
            = {v \in Tasks : pc[v] \in Making \cup Linking}
    BY DEF IInv, TypeOK
  <2> QED BY <2>1 DEF IInv, ChildInv
<1> QED BY <1>3, <1>4, <1>5 DEF IInv

LEMMA ForkPidStep ==
    ASSUME IInv, ForkPid(cpu) PROVE IInv'
<1> USE DEF tcbs, sched
<1>1. /\ pc[cpu] = "forkPid" /\ pc' = [pc EXCEPT ![cpu] = "forkPidWrite"]
      /\ got' = [got EXCEPT ![cpu] = nextPid]
      /\ UNCHANGED <<tcbs, sched, obj, prev, head, nextPid>>
  BY DEF ForkPid, At, Goto
<1>2. TypeOK'
  BY <1>1 DEF IInv, TypeOK, Points, InFork
<1>3. PidInv'
  <2>1. Live' = Live /\ Named' = Named
    BY <1>1 DEF Live, Named, IInv, TypeOK
  <2>2. \A t \in Tasks : pc'[t] = "forkPidWrite" => got'[t] = nextPid
    BY <1>1 DEF IInv, TypeOK, PidInv
  <2> QED BY <1>1, <2>1, <2>2 DEF IInv, TypeOK, PidInv
<1> QED BY <1>1, <1>2, <1>3, MakingStep DEF Making

LEMMA ForkPidWriteStep ==
    ASSUME IInv, ForkPidWrite(cpu) PROVE IInv'
<1> USE DEF tcbs, sched, locals
<1> DEFINE c == obj[cpu]
<1>1. /\ pc[cpu] = "forkPidWrite" /\ pc' = [pc EXCEPT ![cpu] = "forkStacks"]
      /\ nextPid' = nextPid + 1 /\ pid' = [pid EXCEPT ![c] = nextPid]
      /\ UNCHANGED <<allocated, next, kstack, ustack, sched, locals, head>>
      /\ cpu \in Tasks
  BY DEF ForkPidWrite, At, Goto, IInv, TypeOK, PidInv
<1>2. c \in Tasks /\ pc[c] = "none" /\ c # cpu
  BY <1>1 DEF IInv, TypeOK, LocalInv, LocalsOf, Making
<1>3. TypeOK'
  BY <1>1, <1>2 DEF IInv, TypeOK, Points, InFork
<1>4. PidInv'
  <2>1. Named' = Named \cup {c}
    BY <1>1 DEF Named, Live, IInv, TypeOK
  <2>2. c \notin Named
    <3>1. \A t \in Tasks : pc[t] \in {"forkStacks", "forkCopy"} => obj[t] # c
      BY <1>1 DEF IInv, ChildInv, Making
    <3> QED BY <1>2, <3>1 DEF Named, Live
  <2>3. \A t \in Named : t \in Tasks /\ pid'[t] = pid[t]
    BY <1>1, <2>2 DEF IInv, TypeOK, Named, Live, LocalInv, LocalsOf, Making
  <2>4. pid'[c] = nextPid /\ nextPid \in Nat /\ \A t \in Tasks : pid[t] \in Nat
    BY <1>1, <1>2 DEF IInv, TypeOK
  <2>5. \A t \in Tasks : pid'[t] < nextPid'
    BY <1>1, <1>2, <2>4 DEF IInv, TypeOK, PidInv
  <2>6. \A t \in Named' : pid'[t] > 0 \/ pc'[t] = "exitSwitch"
    <3>1. \A t \in Named : pc[t] = "exitSwitch" => pc'[t] = "exitSwitch"
      BY <1>1, <2>3 DEF IInv, TypeOK
    <3> QED BY <1>1, <2>1, <2>3, <2>4, <3>1 DEF IInv, PidInv
  <2>7. \A t, u \in Named' : t # u => pid'[t] # pid'[u]
    BY <2>1, <2>3, <2>4 DEF IInv, PidInv
  <2>8. \A t \in Tasks : pc'[t] # "forkPidWrite"
    <3>1. \A t \in Tasks \ {cpu} : pc[t] # "forkPidWrite"
      BY DEF IInv, FrameInv, Windows, Live
    <3> QED BY <1>1, <3>1 DEF IInv, TypeOK
  <2> QED BY <1>1, <2>4, <2>5, <2>6, <2>7, <2>8 DEF IInv, PidInv
<1> QED BY <1>1, <1>3, <1>4, MakingStep DEF Making

LEMMA ForkStacksStep ==
    ASSUME IInv, ForkStacks(cpu) PROVE IInv'
<1> USE DEF tcbs, sched, locals
<1>1. /\ pc[cpu] = "forkStacks" /\ pc' = [pc EXCEPT ![cpu] = "forkCopy"]
      /\ UNCHANGED <<allocated, next, pid, sched, locals, head, nextPid>>
      /\ cpu \in Tasks
  BY DEF ForkStacks, At, Goto, IInv, TypeOK
<1>2. obj[cpu] \in Tasks
  BY <1>1 DEF IInv, TypeOK, LocalInv, LocalsOf, Making
<1>3. TypeOK'
  <2>1. \E a, b \in TaskOrNull :
            /\ kstack' = [kstack EXCEPT ![obj[cpu]] = a]
            /\ ustack' = [ustack EXCEPT ![obj[cpu]] = b]
    BY <1>2 DEF ForkStacks, TaskOrNull
  <2> QED BY <1>1, <2>1, ZenonT(60) DEF IInv, TypeOK, Points, InFork
<1>4. PidInv'
  <2>1. Live' = Live /\ Named' = Named
    BY <1>1 DEF Named, Live, IInv, TypeOK
  <2> QED BY <1>1, <2>1 DEF IInv, TypeOK, PidInv
<1> QED BY <1>1, <1>3, <1>4, MakingStep DEF Making

LEMMA ForkCopyStep ==
    ASSUME IInv, ForkCopy(cpu) PROVE IInv'
<1> USE DEF tcbs, sched, locals
<1> DEFINE c == obj[cpu]
<1>1. /\ pc[cpu] = "forkCopy" /\ saved' = [saved EXCEPT ![c] = Frame(c, "user")]
      /\ pc' = [pc EXCEPT ![cpu] = "forkLink", ![c] = "user"]
      /\ UNCHANGED <<tcbs, current, cpu, tss, locals, head, nextPid>>
      /\ cpu \in Tasks /\ cpu \in Live /\ cpu \in Linked
  BY Running DEF ForkCopy, At, IInv, TypeOK
<1>2. /\ c \in Tasks /\ pc[c] = "none" /\ c # cpu /\ c \in allocated \ Linked
      /\ next[c] = Null
  BY <1>1 DEF IInv, TypeOK, LocalInv, LocalsOf, Making
<1>3. /\ pc'[cpu] = "forkLink" /\ pc'[c] = "user"
      /\ \A t \in Tasks \ {cpu, c} : pc'[t] = pc[t]
  BY <1>1, <1>2 DEF IInv, TypeOK
<1>4. TypeOK'
  <2>1. Frame(c, "user") \in [on : Tasks, at : Points]
    BY <1>2 DEF Frame, Points
  <2> QED BY <1>1, <1>2, <2>1 DEF IInv, TypeOK, Points, InFork
<1>5. Live' = Live \cup {c}
  BY <1>1, <1>2, <1>3 DEF Live
<1>6. Linked' = Linked /\ FrameInv' /\ RingInv'
  <2>1. \A t \in Live' \ {cpu} : saved'[t] = Frame(t, pc'[t])
    BY <1>1, <1>2, <1>3, <1>5 DEF IInv, TypeOK, FrameInv, Live
  <2>2. \A t \in Tasks \ {cpu} : pc[t] # "none" => pc'[t] = pc[t]
    BY <1>2, <1>3
  <2> QED BY <1>1, <1>3, <2>1, <2>2, ForkMoves DEF Making
<1>7. LocalInv'
  <2> SUFFICES ASSUME NEW t \in Tasks PROVE LocalsOf(t)'
    BY DEF LocalInv
  <2>1. CASE t = cpu
    BY <1>1, <1>2, <1>3, <1>6, <2>1 DEF IInv, LocalInv, LocalsOf, Making, Linking, InExit
  <2>2. CASE t = c
    BY <1>1, <1>2, <1>3, <1>6, <2>2 DEF IInv, LocalInv, LocalsOf, Making, Linking, InExit
  <2>3. CASE t \notin {cpu, c}
    <3>1. LocalsOf(t) /\ pc'[t] = pc[t]
      BY <1>3, <2>3 DEF IInv, LocalInv
    <3>2. pc[t] \in Making \cup Linking => pc'[obj[t]] = pc[obj[t]]
      <4>1. pc[t] \in Making \cup Linking => obj[t] \in Tasks \ {cpu, c}
        BY <1>1, <2>3, <3>1 DEF IInv, TypeOK, LocalsOf, ChildInv, Making
      <4> QED BY <1>3, <4>1
    <3>3. t \in Live' <=> t \in Live
      BY <1>5, <2>3
    <3> QED BY <1>1, <1>6, <3>1, <3>2, <3>3 DEF LocalsOf
  <2> QED BY <2>1, <2>2, <2>3
<1>8. ChildInv'
  <2>1. \A t \in Tasks : pc'[t] \in Making \cup Linking => pc[t] \in Making \cup Linking
    BY <1>1, <1>2, <1>3 DEF Making, Linking
  <2> QED BY <1>1, <2>1 DEF IInv, ChildInv
<1>9. PidInv'
  <2>1. Named' = Named
    <3>1. \A t \in Tasks : pc'[t] \in {"forkStacks", "forkCopy"}
                          <=> t # cpu /\ pc[t] \in {"forkStacks", "forkCopy"}
      BY <1>1, <1>2, <1>3
    <3> QED BY <1>1, <1>5, <3>1 DEF Named
  <2>2. /\ c \in Named
        /\ \A t \in Tasks : pc'[t] \in {"forkPidWrite", "exitSwitch"} <=>
              pc[t] = pc'[t] /\ pc[t] \in {"forkPidWrite", "exitSwitch"}
    BY <1>1, <1>2, <1>3 DEF Named
  <2>3. \A t \in Named : pc[t] = "exitSwitch" => pc'[t] = "exitSwitch"
    BY <1>1, <1>2, <1>3 DEF Named, Live, IInv, TypeOK, LocalInv, LocalsOf, Making
  <2> QED BY <1>1, <2>1, <2>2, <2>3 DEF IInv, PidInv
<1> QED BY <1>4, <1>6, <1>7, <1>8, <1>9 DEF IInv

\* The two writes of the link.  Until the second, the child is apart from the ring.
LEMMA ForkLinkStep ==
    ASSUME IInv, ForkLink(cpu) PROVE IInv'
<1> USE DEF tcbs, sched, locals
<1> DEFINE c == obj[cpu]
<1>1. /\ pc[cpu] = "forkLink" /\ pc' = [pc EXCEPT ![cpu] = "forkLinkWrite"]
      /\ next' = [next EXCEPT ![c] = next[head]]
      /\ UNCHANGED <<allocated, pid, kstack, ustack, sched, locals, head, nextPid>>
      /\ cpu \in Tasks /\ cpu \in Live /\ cpu \in Linked
  BY Running DEF ForkLink, At, Goto, IInv, TypeOK
<1>2. c \in Tasks /\ pc[c] = "user" /\ c # cpu /\ c \in allocated \ Linked
  BY <1>1 DEF IInv, TypeOK, LocalInv, LocalsOf, Linking
<1>3. pc'[cpu] = "forkLinkWrite" /\ \A t \in Tasks \ {cpu} : pc'[t] = pc[t]
  BY <1>1 DEF IInv, TypeOK
<1>4. TypeOK'
  BY <1>1 DEF IInv, TypeOK, Points, InFork
<1>5. Live' = Live /\ Named' = Named
  BY <1>1, <1>3 DEF Live, Named
<1>6. /\ Linked' = Linked /\ head # c
      /\ \A t \in Tasks \ {c} : next'[t] = next[t]
  BY <1>1, <1>2 DEF Linked, Apart, IInv, TypeOK, RingInv
<1>7. FrameInv'
  BY <1>1, <1>3, <1>5 DEF IInv, TypeOK, FrameInv
<1>8. RingInv'
  BY <1>1, <1>2, <1>5, <1>6 DEF IInv, TypeOK, RingInv
<1>9. LocalInv'
  <2> SUFFICES ASSUME NEW t \in Tasks PROVE LocalsOf(t)'
    BY DEF LocalInv
  <2>1. LocalsOf(t)
    BY DEF IInv, LocalInv
  <2>2. pc[t] \in Making \cup Linking => pc'[obj[t]] = pc[obj[t]]
    <3>1. pc[t] \in Making \cup Linking => obj[t] \in Tasks \ {cpu}
      BY <1>1, <2>1 DEF IInv, TypeOK, LocalsOf
    <3> QED BY <1>3, <3>1
  <2>3. CASE t = cpu
    <3>1. next'[c] = next'[head] /\ next'[c] = next[head]
      BY <1>1, <1>2, <1>6 DEF IInv, TypeOK
    <3> QED BY <1>1, <1>2, <1>3, <1>6, <2>1, <2>2, <2>3, <3>1
            DEF IInv, LocalsOf, Making, Linking, InExit
  <2>4. CASE t # cpu
    <3>1. pc'[t] = pc[t] /\ pc[t] \notin Windows
      BY <1>3, <2>4 DEF IInv, TypeOK, FrameInv, Live, Windows, InExit
    <3>2. /\ pc[t] \in Making \cup Linking => obj[t] # c /\ obj[t] \in Tasks
          /\ t \notin allocated => t # c
      BY <1>1, <1>2, <2>1, <2>4 DEF IInv, TypeOK, ChildInv, LocalsOf, Linking
    <3>3. pc[t] \notin {"forkLinkWrite", "exitSearch"}
      BY <3>1 DEF Windows, InExit
    <3> QED BY <1>1, <1>5, <1>6, <2>1, <2>2, <3>1, <3>2, <3>3 DEF LocalsOf, Making, Linking
  <2> QED BY <2>3, <2>4
<1>10. ChildInv'
  BY <1>1, <1>3 DEF IInv, ChildInv, Linking
<1>11. PidInv'
  BY <1>1, <1>3, <1>5 DEF IInv, TypeOK, PidInv, Named, Live
<1> QED BY <1>4, <1>7, <1>8, <1>9, <1>10, <1>11 DEF IInv

LEMMA ForkLinkWriteStep ==
    ASSUME IInv, ForkLinkWrite(cpu) PROVE IInv'
<1> USE DEF tcbs, sched, locals
<1> DEFINE c == obj[cpu]
<1>1. /\ pc[cpu] = "forkLinkWrite" /\ pc' = [pc EXCEPT ![cpu] = "return"]
      /\ next' = [next EXCEPT ![head] = c]
      /\ UNCHANGED <<allocated, pid, kstack, ustack, sched, locals, head, nextPid>>
      /\ cpu \in Tasks /\ cpu \in Live /\ cpu \in Linked
  BY Running DEF ForkLinkWrite, At, Goto, IInv, TypeOK
<1>2. /\ c \in Tasks /\ pc[c] = "user" /\ c # cpu /\ c \in allocated \ Linked
      /\ c \in Live /\ next[c] = next[head] /\ next[c] \in Linked /\ c # Null
      /\ head \in Linked /\ head # c /\ head \in Tasks
  BY <1>1, TasksAssumption DEF IInv, TypeOK, LocalInv, LocalsOf, Linking, RingInv, Live
<1>3. pc'[cpu] = "return" /\ \A t \in Tasks \ {cpu} : pc'[t] = pc[t]
  BY <1>1 DEF IInv, TypeOK
<1>4. TypeOK'
  BY <1>1, <1>2 DEF IInv, TypeOK, Points
<1>5. Live' = Live /\ Named' = Named
  BY <1>1, <1>3 DEF Live, Named
<1>6. /\ next'[head] = c /\ \A t \in Tasks \ {head} : next'[t] = next[t]
      /\ Linked' = Linked \cup {c}
  <2>1. next'[head] = c /\ \A t \in Tasks \ {head} : next'[t] = next[t]
    BY <1>1, <1>2 DEF IInv, TypeOK
  <2>2. Apart = {c} /\ Apart' = {}
    BY <1>1, <1>3 DEF Apart
  <2>3. next[c] # Null /\ next[head] # Null
    BY <1>2, TasksAssumption DEF Linked
  <2> QED BY <1>2, <2>1, <2>2, <2>3 DEF Linked
<1>7. FrameInv'
  BY <1>1, <1>3, <1>5 DEF IInv, TypeOK, FrameInv
<1>8. RingInv'
  <2>1. \A t \in Linked' : next'[t] \in Linked' /\ t \in Live'
    BY <1>2, <1>5, <1>6 DEF IInv, RingInv, Linked
  <2>2. ASSUME NEW t \in Linked', NEW u \in Linked', next'[t] = next'[u]
        PROVE  t = u
    <3>1. \A v \in Linked : next[v] \in Linked
      BY DEF IInv, RingInv
    <3>2. \A v, w \in Linked : next[v] = next[w] => v = w
      BY DEF IInv, RingInv
    <3>3. next'[c] = next[head]
      BY <1>2, <1>6
    <3>4. \A v \in Linked \ {head} : next'[v] = next[v] /\ next[v] # next[head] /\ next[v] # c
      BY <1>2, <1>6, <3>1, <3>2 DEF Linked
    <3>5. next'[c] # c /\ next'[head] = c
      BY <1>2, <1>6
    <3> QED BY <1>2, <1>6, <2>2, <3>2, <3>3, <3>4, <3>5
  <2> QED BY <1>1, <1>3, <1>6, <2>1, <2>2 DEF IInv, RingInv
<1>9. LocalInv'
  <2> SUFFICES ASSUME NEW t \in Tasks PROVE LocalsOf(t)'
    BY DEF LocalInv
  <2>1. LocalsOf(t)
    BY DEF IInv, LocalInv
  <2>2. CASE t = cpu
    BY <1>1, <1>2, <1>3, <1>6, <2>1, <2>2
    DEF IInv, LocalsOf, Making, Linking, InExit, Linked, RingInv
  <2>3. CASE t # cpu
    <3>1. pc'[t] = pc[t] /\ pc[t] \notin {"forkLinkWrite", "exitSearch"}
      BY <1>3, <2>3 DEF IInv, TypeOK, FrameInv, Live, Windows, InExit
    <3>2. /\ pc[t] \in Making \cup Linking =>
                /\ obj[t] # c /\ obj[t] # head /\ obj[t] \in Tasks \ {cpu}
          /\ t \notin allocated => t # head
      BY <1>1, <1>2, <2>1, <2>3, Running
      DEF IInv, TypeOK, ChildInv, LocalInv, LocalsOf, Linking, RingInv, Linked
    <3>3. pc[t] \in Making \cup Linking => pc'[obj[t]] = pc[obj[t]]
      BY <1>3, <3>2
    <3> QED BY <1>1, <1>5, <1>6, <2>1, <3>1, <3>2, <3>3 DEF LocalsOf, Making, Linking
  <2> QED BY <2>2, <2>3
<1>10. ChildInv'
  BY <1>1, <1>3 DEF IInv, ChildInv, Linking, Making
<1>11. PidInv'
  BY <1>1, <1>3, <1>5 DEF IInv, TypeOK, PidInv, Named, Live
<1> QED BY <1>4, <1>7, <1>8, <1>9, <1>10, <1>11 DEF IInv
-----------------------------------------------------------------------------
(* task_destroy.                                                           *)

\* The idle task never exits: its code is the hlt of kernel_main.
LEMMA IdleStays ==
    ASSUME IInv, pc[cpu] \in InExit PROVE cpu # Idle
BY DEF IInv, TypeOK, FrameInv, InExit

\* No task but the running one is in a window.
LEMMA Alone ==
    ASSUME IInv PROVE \A t \in Tasks \ {cpu} : pc[t] \notin Windows
BY DEF IInv, FrameInv, Live, Windows, InExit

\* A step of the search, which moves only the locals of the task that exits.
LEMMA SearchStep ==
    ASSUME IInv, TypeOK', pc[cpu] \in {"exit", "exitSearch"},
           NEW q \in {"halted", "exitSearch"}, pc' = [pc EXCEPT ![cpu] = q],
           UNCHANGED <<tcbs, sched, head, nextPid, got>>,
           \A t \in Tasks \ {cpu} : obj'[t] = obj[t] /\ prev'[t] = prev[t],
           q = "exitSearch" => obj'[cpu] = cpu /\ prev'[cpu] \in Linked /\ next[cpu] # cpu
    PROVE  IInv'
<1> USE DEF tcbs, sched
<1>1. cpu \in Linked /\ cpu \in allocated /\ cpu \in Tasks /\ cpu \in Live
  BY Running DEF IInv, TypeOK
<1>2. pc'[cpu] = q /\ \A t \in Tasks \ {cpu} : pc'[t] = pc[t]
  BY <1>1 DEF IInv, TypeOK
<1>3. Linked' = Linked /\ Live' = Live /\ Named' = Named
  BY <1>1, <1>2 DEF Linked, Apart, Live, Named, IInv, TypeOK
<1>4. FrameInv'
  BY <1>1, <1>2, <1>3 DEF IInv, TypeOK, FrameInv
<1>5. RingInv'
  BY <1>2, <1>3 DEF IInv, RingInv
<1>6. LocalInv'
  <2> SUFFICES ASSUME NEW t \in Tasks PROVE LocalsOf(t)'
    BY DEF LocalInv
  <2>1. LocalsOf(t)
    BY DEF IInv, LocalInv
  <2>2. CASE t = cpu
    BY <1>1, <1>2, <1>3, <2>1, <2>2 DEF LocalsOf, Making, Linking, InExit
  <2>3. CASE t # cpu
    <3>1. pc[t] \in Making \cup Linking => obj[t] \in Tasks \ {cpu}
      BY <1>1, <2>1 DEF LocalsOf, IInv, TypeOK
    <3> QED BY <1>2, <1>3, <2>1, <2>3, <3>1 DEF LocalsOf, Making, Linking
  <2> QED BY <2>2, <2>3
<1>7. ChildInv'
  BY <1>2 DEF IInv, ChildInv, Making, Linking
<1>8. PidInv'
  BY <1>2, <1>3 DEF IInv, TypeOK, PidInv, Named, Live
<1> QED BY <1>4, <1>5, <1>6, <1>7, <1>8 DEF IInv

LEMMA ExitBeginStep ==
    ASSUME IInv, ExitBegin(cpu) PROVE IInv'
<1> USE DEF tcbs, sched
<1>1. /\ pc[cpu] = "exit" /\ obj' = [obj EXCEPT ![cpu] = current]
      /\ prev' = [prev EXCEPT ![cpu] = head]
      /\ UNCHANGED <<tcbs, sched, got, head, nextPid>>
      /\ cpu = current /\ cpu \in Tasks
  BY Running DEF ExitBegin, At, IInv, TypeOK
<1>2. PICK q \in {"halted", "exitSearch"} :
        pc' = [pc EXCEPT ![cpu] = q] /\ (q = "exitSearch" => next[cpu] # cpu)
  BY <1>1 DEF ExitBegin, Goto
<1>3. head \in Linked /\ head \in Tasks
  BY DEF IInv, RingInv, Linked
<1>4. TypeOK'
  BY <1>1, <1>2, <1>3 DEF IInv, TypeOK, TaskOrNull, Points, InExit
<1>5. /\ obj'[cpu] = cpu /\ prev'[cpu] \in Linked
      /\ \A t \in Tasks \ {cpu} : obj'[t] = obj[t] /\ prev'[t] = prev[t]
  BY <1>1, <1>3 DEF IInv, TypeOK
<1> QED BY <1>1, <1>2, <1>4, <1>5, SearchStep

LEMMA ExitSearchStep ==
    ASSUME IInv, ExitSearch(cpu) PROVE IInv'
<1> USE DEF tcbs, sched
<1>1. /\ pc[cpu] = "exitSearch" /\ prev' = [prev EXCEPT ![cpu] = next[prev[cpu]]]
      /\ UNCHANGED <<tcbs, sched, obj, got, head, nextPid, pc>>
      /\ cpu \in Tasks
  BY DEF ExitSearch, At, IInv, TypeOK
<1>2. /\ obj[cpu] = cpu /\ next[cpu] # cpu
      /\ next[prev[cpu]] \in Linked /\ next[prev[cpu]] \in Tasks
  BY <1>1 DEF IInv, LocalInv, LocalsOf, RingInv, InExit, Linked
<1>3. TypeOK'
  BY <1>1, <1>2 DEF IInv, TypeOK, TaskOrNull
<1>4. pc' = [pc EXCEPT ![cpu] = "exitSearch"]
  BY <1>1 DEF IInv, TypeOK
<1>5. /\ prev'[cpu] \in Linked
      /\ \A t \in Tasks \ {cpu} : obj'[t] = obj[t] /\ prev'[t] = prev[t]
  BY <1>1, <1>2 DEF IInv, TypeOK
<1> QED BY <1>1, <1>2, <1>3, <1>4, <1>5, SearchStep

LEMMA ExitUnlinkStep ==
    ASSUME IInv, ExitUnlink(cpu) PROVE IInv'
<1> USE DEF tcbs, sched, locals
<1> DEFINE p == prev[cpu]
<1>1. /\ pc[cpu] = "exitSearch" /\ pc' = [pc EXCEPT ![cpu] = "exitHead"]
      /\ next[p] = obj[cpu] /\ next' = [next EXCEPT ![p] = next[obj[cpu]]]
      /\ UNCHANGED <<allocated, pid, kstack, ustack, sched, locals, head, nextPid>>
      /\ cpu \in Tasks /\ cpu \in Live /\ cpu \in Linked /\ next[cpu] \in Linked
      /\ cpu # Idle
  BY Running, IdleStays DEF ExitUnlink, At, Goto, IInv, TypeOK, InExit
<1>2. obj[cpu] = cpu /\ p \in Linked /\ next[cpu] # cpu /\ p # cpu /\ p \in Tasks
  BY <1>1 DEF IInv, LocalInv, LocalsOf, InExit, Linked
<1>3. pc'[cpu] = "exitHead" /\ \A t \in Tasks \ {cpu} : pc'[t] = pc[t]
  BY <1>1 DEF IInv, TypeOK
<1>4. TypeOK'
  BY <1>1, <1>2 DEF IInv, TypeOK, Points, InExit
<1>5. Live' = Live /\ Named' = Named
  BY <1>1, <1>3 DEF Live, Named
<1>6. /\ next'[p] = next[cpu] /\ \A t \in Tasks \ {p} : next'[t] = next[t]
      /\ Linked' = Linked \ {cpu}
  <2>1. next'[p] = next[cpu] /\ \A t \in Tasks \ {p} : next'[t] = next[t]
    BY <1>1, <1>2 DEF IInv, TypeOK
  <2>2. Apart = {} /\ Apart' = {cpu}
    BY <1>1, <1>2, <1>3 DEF Apart
  <2>3. next[p] # Null /\ next[cpu] # Null
    BY <1>1, <1>2 DEF Linked
  <2> QED BY <1>2, <2>1, <2>2, <2>3 DEF Linked
<1>7. FrameInv'
  BY <1>1, <1>3, <1>5 DEF IInv, TypeOK, FrameInv
<1>8. RingInv'
  <2>1. \A v \in Linked : next[v] \in Linked
    BY DEF IInv, RingInv
  <2>2. \A v, w \in Linked : next[v] = next[w] => v = w
    BY DEF IInv, RingInv
  <2>3. \A v \in Linked \ {p} : next'[v] = next[v] /\ next[v] # cpu
    BY <1>1, <1>2, <1>6, <2>2 DEF Linked
  <2>4. \A t \in Linked' : next'[t] \in Linked' /\ t \in Live'
    BY <1>1, <1>2, <1>5, <1>6, <2>1, <2>3 DEF IInv, RingInv
  <2>5. \A t, u \in Linked' : next'[t] = next'[u] => t = u
    BY <1>1, <1>2, <1>6, <2>2, <2>3
  <2>6. next'[cpu] \in Linked'
    BY <1>1, <1>2, <1>6
  <2>7. head' = Idle /\ Idle \in Linked'
    BY <1>1, <1>6 DEF IInv, RingInv
  <2> QED BY <1>1, <1>3, <2>4, <2>5, <2>6, <2>7 DEF RingInv
<1>9. LocalInv'
  <2> SUFFICES ASSUME NEW t \in Tasks PROVE LocalsOf(t)'
    BY DEF LocalInv
  <2>1. LocalsOf(t)
    BY DEF IInv, LocalInv
  <2>2. t \notin allocated => t # p
    BY <1>1, <1>2, Alone DEF IInv, RingInv, LocalInv, LocalsOf, Windows, InExit
  <2>3. CASE t = cpu
    BY <1>1, <1>2, <1>3, <1>6, <2>1, <2>2, <2>3
    DEF LocalsOf, Making, Linking, InExit, Live
  <2>4. CASE t # cpu
    <3>1. pc'[t] = pc[t] /\ pc[t] \notin {"forkLinkWrite", "exitSearch"}
      BY <1>3, <2>4, Alone DEF Windows, InExit
    <3>2. pc[t] \in Making \cup Linking =>
                obj[t] # p /\ obj[t] \in Tasks \ {cpu}
      BY <1>1, <1>2, <2>1 DEF IInv, TypeOK, LocalsOf
    <3> QED BY <1>1, <1>3, <1>5, <1>6, <2>1, <2>2, <3>1, <3>2 DEF LocalsOf, Making, Linking
  <2> QED BY <2>3, <2>4
<1>10. ChildInv'
  BY <1>1, <1>3 DEF IInv, ChildInv, Linking, Making
<1>11. PidInv'
  BY <1>1, <1>3, <1>5 DEF IInv, TypeOK, PidInv, Named, Live
<1> QED BY <1>4, <1>7, <1>8, <1>9, <1>10, <1>11 DEF IInv

\* dead_task is not the head, so the head stays; then current_task moves on.
LEMMA ExitHeadCurrentStep ==
    ASSUME IInv, ExitHead(cpu) \/ ExitCurrent(cpu) PROVE IInv'
<1> USE DEF tcbs, sched, locals
<1>1. pc[cpu] \in {"exitHead", "exitCurrent"} /\ cpu \in Tasks /\ cpu # Idle
  BY IdleStays DEF ExitHead, ExitCurrent, At, IInv, TypeOK, InExit
<1>2. obj[cpu] = cpu /\ head # cpu /\ next[cpu] \in Linked /\ next[cpu] \in Tasks
  BY <1>1 DEF IInv, LocalInv, LocalsOf, RingInv, InExit, Linked
<1>3. UNCHANGED <<tcbs, saved, cpu, tss, locals, head, nextPid>>
  BY <1>1, <1>2 DEF ExitHead, ExitCurrent
<1>4. \/ pc[cpu] = "exitHead" /\ pc' = [pc EXCEPT ![cpu] = "exitCurrent"] /\ current' = current
      \/ pc[cpu] = "exitCurrent" /\ pc' = [pc EXCEPT ![cpu] = "exitFree"] /\ current' = next[cpu]
  BY <1>2 DEF ExitHead, ExitCurrent, At, Goto
<1>5. TypeOK'
  BY <1>1, <1>2, <1>3, <1>4 DEF IInv, TypeOK, Points, InExit
<1>6. /\ \A t \in Tasks \ {cpu} : pc'[t] = pc[t]
      /\ \/ pc[cpu] = "exitHead" /\ pc'[cpu] = "exitCurrent" /\ current' = current
         \/ pc[cpu] = "exitCurrent" /\ pc'[cpu] = "exitFree" /\ current' = next[cpu]
  BY <1>1, <1>4 DEF IInv, TypeOK
<1>7. Live' = Live /\ Named' = Named /\ Linked' = Linked
  BY <1>1, <1>3, <1>6 DEF Live, Named, Linked, Apart
<1>8. FrameInv'
  <2>1. \A t \in Live \ {cpu} : t \in Tasks /\ pc'[t] = pc[t]
    BY <1>6 DEF Live
  <2>2. \A t \in Tasks : pc'[t] = "hlt" <=> t = Idle
    BY <1>1, <1>6 DEF IInv, FrameInv
  <2>3. cpu = current' \/ pc'[cpu] \in {"exitFree", "exitSwitch"}
    BY <1>6 DEF IInv, FrameInv
  <2> QED BY <1>3, <1>7, <2>1, <2>2, <2>3 DEF IInv, FrameInv
<1>9. RingInv'
  BY <1>1, <1>2, <1>3, <1>6, <1>7 DEF IInv, RingInv
<1>10. LocalInv'
  <2> SUFFICES ASSUME NEW t \in Tasks PROVE LocalsOf(t)'
    BY DEF LocalInv
  <2>1. LocalsOf(t)
    BY DEF IInv, LocalInv
  <2>2. CASE t = cpu
    BY <1>1, <1>2, <1>3, <1>6, <1>7, <2>1, <2>2 DEF LocalsOf, Making, Linking, InExit
  <2>3. CASE t # cpu
    <3>1. pc[t] \in Making \cup Linking => obj[t] \in Tasks \ {cpu}
      BY <1>1, <2>1 DEF IInv, TypeOK, LocalsOf
    <3> QED BY <1>3, <1>6, <1>7, <2>1, <2>3, <3>1 DEF LocalsOf, Making, Linking
  <2> QED BY <2>2, <2>3
<1>11. ChildInv'
  BY <1>1, <1>3, <1>6 DEF IInv, ChildInv, Linking, Making
<1>12. PidInv'
  <2>1. \A t \in Tasks :
            /\ pc[t] = "exitSwitch" => pc'[t] = "exitSwitch"
            /\ pc'[t] = "forkPidWrite" => pc[t] = "forkPidWrite"
    BY <1>1, <1>6
  <2>2. \A t \in Named : t \in Tasks
    BY DEF IInv, TypeOK, Named, Live, LocalInv, LocalsOf, Making
  <2>3. \A t \in Named' : pid'[t] > 0 \/ pc'[t] = "exitSwitch"
    BY <1>3, <1>7, <2>1, <2>2 DEF IInv, PidInv
  <2>4. \A t \in Tasks : pc'[t] = "forkPidWrite" => got'[t] = nextPid'
    BY <1>3, <2>1 DEF IInv, PidInv
  <2> QED BY <1>3, <1>7, <2>3, <2>4 DEF IInv, PidInv
<1> QED BY <1>5, <1>8, <1>9, <1>10, <1>11, <1>12 DEF IInv

LEMMA ExitFreeStep ==
    ASSUME IInv, ExitFree(cpu) PROVE IInv'
<1> USE DEF tcbs, sched, locals
<1>1. /\ pc[cpu] = "exitFree" /\ pc' = [pc EXCEPT ![cpu] = "exitSwitch"]
      /\ cpu \in Tasks /\ cpu \in Live /\ obj[cpu] = cpu
      /\ UNCHANGED <<sched, locals, head, nextPid>>
  BY DEF ExitFree, At, Goto, IInv, TypeOK, FrameInv, LocalInv, LocalsOf, InExit
<1>2. /\ allocated' = allocated \ {cpu}
      /\ kstack' = [kstack EXCEPT ![cpu] = Null] /\ ustack' = [ustack EXCEPT ![cpu] = Null]
      /\ next' = [next EXCEPT ![cpu] = Null] /\ pid' = [pid EXCEPT ![cpu] = 0]
  BY <1>1 DEF ExitFree
<1>3. TypeOK'
  BY <1>1, <1>2 DEF IInv, TypeOK, TaskOrNull, Points, InExit
<1>4. pc'[cpu] = "exitSwitch" /\ \A t \in Tasks \ {cpu} : pc'[t] = pc[t]
  BY <1>1 DEF IInv, TypeOK
<1>5. /\ next'[cpu] = Null /\ \A t \in Tasks \ {cpu} : next'[t] = next[t]
      /\ Linked' = Linked /\ cpu \notin Linked
  <2>1. next'[cpu] = Null /\ \A t \in Tasks \ {cpu} : next'[t] = next[t]
    BY <1>1, <1>2 DEF IInv, TypeOK
  <2>2. Apart = {cpu} /\ Apart' = {}
    BY <1>1, <1>4 DEF Apart
  <2> QED BY <2>1, <2>2 DEF Linked
<1>6. Live' = Live /\ Named' = Named
  BY <1>1, <1>4 DEF Live, Named
<1>7. FrameInv'
  BY <1>1, <1>4, <1>6 DEF IInv, TypeOK, FrameInv
<1>8. RingInv'
  <2>1. \A t \in Linked : next'[t] = next[t]
    BY <1>5 DEF Linked
  <2> QED BY <1>1, <1>4, <1>5, <1>6, <2>1 DEF IInv, RingInv
<1>9. LocalInv'
  <2> SUFFICES ASSUME NEW t \in Tasks PROVE LocalsOf(t)'
    BY DEF LocalInv
  <2>1. LocalsOf(t)
    BY DEF IInv, LocalInv
  <2>2. CASE t = cpu
    BY <1>1, <1>2, <1>4, <1>5, <2>1, <2>2 DEF LocalsOf, Making, Linking, InExit
  <2>3. CASE t # cpu
    <3>1. pc'[t] = pc[t] /\ pc[t] \notin {"forkLinkWrite", "exitSearch", "exitSwitch"}
      BY <1>4, <2>3, Alone DEF Windows, InExit
    <3>2. pc[t] \in Making \cup Linking => obj[t] \in Tasks \ {cpu}
      BY <1>1, <2>1 DEF IInv, TypeOK, LocalsOf
    <3> QED BY <1>1, <1>2, <1>4, <1>5, <1>6, <2>1, <2>3, <3>1, <3>2
            DEF LocalsOf, Making, Linking
  <2> QED BY <2>2, <2>3
<1>10. ChildInv'
  BY <1>1, <1>4 DEF IInv, ChildInv, Linking, Making
<1>11. PidInv'
  <2>1. /\ pid'[cpu] = 0 /\ \A t \in Tasks \ {cpu} : pid'[t] = pid[t]
        /\ \A t \in Tasks : pid[t] \in Nat
    BY <1>1, <1>2 DEF IInv, TypeOK
  <2>2. \A t \in Named \ {cpu} : t \in Tasks /\ pid'[t] > 0 /\ pid'[t] = pid[t]
    <3>1. \A t \in Named : t \in Tasks
      BY DEF IInv, TypeOK, Named, Live, LocalInv, LocalsOf, Making
    <3>2. \A t \in Named \ {cpu} : pc[t] # "exitSwitch"
      BY <3>1, Alone DEF Windows, InExit
    <3> QED BY <2>1, <3>1, <3>2 DEF IInv, PidInv
  <2>3. \A t, u \in Named' : t # u => pid'[t] # pid'[u]
    BY <1>6, <2>1, <2>2 DEF IInv, PidInv
  <2>4. \A t \in Tasks : pid'[t] < nextPid'
    BY <1>1, <2>1 DEF IInv, PidInv
  <2>5. \A t \in Named' : pid'[t] > 0 \/ pc'[t] = "exitSwitch"
    BY <1>4, <1>6, <2>2
  <2> QED BY <1>1, <1>4, <2>3, <2>4, <2>5 DEF IInv, PidInv
<1> QED BY <1>3, <1>7, <1>8, <1>9, <1>10, <1>11 DEF IInv
-----------------------------------------------------------------------------
(* The two stack switches.                                                 *)

\* Loading the frame of a task that waits goes on with the task's own code.
LEMMA LoadOwn ==
    ASSUME NEW u \in Tasks, NEW fs, NEW pcs \in [Tasks -> Points],
           fs[u] = Frame(u, pcs[u]), Load(u, fs, pcs)
    PROVE  cpu' = u /\ tss' = u /\ pc' = pcs /\ saved' = [fs EXCEPT ![u] = Null]
<1>1. fs[u] # Null /\ fs[u].on = u /\ fs[u].at = pcs[u]
  BY TasksAssumption DEF Frame
<1> QED BY <1>1 DEF Load

\* The switch at the end of task_destroy goes on with current_task's own code.
LEMMA ExitSwitchIs ==
    ASSUME IInv, ExitSwitch(cpu)
    PROVE  /\ pc[cpu] = "exitSwitch" /\ cpu \in Tasks /\ cpu \in Live
           /\ obj' = [obj EXCEPT ![cpu] = Null] /\ prev' = [prev EXCEPT ![cpu] = Null]
           /\ UNCHANGED <<tcbs, current, got, head, nextPid>>
           /\ current \in Linked /\ current \in Live /\ current \in Tasks /\ current # cpu
           /\ cpu' = current /\ tss' = current /\ pc' = [pc EXCEPT ![cpu] = "none"]
           /\ saved' = [saved EXCEPT ![current] = Null]
<1> USE DEF tcbs, sched, locals
<1>1. /\ pc[cpu] = "exitSwitch" /\ obj' = [obj EXCEPT ![cpu] = Null]
      /\ prev' = [prev EXCEPT ![cpu] = Null]
      /\ UNCHANGED <<tcbs, current, got, head, nextPid>>
      /\ cpu \in Tasks /\ cpu \in Live
  BY DEF ExitSwitch, At, IInv, TypeOK, FrameInv
<1>2. current \in Linked /\ current \in Live /\ current \in Tasks /\ current # cpu
  <2>1. cpu \notin allocated /\ next[cpu] = Null
    BY <1>1 DEF IInv, LocalInv, LocalsOf
  <2>2. cpu \notin Linked
    BY <2>1 DEF Linked
  <2> QED BY <1>1, <2>2 DEF IInv, RingInv, Linked
<1>3. /\ cpu' = current /\ tss' = current /\ pc' = [pc EXCEPT ![cpu] = "none"]
      /\ saved' = [saved EXCEPT ![current] = Null]
  <2> DEFINE pcs == [pc EXCEPT ![cpu] = "none"]
  <2>1. pcs \in [Tasks -> Points] /\ pcs[current] = pc[current]
    BY <1>1, <1>2 DEF IInv, TypeOK, Points
  <2>2. saved[current] = Frame(current, pcs[current])
    BY <1>2, <2>1 DEF IInv, FrameInv
  <2>3. Load(current, saved, pcs)
    BY DEF ExitSwitch
  <2> HIDE DEF pcs
  <2>4. cpu' = current /\ tss' = current /\ pc' = pcs /\ saved' = [saved EXCEPT ![current] = Null]
    BY <1>2, <2>1, <2>2, <2>3, LoadOwn
  <2> QED BY <2>4 DEF pcs
<1> QED BY <1>1, <1>2, <1>3

LEMMA ExitSwitchStep ==
    ASSUME IInv, ExitSwitch(cpu) PROVE IInv'
<1> USE DEF tcbs, sched, locals
<1>1. /\ pc[cpu] = "exitSwitch" /\ obj' = [obj EXCEPT ![cpu] = Null]
      /\ prev' = [prev EXCEPT ![cpu] = Null]
      /\ UNCHANGED <<tcbs, current, got, head, nextPid>>
      /\ cpu \in Tasks /\ cpu \in Live
  BY ExitSwitchIs
<1>2. current \in Linked /\ current \in Live /\ current \in Tasks /\ current # cpu
  BY ExitSwitchIs
<1>3. /\ cpu' = current /\ tss' = current /\ pc' = [pc EXCEPT ![cpu] = "none"]
      /\ saved' = [saved EXCEPT ![current] = Null]
  BY ExitSwitchIs
<1>4. pc'[cpu] = "none" /\ \A t \in Tasks \ {cpu} : pc'[t] = pc[t]
  BY <1>1, <1>3 DEF IInv, TypeOK
<1>5. TypeOK'
  <2>1. saved' \in [Tasks -> [on : Tasks, at : Points] \cup {Null}]
    BY <1>2, <1>3 DEF IInv, TypeOK
  <2> QED BY <1>1, <1>2, <1>3, <2>1 DEF IInv, TypeOK, TaskOrNull, Points
<1>6. Live' = Live \ {cpu} /\ Linked' = Linked /\ Named' \subseteq Named /\ cpu \notin Linked
  <2>1. Live' = Live \ {cpu}
    BY <1>1, <1>4 DEF Live
  <2>2. Named' \subseteq Named
    BY <1>1, <1>4, <2>1 DEF Named
  <2>3. pc'[cpu'] \notin Windows
    BY <1>2, <1>3, <1>4, Alone
  <2>4. Apart = {} /\ Apart' = {}
    BY <1>1, <2>3 DEF Apart, Windows, InExit
  <2>5. next[cpu] = Null
    BY <1>1 DEF IInv, LocalInv, LocalsOf
  <2> QED BY <1>1, <2>1, <2>2, <2>4, <2>5 DEF Linked
<1>7. FrameInv'
  <2>1. cpu' \in Live'
    BY <1>2, <1>3, <1>6
  <2>2. ASSUME NEW t \in Live' \ {cpu'}
        PROVE  saved'[t] = Frame(t, pc'[t]) /\ pc'[t] \notin Windows
    <3>1. t \in Live \ {cpu, current} /\ t \in Tasks
      BY <1>3, <1>6, <2>2 DEF Live
    <3>2. saved'[t] = saved[t] /\ pc'[t] = pc[t]
      BY <1>2, <1>3, <1>4, <3>1 DEF IInv, TypeOK
    <3> QED BY <3>1, <3>2 DEF IInv, FrameInv
  <2>3. \A t \in Tasks : pc'[t] = "hlt" <=> t = Idle
    BY <1>1, <1>4 DEF IInv, FrameInv
  <2> QED BY <1>1, <1>3, <2>1, <2>2, <2>3 DEF FrameInv
<1>8. RingInv'
  <2>1. pc'[cpu'] \notin Windows
    BY <1>2, <1>3, <1>4, Alone
  <2> QED BY <1>1, <1>2, <1>6, <2>1 DEF IInv, RingInv, Windows, InExit
<1>9. LocalInv'
  <2> SUFFICES ASSUME NEW t \in Tasks PROVE LocalsOf(t)'
    BY DEF LocalInv
  <2>1. LocalsOf(t)
    BY DEF IInv, LocalInv
  <2>2. CASE t = cpu
    BY <1>1, <1>4, <1>6, <2>1, <2>2 DEF LocalsOf, Making, Linking, InExit, Live
  <2>3. CASE t # cpu
    <3>1. pc'[t] = pc[t] /\ obj'[t] = obj[t] /\ prev'[t] = prev[t]
      BY <1>1, <1>4, <2>3 DEF IInv, TypeOK
    <3>2. pc[t] \in Making \cup Linking => obj[t] \in Tasks \ {cpu}
      BY <1>1, <2>1 DEF IInv, TypeOK, LocalsOf
    <3> QED BY <1>1, <1>4, <1>6, <2>1, <2>3, <3>1, <3>2 DEF LocalsOf, Making, Linking
  <2> QED BY <2>2, <2>3
<1>10. ChildInv'
  <2>1. \A t \in Tasks : pc'[t] \in Making \cup Linking =>
            pc[t] \in Making \cup Linking /\ obj'[t] = obj[t]
    BY <1>1, <1>4 DEF IInv, TypeOK, Making, Linking
  <2> QED BY <2>1 DEF IInv, ChildInv
<1>11. PidInv'
  <2>1. \A t \in Named' : pid[t] > 0 \/ pc'[t] = "exitSwitch"
    <3>1. \A t \in Named' : t \in Tasks /\ t # cpu
      BY <1>1, <1>4, <1>6 DEF IInv, TypeOK, Named, Live, LocalInv, LocalsOf, Making
    <3> QED BY <1>4, <1>6, <3>1 DEF IInv, PidInv
  <2> QED BY <1>1, <1>4, <1>6, <2>1 DEF IInv, PidInv
<1> QED BY <1>5, <1>7, <1>8, <1>9, <1>10, <1>11 DEF IInv

\* A tick goes on with the next task's own code, and with its kernel stack in the TSS.
LEMMA TickIs ==
    ASSUME IInv, WindowsClosed, Tick
    PROVE  /\ cpu = current /\ cpu \in Linked /\ cpu \in Live /\ cpu \in Tasks
           /\ current' = next[current] /\ cpu' = current' /\ tss' = current' /\ pc' = pc
           /\ current' \in Linked /\ current' \in Live /\ current' \in Tasks
           /\ pc[cpu] \notin Windows
           /\ UNCHANGED <<tcbs, locals, head, nextPid>>
           /\ saved' \in [Tasks -> [on : Tasks, at : Points] \cup {Null}]
           /\ \A t \in Live \ {cpu'} : saved'[t] = Frame(t, pc[t])
           /\ \A t \in Live : pc[t] \notin Windows
<1> USE DEF tcbs, sched, locals
<1> DEFINE u == next[current]
           fs == [saved EXCEPT ![current] = Frame(cpu, pc[cpu])]
<1>1. pc[cpu] \notin Windows /\ pc[cpu] # "none"
  BY TasksAssumption DEF Tick, WindowsClosed
<1>2. /\ cpu = current /\ cpu \in Linked /\ cpu \in Live /\ cpu \in Tasks
      /\ u \in Linked /\ u \in Live /\ u \in Tasks
  BY <1>1, Running DEF Windows, InExit, IInv, TypeOK, RingInv, Linked
<1>3. /\ current' = u /\ Load(u, fs, pc)
      /\ UNCHANGED <<tcbs, locals, head, nextPid>>
  BY DEF Tick
<1>4. /\ fs \in [Tasks -> [on : Tasks, at : Points] \cup {Null}]
      /\ \A t \in Live : fs[t] = Frame(t, pc[t]) /\ pc[t] \notin Windows
  <2>1. Frame(cpu, pc[cpu]) \in [on : Tasks, at : Points]
    BY <1>2 DEF Frame, IInv, TypeOK
  <2>2. fs \in [Tasks -> [on : Tasks, at : Points] \cup {Null}]
    BY <1>2, <2>1 DEF IInv, TypeOK
  <2>3. \A t \in Live : fs[t] = Frame(t, pc[t]) /\ pc[t] \notin Windows
    BY <1>1, <1>2 DEF IInv, TypeOK, FrameInv, Live
  <2> QED BY <2>2, <2>3
<1>5. cpu' = u /\ tss' = u /\ pc' = pc /\ saved' = [fs EXCEPT ![u] = Null]
  <2> HIDE DEF u, fs
  <2>1. pc \in [Tasks -> Points]
    BY DEF IInv, TypeOK
  <2> QED BY <1>2, <1>3, <1>4, <2>1, LoadOwn
<1> HIDE DEF fs
<1>6. saved' \in [Tasks -> [on : Tasks, at : Points] \cup {Null}]
  BY <1>4, <1>5
<1>7. \A t \in Live \ {cpu'} : saved'[t] = Frame(t, pc[t])
  BY <1>2, <1>4, <1>5 DEF Live
<1> QED BY <1>1, <1>2, <1>3, <1>4, <1>5, <1>6, <1>7

LEMMA TickStep ==
    ASSUME IInv, WindowsClosed, Tick PROVE IInv'
<1> USE TickIs DEF tcbs, sched, locals
<1>1. TypeOK'
  BY DEF IInv, TypeOK, TaskOrNull
<1>2. Live' = Live /\ Named' = Named /\ Linked' = Linked
  <2>1. Apart = {} /\ Apart' = {}
    BY DEF Apart, Windows, InExit
  <2> QED BY <2>1 DEF Live, Named, Linked
<1>3. FrameInv'
  BY <1>2 DEF IInv, FrameInv
<1>4. RingInv'
  BY <1>2 DEF IInv, RingInv, Windows, InExit
<1>5. LocalInv'
  BY <1>2 DEF IInv, LocalInv, LocalsOf
<1>6. ChildInv' /\ PidInv'
  BY <1>2 DEF IInv, ChildInv, PidInv
<1> QED BY <1>1, <1>3, <1>4, <1>5, <1>6 DEF IInv
-----------------------------------------------------------------------------
(* The invariant, and what follows from it.                                *)

LEMMA Step ==
    ASSUME WindowsClosed, IInv, [Next]_vars PROVE IInv'
<1>1. CASE Tick
  BY <1>1, TickStep
<1>2. ASSUME NEW t \in Tasks, Syscall(t) \/ KernelStep(t) PROVE IInv'
  <2>1. CASE \/ SyscallFork(t) \/ SyscallExitGroup(t) \/ SyscallExit(t)
             \/ Return(t) \/ ForkNoMemory(t)
    BY <2>1, PlainSteps
  <2>2. CASE ForkAlloc(t)
    BY <2>2, ForkAllocStep DEF ForkAlloc, At
  <2>3. CASE ForkPid(t)
    BY <2>3, ForkPidStep DEF ForkPid, At
  <2>4. CASE ForkPidWrite(t)
    BY <2>4, ForkPidWriteStep DEF ForkPidWrite, At
  <2>5. CASE ForkStacks(t)
    BY <2>5, ForkStacksStep DEF ForkStacks, At
  <2>6. CASE ForkCopy(t)
    BY <2>6, ForkCopyStep DEF ForkCopy, At
  <2>7. CASE ForkLink(t)
    BY <2>7, ForkLinkStep DEF ForkLink, At
  <2>8. CASE ForkLinkWrite(t)
    BY <2>8, ForkLinkWriteStep DEF ForkLinkWrite, At
  <2>9. CASE ExitBegin(t)
    BY <2>9, ExitBeginStep DEF ExitBegin, At
  <2>10. CASE ExitSearch(t)
    BY <2>10, ExitSearchStep DEF ExitSearch, At
  <2>11. CASE ExitUnlink(t)
    BY <2>11, ExitUnlinkStep DEF ExitUnlink, At
  <2>12. CASE ExitHead(t)
    BY <2>12, ExitHeadCurrentStep DEF ExitHead, At
  <2>13. CASE ExitCurrent(t)
    BY <2>13, ExitHeadCurrentStep DEF ExitCurrent, At
  <2>14. CASE ExitFree(t)
    BY <2>14, ExitFreeStep DEF ExitFree, At
  <2>15. CASE ExitSwitch(t)
    BY <2>15, ExitSwitchStep DEF ExitSwitch, At
  <2> QED BY <1>2, <2>1, <2>2, <2>3, <2>4, <2>5, <2>6, <2>7, <2>8, <2>9, <2>10, <2>11,
             <2>12, <2>13, <2>14, <2>15 DEF Syscall, KernelStep, ForkStep, ExitStep
<1>3. CASE UNCHANGED vars
  <2>1. Linked' = Linked /\ Live' = Live /\ Named' = Named
    BY <1>3 DEF vars, tcbs, sched, locals, Linked, Apart, Live, Named
  <2>2. TypeOK' /\ FrameInv' /\ RingInv'
    BY <1>3, <2>1 DEF vars, tcbs, sched, IInv, TypeOK, FrameInv, RingInv, locals
  <2>3. LocalInv' /\ ChildInv' /\ PidInv'
    BY <1>3, <2>1 DEF vars, tcbs, locals, IInv, LocalInv, LocalsOf, ChildInv, PidInv
  <2> QED BY <2>2, <2>3 DEF IInv
<1> QED BY <1>1, <1>2, <1>3 DEF Next

\* The invariant holds for ever when no tick comes inside a window.
THEOREM Invariance == ASSUME WindowsClosed PROVE Spec => []IInv
<1>1. Init => IInv
  BY InitInv
<1>2. IInv /\ [Next]_vars => IInv'
  BY Step
<1> QED BY <1>1, <1>2, PTL DEF Spec

\* Every variable keeps its type.
THEOREM TypeCorrect == ASSUME WindowsClosed PROVE Spec => []TypeOK
<1>1. IInv => TypeOK
  BY DEF IInv
<1> QED BY <1>1, Invariance, PTL

\* A task that waits in user mode goes on from its own frame (pit.c:37-43).
THEOREM UserContextAlways == ASSUME WindowsClosed PROVE Spec => []UserContextKept
<1>1. IInv => UserContextKept
  BY DEF IInv, FrameInv, UserContextKept, Live
<1> QED BY <1>1, Invariance, PTL

\* Every task goes on from its own frame, wherever in the kernel it was
\* interrupted, and the CPU is on current_task's stack (task.c:133-146).
THEOREM OwnContextAlways == ASSUME WindowsClosed PROVE Spec => []OwnContext
<1>1. IInv => OwnContext
  BY DEF IInv, FrameInv, OwnContext
<1> QED BY <1>1, Invariance, PTL

\* However many forks there are, no two live tasks have one pid (task.c:80).
THEOREM UniquePidsAlways == ASSUME WindowsClosed PROVE Spec => []UniquePids
<1>1. IInv => UniquePids
  BY DEF IInv, PidInv, UniquePids, Named
<1> QED BY <1>1, Invariance, PTL

\* User mode is only left onto the running task's kernel stack (pit.c:45-52,
\* task.c:145-151).
THEOREM TssAlways == ASSUME WindowsClosed PROVE Spec => []TssIsRunning
<1>1. IInv => TssIsRunning
  BY DEF IInv, TypeOK, FrameInv, TssIsRunning
<1> QED BY <1>1, Invariance, PTL

-----------------------------------------------------------------------------
(* The stacks.                                                             *)

\* The hypothesis: two stacks fit for every task_t the heap can hold.  (task_fork does
\* not look at the result of malloc; the run tasks_heap_full shows what follows.)
RoomForStacks == StackRoom >= 2 * Cardinality(Tasks)

\* Every task has two stacks of its own, from the step of its parent that makes them
\* to the step of task_destroy that frees them.
StackInv ==
    \A t \in Tasks :
        /\ t \in Live /\ pc[t] # "exitSwitch" => kstack[t] = t /\ ustack[t] = t
        /\ t \notin allocated => kstack[t] = Null /\ ustack[t] = Null
        /\ pc[t] \in {"forkPid", "forkPidWrite", "forkStacks"} =>
              kstack[obj[t]] = Null /\ ustack[obj[t]] = Null
        /\ pc[t] = "forkCopy" => kstack[obj[t]] = obj[t] /\ ustack[obj[t]] = obj[t]

\* Every step but a tick is one of the code on the stack the CPU is on.
LEMMA OnlyTheRunning ==
    ASSUME NEW t \in Tasks, Syscall(t) \/ KernelStep(t) PROVE t = cpu
BY DEF Syscall, KernelStep, ForkStep, ExitStep, SyscallFork, SyscallExitGroup, SyscallExit,
       Return, ForkAlloc, ForkNoMemory, ForkPid, ForkPidWrite, ForkStacks, ForkCopy, ForkLink,
       ForkLinkWrite, ExitBegin, ExitSearch, ExitUnlink, ExitHead, ExitCurrent, ExitFree,
       ExitSwitch, At

\* Most steps touch no stack, and only move a task that has two or has none.
LEMMA StacksStay ==
    ASSUME StackInv, UNCHANGED <<allocated, kstack, ustack>>,
           \A t \in Tasks :
              /\ t \in Live' /\ pc'[t] # "exitSwitch" => t \in Live /\ pc[t] # "exitSwitch"
              /\ pc'[t] \in {"forkPid", "forkPidWrite", "forkStacks"} =>
                    /\ pc[t] \in {"forkPid", "forkPidWrite", "forkStacks"}
                    /\ obj'[t] = obj[t]
              /\ pc'[t] = "forkCopy" => pc[t] = "forkCopy" /\ obj'[t] = obj[t]
    PROVE  StackInv'
BY DEF StackInv

LEMMA StacksFit ==
    ASSUME RoomForStacks, TypeOK, NEW c \in Tasks, kstack[c] = Null, ustack[c] = Null
    PROVE  StacksLeft >= 2
<1> DEFINE K == {u \in allocated : kstack[u] # Null}
           U == {u \in allocated : ustack[u] # Null}
           C == Cardinality(Tasks)
<1>1. IsFiniteSet(Tasks) /\ IsFiniteSet(Tasks \ {c}) /\ Cardinality(Tasks \ {c}) = C - 1
  BY TasksAssumption, FS_RemoveElement
<1>2. K \in SUBSET (Tasks \ {c}) /\ U \in SUBSET (Tasks \ {c})
  BY DEF TypeOK
<1>3. IsFiniteSet(K) /\ Cardinality(K) <= C - 1
  BY <1>1, <1>2, FS_Subset
<1>4. IsFiniteSet(U) /\ Cardinality(U) <= C - 1
  BY <1>1, <1>2, FS_Subset
<1>5. C \in Nat /\ Cardinality(K) \in Nat /\ Cardinality(U) \in Nat
  BY <1>1, <1>3, <1>4, FS_CardinalityType
<1>6. StacksLeft = StackRoom - Cardinality(K) - Cardinality(U)
  BY DEF StacksLeft
<1> HIDE DEF K, U, C
<1> QED BY <1>3, <1>4, <1>5, <1>6, TasksAssumption DEF RoomForStacks, C

LEMMA StackStep ==
    ASSUME WindowsClosed, RoomForStacks, IInv, StackInv, [Next]_vars PROVE StackInv'
<1> USE DEF tcbs, sched, locals
<1>0. cpu \in Tasks /\ cpu \in Live /\ pc \in [Tasks -> Points]
  BY DEF IInv, TypeOK, FrameInv
<1>1. CASE Tick
  <2>1. pc' = pc /\ obj' = obj /\ UNCHANGED <<allocated, kstack, ustack>>
    BY <1>1, TickIs
  <2> QED BY <2>1, StacksStay DEF Live
<1>2. CASE UNCHANGED vars
  <2>1. pc' = pc /\ obj' = obj /\ UNCHANGED <<allocated, kstack, ustack>>
    BY <1>2 DEF vars
  <2> QED BY <2>1, StacksStay DEF Live
<1>3. CASE \/ SyscallFork(cpu) \/ SyscallExitGroup(cpu) \/ SyscallExit(cpu) \/ Return(cpu)
           \/ ForkNoMemory(cpu) \/ ForkPid(cpu) \/ ForkPidWrite(cpu) \/ ForkLink(cpu)
           \/ ForkLinkWrite(cpu) \/ ExitBegin(cpu) \/ ExitSearch(cpu) \/ ExitUnlink(cpu)
           \/ ExitHead(cpu) \/ ExitCurrent(cpu)
  <2>1. UNCHANGED <<allocated, kstack, ustack>> /\ \A t \in Tasks \ {cpu} : obj'[t] = obj[t]
    BY <1>3 DEF SyscallFork, SyscallExitGroup, SyscallExit, Return, ForkNoMemory, ForkPid,
                ForkPidWrite, ForkLink, ForkLinkWrite, ExitBegin, ExitSearch, ExitUnlink,
                ExitHead, ExitCurrent, IInv, TypeOK
  <2>2. \/ pc' = pc /\ obj' = obj
        \/ /\ pc[cpu] # "exitSwitch"
           /\ \E q \in Points \ {"forkPid", "forkPidWrite", "forkStacks", "forkCopy"} :
                pc' = [pc EXCEPT ![cpu] = q]
        \/ /\ pc[cpu] \in {"forkPid", "forkPidWrite"} /\ obj' = obj
           /\ \E q \in {"forkPidWrite", "forkStacks"} : pc' = [pc EXCEPT ![cpu] = q]
    BY <1>3 DEF SyscallFork, SyscallExitGroup, SyscallExit, Return, ForkNoMemory, ForkPid,
                ForkPidWrite, ForkLink, ForkLinkWrite, ExitBegin, ExitSearch, ExitUnlink,
                ExitHead, ExitCurrent, At, Goto, Points, InFork, InExit
  <2>3. \A t \in Tasks \ {cpu} : pc'[t] = pc[t]
    BY <1>0, <2>2
  <2> QED BY <1>0, <2>1, <2>2, <2>3, StacksStay DEF Live
<1>4. CASE ForkAlloc(cpu)
  <2>1. PICK c \in Tasks \ allocated :
          allocated' = allocated \cup {c} /\ obj' = [obj EXCEPT ![cpu] = c]
    BY <1>4 DEF ForkAlloc
  <2>2. /\ pc[cpu] = "fork" /\ pc' = [pc EXCEPT ![cpu] = "forkPid"]
        /\ UNCHANGED <<kstack, ustack>>
    BY <1>4 DEF ForkAlloc, At, Goto
  <2>3. kstack[c] = Null /\ ustack[c] = Null
    BY <2>1 DEF StackInv
  <2>4. obj'[cpu] = c /\ pc'[cpu] = "forkPid" /\ \A t \in Tasks \ {cpu} :
            pc'[t] = pc[t] /\ obj'[t] = obj[t]
    BY <1>0, <2>1, <2>2 DEF IInv, TypeOK
  <2> QED BY <1>0, <2>1, <2>2, <2>3, <2>4 DEF StackInv, Live
<1>5. CASE ForkStacks(cpu)
  <2>1. PICK c \in Tasks : c = obj[cpu] /\ c # cpu /\ pc[c] = "none" /\ c \in allocated
    BY <1>5 DEF ForkStacks, At, IInv, TypeOK, LocalInv, LocalsOf, Making
  <2>2. pc[cpu] = "forkStacks" /\ pc' = [pc EXCEPT ![cpu] = "forkCopy"]
        /\ UNCHANGED <<allocated, obj>>
    BY <1>5 DEF ForkStacks, At, Goto
  <2>3. StacksLeft >= 1 /\ StacksLeft >= 2
    <3>1. kstack[c] = Null /\ ustack[c] = Null
      BY <1>0, <2>1, <2>2 DEF StackInv
    <3>2. StacksLeft >= 2
      BY <2>1, <3>1, StacksFit DEF IInv
    <3>3. StacksLeft \in Int
      <4>1. IsFiniteSet(allocated)
        BY TasksAssumption, FS_Subset DEF IInv, TypeOK
      <4>2. \A S \in SUBSET allocated : Cardinality(S) \in Nat
        BY <4>1, FS_Subset, FS_CardinalityType
      <4> QED BY <4>2, TasksAssumption DEF StacksLeft
    <3> QED BY <3>2, <3>3
  <2>4. kstack' = [kstack EXCEPT ![c] = c] /\ ustack' = [ustack EXCEPT ![c] = c]
    BY <1>5, <2>1, <2>3 DEF ForkStacks
  <2>5. /\ kstack'[c] = c /\ ustack'[c] = c
        /\ \A t \in Tasks \ {c} : kstack'[t] = kstack[t] /\ ustack'[t] = ustack[t]
    BY <2>4 DEF IInv, TypeOK
  <2>6. pc'[cpu] = "forkCopy" /\ \A t \in Tasks \ {cpu} : pc'[t] = pc[t]
    BY <1>0, <2>2
  <2>7. \A t \in Tasks \ {cpu} : pc[t] \in Making => obj[t] # c /\ obj[t] \in Tasks
    BY <1>0, <2>1, <2>2 DEF IInv, ChildInv, Making, LocalInv, LocalsOf, TypeOK
  <2> QED BY <1>0, <2>1, <2>2, <2>5, <2>6, <2>7 DEF StackInv, Live, Making
<1>6. CASE ForkCopy(cpu)
  <2>1. PICK c \in Tasks : c = obj[cpu] /\ c # cpu /\ c \in allocated
    BY <1>6 DEF ForkCopy, At, IInv, TypeOK, LocalInv, LocalsOf, Making
  <2>2. pc[cpu] = "forkCopy" /\ pc' = [pc EXCEPT ![cpu] = "forkLink", ![c] = "user"]
        /\ UNCHANGED <<allocated, kstack, ustack, obj>>
    BY <1>6, <2>1 DEF ForkCopy, At
  <2>3. pc'[cpu] = "forkLink" /\ pc'[c] = "user" /\ \A t \in Tasks \ {cpu, c} : pc'[t] = pc[t]
    BY <1>0, <2>1, <2>2
  <2> QED BY <1>0, <2>1, <2>2, <2>3 DEF StackInv, Live
<1>7. CASE ExitFree(cpu)
  <2>1. /\ pc[cpu] = "exitFree" /\ obj[cpu] = cpu /\ pc' = [pc EXCEPT ![cpu] = "exitSwitch"]
        /\ UNCHANGED obj
    BY <1>0, <1>7 DEF ExitFree, At, Goto, IInv, LocalInv, LocalsOf, InExit
  <2>2. /\ allocated' = allocated \ {cpu}
        /\ kstack' = [kstack EXCEPT ![cpu] = Null] /\ ustack' = [ustack EXCEPT ![cpu] = Null]
    BY <1>7, <2>1 DEF ExitFree
  <2>3. /\ kstack'[cpu] = Null /\ ustack'[cpu] = Null
        /\ \A t \in Tasks \ {cpu} : kstack'[t] = kstack[t] /\ ustack'[t] = ustack[t]
    BY <1>0, <2>2 DEF IInv, TypeOK
  <2>4. pc'[cpu] = "exitSwitch" /\ \A t \in Tasks \ {cpu} : pc'[t] = pc[t]
    BY <1>0, <2>1
  <2>5. \A t \in Tasks : pc[t] \in Making => obj[t] # cpu /\ obj[t] \in Tasks
    BY <1>0, <2>1 DEF IInv, LocalInv, LocalsOf, Making, TypeOK
  <2> QED BY <1>0, <2>1, <2>2, <2>3, <2>4, <2>5 DEF StackInv, Live, Making
<1>8. CASE ExitSwitch(cpu)
  <2>1. /\ pc' = [pc EXCEPT ![cpu] = "none"] /\ obj' = [obj EXCEPT ![cpu] = Null]
        /\ UNCHANGED <<allocated, kstack, ustack>>
    BY <1>8, ExitSwitchIs
  <2>2. pc'[cpu] = "none" /\ \A t \in Tasks \ {cpu} : pc'[t] = pc[t] /\ obj'[t] = obj[t]
    BY <1>0, <2>1 DEF IInv, TypeOK
  <2> QED BY <2>1, <2>2, StacksStay DEF Live
<1> QED
  <2>1. \A t \in Tasks : Syscall(t) \/ KernelStep(t) => t = cpu
    BY OnlyTheRunning
  <2> QED BY <1>1, <1>2, <1>3, <1>4, <1>5, <1>6, <1>7, <1>8, <2>1
          DEF Next, Syscall, KernelStep, ForkStep, ExitStep

\* No two live tasks share a kernel stack or a user stack, as long as there is memory for
\* two stacks per task_t (task.c:69, 83-84, 135-137).
THEOREM StacksApartAlways ==
    ASSUME WindowsClosed, RoomForStacks PROVE Spec => []StacksNotShared
<1>1. Init => StackInv
  <2> SUFFICES ASSUME Init, NEW t \in Tasks
               PROVE  /\ kstack[t] = IF t \in {Idle, First} THEN t ELSE Null
                      /\ ustack[t] = IF t \in {Idle, First} THEN t ELSE Null
                      /\ t \in Live <=> t \in {Idle, First}
                      /\ pc[t] \in {"hlt", "user", "none"}
    BY DEF StackInv, Init
  <2> QED BY DEF Init, Live
<1>2. IInv /\ StackInv /\ [Next]_vars => StackInv'
  BY StackStep
<1>3. IInv /\ StackInv => StacksNotShared
  <2> SUFFICES ASSUME IInv, StackInv, NEW t \in Live, NEW u \in Live, t # u
               PROVE  kstack[t] # kstack[u] /\ ustack[t] # ustack[u]
    BY DEF StacksNotShared
  <2>1. ASSUME NEW v \in Live
        PROVE  /\ v \in Tasks /\ v # Null
               /\ pc[v] # "exitSwitch" => kstack[v] = v /\ ustack[v] = v
               /\ pc[v] = "exitSwitch" => v = cpu /\ kstack[v] = Null /\ ustack[v] = Null
    BY TasksAssumption, Alone
    DEF Live, StackInv, IInv, LocalInv, LocalsOf, Windows, InExit
  <2> QED BY <2>1
<1> QED BY <1>1, <1>2, <1>3, Invariance, PTL DEF Spec

-----------------------------------------------------------------------------
(* The order of turns.  What Queue computes by following next is the one   *)
(* way round a circle of tasks; the steps of Tasks change the circle as    *)
(* RoundRobin says.                                                        *)

\* What holds of 0, and of n + 1 when it holds of n, holds of every number.
LEMMA Induction ==
    ASSUME NEW S, 0 \in S, \A n \in Nat : n \in S => n + 1 \in S
    PROVE  Nat \subseteq S
<1> DEFINE T == Nat \ S
<1> SUFFICES ASSUME T # {} PROVE FALSE
  OBVIOUS
<1>1. T \in SUBSET Nat
  OBVIOUS
<1>2. PICK m \in T : \A y \in T : <<y, m>> \notin OpToRel(<, Nat)
  BY <1>1, NatLessThanWellFounded, WFMin, Zenon
<1>3. m \in Nat /\ m \notin S /\ m # 0
  OBVIOUS
<1>4. m - 1 \in Nat /\ m - 1 + 1 = m /\ m - 1 < m
  BY <1>3
<1>5. m - 1 \in S
  BY <1>2, <1>4 DEF OpToRel
<1> QED BY <1>3, <1>4, <1>5

\* s is the way round the pointers nx, from what follows u until it closes.
Circle(s, nx, u) ==
    /\ s \in Seq(Tasks) /\ Len(s) > 0
    /\ \A i, j \in 1 .. Len(s) : s[i] = s[j] => i = j
    /\ s[1] = nx[u] /\ nx[s[Len(s)]] = s[1]
    /\ \A i \in 1 .. Len(s) - 1 : s[i + 1] = nx[s[i]]

\* A circle has no more tasks than there are.
LEMMA CircleFits ==
    ASSUME NEW s, NEW nx, NEW u, Circle(s, nx, u)
    PROVE  /\ Len(s) \in 1 .. Cardinality(Tasks) /\ Cardinality(Tasks) \in Nat
           /\ \A i \in 1 .. Len(s) : s[i] \in Tasks
<1>1. Len(s) \in Nat /\ Len(s) > 0 /\ s \in [1 .. Len(s) -> Tasks]
  BY DEF Circle
<1>2. s \in Injection(1 .. Len(s), Tasks)
  BY <1>1 DEF Circle, Injection, IsInjective
<1>3. IsFiniteSet(Tasks)
  BY TasksAssumption
<1>4. Cardinality(1 .. Len(s)) <= Cardinality(Tasks)
  BY <1>2, <1>3, FS_Injection
<1>5. Cardinality(1 .. Len(s)) = Len(s)
  BY <1>1, FS_Interval
<1>6. Cardinality(Tasks) \in Nat
  BY <1>3, FS_CardinalityType
<1> QED BY <1>1, <1>4, <1>5, <1>6

\* The recursion in Round has a solution, which follows the pointers.
LEMMA WalkIs ==
    ASSUME NEW s, NEW nx, NEW u, Circle(s, nx, u), NEW M \in Nat, M > 0
    PROVE  LET at == CHOOSE at : at = [n \in 1 .. M |-> IF n = 1 THEN nx[u] ELSE nx[at[n - 1]]]
           IN  at[1] = nx[u] /\ \A n \in 1 .. M : n # 1 => at[n] = nx[at[n - 1]]
<1> DEFINE R == {s[i] : i \in 1 .. Len(s)}
           P(at) == at = [n \in 1 .. M |-> IF n = 1 THEN nx[u] ELSE nx[at[n - 1]]]
           Upto(k, g) == /\ g \in [1 .. k + 1 -> R]
                         /\ g[1] = nx[u]
                         /\ \A n \in 2 .. k + 1 : g[n] = nx[g[n - 1]]
           S == {k \in Nat : \E g : Upto(k, g)}
<1>1. nx[u] \in R /\ \A r \in R : nx[r] \in R
  <2>1. Len(s) \in Nat /\ Len(s) > 0
    BY DEF Circle
  <2>2. nx[u] \in R
    BY <2>1 DEF Circle
  <2>3. ASSUME NEW i \in 1 .. Len(s) PROVE nx[s[i]] \in R
    <3>1. CASE i = Len(s)
      BY <2>1, <3>1 DEF Circle
    <3>2. CASE i # Len(s)
      <4>1. i \in 1 .. Len(s) - 1 /\ i + 1 \in 1 .. Len(s)
        BY <2>1, <3>2
      <4> QED BY <4>1 DEF Circle
    <3> QED BY <3>1, <3>2
  <2> QED BY <2>2, <2>3
<1> HIDE DEF R
<1>2. 0 \in S
  <2>1. Upto(0, [n \in 1 .. 1 |-> nx[u]])
    BY <1>1
  <2> HIDE DEF Upto
  <2> QED BY <2>1
<1>3. ASSUME NEW k \in Nat, k \in S PROVE k + 1 \in S
  <2>1. PICK g : Upto(k, g)
    BY <1>3
  <2> DEFINE h == [n \in 1 .. k + 2 |-> IF n <= k + 1 THEN g[n] ELSE nx[g[k + 1]]]
  <2>2. nx[g[k + 1]] \in R
    BY <1>1, <2>1
  <2>3. h \in [1 .. (k + 1) + 1 -> R] /\ h[1] = nx[u]
    BY <2>1, <2>2
  <2>4. ASSUME NEW n \in 2 .. k + 2 PROVE h[n] = nx[h[n - 1]]
    <3>1. CASE n <= k + 1
      <4>1. n \in 2 .. k + 1 /\ h[n] = g[n] /\ h[n - 1] = g[n - 1]
        BY <3>1
      <4> QED BY <2>1, <4>1
    <3>2. CASE n = k + 2
      <4>1. h[n] = nx[g[k + 1]] /\ h[k + 1] = g[k + 1] /\ n - 1 = k + 1
        BY <3>2
      <4> QED BY <4>1
    <3> QED BY <3>1, <3>2
  <2>5. Upto(k + 1, h)
    BY <2>3, <2>4
  <2> HIDE DEF h, Upto
  <2> QED BY <2>5
<1> HIDE DEF S
<1>4. M - 1 \in S
  BY <1>2, <1>3, Induction
<1>5. PICK g : Upto(M - 1, g)
  BY <1>4 DEF S
<1>6. P(g)
  <2>1. g \in [1 .. M -> R] /\ \A n \in 1 .. M : g[n] = IF n = 1 THEN nx[u] ELSE nx[g[n - 1]]
    BY <1>5
  <2> QED BY <2>1
<1> DEFINE walk == CHOOSE at : P(at)
<1> HIDE DEF P
<1>7. P(walk)
  BY <1>6
<1> HIDE DEF walk
<1> USE DEF P
<1>8. walk[1] = nx[u] /\ \A n \in 1 .. M : n # 1 => walk[n] = nx[walk[n - 1]]
  <2>1. walk = [n \in 1 .. M |-> IF n = 1 THEN nx[u] ELSE nx[walk[n - 1]]]
    BY <1>7
  <2>2. 1 \in 1 .. M
    OBVIOUS
  <2> QED BY <2>1, <2>2
<1> QED BY <1>8 DEF walk

\* Round finds the circle.
LEMMA RoundIs ==
    ASSUME NEW s, NEW nx, NEW u, Circle(s, nx, u)
    PROVE  Round(nx, u) = s
<1> DEFINE M == Cardinality(Tasks)
           N == Len(s)
           at == CHOOSE at : at = [n \in 1 .. M |-> IF n = 1 THEN nx[u] ELSE nx[at[n - 1]]]
           lengths == {n \in 1 .. M : (\A i \in 1 .. n : at[i] \in Tasks) /\ nx[at[n]] = at[1]}
           S == {k \in Nat : k + 1 <= N => at[k + 1] = s[k + 1]}
<1>1. M \in Nat /\ N \in Nat /\ 1 <= N /\ N <= M /\ \A i \in 1 .. N : s[i] \in Tasks
  BY CircleFits
<1>2. at[1] = nx[u] /\ \A n \in 1 .. M : n # 1 => at[n] = nx[at[n - 1]]
  BY <1>1, WalkIs, SMTT(60)
<1>0. Round(nx, u) = IF lengths = {} THEN <<>>
                     ELSE [i \in 1 .. CHOOSE n \in lengths : \A m \in lengths : n <= m |-> at[i]]
  BY DEF Round
<1> HIDE DEF at, M
<1>3. 0 \in S
  BY <1>2 DEF Circle
<1>4. ASSUME NEW k \in Nat, k \in S PROVE k + 1 \in S
  <2> SUFFICES ASSUME k + 2 <= N PROVE at[k + 2] = s[k + 2]
    OBVIOUS
  <2>1. k + 1 \in 1 .. N - 1 /\ k + 2 \in 1 .. M /\ k + 2 # 1 /\ (k + 2) - 1 = k + 1
    BY <1>1
  <2>2. at[k + 2] = nx[at[k + 1]]
    BY <1>2, <2>1
  <2>3. at[k + 1] = s[k + 1]
    BY <1>4, <2>1
  <2>4. s[(k + 1) + 1] = nx[s[k + 1]]
    BY <2>1 DEF Circle
  <2> QED BY <2>2, <2>3, <2>4
<1> HIDE DEF S
<1>5. Nat \subseteq S
  BY <1>3, <1>4, Induction
<1>6. ASSUME NEW i \in 1 .. N PROVE at[i] = s[i]
  <2>1. i - 1 \in Nat /\ (i - 1) + 1 = i /\ i <= N
    BY <1>1
  <2>2. i - 1 \in S
    BY <1>5, <2>1
  <2> QED BY <2>1, <2>2 DEF S
<1> HIDE DEF N
<1>7. N \in lengths
  <2>1. N \in 1 .. M /\ 1 \in 1 .. N /\ N \in 1 .. N
    BY <1>1
  <2>2. nx[at[N]] = at[1]
    BY <1>6, <2>1 DEF Circle, N
  <2> QED BY <1>1, <1>6, <2>1, <2>2
<1>8. ASSUME NEW n \in lengths PROVE N <= n
  <2> SUFFICES ASSUME n < N PROVE FALSE
    BY <1>1
  <2>1. n \in 1 .. N - 1 /\ n \in 1 .. N /\ 1 \in 1 .. N /\ n + 1 \in 1 .. N /\ n + 1 # 1
    BY <1>1
  <2>2. nx[s[n]] = s[1]
    BY <1>6, <2>1
  <2>3. s[n + 1] = s[1]
    BY <2>1, <2>2 DEF Circle, N
  <2> QED BY <2>1, <2>3 DEF Circle, N
<1>9. \A n \in lengths : n \in Nat
  BY <1>1
<1> HIDE DEF lengths
<1>10. (CHOOSE n \in lengths : \A m \in lengths : n <= m) = N
  <2> DEFINE c == CHOOSE n \in lengths : \A m \in lengths : n <= m
  <2>1. c \in lengths /\ \A m \in lengths : c <= m
    BY <1>7, <1>8
  <2> HIDE DEF c
  <2>2. c = N
    BY <1>1, <1>7, <1>8, <1>9, <2>1
  <2> QED BY <2>2 DEF c
<1>11. Round(nx, u) = [i \in 1 .. N |-> at[i]]
  BY <1>7, <1>0, <1>10
<1>12. s = [i \in 1 .. N |-> s[i]]
  BY DEF Circle, N
<1> QED BY <1>6, <1>11, <1>12

LEMMA RangeIs ==
    ASSUME NEW s \in Seq(Tasks) PROVE Range(s) = {s[i] : i \in 1 .. Len(s)}
BY DEF Range

\* A turn moves the first task to the end.
LEMMA TurnIs ==
    ASSUME NEW s, NEW nx, NEW u, Circle(s, nx, u)
    PROVE  LET r == Append(Tail(s), Head(s))
           IN  Circle(r, nx, nx[u]) /\ Range(r) = Range(s)
<1> DEFINE N == Len(s)
           r == Append(Tail(s), Head(s))
<1>1. N \in Nat /\ N > 0 /\ s \in Seq(Tasks) /\ s # <<>>
  BY DEF Circle
<1>2. /\ r \in Seq(Tasks) /\ Len(r) = N /\ r[N] = s[1]
      /\ \A i \in 1 .. N - 1 : r[i] = s[i + 1]
  BY <1>1
<1> HIDE DEF r
<1>3. \A i, j \in 1 .. N : s[i] = s[j] => i = j
  BY DEF Circle
<1>4. /\ s[1] = nx[u] /\ nx[s[N]] = s[1]
      /\ \A i \in 1 .. N - 1 : s[i + 1] = nx[s[i]]
  BY DEF Circle
<1> HIDE DEF N
<1>5. ASSUME NEW i \in 1 .. N, NEW j \in 1 .. N, r[i] = r[j] PROVE i = j
  <2>1. CASE i = N /\ j # N
    <3>1. j \in 1 .. N - 1 /\ j + 1 \in 1 .. N /\ 1 \in 1 .. N /\ j + 1 # 1
      BY <1>1, <2>1
    <3> QED BY <1>2, <1>3, <1>5, <2>1, <3>1
  <2>2. CASE i # N /\ j = N
    <3>1. i \in 1 .. N - 1 /\ i + 1 \in 1 .. N /\ 1 \in 1 .. N /\ i + 1 # 1
      BY <1>1, <2>2
    <3> QED BY <1>2, <1>3, <1>5, <2>2, <3>1
  <2>3. CASE i # N /\ j # N
    <3>1. /\ i \in 1 .. N - 1 /\ i + 1 \in 1 .. N /\ j \in 1 .. N - 1 /\ j + 1 \in 1 .. N
          /\ (i + 1 = j + 1 => i = j)
      BY <1>1, <2>3
    <3> QED BY <1>2, <1>3, <1>5, <3>1
  <2> QED BY <2>1, <2>2, <2>3
<1>6. r[1] = nx[s[1]]
  <2>1. CASE N = 1
    BY <1>2, <1>4, <2>1
  <2>2. CASE N # 1
    <3>1. 1 \in 1 .. N - 1
      BY <1>1, <2>2
    <3> QED BY <1>2, <1>4, <3>1
  <2> QED BY <2>1, <2>2
<1>7. ASSUME NEW i \in 1 .. N - 1 PROVE r[i + 1] = nx[r[i]]
  <2>1. CASE i = N - 1
    <3>1. i + 1 = N /\ i \in 1 .. N - 1
      BY <1>1, <2>1
    <3>2. r[i] = s[N] /\ r[i + 1] = s[1]
      BY <1>2, <3>1
    <3> QED BY <1>4, <3>2
  <2>2. CASE i # N - 1
    <3>1. i + 1 \in 1 .. N - 1
      BY <1>1, <2>2
    <3>2. r[i] = s[i + 1] /\ r[i + 1] = s[(i + 1) + 1]
      BY <1>2, <3>1
    <3> QED BY <1>4, <3>1, <3>2
  <2> QED BY <2>1, <2>2
<1>8. Circle(r, nx, nx[u])
  BY <1>1, <1>2, <1>4, <1>5, <1>6, <1>7 DEF Circle
<1>9. {r[i] : i \in 1 .. N} = {s[i] : i \in 1 .. N}
  <2>1. ASSUME NEW i \in 1 .. N PROVE \E j \in 1 .. N : r[i] = s[j]
    <3>1. CASE i = N
      BY <1>1, <1>2, <3>1
    <3>2. CASE i # N
      <4>1. i \in 1 .. N - 1 /\ i + 1 \in 1 .. N
        BY <1>1, <3>2
      <4> QED BY <1>2, <4>1
    <3> QED BY <3>1, <3>2
  <2>2. ASSUME NEW j \in 1 .. N PROVE \E i \in 1 .. N : r[i] = s[j]
    <3>1. CASE j = 1
      BY <1>1, <1>2, <3>1
    <3>2. CASE j # 1
      <4>1. j - 1 \in 1 .. N - 1 /\ j - 1 \in 1 .. N /\ (j - 1) + 1 = j
        BY <1>1, <3>2
      <4>2. r[j - 1] = s[j]
        BY <1>2, <4>1
      <4> QED BY <4>1, <4>2
    <3> QED BY <3>1, <3>2
  <2> QED BY <2>1, <2>2
<1>10. Range(r) = Range(s)
  BY <1>1, <1>2, <1>9, RangeIs DEF N
<1> QED BY <1>8, <1>10 DEF r

\* A task is linked in behind the i-th.
LEMMA JoinIs ==
    ASSUME NEW s, NEW nx, NEW u, Circle(s, nx, u), NEW ny, NEW c \in Tasks,
           NEW i \in 1 .. Len(s) - 1,
           \A j \in 1 .. Len(s) : s[j] # c,
           ny[u] = nx[u], ny[s[i]] = c, ny[c] = nx[s[i]],
           \A j \in 1 .. Len(s) : j # i => ny[s[j]] = nx[s[j]]
    PROVE  LET r == InsertAt(s, i + 1, c)
           IN  /\ Circle(r, ny, u)
               /\ Range(r) = Range(s) \cup {c}
<1> DEFINE N == Len(s)
           r == InsertAt(s, i + 1, c)
<1>1. N \in Nat /\ N > 0 /\ s \in Seq(Tasks) /\ i \in Nat /\ 1 <= i /\ i < N
  BY DEF Circle
<1>2. /\ r \in Seq(Tasks) /\ Len(r) = N + 1 /\ r[i + 1] = c
      /\ \A j \in 1 .. i : r[j] = s[j]
      /\ \A j \in i + 2 .. N + 1 : r[j] = s[j - 1]
  <2> DEFINE a == SubSeq(s, 1, i)
             b == SubSeq(s, i + 1, N)
  <2>1. r = a \o <<c>> \o b
    BY <1>1 DEF InsertAt
  <2>2. a \in Seq(Tasks) /\ Len(a) = i /\ \A j \in 1 .. i : a[j] = s[j]
    BY <1>1
  <2>3. b \in Seq(Tasks) /\ Len(b) = N - i /\ \A j \in 1 .. N - i : b[j] = s[i + j]
    BY <1>1
  <2> HIDE DEF a, b
  <2>4. <<c>> \in Seq(Tasks) /\ Len(<<c>>) = 1 /\ <<c>>[1] = c
    OBVIOUS
  <2> DEFINE d == a \o <<c>>
  <2>5. d \in Seq(Tasks) /\ Len(d) = i + 1 /\ d[i + 1] = c /\ \A j \in 1 .. i : d[j] = s[j]
    BY <1>1, <2>2, <2>4
  <2>6. r = d \o b
    BY <2>1
  <2> HIDE DEF d, r
  <2>7. r \in Seq(Tasks) /\ Len(r) = N + 1
    <3>1. r \in Seq(Tasks)
      BY <2>3, <2>5, <2>6
    <3>2. Len(r) = Len(d) + Len(b)
      <4>1. \A x, y \in Seq(Tasks) : Len(x \o y) = Len(x) + Len(y)
        OBVIOUS
      <4> QED BY <2>3, <2>5, <2>6, <4>1
    <3> HIDE DEF N
    <3> QED BY <1>1, <2>3, <2>5, <3>1, <3>2
  <2>8. /\ \A j \in 1 .. i + 1 : r[j] = d[j]
        /\ \A j \in i + 2 .. N + 1 : r[j] = b[j - (i + 1)]
    BY <1>1, <2>3, <2>5, <2>6
  <2>9. ASSUME NEW j \in i + 2 .. N + 1 PROVE r[j] = s[j - 1]
    <3>1. j - (i + 1) \in 1 .. N - i /\ i + (j - (i + 1)) = j - 1
      BY <1>1
    <3> QED BY <2>3, <2>8, <3>1
  <2>10. i + 1 \in 1 .. i + 1 /\ \A j \in 1 .. i : j \in 1 .. i + 1
    BY <1>1
  <2> QED BY <2>5, <2>7, <2>8, <2>9, <2>10
<1> HIDE DEF r
<1>3. \A j, l \in 1 .. N : s[j] = s[l] => j = l
  BY DEF Circle
<1>4. /\ s[1] = nx[u] /\ nx[s[N]] = s[1]
      /\ \A j \in 1 .. N - 1 : s[j + 1] = nx[s[j]]
  BY DEF Circle
<1>5. (\A j \in 1 .. N : s[j] # c) /\ \A j \in 1 .. N : j # i => ny[s[j]] = nx[s[j]]
  OBVIOUS
<1> HIDE DEF N
\* The place in s of the j-th of r.
<1> DEFINE at(j) == IF j <= i THEN j ELSE j - 1
<1>6. ASSUME NEW j \in 1 .. N + 1, j # i + 1 PROVE at(j) \in 1 .. N /\ r[j] = s[at(j)]
  <2>1. CASE j <= i
    <3>1. j \in 1 .. i /\ j \in 1 .. N
      BY <1>1, <2>1
    <3> QED BY <1>2, <2>1, <3>1
  <2>2. CASE j > i
    <3>1. j \in i + 2 .. N + 1 /\ j - 1 \in 1 .. N /\ ~(j <= i)
      BY <1>1, <1>6, <2>2
    <3> QED BY <1>2, <3>1
  <2> QED BY <1>1, <2>1, <2>2
<1>7. ASSUME NEW j \in 1 .. N + 1, NEW l \in 1 .. N + 1, r[j] = r[l] PROVE j = l
  <2>1. CASE j # i + 1 /\ l # i + 1
    <3>1. at(j) = at(l)
      BY <1>3, <1>6, <1>7, <2>1
    <3> QED BY <1>1, <2>1, <3>1
  <2>2. CASE j = i + 1 /\ l # i + 1
    <3>1. at(l) \in 1 .. N /\ r[l] = s[at(l)]
      BY <1>6, <2>2
    <3> QED BY <1>2, <1>5, <1>7, <2>2, <3>1
  <2>3. CASE j # i + 1 /\ l = i + 1
    <3>1. at(j) \in 1 .. N /\ r[j] = s[at(j)]
      BY <1>6, <2>3
    <3> QED BY <1>2, <1>5, <1>7, <2>3, <3>1
  <2> QED BY <2>1, <2>2, <2>3
<1>8. r[1] = s[1] /\ r[N + 1] = s[N]
  <2>1. 1 \in 1 .. i /\ N + 1 \in i + 2 .. N + 1 /\ (N + 1) - 1 = N
    BY <1>1
  <2> QED BY <1>2, <2>1
<1>9. ASSUME NEW j \in 1 .. N PROVE r[j + 1] = ny[r[j]]
  <2>1. CASE j < i
    <3>1. j \in 1 .. i /\ j + 1 \in 1 .. i /\ j \in 1 .. N - 1 /\ j # i /\ j \in 1 .. N
      BY <1>1, <2>1
    <3> QED BY <1>2, <1>4, <1>5, <3>1
  <2>2. CASE j = i
    <3>1. i \in 1 .. i
      BY <1>1
    <3> QED BY <1>2, <2>2, <3>1
  <2>3. CASE j = i + 1
    <3>1. i + 2 \in i + 2 .. N + 1 /\ (i + 2) - 1 = i + 1 /\ i \in 1 .. N - 1 /\ j + 1 = i + 2
      BY <1>1, <2>3
    <3>2. r[i + 2] = s[i + 1] /\ s[i + 1] = nx[s[i]]
      BY <1>2, <1>4, <3>1
    <3> QED BY <1>2, <2>3, <3>1, <3>2
  <2>4. CASE j > i + 1
    <3>1. /\ j \in i + 2 .. N + 1 /\ j + 1 \in i + 2 .. N + 1 /\ (j + 1) - 1 = j
          /\ j - 1 \in 1 .. N - 1 /\ (j - 1) + 1 = j /\ j - 1 # i /\ j - 1 \in 1 .. N
      BY <1>1, <2>4
    <3>2. r[j] = s[j - 1] /\ r[j + 1] = s[j]
      BY <1>2, <3>1
    <3>3. s[j] = nx[s[j - 1]]
      BY <1>4, <3>1
    <3> QED BY <1>5, <3>1, <3>2, <3>3
  <2> QED BY <1>1, <2>1, <2>2, <2>3, <2>4
<1>10. ny[r[N + 1]] = r[1]
  <2>1. N \in 1 .. N /\ N # i
    BY <1>1
  <2> QED BY <1>4, <1>5, <1>8, <2>1
<1>11. Circle(r, ny, u)
  <2>1. Len(r) - 1 = N
    BY <1>1, <1>2
  <2> QED BY <1>1, <1>2, <1>4, <1>7, <1>8, <1>9, <1>10, <2>1 DEF Circle
<1>12. {r[j] : j \in 1 .. N + 1} = {s[j] : j \in 1 .. N} \cup {c}
  <2>1. i + 1 \in 1 .. N + 1
    BY <1>1
  <2>2. ASSUME NEW j \in 1 .. N PROVE \E l \in 1 .. N + 1 : r[l] = s[j]
    <3>1. CASE j <= i
      <4>1. j \in 1 .. i /\ j \in 1 .. N + 1
        BY <1>1, <3>1
      <4> QED BY <1>2, <4>1
    <3>2. CASE j > i
      <4>1. j + 1 \in i + 2 .. N + 1 /\ j + 1 \in 1 .. N + 1 /\ (j + 1) - 1 = j
        BY <1>1, <3>2
      <4>2. r[j + 1] = s[j]
        BY <1>2, <4>1
      <4> QED BY <4>1, <4>2
    <3> QED BY <1>1, <3>1, <3>2
  <2>3. ASSUME NEW j \in 1 .. N + 1 PROVE r[j] = c \/ \E l \in 1 .. N : r[j] = s[l]
    BY <1>2, <1>6
  <2> HIDE DEF at
  <2> QED BY <1>2, <2>1, <2>2, <2>3, SMTT(60)
<1>13. Range(r) = Range(s) \cup {c}
  BY <1>1, <1>2, <1>12, RangeIs DEF N
<1> QED BY <1>11, <1>13 DEF r

\* The last task is linked out.
LEMMA LeaveIs ==
    ASSUME NEW s, NEW nx, NEW u, Circle(s, nx, u), NEW ny, Len(s) > 1,
           ny[u] = nx[u], ny[s[Len(s) - 1]] = s[1],
           \A j \in 1 .. Len(s) - 2 : ny[s[j]] = nx[s[j]]
    PROVE  /\ Circle(Front(s), ny, u)
           /\ Range(Front(s)) = Range(s) \ {s[Len(s)]}
<1> DEFINE N == Len(s)
           r == Front(s)
<1>1. N \in Nat /\ N > 1 /\ s \in Seq(Tasks)
  BY DEF Circle
<1>2. r \in Seq(Tasks) /\ Len(r) = N - 1 /\ \A j \in 1 .. N - 1 : r[j] = s[j]
  BY <1>1 DEF Front
<1> HIDE DEF r
<1>3. \A j, l \in 1 .. N : s[j] = s[l] => j = l
  BY DEF Circle
<1>4. s[1] = nx[u] /\ \A j \in 1 .. N - 1 : s[j + 1] = nx[s[j]]
  BY DEF Circle
<1> HIDE DEF N
<1>5. \A j \in 1 .. N - 1 : j \in 1 .. N
  BY <1>1
<1>6. 1 \in 1 .. N - 1 /\ N - 1 \in 1 .. N - 1 /\ N \in 1 .. N
  BY <1>1
<1>7. ASSUME NEW j \in 1 .. N - 2 PROVE r[j + 1] = ny[r[j]]
  <2>1. j \in 1 .. N - 1 /\ j + 1 \in 1 .. N - 1
    BY <1>1
  <2> QED BY <1>2, <1>4, <2>1 DEF N
<1>8. r[1] = ny[u] /\ ny[r[N - 1]] = r[1]
  BY <1>2, <1>4, <1>6 DEF N
<1>9. \A j, l \in 1 .. N - 1 : r[j] = r[l] => j = l
  BY <1>2, <1>3, <1>5
<1>10. Circle(r, ny, u)
  <2>1. Len(r) > 0 /\ Len(r) - 1 = N - 2
    BY <1>1, <1>2
  <2> QED BY <1>2, <1>7, <1>8, <1>9, <2>1 DEF Circle
<1>11. {r[j] : j \in 1 .. N - 1} = {s[j] : j \in 1 .. N} \ {s[N]}
  <2>1. \A j \in 1 .. N - 1 : j # N
    BY <1>1
  <2>2. \A j \in 1 .. N : j # N => j \in 1 .. N - 1
    BY <1>1
  <2> QED BY <1>2, <1>3, <1>5, <1>6, <2>1, <2>2
<1>12. Range(r) = Range(s) \ {s[N]}
  BY <1>1, <1>2, <1>11, RangeIs DEF N
<1> QED BY <1>10, <1>12 DEF r, N

\* s is the order of the tasks in the ring.
OrderOf(s) == Circle(s, next, current) /\ Range(s) = Linked

LEMMA InOrder ==
    ASSUME NEW s, OrderOf(s)
    PROVE  Linked = {s[i] : i \in 1 .. Len(s)} /\ \A i \in 1 .. Len(s) : s[i] \in Linked
BY RangeIs DEF OrderOf, Circle

\* What RoundRobin lets one step do with the order.
Moves(s, r) ==
    \/ r = s
    \/ r = Append(Tail(s), Head(s))
    \/ \E t \in Tasks \ Range(s) : \E i \in 1 .. Len(s) :
          s[i] = Idle /\ r = InsertAt(s, i + 1, t)
    \/ s[Len(s)] # Idle /\ r = Front(s)

\* Where the ring is not touched.
LEMMA OrderStays ==
    ASSUME NEW s, OrderOf(s), UNCHANGED current, Linked' = Linked,
           next'[current] = next[current], \A t \in Linked : next'[t] = next[t]
    PROVE  OrderOf(s)'
<1>1. \A i \in 1 .. Len(s) : s[i] \in Linked
  BY InOrder
<1>2. Len(s) \in Nat /\ Len(s) > 0
  BY DEF OrderOf, Circle
<1>3. \A i \in 1 .. Len(s) - 1 : i \in 1 .. Len(s)
  BY <1>2
<1>4. Len(s) \in 1 .. Len(s)
  BY <1>2
<1> QED BY <1>1, <1>3, <1>4 DEF OrderOf, Circle

\* The code between the writes of the ring.
LEMMA OrderBetween ==
    ASSUME IInv, NEW s, OrderOf(s),
           \/ SyscallFork(cpu) \/ SyscallExitGroup(cpu) \/ SyscallExit(cpu) \/ Return(cpu)
           \/ ForkNoMemory(cpu) \/ ForkAlloc(cpu) \/ ForkPid(cpu) \/ ForkPidWrite(cpu)
           \/ ForkStacks(cpu) \/ ForkCopy(cpu) \/ ExitBegin(cpu) \/ ExitSearch(cpu)
           \/ ExitHead(cpu)
    PROVE  OrderOf(s)'
<1> USE DEF tcbs, sched, locals
<1>1. UNCHANGED <<next, current, cpu>>
  BY DEF SyscallFork, SyscallExitGroup, SyscallExit, Return, ForkNoMemory, ForkAlloc,
         ForkPid, ForkPidWrite, ForkStacks, ForkCopy, ExitBegin, ExitSearch, ExitHead
<1>2. cpu \in Tasks /\ pc \in [Tasks -> Points]
  BY DEF IInv, TypeOK
<1>3. Apart' = Apart
  <2>1. CASE ExitHead(cpu)
    <3>1. pc[cpu] = "exitHead" /\ pc'[cpu] = "exitCurrent" /\ obj' = obj
      BY <1>2, <2>1 DEF ExitHead, At, Goto
    <3> QED BY <1>1, <3>1 DEF Apart
  <2>2. CASE ForkCopy(cpu)
    <3>1. pc[cpu] = "forkCopy" /\ obj[cpu] # cpu
      BY <1>2, <2>2 DEF ForkCopy, At, IInv, LocalInv, LocalsOf, Making
    <3>2. pc'[cpu] = "forkLink"
      BY <1>2, <2>2, <3>1 DEF ForkCopy
    <3> QED BY <1>1, <3>1, <3>2 DEF Apart
  <2>3. CASE ~ExitHead(cpu) /\ ~ForkCopy(cpu)
    <3>1. /\ pc[cpu] \notin {"forkLinkWrite", "exitHead", "exitCurrent", "exitFree"}
          /\ pc'[cpu] \notin {"forkLinkWrite", "exitHead", "exitCurrent", "exitFree"}
      BY <1>2, <2>3
      DEF SyscallFork, SyscallExitGroup, SyscallExit, Return, ForkNoMemory, ForkAlloc,
          ForkPid, ForkPidWrite, ForkStacks, ExitBegin, ExitSearch, At, Goto
    <3> QED BY <1>1, <3>1 DEF Apart
  <2> QED BY <2>1, <2>2, <2>3
<1>4. Linked' = Linked
  BY <1>1, <1>3 DEF Linked
<1> QED BY <1>1, <1>4, OrderStays

\* The child's own next is written, and a dead task's cleared, outside the ring.
LEMMA OrderOutside ==
    ASSUME IInv, NEW s, OrderOf(s), ForkLink(cpu) \/ ExitFree(cpu) \/ ExitSwitch(cpu)
    PROVE  OrderOf(s)'
<1> USE DEF tcbs, sched, locals
<1>0. cpu \in Tasks /\ pc \in [Tasks -> Points] /\ next \in [Tasks -> TaskOrNull]
  BY DEF IInv, TypeOK
<1>1. CASE ForkLink(cpu)
  <2>1. PICK c \in Tasks : c = obj[cpu] /\ c # cpu /\ c \notin Linked
    BY <1>1 DEF ForkLink, At, IInv, TypeOK, LocalInv, LocalsOf, Linking
  <2>2. /\ pc[cpu] = "forkLink" /\ pc'[cpu] = "forkLinkWrite"
        /\ next' = [next EXCEPT ![c] = next[head]]
        /\ UNCHANGED <<current, cpu, obj>>
    BY <1>0, <1>1, <2>1 DEF ForkLink, At, Goto
  <2>3. Apart = {} /\ Apart' = {c}
    BY <2>1, <2>2 DEF Apart
  <2>4. \A t \in Tasks \ {c} : next'[t] = next[t]
    BY <1>0, <2>2
  <2>5. Linked' = Linked
    BY <2>1, <2>3, <2>4 DEF Linked
  <2>6. current \in Linked
    BY <2>2 DEF IInv, RingInv
  <2>7. \A t \in Linked : t \in Tasks \ {c}
    BY <2>1 DEF Linked
  <2> QED BY <2>2, <2>4, <2>5, <2>6, <2>7, OrderStays
<1>2. CASE ExitFree(cpu)
  <2>1. /\ pc[cpu] = "exitFree" /\ obj[cpu] = cpu /\ pc'[cpu] = "exitSwitch"
        /\ UNCHANGED <<current, cpu, obj>>
    BY <1>0, <1>2 DEF ExitFree, At, Goto, IInv, LocalInv, LocalsOf, InExit
  <2>2. next' = [next EXCEPT ![cpu] = Null]
    BY <1>2, <2>1 DEF ExitFree
  <2>3. next'[cpu] = Null /\ \A t \in Tasks \ {cpu} : next'[t] = next[t]
    BY <1>0, <2>2
  <2>4. Apart = {cpu} /\ Apart' = {}
    BY <2>1 DEF Apart
  <2>5. Linked' = Linked
    BY <2>3, <2>4 DEF Linked
  <2>6. current \in Linked /\ cpu \notin Linked
    BY <2>1, <2>4 DEF IInv, RingInv, Linked
  <2>7. \A t \in Linked : t \in Tasks \ {cpu}
    BY <2>6 DEF Linked
  <2> QED BY <2>1, <2>3, <2>5, <2>6, <2>7, OrderStays
<1>3. CASE ExitSwitch(cpu)
  <2>1. /\ pc[cpu] = "exitSwitch" /\ current \in Tasks /\ current # cpu /\ cpu' = current
        /\ pc' = [pc EXCEPT ![cpu] = "none"] /\ UNCHANGED <<next, current>>
    BY <1>3, ExitSwitchIs
  <2>2. pc'[cpu'] \notin Windows
    BY <1>0, <2>1, Alone
  <2>3. Apart = {} /\ Apart' = {}
    BY <2>1, <2>2 DEF Apart, Windows, InExit
  <2>4. Linked' = Linked
    BY <2>1, <2>3 DEF Linked
  <2> QED BY <2>1, <2>4, OrderStays
<1> QED BY <1>1, <1>2, <1>3

\* A tick, and the first half of an exit's switch, are turns.
LEMMA OrderTurns ==
    ASSUME IInv, WindowsClosed, NEW s, OrderOf(s), Tick \/ ExitCurrent(cpu)
    PROVE  OrderOf(Append(Tail(s), Head(s)))' /\ Linked' = Linked
<1> USE DEF tcbs, sched, locals
<1>1. next' = next /\ current' = next[current] /\ Linked' = Linked
  <2>1. CASE Tick
    <3>1. Apart = {} /\ Apart' = {}
      BY <2>1, TickIs DEF Apart, Windows, InExit
    <3> QED BY <2>1, <3>1, TickIs DEF Linked
  <2>2. CASE ExitCurrent(cpu)
    <3>1. /\ pc[cpu] = "exitCurrent" /\ cpu \in Tasks /\ pc'[cpu] = "exitFree"
          /\ UNCHANGED <<next, cpu, obj>>
      BY <2>2 DEF ExitCurrent, At, Goto, IInv, TypeOK
    <3>2. obj[cpu] = cpu /\ cpu = current
      BY <3>1 DEF IInv, FrameInv, LocalInv, LocalsOf, InExit
    <3>3. Apart' = Apart
      BY <3>1 DEF Apart
    <3> QED BY <2>2, <3>1, <3>2, <3>3 DEF ExitCurrent, Linked
  <2> QED BY <2>1, <2>2
<1> DEFINE r == Append(Tail(s), Head(s))
<1>2. Circle(s, next, current) /\ Range(s) = Linked
  BY DEF OrderOf
<1>3. Circle(r, next, next[current]) /\ Range(r) = Range(s)
  BY <1>2, TurnIs
<1> HIDE DEF r
<1>4. OrderOf(r)'
  BY <1>1, <1>2, <1>3 DEF OrderOf
<1> QED BY <1>1, <1>4 DEF r

\* A fork puts its child behind the idle task.
LEMMA OrderJoins ==
    ASSUME IInv, NEW s, OrderOf(s), ForkLinkWrite(cpu)
    PROVE  (\E r : OrderOf(r)' /\ Moves(s, r)) /\ Linked' = Linked \cup {obj[cpu]}
<1> USE DEF tcbs, sched, locals
<1> DEFINE N == Len(s)
<1>1. /\ pc[cpu] = "forkLinkWrite" /\ pc' = [pc EXCEPT ![cpu] = "return"]
      /\ next' = [next EXCEPT ![Idle] = obj[cpu]]
      /\ UNCHANGED <<current, cpu>>
      /\ cpu \in Tasks /\ cpu = current /\ cpu \in Linked /\ Idle \in Linked
  BY Running DEF ForkLinkWrite, At, Goto, IInv, TypeOK, RingInv
<1>2. PICK c \in Tasks : /\ c = obj[cpu] /\ c \notin Linked /\ c # cpu
                         /\ next[c] = next[Idle] /\ next[c] # Null
  BY <1>1, TasksAssumption DEF IInv, TypeOK, LocalInv, LocalsOf, Linking, RingInv, Linked
<1>3. Idle \in Tasks /\ Idle # cpu /\ Idle # c /\ c # Null
  BY <1>1, <1>2, TasksAssumption DEF IInv, FrameInv
<1>4. next'[Idle] = c /\ \A t \in Tasks \ {Idle} : next'[t] = next[t]
  BY <1>1, <1>2, <1>3 DEF IInv, TypeOK
<1>5. Linked' = Linked \cup {c}
  <2>1. pc'[cpu] = "return"
    BY <1>1 DEF IInv, TypeOK
  <2>2. Apart = {c} /\ Apart' = {}
    BY <1>1, <1>2, <2>1 DEF Apart
  <2>3. next[Idle] # Null
    BY <1>1 DEF Linked
  <2> QED BY <1>2, <1>3, <1>4, <2>2, <2>3 DEF Linked
<1>6. /\ Circle(s, next, current) /\ {s[i] : i \in 1 .. N} = Linked /\ Range(s) = Linked
      /\ N \in Nat /\ N > 0
      /\ \A i, j \in 1 .. N : s[i] = s[j] => i = j
  <2>1. Circle(s, next, current) /\ Range(s) = Linked
    BY DEF OrderOf
  <2>2. {s[i] : i \in 1 .. N} = Linked
    BY InOrder
  <2>3. N \in Nat /\ N > 0 /\ \A i, j \in 1 .. N : s[i] = s[j] => i = j
    BY <2>1 DEF Circle
  <2> QED BY <2>1, <2>2, <2>3
<1>7. PICK i \in 1 .. N : s[i] = Idle
  BY <1>1, <1>6
<1>8. i \in 1 .. N - 1
  <2> SUFFICES ASSUME i = N PROVE FALSE
    BY <1>6
  <2>1. next[s[N]] = next[current] /\ s[N] = Idle
    BY <1>6, <1>7 DEF Circle
  <2> QED BY <1>1, <1>3, <2>1 DEF IInv, RingInv
<1>9. \A j \in 1 .. N : s[j] \in Tasks /\ s[j] # c
  BY <1>2, <1>6 DEF Linked
<1>10. /\ next'[current] = next[current] /\ next'[s[i]] = c /\ next'[c] = next[s[i]]
       /\ \A j \in 1 .. N : j # i => next'[s[j]] = next[s[j]]
  BY <1>1, <1>2, <1>3, <1>4, <1>6, <1>7, <1>9
<1> DEFINE r == InsertAt(s, i + 1, c)
<1>11. Circle(r, next', current) /\ Range(r) = Linked \cup {c}
  <2>1. PICK nx, ny, u : nx = next /\ ny = next' /\ u = current
    OBVIOUS
  <2>2. /\ ny[u] = nx[u] /\ ny[s[i]] = c /\ ny[c] = nx[s[i]]
        /\ \A j \in 1 .. N : j # i => ny[s[j]] = nx[s[j]]
    BY <1>10, <2>1
  <2>3. Circle(s, nx, u)
    BY <1>6, <2>1
  <2>4. /\ Circle(r, ny, u)
        /\ Range(r) = Range(s) \cup {c}
    BY <1>8, <1>9, <2>2, <2>3, JoinIs
  <2> QED BY <1>6, <2>1, <2>4
<1>12. Moves(s, r)
  BY <1>6, <1>7, <1>2 DEF Moves
<1> HIDE DEF r
<1>13. OrderOf(r)'
  BY <1>1, <1>5, <1>11 DEF OrderOf
<1> QED BY <1>2, <1>5, <1>12, <1>13

\* An exit takes the running task, the last in the order, out.
LEMMA OrderLeaves ==
    ASSUME IInv, NEW s, OrderOf(s), ExitUnlink(cpu)
    PROVE  (\E r : OrderOf(r)' /\ Moves(s, r)) /\ Linked' = Linked \ {cpu}
<1> USE DEF tcbs, sched, locals
<1> DEFINE N == Len(s)
           p == prev[cpu]
<1>1. /\ pc[cpu] = "exitSearch" /\ pc' = [pc EXCEPT ![cpu] = "exitHead"]
      /\ next[p] = obj[cpu] /\ next' = [next EXCEPT ![p] = next[obj[cpu]]]
      /\ UNCHANGED <<current, cpu, obj>>
      /\ cpu \in Tasks /\ cpu = current /\ cpu \in Linked /\ next[cpu] \in Linked
      /\ cpu # Idle
  BY Running, IdleStays DEF ExitUnlink, At, Goto, IInv, TypeOK, InExit
<1>2. obj[cpu] = cpu /\ p \in Linked /\ next[cpu] # cpu /\ p # cpu /\ p \in Tasks
  BY <1>1 DEF IInv, LocalInv, LocalsOf, InExit, Linked
<1>3. next'[p] = next[cpu] /\ \A t \in Tasks \ {p} : next'[t] = next[t]
  BY <1>1, <1>2 DEF IInv, TypeOK
<1>4. Linked' = Linked \ {cpu}
  <2>1. pc'[cpu] = "exitHead"
    BY <1>1 DEF IInv, TypeOK
  <2>2. Apart = {} /\ Apart' = {cpu}
    BY <1>1, <1>2, <2>1 DEF Apart
  <2>3. next[p] # Null /\ next[cpu] # Null
    BY <1>1, <1>2 DEF Linked
  <2> QED BY <1>2, <1>3, <2>2, <2>3 DEF Linked
<1>5. /\ Circle(s, next, current) /\ {s[i] : i \in 1 .. N} = Linked /\ Range(s) = Linked
      /\ N \in Nat /\ N > 0 /\ s[1] = next[current] /\ next[s[N]] = s[1]
      /\ \A i, j \in 1 .. N : s[i] = s[j] => i = j
      /\ \A i \in 1 .. N - 1 : s[i + 1] = next[s[i]]
  BY InOrder DEF OrderOf, Circle
<1> HIDE DEF N
<1>6. s[N] = cpu
  <2>1. N \in 1 .. N
    BY <1>5
  <2>2. s[N] \in Linked
    BY <1>5, <2>1
  <2> QED BY <1>1, <1>5, <2>2 DEF IInv, RingInv
<1>7. N > 1
  <2>1. s[1] # s[N]
    BY <1>1, <1>2, <1>5, <1>6
  <2> QED BY <1>5, <2>1
<1>8. s[N - 1] = p
  <2>1. N - 1 \in 1 .. N - 1 /\ N - 1 \in 1 .. N /\ (N - 1) + 1 = N
    BY <1>5, <1>7
  <2>2. next[s[N - 1]] = cpu
    BY <1>5, <1>6, <2>1
  <2>3. s[N - 1] \in Linked
    BY <1>5, <2>1
  <2> QED BY <1>1, <1>2, <2>2, <2>3 DEF IInv, RingInv
<1>9. ASSUME NEW j \in 1 .. N - 2 PROVE next'[s[j]] = next[s[j]]
  <2>1. j \in 1 .. N /\ N - 1 \in 1 .. N /\ j # N - 1
    BY <1>5, <1>7
  <2>2. s[j] # p /\ s[j] \in Linked
    BY <1>5, <1>8, <2>1
  <2> QED BY <1>3, <2>2 DEF Linked
<1>10. next'[current] = next[current] /\ next'[s[N - 1]] = s[1]
  BY <1>1, <1>2, <1>3, <1>5, <1>8
<1> DEFINE r == Front(s)
<1>11. Circle(r, next', current) /\ Range(r) = Linked \ {cpu}
  <2>1. PICK nx, ny, u : nx = next /\ ny = next' /\ u = current
    OBVIOUS
  <2>2. /\ ny[u] = nx[u] /\ ny[s[Len(s) - 1]] = s[1]
        /\ \A j \in 1 .. Len(s) - 2 : ny[s[j]] = nx[s[j]]
    BY <1>9, <1>10, <2>1 DEF N
  <2>3. Circle(s, nx, u) /\ Len(s) > 1
    BY <1>5, <1>7, <2>1 DEF N
  <2>4. /\ Circle(r, ny, u)
        /\ Range(r) = Range(s) \ {s[Len(s)]}
    BY <2>2, <2>3, LeaveIs
  <2> QED BY <1>5, <1>6, <2>1, <2>4 DEF N
<1>12. Moves(s, r)
  BY <1>1, <1>6 DEF Moves, N
<1> HIDE DEF r
<1>13. OrderOf(r)'
  BY <1>1, <1>4, <1>11 DEF OrderOf
<1> QED BY <1>4, <1>12, <1>13

\* The tasks of the ring have an order, which is what Queue computes.
OrderInv == \E s : OrderOf(s)

LEMMA QueueIs ==
    ASSUME NEW s, OrderOf(s) PROVE Queue = s /\ Ring = Linked
<1>1. Queue = s
  BY RoundIs DEF OrderOf, Queue
<1> QED BY <1>1 DEF OrderOf, Ring

LEMMA OrderStep ==
    ASSUME WindowsClosed, IInv, NEW s, OrderOf(s), [Next]_vars
    PROVE  \E r : OrderOf(r)' /\ Moves(s, r)
<1>1. CASE UNCHANGED vars
  <2>1. Linked' = Linked /\ UNCHANGED <<next, current>>
    BY <1>1 DEF vars, tcbs, sched, locals, Linked, Apart
  <2> QED BY <2>1, OrderStays DEF Moves
<1>2. CASE Tick \/ ExitCurrent(cpu)
  BY <1>2, OrderTurns DEF Moves
<1>3. CASE ForkLinkWrite(cpu) \/ ExitUnlink(cpu)
  BY <1>3, OrderJoins, OrderLeaves
<1>4. CASE ForkLink(cpu) \/ ExitFree(cpu) \/ ExitSwitch(cpu)
  BY <1>4, OrderOutside DEF Moves
<1>5. CASE \/ SyscallFork(cpu) \/ SyscallExitGroup(cpu) \/ SyscallExit(cpu) \/ Return(cpu)
           \/ ForkNoMemory(cpu) \/ ForkAlloc(cpu) \/ ForkPid(cpu) \/ ForkPidWrite(cpu)
           \/ ForkStacks(cpu) \/ ForkCopy(cpu) \/ ExitBegin(cpu) \/ ExitSearch(cpu)
           \/ ExitHead(cpu)
  BY <1>5, OrderBetween DEF Moves
<1> QED
  <2>1. \A t \in Tasks : Syscall(t) \/ KernelStep(t) => t = cpu
    BY OnlyTheRunning
  <2> QED BY <1>1, <1>2, <1>3, <1>4, <1>5, <2>1 DEF Next, Syscall, KernelStep, ForkStep, ExitStep

\* The first order is that of kernel_main: the shell's task, then the idle task.
LEMMA InitOrder == Init => OrderOf(<<First, Idle>>)
<1> SUFFICES ASSUME Init PROVE OrderOf(<<First, Idle>>)
  OBVIOUS
<1> DEFINE s == <<First, Idle>>
<1>1. First \in Tasks /\ Idle \in Tasks /\ First # Idle /\ Null \notin Tasks
  BY TasksAssumption
<1>2. next[First] = Idle /\ next[Idle] = First /\ current = Idle
  BY <1>1 DEF Init
<1>3. s \in Seq(Tasks) /\ Len(s) = 2 /\ s[1] = First /\ s[2] = Idle
  BY <1>1
<1>4. Circle(s, next, current)
  BY <1>1, <1>2, <1>3 DEF Circle
<1>5. Range(s) = {First, Idle}
  <2>1. Range(s) = {s[i] : i \in 1 .. 2}
    BY <1>3, RangeIs
  <2>2. 1 .. 2 = {1, 2}
    OBVIOUS
  <2> HIDE DEF s
  <2>3. {s[i] : i \in {1, 2}} = {s[1], s[2]}
    OBVIOUS
  <2> QED BY <1>3, <2>1, <2>2, <2>3
<1>6. Linked = {First, Idle}
  BY <1>1 DEF Init, Linked, Apart
<1> QED BY <1>4, <1>5, <1>6 DEF OrderOf

\* A move of the order is a step of RoundRobin.
LEMMA MovesAre ==
    ASSUME NEW s, OrderOf(s), NEW r, OrderOf(r)', Moves(s, r)
    PROVE  [Order!Next]_Queue
<1>1. Queue = s
  BY QueueIs
<1>2. Queue' = r
  <2>1. Queue' = Round(next', current')
    BY DEF Queue
  <2>2. Circle(r, next', current')
    BY DEF OrderOf
  <2>3. PICK nx, u : nx = next' /\ u = current'
    OBVIOUS
  <2>4. Round(nx, u) = r
    BY <2>2, <2>3, RoundIs
  <2> QED BY <2>1, <2>3, <2>4
<1>3. DOMAIN s = 1 .. Len(s)
  BY DEF OrderOf, Circle
<1>4. Order!Range(s) = Range(s) /\ Order!Last(s) = s[Len(s)] /\ Order!Front(s) = Front(s)
  BY DEF Order!Range, Range, Order!Last, Order!Front, Front
<1>5. CASE r = s
  BY <1>1, <1>2, <1>5
<1>6. CASE r = Append(Tail(s), Head(s))
  BY <1>1, <1>2, <1>6 DEF Order!Next, Order!Turn
<1>7. CASE s[Len(s)] # Idle /\ r = Front(s)
  BY <1>1, <1>2, <1>4, <1>7 DEF Order!Next, Order!Leave
<1>8. CASE \E t \in Tasks \ Range(s) : \E i \in 1 .. Len(s) :
            s[i] = Idle /\ r = InsertAt(s, i + 1, t)
  <2>1. PICK t \in Tasks \ Range(s) : \E i \in 1 .. Len(s) :
            s[i] = Idle /\ r = InsertAt(s, i + 1, t)
    BY <1>8
  <2>2. PICK i \in 1 .. Len(s) : s[i] = Idle /\ r = InsertAt(s, i + 1, t)
    BY <2>1
  <2>3. Order!InsertAt(s, i + 1, t) = InsertAt(s, i + 1, t)
    BY DEF Order!InsertAt, InsertAt
  <2>4. t \in Tasks \ Order!Range(Queue) /\ i \in DOMAIN Queue /\ Queue[i] = Idle
    BY <1>1, <1>3, <1>4, <2>2
  <2>5. Queue' = Order!InsertAt(Queue, i + 1, t)
    BY <1>1, <1>2, <2>2, <2>3
  <2> QED BY <2>4, <2>5 DEF Order!Next, Order!Join
<1> QED BY <1>5, <1>6, <1>7, <1>8 DEF Moves

LEMMA OrderInvariance ==
    ASSUME WindowsClosed PROVE Spec => [](IInv /\ OrderInv)
<1>1. Init => OrderInv
  BY InitOrder DEF OrderInv
<1>2. IInv /\ OrderInv /\ [Next]_vars => OrderInv'
  BY OrderStep DEF OrderInv
<1> QED BY <1>1, <1>2, Invariance, PTL DEF Spec

\* The ring is a round-robin queue: a tick moves one task to the end, a fork adds its
\* child behind the idle task and an exit takes its own task out, wherever in the kernel
\* the ticks come but in the windows (task.c:67, 71, 104, 122-133).
THEOREM TurnsAreRoundRobin == ASSUME WindowsClosed PROVE Spec => RoundRobinKept
<1>1. Init => Order!Init
  BY InitOrder, QueueIs DEF Order!Init
<1>2. IInv /\ OrderInv /\ [Next]_vars => [Order!Next]_Queue
  BY OrderStep, MovesAre DEF OrderInv
<1> QED BY <1>1, <1>2, OrderInvariance, PTL DEF Spec, RoundRobinKept, Order!Spec

\* A task_t that malloc gave is in the ring, or the running task's own, or the child of
\* a fork.
PlacedInv ==
    \A t \in allocated :
        \/ t \in Linked \cup {cpu}
        \/ \E u \in Tasks : pc[u] \in Making \cup Linking /\ obj[u] = t

\* Steps that keep the ring and every fork's child.
LEMMA PlacedStay ==
    ASSUME PlacedInv, allocated' \subseteq allocated, Linked \subseteq Linked', cpu' = cpu,
           \A u \in Tasks : pc[u] \in Making \cup Linking =>
              pc'[u] \in Making \cup Linking /\ obj'[u] = obj[u]
    PROVE  PlacedInv'
BY DEF PlacedInv

LEMMA PlacedStep ==
    ASSUME WindowsClosed, IInv, PlacedInv, OrderInv, [Next]_vars PROVE PlacedInv'
<1> USE DEF tcbs, sched, locals
<1>0. cpu \in Tasks /\ pc \in [Tasks -> Points] /\ obj \in [Tasks -> TaskOrNull]
  BY DEF IInv, TypeOK
<1>9. PICK s : OrderOf(s)
  BY DEF OrderInv
<1>10. OrderOf(s)' => Linked' = Linked
  BY <1>9 DEF OrderOf
<1>1. CASE UNCHANGED vars
  BY <1>1 DEF vars, PlacedInv, Linked, Apart
<1>2. CASE Tick
  <2>1. cpu \in Linked /\ pc' = pc /\ UNCHANGED <<allocated, obj>> /\ Linked' = Linked
    BY <1>9, <1>2, TickIs, OrderTurns
  <2> QED BY <2>1 DEF PlacedInv
<1>3. CASE ExitSwitch(cpu)
  <2>1. /\ pc' = [pc EXCEPT ![cpu] = "none"] /\ obj' = [obj EXCEPT ![cpu] = Null]
        /\ pc[cpu] = "exitSwitch" /\ UNCHANGED allocated
    BY <1>3, ExitSwitchIs
  <2>2. \A u \in Tasks \ {cpu} : pc'[u] = pc[u] /\ obj'[u] = obj[u]
    BY <1>0, <2>1
  <2>3. cpu \notin allocated /\ Linked' = Linked
    BY <1>0, <1>9, <1>10, <1>3, <2>1, OrderOutside DEF IInv, LocalInv, LocalsOf
  <2>4. \A u \in Tasks : pc[u] \in Making \cup Linking => u # cpu
    BY <2>1 DEF Making, Linking
  <2> QED BY <2>1, <2>2, <2>3, <2>4 DEF PlacedInv
<1>4. CASE ForkAlloc(cpu)
  <2>1. PICK c \in Tasks \ allocated :
          allocated' = allocated \cup {c} /\ obj' = [obj EXCEPT ![cpu] = c]
    BY <1>4 DEF ForkAlloc
  <2>2. pc[cpu] = "fork" /\ pc' = [pc EXCEPT ![cpu] = "forkPid"] /\ UNCHANGED cpu
    BY <1>4 DEF ForkAlloc, At, Goto
  <2>3. /\ pc'[cpu] \in Making /\ obj'[cpu] = c
        /\ \A u \in Tasks \ {cpu} : pc'[u] = pc[u] /\ obj'[u] = obj[u]
    BY <1>0, <2>1, <2>2 DEF Making
  <2>4. Linked' = Linked
    BY <1>9, <1>10, <1>4, OrderBetween
  <2>5. \A u \in Tasks : pc[u] \in Making \cup Linking => u # cpu
    BY <2>2 DEF Making, Linking
  <2>6. ASSUME NEW t \in allocated'
        PROVE  \/ t \in Linked' \cup {cpu'}
               \/ \E u \in Tasks : pc'[u] \in Making \cup Linking /\ obj'[u] = t
    <3>1. CASE t = c
      BY <1>0, <2>3, <3>1
    <3>2. CASE t \in allocated
      BY <2>2, <2>3, <2>4, <2>5, <3>2 DEF PlacedInv
    <3> QED BY <2>1, <3>1, <3>2
  <2> QED BY <2>6 DEF PlacedInv
<1>5. CASE ForkLinkWrite(cpu)
  <2>1. /\ pc' = [pc EXCEPT ![cpu] = "return"] /\ UNCHANGED <<allocated, cpu, obj>>
        /\ Linked' = Linked \cup {obj[cpu]}
    BY <1>9, <1>5, OrderJoins DEF ForkLinkWrite, At, Goto
  <2>2. \A u \in Tasks \ {cpu} : pc'[u] = pc[u]
    BY <1>0, <2>1
  <2> QED BY <2>1, <2>2 DEF PlacedInv
<1>6. CASE ExitUnlink(cpu)
  <2>1. /\ pc[cpu] = "exitSearch" /\ pc' = [pc EXCEPT ![cpu] = "exitHead"]
        /\ UNCHANGED <<allocated, cpu, obj>> /\ Linked' = Linked \ {cpu}
    BY <1>9, <1>6, OrderLeaves DEF ExitUnlink, At, Goto
  <2>2. \A u \in Tasks : pc[u] \in Making \cup Linking => pc'[u] = pc[u]
    BY <1>0, <2>1 DEF Making, Linking
  <2> QED BY <2>1, <2>2 DEF PlacedInv
<1>7. CASE ForkPid(cpu) \/ ForkPidWrite(cpu) \/ ForkStacks(cpu) \/ ForkCopy(cpu) \/ ForkLink(cpu)
  <2>1. UNCHANGED <<allocated, cpu, obj>> /\ Linked' = Linked
    BY <1>9, <1>10, <1>7, OrderBetween, OrderOutside
    DEF ForkPid, ForkPidWrite, ForkStacks, ForkCopy, ForkLink
  <2>2. CASE ForkCopy(cpu)
    <3>1. PICK c \in Tasks : c = obj[cpu] /\ c # cpu /\ pc[c] = "none"
      BY <2>2 DEF ForkCopy, At, IInv, TypeOK, LocalInv, LocalsOf, Making
    <3>2. pc' = [pc EXCEPT ![cpu] = "forkLink", ![c] = "user"]
      BY <2>2, <3>1 DEF ForkCopy
    <3>3. \A u \in Tasks : pc[u] \in Making \cup Linking => pc'[u] \in Making \cup Linking
      BY <1>0, <3>1, <3>2 DEF Making, Linking
    <3> QED BY <2>1, <3>3, PlacedStay
  <2>3. CASE ~ForkCopy(cpu)
    <3>1. PICK q \in Making \cup Linking : pc' = [pc EXCEPT ![cpu] = q]
      BY <1>7, <2>3
      DEF ForkPid, ForkPidWrite, ForkStacks, ForkLink, Goto, Making, Linking
    <3>2. \A u \in Tasks : pc[u] \in Making \cup Linking => pc'[u] \in Making \cup Linking
      BY <1>0, <3>1
    <3> QED BY <2>1, <3>2, PlacedStay
  <2> QED BY <2>2, <2>3
<1>8. CASE \/ SyscallFork(cpu) \/ SyscallExitGroup(cpu) \/ SyscallExit(cpu) \/ Return(cpu)
           \/ ForkNoMemory(cpu) \/ ExitBegin(cpu) \/ ExitSearch(cpu) \/ ExitHead(cpu)
           \/ ExitCurrent(cpu) \/ ExitFree(cpu)
  <2>1. Linked' = Linked
    BY <1>9, <1>10, <1>8, OrderBetween, OrderOutside, OrderTurns
  <2>2. /\ pc[cpu] \notin Making \cup Linking /\ cpu' = cpu /\ allocated' \subseteq allocated
        /\ \A u \in Tasks \ {cpu} : pc'[u] = pc[u] /\ obj'[u] = obj[u]
    BY <1>0, <1>8
    DEF SyscallFork, SyscallExitGroup, SyscallExit, Return, ForkNoMemory, ExitBegin,
        ExitSearch, ExitHead, ExitCurrent, ExitFree, At, Goto, Making, Linking
  <2> QED BY <2>1, <2>2, PlacedStay
<1> QED
  <2>1. \A t \in Tasks : Syscall(t) \/ KernelStep(t) => t = cpu
    BY OnlyTheRunning
  <2> QED BY <1>1, <1>2, <1>3, <1>4, <1>5, <1>6, <1>7, <1>8, <2>1
          DEF Next, Syscall, KernelStep, ForkStep, ExitStep

\* Nothing in use is freed and nothing freed is kept: a task_t is in the ring, or a child
\* in the making, or on its way out (task.c:122-137).
THEOREM NothingDanglesAlways == ASSUME WindowsClosed PROVE Spec => []NothingDangles
<1>1. Init => PlacedInv
  <2> SUFFICES ASSUME Init PROVE PlacedInv
    OBVIOUS
  <2>1. First \in Tasks /\ Idle \in Tasks /\ First # Idle /\ Null \notin Tasks
    BY TasksAssumption
  <2>2. next[First] # Null /\ next[Idle] # Null /\ Apart = {}
    BY <2>1 DEF Init, Apart
  <2> QED BY <2>1, <2>2 DEF Init, PlacedInv, Linked
<1>2. IInv /\ PlacedInv /\ OrderInv /\ [Next]_vars => PlacedInv'
  BY PlacedStep
<1>3. IInv /\ PlacedInv /\ OrderInv => NothingDangles
  <2> SUFFICES ASSUME IInv, PlacedInv, OrderInv PROVE NothingDangles
    OBVIOUS
  <2>1. Ring = Linked
    BY QueueIs DEF OrderInv
  <2>2. \A t \in Linked : t \in allocated
    <3> SUFFICES ASSUME NEW t \in Linked PROVE t \in allocated
      OBVIOUS
    <3>1. t \in Tasks /\ next[t] # Null
      BY DEF Linked
    <3> QED BY <3>1 DEF IInv, LocalInv, LocalsOf
  <2>3. head \in allocated
    BY <2>2 DEF IInv, RingInv
  <2>4. current \in allocated
    <3>1. CASE pc[cpu] \in {"exitHead", "exitCurrent"}
      <4>1. cpu = current /\ cpu \in Tasks /\ cpu \in Live
        BY <3>1 DEF IInv, FrameInv, TypeOK
      <4> QED BY <3>1, <4>1 DEF IInv, LocalInv, LocalsOf
    <3>2. CASE pc[cpu] \notin {"exitHead", "exitCurrent"}
      BY <2>2, <3>2 DEF IInv, RingInv
    <3> QED BY <3>1, <3>2
  <2>5. ASSUME NEW t \in allocated, t \notin Linked, t # cpu
        PROVE  t \in {obj[u] : u \in {v \in allocated : pc[v] \in InFork}} \ {Null}
    <3>1. t \in Tasks /\ t # Null
      BY TasksAssumption DEF IInv, TypeOK
    <3>2. PICK u \in Tasks : pc[u] \in Making \cup Linking /\ obj[u] = t
      BY <2>5 DEF PlacedInv
    <3>3. u \in Live /\ pc[u] # "exitSwitch" /\ pc[u] \in InFork
      BY <3>2 DEF Live, Making, Linking, InFork
    <3>4. u \in allocated
      BY <3>3 DEF IInv, LocalInv, LocalsOf
    <3> QED BY <3>1, <3>2, <3>3, <3>4
  <2>6. {obj[t] : t \in {u \in allocated : pc[u] \in InFork}}
            = {obj[u] : u \in {v \in allocated : pc[v] \in InFork}}
    OBVIOUS
  <2> QED BY <2>1, <2>2, <2>3, <2>4, <2>5, <2>6 DEF NothingDangles
<1> QED BY <1>1, <1>2, <1>3, OrderInvariance, PTL DEF Spec
==============================================================================
