---------------------------- MODULE Calls_proofs ----------------------------
(***************************************************************************)
(* Proofs about memory, files and the boot, and then about all calls of    *)
(* Calls together, with those of sockets: for any tasks, files, archives,  *)
(* sizes of pages, of blocks and of the address space.  Each theorem says  *)
(* which habits its programs do not have, and whether a tick may come      *)
(* inside one of the Windows of the break.                                 *)
(***************************************************************************)
EXTENDS Calls, Sockets_proofs

-----------------------------------------------------------------------------
(* Memory: the hypotheses and the inductive invariant.                     *)

\* The hypotheses of the theorems about memory.
WindowsClosed == TickPoints \cap Windows = {}
MemoryCareful == Habits \cap BadMemoryHabits = {}

MemorySpec == MemoryInit /\ [][MemoryNext]_memory

\* A task is in the middle of an update of the break, and no other is.
AloneInv ==
    \A t, u \in Tasks : at[t] \in Windows /\ t # u => at[u] \in TickPoints

\* Whether t will be given, when it returns, what it moved the break over.
Pending(t) == at[t] = "return" /\ arg[t] = current_process_brk /\ arg[t] > known[t]

\* What the locals of a call stand for.
LocalsOf(t) ==
    /\ known[t] <= current_process_brk
    /\ at[t] = "store" =>
        /\ arg[t] >= current_process_brk
        /\ arg[t] > known[t] => known[t] = current_process_brk
    /\ at[t] = "return" => arg[t] <= current_process_brk
    /\ at[t] \in {"add", "sum"} =>
        /\ arg[t] > 0
        /\ addr[t] = current_process_brk
        /\ current_process_brk + arg[t] + PAGE - 1 < TOP
    /\ at[t] = "sum" => sum[t] >= addr[t] + arg[t]
LocalInv == \A t \in Tasks : LocalsOf(t)

\* What lies behind the break, or is pending, is not given yet; nor is anything pending
\* for two tasks.
GivenInv ==
    /\ GivenOnce
    /\ \A x \in Addresses32 : x >= current_process_brk => given[x] = 0
    /\ \A t \in Tasks : \A x \in Addresses32 : Pending(t) /\ x >= known[t] => given[x] = 0
    /\ \A t, u \in Tasks : Pending(t) /\ Pending(u) => t = u

\* The inductive invariant.
MemoryInv == MemoryTypeOK /\ AloneInv /\ LocalInv /\ GivenInv
-----------------------------------------------------------------------------
(* Arithmetic.                                                             *)

LEMMA MemorySizes == PAGE \in Nat \ {0} /\ TOP \in Nat \ {0}
  BY AddressSpaceAssumption DEF AddressSpaceAssumption

\* % TOP on the numbers that occur.
LEMMA Wraps ==
    ASSUME NEW n \in Nat \ {0}, NEW z \in 0 .. n - 1
    PROVE  z % n = z
  OBVIOUS

LEMMA Differences ==
    ASSUME NEW n \in Nat \ {0}, NEW x \in 0 .. n - 1, NEW a \in 0 .. n - 1
    PROVE  (x - a) % n = IF x >= a THEN x - a ELSE x - a + n
  OBVIOUS

\* Rounding up to a page gives at least what was asked for, and less than a page more.
LEMMA RoundsUp ==
    ASSUME NEW n \in Nat, n + PAGE - 1 < TOP
    PROVE  Aligned(n) \in n .. n + PAGE - 1
<1>1. PAGE \in Nat \ {0} /\ TOP \in Nat \ {0}
  BY MemorySizes
<1>2. ASSUME NEW m \in 0 .. TOP - 1, m = n + PAGE - 1
      PROVE  Aligned(n) \in n .. n + PAGE - 1
  <2>1. m % TOP = m
    BY <1>1, Wraps
  <2>2. m = PAGE * (m \div PAGE) + (m % PAGE) /\ m % PAGE \in 0 .. PAGE - 1
    BY <1>1
  <2>3. (m \div PAGE) * PAGE = PAGE * (m \div PAGE) /\ (m \div PAGE) * PAGE \in Int
    BY <1>1
  <2>4. Aligned(n) = (m \div PAGE) * PAGE
    BY <1>2, <2>1 DEF Aligned
  <2> QED BY <1>1, <1>2, <2>2, <2>3, <2>4
<1> QED BY <1>1, <1>2

\* What a call is given is what it names, and nothing else.
LEMMA GivenFromIs ==
    ASSUME MemoryTypeOK,
           NEW a \in Addresses32, NEW n \in Nat, a + n <= TOP
    PROVE  /\ GivenFrom(a, n) \in [Addresses32 -> Nat]
           /\ \A x \in Addresses32 :
                GivenFrom(a, n)[x] = IF x \in a .. a + n - 1 THEN given[x] + 1 ELSE given[x]
<1>1. TOP \in Nat \ {0}
  BY MemorySizes
<1>2. ASSUME NEW x \in Addresses32
      PROVE  (x - a) % TOP < n <=> x \in a .. a + n - 1
  <2>1. (x - a) % TOP = IF x >= a THEN x - a ELSE x - a + TOP
    BY <1>1, Differences DEF Addresses32
  <2> QED BY <1>1, <2>1 DEF Addresses32
<1> QED BY <1>2 DEF GivenFrom, MemoryTypeOK

\* What the invariant says of one task.
LEMMA OfOneTask ==
    ASSUME MemoryInv, NEW t \in Tasks
    PROVE  /\ current_process_brk \in Nat /\ current_process_brk < TOP
           /\ arg[t] \in Nat /\ arg[t] < TOP /\ addr[t] \in Nat /\ addr[t] < TOP
           /\ sum[t] \in Nat /\ sum[t] < TOP /\ known[t] \in Nat /\ known[t] < TOP
           /\ LocalsOf(t)
<1>1. \A n : n \in Addresses32 => n \in Nat /\ n < TOP
  BY MemorySizes DEF Addresses32
<1>2. /\ current_process_brk \in Addresses32 /\ arg[t] \in Addresses32
      /\ addr[t] \in Addresses32 /\ sum[t] \in Addresses32 /\ known[t] \in Addresses32
  BY DEF MemoryInv, MemoryTypeOK
<1> QED BY <1>1, <1>2 DEF MemoryInv, LocalInv
-----------------------------------------------------------------------------
LEMMA InitMemoryInv == MemoryInit => MemoryInv
<1> SUFFICES ASSUME MemoryInit PROVE MemoryInv
  OBVIOUS
<1> USE AddressSpaceAssumption DEF AddressSpaceAssumption
<1>1. MemoryTypeOK
  BY DEF MemoryInit, MemoryTypeOK, Addresses32, Points
<1>2. AloneInv /\ LocalInv
  BY DEF MemoryInit, AloneInv, Windows, LocalInv, LocalsOf
<1>3. GivenInv
  BY DEF MemoryInit, GivenInv, GivenOnce, Pending
<1> QED BY <1>1, <1>2, <1>3 DEF MemoryInv

\* One task goes from a point to the next.
LEMMA StepAlone ==
    ASSUME WindowsClosed, MemoryTypeOK, AloneInv,
           NEW t \in Tasks, NEW p \in Points, NEW q \in Points, From(t, p), To(t, q)
    PROVE  AloneInv' /\ at' \in [Tasks -> Points]
  BY DEF WindowsClosed, MemoryTypeOK, AloneInv, From, To

\* What the locals of the other tasks stand for is not disturbed by a break that grows,
\* unless they are in a window.
LEMMA OthersLocals ==
    ASSUME MemoryInv, NEW t \in Tasks, NEW u \in Tasks \ {t}, at[u] \notin Windows,
           current_process_brk' \in Addresses32, current_process_brk' >= current_process_brk,
           at'[u] = at[u], arg'[u] = arg[u], addr'[u] = addr[u],
           sum'[u] = sum[u], known'[u] = known[u]
    PROVE  LocalsOf(u)' /\ (Pending(u)' => Pending(u))
<1>1. LocalsOf(u)
  BY DEF MemoryInv, LocalInv
<1>2. current_process_brk \in Nat /\ current_process_brk' \in Nat
      /\ known[u] \in Nat /\ arg[u] \in Nat
  BY AddressSpaceAssumption DEF AddressSpaceAssumption, MemoryInv, MemoryTypeOK, Addresses32
<1>3. LocalsOf(u)'
  BY <1>1, <1>2 DEF LocalsOf, Windows
<1>4. Pending(u)' => Pending(u)
  BY <1>1, <1>2 DEF Pending, LocalsOf
<1> QED BY <1>3, <1>4

LEMMA BrkAskInv ==
    ASSUME MemoryInv, NEW t \in Tasks, BrkAsk(t)
    PROVE  MemoryInv'
<1> USE MemorySizes
<1>1. MemoryTypeOK' /\ AloneInv'
  BY DEF BrkAsk, MemoryInv, MemoryTypeOK, AloneInv
<1>2. LocalInv'
  BY DEF BrkAsk, From, MemoryInv, MemoryTypeOK, Addresses32, LocalInv, LocalsOf
<1>3. GivenInv'
  BY DEF BrkAsk, From, MemoryInv, MemoryTypeOK, Addresses32, GivenInv, GivenOnce, Pending
<1> QED BY <1>1, <1>2, <1>3 DEF MemoryInv

LEMMA BrkInv ==
    ASSUME WindowsClosed, MemoryInv, NEW t \in Tasks, NEW new \in Addresses32,
           new > known[t] => known[t] = current_process_brk,
           Brk(t, new)
    PROVE  MemoryInv'
<1> USE MemorySizes
<1>1. /\ From(t, "user") /\ To(t, IF new >= current_process_brk THEN "store" ELSE "return")
      /\ arg' = [arg EXCEPT ![t] = new]
      /\ UNCHANGED <<current_process_brk, addr, sum, known, given>>
  BY DEF Brk
<1>2. /\ new \in Nat /\ known[t] \in Nat /\ current_process_brk \in Nat
      /\ known[t] <= current_process_brk
  BY OfOneTask DEF Addresses32, LocalsOf
<1>3. /\ arg'[t] = new /\ known'[t] = known[t]
      /\ at'[t] = IF new >= current_process_brk THEN "store" ELSE "return"
  BY <1>1 DEF To, MemoryInv, MemoryTypeOK
<1>4. MemoryTypeOK' /\ AloneInv'
  BY <1>1, StepAlone DEF MemoryInv, MemoryTypeOK, Points
<1>5. LocalInv'
  <2> SUFFICES ASSUME NEW u \in Tasks PROVE LocalsOf(u)'
    BY DEF LocalInv
  <2>1. CASE u = t
    <3>1. CASE at'[t] = "store"
      BY <1>1, <1>2, <1>3, <2>1, <3>1 DEF LocalsOf
    <3>2. CASE at'[t] = "return"
      BY <1>1, <1>2, <1>3, <2>1, <3>2 DEF LocalsOf
    <3> QED BY <1>3, <3>1, <3>2
  <2>2. CASE u # t
    BY <1>1, <2>2 DEF From, To, MemoryInv, MemoryTypeOK, LocalInv, LocalsOf
  <2> QED BY <2>1, <2>2
<1>6. GivenInv'
  <2>1. ~Pending(t)'
    BY <1>1, <1>2, <1>3 DEF Pending
  <2>2. \A u \in Tasks \ {t} : Pending(u)' = Pending(u)
    BY <1>1 DEF To, Pending, MemoryInv, MemoryTypeOK
  <2> QED BY <1>1, <2>1, <2>2 DEF MemoryInv, GivenInv, GivenOnce
<1> QED BY <1>4, <1>5, <1>6 DEF MemoryInv

LEMMA BrkStoreInv ==
    ASSUME WindowsClosed, MemoryInv, NEW t \in Tasks, BrkStore(t)
    PROVE  MemoryInv' /\ current_process_brk' >= current_process_brk
<1> USE MemorySizes
<1>1. /\ From(t, "store") /\ To(t, "return") /\ at[t] = "store"
      /\ current_process_brk' = arg[t]
      /\ UNCHANGED <<arg, addr, sum, known, given>>
  BY DEF BrkStore, From
<1>2. MemoryTypeOK' /\ AloneInv'
  BY <1>1, StepAlone DEF MemoryInv, MemoryTypeOK, Points
<1>3. LocalsOf(t) /\ current_process_brk' >= current_process_brk
  BY <1>1 DEF MemoryInv, LocalInv, LocalsOf
<1>4. \A u \in Tasks \ {t} : LocalsOf(u)' /\ (Pending(u)' => Pending(u))
  BY <1>1, <1>2, <1>3, OthersLocals
  DEF To, MemoryInv, MemoryTypeOK, AloneInv, Windows, WindowsClosed
<1>5. LocalInv'
  BY <1>1, <1>3, <1>4, SMTT(60) DEF To, MemoryInv, MemoryTypeOK, Addresses32, LocalInv, LocalsOf
<1>6. GivenInv'
  <2>1. ASSUME NEW x \in Addresses32, x >= current_process_brk PROVE given[x] = 0
    BY <2>1 DEF MemoryInv, GivenInv
  <2>2. \A x \in Addresses32 : x >= current_process_brk' => given'[x] = 0
    BY <1>1, <1>2, <1>3, <2>1 DEF MemoryInv, MemoryTypeOK, Addresses32
  <2>3. Pending(t)' => /\ known[t] = current_process_brk
                       /\ current_process_brk' > current_process_brk
    BY <1>1, <1>3 DEF Pending, LocalsOf
  <2>4. ASSUME NEW u \in Tasks, Pending(u)', NEW x \in Addresses32, x >= known'[u]
        PROVE  given'[x] = 0
    BY <1>1, <1>4, <2>1, <2>3, <2>4 DEF MemoryInv, GivenInv
  <2>5. ASSUME NEW u \in Tasks \ {t}, Pending(t)', Pending(u)' PROVE FALSE
    <3>1. Pending(u) /\ arg[u] = current_process_brk
      BY <1>4, <2>5 DEF Pending
    <3> QED BY <1>1, <2>3, <2>5, <3>1 DEF Pending, MemoryInv, MemoryTypeOK, Addresses32
  <2>6. \A u, v \in Tasks : Pending(u)' /\ Pending(v)' => u = v
    BY <1>4, <2>5 DEF MemoryInv, GivenInv
  <2> QED BY <1>1, <2>2, <2>4, <2>6 DEF MemoryInv, GivenInv, GivenOnce
<1> QED BY <1>2, <1>3, <1>5, <1>6 DEF MemoryInv
\* A program is given what it asked for, unless the break is not there any more.
LEMMA BrkReturnInv ==
    ASSUME WindowsClosed, MemoryInv, NEW t \in Tasks, BrkReturn(t)
    PROVE  MemoryInv'
<1> USE MemorySizes
<1>1. /\ From(t, "return") /\ To(t, "user") /\ at[t] = "return"
      /\ known' = [known EXCEPT ![t] = current_process_brk]
      /\ given' = IF Pending(t) THEN GivenFrom(known[t], arg[t] - known[t]) ELSE given
      /\ arg' = [arg EXCEPT ![t] = 0]
      /\ addr' = [addr EXCEPT ![t] = 0] /\ sum' = [sum EXCEPT ![t] = 0]
      /\ UNCHANGED current_process_brk
  BY DEF BrkReturn, Return, From, Pending
<1>2. /\ known[t] \in Addresses32 /\ arg[t] \in Addresses32
      /\ current_process_brk \in Addresses32 /\ given \in [Addresses32 -> Nat]
  BY DEF MemoryInv, MemoryTypeOK
<1>3. /\ given' \in [Addresses32 -> Nat]
      /\ \A x \in Addresses32 :
           given'[x] = IF Pending(t) /\ x \in known[t] .. arg[t] - 1
                       THEN given[x] + 1 ELSE given[x]
  <2>1. CASE Pending(t)
    <3>1. /\ arg[t] - known[t] \in Nat /\ known[t] + (arg[t] - known[t]) <= TOP
          /\ known[t] + (arg[t] - known[t]) - 1 = arg[t] - 1
      BY <1>2, <2>1, SMTT(60) DEF Pending, Addresses32
    <3> QED BY <1>1, <1>2, <2>1, <3>1, GivenFromIs DEF MemoryInv
  <2>2. CASE ~Pending(t)
    BY <1>1, <1>2, <2>2
  <2> QED BY <2>1, <2>2
<1>4. MemoryTypeOK' /\ AloneInv'
  <2>1. AloneInv' /\ at' \in [Tasks -> Points]
    BY <1>1, StepAlone DEF MemoryInv, Points
  <2>2. 0 \in Addresses32
    BY DEF Addresses32
  <2> QED BY <1>1, <1>2, <1>3, <2>1, <2>2 DEF MemoryInv, MemoryTypeOK
<1>5. \A u \in Tasks \ {t} : LocalsOf(u)' /\ (Pending(u)' = Pending(u))
                             /\ known'[u] = known[u]
  BY <1>1 DEF To, MemoryInv, MemoryTypeOK, LocalInv, LocalsOf, Pending
<1>6. at'[t] = "user" /\ known'[t] = current_process_brk
  BY <1>1 DEF To, MemoryInv, MemoryTypeOK
<1>7. LocalInv'
  <2>1. LocalsOf(t)'
    BY <1>1, <1>2, <1>6 DEF LocalsOf, Addresses32
  <2> QED BY <1>5, <2>1 DEF LocalInv
<1>8. GivenInv'
  <2>1. ~Pending(t)'
    BY <1>6 DEF Pending
  <2>2. ASSUME NEW x \in Addresses32, Pending(t), x >= known[t] PROVE given[x] = 0
    BY <2>2 DEF MemoryInv, GivenInv
  <2>3. GivenOnce'
    <3> SUFFICES ASSUME NEW x \in Addresses32 PROVE given'[x] <= 1
      BY DEF GivenOnce
    <3>1. given[x] \in Nat /\ given[x] <= 1
      BY <1>2 DEF MemoryInv, GivenInv, GivenOnce
    <3>2. x \in Nat /\ known[t] \in Nat
      BY <1>2, MemorySizes DEF Addresses32
    <3>3. CASE Pending(t) /\ x \in known[t] .. arg[t] - 1
      <4>1. given[x] = 0
        BY <2>2, <3>2, <3>3
      <4> QED BY <1>3, <3>3, <4>1
    <3>4. CASE ~(Pending(t) /\ x \in known[t] .. arg[t] - 1)
      BY <1>3, <3>1, <3>4
    <3> QED BY <3>3, <3>4
  <2>4. \A x \in Addresses32 : x >= current_process_brk' => given'[x] = 0
    BY <1>1, <1>2, <1>3 DEF MemoryInv, GivenInv, Addresses32, Pending
  <2>5. ASSUME NEW u \in Tasks, Pending(u)', NEW x \in Addresses32, x >= known'[u]
        PROVE  given'[x] = 0
    <3>1. u # t /\ Pending(u) /\ known'[u] = known[u] /\ ~Pending(t)
      BY <1>5, <2>1, <2>5 DEF MemoryInv, GivenInv
    <3> QED BY <1>3, <2>5, <3>1 DEF MemoryInv, GivenInv
  <2>6. \A u, v \in Tasks : Pending(u)' /\ Pending(v)' => u = v
    BY <1>5, <2>1 DEF MemoryInv, GivenInv
  <2> QED BY <2>3, <2>4, <2>5, <2>6 DEF GivenInv
<1> QED BY <1>4, <1>7, <1>8 DEF MemoryInv

LEMMA MmapInv ==
    ASSUME WindowsClosed, MemoryInv, NEW t \in Tasks, NEW length \in 1 .. TOP - 1,
           current_process_brk + length + PAGE - 1 < TOP,
           Mmap(t, length)
    PROVE  MemoryInv'
<1> USE MemorySizes
<1>1. length \in Nat /\ length > 0 /\ length \in Addresses32
  BY DEF Addresses32
<1>2. /\ From(t, "user") /\ To(t, "add") /\ arg' = [arg EXCEPT ![t] = length]
      /\ addr' = [addr EXCEPT ![t] = current_process_brk]
      /\ UNCHANGED <<current_process_brk, sum, known, given>>
  BY DEF Mmap
<1>3. MemoryTypeOK' /\ AloneInv'
  BY <1>1, <1>2, StepAlone DEF MemoryInv, MemoryTypeOK, Points
<1>4. /\ at'[t] = "add" /\ arg'[t] = length /\ addr'[t] = current_process_brk
      /\ LocalsOf(t)
  BY <1>2 DEF To, MemoryInv, MemoryTypeOK, LocalInv
<1>5. \A u \in Tasks \ {t} : LocalsOf(u)' /\ (Pending(u)' = Pending(u))
  BY <1>2 DEF To, MemoryInv, MemoryTypeOK, LocalInv, LocalsOf, Pending
<1>6. LocalInv'
  <2>1. LocalsOf(t)'
    BY <1>1, <1>2, <1>4, OfOneTask DEF LocalsOf
  <2> QED BY <1>5, <2>1 DEF LocalInv
<1>7. GivenInv'
  <2>1. ~Pending(t)'
    BY <1>4 DEF Pending
  <2> QED BY <1>2, <1>5, <2>1 DEF MemoryInv, GivenInv, GivenOnce
<1> QED BY <1>3, <1>6, <1>7 DEF MemoryInv

LEMMA MmapAddInv ==
    ASSUME WindowsClosed, MemoryInv, NEW t \in Tasks, MmapAdd(t)
    PROVE  MemoryInv'
<1> USE MemorySizes
<1>1. /\ From(t, "add") /\ To(t, "sum") /\ at[t] = "add"
      /\ sum' = [sum EXCEPT ![t] = (current_process_brk + Aligned(arg[t])) % TOP]
      /\ UNCHANGED <<current_process_brk, arg, addr, known, given>>
  BY DEF MmapAdd, From
<1>2. /\ LocalsOf(t) /\ arg[t] \in Nat /\ current_process_brk \in Nat
      /\ current_process_brk + arg[t] + PAGE - 1 < TOP /\ arg[t] + PAGE - 1 < TOP
  BY <1>1 DEF MemoryInv, MemoryTypeOK, Addresses32, LocalInv, LocalsOf
<1>3. Aligned(arg[t]) \in arg[t] .. arg[t] + PAGE - 1
  BY <1>2, RoundsUp
<1>4. /\ current_process_brk + Aligned(arg[t]) \in 0 .. TOP - 1
      /\ current_process_brk + Aligned(arg[t]) >= current_process_brk + arg[t]
  BY <1>2, <1>3
<1>5. /\ sum'[t] = current_process_brk + Aligned(arg[t])
      /\ sum' \in [Tasks -> Addresses32]
  BY <1>1, <1>4, Wraps DEF MemoryInv, MemoryTypeOK, Addresses32
<1>6. MemoryTypeOK' /\ AloneInv'
  BY <1>1, <1>5, StepAlone DEF MemoryInv, MemoryTypeOK, Points
<1>7. \A u \in Tasks \ {t} : LocalsOf(u)' /\ (Pending(u)' = Pending(u))
  BY <1>1 DEF To, MemoryInv, MemoryTypeOK, LocalInv, LocalsOf, Pending
<1>8. at'[t] = "sum"
  BY <1>1 DEF To, MemoryInv, MemoryTypeOK
<1>9. LocalInv'
  <2>1. LocalsOf(t)'
    BY <1>1, <1>2, <1>4, <1>5, <1>8 DEF LocalsOf
  <2> QED BY <1>7, <2>1 DEF LocalInv
<1>10. GivenInv'
  <2>1. ~Pending(t)'
    BY <1>8 DEF Pending
  <2> QED BY <1>1, <1>7, <2>1 DEF MemoryInv, GivenInv, GivenOnce
<1> QED BY <1>6, <1>9, <1>10 DEF MemoryInv

\* mmap2 gives what lay behind the break, and moves the break behind it.
LEMMA MmapStoreInv ==
    ASSUME WindowsClosed, MemoryInv, NEW t \in Tasks, MmapStore(t)
    PROVE  MemoryInv' /\ current_process_brk' >= current_process_brk
<1> USE MemorySizes
<1>1. /\ From(t, "sum") /\ To(t, "user") /\ at[t] = "sum"
      /\ current_process_brk' = sum[t] /\ given' = GivenFrom(addr[t], arg[t])
      /\ arg' = [arg EXCEPT ![t] = 0]
      /\ addr' = [addr EXCEPT ![t] = 0] /\ sum' = [sum EXCEPT ![t] = 0]
      /\ UNCHANGED known
  BY DEF MmapStore, Return, From
<1>2. /\ LocalsOf(t) /\ arg[t] \in Nat /\ current_process_brk \in Addresses32
      /\ sum[t] \in Addresses32 /\ known[t] \in Addresses32
      /\ addr[t] = current_process_brk /\ arg[t] > 0
      /\ addr[t] + arg[t] <= sum[t] /\ known[t] <= current_process_brk
  BY <1>1 DEF MemoryInv, MemoryTypeOK, Addresses32, LocalInv, LocalsOf
<1>3. /\ given' \in [Addresses32 -> Nat]
      /\ \A x \in Addresses32 :
           given'[x] = IF x \in addr[t] .. addr[t] + arg[t] - 1
                       THEN given[x] + 1 ELSE given[x]
  <2>1. addr[t] \in Addresses32 /\ addr[t] + arg[t] <= TOP
    BY <1>2 DEF Addresses32
  <2> QED BY <1>1, <1>2, <2>1, GivenFromIs DEF MemoryInv
<1>4. current_process_brk' >= current_process_brk /\ current_process_brk' \in Addresses32
  BY <1>1, <1>2 DEF Addresses32
<1>5. MemoryTypeOK' /\ AloneInv'
  <2>1. AloneInv' /\ at' \in [Tasks -> Points]
    BY <1>1, StepAlone DEF MemoryInv, Points
  <2>2. 0 \in Addresses32
    BY DEF Addresses32
  <2> QED BY <1>1, <1>3, <1>4, <2>1, <2>2 DEF MemoryInv, MemoryTypeOK
<1>6. \A u \in Tasks \ {t} : /\ LocalsOf(u)' /\ (Pending(u)' => Pending(u))
                             /\ known'[u] = known[u] /\ arg'[u] = arg[u]
  BY <1>1, <1>4, <1>5, OthersLocals
  DEF To, MemoryInv, MemoryTypeOK, AloneInv, Windows, WindowsClosed
<1>7. at'[t] = "user" /\ known'[t] = known[t]
  BY <1>1 DEF To, MemoryInv, MemoryTypeOK
<1>8. LocalInv'
  <2>1. LocalsOf(t)'
    BY <1>1, <1>2, <1>4, <1>7 DEF LocalsOf, Addresses32
  <2> QED BY <1>6, <2>1 DEF LocalInv
<1>9. GivenInv'
  <2>1. ASSUME NEW x \in Addresses32
        PROVE  given'[x] <= 1 /\ (x >= current_process_brk' => given'[x] = 0)
    <3>1. /\ x \in Nat /\ given[x] \in Nat /\ given[x] <= 1
          /\ x >= current_process_brk => given[x] = 0
      <4>1. x \in Nat
        BY DEF Addresses32
      <4>2. given[x] \in Nat
        BY DEF MemoryInv, MemoryTypeOK
      <4>3. given[x] <= 1 /\ (x >= current_process_brk => given[x] = 0)
        BY DEF MemoryInv, GivenInv, GivenOnce
      <4> QED BY <4>1, <4>2, <4>3
    <3>2. CASE x \in addr[t] .. addr[t] + arg[t] - 1
      <4>1. x >= current_process_brk /\ ~(x >= sum[t])
        BY <1>2, <3>1, <3>2 DEF Addresses32
      <4> QED BY <1>1, <1>3, <3>1, <3>2, <4>1
    <3>3. CASE x \notin addr[t] .. addr[t] + arg[t] - 1
      <4>1. x >= sum[t] => x >= current_process_brk
        BY <1>2, <3>1 DEF Addresses32
      <4> QED BY <1>1, <1>3, <3>1, <3>3, <4>1
    <3> QED BY <3>2, <3>3
  <2>2. \A u \in Tasks : ~Pending(u)'
    <3>1. ~Pending(t)'
      BY <1>7 DEF Pending
    <3>2. ASSUME NEW u \in Tasks \ {t}, Pending(u)' PROVE FALSE
      <4>1. Pending(u) /\ arg[u] = current_process_brk /\ arg'[u] = current_process_brk'
        BY <1>6, <3>2 DEF Pending
      <4> QED BY <1>1, <1>2, <1>6, <4>1 DEF Addresses32
    <3> QED BY <3>1, <3>2
  <2> QED BY <2>1, <2>2 DEF GivenInv, GivenOnce
<1> QED BY <1>4, <1>5, <1>8, <1>9 DEF MemoryInv
-----------------------------------------------------------------------------
LEMMA MemoryStep ==
    ASSUME WindowsClosed, MemoryCareful, MemoryInv, [MemoryNext]_memory
    PROVE  MemoryInv' /\ current_process_brk' >= current_process_brk
<1>1. current_process_brk \in Nat
  BY MemorySizes DEF MemoryInv, MemoryTypeOK, Addresses32
<1>2. CASE UNCHANGED memory
  BY <1>1, <1>2 DEF memory, MemoryInv, MemoryTypeOK, AloneInv, LocalInv, LocalsOf, GivenInv,
                    GivenOnce, Pending
<1>3. ASSUME NEW t \in Tasks, BrkAsk(t)
      PROVE  MemoryInv' /\ current_process_brk' >= current_process_brk
  <2>1. current_process_brk' = current_process_brk
    BY <1>3 DEF BrkAsk
  <2> QED BY <1>1, <1>3, <2>1, BrkAskInv
<1>4. ASSUME NEW t \in Tasks, NEW n \in Increments, known[t] # 0,
             OnlyIf("brk over others", n > 0 /\ known[t] # current_process_brk),
             OnlyIf("run out", known[t] + n \notin Addresses32),
             Brk(t, (known[t] + n) % TOP)
      PROVE  MemoryInv' /\ current_process_brk' >= current_process_brk
  <2>1. /\ known[t] + n \in Addresses32 /\ n \in Int /\ known[t] \in Nat
        /\ n > 0 => known[t] = current_process_brk
    BY <1>4, OfOneTask, AddressSpaceAssumption
    DEF AddressSpaceAssumption, MemoryCareful, BadMemoryHabits, OnlyIf
  <2>2. (known[t] + n) % TOP = known[t] + n
    BY <2>1, Wraps, MemorySizes DEF Addresses32
  <2>3. Brk(t, known[t] + n)
    BY <1>4, <2>2
  <2>4. known[t] + n > known[t] => known[t] = current_process_brk
    BY <2>1
  <2>5. MemoryInv'
    BY <2>1, <2>3, <2>4, BrkInv
  <2>6. current_process_brk' = current_process_brk
    BY <2>3 DEF Brk
  <2> QED BY <1>1, <2>5, <2>6
<1>5. ASSUME NEW t \in Tasks, NEW length \in Lengths,
             OnlyIf("run out", current_process_brk + length + PAGE - 1 >= TOP),
             Mmap(t, length)
      PROVE  MemoryInv' /\ current_process_brk' >= current_process_brk
  <2>1. length \in 1 .. TOP - 1
    BY AddressSpaceAssumption DEF AddressSpaceAssumption
  <2>2. ~(current_process_brk + length + PAGE - 1 >= TOP)
    BY <1>5 DEF MemoryCareful, BadMemoryHabits, OnlyIf
  <2>3. current_process_brk + length + PAGE - 1 < TOP
    BY <1>1, <2>1, <2>2, MemorySizes
  <2>4. MemoryInv'
    BY <1>5, <2>1, <2>3, MmapInv
  <2>5. current_process_brk' = current_process_brk
    BY <1>5 DEF Mmap
  <2> QED BY <1>1, <2>4, <2>5
<1>6. ASSUME NEW t \in Tasks, BrkReturn(t)
      PROVE  MemoryInv' /\ current_process_brk' >= current_process_brk
  <2>1. current_process_brk' = current_process_brk
    BY <1>6 DEF BrkReturn
  <2> QED BY <1>1, <1>6, <2>1, BrkReturnInv
<1>7. ASSUME NEW t \in Tasks, MmapAdd(t)
      PROVE  MemoryInv' /\ current_process_brk' >= current_process_brk
  <2>1. current_process_brk' = current_process_brk
    BY <1>7 DEF MmapAdd
  <2> QED BY <1>1, <1>7, <2>1, MmapAddInv
<1> QED BY <1>2, <1>3, <1>4, <1>5, <1>6, <1>7, BrkStoreInv, MmapStoreInv
        DEF MemoryNext, MemoryCalls

LEMMA MemoryInvariance ==
    ASSUME WindowsClosed, MemoryCareful
    PROVE  MemorySpec => []MemoryInv
<1>1. MemoryInv /\ [MemoryNext]_memory => MemoryInv'
  BY MemoryStep
<1> QED BY <1>1, InitMemoryInv, PTL DEF MemorySpec

\* Break, locals and given memory stay what they are declared to be: no sum wraps
\* (syscall.c:78-90, 201-211).
THEOREM MemoryTypes ==
    ASSUME WindowsClosed, MemoryCareful
    PROVE  MemorySpec => []MemoryTypeOK
<1>1. MemoryInv => MemoryTypeOK
  BY DEF MemoryInv
<1> QED BY <1>1, MemoryInvariance, PTL

\* However many tasks call brk and mmap2, no address is given to programs twice
\* (syscall.c:78-90, 201-211).
THEOREM NothingGivenTwice ==
    ASSUME WindowsClosed, MemoryCareful
    PROVE  MemorySpec => []GivenOnce
<1>1. MemoryInv => GivenOnce
  BY DEF MemoryInv, GivenInv
<1> QED BY <1>1, MemoryInvariance, PTL

\* No call takes the break back from where another put it (syscall.c:86-88, 208).
THEOREM TheBreakNeverFalls ==
    ASSUME WindowsClosed, MemoryCareful
    PROVE  MemorySpec => BrkNeverFalls
<1>1. MemoryInv /\ [MemoryNext]_memory => [current_process_brk' >= current_process_brk]_memory
  BY MemoryStep
<1> QED BY <1>1, MemoryInvariance, PTL DEF MemorySpec, BrkNeverFalls
-----------------------------------------------------------------------------
(* Files: arithmetic.                                                      *)

LEMMA MinIs ==
    ASSUME NEW a \in Int, NEW b \in Int
    PROVE  Min({a, b}) = IF a <= b THEN a ELSE b
  BY DEF Min

LEMMA MaxIs ==
    ASSUME NEW a \in Int, NEW b \in Int
    PROVE  Max({a, b}) = IF a >= b THEN a ELSE b
  BY DEF Max

LEMMA Times ==
    ASSUME NEW a \in Nat, NEW b \in Nat, NEW n \in Nat, a <= b
    PROVE  a * n \in Nat /\ b * n \in Nat /\ a * n <= b * n
<1>1. PICK d \in Nat : b = a + d
  <2>1. b - a \in Nat /\ b = a + (b - a)
    OBVIOUS
  <2> QED BY <2>1
<1>2. (a + d) * n = a * n + d * n /\ d * n \in Nat /\ a * n \in Nat
  OBVIOUS
<1> QED BY <1>1, <1>2

\* Division, where the quotient and the rest are known.
LEMMA Quotient ==
    ASSUME NEW n \in Nat \ {0}, NEW q \in Int, NEW r \in 0 .. n - 1, NEW x \in Int,
           x = q * n + r
    PROVE  x \div n = q
<1> DEFINE y == x \div n
<1>1. y \in Int /\ x % n \in 0 .. n - 1 /\ x = n * y + (x % n)
  OBVIOUS
<1>2. n * y = y * n
  BY <1>1
<1> HIDE DEF y
<1>3. ASSUME y < q PROVE FALSE
  <2>1. q - y - 1 \in Nat
    BY <1>1, <1>3
  <2>2. q * n = y * n + (q - y - 1) * n + n
    BY <1>1
  <2>3. (q - y - 1) * n \in Nat
    BY <2>1
  <2> QED BY <1>1, <1>2, <2>2, <2>3
<1>4. ASSUME y > q PROVE FALSE
  <2>1. y - q - 1 \in Nat
    BY <1>1, <1>4
  <2>2. y * n = q * n + (y - q - 1) * n + n
    BY <1>1
  <2>3. (y - q - 1) * n \in Nat
    BY <2>1
  <2> QED BY <1>1, <1>2, <2>2, <2>3
<1> QED BY <1>1, <1>3, <1>4 DEF y

\* The blocks that m bytes need hold them, and are no more than any others that do.
LEMMA BlocksFor ==
    ASSUME NEW n \in Nat \ {0}, NEW most \in Nat, NEW m \in 0 .. most * n
    PROVE  LET q == (m + n - 1) \div n IN q \in 0 .. most /\ m <= q * n /\ q * n <= m + n - 1
<1> DEFINE q == (m + n - 1) \div n
           r == (m + n - 1) % n
<1>0. most * n \in Nat /\ m \in Nat
  OBVIOUS
<1>1. q \in Int /\ r \in 0 .. n - 1 /\ m + n - 1 = n * q + r
  BY <1>0
<1>2. n * q = q * n
  BY <1>1
<1> HIDE DEF q, r
<1>3. m <= q * n
  BY <1>0, <1>1, <1>2
<1>4. ASSUME q < 0 PROVE FALSE
  <2>1. -q - 1 \in Nat
    BY <1>1, <1>4
  <2>2. q * n = -((-q - 1) * n) - n /\ (-q - 1) * n \in Nat
    BY <1>1, <2>1
  <2> QED BY <1>0, <1>3, <2>2
<1>5. q * n <= m + n - 1
  BY <1>0, <1>1, <1>2
<1>6. ASSUME q > most PROVE FALSE
  <2>1. q - most - 1 \in Nat
    BY <1>1, <1>6
  <2>2. q * n = most * n + (q - most - 1) * n + n /\ (q - most - 1) * n \in Nat
    BY <1>1, <2>1
  <2> QED BY <1>0, <1>1, <1>2, <2>2
<1> QED BY <1>1, <1>3, <1>4, <1>5, <1>6 DEF q

-----------------------------------------------------------------------------
(* What fs_write leaves.                                                   *)

\* What the blocks of files hold.
Held == Values \cup {Zero}

LEMMA TransfersConstants ==
    /\ BLOCK_SIZE \in Nat \ {0} /\ MAX_BLOCKS_PER_FILE \in Nat \ {0} /\ OFFSETS \in Nat \ {0}
    /\ TOTAL_BLOCKS \in Nat
  BY TransfersAssumption DEF TransfersAssumption

\* A file that has so many blocks.
HasBlocks(file, blocks) ==
    /\ blocks \in 0 .. MAX_BLOCKS_PER_FILE
    /\ file.held \in [1 .. blocks * BLOCK_SIZE -> Held]
    /\ file.size \in 0 .. blocks * BLOCK_SIZE
    /\ file.free \in 0 .. TOTAL_BLOCKS

\* That fs_write of s has put n bytes into a file of size, which then has so many blocks: all
\* that fits, and n is its size, or as much as the free blocks take.
Put(after, size0, blocks, s, n) ==
    /\ n \in 0 .. Len(s) /\ n <= blocks * BLOCK_SIZE
    /\ \A i \in 1 .. n : after.held[i] = s[i]
    /\ \/ after.size = n /\ n \in {Len(s), MAX_BLOCKS_PER_FILE * BLOCK_SIZE}
       \/ after.size = size0 /\ n = blocks * BLOCK_SIZE

LEMMA FsWrittenIs ==
    ASSUME NEW file, NEW blocks, HasBlocks(file, blocks), NEW s \in Seq(Values),
           file.written \in Nat
    PROVE  LET after == FsWritten(file, s)
           IN \E gets \in blocks .. MAX_BLOCKS_PER_FILE :
                /\ HasBlocks(after, gets)
                /\ after.free <= file.free
                /\ after.written \in Nat /\ after.written >= file.written
                /\ Put(after, file.size, gets, s, after.written - file.written)
<1> DEFINE B == BLOCK_SIZE
           M == MAX_BLOCKS_PER_FILE
           most == Min({Len(s), M * B})
           has == Len(file.held) \div B
           ceiling == (most + B - 1) \div B
           needs == Max({has, ceiling})
           gets == Min({needs, has + file.free})
           written == IF gets < needs THEN gets * B ELSE most
           Byte(i) == IF i <= written THEN s[i]
                      ELSE IF i <= Len(file.held) THEN file.held[i] ELSE Zero
           after == FsWritten(file, s)
<1>1. /\ B \in Nat \ {0} /\ M \in Nat \ {0} /\ TOTAL_BLOCKS \in Nat
      /\ blocks \in Nat /\ blocks <= M
      /\ file.held \in [1 .. blocks * B -> Held]
      /\ file.size \in 0 .. blocks * B /\ file.free \in 0 .. TOTAL_BLOCKS
  BY TransfersConstants DEF HasBlocks
<1>2. after = [held |-> [i \in 1 .. gets * B |-> Byte(i)],
               size |-> IF gets < needs THEN file.size ELSE written,
               free |-> file.free - (gets - has),
               written |-> file.written + written]
  BY DEF FsWritten
<1>3. blocks * B \in Nat /\ M * B \in Nat /\ blocks * B <= M * B
  BY <1>1, Times
<1>4. Len(file.held) = blocks * B
  BY <1>1, <1>3
<1>5. has = blocks
  BY <1>1, <1>3, <1>4, Quotient
<1>6. Len(s) \in Nat /\ most \in 0 .. M * B /\ most <= Len(s) /\ most \in {Len(s), M * B}
  BY <1>3, MinIs
<1>7. ceiling \in 0 .. M /\ most <= ceiling * B /\ ceiling * B <= most + B - 1
  BY <1>1, <1>6, BlocksFor
<1> HIDE DEF has, ceiling, most
<1>8. /\ needs \in blocks .. M /\ (needs = blocks \/ needs = ceiling) /\ needs >= ceiling
      /\ gets \in blocks .. needs /\ gets <= blocks + file.free
  <2>1. needs = IF has >= ceiling THEN has ELSE ceiling
    BY <1>1, <1>5, <1>7, MaxIs
  <2>2. needs \in Int /\ has + file.free \in Int
    BY <1>1, <1>5, <1>7, <2>1
  <2>3. gets = IF needs <= has + file.free THEN needs ELSE has + file.free
    BY <2>2, MinIs
  <2> HIDE DEF needs, gets
  <2> QED BY <1>1, <1>5, <1>7, <2>1, <2>3
<1> HIDE DEF needs, gets
<1>9. gets * B \in Nat /\ blocks * B <= gets * B /\ gets * B <= M * B
  BY <1>1, <1>8, Times
<1>10. gets < needs => gets * B <= most
  <2> SUFFICES ASSUME gets < needs PROVE gets * B <= most
    OBVIOUS
  <2>1. needs = ceiling /\ gets <= ceiling - 1 /\ ceiling - 1 \in Nat
    BY <1>1, <1>7, <1>8
  <2>2. gets * B <= (ceiling - 1) * B
    BY <1>1, <1>8, <2>1, Times
  <2>3. (ceiling - 1) * B = ceiling * B - B
    BY <1>1, <1>7
  <2>4. ceiling * B \in Int /\ most \in Int
    BY <1>1, <1>6, <1>7
  <2> QED BY <1>1, <1>7, <1>9, <2>2, <2>3, <2>4
<1>11. ~(gets < needs) => most <= gets * B
  <2> SUFFICES ASSUME ~(gets < needs) PROVE most <= gets * B
    OBVIOUS
  <2>1. gets = needs /\ ceiling <= gets
    BY <1>1, <1>7, <1>8
  <2>2. ceiling * B <= gets * B /\ ceiling * B \in Nat
    BY <1>1, <1>7, <1>8, <2>1, Times
  <2> QED BY <1>6, <1>7, <1>9, <2>2
<1>12. written \in 0 .. gets * B /\ written <= Len(s)
  BY <1>6, <1>9, <1>10, <1>11
<1>13. ASSUME NEW i \in 1 .. gets * B PROVE Byte(i) \in Held
  <2>1. CASE i <= written
    <3>1. i \in 1 .. Len(s)
      BY <1>6, <1>9, <1>12, <2>1
    <3>2. s[i] \in Values
      BY <3>1, ElementOfSeq
    <3> QED BY <2>1, <3>2 DEF Held
  <2>2. CASE ~(i <= written)
    <3>1. i \in Nat
      BY <1>9
    <3>2. i <= Len(file.held) => file.held[i] \in Held
      BY <1>1, <1>3, <1>4, <3>1
    <3> QED BY <2>2, <3>2 DEF Held
  <2> QED BY <2>1, <2>2
<1>14. /\ after.held \in [1 .. gets * B -> Held]
       /\ \A i \in 1 .. gets * B : after.held[i] = Byte(i)
       /\ after.size = IF gets < needs THEN file.size ELSE written
       /\ after.free = file.free - (gets - has)
       /\ after.written = file.written + written
  BY <1>2, <1>13
<1> HIDE DEF after
<1>15. HasBlocks(after, gets)
  <2>1. gets \in 0 .. M
    BY <1>1, <1>8
  <2>2. after.size \in 0 .. gets * B
    BY <1>1, <1>3, <1>9, <1>12, <1>14
  <2>3. after.free \in 0 .. TOTAL_BLOCKS
    <3>1. /\ after.free = file.free - (gets - has) /\ file.free \in 0 .. TOTAL_BLOCKS
          /\ has \in Nat /\ gets \in Nat /\ has <= gets /\ gets <= has + file.free
      BY <1>1, <1>5, <1>8, <1>14
    <3> HIDE DEF gets, has
    <3> QED BY <1>1, <3>1
  <2> QED BY <1>14, <2>1, <2>2, <2>3 DEF HasBlocks
<1>16. after.free <= file.free
  BY <1>1, <1>5, <1>8, <1>14
<1>17. Put(after, file.size, gets, s, written)
  <2>1. \A i \in 1 .. written : after.held[i] = s[i]
    BY <1>9, <1>12, <1>14
  <2>2. \/ after.size = written /\ written \in {Len(s), M * B}
        \/ after.size = file.size /\ written = gets * B
    BY <1>6, <1>14
  <2>3. written \in 0 .. Len(s) /\ written <= gets * B
    BY <1>6, <1>9, <1>12
  <2> HIDE DEF written
  <2> QED BY <2>1, <2>2, <2>3 DEF Put
<1>18. /\ after.written \in Nat /\ after.written >= file.written
       /\ after.written - file.written = written
  BY <1>9, <1>12, <1>14
<1>19. gets \in blocks .. M
  BY <1>1, <1>8
<1> HIDE DEF gets, written
<1> QED BY <1>15, <1>16, <1>17, <1>18, <1>19 DEF after

\* A file, with the free blocks, before writes to it.
Before(f) ==
    [held |-> held[FileOf(f)], size |-> size[FileOf(f)], free |-> free_blocks, written |-> 0]

LEMMA WritesInTurn ==
    ASSUME NEW f, NEW pieces, Len(pieces) \in Nat
    PROVE  \E after :
                /\ after[0] = Before(f)
                /\ \A k \in 1 .. Len(pieces) : after[k] = FsWritten(after[k - 1], pieces[k])
                /\ AfterWrites(f, pieces) = after[Len(pieces)]
<1> DEFINE M == Len(pieces)
           P(r) == r = [k \in 0 .. M |-> IF k = 0 THEN Before(f)
                                                 ELSE FsWritten(r[k - 1], pieces[k])]
           Upto(k, g) == /\ g = [j \in 0 .. k |-> g[j]]
                         /\ g[0] = Before(f)
                         /\ \A j \in 1 .. k : g[j] = FsWritten(g[j - 1], pieces[j])
           S == {k \in Nat : k <= M => \E g : Upto(k, g)}
<1> HIDE DEF M
<1>0. M \in Nat
  BY DEF M
<1>1. 0 \in S
  <2> DEFINE g == [j \in 0 .. 0 |-> Before(f)]
  <2>1. g = [j \in 0 .. 0 |-> g[j]] /\ g[0] = Before(f)
    OBVIOUS
  <2>2. \A j \in 1 .. 0 : FALSE
    OBVIOUS
  <2> QED BY <2>1, <2>2
<1>2. ASSUME NEW k \in Nat, k \in S PROVE k + 1 \in S
  <2> SUFFICES ASSUME k + 1 <= M PROVE \E g : Upto(k + 1, g)
    OBVIOUS
  <2>1. PICK g : Upto(k, g)
    BY <1>0, <1>2
  <2> DEFINE h == [j \in 0 .. k + 1 |-> IF j <= k THEN g[j] ELSE FsWritten(g[k], pieces[k + 1])]
  <2>2. h = [j \in 0 .. k + 1 |-> h[j]] /\ h[0] = Before(f)
    BY <2>1
  <2>3. ASSUME NEW j \in 1 .. k + 1 PROVE h[j] = FsWritten(h[j - 1], pieces[j])
    <3>1. CASE j <= k
      <4>1. j \in 1 .. k /\ h[j] = g[j] /\ h[j - 1] = g[j - 1]
        BY <3>1
      <4> QED BY <2>1, <4>1
    <3>2. CASE j = k + 1
      <4>1. h[j] = FsWritten(g[k], pieces[k + 1]) /\ h[k] = g[k] /\ j - 1 = k
        BY <3>2
      <4> QED BY <3>2, <4>1
    <3> QED BY <3>1, <3>2
  <2>4. Upto(k + 1, h)
    BY <2>2, <2>3
  <2> QED BY <2>4
<1> HIDE DEF S
<1>3. Nat \subseteq S
  BY <1>1, <1>2, Induction
<1>4. PICK g : Upto(M, g)
  <2>1. M \in S /\ M <= M
    BY <1>0, <1>3
  <2> HIDE DEF Upto
  <2> QED BY <2>1 DEF S
<1>5. P(g)
  <2>1. \A j \in 0 .. M : g[j] = IF j = 0 THEN Before(f) ELSE FsWritten(g[j - 1], pieces[j])
    BY <1>0, <1>4
  <2> QED BY <1>4, <2>1
<1> DEFINE after == CHOOSE r : P(r)
<1>6. AfterWrites(f, pieces) = after[M]
  BY DEF AfterWrites, M, Before
<1> HIDE DEF P
<1>7. P(after)
  BY <1>5
<1> HIDE DEF after
<1> USE DEF P
<1>8. after[0] = Before(f)
  BY <1>0, <1>7
<1>9. \A k \in 1 .. M : after[k] = FsWritten(after[k - 1], pieces[k])
  <2> SUFFICES ASSUME NEW k \in 1 .. M PROVE after[k] = FsWritten(after[k - 1], pieces[k])
    OBVIOUS
  <2>1. k \in 0 .. M /\ k # 0
    BY <1>0
  <2> QED BY <1>7, <2>1
<1> QED BY <1>6, <1>8, <1>9 DEF M

LEMMA OneWrite ==
    ASSUME NEW f, NEW s
    PROVE  AfterWrites(f, <<s>>) = FsWritten(Before(f), s)
<1>1. Len(<<s>>) = 1 /\ <<s>>[1] = s
  OBVIOUS
<1>2. PICK after : /\ after[0] = Before(f)
                   /\ \A k \in 1 .. 1 : after[k] = FsWritten(after[k - 1], <<s>>[k])
                   /\ AfterWrites(f, <<s>>) = after[1]
  BY <1>1, WritesInTurn
<1>3. after[1] = FsWritten(after[1 - 1], <<s>>[1]) /\ 1 - 1 = 0
  BY <1>2
<1> QED BY <1>1, <1>2, <1>3

\* After any writes a file has its blocks, and more if need be.
LEMMA WritesLeave ==
    ASSUME NEW f, NEW blocks, HasBlocks(Before(f), blocks), NEW pieces \in Seq(Seq(Values))
    PROVE  LET after == AfterWrites(f, pieces)
           IN /\ \E gets \in blocks .. MAX_BLOCKS_PER_FILE : HasBlocks(after, gets)
              /\ after.written \in Nat
<1> DEFINE M == Len(pieces)
<1>0. M \in Nat
  OBVIOUS
<1>1. PICK after : /\ after[0] = Before(f)
                   /\ \A k \in 1 .. M : after[k] = FsWritten(after[k - 1], pieces[k])
                   /\ AfterWrites(f, pieces) = after[M]
  BY <1>0, WritesInTurn
<1> DEFINE Good(k) == /\ \E gets \in blocks .. MAX_BLOCKS_PER_FILE : HasBlocks(after[k], gets)
                      /\ after[k].written \in Nat
           S == {k \in Nat : k <= M => Good(k)}
<1>2. blocks \in 0 .. MAX_BLOCKS_PER_FILE /\ MAX_BLOCKS_PER_FILE \in Nat
  BY TransfersConstants DEF HasBlocks
<1>3. 0 \in S
  <2>1. blocks \in blocks .. MAX_BLOCKS_PER_FILE
    BY <1>2
  <2>2. after[0].written \in Nat
    BY <1>1 DEF Before
  <2> QED BY <1>1, <2>1, <2>2
<1>4. ASSUME NEW k \in Nat, k \in S PROVE k + 1 \in S
  <2> SUFFICES ASSUME k + 1 <= M PROVE Good(k + 1)
    OBVIOUS
  <2>1. Good(k)
    BY <1>0, <1>4
  <2>2. PICK b \in blocks .. MAX_BLOCKS_PER_FILE : HasBlocks(after[k], b)
    BY <2>1
  <2>3. k + 1 \in 1 .. M /\ (k + 1) - 1 = k
    BY <1>0
  <2>4. after[k + 1] = FsWritten(after[k], pieces[k + 1])
    BY <1>1, <2>3
  <2>5. pieces[k + 1] \in Seq(Values)
    BY <2>3, ElementOfSeq
  <2>6. PICK gets \in b .. MAX_BLOCKS_PER_FILE :
            HasBlocks(after[k + 1], gets) /\ after[k + 1].written \in Nat
    BY <2>1, <2>2, <2>4, <2>5, FsWrittenIs
  <2>7. gets \in blocks .. MAX_BLOCKS_PER_FILE
    BY <1>2
  <2> QED BY <2>6, <2>7
<1> HIDE DEF S
<1>5. Nat \subseteq S
  BY <1>3, <1>4, Induction
<1>6. M \in S /\ M <= M
  BY <1>0, <1>5
<1> HIDE DEF M, Good
<1>7. Good(M)
  BY <1>6 DEF S
<1> QED BY <1>1, <1>7 DEF Good

-----------------------------------------------------------------------------
(* The invariant of the calls on files.                                    *)

FileNames == RamFiles \cup ProcFiles

FileTableOK ==
    /\ fd_table \in [Fds -> [type : {"EMPTY", "VFS_FILE"}, data : FileNames \cup {Null}]]
    /\ \A f \in FileFds : FileOf(f) \in FileNames

\* What the blocks of a file hold, and how much of it counts.
BlocksOK ==
    \A p \in RamFiles : \E blocks \in 0 .. MAX_BLOCKS_PER_FILE :
        /\ held[p] \in [1 .. blocks * BLOCK_SIZE -> Held]
        /\ size[p] \in 0 .. blocks * BLOCK_SIZE

TransfersInv ==
    /\ FileTableOK /\ BlocksOK
    /\ DOMAIN held = RamFiles /\ held = [p \in RamFiles |-> held[p]]
    /\ size = [p \in RamFiles |-> size[p]]
    /\ free_blocks \in 0 .. TOTAL_BLOCKS
    /\ offset \in [Fds -> 0 .. OFFSETS - 1]
    /\ node_size \in [Fds -> Nat]

TransfersSpec ==
    /\ fd_table = [f \in Fds |-> Empty] /\ TransfersInit
    /\ [][TransfersNext]_<<fd_table, transfers>>

\* What blocks hold is a sequence.
LEMMA HeldIsSeq ==
    ASSUME NEW blocks \in 0 .. MAX_BLOCKS_PER_FILE,
           NEW h \in [1 .. blocks * BLOCK_SIZE -> Held]
    PROVE  /\ blocks * BLOCK_SIZE \in 0 .. MAX_BLOCKS_PER_FILE * BLOCK_SIZE
           /\ h \in Seq(Held) /\ Len(h) = blocks * BLOCK_SIZE
<1>1. /\ blocks \in Nat /\ BLOCK_SIZE \in Nat /\ MAX_BLOCKS_PER_FILE \in Nat
      /\ blocks <= MAX_BLOCKS_PER_FILE
  BY TransfersConstants
<1>2. /\ blocks * BLOCK_SIZE \in Nat /\ MAX_BLOCKS_PER_FILE * BLOCK_SIZE \in Nat
      /\ blocks * BLOCK_SIZE <= MAX_BLOCKS_PER_FILE * BLOCK_SIZE
  BY <1>1, Times
<1> QED BY <1>2

LEMMA TransfersInvTypes == TransfersInv => TransfersTypeOK
<1> SUFFICES ASSUME TransfersInv PROVE TransfersTypeOK
  OBVIOUS
<1>1. ASSUME NEW p \in RamFiles
      PROVE  held[p] \in Seq(Held) /\ size[p] \in 0 .. MAX_BLOCKS_PER_FILE * BLOCK_SIZE
  <2>1. PICK blocks \in 0 .. MAX_BLOCKS_PER_FILE :
            /\ held[p] \in [1 .. blocks * BLOCK_SIZE -> Held]
            /\ size[p] \in 0 .. blocks * BLOCK_SIZE
    BY DEF TransfersInv, BlocksOK
  <2>2. /\ blocks * BLOCK_SIZE \in 0 .. MAX_BLOCKS_PER_FILE * BLOCK_SIZE
        /\ held[p] \in Seq(Held)
    BY <2>1, HeldIsSeq
  <2>3. MAX_BLOCKS_PER_FILE * BLOCK_SIZE \in Nat
    BY TransfersConstants
  <2> QED BY <2>1, <2>2, <2>3
<1> QED BY <1>1 DEF TransfersInv, TransfersTypeOK, Held

LEMMA TransfersInitInv ==
    fd_table = [f \in Fds |-> Empty] /\ TransfersInit => TransfersInv
<1> SUFFICES ASSUME fd_table = [f \in Fds |-> Empty], TransfersInit PROVE TransfersInv
  OBVIOUS
<1>1. FileTableOK
  BY DEF FileTableOK, FileFds, Empty
<1>2. BlocksOK
  <2> SUFFICES ASSUME NEW p \in RamFiles
               PROVE  /\ held[p] \in [1 .. 0 * BLOCK_SIZE -> Held]
                      /\ size[p] \in 0 .. 0 * BLOCK_SIZE
    BY TransfersConstants DEF BlocksOK
  <2>1. 0 * BLOCK_SIZE = 0
    BY TransfersConstants
  <2>2. held[p] = <<>> /\ size[p] = 0
    BY DEF TransfersInit
  <2>3. <<>> \in [1 .. 0 -> Held]
    OBVIOUS
  <2> QED BY <2>1, <2>2, <2>3
<1> QED BY <1>1, <1>2, TransfersConstants DEF TransfersInv, TransfersInit

LEMMA FileOpenInv ==
    ASSUME TransfersInv, NEW p \in FileNames, FileOpen(p)
    PROVE  TransfersInv'
<1> DEFINE f == Lowest(FreeFds)
<1>1. FreeFds # {} /\ f \in Fds
  BY FreeFdIn DEF FileOpen
<1>2. /\ fd_table' \in [Fds -> [type : {"EMPTY", "VFS_FILE"}, data : FileNames \cup {Null}]]
      /\ fd_table'[f] = [type |-> "VFS_FILE", data |-> p]
      /\ \A g \in Fds \ {f} : fd_table'[g] = fd_table[g]
  <2>1. fd_table \in [Fds -> [type : {"EMPTY", "VFS_FILE"}, data : FileNames \cup {Null}]]
    BY DEF TransfersInv, FileTableOK
  <2>2. "VFS_FILE" \in {"EMPTY", "VFS_FILE"} /\ p \in FileNames \cup {Null}
    OBVIOUS
  <2>3. fd_table' = Allocated("VFS_FILE", p)
    BY DEF FileOpen
  <2> HIDE DEF f
  <2>4. fd_table' = [fd_table EXCEPT ![f] = [type |-> "VFS_FILE", data |-> p]]
    BY <2>3 DEF Allocated, f
  <2> QED BY <1>1, <2>1, <2>2, <2>4
<1> HIDE DEF f
<1>3. FileTableOK'
  BY <1>1, <1>2 DEF FileTableOK, FileFds, FileOf, TransfersInv
<1>4. UNCHANGED <<held, size, free_blocks>>
  BY DEF FileOpen
<1>5. offset' \in [Fds -> 0 .. OFFSETS - 1]
  BY <1>1, TransfersConstants DEF FileOpen, f, TransfersInv
<1>6. node_size' \in [Fds -> Nat]
  <2>1. p \in ProcFiles => NodeSize[p] \in Nat
    BY TransfersAssumption DEF TransfersAssumption
  <2>2. p \notin ProcFiles => size[p] \in Nat
    BY TransfersInvTypes, TransfersConstants DEF FileNames, TransfersTypeOK
  <2> QED BY <1>1, <2>1, <2>2 DEF FileOpen, f, TransfersInv
<1> QED BY <1>3, <1>4, <1>5, <1>6 DEF TransfersInv, BlocksOK

LEMMA FileCloseInv ==
    ASSUME TransfersInv, NEW f \in FileFds, FileClose(f)
    PROVE  TransfersInv'
<1>1. f \in Fds
  BY DEF FileFds
<1>2. /\ fd_table' \in [Fds -> [type : {"EMPTY", "VFS_FILE"}, data : FileNames \cup {Null}]]
      /\ fd_table'[f] = Empty
      /\ \A g \in Fds \ {f} : fd_table'[g] = fd_table[g]
  BY <1>1 DEF FileClose, TransfersInv, FileTableOK, Empty
<1>3. FileTableOK'
  BY <1>1, <1>2 DEF FileTableOK, FileFds, FileOf, TransfersInv, Empty
<1>4. UNCHANGED <<held, size, free_blocks>>
  BY DEF FileClose
<1>5. offset' \in [Fds -> 0 .. OFFSETS - 1] /\ node_size' \in [Fds -> Nat]
  BY <1>1, TransfersConstants DEF FileClose, TransfersInv
<1> QED BY <1>3, <1>4, <1>5 DEF TransfersInv, BlocksOK

\* Calls that only move the offset, modulo OFFSETS.
LEMMA OffsetsInv ==
    ASSUME TransfersInv, NEW f \in FileFds, NEW x \in Int,
           offset' = [offset EXCEPT ![f] = x % OFFSETS],
           UNCHANGED <<fd_table, held, size, free_blocks, node_size>>
    PROVE  TransfersInv'
<1>1. x % OFFSETS \in 0 .. OFFSETS - 1
  BY TransfersConstants
<1> QED BY <1>1 DEF TransfersInv, FileTableOK, FileFds, FileOf, BlocksOK

\* What a read of a text gets.
LEMMA ProcReadIs ==
    ASSUME NEW S, NEW text \in Seq(S), NEW from \in 0 .. OFFSETS - 1, NEW n \in 0 .. OFFSETS - 1
    PROVE  /\ ProcRead(text, from, n) \in Seq(S \cup {Beyond})
           /\ from + n < OFFSETS =>
                /\ ProcRead(text, from, n) =
                    SubSeq(text, Min({from, Len(text)}) + 1,
                           Min({Min({from, Len(text)}) + n, Len(text)}))
                /\ from + Len(ProcRead(text, from, n)) < OFFSETS
<1> DEFINE end == IF (from + n) % OFFSETS > Len(text) THEN Len(text) ELSE from + n
           start == Min({from, Len(text)})
           T == S \cup {Beyond}
<1>1. Len(text) \in Nat /\ from \in Nat /\ n \in Nat /\ OFFSETS \in Nat \ {0}
  BY TransfersConstants
<1>2. start = IF from <= Len(text) THEN from ELSE Len(text)
  BY <1>1, MinIs
<1> HIDE DEF start
<1>3. Min({start + n, Len(text)}) = IF start + n <= Len(text) THEN start + n ELSE Len(text)
  BY <1>1, <1>2, MinIs
<1>4. CASE from >= Len(text)
  <2>1. ProcRead(text, from, n) = <<>>
    BY <1>4 DEF ProcRead
  <2>2. start = Len(text) /\ Min({start + n, Len(text)}) = Len(text)
    BY <1>1, <1>2, <1>3, <1>4
  <2>3. SubSeq(text, Len(text) + 1, Len(text)) = <<>>
    BY <1>1, SubSeqEmpty
  <2>4. <<>> \in Seq(T) /\ Len(<<>>) = 0
    OBVIOUS
  <2>5. SubSeq(text, start + 1, Min({start + n, Len(text)})) = <<>>
    BY <2>2, <2>3
  <2>6. from + Len(<<>>) = from
    BY <1>1, <2>4
  <2>7. from + n < OFFSETS => from < OFFSETS
    BY <1>1
  <2> QED BY <2>1, <2>4, <2>5, <2>6, <2>7 DEF start
<1>5. CASE from < Len(text)
  <2> DEFINE read == [i \in 1 .. end - from |->
                        IF from + i \in DOMAIN text THEN text[from + i] ELSE Beyond]
  <2>1. ProcRead(text, from, n) = read
    BY <1>1, <1>5 DEF ProcRead
  <2>2. end - from \in Nat
    BY <1>1, <1>5
  <2> HIDE DEF end
  <2>3. \A i \in 1 .. end - from :
            (IF from + i \in DOMAIN text THEN text[from + i] ELSE Beyond) \in T
    OBVIOUS
  <2>4. read \in [1 .. end - from -> T]
    BY <2>3
  <2>5. read \in Seq(T) /\ Len(read) = end - from
    BY <2>2, <2>4
  <2>6. ASSUME from + n < OFFSETS
        PROVE  /\ read = SubSeq(text, start + 1, Min({start + n, Len(text)}))
               /\ from + Len(read) < OFFSETS
    <3>1. (from + n) % OFFSETS = from + n
      BY <1>1, <2>6
    <3>2. end = IF from + n > Len(text) THEN Len(text) ELSE from + n
      BY <3>1 DEF end
    <3>3. start = from /\ Min({start + n, Len(text)}) = end
      BY <1>1, <1>2, <1>3, <1>5, <3>2
    <3>4. end \in Nat /\ end <= Len(text) /\ end >= from /\ end <= from + n
      BY <1>1, <1>5, <3>2
    <3> DEFINE sub == SubSeq(text, from + 1, end)
    <3>5. /\ sub \in Seq(S) /\ Len(sub) = end - from
          /\ \A i \in 1 .. end - from : sub[i] = text[from + i]
      BY <1>1, <3>4
    <3> HIDE DEF sub
    <3>6. \A i \in 1 .. end - from : from + i \in DOMAIN text
      BY <1>1, <3>4
    <3>7. \A i \in 1 .. end - from : read[i] = sub[i]
      BY <3>5, <3>6
    <3> HIDE DEF read
    <3>8. sub \in Seq(T)
      BY <3>5, SeqMonotonic
    <3>9. read = sub
      BY <2>5, <3>5, <3>7, <3>8, SeqEqual
    <3>10. SubSeq(text, start + 1, Min({start + n, Len(text)})) = sub
      BY <3>3 DEF sub
    <3>11. from + Len(read) < OFFSETS
      BY <1>1, <2>5, <2>6, <3>4
    <3> QED BY <3>9, <3>10, <3>11
  <2> HIDE DEF read
  <2>7. ProcRead(text, from, n) \in Seq(T)
    BY <2>1, <2>5
  <2>8. ASSUME from + n < OFFSETS
        PROVE  /\ ProcRead(text, from, n) = SubSeq(text, start + 1, Min({start + n, Len(text)}))
               /\ from + Len(ProcRead(text, from, n)) < OFFSETS
    BY <2>1, <2>6, <2>8
  <2> QED BY <2>7, <2>8 DEF start, T
<1>6. from >= Len(text) \/ from < Len(text)
  BY <1>1
<1> QED BY <1>4, <1>5, <1>6, Zenon

\* The text of a file of procfs.
LEMMA TextIsSeq ==
    ASSUME NEW p \in ProcFiles
    PROVE  Text[p] \in Seq(Range(Text[p]))
  BY TransfersAssumption DEF TransfersAssumption

\* What a file of ramfs holds.
LEMMA RamFileIs ==
    ASSUME TransfersInv, NEW p \in RamFiles
    PROVE  \E blocks \in 0 .. MAX_BLOCKS_PER_FILE :
            /\ held[p] \in [1 .. blocks * BLOCK_SIZE -> Held]
            /\ held[p] \in Seq(Held) /\ Len(held[p]) = blocks * BLOCK_SIZE
            /\ Len(held[p]) \in 0 .. MAX_BLOCKS_PER_FILE * BLOCK_SIZE
            /\ size[p] \in 0 .. Len(held[p])
<1>1. PICK blocks \in 0 .. MAX_BLOCKS_PER_FILE :
            /\ held[p] \in [1 .. blocks * BLOCK_SIZE -> Held]
            /\ size[p] \in 0 .. blocks * BLOCK_SIZE
  BY DEF TransfersInv, BlocksOK
<1>2. /\ blocks * BLOCK_SIZE \in 0 .. MAX_BLOCKS_PER_FILE * BLOCK_SIZE
      /\ held[p] \in Seq(Held) /\ Len(held[p]) = blocks * BLOCK_SIZE
  BY <1>1, HeldIsSeq
<1> QED BY <1>1, <1>2

LEMMA RamReadIs ==
    ASSUME TransfersInv, NEW p \in RamFiles, NEW n \in Nat
    PROVE  /\ RamRead(p, n) \in Seq(Held)
           /\ Len(RamRead(p, n)) <= n
<1>1. held[p] \in Seq(Held) /\ Len(held[p]) \in Nat
  BY RamFileIs
<1>2. Min({n, Len(held[p])}) = IF n <= Len(held[p]) THEN n ELSE Len(held[p])
  BY <1>1, MinIs
<1>3. Min({n, Len(held[p])}) \in 0 .. Len(held[p]) /\ Min({n, Len(held[p])}) <= n
  BY <1>1, <1>2
<1> DEFINE k == Min({n, Len(held[p])})
<1> HIDE DEF k
<1>4. SubSeq(held[p], 1, k) \in Seq(Held) /\ Len(SubSeq(held[p], 1, k)) = k
  <2>1. k \in 0 .. Len(held[p])
    BY <1>3 DEF k
  <2>2. \A i \in 1 .. k : held[p][i] \in Held
    BY <1>1, <2>1, ElementOfSeq
  <2>3. k \in Int /\ k - 1 + 1 = k /\ k >= 0
    BY <1>1, <2>1
  <2> QED BY <2>2, <2>3, SubSeqProperties
<1> QED BY <1>3, <1>4 DEF RamRead, k

\* The calls take numbers and bytes.
LEMMA CountsAre ==
    Counts \subseteq 0 .. OFFSETS - 1 /\ Counts \subseteq Nat /\ Moves \subseteq Int
  BY TransfersAssumption DEF TransfersAssumption

LEMMA StringsAre ==
    ASSUME NEW s \in Strings \cup {<<>>}
    PROVE  s \in Seq(Values) /\ Len(s) \in 0 .. OFFSETS - 1
<1>1. CASE s = <<>>
  BY <1>1, TransfersConstants
<1>2. CASE s \in Strings
  <2>1. PICK n \in Counts \ {0}, v \in Values : s = [i \in 1 .. n |-> v]
    BY <1>2 DEF Strings
  <2>2. n \in Nat /\ n \in 0 .. OFFSETS - 1
    BY CountsAre
  <2>3. s \in [1 .. n -> Values]
    BY <2>1
  <2> QED BY <2>2, <2>3
<1> QED BY <1>1, <1>2

LEMMA FileReadInv ==
    ASSUME TransfersInv, NEW f \in FileFds, NEW n \in Counts, FileRead(f, n)
    PROVE  TransfersInv'
<1>1. f \in Fds /\ FileOf(f) \in FileNames /\ n \in 0 .. OFFSETS - 1 /\ n \in Nat
  BY CountsAre DEF TransfersInv, FileTableOK, FileFds
<1>2. Len(BytesRead(f, n)) \in Nat
  <2>1. CASE FileOf(f) \in ProcFiles
    <3> DEFINE S == Range(Text[FileOf(f)])
    <3>1. Text[FileOf(f)] \in Seq(S) /\ offset[f] \in 0 .. OFFSETS - 1
      BY <1>1, <2>1, TextIsSeq DEF TransfersInv
    <3> HIDE DEF S
    <3>2. ProcRead(Text[FileOf(f)], offset[f], n) \in Seq(S \cup {Beyond})
      BY <1>1, <3>1, ProcReadIs
    <3>3. BytesRead(f, n) = ProcRead(Text[FileOf(f)], offset[f], n)
      BY <2>1 DEF BytesRead
    <3> QED BY <3>2, <3>3, LenProperties
  <2>2. CASE FileOf(f) \notin ProcFiles
    <3>1. FileOf(f) \in RamFiles
      BY <1>1, <2>2 DEF FileNames
    <3>2. RamRead(FileOf(f), n) \in Seq(Held)
      BY <1>1, <3>1, RamReadIs
    <3>3. BytesRead(f, n) = RamRead(FileOf(f), n)
      BY <2>2 DEF BytesRead
    <3> QED BY <3>2, <3>3, LenProperties
  <2> QED BY <2>1, <2>2
<1>3. /\ offset' = [offset EXCEPT ![f] = (offset[f] + Len(BytesRead(f, n))) % OFFSETS]
      /\ UNCHANGED <<fd_table, held, size, free_blocks, node_size>>
  BY <1>1 DEF FileRead, TransfersInv
<1>4. offset[f] + Len(BytesRead(f, n)) \in Int
  BY <1>1, <1>2, TransfersConstants DEF TransfersInv
<1> QED BY <1>3, <1>4, OffsetsInv

LEMMA FileSeekInv ==
    ASSUME TransfersInv, NEW f \in FileFds, NEW whence \in Whences, NEW n \in Moves,
           FileSeek(f, whence, n)
    PROVE  TransfersInv'
<1>1. f \in Fds /\ n \in Int
  BY CountsAre DEF FileFds
<1>2. Base(f, whence) \in Int
  BY <1>1, TransfersConstants DEF Base, Whences, TransfersInv
<1>3. Base(f, whence) + n \in Int
  BY <1>1, <1>2
<1> QED BY <1>3, OffsetsInv DEF FileSeek

\* The file that a write is for.
LEMMA BeforeIs ==
    ASSUME TransfersInv, NEW f \in FileFds, FileOf(f) \in RamFiles
    PROVE  \E blocks \in 0 .. MAX_BLOCKS_PER_FILE : HasBlocks(Before(f), blocks)
<1> DEFINE p == FileOf(f)
<1>1. PICK blocks \in 0 .. MAX_BLOCKS_PER_FILE :
            /\ held[p] \in [1 .. blocks * BLOCK_SIZE -> Held]
            /\ size[p] \in 0 .. blocks * BLOCK_SIZE
  BY DEF TransfersInv, BlocksOK
<1>2. free_blocks \in 0 .. TOTAL_BLOCKS
  BY DEF TransfersInv
<1>3. HasBlocks(Before(f), blocks)
  BY <1>1, <1>2 DEF HasBlocks, Before
<1> QED BY <1>3

LEMMA FileWriteInv ==
    ASSUME TransfersInv, NEW f \in FileFds, NEW pieces \in Seq(Seq(Values)),
           FileWrite(f, pieces)
    PROVE  TransfersInv'
<1> DEFINE p == FileOf(f)
           after == AfterWrites(f, pieces)
<1>1. f \in Fds /\ p \in RamFiles
  BY DEF FileFds, FileWrite
<1>2. PICK blocks \in 0 .. MAX_BLOCKS_PER_FILE : HasBlocks(Before(f), blocks)
  BY <1>1, BeforeIs
<1>3. PICK gets \in blocks .. MAX_BLOCKS_PER_FILE : HasBlocks(after, gets)
  BY <1>2, WritesLeave
<1>4. after.written \in Nat
  BY <1>2, WritesLeave
<1>5. /\ held' = [held EXCEPT ![p] = after.held]
      /\ size' = [size EXCEPT ![p] = after.size]
      /\ free_blocks' = after.free
      /\ node_size' = [node_size EXCEPT ![f] = after.size]
      /\ offset' = [offset EXCEPT ![f] = (offset[f] + after.written) % OFFSETS]
      /\ UNCHANGED fd_table
  BY <1>1 DEF FileWrite, TransfersInv
<1> HIDE DEF after, p
<1>6. /\ gets \in 0 .. MAX_BLOCKS_PER_FILE
      /\ after.held \in [1 .. gets * BLOCK_SIZE -> Held]
      /\ after.size \in 0 .. gets * BLOCK_SIZE
      /\ after.free \in 0 .. TOTAL_BLOCKS
  BY <1>3 DEF HasBlocks
<1>7. BlocksOK'
  <2> SUFFICES ASSUME NEW q \in RamFiles
               PROVE  \E b \in 0 .. MAX_BLOCKS_PER_FILE :
                        /\ held'[q] \in [1 .. b * BLOCK_SIZE -> Held]
                        /\ size'[q] \in 0 .. b * BLOCK_SIZE
    BY DEF BlocksOK
  <2>1. CASE q = p
    <3>1. held'[q] = after.held /\ size'[q] = after.size
      BY <1>1, <1>5, <2>1 DEF TransfersInv
    <3> QED BY <1>6, <3>1
  <2>2. CASE q # p
    <3>1. held'[q] = held[q] /\ size'[q] = size[q]
      BY <1>1, <1>5, <2>2 DEF TransfersInv
    <3> QED BY <3>1 DEF TransfersInv, BlocksOK
  <2> QED BY <2>1, <2>2
<1>8. offset' \in [Fds -> 0 .. OFFSETS - 1]
  <2>1. offset[f] + after.written \in Int
    BY <1>1, <1>4, TransfersConstants DEF TransfersInv
  <2>2. (offset[f] + after.written) % OFFSETS \in 0 .. OFFSETS - 1
    BY <2>1, TransfersConstants
  <2> QED BY <1>1, <1>5, <2>2 DEF TransfersInv
<1>9. node_size' \in [Fds -> Nat]
  <2>1. gets * BLOCK_SIZE \in Nat
    BY <1>6, TransfersConstants
  <2>2. after.size \in Nat
    BY <1>6, <2>1
  <2> QED BY <1>1, <1>5, <2>2 DEF TransfersInv
<1>10. /\ DOMAIN held' = RamFiles /\ held' = [q \in RamFiles |-> held'[q]]
       /\ size' = [q \in RamFiles |-> size'[q]]
  BY <1>1, <1>5 DEF TransfersInv
<1>11. FileTableOK'
  BY <1>5 DEF TransfersInv, FileTableOK, FileFds, FileOf
<1>12. free_blocks' \in 0 .. TOTAL_BLOCKS
  BY <1>5, <1>6
<1> QED BY <1>7, <1>8, <1>9, <1>10, <1>11, <1>12 DEF TransfersInv

LEMMA TransfersStep ==
    ASSUME TransfersInv, [TransfersNext]_<<fd_table, transfers>>
    PROVE  TransfersInv'
<1>1. CASE UNCHANGED <<fd_table, transfers>>
  BY <1>1 DEF TransfersInv, FileTableOK, FileFds, FileOf, BlocksOK, transfers
<1>2. ASSUME NEW p \in FileNames, FileOpen(p) PROVE TransfersInv'
  BY <1>2, FileOpenInv
<1>3. ASSUME NEW f \in FileFds, FileClose(f) PROVE TransfersInv'
  BY <1>3, FileCloseInv
<1>4. ASSUME NEW f \in FileFds, NEW n \in Counts, ReadCalls(f, n) PROVE TransfersInv'
  BY <1>4, FileReadInv DEF ReadCalls
<1>5. ASSUME NEW f \in FileFds, NEW pieces \in Seq(Seq(Values)), WriteCalls(f, pieces)
      PROVE  TransfersInv'
  BY <1>5, FileWriteInv DEF WriteCalls
<1>6. ASSUME NEW f \in FileFds, NEW s \in Strings \cup {<<>>}, WriteCalls(f, <<s>>)
      PROVE  TransfersInv'
  <2>1. s \in Seq(Values)
    BY StringsAre
  <2>2. <<s>> \in Seq(Seq(Values))
    BY <2>1
  <2> QED BY <1>5, <1>6, <2>2
<1>7. ASSUME NEW f \in FileFds, NEW s \in Strings, NEW t \in Strings, WriteCalls(f, <<s, t>>)
      PROVE  TransfersInv'
  <2>1. s \in Seq(Values) /\ t \in Seq(Values)
    BY StringsAre
  <2>2. <<s, t>> \in Seq(Seq(Values))
    BY <2>1
  <2> QED BY <1>5, <1>7, <2>2
<1>8. ASSUME NEW f \in FileFds, NEW whence \in Whences, NEW n \in Moves,
             SeekCalls(f, whence, n)
      PROVE  TransfersInv'
  BY <1>8, FileSeekInv DEF SeekCalls
<1> QED BY <1>1, <1>2, <1>3, <1>4, <1>6, <1>7, <1>8 DEF TransfersNext, FileNames

-----------------------------------------------------------------------------
(* The files are those of ByteFiles.                                       *)

\* The hypothesis of the theorem.
TransfersCareful == Habits \cap BadFileHabits = {}

FileContents == [p \in RamFiles \cup ProcFiles |-> Content(p)]
Positions == [f \in FileFds |-> [name |-> FileOf(f), position |-> offset[f]]]

LEMMA SameContents ==
    ASSUME UNCHANGED <<held, size>>
    PROVE  FileContents' = FileContents
  BY DEF FileContents, Content

\* A call that moves one offset, and no descriptor.
LEMMA PositionMoves ==
    ASSUME TransfersInv, NEW f \in FileFds, NEW x, UNCHANGED fd_table,
           offset' = [offset EXCEPT ![f] = x]
    PROVE  Positions' = [Positions EXCEPT ![f].position = x]
<1>1. f \in Fds /\ DOMAIN offset = Fds /\ FileFds' = FileFds
  BY DEF FileFds, TransfersInv
<1>2. \A g \in FileFds : g \in Fds /\ FileOf(g)' = FileOf(g)
  BY DEF FileFds, FileOf
<1>3. offset'[f] = x /\ \A g \in FileFds : g # f => offset'[g] = offset[g]
  BY <1>1, <1>2
<1>4. Positions' = [g \in FileFds |-> [name |-> FileOf(g), position |-> offset'[g]]]
  BY <1>1, <1>2 DEF Positions
<1>5. [Positions EXCEPT ![f].position = x] =
            [g \in FileFds |-> [name |-> FileOf(g),
                                position |-> IF g = f THEN x ELSE offset[g]]]
  <2>1. Positions[f] = [name |-> FileOf(f), position |-> offset[f]]
    BY DEF Positions
  <2>2. [Positions[f] EXCEPT !.position = x] = [name |-> FileOf(f), position |-> x]
    BY <2>1
  <2>3. [Positions EXCEPT ![f].position = x] =
            [g \in FileFds |-> IF g = f THEN [Positions[f] EXCEPT !.position = x]
                                        ELSE Positions[g]]
    BY DEF Positions
  <2>4. \A g \in FileFds : Positions[g] = [name |-> FileOf(g), position |-> offset[g]]
    BY DEF Positions
  <2> QED BY <2>2, <2>3, <2>4
<1> QED BY <1>3, <1>4, <1>5

LEMMA FileOpenRefines ==
    ASSUME TransfersInv, NEW p \in FileNames, FileOpen(p)
    PROVE  Plain!Next
<1>1. PICK f \in Fds : f = Lowest(FreeFds) /\ f \notin FileFds
  BY FreeFdIn DEF FileOpen, FileFds
<1>2. /\ fd_table'[f] = [type |-> "VFS_FILE", data |-> p]
      /\ \A g \in Fds \ {f} : fd_table'[g] = fd_table[g]
  <2>1. fd_table' = [fd_table EXCEPT ![f] = [type |-> "VFS_FILE", data |-> p]]
    BY <1>1 DEF FileOpen, Allocated
  <2> QED BY <2>1 DEF TransfersInv, FileTableOK
<1>3. offset' = [offset EXCEPT ![f] = 0] /\ got' = <<>> /\ UNCHANGED <<held, size>>
  BY <1>1 DEF FileOpen
<1>4. FileFds' = FileFds \cup {f} /\ FileOf(f)' = p
  BY <1>1, <1>2 DEF FileFds, FileOf
<1>5. offset'[f] = 0 /\ \A g \in FileFds : offset'[g] = offset[g]
  BY <1>1, <1>3 DEF TransfersInv, FileFds
<1>6. \A g \in FileFds : g # f /\ g \in Fds /\ FileOf(g)' = FileOf(g)
  BY <1>1, <1>2 DEF FileFds, FileOf
<1>7. Positions' = [k \in FileFds \cup {f} |->
                        IF k = f THEN [name |-> p, position |-> 0] ELSE Positions[k]]
  BY <1>4, <1>5, <1>6 DEF Positions
<1>8. DOMAIN Positions = FileFds /\ DOMAIN Positions' = FileFds \cup {f}
  BY <1>4 DEF Positions
<1>9. Plain!Open(f)
  <2>1. FileContents' = FileContents
    BY <1>3, SameContents
  <2> QED BY <1>1, <1>3, <1>7, <1>8, <2>1 DEF Plain!Open, FileNames, FileContents, Positions
<1> QED BY <1>1, <1>9 DEF Plain!Next

LEMMA FileCloseRefines ==
    ASSUME TransfersInv, NEW f \in FileFds, FileClose(f)
    PROVE  Plain!Next
<1>1. f \in Fds
  BY DEF FileFds
<1>2. fd_table'[f] = Empty /\ \A g \in Fds \ {f} : fd_table'[g] = fd_table[g]
  BY <1>1 DEF FileClose, TransfersInv, FileTableOK
<1>3. FileFds' = FileFds \ {f}
  BY <1>2 DEF FileFds, Empty
<1>4. \A g \in FileFds \ {f} : FileOf(g)' = FileOf(g) /\ offset'[g] = offset[g]
  BY <1>1, <1>2 DEF FileFds, FileOf, FileClose, TransfersInv
<1>5. Positions' = Restrict(Positions, DOMAIN Positions \ {f})
  BY <1>3, <1>4 DEF Positions, Restrict
<1>6. FileContents' = FileContents /\ got' = <<>>
  BY SameContents DEF FileClose
<1>7. Plain!Close(f)
  BY <1>5, <1>6 DEF Plain!Close, Plain!Restrict, Restrict, FileContents, Positions
<1> QED BY <1>7 DEF Plain!Next, Positions

LEMMA PlainMinIs ==
    ASSUME NEW a \in Int, NEW b \in Int
    PROVE  Plain!Min({a, b}) = IF a <= b THEN a ELSE b
  BY DEF Plain!Min

\* The first bytes of a sequence.
LEMMA FirstOf ==
    ASSUME NEW S, NEW h \in Seq(S), NEW k \in 0 .. Len(h)
    PROVE  /\ SubSeq(h, 1, k) \in Seq(S) /\ Len(SubSeq(h, 1, k)) = k
           /\ \A i \in 1 .. k : SubSeq(h, 1, k)[i] = h[i]
<1>1. k \in Int /\ k - 1 + 1 = k /\ k >= 0 /\ Len(h) \in Nat
  OBVIOUS
<1>2. \A i \in 1 .. k : h[i] \in S
  BY <1>1, ElementOfSeq
<1>3. \A i \in 1 .. k : 1 + i - 1 = i
  BY <1>1
<1>4. /\ SubSeq(h, 1, k) \in Seq(S)
      /\ Len(SubSeq(h, 1, k)) = IF 1 <= k THEN k - 1 + 1 ELSE 0
      /\ \A i \in 1 .. k - 1 + 1 : SubSeq(h, 1, k)[i] = h[1 + i - 1]
  BY <1>1, <1>2, SubSeqProperties
<1> QED BY <1>1, <1>3, <1>4

LEMMA FirstOfFirst ==
    ASSUME NEW S, NEW h \in Seq(S), NEW z \in 0 .. Len(h), NEW k \in 0 .. z
    PROVE  SubSeq(SubSeq(h, 1, z), 1, k) = SubSeq(h, 1, k)
<1> DEFINE first == SubSeq(h, 1, z)
<1>1. first \in Seq(S) /\ Len(first) = z /\ \A i \in 1 .. z : first[i] = h[i]
  BY FirstOf
<1>2. Len(h) \in Nat /\ k \in 0 .. Len(h) /\ k \in 0 .. Len(first)
  BY <1>1
<1> HIDE DEF first
<1>3. /\ SubSeq(first, 1, k) \in Seq(S) /\ Len(SubSeq(first, 1, k)) = k
      /\ \A i \in 1 .. k : SubSeq(first, 1, k)[i] = first[i]
  BY <1>1, <1>2, FirstOf
<1>4. /\ SubSeq(h, 1, k) \in Seq(S) /\ Len(SubSeq(h, 1, k)) = k
      /\ \A i \in 1 .. k : SubSeq(h, 1, k)[i] = h[i]
  BY <1>2, FirstOf
<1>5. \A i \in 1 .. k : SubSeq(first, 1, k)[i] = SubSeq(h, 1, k)[i]
  BY <1>1, <1>3, <1>4
<1>6. SubSeq(first, 1, k) = SubSeq(h, 1, k)
  BY <1>3, <1>4, <1>5, SeqEqual
<1> QED BY <1>6 DEF first

\* What a program sees of a file.
LEMMA ContentIs ==
    ASSUME TransfersInv, NEW p \in FileNames
    PROVE  /\ FileContents[p] = Content(p)
           /\ p \in ProcFiles => Content(p) = Text[p] /\ p \notin RamFiles
           /\ p \in RamFiles => /\ Content(p) = SubSeq(held[p], 1, size[p])
                                /\ Content(p) \in Seq(Held) /\ Len(Content(p)) = size[p]
                                /\ p \notin ProcFiles
<1>1. FileContents[p] = Content(p)
  BY DEF FileContents, FileNames
<1>2. ~(p \in ProcFiles /\ p \in RamFiles)
  BY TransfersAssumption DEF TransfersAssumption
<1>3. p \in RamFiles => held[p] \in Seq(Held) /\ size[p] \in 0 .. Len(held[p])
  BY RamFileIs
<1> QED BY <1>1, <1>2, <1>3, FirstOf DEF Content

\* A read of what follows an offset.
LEMMA ReadsRefine ==
    ASSUME TransfersInv, NEW f \in FileFds, NEW n \in Counts, FileRead(f, n),
           NEW c, c = Content(FileOf(f)),
           BytesRead(f, n) =
                SubSeq(c, Plain!Min({offset[f], Len(c)}) + 1,
                       Plain!Min({Plain!Min({offset[f], Len(c)}) + n, Len(c)})),
           NEW k \in Nat, Len(BytesRead(f, n)) = k, offset[f] + k < OFFSETS
    PROVE  Plain!Next
<1>1. f \in Fds /\ FileOf(f) \in FileNames /\ offset[f] \in 0 .. OFFSETS - 1 /\ OFFSETS \in Nat
  BY TransfersConstants DEF TransfersInv, FileTableOK, FileFds
<1>2. /\ got' = BytesRead(f, n)
      /\ offset' = [offset EXCEPT ![f] = (offset[f] + k) % OFFSETS]
      /\ UNCHANGED <<fd_table, held, size>>
  BY <1>1 DEF FileRead, TransfersInv
<1>3. (offset[f] + k) % OFFSETS = offset[f] + k
  <2>1. \A x \in 0 .. OFFSETS - 1 : x % OFFSETS = x
    BY <1>1
  <2>2. offset[f] + k \in 0 .. OFFSETS - 1
    BY <1>1
  <2> QED BY <2>1, <2>2
<1>4. Positions' = [Positions EXCEPT ![f].position = offset[f] + Len(got')]
  BY <1>2, <1>3, PositionMoves
<1>5. FileContents' = FileContents /\ FileContents[FileOf(f)] = Content(FileOf(f))
  BY <1>1, <1>2, SameContents, ContentIs
<1>6. Positions[f] = [name |-> FileOf(f), position |-> offset[f]] /\ DOMAIN Positions = FileFds
  BY DEF Positions
<1>7. Plain!FileOf(f) = Content(FileOf(f))
  BY <1>5, <1>6 DEF Plain!FileOf, FileContents, Positions
<1>8. Positions' = [Positions EXCEPT ![f].position = Positions[f].position + Len(got')]
  BY <1>4, <1>6
<1>9. got' = SubSeq(c, Plain!Min({Positions[f].position, Len(c)}) + 1,
                    Plain!Min({Plain!Min({Positions[f].position, Len(c)}) + n, Len(c)}))
  <2>1. Positions[f].position = offset[f]
    BY <1>6
  <2> QED BY <1>2, <2>1, Zenon
<1>10. Plain!Read(f, n)
  BY <1>5, <1>7, <1>8, <1>9 DEF Plain!Read, FileContents, Positions
<1> QED BY <1>10 DEF Plain!Next, Positions

LEMMA Habitless ==
    ASSUME TransfersCareful, NEW h \in BadFileHabits, NEW bad, OnlyIf(h, bad)
    PROVE  ~bad
  BY Zenon DEF TransfersCareful, OnlyIf

LEMMA ReadRamRefines ==
    ASSUME TransfersCareful, TransfersInv, NEW f \in FileFds, NEW n \in Counts,
           ReadCalls(f, n), FileOf(f) \in RamFiles
    PROVE  Plain!Next
<1> DEFINE p == FileOf(f)
<1>1. n \in Nat /\ n < OFFSETS /\ OFFSETS \in Nat
  BY CountsAre, TransfersConstants
<1>2. offset[f] = 0
  <2>1. "read on" \in BadFileHabits
    BY DEF BadFileHabits
  <2>2. OnlyIf("read on", FileOf(f) \in RamFiles /\ offset[f] # 0)
    BY DEF ReadCalls
  <2> QED BY <2>1, <2>2, Habitless
<1>3. PICK h \in Seq(Held) : h = held[p] /\ Len(h) \in Nat
  BY RamFileIs
<1>4. PICK z \in 0 .. Len(h) : z = size[p]
  BY <1>3, RamFileIs
<1>5. Min({n, Len(h)}) = IF n <= Len(h) THEN n ELSE Len(h)
  BY <1>1, <1>3, MinIs
<1>6. Min({n, Len(h)}) <= z
  <2>1. "read beyond" \in BadFileHabits
    BY DEF BadFileHabits
  <2>2. OnlyIf("read beyond", /\ FileOf(f) \in RamFiles
                              /\ Min({n, Len(held[FileOf(f)])}) > size[FileOf(f)])
    BY DEF ReadCalls
  <2>3. ~(Min({n, Len(h)}) > z)
    BY <1>3, <1>4, <2>1, <2>2, Habitless
  <2> QED BY <1>1, <1>3, <1>4, <1>5, <2>3
<1>7. PICK k \in 0 .. z : k = Min({n, Len(h)}) /\ k <= n
  BY <1>1, <1>3, <1>5, <1>6
<1>8. p \in FileNames /\ p \notin ProcFiles
  BY ContentIs DEF FileNames
<1>9. BytesRead(f, n) = SubSeq(h, 1, k)
  BY <1>3, <1>7, <1>8 DEF BytesRead, RamRead
<1> DEFINE c == SubSeq(h, 1, z)
<1>10. c = Content(p) /\ Len(c) = z /\ z \in Nat
  BY <1>3, <1>4, <1>8, FirstOf, ContentIs
<1>11. SubSeq(c, 1, k) = SubSeq(h, 1, k)
  BY FirstOfFirst
<1>12. Len(SubSeq(h, 1, k)) = k /\ k \in Nat
  <2>1. k \in 0 .. Len(h)
    BY <1>3
  <2> QED BY <2>1, FirstOf
<1> HIDE DEF c
<1>13. Plain!Min({offset[f], Len(c)}) = 0
  BY <1>2, <1>10, PlainMinIs
<1>14. Plain!Min({0 + n, Len(c)}) = k
  <2>1. Plain!Min({0 + n, Len(c)}) = IF n <= z THEN n ELSE z
    BY <1>1, <1>10, PlainMinIs
  <2> QED BY <1>1, <1>3, <1>5, <1>7, <1>10, <2>1
<1>15. BytesRead(f, n) = SubSeq(c, Plain!Min({offset[f], Len(c)}) + 1,
                                Plain!Min({Plain!Min({offset[f], Len(c)}) + n, Len(c)}))
  <2>1. 0 + 1 = 1
    OBVIOUS
  <2> QED BY <1>9, <1>11, <1>13, <1>14, <2>1, Zenon
<1>16. Len(BytesRead(f, n)) = k
  BY <1>9, <1>12, Zenon
<1>17. offset[f] + k < OFFSETS
  BY <1>1, <1>2, <1>7, <1>12
<1>18. FileRead(f, n)
  BY DEF ReadCalls
<1> QED BY <1>10, <1>12, <1>15, <1>16, <1>17, <1>18, ReadsRefine, Zenon DEF p

LEMMA ReadProcRefines ==
    ASSUME TransfersCareful, TransfersInv, NEW f \in FileFds, NEW n \in Counts,
           ReadCalls(f, n), FileOf(f) \in ProcFiles
    PROVE  Plain!Next
<1> DEFINE p == FileOf(f)
           from == offset[f]
<1>1. n \in 0 .. OFFSETS - 1 /\ from \in 0 .. OFFSETS - 1 /\ OFFSETS \in Nat
  BY CountsAre, TransfersConstants DEF TransfersInv, FileFds
<1>2. p \notin RamFiles /\ Content(p) = Text[p]
  BY ContentIs DEF FileNames
<1>3. ~(from + n >= OFFSETS)
  <2>1. "read to the top" \in BadFileHabits
    BY DEF BadFileHabits
  <2>2. OnlyIf("read to the top", FileOf(f) \notin RamFiles /\ offset[f] + n >= OFFSETS)
    BY DEF ReadCalls
  <2> QED BY <1>2, <2>1, <2>2, Habitless
<1>4. from + n < OFFSETS
  BY <1>1, <1>3
<1>5. PICK text \in Seq(Range(Text[p])) : text = Text[p]
  BY TextIsSeq
<1>6. BytesRead(f, n) = ProcRead(text, from, n)
  BY <1>5 DEF BytesRead
<1> HIDE DEF from
<1>7. /\ ProcRead(text, from, n) \in Seq(Range(Text[p]) \cup {Beyond})
      /\ ProcRead(text, from, n) =
            SubSeq(text, Min({from, Len(text)}) + 1,
                   Min({Min({from, Len(text)}) + n, Len(text)}))
      /\ from + Len(ProcRead(text, from, n)) < OFFSETS
  BY <1>1, <1>4, ProcReadIs
<1>8. PICK k \in Nat : k = Len(ProcRead(text, from, n))
  BY <1>7, LenProperties
<1>9. Len(text) \in Nat
  BY LenProperties
<1>10. Plain!Min({from, Len(text)}) = Min({from, Len(text)}) /\ Min({from, Len(text)}) \in Int
  BY <1>1, <1>9, MinIs, PlainMinIs
<1>11. Plain!Min({Min({from, Len(text)}) + n, Len(text)})
            = Min({Min({from, Len(text)}) + n, Len(text)})
  <2>1. ASSUME NEW a \in Int, NEW b \in Int PROVE Plain!Min({a, b}) = Min({a, b})
    BY MinIs, PlainMinIs
  <2>2. PICK a \in Int : a = Min({from, Len(text)}) + n
    BY <1>1, <1>10
  <2>3. PICK b \in Int : b = Len(text)
    BY <1>9
  <2> QED BY <2>1, <2>2, <2>3, Zenon
<1>12. BytesRead(f, n) =
            SubSeq(text, Plain!Min({from, Len(text)}) + 1,
                   Plain!Min({Plain!Min({from, Len(text)}) + n, Len(text)}))
  BY <1>6, <1>7, <1>10, <1>11, Zenon
<1>13. Len(BytesRead(f, n)) = k /\ from + k < OFFSETS
  BY <1>6, <1>7, <1>8, Zenon
<1>14. FileRead(f, n) /\ text = Content(FileOf(f))
  BY <1>2, <1>5 DEF ReadCalls
<1> QED BY <1>12, <1>13, <1>14, ReadsRefine, Zenon DEF from

LEMMA SeeksRefine ==
    ASSUME TransfersCareful, TransfersInv, NEW f \in FileFds, NEW whence \in Whences,
           NEW n \in Moves, SeekCalls(f, whence, n)
    PROVE  Plain!Next
<1>1. /\ f \in Fds /\ FileOf(f) \in FileNames /\ offset[f] \in 0 .. OFFSETS - 1
      /\ OFFSETS \in Nat /\ n \in Int
  BY CountsAre, TransfersConstants DEF TransfersInv, FileTableOK, FileFds
<1>2. Positions[f] = [name |-> FileOf(f), position |-> offset[f]] /\ DOMAIN Positions = FileFds
  BY DEF Positions
<1>3. Plain!FileOf(f) = Content(FileOf(f))
  BY <1>1, <1>2, ContentIs DEF Plain!FileOf, FileContents, Positions
<1>4. Base(f, whence) \in {0, Positions[f].position, Len(Content(FileOf(f)))}
  <2>1. whence = "SEEK_END" => node_size[f] = Len(Content(FileOf(f)))
    <3>1. "end elsewhere" \in BadFileHabits
      BY DEF BadFileHabits
    <3>2. OnlyIf("end elsewhere", whence = "SEEK_END" /\ node_size[f] # Len(Content(FileOf(f))))
      BY DEF SeekCalls
    <3> QED BY <3>1, <3>2, Habitless
  <2>2. Positions[f].position = offset[f]
    BY <1>2
  <2> QED BY <2>1, <2>2 DEF Base, Whences
<1>5. Base(f, whence) + n \in 0 .. OFFSETS - 1
  <2>1. "seek out" \in BadFileHabits
    BY DEF BadFileHabits
  <2>2. OnlyIf("seek out", Base(f, whence) + n \notin 0 .. OFFSETS - 1)
    BY DEF SeekCalls
  <2> QED BY <2>1, <2>2, Habitless
<1>6. PICK base : base = Base(f, whence)
  OBVIOUS
<1>7. (base + n) % OFFSETS = base + n /\ base + n >= 0
  <2>1. \A x \in 0 .. OFFSETS - 1 : x % OFFSETS = x /\ x >= 0
    BY <1>1
  <2> QED BY <1>5, <1>6, <2>1
<1>8. /\ offset' = [offset EXCEPT ![f] = base + n] /\ got' = <<>>
      /\ UNCHANGED <<fd_table, held, size>>
  BY <1>6, <1>7 DEF SeekCalls, FileSeek
<1>9. Positions' = [Positions EXCEPT ![f].position = base + n]
  BY <1>8, PositionMoves
<1>10. FileContents' = FileContents
  BY <1>8, SameContents
<1>11. base \in {0, Positions[f].position, Len(Plain!FileOf(f))}
  BY <1>3, <1>4, <1>6, Zenon
<1>12. Plain!Seek(f, n)
  BY <1>7, <1>8, <1>9, <1>10, <1>11 DEF Plain!Seek, FileContents, Positions
<1> QED BY <1>2, <1>12 DEF Plain!Next, Positions

\* A write of n of the bytes of s to the start of a file, which then are all that it holds.
LEMMA PutAtStart ==
    ASSUME NEW S, NEW old \in Seq(S), NEW T, NEW s \in Seq(T), NEW n \in 0 .. Len(s),
           Len(old) <= n
    PROVE  LET new == SubSeq(s, 1, n)
           IN SubSeq(old, 1, 0) \o new \o SubSeq(old, 0 + Len(new) + 1, Len(old)) = new
<1> DEFINE new == SubSeq(s, 1, n)
<1>1. new \in Seq(T) /\ Len(new) = n /\ n \in Nat /\ Len(old) \in Nat
  BY FirstOf
<1> HIDE DEF new
<1>2. SubSeq(old, 1, 0) = <<>>
  BY SubSeqEmpty
<1>3. SubSeq(old, 0 + Len(new) + 1, Len(old)) = <<>>
  <2>1. 0 + Len(new) + 1 = n + 1 /\ n + 1 \in Int /\ Len(old) < n + 1
    BY <1>1
  <2> QED BY <1>1, <2>1, SubSeqEmpty
<1>4. <<>> \o new = new /\ new \o <<>> = new
  BY <1>1, ConcatEmptySeq
<1> QED BY <1>2, <1>3, <1>4, Zenon DEF new

LEMMA WritesRefine ==
    ASSUME TransfersCareful, TransfersInv, NEW f \in FileFds,
           NEW s \in Strings \cup {<<>>}, WriteCalls(f, <<s>>)
    PROVE  Plain!Next
<1>0. PICK p \in RamFiles : p = FileOf(f)
  BY DEF WriteCalls
<1> DEFINE after == AfterWrites(f, <<s>>)
<1>1. /\ f \in Fds /\ p \in FileNames /\ offset[f] \in 0 .. OFFSETS - 1 /\ OFFSETS \in Nat
      /\ s \in Seq(Values) /\ Len(s) \in 0 .. OFFSETS - 1
  BY TransfersConstants, StringsAre DEF TransfersInv, FileFds, FileNames
<1>2. offset[f] = 0
  <2>1. "write on" \in BadFileHabits
    BY DEF BadFileHabits
  <2>2. OnlyIf("write on", offset[f] # 0 \/ Len(<<s>>) > 1)
    BY DEF WriteCalls
  <2> QED BY <2>1, <2>2, Habitless
<1>3. Len(s) >= size[p]
  <2>1. "write less" \in BadFileHabits
    BY DEF BadFileHabits
  <2>2. OnlyIf("write less", \E i \in DOMAIN <<s>> : Len(<<s>>[i]) < size[p])
    BY <1>0 DEF WriteCalls
  <2>3. ~\E i \in DOMAIN <<s>> : Len(<<s>>[i]) < size[p]
    BY <2>1, <2>2, Habitless
  <2>4. 1 \in DOMAIN <<s>> /\ <<s>>[1] = s
    OBVIOUS
  <2>5. ~(Len(s) < size[p])
    BY <2>3, <2>4
  <2>6. size[p] \in Int
    BY RamFileIs
  <2> QED BY <1>1, <2>5, <2>6
<1>4. ~(after.written > after.size)
  <2>1. "fill the blocks" \in BadFileHabits
    BY DEF BadFileHabits
  <2>2. OnlyIf("fill the blocks", after.written > after.size)
    BY DEF WriteCalls
  <2> QED BY <2>1, <2>2, Habitless
<1>5. PICK blocks \in 0 .. MAX_BLOCKS_PER_FILE : HasBlocks(Before(f), blocks)
  BY <1>0, BeforeIs
<1>6. Before(f).written = 0 /\ Before(f).size = size[p] /\ Before(f).held = held[p]
  BY <1>0 DEF Before
<1>7. after = FsWritten(Before(f), s)
  BY OneWrite
<1> HIDE DEF after
<1>8. PICK gets \in blocks .. MAX_BLOCKS_PER_FILE :
            /\ HasBlocks(after, gets)
            /\ after.written \in Nat
            /\ Put(after, size[p], gets, s, after.written - 0)
  <2>1. Before(f).written \in Nat
    BY <1>6
  <2>2. PICK gets \in blocks .. MAX_BLOCKS_PER_FILE :
            /\ HasBlocks(after, gets)
            /\ after.written \in Nat
            /\ Put(after, Before(f).size, gets, s, after.written - Before(f).written)
    BY <1>1, <1>5, <1>7, <2>1, FsWrittenIs
  <2> QED BY <1>6, <2>2
<1>9. PICK n \in Nat : n = after.written
  BY <1>8
<1>10. Put(after, size[p], gets, s, n)
  <2>1. after.written - 0 = n
    BY <1>9
  <2> QED BY <1>8, <2>1
<1>11. /\ gets \in 0 .. MAX_BLOCKS_PER_FILE
       /\ after.held \in [1 .. gets * BLOCK_SIZE -> Held]
       /\ after.held \in Seq(Held) /\ Len(after.held) = gets * BLOCK_SIZE
       /\ gets * BLOCK_SIZE \in 0 .. MAX_BLOCKS_PER_FILE * BLOCK_SIZE
       /\ after.size \in 0 .. gets * BLOCK_SIZE
  BY <1>8, HeldIsSeq DEF HasBlocks
<1>12. size[p] \in 0 .. blocks * BLOCK_SIZE /\ blocks * BLOCK_SIZE <= gets * BLOCK_SIZE
       /\ blocks * BLOCK_SIZE \in Nat
  <2>1. size[p] \in 0 .. blocks * BLOCK_SIZE
    BY <1>5, <1>6 DEF HasBlocks
  <2>2. blocks \in Nat /\ gets \in Nat /\ blocks <= gets /\ BLOCK_SIZE \in Nat
    BY <1>11, TransfersConstants
  <2> QED BY <2>1, <2>2, Times
<1>13. /\ n <= Len(s) /\ n <= gets * BLOCK_SIZE /\ ~(n > after.size)
       /\ \A i \in 1 .. n : after.held[i] = s[i]
       /\ \/ after.size = n /\ n \in {Len(s), MAX_BLOCKS_PER_FILE * BLOCK_SIZE}
          \/ after.size = size[p] /\ n = gets * BLOCK_SIZE
  BY <1>1, <1>4, <1>9, <1>10 DEF Put
<1>14. MAX_BLOCKS_PER_FILE * BLOCK_SIZE \in Nat
  BY TransfersConstants
<1>15. after.size = n /\ size[p] <= n
  <2>1. CASE after.size = n /\ n \in {Len(s), MAX_BLOCKS_PER_FILE * BLOCK_SIZE}
    BY <1>1, <1>3, <1>11, <1>12, <1>14, <2>1
  <2>2. CASE after.size = size[p] /\ n = gets * BLOCK_SIZE
    BY <1>11, <1>12, <1>13, <1>14, <2>2
  <2> QED BY <1>13, <2>1, <2>2
<1>16. n \in 0 .. Len(s) /\ n \in 0 .. Len(after.held) /\ n \in 0 .. OFFSETS - 1
  BY <1>1, <1>11, <1>13
<1> DEFINE new == SubSeq(s, 1, n)
<1>17. SubSeq(after.held, 1, n) = new
  <2>1. /\ new \in Seq(Values) /\ Len(new) = n
        /\ \A i \in 1 .. n : new[i] = s[i]
    BY <1>1, <1>16, FirstOf
  <2>2. /\ SubSeq(after.held, 1, n) \in Seq(Held) /\ Len(SubSeq(after.held, 1, n)) = n
        /\ \A i \in 1 .. n : SubSeq(after.held, 1, n)[i] = after.held[i]
    BY <1>11, <1>16, FirstOf
  <2> HIDE DEF new
  <2>3. new \in Seq(Held)
    BY <2>1, SeqMonotonic DEF Held
  <2>4. \A i \in 1 .. n : SubSeq(after.held, 1, n)[i] = new[i]
    BY <1>13, <2>1, <2>2
  <2> QED BY <2>1, <2>2, <2>3, <2>4, SeqEqual
<1>18. new \in UNION {{SubSeq(t, 1, m) : m \in 0 .. Len(t)} : t \in Strings \cup {<<>>}}
  BY <1>16
<1>19. Len(new) = n
  BY <1>1, <1>16, FirstOf
<1> HIDE DEF new
<1>20. /\ held' = [held EXCEPT ![p] = after.held]
       /\ size' = [size EXCEPT ![p] = n]
       /\ offset' = [offset EXCEPT ![f] = n]
       /\ got' = <<>> /\ UNCHANGED fd_table
  <2>1. /\ held' = [held EXCEPT ![p] = after.held]
        /\ size' = [size EXCEPT ![p] = after.size]
        /\ offset' = [offset EXCEPT ![f] = (offset[f] + after.written) % OFFSETS]
        /\ got' = <<>> /\ UNCHANGED fd_table
    BY <1>0, <1>1 DEF WriteCalls, FileWrite, TransfersInv, after
  <2>2. (offset[f] + after.written) % OFFSETS = n
    <3>1. \A x \in 0 .. OFFSETS - 1 : x % OFFSETS = x
      BY <1>1
    <3>2. offset[f] + after.written = n
      BY <1>2, <1>9
    <3> QED BY <1>16, <3>1, <3>2
  <2> QED BY <1>15, <2>1, <2>2
<1>21. Positions' = [Positions EXCEPT ![f].position = n]
  BY <1>20, PositionMoves
<1>22. Positions[f] = [name |-> p, position |-> 0] /\ DOMAIN Positions = FileFds
  BY <1>0, <1>2 DEF Positions
<1> DEFINE old == Content(p)
<1>23. /\ FileContents[p] = old /\ old \in Seq(Held) /\ Len(old) = size[p]
       /\ p \notin ProcFiles
  BY <1>1, ContentIs
<1>24. Plain!FileOf(f) = old
  BY <1>22, <1>23 DEF Plain!FileOf, FileContents, Positions
<1>25. SubSeq(old, 1, 0) \o new \o SubSeq(old, 0 + Len(new) + 1, Len(old)) = new
  <2>1. Len(old) <= n
    BY <1>15, <1>23
  <2> HIDE DEF old
  <2> QED BY <1>1, <1>16, <1>23, <2>1, PutAtStart DEF new
<1> HIDE DEF old
<1>26. FileContents' = [FileContents EXCEPT ![p] = new]
  <2>1. Content(p)' = new
    <3>1. held'[p] = after.held /\ size'[p] = n
      BY <1>20 DEF TransfersInv
    <3>2. Content(p)' = SubSeq(held'[p], 1, size'[p])
      BY <1>23 DEF Content
    <3> QED BY <1>17, <3>1, <3>2
  <2>2. \A q \in FileNames : q # p => Content(q)' = Content(q)
    <3> SUFFICES ASSUME NEW q \in FileNames, q # p PROVE Content(q)' = Content(q)
      OBVIOUS
    <3>1. (held'[q] = held[q] /\ size'[q] = size[q]) \/ q \in ProcFiles
      BY <1>20 DEF FileNames, TransfersInv
    <3> QED BY <3>1 DEF Content
  <2> QED BY <2>1, <2>2 DEF FileContents, FileNames
<1>27. Plain!Write(f, new)
  <2>1. Positions[f].position = 0 /\ Positions[f].name = p
    BY <1>22
  <2>2. Positions[f].position <= Len(Plain!FileOf(f))
    BY <1>12, <1>23, <1>24, <2>1
  <2>3. FileContents' = [FileContents EXCEPT ![Positions[f].name] =
                SubSeq(FileContents[Positions[f].name], 1, Positions[f].position)
                \o new
                \o SubSeq(FileContents[Positions[f].name], Positions[f].position + Len(new) + 1,
                          Len(FileContents[Positions[f].name]))]
    BY <1>23, <1>25, <1>26, <2>1, Zenon
  <2>4. Positions' = [Positions EXCEPT ![f].position = Positions[f].position + Len(new)]
    <3>1. Positions[f].position + Len(new) = n
      BY <1>19, <2>1
    <3> QED BY <1>21, <3>1
  <2> QED BY <1>20, <2>2, <2>3, <2>4 DEF Plain!Write, Plain!FileOf, FileContents, Positions
<1> QED BY <1>18, <1>22, <1>27 DEF Plain!Next, Positions

\* Writes in two pieces are a habit.
LEMMA NoTwoPieces ==
    ASSUME TransfersCareful, NEW f, NEW s, NEW t, WriteCalls(f, <<s, t>>)
    PROVE  FALSE
<1>1. "write on" \in BadFileHabits
  BY DEF BadFileHabits
<1>2. OnlyIf("write on", offset[f] # 0 \/ Len(<<s, t>>) > 1)
  BY DEF WriteCalls
<1>3. ~(offset[f] # 0 \/ Len(<<s, t>>) > 1)
  BY <1>1, <1>2, Habitless
<1>4. Len(<<s, t>>) > 1
  OBVIOUS
<1> QED BY <1>3, <1>4

LEMMA TransfersRefines ==
    ASSUME TransfersCareful, TransfersInv, [TransfersNext]_<<fd_table, transfers>>
    PROVE  [Plain!Next]_<<FileContents, Positions, got>>
<1>1. ASSUME UNCHANGED <<fd_table, transfers>>
      PROVE  UNCHANGED <<FileContents, Positions, got>>
  BY <1>1, SameContents DEF Positions, FileFds, FileOf, transfers
<1>2. ASSUME NEW p \in FileNames, FileOpen(p)
      PROVE  Plain!Next
  BY <1>2, FileOpenRefines
<1>3. ASSUME NEW f \in FileFds, FileClose(f)
      PROVE  Plain!Next
  BY <1>3, FileCloseRefines
<1>4. ASSUME NEW f \in FileFds, NEW n \in Counts, ReadCalls(f, n)
      PROVE  Plain!Next
  <2>1. FileOf(f) \in RamFiles \cup ProcFiles
    BY DEF TransfersInv, FileTableOK, FileFds, FileNames
  <2> QED BY <1>4, <2>1, ReadRamRefines, ReadProcRefines
<1>5. ASSUME NEW f \in FileFds, NEW s \in Strings \cup {<<>>}, WriteCalls(f, <<s>>)
      PROVE  Plain!Next
  BY <1>5, WritesRefine
<1>6. ASSUME NEW f \in FileFds, NEW s \in Strings, NEW t \in Strings, WriteCalls(f, <<s, t>>)
      PROVE  Plain!Next
  BY <1>6, NoTwoPieces
<1>7. ASSUME NEW f \in FileFds, NEW whence \in Whences, NEW n \in Moves,
             SeekCalls(f, whence, n)
      PROVE  Plain!Next
  BY <1>7, SeeksRefine
<1> QED BY <1>1, <1>2, <1>3, <1>4, <1>5, <1>6, <1>7 DEF TransfersNext, FileNames

LEMMA TransfersStartPlain ==
    ASSUME TransfersInit, fd_table = [f \in Fds |-> Empty]
    PROVE  Plain!Init
<1>1. FileFds = {}
  BY DEF FileFds, Empty
<1>2. Positions = << >>
  <2>1. Positions = [f \in {} |-> [name |-> FileOf(f), position |-> offset[f]]]
    BY <1>1 DEF Positions
  <2> QED BY <2>1
<1>3. \A p \in RamFiles : Content(p) = <<>>
  <2> SUFFICES ASSUME NEW p \in RamFiles PROVE Content(p) = <<>>
    OBVIOUS
  <2>1. p \notin ProcFiles
    BY TransfersAssumption DEF TransfersAssumption
  <2>2. Content(p) = SubSeq(<<>>, 1, 0)
    BY <2>1 DEF Content, TransfersInit
  <2> QED BY <2>2, SubSeqEmpty
<1>4. FileContents = [p \in RamFiles \cup ProcFiles |->
                        IF p \in ProcFiles THEN Text[p] ELSE <<>>]
  BY <1>3 DEF FileContents, Content
<1>5. got = <<>>
  BY DEF TransfersInit
<1> QED BY <1>2, <1>4, <1>5 DEF Plain!Init, FileContents, Positions

\* Sizes, offsets, sizes of nodes and the count of free blocks stay in their ranges,
\* whatever habits programs have (vfs.c:299-323, filesystem.c:75-166).
THEOREM TransferTypes == TransfersSpec => []TransfersTypeOK
<1>1. TransfersInit /\ fd_table = [f \in Fds |-> Empty] => TransfersInv
  BY TransfersInitInv
<1>2. TransfersInv /\ [TransfersNext]_<<fd_table, transfers>> => TransfersInv'
  BY TransfersStep
<1> QED BY <1>1, <1>2, TransfersInvTypes, PTL DEF TransfersSpec

\* With programs that have none of the habits, what was written to a file is what a read of
\* it returns (vfs.c:299-323, filesystem.c:75-104, procfs.c:14-45, syscall.c:309-317).
THEOREM FilesAreKept == TransfersCareful => (TransfersSpec => FilesKept)
<1> SUFFICES ASSUME TransfersCareful PROVE TransfersSpec => FilesKept
  OBVIOUS
<1>1. TransfersInit /\ fd_table = [f \in Fds |-> Empty] => TransfersInv
  BY TransfersInitInv
<1>2. TransfersInv /\ [TransfersNext]_<<fd_table, transfers>> => TransfersInv'
  BY TransfersStep
<1>3. TransfersInit /\ fd_table = [f \in Fds |-> Empty] => Plain!Init
  BY TransfersStartPlain
<1>4. TransfersInv /\ [TransfersNext]_<<fd_table, transfers>>
            => [Plain!Next]_<<FileContents, Positions, got>>
  BY TransfersRefines
<1> QED BY <1>1, <1>2, <1>3, <1>4, PTL
        DEF TransfersSpec, FilesKept, Plain!Spec, FileContents, Positions
-----------------------------------------------------------------------------
(* Sequences that are joined.                                              *)

\* The first k of some sequences, one after another.
Joined(ss, k) == FlattenSeq([i \in 1 .. k |-> ss[i]])

\* The function that FlattenSeq is defined with: it is there, and its values are what is joined.
LEMMA Joining ==
    ASSUME NEW n \in Nat, NEW ss
    PROVE  \E f : \A k \in 1 .. n : /\ f[k] = IF k = 1 THEN ss[k] ELSE f[k - 1] \o ss[k]
                                    /\ Joined(ss, k) = f[k]
<1> DEFINE Upto(k, f) == \A j \in 1 .. k : f[j] = IF j = 1 THEN ss[j] ELSE f[j - 1] \o ss[j]
           S == {k \in Nat : \E f : Upto(k, f)}
<1>1. 0 \in S
  OBVIOUS
<1>2. ASSUME NEW k \in Nat, k \in S PROVE k + 1 \in S
  <2>1. PICK f : Upto(k, f)
    BY <1>2
  <2> DEFINE g == [j \in 1 .. k + 1 |->
                    IF j <= k THEN f[j] ELSE IF j = 1 THEN ss[j] ELSE f[k] \o ss[j]]
  <2>2. ASSUME NEW j \in 1 .. k + 1
        PROVE  g[j] = IF j = 1 THEN ss[j] ELSE g[j - 1] \o ss[j]
    <3>1. CASE j <= k
      <4>1. j \in 1 .. k /\ g[j] = f[j] /\ (j # 1 => g[j - 1] = f[j - 1])
        BY <3>1
      <4>2. f[j] = IF j = 1 THEN ss[j] ELSE f[j - 1] \o ss[j]
        BY <2>1, <4>1
      <4> QED BY <4>1, <4>2, Zenon
    <3>2. CASE j = k + 1
      <4>1. ~(j <= k) /\ (j # 1 => g[j - 1] = f[k])
        BY <3>2
      <4>2. g[j] = IF j = 1 THEN ss[j] ELSE f[k] \o ss[j]
        BY <4>1
      <4> QED BY <4>1, <4>2, Zenon
    <3> QED BY <3>1, <3>2
  <2>3. Upto(k + 1, g)
    BY <2>2
  <2> HIDE DEF Upto, g
  <2> QED BY <2>3
<1> HIDE DEF S
<1>3. n \in S
  BY <1>1, <1>2, Induction
<1>4. PICK f : Upto(n, f)
  BY <1>3 DEF S
<1>5. ASSUME NEW k \in 1 .. n PROVE Joined(ss, k) = f[k]
  <2> DEFINE first == [i \in 1 .. k |-> ss[i]]
             P(r) == r = [i \in 1 .. k |-> IF i = 1 THEN first[i] ELSE r[i - 1] \o first[i]]
             joined == CHOOSE r : P(r)
             T == {j \in Nat : j \in 1 .. k => joined[j] = f[j]}
  <2>1. k \in Nat /\ k # 0 /\ Len(first) = k
    OBVIOUS
  <2> HIDE DEF first
  <2>2. FlattenSeq(first) = joined[k]
    BY <2>1, Zenon DEF FlattenSeq
  <2>3. \A i \in 1 .. k : first[i] = ss[i]
    BY DEF first
  <2>4. P([i \in 1 .. k |-> f[i]])
    <3> DEFINE h == [i \in 1 .. k |-> f[i]]
    <3>1. ASSUME NEW i \in 1 .. k PROVE h[i] = IF i = 1 THEN first[i] ELSE h[i - 1] \o first[i]
      <4>1. i \in 1 .. n /\ h[i] = f[i] /\ (i # 1 => h[i - 1] = f[i - 1])
        BY <2>1
      <4>2. f[i] = IF i = 1 THEN ss[i] ELSE f[i - 1] \o ss[i]
        BY <1>4, <4>1
      <4> QED BY <2>3, <4>1, <4>2, Zenon
    <3> QED BY <3>1
  <2> HIDE DEF P
  <2>5. P(joined)
    BY <2>4
  <2> HIDE DEF joined
  <2>6. ASSUME NEW i \in 1 .. k
        PROVE  joined[i] = IF i = 1 THEN ss[i] ELSE joined[i - 1] \o ss[i]
    BY <2>3, <2>5 DEF P
  <2>7. 0 \in T
    OBVIOUS
  <2>8. ASSUME NEW j \in Nat, j \in T PROVE j + 1 \in T
    <3> SUFFICES ASSUME j + 1 \in 1 .. k PROVE joined[j + 1] = f[j + 1]
      OBVIOUS
    <3>1. j + 1 \in 1 .. n /\ j + 1 - 1 = j /\ (j + 1 # 1 => j \in 1 .. k)
      OBVIOUS
    <3>2. joined[j + 1] = IF j + 1 = 1 THEN ss[j + 1] ELSE joined[j] \o ss[j + 1]
      BY <2>6, <3>1
    <3>3. f[j + 1] = IF j + 1 = 1 THEN ss[j + 1] ELSE f[j] \o ss[j + 1]
      BY <1>4, <3>1
    <3>4. j + 1 # 1 => joined[j] = f[j]
      BY <2>8, <3>1
    <3> QED BY <3>2, <3>3, <3>4, Zenon
  <2> HIDE DEF T
  <2>9. Nat \subseteq T
    BY <2>7, <2>8, Induction
  <2>10. joined[k] = f[k]
    BY <2>1, <2>9 DEF T
  <2> QED BY <2>2, <2>10, Zenon DEF Joined, first
<1> QED BY <1>4, <1>5

LEMMA JoinedNone ==
    ASSUME NEW ss
    PROVE  Joined(ss, 0) = <<>>
<1>1. [i \in 1 .. 0 |-> ss[i]] = <<>> /\ Len(<<>>) = 0
  OBVIOUS
<1> QED BY <1>1 DEF Joined, FlattenSeq

LEMMA JoinedNext ==
    ASSUME NEW S, NEW ss, NEW k \in Nat, ss[k + 1] \in Seq(S)
    PROVE  Joined(ss, k + 1) = Joined(ss, k) \o ss[k + 1]
<1>0. k + 1 \in Nat
  OBVIOUS
<1>1. PICK f : \A j \in 1 .. k + 1 : /\ f[j] = IF j = 1 THEN ss[j] ELSE f[j - 1] \o ss[j]
                                     /\ Joined(ss, j) = f[j]
  BY <1>0, Joining
<1>2. k + 1 \in 1 .. k + 1 /\ k + 1 - 1 = k
  OBVIOUS
<1>3. CASE k = 0
  <2>1. Joined(ss, k + 1) = ss[k + 1]
    BY <1>1, <1>2, <1>3
  <2>2. Joined(ss, k) = <<>>
    BY <1>3, JoinedNone
  <2>3. <<>> \o ss[k + 1] = ss[k + 1]
    BY ConcatEmptySeq
  <2> QED BY <2>1, <2>2, <2>3, Zenon
<1>4. CASE k # 0
  <2>1. k \in 1 .. k + 1 /\ k + 1 # 1
    BY <1>4
  <2>2. f[k + 1] = IF k + 1 = 1 THEN ss[k + 1] ELSE f[k + 1 - 1] \o ss[k + 1]
    BY <1>1, <1>2
  <2>3. Joined(ss, k + 1) = f[k + 1] /\ Joined(ss, k) = f[k]
    BY <1>1, <1>2, <2>1
  <2> QED BY <1>2, <2>1, <2>2, <2>3, Zenon
<1> QED BY <1>3, <1>4

LEMMA JoinedIsSeq ==
    ASSUME NEW S, NEW ss, NEW n \in Nat, \A i \in 1 .. n : ss[i] \in Seq(S)
    PROVE  \A k \in 0 .. n : Joined(ss, k) \in Seq(S)
<1> DEFINE T == {k \in Nat : k <= n => Joined(ss, k) \in Seq(S)}
<1>1. 0 \in T
  <2>1. <<>> \in Seq(S)
    OBVIOUS
  <2> QED BY <2>1, JoinedNone
<1>2. ASSUME NEW k \in Nat, k \in T PROVE k + 1 \in T
  <2> SUFFICES ASSUME k + 1 <= n PROVE Joined(ss, k + 1) \in Seq(S)
    OBVIOUS
  <2>1. Joined(ss, k) \in Seq(S) /\ ss[k + 1] \in Seq(S)
    BY <1>2
  <2>2. Joined(ss, k) \o ss[k + 1] \in Seq(S)
    BY <2>1, ConcatProperties
  <2> QED BY <2>1, <2>2, JoinedNext
<1> HIDE DEF T
<1>3. Nat \subseteq T
  BY <1>1, <1>2, Induction
<1> QED BY <1>3 DEF T

LEMMA TwoJoined ==
    ASSUME NEW S, NEW s \in Seq(S), NEW t \in Seq(S), NEW u, u = s \o t
    PROVE  /\ Len(u) = Len(s) + Len(t) /\ Len(s) \in Nat /\ Len(t) \in Nat
           /\ \A i \in 1 .. Len(s) + Len(t) :
                    u[i] = IF i <= Len(s) THEN s[i] ELSE t[i - Len(s)]
  BY ConcatProperties, LenProperties

\* Each of the sequences is in its place.
LEMMA JoinedHolds ==
    ASSUME NEW S, NEW ss, NEW n \in Nat, \A i \in 1 .. n : ss[i] \in Seq(S),
           NEW k \in 0 .. n - 1
    PROVE  /\ Len(Joined(ss, k + 1)) = Len(Joined(ss, k)) + Len(ss[k + 1])
           /\ Len(Joined(ss, k + 1)) <= Len(Joined(ss, n))
           /\ \A j \in 1 .. Len(ss[k + 1]) :
                    Joined(ss, n)[Len(Joined(ss, k)) + j] = ss[k + 1][j]
<1> DEFINE T == {m \in Nat : k + 1 <= m /\ m <= n =>
                    /\ Len(Joined(ss, k + 1)) <= Len(Joined(ss, m))
                    /\ \A j \in 1 .. Len(ss[k + 1]) :
                            Joined(ss, m)[Len(Joined(ss, k)) + j] = ss[k + 1][j]}
<1>0. k \in Nat /\ k \in 0 .. n /\ k + 1 \in 0 .. n /\ n \in 0 .. n /\ ss[k + 1] \in Seq(S)
  OBVIOUS
<1>1. Joined(ss, k) \in Seq(S) /\ Joined(ss, k + 1) = Joined(ss, k) \o ss[k + 1]
  BY <1>0, JoinedIsSeq, JoinedNext
<1>2. /\ Len(Joined(ss, k + 1)) = Len(Joined(ss, k)) + Len(ss[k + 1])
      /\ Len(Joined(ss, k)) \in Nat /\ Len(ss[k + 1]) \in Nat
      /\ \A i \in 1 .. Len(Joined(ss, k)) + Len(ss[k + 1]) :
            Joined(ss, k + 1)[i] = IF i <= Len(Joined(ss, k)) THEN Joined(ss, k)[i]
                                   ELSE ss[k + 1][i - Len(Joined(ss, k))]
  BY <1>0, <1>1, TwoJoined, ZenonT(60)
<1>3. 0 \in T
  BY <1>0
<1>4. ASSUME NEW m \in Nat, m \in T PROVE m + 1 \in T
  <2> SUFFICES ASSUME k + 1 <= m + 1, m + 1 <= n
               PROVE  /\ Len(Joined(ss, k + 1)) <= Len(Joined(ss, m + 1))
                      /\ \A j \in 1 .. Len(ss[k + 1]) :
                            Joined(ss, m + 1)[Len(Joined(ss, k)) + j] = ss[k + 1][j]
    OBVIOUS
  <2>1. CASE k + 1 = m + 1
    <3>1. \A j \in 1 .. Len(ss[k + 1]) :
            Joined(ss, k + 1)[Len(Joined(ss, k)) + j] = ss[k + 1][j]
      <4> SUFFICES ASSUME NEW j \in 1 .. Len(ss[k + 1])
                   PROVE  Joined(ss, k + 1)[Len(Joined(ss, k)) + j] = ss[k + 1][j]
        OBVIOUS
      <4>1. /\ Len(Joined(ss, k)) + j \in 1 .. Len(Joined(ss, k)) + Len(ss[k + 1])
            /\ ~(Len(Joined(ss, k)) + j <= Len(Joined(ss, k)))
            /\ Len(Joined(ss, k)) + j - Len(Joined(ss, k)) = j
        BY <1>2
      <4> QED BY <1>2, <4>1
    <3>2. Len(Joined(ss, k + 1)) <= Len(Joined(ss, k + 1))
      BY <1>2
    <3> QED BY <2>1, <3>1, <3>2, Zenon
  <2>2. CASE k + 1 # m + 1
    <3>1. k + 1 <= m /\ m <= n /\ m \in 0 .. n /\ m + 1 \in 1 .. n
      BY <1>0, <2>2
    <3>2. /\ Len(Joined(ss, k + 1)) <= Len(Joined(ss, m))
          /\ \A j \in 1 .. Len(ss[k + 1]) : Joined(ss, m)[Len(Joined(ss, k)) + j] = ss[k + 1][j]
      BY <1>4, <3>1
    <3>3. Joined(ss, m) \in Seq(S) /\ ss[m + 1] \in Seq(S)
      BY <3>1, JoinedIsSeq
    <3>4. Joined(ss, m + 1) = Joined(ss, m) \o ss[m + 1]
      BY <3>3, JoinedNext
    <3>5. /\ Len(Joined(ss, m + 1)) = Len(Joined(ss, m)) + Len(ss[m + 1])
          /\ Len(Joined(ss, m)) \in Nat /\ Len(ss[m + 1]) \in Nat
          /\ \A i \in 1 .. Len(Joined(ss, m)) + Len(ss[m + 1]) :
                Joined(ss, m + 1)[i] = IF i <= Len(Joined(ss, m)) THEN Joined(ss, m)[i]
                                       ELSE ss[m + 1][i - Len(Joined(ss, m))]
      BY <3>3, <3>4, TwoJoined
    <3>6. \A j \in 1 .. Len(ss[k + 1]) :
            Joined(ss, m + 1)[Len(Joined(ss, k)) + j] = ss[k + 1][j]
      <4> SUFFICES ASSUME NEW j \in 1 .. Len(ss[k + 1])
                   PROVE  Joined(ss, m + 1)[Len(Joined(ss, k)) + j] = ss[k + 1][j]
        OBVIOUS
      <4>1. /\ Len(Joined(ss, k)) + j \in 1 .. Len(Joined(ss, m)) + Len(ss[m + 1])
            /\ Len(Joined(ss, k)) + j <= Len(Joined(ss, m))
        <5>1. PICK a \in Nat, b \in Nat, c \in Nat, d \in Nat :
                /\ a = Len(Joined(ss, k)) /\ b = Len(ss[k + 1])
                /\ c = Len(Joined(ss, m)) /\ d = Len(ss[m + 1])
          BY <1>2, <3>5
        <5>2. a + b <= c /\ j \in 1 .. b
          BY <1>2, <3>2, <5>1
        <5>3. a + j \in 1 .. c + d /\ a + j <= c
          BY <5>2
        <5> QED BY <5>1, <5>3, Zenon
      <4> QED BY <3>2, <3>5, <4>1
    <3>7. Len(Joined(ss, k + 1)) <= Len(Joined(ss, m + 1))
      BY <1>2, <3>2, <3>5
    <3> QED BY <3>6, <3>7
  <2> QED BY <2>1, <2>2
<1> HIDE DEF T
<1>5. n \in T
  BY <1>3, <1>4, Induction
<1>6. k + 1 <= n /\ n <= n
  BY <1>0
<1> QED BY <1>2, <1>5, <1>6 DEF T

-----------------------------------------------------------------------------
(* Where the files of an archive lie.                                      *)

LEMMA FilledIs ==
    ASSUME NEW n \in Nat
    PROVE  Filled(n) \in Nat /\ n <= Filled(n) /\ Aligned4(n) = Filled(n)
<1>1. (-n) % 4 \in 0 .. 3
  OBVIOUS
<1>2. ((n + 3) \div 4) * 4 = n + ((-n) % 4)
  OBVIOUS
<1> QED BY <1>1, <1>2 DEF Filled, Aligned4

\* All cells of all files.
AllCells == UNION {Range(CellsOf(e)) : e \in Entries \cup {Trailer}}

\* How many cells come before the data of a file.
HeadLength(e) == Filled(HEADER + e.namesize)

LEMMA EntryIs ==
    ASSUME NEW e \in Entries \cup {Trailer}
    PROVE  /\ HEADER + e.namesize \in Nat \ {0} /\ e.namesize \in Nat
           /\ e.data \in Seq(Range(e.data)) /\ Len(e.data) \in Nat
           /\ Header(e).name = e.name /\ Header(e).namesize = e.namesize
           /\ Header(e).filesize = Len(e.data)
<1>1. HEADER \in Nat \ {0}
  BY BootAssumption DEF BootAssumption
<1>2. e.namesize \in Nat \ {0} /\ e.data \in Seq(Range(e.data))
  <2>1. CASE e \in Entries
    BY <2>1, BootAssumption DEF BootAssumption
  <2>2. CASE e = Trailer
    BY <2>2 DEF Trailer, Range
  <2> QED BY <2>1, <2>2
<1>3. Len(e.data) \in Nat
  BY <1>2, LenProperties
<1> QED BY <1>1, <1>2, <1>3 DEF Header

LEMMA CellsOfIs ==
    ASSUME NEW e \in Entries \cup {Trailer}
    PROVE  /\ CellsOf(e) \in Seq(AllCells)
           /\ HeadLength(e) \in Nat /\ HeadLength(e) > 0
           /\ Len(CellsOf(e)) = HeadLength(e) + Filled(Len(e.data))
           /\ HeadLength(e) + Len(e.data) <= Len(CellsOf(e))
           /\ CellsOf(e)[1] = Header(e)
           /\ \A i \in 1 .. Len(e.data) : CellsOf(e)[HeadLength(e) + i] = e.data[i]
<1>1. PICK head \in Nat : head = HeadLength(e) /\ head > 0
  <2>1. HEADER + e.namesize \in Nat \ {0}
    BY EntryIs
  <2>2. /\ Filled(HEADER + e.namesize) \in Nat
        /\ HEADER + e.namesize <= Filled(HEADER + e.namesize)
    BY <2>1, FilledIs
  <2> QED BY <2>1, <2>2 DEF HeadLength
<1>2. PICK long \in Nat : long = Len(e.data)
  BY EntryIs
<1>3. PICK fill \in Nat : fill = Filled(Len(e.data)) /\ long <= fill
  BY <1>2, FilledIs
<1>4. CellsOf(e) = [i \in 1 .. head + fill |->
                        IF i = 1 THEN Header(e)
                        ELSE IF i > head /\ i <= head + long THEN e.data[i - head]
                        ELSE Nul]
  BY <1>1, <1>2, <1>3 DEF CellsOf, HeadLength
<1>5. Len(CellsOf(e)) = head + fill /\ head + fill \in Nat
  BY <1>4
<1>6. CellsOf(e) \in Seq(AllCells)
  <2>1. \A i \in 1 .. head + fill : CellsOf(e)[i] \in AllCells
    BY <1>4 DEF AllCells, Range
  <2>2. CellsOf(e) = [i \in 1 .. head + fill |-> CellsOf(e)[i]]
    BY <1>4
  <2> QED BY <1>5, <2>1, <2>2
<1>7. CellsOf(e)[1] = Header(e)
  BY <1>1, <1>4
<1>8. \A i \in 1 .. long : CellsOf(e)[head + i] = e.data[i]
  BY <1>1, <1>3, <1>4
<1> QED BY <1>1, <1>2, <1>3, <1>5, <1>6, <1>7, <1>8

\* The files of an archive, and its trailer, as cells.
Parts(m) == [i \in 1 .. Len(m.entries) + 1 |->
                CellsOf(IF i > Len(m.entries) THEN Trailer ELSE m.entries[i])]

\* File k + 1 of an archive, or what follows its last.
FileAt(m, k) == IF k = Len(m.entries) THEN Trailer ELSE m.entries[k + 1]

\* The address at which file k + 1 of an archive begins.
Begin(m, k) == m.start + Len(Joined(Parts(m), k))

IsArchive(m) == m.start \in Nat /\ m.entries \in Seq(Entries)

LEMMA PartsAre ==
    ASSUME NEW m, IsArchive(m)
    PROVE  /\ Len(m.entries) \in Nat
           /\ \A i \in 1 .. Len(m.entries) : m.entries[i] \in Entries
           /\ \A i \in 1 .. Len(m.entries) + 1 : Parts(m)[i] \in Seq(AllCells)
           /\ \A i \in 1 .. Len(m.entries) : Parts(m)[i] = CellsOf(m.entries[i])
           /\ Parts(m)[Len(m.entries) + 1] = CellsOf(Trailer)
           /\ Archive(m) = Joined(Parts(m), Len(m.entries) + 1)
<1>1. /\ Len(m.entries) \in Nat /\ \A i \in 1 .. Len(m.entries) : m.entries[i] \in Entries
  BY ElementOfSeq, LenProperties DEF IsArchive
<1>2. PICK n \in Nat : n = Len(m.entries)
  BY <1>1
<1>3. /\ \A i \in 1 .. n : Parts(m)[i] = CellsOf(m.entries[i])
      /\ Parts(m)[n + 1] = CellsOf(Trailer)
  BY <1>2 DEF Parts
<1>4. \A i \in 1 .. n + 1 : Parts(m)[i] \in Seq(AllCells)
  <2> SUFFICES ASSUME NEW i \in 1 .. n + 1 PROVE Parts(m)[i] \in Seq(AllCells)
    OBVIOUS
  <2>1. CASE i = n + 1
    <3>1. CellsOf(Trailer) \in Seq(AllCells)
      BY CellsOfIs
    <3> QED BY <1>3, <2>1, <3>1
  <2>2. CASE i \in 1 .. n
    BY <1>1, <1>2, <1>3, <2>2, CellsOfIs
  <2> QED BY <2>1, <2>2
<1>5. Parts(m) = [i \in 1 .. n + 1 |-> Parts(m)[i]]
  BY <1>2 DEF Parts
<1>6. Archive(m) = Joined(Parts(m), n + 1)
  BY <1>2, <1>5, Zenon DEF Archive, Joined, Parts
<1> QED BY <1>1, <1>2, <1>3, <1>4, <1>6

LEMMA ArchiveIs ==
    ASSUME NEW m, IsArchive(m), NEW k \in 0 .. Len(m.entries),
           NEW e, e = FileAt(m, k)
    PROVE  /\ e \in Entries \cup {Trailer}
           /\ Begin(m, k) \in Nat /\ m.start <= Begin(m, k)
           /\ Begin(m, k + 1) = Begin(m, k) + Len(CellsOf(e))
           /\ Begin(m, k + 1) <= EndOf(m) /\ EndOf(m) \in Nat
           /\ \A j \in 1 .. Len(CellsOf(e)) :
                    Archive(m)[Begin(m, k) - m.start + j] = CellsOf(e)[j]
<1>1. PICK n \in Nat : n = Len(m.entries)
  BY PartsAre
<1>2. e \in Entries \cup {Trailer} /\ Parts(m)[k + 1] = CellsOf(e)
  <2>1. CASE k = n
    BY <1>1, <2>1, PartsAre DEF FileAt
  <2>2. CASE k # n
    <3>1. k + 1 \in 1 .. n /\ e = m.entries[k + 1]
      BY <1>1, <2>2 DEF FileAt
    <3> QED BY <1>1, <3>1, PartsAre
  <2> QED BY <2>1, <2>2
<1>3. n + 1 \in Nat /\ k \in 0 .. n + 1 - 1 /\ k \in 0 .. n + 1 /\ k + 1 \in 0 .. n + 1
      /\ n + 1 \in 0 .. n + 1 /\ m.start \in Nat
  BY <1>1 DEF IsArchive
<1>4. \A i \in 1 .. n + 1 : Parts(m)[i] \in Seq(AllCells)
  BY <1>1, PartsAre
<1>5. /\ Len(Joined(Parts(m), k + 1)) = Len(Joined(Parts(m), k)) + Len(CellsOf(e))
      /\ Len(Joined(Parts(m), k + 1)) <= Len(Joined(Parts(m), n + 1))
      /\ \A j \in 1 .. Len(CellsOf(e)) :
            Joined(Parts(m), n + 1)[Len(Joined(Parts(m), k)) + j] = CellsOf(e)[j]
  BY <1>2, <1>3, <1>4, JoinedHolds, SMTT(60)
<1>6. \A j \in 0 .. n + 1 : Len(Joined(Parts(m), j)) \in Nat
  BY <1>3, <1>4, JoinedIsSeq, LenProperties
<1>7. Archive(m) = Joined(Parts(m), n + 1)
  BY <1>1, PartsAre
<1>8. /\ Len(Joined(Parts(m), k)) \in Nat /\ Len(Joined(Parts(m), k + 1)) \in Nat
      /\ Len(Joined(Parts(m), n + 1)) \in Nat
  BY <1>3, <1>6
<1>9. PICK x \in Nat : x = Len(Joined(Parts(m), k))
  BY <1>8
<1>10. PICK y \in Nat : y = Len(CellsOf(e))
  BY <1>2, CellsOfIs, LenProperties
<1>11. Begin(m, k) = m.start + x /\ Begin(m, k + 1) = m.start + (x + y)
  BY <1>5, <1>9, <1>10 DEF Begin
<1>12. EndOf(m) = m.start + Len(Joined(Parts(m), n + 1))
  BY <1>7 DEF EndOf
<1>13. Begin(m, k) - m.start = x
  BY <1>3, <1>11
<1>14. \A j \in 1 .. Len(CellsOf(e)) : Archive(m)[Begin(m, k) - m.start + j] = CellsOf(e)[j]
  BY <1>5, <1>7, <1>9, <1>13, Zenon
<1>15. /\ Begin(m, k) \in Nat /\ m.start <= Begin(m, k)
       /\ Begin(m, k + 1) = Begin(m, k) + Len(CellsOf(e))
       /\ Begin(m, k + 1) <= EndOf(m) /\ EndOf(m) \in Nat
  <2>1. PICK z \in Nat : z = Len(Joined(Parts(m), n + 1))
    BY <1>8
  <2>2. x + y <= z
    BY <1>5, <1>9, <1>10, <2>1
  <2>3. PICK start \in Nat : start = m.start
    BY <1>3
  <2>4. /\ Begin(m, k) = start + x /\ Begin(m, k + 1) = start + (x + y)
        /\ EndOf(m) = start + z
    BY <1>11, <1>12, <2>1, <2>3
  <2>5. /\ start + x \in Nat /\ start <= start + x /\ start + z \in Nat
        /\ start + (x + y) <= start + z /\ start + (x + y) = start + x + y
    BY <2>2
  <2> QED BY <1>10, <2>3, <2>4, <2>5, Zenon
<1> QED BY <1>2, <1>14, <1>15

LEMMA ArchivesAre ==
    ASSUME NEW ms \in Archives \cup {<<>>}
    PROVE  /\ Len(ms) \in Nat /\ DOMAIN ms = 1 .. Len(ms)
           /\ \A t \in DOMAIN ms : IsArchive(ms[t])
           /\ Range(ms) = {ms[t] : t \in DOMAIN ms}
           /\ \A t, u \in DOMAIN ms :
                t < u => EndOf(ms[t]) <= ms[u].start \/ EndOf(ms[u]) <= ms[t].start
<1>1. CASE ms = <<>>
  BY <1>1 DEF Range
<1>2. CASE ms \in Archives
  <2>1. ms \in Seq([start : Nat, entries : Seq(Entries)])
    BY <1>2, BootAssumption DEF BootAssumption
  <2>2. Len(ms) \in Nat /\ DOMAIN ms = 1 .. Len(ms)
    BY <2>1, LenProperties
  <2>3. \A t \in DOMAIN ms : ms[t] \in [start : Nat, entries : Seq(Entries)]
    BY <2>1, <2>2, ElementOfSeq
  <2>4. \A t \in DOMAIN ms : IsArchive(ms[t])
    BY <2>3 DEF IsArchive
  <2>5. \A t, u \in DOMAIN ms :
            t < u => EndOf(ms[t]) <= ms[u].start \/ EndOf(ms[u]) <= ms[t].start
    BY <1>2, BootAssumption DEF BootAssumption
  <2> QED BY <2>2, <2>4, <2>5 DEF Range
<1> QED BY <1>1, <1>2

\* An address of an archive is one of no other archive.
LEMMA PlacedIs ==
    ASSUME NEW ms \in Archives \cup {<<>>}, NEW t \in DOMAIN ms, NEW m, m = ms[t],
           NEW x \in m.start .. EndOf(m) - 1
    PROVE  x \in DOMAIN Placed(ms) /\ Placed(ms)[x] = Archive(m)[x - m.start + 1]
<1>1. \A u \in DOMAIN ms : ms[u].start \in Nat /\ EndOf(ms[u]) \in Nat
  <2> SUFFICES ASSUME NEW u \in DOMAIN ms PROVE ms[u].start \in Nat /\ EndOf(ms[u]) \in Nat
    OBVIOUS
  <2>1. IsArchive(ms[u])
    BY ArchivesAre
  <2>2. 0 \in 0 .. Len(ms[u].entries)
    BY <2>1, PartsAre
  <2> QED BY <2>1, <2>2, ArchiveIs DEF IsArchive
<1>2. \A u \in DOMAIN ms : x \in ms[u].start .. EndOf(ms[u]) - 1 => u = t
  <2> SUFFICES ASSUME NEW u \in DOMAIN ms, x \in ms[u].start .. EndOf(ms[u]) - 1, u # t
               PROVE  FALSE
    OBVIOUS
  <2>1. t \in Int /\ u \in Int
    BY ArchivesAre
  <2>2. /\ x \in Int /\ x < EndOf(ms[t]) /\ x < EndOf(ms[u])
        /\ ms[t].start <= x /\ ms[u].start <= x
    BY <1>1
  <2>3. EndOf(ms[t]) <= ms[u].start \/ EndOf(ms[u]) <= ms[t].start
    BY <2>1, ArchivesAre
  <2> QED BY <1>1, <2>2, <2>3
<1>3. Range(ms) = {ms[u] : u \in DOMAIN ms}
  BY ArchivesAre
<1>4. \A a \in Range(ms) : x \in a.start .. EndOf(a) - 1 => a = m
  BY <1>2, <1>3
<1>5. m \in Range(ms)
  BY <1>3
<1>6. (CHOOSE a \in Range(ms) : x \in a.start .. EndOf(a) - 1) = m
  BY <1>4, <1>5
<1>7. x \in UNION {a.start .. EndOf(a) - 1 : a \in Range(ms)}
  BY <1>5
<1> QED BY <1>6, <1>7 DEF Placed

\* A file of an archive in memory: its header, its data, and where the next file begins.
FilePlaced(ms, e, lies, next) ==
    /\ e \in Entries \cup {Trailer}
    /\ lies \in Nat /\ lies \in DOMAIN Placed(ms) /\ Placed(ms)[lies] = Header(e)
    /\ HeadLength(e) \in Nat /\ HeadLength(e) > 0
    /\ \A i \in 1 .. Len(e.data) :
            /\ lies + HeadLength(e) + i - 1 \in DOMAIN Placed(ms)
            /\ Placed(ms)[lies + HeadLength(e) + i - 1] = e.data[i]
    /\ next = lies + HeadLength(e) + Filled(Len(e.data))

LEMMA FileIsPlaced ==
    ASSUME NEW ms \in Archives \cup {<<>>}, NEW t \in DOMAIN ms, NEW m, m = ms[t],
           NEW k \in 0 .. Len(m.entries),
           NEW e, e = FileAt(m, k),
           NEW lies, lies = Begin(m, k)
    PROVE  FilePlaced(ms, e, lies, Begin(m, k + 1)) /\ lies < EndOf(m)
<1>1. IsArchive(m)
  BY ArchivesAre
<1>2. /\ e \in Entries \cup {Trailer}
      /\ lies \in Nat /\ m.start <= lies /\ m.start \in Nat
      /\ Begin(m, k + 1) = lies + Len(CellsOf(e))
      /\ Begin(m, k + 1) <= EndOf(m) /\ EndOf(m) \in Nat
      /\ \A j \in 1 .. Len(CellsOf(e)) : Archive(m)[lies - m.start + j] = CellsOf(e)[j]
  <2>1. /\ e \in Entries \cup {Trailer}
        /\ Begin(m, k) \in Nat /\ m.start <= Begin(m, k)
        /\ Begin(m, k + 1) = Begin(m, k) + Len(CellsOf(e))
        /\ Begin(m, k + 1) <= EndOf(m) /\ EndOf(m) \in Nat
        /\ \A j \in 1 .. Len(CellsOf(e)) :
                Archive(m)[Begin(m, k) - m.start + j] = CellsOf(e)[j]
    BY <1>1, ArchiveIs
  <2> QED BY <1>1, <2>1, Zenon DEF IsArchive
<1>3. PICK head \in Nat : head = HeadLength(e) /\ head > 0
  BY <1>2, CellsOfIs
<1>4. PICK long \in Nat : long = Len(e.data)
  BY <1>2, EntryIs
<1>5. PICK all \in Nat : /\ all = Len(CellsOf(e)) /\ all = head + Filled(Len(e.data))
                         /\ head + long <= all
  BY <1>2, <1>3, <1>4, CellsOfIs, LenProperties
<1>6. ASSUME NEW j \in 1 .. all
      PROVE  lies + j - 1 \in DOMAIN Placed(ms) /\ Placed(ms)[lies + j - 1] = CellsOf(e)[j]
  <2>0. PICK x : x = lies + j - 1
    OBVIOUS
  <2>1. x \in m.start .. EndOf(m) - 1
    <3>1. PICK next \in Nat : next = Begin(m, k + 1) /\ next = lies + all /\ next <= EndOf(m)
      BY <1>2, <1>5
    <3>2. PICK start \in Nat, end \in Nat : start = m.start /\ end = EndOf(m)
      BY <1>2
    <3>3. start <= lies /\ lies + all <= end
      BY <1>2, <3>1, <3>2
    <3>4. x \in start .. end - 1
      BY <1>2, <2>0, <3>3, SMTT(60)
    <3> QED BY <3>2, <3>4
  <2>2. x \in DOMAIN Placed(ms) /\ Placed(ms)[x] = Archive(m)[x - m.start + 1]
    BY <2>1, PlacedIs
  <2>3. x - m.start + 1 = lies - m.start + j
    BY <1>2, <2>0
  <2>4. Archive(m)[lies - m.start + j] = CellsOf(e)[j]
    BY <1>2, <1>5
  <2> QED BY <2>0, <2>2, <2>3, <2>4, Zenon
<1>7. /\ CellsOf(e)[1] = Header(e)
      /\ \A i \in 1 .. long : CellsOf(e)[head + i] = e.data[i]
  BY <1>2, <1>3, <1>4, CellsOfIs
<1>8. lies < EndOf(m)
  BY <1>2, <1>3, <1>5
<1>9. lies \in DOMAIN Placed(ms) /\ Placed(ms)[lies] = Header(e)
  <2>1. 1 \in 1 .. all /\ lies + 1 - 1 = lies
    BY <1>2, <1>3, <1>5
  <2> QED BY <1>6, <1>7, <2>1
<1>10. ASSUME NEW i \in 1 .. long
       PROVE  /\ lies + head + i - 1 \in DOMAIN Placed(ms)
              /\ Placed(ms)[lies + head + i - 1] = e.data[i]
  <2>1. head + i \in 1 .. all /\ lies + (head + i) - 1 = lies + head + i - 1
    BY <1>2, <1>5, SMTT(60)
  <2>2. /\ lies + (head + i) - 1 \in DOMAIN Placed(ms)
        /\ Placed(ms)[lies + (head + i) - 1] = CellsOf(e)[head + i]
    BY <1>6, <2>1
  <2> QED BY <1>7, <2>1, <2>2
<1>11. Begin(m, k + 1) = lies + HeadLength(e) + Filled(Len(e.data))
  <2>1. PICK fill \in Nat : fill = Filled(Len(e.data))
    BY <1>4, FilledIs
  <2>2. Begin(m, k + 1) = lies + (head + fill) /\ lies + (head + fill) = lies + head + fill
    BY <1>2, <1>5, <2>1
  <2> QED BY <1>3, <2>1, <2>2
<1> QED BY <1>1, <1>2, <1>3, <1>4, <1>8, <1>9, <1>10, <1>11 DEF FilePlaced

-----------------------------------------------------------------------------
(* The members of a sequence that are in a set.                            *)

Chosen(es, T) == FlattenSeq([i \in DOMAIN es |-> IF es[i] \in T THEN <<es[i]>> ELSE <<>>])

\* What is joined: each member that is in the set.
Picks(es, T) == [i \in 1 .. Len(es) |-> IF es[i] \in T THEN <<es[i]>> ELSE <<>>]

LEMMA ChosenIs ==
    ASSUME NEW S, NEW es \in Seq(S), NEW T, NEW n \in Nat, n <= Len(es),
           NEW first, DOMAIN first = 1 .. n, \A i \in 1 .. n : first[i] = es[i]
    PROVE  Chosen(first, T) = Joined(Picks(es, T), n)
<1>1. \A i \in 1 .. n : i \in 1 .. Len(es)
  BY LenProperties
<1>2. [i \in DOMAIN first |-> IF first[i] \in T THEN <<first[i]>> ELSE <<>>] =
        [i \in 1 .. n |-> Picks(es, T)[i]]
  BY <1>1 DEF Picks
<1> QED BY <1>2, Zenon DEF Chosen, Joined

LEMMA PicksAre ==
    ASSUME NEW S, NEW es \in Seq(S), NEW T
    PROVE  \A i \in 1 .. Len(es) : Picks(es, T)[i] \in Seq(S \cap T)
<1> SUFFICES ASSUME NEW i \in 1 .. Len(es) PROVE Picks(es, T)[i] \in Seq(S \cap T)
  OBVIOUS
<1>1. es[i] \in S
  BY ElementOfSeq
<1>2. <<>> \in Seq(S \cap T)
  OBVIOUS
<1>3. CASE es[i] \in T
  <2>1. <<es[i]>> \in Seq(S \cap T)
    BY <1>1, <1>3
  <2> QED BY <1>3, <2>1 DEF Picks
<1> QED BY <1>2, <1>3 DEF Picks

LEMMA ChosenIsSeq ==
    ASSUME NEW S, NEW es \in Seq(S), NEW T
    PROVE  Chosen(es, T) \in Seq(S \cap T)
<1>1. /\ Len(es) \in Nat /\ Len(es) <= Len(es) /\ DOMAIN es = 1 .. Len(es)
      /\ Len(es) \in 0 .. Len(es)
  OBVIOUS
<1>2. Chosen(es, T) = Joined(Picks(es, T), Len(es))
  BY <1>1, ChosenIs
<1>3. \A i \in 1 .. Len(es) : Picks(es, T)[i] \in Seq(S \cap T)
  BY PicksAre
<1> QED BY <1>1, <1>2, <1>3, JoinedIsSeq

LEMMA ChosenNone ==
    ASSUME NEW T
    PROVE  Chosen(<<>>, T) = <<>>
<1>1. /\ [i \in DOMAIN <<>> |-> IF <<>>[i] \in T THEN <<<<>>[i]>> ELSE <<>>] = <<>>
      /\ Len(<<>>) = 0
  OBVIOUS
<1> QED BY <1>1 DEF Chosen, FlattenSeq

LEMMA ChosenNext ==
    ASSUME NEW S, NEW es \in Seq(S), NEW e \in S, NEW T
    PROVE  Chosen(Append(es, e), T) =
                IF e \in T THEN Append(Chosen(es, T), e) ELSE Chosen(es, T)
<1>1. PICK n \in Nat : n = Len(es) /\ DOMAIN es = 1 .. n
  BY LenProperties
<1>2. PICK more : more = Append(es, e)
  OBVIOUS
<1>3. /\ more \in Seq(S) /\ Len(more) = n + 1 /\ DOMAIN more = 1 .. n + 1
      /\ \A i \in 1 .. n : more[i] = es[i]
      /\ more[n + 1] = e
  BY <1>1, <1>2, AppendProperties
<1>4. n <= Len(more) /\ n + 1 <= Len(more) /\ n + 1 \in Nat /\ n + 1 \in 1 .. Len(more)
  BY <1>3
<1>5. Chosen(es, T) = Joined(Picks(more, T), n)
  BY <1>1, <1>3, <1>4, ChosenIs
<1>6. Chosen(more, T) = Joined(Picks(more, T), n + 1)
  BY <1>3, <1>4, ChosenIs
<1>7. Picks(more, T)[n + 1] = IF e \in T THEN <<e>> ELSE <<>>
  BY <1>3, <1>4 DEF Picks
<1>8. Picks(more, T)[n + 1] \in Seq(S \cap T)
  BY <1>3, <1>4, PicksAre
<1>9. Joined(Picks(more, T), n + 1) = Joined(Picks(more, T), n) \o Picks(more, T)[n + 1]
  BY <1>8, JoinedNext
<1>10. Chosen(es, T) \in Seq(S \cap T)
  BY ChosenIsSeq
<1>11. CASE e \in T
  <2>1. Append(Chosen(es, T), e) = Chosen(es, T) \o <<e>>
    <3>1. e \in S \cap T
      BY <1>11
    <3> QED BY <1>10, <3>1, AppendIsConcat
  <2> QED BY <1>2, <1>5, <1>6, <1>7, <1>9, <1>11, <2>1, Zenon
<1>12. CASE e \notin T
  <2>1. Chosen(es, T) \o <<>> = Chosen(es, T)
    BY <1>10, ConcatEmptySeq
  <2> QED BY <1>2, <1>5, <1>6, <1>7, <1>9, <1>12, <2>1, Zenon
<1> QED BY <1>11, <1>12

InitEntries == {e \in Entries : e.name = InitName}
FileEntries == {e \in Entries : e.data # <<>> /\ e.name \notin DotNames}

LEMMA ChosenOf ==
    ASSUME NEW es \in Seq(Entries)
    PROVE  Inits(es) = Chosen(es, InitEntries) /\ FilesOf(es) = Chosen(es, FileEntries)
<1>1. \A i \in DOMAIN es : es[i] \in Entries
  BY ElementOfSeq
<1>2. [i \in DOMAIN es |-> IF es[i].name = InitName THEN <<es[i]>> ELSE <<>>] =
        [i \in DOMAIN es |-> IF es[i] \in InitEntries THEN <<es[i]>> ELSE <<>>]
  BY <1>1 DEF InitEntries
<1>3. [i \in DOMAIN es |->
            IF es[i].data # <<>> /\ es[i].name \notin DotNames THEN <<es[i]>> ELSE <<>>] =
        [i \in DOMAIN es |-> IF es[i] \in FileEntries THEN <<es[i]>> ELSE <<>>]
  BY <1>1 DEF FileEntries
<1> QED BY <1>2, <1>3, Zenon DEF Inits, FilesOf, Chosen

-----------------------------------------------------------------------------
(* What is unpacked.                                                       *)

\* The files that are in the archives.
Present(ms) == UNION {Range(ms[t].entries) : t \in DOMAIN ms}

\* The files of each archive.
Lists(ms) == [t \in DOMAIN ms |-> ms[t].entries]

\* The files of the first t archives.
Whole(ms, t) == Joined(Lists(ms), t)

\* These, and the first k files of the next archive.
Seen(ms, t, k) == Whole(ms, t) \o SubSeq(ms[t + 1].entries, 1, k)

LEMMA PresentIn ==
    ASSUME NEW ms \in Archives \cup {<<>>}
    PROVE  /\ Present(ms) \subseteq Entries
           /\ \A t \in DOMAIN ms : ms[t].entries \in Seq(Present(ms))
<1>1. ASSUME NEW t \in DOMAIN ms
      PROVE  /\ Range(ms[t].entries) \subseteq Entries
             /\ Range(ms[t].entries) \subseteq Present(ms)
             /\ ms[t].entries \in Seq(Present(ms))
  <2>1. ms[t].entries \in Seq(Entries)
    BY ArchivesAre DEF IsArchive
  <2>2. Range(ms[t].entries) \subseteq Present(ms)
    BY DEF Present
  <2>3. \A i \in 1 .. Len(ms[t].entries) :
            ms[t].entries[i] \in Entries /\ ms[t].entries[i] \in Range(ms[t].entries)
    BY <2>1, ElementOfSeq DEF Range
  <2>4. ms[t].entries \in Seq(Present(ms))
    BY <2>1, <2>2, <2>3, SeqMonotonic
  <2>5. Range(ms[t].entries) \subseteq Entries
    BY <2>1, ElementOfSeq DEF Range
  <2> QED BY <2>2, <2>4, <2>5
<1> QED BY <1>1 DEF Present

LEMMA WholeIs ==
    ASSUME NEW ms \in Archives \cup {<<>>}
    PROVE  /\ Whole(ms, 0) = <<>>
           /\ \A t \in 0 .. Len(ms) : Whole(ms, t) \in Seq(Present(ms))
           /\ FlattenSeq(Lists(ms)) = Whole(ms, Len(ms))
<1>1. PICK n \in Nat : n = Len(ms) /\ DOMAIN ms = 1 .. n
  BY ArchivesAre
<1>2. \A t \in 1 .. n : Lists(ms)[t] \in Seq(Present(ms))
  BY <1>1, PresentIn DEF Lists
<1>3. Lists(ms) = [t \in 1 .. n |-> Lists(ms)[t]]
  BY <1>1 DEF Lists
<1>4. Whole(ms, 0) = <<>>
  BY JoinedNone DEF Whole
<1>5. \A t \in 0 .. n : Whole(ms, t) \in Seq(Present(ms))
  BY <1>2, JoinedIsSeq DEF Whole
<1>6. FlattenSeq(Lists(ms)) = Whole(ms, n)
  BY <1>3, Zenon DEF Whole, Joined
<1> QED BY <1>1, <1>4, <1>5, <1>6

LEMMA SeenIs ==
    ASSUME NEW ms \in Archives \cup {<<>>}, NEW t \in 0 .. Len(ms) - 1,
           NEW m, m = ms[t + 1]
    PROVE  /\ Len(m.entries) \in Nat
           /\ Seen(ms, t, 0) = Whole(ms, t)
           /\ Seen(ms, t, Len(m.entries)) = Whole(ms, t + 1)
           /\ \A k \in 0 .. Len(m.entries) : Seen(ms, t, k) \in Seq(Present(ms))
           /\ \A k \in 0 .. Len(m.entries) - 1 :
                /\ m.entries[k + 1] \in Present(ms)
                /\ Seen(ms, t, k + 1) = Append(Seen(ms, t, k), m.entries[k + 1])
<1>1. t \in Nat /\ t \in 0 .. Len(ms) /\ t + 1 \in DOMAIN ms /\ Len(ms) \in Nat
  BY ArchivesAre
<1> DEFINE S == Present(ms)
<1>2. PICK s : s = m.entries
  OBVIOUS
<1>3. s \in Seq(S) /\ Len(s) \in Nat
  BY <1>1, <1>2, PresentIn, LenProperties
<1>4. PICK w : w = Whole(ms, t) /\ w \in Seq(S)
  BY <1>1, WholeIs
<1> HIDE DEF S
<1>5. \A k : Seen(ms, t, k) = w \o SubSeq(s, 1, k)
  BY <1>2, <1>4 DEF Seen
<1>6. Seen(ms, t, 0) = w
  <2>1. SubSeq(s, 1, 0) = <<>>
    BY SubSeqEmpty
  <2>2. w \o <<>> = w
    BY <1>4, ConcatEmptySeq
  <2> QED BY <1>5, <2>1, <2>2, Zenon
<1>7. Seen(ms, t, Len(s)) = Whole(ms, t + 1)
  <2>1. SubSeq(s, 1, Len(s)) = s
    BY <1>3, SubSeqFull
  <2>2. Lists(ms)[t + 1] = s
    BY <1>1, <1>2 DEF Lists
  <2>3. Joined(Lists(ms), t + 1) = Joined(Lists(ms), t) \o Lists(ms)[t + 1]
    BY <1>1, <1>3, <2>2, JoinedNext
  <2> QED BY <1>4, <1>5, <2>1, <2>2, <2>3, Zenon DEF Whole
<1>8. ASSUME NEW k \in 0 .. Len(s)
      PROVE  SubSeq(s, 1, k) \in Seq(S) /\ Seen(ms, t, k) \in Seq(S)
  <2>1. SubSeq(s, 1, k) \in Seq(S)
    BY <1>3, FirstOf
  <2> QED BY <1>4, <1>5, <2>1, ConcatProperties
<1>9. ASSUME NEW k \in 0 .. Len(s) - 1
      PROVE  s[k + 1] \in S /\ Seen(ms, t, k + 1) = Append(Seen(ms, t, k), s[k + 1])
  <2>1. /\ k \in 0 .. Len(s) /\ k + 1 \in 1 .. Len(s) /\ k + 1 \in 0 .. Len(s)
        /\ 1 \in 1 .. Len(s) + 1
    BY <1>3
  <2>2. s[k + 1] \in S
    BY <1>3, <2>1, ElementOfSeq
  <2>3. SubSeq(s, 1, k + 1) = Append(SubSeq(s, 1, k), s[k + 1])
    <3>1. /\ SubSeq(s, 1, k) \in Seq(S) /\ Len(SubSeq(s, 1, k)) = k
          /\ \A i \in 1 .. k : SubSeq(s, 1, k)[i] = s[i]
      BY <1>3, <2>1, FirstOf
    <3>2. /\ SubSeq(s, 1, k + 1) \in Seq(S) /\ Len(SubSeq(s, 1, k + 1)) = k + 1
          /\ \A i \in 1 .. k + 1 : SubSeq(s, 1, k + 1)[i] = s[i]
      BY <1>3, <2>1, FirstOf
    <3>3. PICK u \in Seq(S) : u = SubSeq(s, 1, k) /\ Len(u) = k /\ \A i \in 1 .. k : u[i] = s[i]
      BY <3>1
    <3>4. PICK v \in Seq(S) : /\ v = SubSeq(s, 1, k + 1) /\ Len(v) = k + 1
                              /\ \A i \in 1 .. k + 1 : v[i] = s[i]
      BY <3>2
    <3>5. /\ Append(u, s[k + 1]) \in Seq(S) /\ Len(Append(u, s[k + 1])) = k + 1
          /\ \A i \in 1 .. k : Append(u, s[k + 1])[i] = u[i]
          /\ Append(u, s[k + 1])[k + 1] = s[k + 1]
      BY <2>2, <3>3, AppendProperties
    <3>6. \A i \in 1 .. k + 1 : v[i] = Append(u, s[k + 1])[i]
      <4> SUFFICES ASSUME NEW i \in 1 .. k + 1 PROVE v[i] = Append(u, s[k + 1])[i]
        OBVIOUS
      <4>1. i \in 1 .. k \/ i = k + 1
        BY <2>1
      <4> QED BY <3>3, <3>4, <3>5, <4>1
    <3>7. v = Append(u, s[k + 1])
      BY <3>4, <3>5, <3>6, SeqEqual
    <3> QED BY <3>3, <3>4, <3>7, Zenon
  <2>4. PICK u \in Seq(S) : u = SubSeq(s, 1, k)
    BY <1>8, <2>1
  <2>5. Append(u, s[k + 1]) = u \o <<s[k + 1]>> /\ <<s[k + 1]>> \in Seq(S)
    BY <2>2, AppendIsConcat
  <2>6. w \o (u \o <<s[k + 1]>>) = (w \o u) \o <<s[k + 1]>>
    BY <1>4, <2>5, ConcatAssociative, SMTT(60)
  <2>7. w \o u \in Seq(S)
    BY <1>4, ConcatProperties
  <2>8. Append(w \o u, s[k + 1]) = (w \o u) \o <<s[k + 1]>>
    BY <2>2, <2>7, AppendIsConcat
  <2> QED BY <1>5, <2>2, <2>3, <2>4, <2>5, <2>6, <2>8, Zenon
<1> QED BY <1>2, <1>3, <1>4, <1>6, <1>7, <1>8, <1>9 DEF S

-----------------------------------------------------------------------------
(* The boot: types.                                                        *)

\* An archive, or none, for each behaviour that the boot loader can begin.
BootSpec == (\E ms \in Archives \cup {<<>>} : BootInit(ms)) /\ [][BootNext]_boot

BootTypes ==
    /\ modules \in Archives \cup {<<>>}
    /\ stage \in {"tags", "unpack", "load", "started", "running", "halted"}
    /\ tag \in 0 .. Len(modules) /\ ptr \in Nat /\ segment \in Nat
    /\ registered \in Seq(Range(registered)) /\ Len(registered) <= MAX_FILES
    /\ init_elf_start \in Nat /\ init_elf_size \in Nat

LEMMA BootTypesAre == BootTypes => BootTypeOK
  BY DEF BootTypes, BootTypeOK

LEMMA BootInitTypes ==
    ASSUME NEW ms \in Archives \cup {<<>>}, BootInit(ms)
    PROVE  BootTypes
<1>1. 0 \in 0 .. Len(ms)
  BY ArchivesAre
<1>2. <<>> \in Seq(Range(<<>>)) /\ Len(<<>>) = 0 /\ MAX_FILES \in Nat
  BY BootAssumption DEF BootAssumption
<1>3. registered \in Seq(Range(registered)) /\ Len(registered) <= MAX_FILES
  <2>1. registered = <<>>
    BY DEF BootInit
  <2> QED BY <1>2, <2>1
<1>4. modules \in Archives \cup {<<>>} /\ tag \in 0 .. Len(modules)
  BY <1>1 DEF BootInit
<1> QED BY <1>3, <1>4 DEF BootInit, BootTypes

\* A header says where its data begin, and how much they are.
LEMMA HeaderIs ==
    ASSUME BootTypes, ram[ptr] \in Headers
    PROVE  /\ ram[ptr].namesize \in Nat /\ ram[ptr].filesize \in Nat
           /\ FileData \in Nat /\ FileData + Aligned4(ram[ptr].filesize) \in Nat
<1>1. PICK e \in Entries \cup {Trailer} : ram[ptr] = Header(e)
  BY DEF Headers
<1>2. /\ ram[ptr].namesize = e.namesize /\ ram[ptr].filesize = Len(e.data)
      /\ HEADER + e.namesize \in Nat /\ e.namesize \in Nat /\ Len(e.data) \in Nat
  BY <1>1, EntryIs
<1>3. Aligned4(HEADER + e.namesize) \in Nat /\ Aligned4(Len(e.data)) \in Nat
  BY <1>2, FilledIs
<1>4. FileData = ptr + Aligned4(HEADER + e.namesize)
  BY <1>2 DEF FileData
<1>5. FileData \in Nat
  BY <1>3, <1>4 DEF BootTypes
<1> QED BY <1>2, <1>3, <1>5

LEMMA AppendedIsSeq ==
    ASSUME NEW s, s \in Seq(Range(s)), NEW e
    PROVE  Append(s, e) \in Seq(Range(Append(s, e))) /\ Len(Append(s, e)) = Len(s) + 1
<1> DEFINE S == Range(s) \cup {e}
<1>1. s \in Seq(S) /\ e \in S
  BY SeqMonotonic
<1> HIDE DEF S
<1>2. PICK t : t = Append(s, e)
  OBVIOUS
<1>3. t \in Seq(S) /\ Len(t) = Len(s) + 1
  BY <1>1, <1>2, AppendProperties
<1>4. t \in Seq(Range(t))
  <2>1. \A i \in 1 .. Len(t) : t[i] \in Range(t)
    BY <1>3 DEF Range
  <2>2. Len(t) \in Nat /\ t = [i \in 1 .. Len(t) |-> t[i]]
    BY <1>3
  <2> QED BY <2>1, <2>2
<1> QED BY <1>2, <1>3, <1>4

LEMMA BootTypesStep ==
    ASSUME BootTypes, [BootNext]_boot
    PROVE  BootTypes'
<1>1. CASE UNCHANGED boot
  BY <1>1 DEF BootTypes, boot
<1>2. CASE ModuleTag
  <2>1. Len(modules) \in Nat /\ DOMAIN modules = 1 .. Len(modules)
    BY ArchivesAre DEF BootTypes
  <2>2. tag \in Nat /\ tag < Len(modules)
    BY <1>2, <2>1 DEF BootTypes, ModuleTag
  <2>3. tag' \in 0 .. Len(modules) /\ tag' \in DOMAIN modules
    BY <1>2, <2>1, <2>2 DEF ModuleTag
  <2>4. ptr' \in Nat
    BY <1>2, <2>3, ArchivesAre DEF ModuleTag, BootTypes, IsArchive
  <2> QED BY <1>2, <2>3, <2>4 DEF ModuleTag, BootTypes
<1>3. CASE Unpack
  <2>1. ram[ptr] \in Headers
    BY <1>3 DEF Unpack, Another
  <2>2. /\ ram[ptr].filesize \in Nat /\ FileData \in Nat
        /\ FileData + Aligned4(ram[ptr].filesize) \in Nat
    BY <2>1, HeaderIs
  <2>3. registered' \in Seq(Range(registered')) /\ Len(registered') <= MAX_FILES
    <3>1. CASE registered' = registered
      BY <3>1 DEF BootTypes
    <3>2. CASE registered' # registered
      <4>1. PICK e : registered' = Append(registered, e) /\ Len(registered) < MAX_FILES
        BY <1>3, <3>2 DEF Unpack
      <4>2. /\ registered' \in Seq(Range(registered'))
            /\ Len(registered') = Len(registered) + 1
        BY <4>1, AppendedIsSeq DEF BootTypes
      <4>3. Len(registered) \in Nat /\ MAX_FILES \in Nat
        BY BootAssumption DEF BootAssumption, BootTypes
      <4> QED BY <4>1, <4>2, <4>3
    <3> QED BY <3>1, <3>2
  <2>4. init_elf_start' \in Nat /\ init_elf_size' \in Nat
    BY <1>3, <2>2 DEF Unpack, BootTypes
  <2>5. ptr' \in Nat /\ UNCHANGED <<modules, stage, tag, segment>>
    BY <1>3, <2>2 DEF Unpack
  <2> QED BY <2>3, <2>4, <2>5 DEF BootTypes
<1>4. CASE UnpackEnds
  BY <1>4 DEF UnpackEnds, BootTypes
<1>5. CASE TagsEnd
  BY <1>5 DEF TagsEnd, BootTypes
<1>6. CASE Halt
  BY <1>1, <1>6 DEF Halt
<1>7. CASE LoadSegment
  <2>1. segment' \in Nat
    BY <1>7 DEF LoadSegment, BootTypes
  <2> QED BY <1>7, <2>1 DEF LoadSegment, BootTypes
<1>8. CASE LoadEnds
  BY <1>8 DEF LoadEnds, BootTypes
<1>9. CASE Run
  BY <1>9 DEF Run, BootTypes
<1>10. CASE Execve
  BY <1>10 DEF Execve, BootTypes
<1> QED BY <1>1, <1>2, <1>3, <1>4, <1>5, <1>6, <1>7, <1>8, <1>9, <1>10 DEF BootNext

\* The state of the boot has its type, whether or not init is linked to where an archive lies.
THEOREM BootIsTyped == BootSpec => []BootTypeOK
<1>1. ASSUME \E ms \in Archives \cup {<<>>} : BootInit(ms) PROVE BootTypes
  BY <1>1, BootInitTypes
<1>2. BootTypes /\ [BootNext]_boot => BootTypes'
  BY BootTypesStep
<1> QED BY <1>1, <1>2, BootTypesAre, PTL DEF BootSpec

-----------------------------------------------------------------------------
(* The boot: its inductive invariant.                                      *)

\* The hypothesis of the theorem.
BootCareful == "image over archive" \notin Habits

\* What ramfs keeps of a file, and of files.
Kept(e) ==
    [name |-> e.name, data |-> SubSeq(e.data, 1, Min({Len(e.data), FILE_MAX}))]
FirstFiles(files) == [i \in 1 .. Min({Len(files), MAX_FILES}) |-> Kept(files[i])]

LiesAt(lies, data) ==
    \A i \in 1 .. Len(data) :
        lies + i - 1 \in DOMAIN Placed(modules) /\ Placed(modules)[lies + i - 1] = data[i]

LastInit(inits) == inits[Len(inits)].data

FoundInit(inits) ==
    IF inits = <<>> THEN init_elf_start = 0 /\ init_elf_size = 0
    ELSE /\ init_elf_start # 0 /\ init_elf_size = Len(LastInit(inits))
         /\ LiesAt(init_elf_start, LastInit(inits))

Unpacked(es) == registered = FirstFiles(FilesOf(es)) /\ FoundInit(Inits(es))

\* The init that is loaded.
Elf == LastInit(Inits(AllEntries))

\* The first n segments are in memory.
SegmentsLoaded(n) ==
    \A j \in 1 .. n : \A x \in PlaceOf(Elf[1].segments[j]) :
        LET s == Elf[1].segments[j] IN
        /\ x \in DOMAIN ram
        /\ ram[x] = IF x < s.vaddr + s.filesz THEN Elf[s.offset + (x - s.vaddr) + 1] ELSE Nul

\* No archive is written to.
ArchivesKept ==
    \A x \in DOMAIN Placed(modules) : x \in DOMAIN ram /\ ram[x] = Placed(modules)[x]

BootInv ==
    /\ BootTypes /\ ~InTheWay(modules) /\ ArchivesKept
    /\ stage # "load" => segment = 0
    /\ stage = "tags" => Unpacked(Whole(modules, tag))
    /\ stage = "unpack" =>
        /\ tag > 0
        /\ \E k \in 0 .. Len(modules[tag].entries) :
            ptr = Begin(modules[tag], k) /\ Unpacked(Seen(modules, tag - 1, k))
    /\ stage \notin {"tags", "unpack"} => Unpacked(AllEntries)
    /\ stage \in {"load", "started", "running"} => init_elf_start # 0 /\ init_elf_size # 0
    /\ stage = "load" => segment <= Len(Elf[1].segments) /\ SegmentsLoaded(segment)
    /\ stage = "started" => SegmentsLoaded(Len(Elf[1].segments))
    /\ stage = "halted" => Inits(AllEntries) = <<>> \/ Elf = <<>>

-----------------------------------------------------------------------------
(* One file is unpacked.                                                   *)

LEMMA FirstFilesNext ==
    ASSUME NEW S, NEW files \in Seq(S), NEW e \in S
    PROVE  /\ FirstFiles(files) \in Seq(Range(FirstFiles(files)))
           /\ FirstFiles(Append(files, e)) =
                IF Len(FirstFiles(files)) < MAX_FILES THEN Append(FirstFiles(files), Kept(e))
                ELSE FirstFiles(files)
<1>1. PICK n \in Nat : n = Len(files)
  BY LenProperties
<1>2. PICK most \in Nat : most = MAX_FILES
  BY BootAssumption DEF BootAssumption
<1>0. PICK more : more = Append(files, e)
  OBVIOUS
<1>3. /\ more = Append(files, e) /\ Len(more) = n + 1 /\ more[n + 1] = e
      /\ \A i \in 1 .. n : more[i] = files[i]
  BY <1>0, <1>1, AppendProperties
<1>4. PICK k \in Nat : k = IF n <= most THEN n ELSE most
  OBVIOUS
<1>5. Min({n, most}) = k
  BY <1>4, MinIs
<1>6. PICK first : first = FirstFiles(files)
  OBVIOUS
<1>7. first = [i \in 1 .. k |-> Kept(files[i])]
  BY <1>1, <1>2, <1>5, <1>6, Zenon DEF FirstFiles
<1>8. Len(first) = k /\ first \in Seq(Range(first)) /\ DOMAIN first = 1 .. k
  BY <1>7 DEF Range
<1>9. Min({n + 1, most}) = IF n < most THEN k + 1 ELSE k
  <2>1. Min({n + 1, most}) = IF n + 1 <= most THEN n + 1 ELSE most
    BY MinIs
  <2> QED BY <1>4, <2>1
<1>10. FirstFiles(more) = [i \in 1 .. (IF n < most THEN k + 1 ELSE k) |-> Kept(more[i])]
  BY <1>2, <1>3, <1>9, Zenon DEF FirstFiles
<1>11. CASE n < most
  <2>1. k = n
    BY <1>4, <1>11
  <2>2. FirstFiles(more) = [i \in 1 .. n + 1 |-> Kept(more[i])]
    BY <1>10, <1>11, <2>1
  <2>3. DOMAIN Append(first, Kept(e)) = 1 .. n + 1
        /\ Append(first, Kept(e)) = [i \in 1 .. n + 1 |-> Append(first, Kept(e))[i]]
    <3>1. PICK t : t = Append(first, Kept(e))
      OBVIOUS
    <3>2. t \in Seq(Range(t)) /\ Len(t) = n + 1
      BY <1>8, <2>1, <3>1, AppendedIsSeq
    <3>3. DOMAIN t = 1 .. n + 1 /\ t = [i \in 1 .. n + 1 |-> t[i]]
      BY <3>2
    <3> QED BY <3>1, <3>3
  <2>4. \A i \in 1 .. n + 1 : Append(first, Kept(e))[i] = Kept(more[i])
    <3> SUFFICES ASSUME NEW i \in 1 .. n + 1 PROVE Append(first, Kept(e))[i] = Kept(more[i])
      OBVIOUS
    <3>1. CASE i = n + 1
      BY <1>3, <1>8, <2>1, <3>1
    <3>2. CASE i # n + 1
      <4>1. i \in 1 .. n
        BY <3>2
      <4>2. Append(first, Kept(e))[i] = first[i]
        BY <1>8, <2>1, <4>1
      <4>3. first[i] = Kept(files[i])
        BY <1>7, <2>1, <4>1
      <4>4. more[i] = files[i]
        BY <1>3, <4>1
      <4> QED BY <4>2, <4>3, <4>4, Zenon
    <3> QED BY <3>1, <3>2
  <2>5. FirstFiles(more) = Append(first, Kept(e))
    BY <2>2, <2>3, <2>4
  <2> QED BY <1>2, <1>3, <1>6, <1>8, <1>11, <2>1, <2>5
<1>12. CASE ~(n < most)
  <2>1. k = most /\ most <= n
    BY <1>4, <1>12
  <2>2. FirstFiles(more) = [i \in 1 .. k |-> Kept(more[i])]
    BY <1>10, <1>12
  <2>3. \A i \in 1 .. k : more[i] = files[i]
    BY <1>3, <2>1
  <2>4. FirstFiles(more) = first
    BY <1>7, <2>2, <2>3
  <2>5. ~(Len(first) < MAX_FILES)
    BY <1>2, <1>8, <2>1
  <2> QED BY <1>3, <1>6, <1>8, <2>4, <2>5, Zenon
<1> QED BY <1>11, <1>12

LEMMA CopiedIs ==
    ASSUME NEW S, NEW data \in Seq(S), NEW n \in 0 .. Len(data), NEW lies \in Nat,
           \A i \in 1 .. Len(data) : ram[lies + i - 1] = data[i]
    PROVE  [i \in 1 .. n |-> ram[lies + i - 1]] = SubSeq(data, 1, n)
<1>1. /\ SubSeq(data, 1, n) \in Seq(S) /\ Len(SubSeq(data, 1, n)) = n
      /\ \A i \in 1 .. n : SubSeq(data, 1, n)[i] = data[i]
  BY FirstOf
<1>2. PICK part \in Seq(S) : part = SubSeq(data, 1, n) /\ Len(part) = n
                             /\ \A i \in 1 .. n : part[i] = data[i]
  BY <1>1
<1>3. part = [i \in 1 .. n |-> part[i]]
  BY <1>2
<1>4. \A i \in 1 .. n : i \in 1 .. Len(data)
  BY LenProperties
<1>5. \A i \in 1 .. n : ram[lies + i - 1] = part[i]
  BY <1>2, <1>4
<1> QED BY <1>2, <1>3, <1>5

\* With one file more, ramfs and the place of init are what they should be.
LEMMA UnpackedNext ==
    ASSUME BootTypes, NEW es \in Seq(Entries), NEW e \in Entries, Unpacked(es),
           ram[ptr] = Header(e), NEW lies \in Nat, FileData = lies, lies # 0,
           LiesAt(lies, e.data), \A i \in 1 .. Len(e.data) : ram[lies + i - 1] = e.data[i],
           Unpack
    PROVE  Unpacked(Append(es, e))'
<1>1. /\ ram[ptr].name = e.name /\ ram[ptr].filesize = Len(e.data)
      /\ e.data \in Seq(Range(e.data)) /\ Len(e.data) \in Nat
  BY EntryIs
<1>2. PICK files : files = FilesOf(es) /\ files \in Seq(Entries)
  <2>1. Chosen(es, FileEntries) \in Seq(Entries \cap FileEntries)
    BY ChosenIsSeq
  <2>2. Chosen(es, FileEntries) \in Seq(Entries)
    BY <2>1, SeqMonotonic
  <2> QED BY <2>2, ChosenOf
<1>3. PICK inits : inits = Inits(es) /\ inits \in Seq(Entries)
  <2>1. Chosen(es, InitEntries) \in Seq(Entries \cap InitEntries)
    BY ChosenIsSeq
  <2>2. Chosen(es, InitEntries) \in Seq(Entries)
    BY <2>1, SeqMonotonic
  <2> QED BY <2>2, ChosenOf
<1>4. Append(es, e) \in Seq(Entries)
  BY AppendProperties
<1>5. FilesOf(Append(es, e)) = IF e \in FileEntries THEN Append(files, e) ELSE files
  <2>1. /\ FilesOf(Append(es, e)) = Chosen(Append(es, e), FileEntries)
        /\ files = Chosen(es, FileEntries)
    BY <1>2, <1>4, ChosenOf
  <2>2. \A T : Chosen(Append(es, e), T) =
                    IF e \in T THEN Append(Chosen(es, T), e) ELSE Chosen(es, T)
    BY ChosenNext
  <2> QED BY <2>1, <2>2, Zenon
<1>6. Inits(Append(es, e)) = IF e \in InitEntries THEN Append(inits, e) ELSE inits
  <2>1. /\ Inits(Append(es, e)) = Chosen(Append(es, e), InitEntries)
        /\ inits = Chosen(es, InitEntries)
    BY <1>3, <1>4, ChosenOf
  <2>2. \A T : Chosen(Append(es, e), T) =
                    IF e \in T THEN Append(Chosen(es, T), e) ELSE Chosen(es, T)
    BY ChosenNext
  <2> QED BY <2>1, <2>2, Zenon
<1>7. e \in FileEntries <=> ram[ptr].filesize > 0 /\ ram[ptr].name \notin DotNames
  <2>1. e.data # <<>> <=> Len(e.data) > 0
    BY <1>1, EmptySeq
  <2> QED BY <1>1, <2>1 DEF FileEntries
<1>8. e \in InitEntries <=> ram[ptr].name = InitName
  BY <1>1 DEF InitEntries
<1>9. [i \in 1 .. Min({Len(e.data), FILE_MAX}) |-> ram[lies + i - 1]] =
            SubSeq(e.data, 1, Min({Len(e.data), FILE_MAX}))
  <2>1. FILE_MAX \in Nat
    BY BootAssumption DEF BootAssumption
  <2>2. Min({Len(e.data), FILE_MAX}) \in 0 .. Len(e.data)
    <3>1. PICK n \in Nat : n = Len(e.data)
      BY <1>1
    <3>2. Min({n, FILE_MAX}) = IF n <= FILE_MAX THEN n ELSE FILE_MAX
      BY <2>1, MinIs
    <3> QED BY <2>1, <3>1, <3>2
  <2> QED BY <1>1, <2>2, CopiedIs
<1>10. registered' = IF e \in FileEntries /\ Len(registered) < MAX_FILES
                     THEN Append(registered, Kept(e)) ELSE registered
  <2>1. registered' =
            IF /\ ram[ptr].filesize > 0 /\ ram[ptr].name \notin DotNames
               /\ Len(registered) < MAX_FILES
            THEN Append(registered,
                        [name |-> ram[ptr].name,
                         data |-> [i \in 1 .. Min({ram[ptr].filesize, FILE_MAX}) |->
                                        ram[FileData + i - 1]]])
            ELSE registered
    BY DEF Unpack
  <2>2. [name |-> ram[ptr].name,
         data |-> [i \in 1 .. Min({ram[ptr].filesize, FILE_MAX}) |-> ram[FileData + i - 1]]]
            = Kept(e)
    BY <1>1, <1>9, Zenon DEF Kept
  <2> QED BY <1>7, <2>1, <2>2, Zenon
<1>11. registered = FirstFiles(files)
  BY <1>2 DEF Unpacked
<1>12. registered' = FirstFiles(FilesOf(Append(es, e)))
  <2>1. FirstFiles(Append(files, e)) =
            IF Len(registered) < MAX_FILES THEN Append(registered, Kept(e)) ELSE registered
    BY <1>2, <1>11, FirstFilesNext, Zenon
  <2> QED BY <1>5, <1>10, <1>11, <2>1, Zenon
<1>13. FoundInit(Inits(Append(es, e)))'
  <2>1. CASE e \in InitEntries
    <3>1. init_elf_start' = lies /\ init_elf_size' = Len(e.data) /\ UNCHANGED modules
      BY <1>1, <1>8, <2>1 DEF Unpack
    <3>2. PICK more : more = Append(inits, e)
      OBVIOUS
    <3>3. more # <<>> /\ LastInit(more) = e.data
      <4>1. Len(more) = Len(inits) + 1 /\ more[Len(inits) + 1] = e /\ Len(inits) \in Nat
        BY <1>3, <3>2, AppendProperties
      <4> QED BY <4>1 DEF LastInit
    <3>4. Inits(Append(es, e)) = more
      BY <1>6, <2>1, <3>2
    <3>5. FoundInit(more)'
      BY <3>1, <3>3 DEF FoundInit, LiesAt
    <3> QED BY <3>4, <3>5
  <2>2. CASE e \notin InitEntries
    <3>1. UNCHANGED <<init_elf_start, init_elf_size, modules>>
      BY <1>8, <2>2 DEF Unpack
    <3>2. FoundInit(inits)
      BY <1>3 DEF Unpacked
    <3>3. FoundInit(inits)'
      BY <3>1, <3>2 DEF FoundInit, LiesAt
    <3>4. Inits(Append(es, e)) = inits
      BY <1>6, <2>2
    <3> QED BY <3>3, <3>4
  <2> QED BY <2>1, <2>2
<1> QED BY <1>12, <1>13 DEF Unpacked

LEMMA UnpackInv ==
    ASSUME BootInv, Unpack
    PROVE  BootInv'
<1>0. stage = "unpack" /\ BootTypes /\ ArchivesKept
  BY DEF BootInv, Unpack
<1>1. /\ modules \in Archives \cup {<<>>} /\ tag \in DOMAIN modules
      /\ tag - 1 \in 0 .. Len(modules) - 1
      /\ tag - 1 + 1 = tag
  <2>1. Len(modules) \in Nat /\ DOMAIN modules = 1 .. Len(modules)
    BY <1>0, ArchivesAre DEF BootTypes
  <2>2. tag \in 0 .. Len(modules) /\ tag > 0
    BY <1>0 DEF BootTypes, BootInv
  <2> QED BY <1>0, <2>1, <2>2 DEF BootTypes
<1>2. PICK m : m = modules[tag] /\ IsArchive(m)
  BY <1>1, ArchivesAre
<1>3. PICK k \in 0 .. Len(m.entries) :
            ptr = Begin(m, k) /\ Unpacked(Seen(modules, tag - 1, k))
  BY <1>0, <1>2 DEF BootInv
<1>4. PICK e, here : e = FileAt(m, k) /\ here = Begin(m, k) /\ here = ptr
  BY <1>3
<1>5. /\ e \in Entries \cup {Trailer}
      /\ ptr \in Nat
      /\ ptr \in DOMAIN Placed(modules) /\ Placed(modules)[ptr] = Header(e)
      /\ HeadLength(e) \in Nat /\ HeadLength(e) > 0
      /\ \A i \in 1 .. Len(e.data) :
            /\ ptr + HeadLength(e) + i - 1 \in DOMAIN Placed(modules)
            /\ Placed(modules)[ptr + HeadLength(e) + i - 1] = e.data[i]
      /\ Begin(m, k + 1) = ptr + HeadLength(e) + Filled(Len(e.data))
  <2>1. FilePlaced(modules, e, here, Begin(m, k + 1))
    BY <1>1, <1>2, <1>4, FileIsPlaced
  <2> QED BY <1>4, <2>1, Zenon DEF FilePlaced
<1>6. ram[ptr] = Header(e)
  BY <1>0, <1>5 DEF ArchivesKept
<1>7. /\ ram[ptr].name = e.name /\ ram[ptr].namesize = e.namesize
      /\ ram[ptr].filesize = Len(e.data) /\ Len(e.data) \in Nat
      /\ HEADER + e.namesize \in Nat
  BY <1>5, <1>6, EntryIs
<1>8. Len(m.entries) \in Nat
  BY <1>2, PartsAre
<1>9. k \in 0 .. Len(m.entries) - 1 /\ e = m.entries[k + 1]
  <2>1. e.name # TrailerName
    BY <1>7 DEF Unpack, Another
  <2>2. k # Len(m.entries)
    BY <1>4, <2>1 DEF FileAt, Trailer
  <2> QED BY <1>4, <1>8, <2>2 DEF FileAt
<1>10. e \in Present(modules) /\ e \in Entries
       /\ Seen(modules, tag - 1, k + 1) = Append(Seen(modules, tag - 1, k), e)
       /\ Seen(modules, tag - 1, k) \in Seq(Present(modules))
  <2>1. m = modules[tag - 1 + 1]
    BY <1>1, <1>2
  <2> QED BY <1>1, <1>9, <2>1, SeenIs, PresentIn, SMTT(60)
<1>11. PICK es \in Seq(Entries) : es = Seen(modules, tag - 1, k)
  BY <1>1, <1>10, PresentIn, SeqMonotonic
<1>12. PICK lies \in Nat : lies = ptr + HeadLength(e) /\ lies # 0
  BY <1>5
<1>13. FileData = lies
  <2>1. Aligned4(HEADER + e.namesize) = HeadLength(e)
    BY <1>7, FilledIs DEF HeadLength
  <2> QED BY <1>7, <1>12, <2>1, Zenon DEF FileData
<1>14. LiesAt(lies, e.data) /\ \A i \in 1 .. Len(e.data) : ram[lies + i - 1] = e.data[i]
  <2> SUFFICES ASSUME NEW i \in 1 .. Len(e.data)
               PROVE  /\ lies + i - 1 \in DOMAIN Placed(modules)
                      /\ Placed(modules)[lies + i - 1] = e.data[i]
                      /\ ram[lies + i - 1] = e.data[i]
    BY DEF LiesAt
  <2>1. /\ lies + i - 1 \in DOMAIN Placed(modules) /\ Placed(modules)[lies + i - 1] = e.data[i]
    BY <1>5, <1>12
  <2> QED BY <1>0, <2>1 DEF ArchivesKept
<1>15. Unpacked(Append(es, e))'
  BY <1>0, <1>3, <1>6, <1>10, <1>11, <1>12, <1>13, <1>14, UnpackedNext
<1>16. ptr' = Begin(m, k + 1)
  <2>1. Aligned4(Len(e.data)) = Filled(Len(e.data))
    BY <1>7, FilledIs
  <2>2. ptr' = FileData + Aligned4(Len(e.data))
    BY <1>7 DEF Unpack
  <2> QED BY <1>5, <1>12, <1>13, <2>1, <2>2, Zenon
<1>17. /\ k + 1 \in 0 .. Len(m.entries)
       /\ Unpacked(Seen(modules, tag - 1, k + 1))'
  <2>1. UNCHANGED <<modules, tag>>
    BY DEF Unpack
  <2>2. (Seen(modules, tag - 1, k + 1))' = Append(es, e)
    BY <1>10, <1>11, <2>1
  <2>3. PICK more : more = Append(es, e)
    OBVIOUS
  <2>4. Unpacked(more)' /\ (Seen(modules, tag - 1, k + 1))' = more
    BY <1>15, <2>2, <2>3
  <2>5. Unpacked(Seen(modules, tag - 1, k + 1))'
    BY <2>4 DEF Unpacked, FoundInit
  <2> QED BY <1>8, <1>9, <2>5
<1>18. BootTypes'
  BY <1>0, BootTypesStep DEF BootNext
<1>19. UNCHANGED <<modules, ram, stage, tag, segment>>
  BY DEF Unpack
<1>20. tag' > 0 /\ \E j \in 0 .. Len(modules[tag].entries)' :
            ptr' = Begin(modules[tag], j)' /\ Unpacked(Seen(modules, tag - 1, j))'
  BY <1>1, <1>2, <1>16, <1>17, <1>19
<1>21. ~InTheWay(modules)' /\ ArchivesKept' /\ (stage # "load" => segment = 0)'
  BY <1>19 DEF BootInv, ArchivesKept
<1> QED BY <1>0, <1>18, <1>19, <1>20, <1>21 DEF BootInv

-----------------------------------------------------------------------------
(* The start, the tags, and the end of the archives.                       *)

LEMMA NothingUnpacked ==
    /\ FilesOf(<<>>) = <<>> /\ Inits(<<>>) = <<>> /\ FirstFiles(<<>>) = <<>>
<1>1. FilesOf(<<>>) = <<>> /\ Inits(<<>>) = <<>>
  <2>1. <<>> \in Seq(Entries)
    OBVIOUS
  <2> QED BY <2>1, ChosenOf, ChosenNone
<1>2. Min({0, MAX_FILES}) = 0
  <2>1. MAX_FILES \in Nat
    BY BootAssumption DEF BootAssumption
  <2> QED BY <2>1, MinIs
<1>3. FirstFiles(<<>>) = [i \in 1 .. 0 |-> Kept(<<>>[i])]
  <2>1. Len(<<>>) = 0
    OBVIOUS
  <2> QED BY <1>2, <2>1, Zenon DEF FirstFiles
<1>4. FirstFiles(<<>>) = <<>>
  BY <1>3
<1> QED BY <1>1, <1>4

LEMMA BootInitInv ==
    ASSUME BootCareful, NEW ms \in Archives \cup {<<>>}, BootInit(ms)
    PROVE  BootInv
<1>1. BootTypes
  BY BootInitTypes
<1>2. ~InTheWay(modules)
  <2>1. OnlyIf("image over archive", InTheWay(ms)) /\ modules = ms
    BY DEF BootInit
  <2> QED BY <2>1, Zenon DEF BootCareful, OnlyIf
<1>3. ArchivesKept
  <2>1. ram = Placed(modules)
    BY DEF BootInit
  <2> QED BY <2>1 DEF ArchivesKept
<1>4. Unpacked(Whole(modules, tag))
  <2>1. tag = 0 /\ registered = <<>> /\ init_elf_start = 0 /\ init_elf_size = 0
    BY DEF BootInit
  <2>2. Whole(modules, 0) = <<>>
    BY <1>1, WholeIs DEF BootTypes
  <2>3. FoundInit(<<>>)
    BY <2>1 DEF FoundInit
  <2> QED BY <2>1, <2>2, <2>3, NothingUnpacked DEF Unpacked
<1>5. stage = "tags" /\ segment = 0
  BY DEF BootInit
<1> QED BY <1>1, <1>2, <1>3, <1>4, <1>5 DEF BootInv

LEMMA UnpackedStays ==
    ASSUME UNCHANGED <<modules, registered, init_elf_start, init_elf_size>>,
           NEW es, Unpacked(es)
    PROVE  Unpacked(es)'
  BY DEF Unpacked, FoundInit, LiesAt

LEMMA ArchivesStay ==
    ASSUME UNCHANGED <<modules, ram>>, ArchivesKept, ~InTheWay(modules)
    PROVE  ArchivesKept' /\ ~InTheWay(modules)'
  BY DEF ArchivesKept

LEMMA ModuleTagInv ==
    ASSUME BootInv, ModuleTag
    PROVE  BootInv'
<1>0. stage = "tags" /\ BootTypes
  BY DEF BootInv, ModuleTag
<1>1. /\ tag \in 0 .. Len(modules) - 1 /\ modules \in Archives \cup {<<>>}
      /\ tag + 1 \in DOMAIN modules /\ tag + 1 - 1 = tag /\ tag + 1 > 0
  <2>1. Len(modules) \in Nat /\ DOMAIN modules = 1 .. Len(modules)
    BY <1>0, ArchivesAre DEF BootTypes
  <2>2. tag \in 0 .. Len(modules) /\ tag < Len(modules) /\ modules \in Archives \cup {<<>>}
    BY <1>0 DEF BootTypes, ModuleTag
  <2> QED BY <2>1, <2>2
<1>2. PICK m : m = modules[tag + 1] /\ IsArchive(m)
  BY <1>1, ArchivesAre
<1>3. Unpacked(Seen(modules, tag, 0)) /\ 0 \in 0 .. Len(m.entries)
  <2>1. Seen(modules, tag, 0) = Whole(modules, tag) /\ Len(m.entries) \in Nat
    BY <1>1, <1>2, SeenIs
  <2> QED BY <1>0, <2>1 DEF BootInv
<1>4. Begin(m, 0) = m.start
  <2>1. Joined(Parts(m), 0) = <<>> /\ Len(<<>>) = 0
    BY JoinedNone
  <2>2. m.start + 0 = m.start
    BY <1>2 DEF IsArchive
  <2> QED BY <2>1, <2>2, Zenon DEF Begin
<1>5. /\ tag' = tag + 1 /\ ptr' = m.start /\ stage' = "unpack"
      /\ UNCHANGED <<modules, ram, segment, registered, init_elf_start, init_elf_size>>
  BY <1>2 DEF ModuleTag
<1>6. PICK es : es = Seen(modules, tag, 0)
  OBVIOUS
<1>7. Unpacked(es)'
  BY <1>3, <1>5, <1>6, UnpackedStays
<1>8. Unpacked(Seen(modules, tag - 1, 0))'
  <2>1. (Seen(modules, tag - 1, 0))' = es
    BY <1>1, <1>5, <1>6
  <2> QED BY <1>7, <2>1 DEF Unpacked, FoundInit
<1>9. tag' > 0 /\ \E k \in 0 .. Len(modules[tag].entries)' :
            ptr' = Begin(modules[tag], k)' /\ Unpacked(Seen(modules, tag - 1, k))'
  <2>1. modules[tag]' = m
    BY <1>2, <1>5
  <2>2. ptr' = Begin(modules[tag], 0)'
    BY <1>4, <1>5, <2>1
  <2> QED BY <1>1, <1>3, <1>5, <1>8, <2>1, <2>2
<1>10. BootTypes'
  BY <1>0, BootTypesStep DEF BootNext
<1>11. ~InTheWay(modules)' /\ ArchivesKept' /\ (stage # "load" => segment = 0)'
  BY <1>0, <1>5, ArchivesStay DEF BootInv
<1> QED BY <1>5, <1>9, <1>10, <1>11 DEF BootInv

LEMMA UnpackEndsInv ==
    ASSUME BootInv, UnpackEnds
    PROVE  BootInv'
<1>0. stage = "unpack" /\ BootTypes /\ ArchivesKept
  BY DEF BootInv, UnpackEnds
<1>1. /\ modules \in Archives \cup {<<>>} /\ tag \in DOMAIN modules
      /\ tag - 1 \in 0 .. Len(modules) - 1
      /\ tag - 1 + 1 = tag
  <2>1. Len(modules) \in Nat /\ DOMAIN modules = 1 .. Len(modules)
    BY <1>0, ArchivesAre DEF BootTypes
  <2>2. tag \in 0 .. Len(modules) /\ tag > 0
    BY <1>0 DEF BootTypes, BootInv
  <2> QED BY <1>0, <2>1, <2>2 DEF BootTypes
<1>2. PICK m : m = modules[tag] /\ IsArchive(m)
  BY <1>1, ArchivesAre
<1>3. PICK k \in 0 .. Len(m.entries) :
            ptr = Begin(m, k) /\ Unpacked(Seen(modules, tag - 1, k))
  BY <1>0, <1>2 DEF BootInv
<1>4. PICK e, here : e = FileAt(m, k) /\ here = Begin(m, k) /\ here = ptr
  BY <1>3
<1>5. /\ e \in Entries \cup {Trailer} /\ ptr < EndOf(m)
      /\ ptr \in DOMAIN Placed(modules) /\ Placed(modules)[ptr] = Header(e)
  <2>1. FilePlaced(modules, e, here, Begin(m, k + 1)) /\ here < EndOf(m)
    BY <1>1, <1>2, <1>4, FileIsPlaced
  <2> QED BY <1>4, <2>1, Zenon DEF FilePlaced
<1>6. ram[ptr] = Header(e) /\ ram[ptr] \in Headers
  BY <1>0, <1>5 DEF ArchivesKept, Headers
<1>7. ram[ptr].name = TrailerName
  BY <1>2, <1>5, <1>6 DEF UnpackEnds, Another
<1>8. e.name = TrailerName
  BY <1>5, <1>6, <1>7, EntryIs
<1>9. k = Len(m.entries)
  <2>1. SUFFICES ASSUME k # Len(m.entries) PROVE FALSE
    OBVIOUS
  <2>2. Len(m.entries) \in Nat /\ \A i \in 1 .. Len(m.entries) : m.entries[i] \in Entries
    BY <1>2, PartsAre
  <2>3. e = m.entries[k + 1] /\ k + 1 \in 1 .. Len(m.entries)
    BY <1>4, <2>1, <2>2 DEF FileAt
  <2>4. e \in Entries
    BY <2>2, <2>3
  <2> QED BY <1>8, <2>4, BootAssumption DEF BootAssumption
<1>10. Unpacked(Whole(modules, tag))
  <2>1. m = modules[tag - 1 + 1]
    BY <1>1, <1>2
  <2>2. Seen(modules, tag - 1, Len(m.entries)) = Whole(modules, tag - 1 + 1)
    BY <1>1, <2>1, SeenIs
  <2> QED BY <1>1, <1>3, <1>9, <2>2
<1>11. /\ stage' = "tags"
       /\ UNCHANGED <<modules, ram, tag, segment, registered, init_elf_start, init_elf_size>>
  BY DEF UnpackEnds
<1>12. Unpacked(Whole(modules, tag))'
  <2>1. PICK es : es = Whole(modules, tag)
    OBVIOUS
  <2>2. Unpacked(es)' /\ Whole(modules, tag)' = es
    BY <1>10, <1>11, <2>1, UnpackedStays
  <2> QED BY <2>2 DEF Unpacked, FoundInit
<1>13. BootTypes'
  BY <1>0, BootTypesStep DEF BootNext
<1>14. ~InTheWay(modules)' /\ ArchivesKept' /\ (stage # "load" => segment = 0)'
  BY <1>0, <1>11, ArchivesStay DEF BootInv
<1> QED BY <1>11, <1>12, <1>13, <1>14 DEF BootInv

-----------------------------------------------------------------------------
(* The program that is loaded.                                             *)

LEMMA AllEntriesAre ==
    ASSUME modules \in Archives \cup {<<>>}
    PROVE  AllEntries = Whole(modules, Len(modules)) /\ AllEntries \in Seq(Present(modules))
<1>1. AllEntries = Whole(modules, Len(modules))
  <2>1. AllEntries = FlattenSeq(Lists(modules))
    BY DEF AllEntries, Lists
  <2> QED BY <2>1, WholeIs
<1>2. Len(modules) \in 0 .. Len(modules)
  BY ArchivesAre
<1> QED BY <1>1, <1>2, WholeIs

LEMMA ElfIs ==
    ASSUME modules \in Archives \cup {<<>>}, Inits(AllEntries) # <<>>
    PROVE  \E e \in Present(modules) \cap InitEntries : Elf = e.data
<1>1. PICK inits : inits = Inits(AllEntries)
  OBVIOUS
<1>2. inits \in Seq(Present(modules) \cap InitEntries)
  <2>1. AllEntries \in Seq(Present(modules)) /\ Present(modules) \subseteq Entries
    BY AllEntriesAre, PresentIn
  <2>2. AllEntries \in Seq(Entries)
    BY <2>1, SeqMonotonic
  <2>3. inits = Chosen(AllEntries, InitEntries)
    BY <1>1, <2>2, ChosenOf
  <2> QED BY <2>1, <2>3, ChosenIsSeq
<1>3. inits # <<>>
  BY <1>1
<1>4. Len(inits) \in 1 .. Len(inits)
  BY <1>2, <1>3, EmptySeq
<1>5. inits[Len(inits)] \in Present(modules) \cap InitEntries
  BY <1>2, <1>4, ElementOfSeq
<1> QED BY <1>1, <1>5 DEF Elf, LastInit

\* What a loader finds where init_elf_start points to.
ProgramFound ==
    /\ Elf \in Seq(Range(Elf)) /\ Len(Elf) \in Nat \ {0}
    /\ IsLinked(Elf) /\ Image(Elf) \cap DOMAIN Placed(modules) = {}
    /\ \A i \in 1 .. Len(Elf) : ram[init_elf_start + i - 1] = Elf[i]
    /\ ram[init_elf_start] = Elf[1] /\ IsElf(ram[init_elf_start])

LEMMA ProgramIs ==
    ASSUME BootTypes, Unpacked(AllEntries), ~InTheWay(modules), ArchivesKept,
           Inits(AllEntries) # <<>>, Elf # <<>>
    PROVE  ProgramFound
<1>1. modules \in Archives \cup {<<>>} /\ init_elf_start \in Nat
  BY DEF BootTypes
<1>2. PICK e \in Present(modules) \cap InitEntries : Elf = e.data
  BY <1>1, ElfIs
<1>3. e \in Entries /\ e.name = InitName /\ e.data # <<>>
  BY <1>2 DEF InitEntries
<1>4. e.data \in Seq(Range(e.data)) /\ IsLinked(e.data)
  BY <1>3, BootAssumption DEF BootAssumption
<1>5. Elf \in Seq(Range(Elf)) /\ IsLinked(Elf)
  BY <1>2, <1>4
<1>6. Len(Elf) \in Nat \ {0}
  BY <1>5, EmptySeq
<1>7. LiesAt(init_elf_start, Elf)
  BY DEF Unpacked, FoundInit, Elf
<1>8. \A i \in 1 .. Len(Elf) : ram[init_elf_start + i - 1] = Elf[i]
  BY <1>7 DEF LiesAt, ArchivesKept
<1>9. ram[init_elf_start] = Elf[1]
  <2>1. 1 \in 1 .. Len(Elf) /\ init_elf_start + 1 - 1 = init_elf_start
    BY <1>1, <1>6
  <2> QED BY <1>8, <2>1
<1>10. IsElf(ram[init_elf_start])
  BY <1>2, <1>3, <1>9 DEF IsElf
<1>11. Image(Elf) \cap DOMAIN Placed(modules) = {}
  <2>1. PICK t \in DOMAIN modules : e \in Range(modules[t].entries)
    BY <1>2 DEF Present
  <2>2. modules[t] \in Range(modules)
    BY <1>1, ArchivesAre
  <2>3. PICK m \in Range(modules) : e \in Range(m.entries)
    BY <2>1, <2>2
  <2>4. PICK i \in DOMAIN m.entries : e = m.entries[i]
    BY <2>3 DEF Range
  <2>5. ~(Image(m.entries[i].data) \cap DOMAIN Placed(modules) # {})
    BY <1>3, <2>4, Zenon DEF InTheWay
  <2> QED BY <1>2, <2>4, <2>5
<1> QED BY <1>5, <1>6, <1>8, <1>9, <1>10, <1>11 DEF ProgramFound

LEMMA TagsEndInv ==
    ASSUME BootInv, TagsEnd
    PROVE  BootInv'
<1>0. stage = "tags" /\ BootTypes /\ ArchivesKept /\ ~InTheWay(modules) /\ segment = 0
  BY DEF BootInv, TagsEnd
<1>1. modules \in Archives \cup {<<>>}
  BY <1>0 DEF BootTypes
<1>2. Unpacked(AllEntries)
  <2>1. tag = Len(modules) /\ Unpacked(Whole(modules, tag))
    BY <1>0 DEF TagsEnd, BootInv
  <2> QED BY <1>1, <2>1, AllEntriesAre
<1>3. UNCHANGED <<modules, ram, tag, ptr, segment, registered, init_elf_start, init_elf_size>>
  BY DEF TagsEnd
<1>4. AllEntries' = AllEntries /\ Elf' = Elf
  BY <1>3 DEF AllEntries, Elf
<1>5. Unpacked(AllEntries)'
  <2>1. PICK es : es = AllEntries
    OBVIOUS
  <2>2. Unpacked(es)'
    BY <1>2, <1>3, <2>1, UnpackedStays
  <2> QED BY <1>4, <2>1, <2>2 DEF Unpacked, FoundInit
<1>6. BootTypes'
  BY <1>0, BootTypesStep DEF BootNext
<1>7. ~InTheWay(modules)' /\ ArchivesKept'
  BY <1>0, <1>3, ArchivesStay
<1>8. CASE Inits(AllEntries) = <<>>
  <2>1. init_elf_start = 0
    BY <1>2, <1>8 DEF Unpacked, FoundInit
  <2>2. stage' = "halted"
    BY <2>1 DEF TagsEnd
  <2> QED BY <1>0, <1>3, <1>4, <1>5, <1>6, <1>7, <1>8, <2>2 DEF BootInv
<1>9. CASE Inits(AllEntries) # <<>> /\ Elf = <<>>
  <2>1. init_elf_size = 0
    <3>1. init_elf_size = Len(Elf)
      BY <1>2, <1>9 DEF Unpacked, FoundInit, Elf
    <3> QED BY <1>9, <3>1
  <2>2. stage' = "halted"
    BY <2>1 DEF TagsEnd
  <2> QED BY <1>0, <1>3, <1>4, <1>5, <1>6, <1>7, <1>9, <2>2 DEF BootInv
<1>10. CASE Inits(AllEntries) # <<>> /\ Elf # <<>>
  <2>1. ProgramFound
    BY <1>0, <1>2, <1>10, ProgramIs
  <2>2. init_elf_start # 0 /\ init_elf_size # 0
    <3>1. init_elf_start # 0 /\ init_elf_size = Len(Elf)
      BY <1>2, <1>10 DEF Unpacked, FoundInit, Elf
    <3> QED BY <2>1, <3>1 DEF ProgramFound
  <2>3. stage' = "load"
    BY <2>1, <2>2 DEF TagsEnd, ProgramFound
  <2>4. segment' <= Len(Elf[1].segments)' /\ SegmentsLoaded(segment)'
    <3>1. Len(Elf[1].segments) \in Nat
      BY <2>1, LenProperties DEF ProgramFound, IsLinked
    <3>2. segment' = 0
      BY <1>0, <1>3
    <3>3. SegmentsLoaded(segment)'
      BY <3>2 DEF SegmentsLoaded
    <3> QED BY <1>4, <3>1, <3>2, <3>3
  <2> QED BY <1>3, <1>5, <1>6, <1>7, <2>2, <2>3, <2>4 DEF BootInv
<1> QED BY <1>8, <1>9, <1>10

LEMMA LoadedProgram ==
    ASSUME BootInv, stage \in {"load", "started", "running"}
    PROVE  ProgramFound /\ ProgramHeaders = Elf[1].segments
<1>1. /\ BootTypes /\ Unpacked(AllEntries) /\ ~InTheWay(modules) /\ ArchivesKept
      /\ init_elf_start # 0 /\ init_elf_size # 0
  BY DEF BootInv
<1>2. Inits(AllEntries) # <<>> /\ init_elf_size = Len(Elf)
  BY <1>1 DEF Unpacked, FoundInit, Elf
<1>3. Elf # <<>>
  BY <1>1, <1>2
<1>4. ProgramFound
  BY <1>1, <1>2, <1>3, ProgramIs
<1> QED BY <1>4 DEF ProgramHeaders, ProgramFound

\* A step that leaves the archives, and what was unpacked, as they are.
LEMMA UnpackedAllStays ==
    ASSUME BootInv, stage \notin {"tags", "unpack"},
           UNCHANGED <<modules, registered, init_elf_start, init_elf_size>>
    PROVE  /\ AllEntries' = AllEntries /\ Elf' = Elf /\ Unpacked(AllEntries)'
           /\ ~InTheWay(modules)'
<1>1. AllEntries' = AllEntries /\ Elf' = Elf
  BY DEF AllEntries, Elf
<1>2. PICK es : es = AllEntries
  OBVIOUS
<1>3. Unpacked(es)'
  BY <1>2, UnpackedStays DEF BootInv
<1> QED BY <1>1, <1>2, <1>3 DEF Unpacked, FoundInit, BootInv

\* What the loader writes: the segment, from the file, and zeros behind it.
LEMMA LoadedIs ==
    ASSUME ProgramFound, init_elf_start \in Nat, NEW j \in DOMAIN Elf[1].segments,
           NEW s, s = Elf[1].segments[j], NEW x
    PROVE  /\ x \in PlaceOf(s) =>
                /\ x \in DOMAIN Loaded(s)
                /\ Loaded(s)[x] =
                    IF x < s.vaddr + s.filesz THEN Elf[s.offset + (x - s.vaddr) + 1] ELSE Nul
           /\ x \in DOMAIN ram \ PlaceOf(s) => x \in DOMAIN Loaded(s) /\ Loaded(s)[x] = ram[x]
<1>1. /\ Elf[1].segments \in Seq([vaddr : Nat, offset : Nat, filesz : Nat, memsz : Nat])
      /\ \A q \in Range(Elf[1].segments) :
            q.filesz <= q.memsz /\ q.offset + q.filesz <= Len(Elf)
  BY DEF ProgramFound, IsLinked
<1>2. /\ s \in [vaddr : Nat, offset : Nat, filesz : Nat, memsz : Nat]
      /\ s \in Range(Elf[1].segments)
  <2>1. PICK ss : ss = Elf[1].segments
    OBVIOUS
  <2>2. ss \in Seq([vaddr : Nat, offset : Nat, filesz : Nat, memsz : Nat])
    BY <1>1, <2>1
  <2>3. j \in 1 .. Len(ss) /\ s = ss[j] /\ s \in Range(ss)
    BY <2>1, <2>2, LenProperties DEF Range
  <2>4. \A R : ss \in Seq(R) => ss[j] \in R
    BY <2>3, ElementOfSeq
  <2>5. ss[j] \in [vaddr : Nat, offset : Nat, filesz : Nat, memsz : Nat]
    BY <2>2, <2>4, Zenon
  <2> QED BY <2>1, <2>3, <2>5, Zenon
<1>3. /\ s.vaddr \in Nat /\ s.offset \in Nat /\ s.filesz \in Nat /\ s.memsz \in Nat
      /\ s.filesz <= s.memsz /\ s.offset + s.filesz <= Len(Elf) /\ Len(Elf) \in Nat
  BY <1>1, <1>2 DEF ProgramFound
<1>4. PICK v \in Nat, o \in Nat, f \in Nat, m \in Nat :
            /\ v = s.vaddr /\ o = s.offset /\ f = s.filesz /\ m = s.memsz
            /\ f <= m /\ o + f <= Len(Elf)
  BY <1>3
<1>5. Loaded(s) = [y \in DOMAIN ram \cup PlaceOf(s) |->
                    IF y \in v .. v + f - 1 THEN ram[init_elf_start + o + (y - v)]
                    ELSE IF y \in v + f .. v + m - 1 THEN Nul ELSE ram[y]]
  BY <1>4, Zenon DEF Loaded
<1>6. PlaceOf(s) = v .. v + m - 1
  BY <1>4 DEF PlaceOf
<1>7. ASSUME x \in PlaceOf(s)
      PROVE  /\ x \in DOMAIN Loaded(s)
             /\ Loaded(s)[x] = IF x < v + f THEN Elf[o + (x - v) + 1] ELSE Nul
  <2>1. x \in v .. v + m - 1 /\ x \in Int
    BY <1>6, <1>7
  <2>2. CASE x < v + f
    <3>1. x \in v .. v + f - 1
      BY <2>1, <2>2
    <3>2. Loaded(s)[x] = ram[init_elf_start + o + (x - v)]
      BY <1>5, <1>7, <3>1
    <3>3. /\ o + (x - v) + 1 \in 1 .. Len(Elf)
          /\ init_elf_start + (o + (x - v) + 1) - 1 = init_elf_start + o + (x - v)
      <4>1. PICK a \in Nat, len \in Nat : a = init_elf_start /\ len = Len(Elf)
        BY <1>3
      <4>2. PICK d \in Nat : d = x - v
        BY <2>1
      <4>3. d < f /\ o + f <= len
        <5>1. o + f <= len
          BY <1>4, <4>1
        <5>2. x \in Int /\ x < v + f /\ d = x - v
          BY <2>1, <2>2, <4>2
        <5> QED BY <5>1, <5>2
      <4>4. o + d + 1 \in 1 .. len /\ a + (o + d + 1) - 1 = a + o + d
        BY <4>3
      <4> QED BY <4>1, <4>2, <4>4, Zenon
    <3>4. \A i \in 1 .. Len(Elf) : ram[init_elf_start + i - 1] = Elf[i]
      BY DEF ProgramFound
    <3>5. ram[init_elf_start + (o + (x - v) + 1) - 1] = Elf[o + (x - v) + 1]
      BY <3>3, <3>4
    <3> QED BY <1>5, <1>7, <2>2, <3>2, <3>3, <3>5
  <2>3. CASE ~(x < v + f)
    <3>1. x \notin v .. v + f - 1 /\ x \in v + f .. v + m - 1
      BY <2>1, <2>3
    <3> QED BY <1>5, <1>7, <2>3, <3>1
  <2> QED BY <2>2, <2>3
<1>8. ASSUME x \in DOMAIN ram \ PlaceOf(s)
      PROVE  x \in DOMAIN Loaded(s) /\ Loaded(s)[x] = ram[x]
  <2>1. v .. v + f - 1 \subseteq v .. v + m - 1 /\ v + f .. v + m - 1 \subseteq v .. v + m - 1
    <3>1. v + f <= v + m /\ v <= v + f
      BY <1>4
    <3>2. \A y \in Int : y \in v .. v + f - 1 => y \in v .. v + m - 1
      BY <3>1
    <3>3. \A y \in Int : y \in v + f .. v + m - 1 => y \in v .. v + m - 1
      BY <3>1
    <3> QED BY <3>2, <3>3
  <2>2. x \notin v .. v + f - 1 /\ x \notin v + f .. v + m - 1
    BY <1>6, <1>8, <2>1, Zenon
  <2> QED BY <1>5, <1>8, <2>2
<1> QED BY <1>4, <1>7, <1>8

LEMMA LoadSegmentInv ==
    ASSUME BootInv, LoadSegment
    PROVE  BootInv'
<1>0. /\ stage = "load" /\ BootTypes /\ ArchivesKept
      /\ segment <= Len(Elf[1].segments) /\ SegmentsLoaded(segment)
      /\ init_elf_start # 0 /\ init_elf_size # 0
  BY DEF BootInv, LoadSegment
<1>1. ProgramFound /\ ProgramHeaders = Elf[1].segments
  BY <1>0, LoadedProgram
<1>2. /\ Len(Elf[1].segments) \in Nat /\ DOMAIN Elf[1].segments = 1 .. Len(Elf[1].segments)
      /\ segment \in Nat /\ init_elf_start \in Nat
  BY <1>0, <1>1, LenProperties DEF ProgramFound, IsLinked, BootTypes
<1>3. segment < Len(Elf[1].segments)
  BY <1>1 DEF LoadSegment
<1>4. segment + 1 \in DOMAIN Elf[1].segments /\ segment + 1 <= Len(Elf[1].segments)
  BY <1>2, <1>3
<1>5. PICK s : s = Elf[1].segments[segment + 1]
  OBVIOUS
<1>6. /\ segment' = segment + 1 /\ ram' = Loaded(s) /\ stage' = "load"
      /\ UNCHANGED <<modules, tag, ptr, registered, init_elf_start, init_elf_size>>
  BY <1>0, <1>1, <1>5 DEF LoadSegment
<1>7. /\ AllEntries' = AllEntries /\ Elf' = Elf /\ Unpacked(AllEntries)'
      /\ ~InTheWay(modules)'
  BY <1>0, <1>6, UnpackedAllStays
<1>8. ArchivesKept'
  <2> SUFFICES ASSUME NEW x \in DOMAIN Placed(modules)
               PROVE  x \in DOMAIN Loaded(s) /\ Loaded(s)[x] = Placed(modules)[x]
    BY <1>6 DEF ArchivesKept
  <2>1. x \in DOMAIN ram /\ ram[x] = Placed(modules)[x]
    BY <1>0 DEF ArchivesKept
  <2>2. s \in Range(Elf[1].segments)
    BY <1>4, <1>5 DEF Range
  <2>3. x \notin PlaceOf(s)
    BY <1>1, <2>2 DEF ProgramFound, Image
  <2>4. x \in DOMAIN Loaded(s) /\ Loaded(s)[x] = ram[x]
    BY <1>1, <1>2, <1>4, <1>5, <2>1, <2>3, LoadedIs
  <2> QED BY <2>1, <2>4
<1>9. SegmentsLoaded(segment)'
  <2> SUFFICES ASSUME NEW j \in 1 .. segment + 1, NEW q, q = Elf[1].segments[j],
                      NEW x \in PlaceOf(q)
               PROVE  /\ x \in DOMAIN Loaded(s)
                      /\ Loaded(s)[x] = IF x < q.vaddr + q.filesz
                                        THEN Elf[q.offset + (x - q.vaddr) + 1] ELSE Nul
    BY <1>6, <1>7 DEF SegmentsLoaded
  <2>1. CASE j = segment + 1
    BY <1>1, <1>2, <1>4, <1>5, <2>1, LoadedIs
  <2>2. CASE j # segment + 1
    <3>1. j \in 1 .. segment /\ j \in DOMAIN Elf[1].segments
      BY <1>2, <1>3, <2>2
    <3>2. /\ x \in DOMAIN ram
          /\ ram[x] = IF x < q.vaddr + q.filesz
                      THEN Elf[q.offset + (x - q.vaddr) + 1] ELSE Nul
      BY <1>0, <3>1 DEF SegmentsLoaded
    <3>3. x \notin PlaceOf(s)
      BY <1>1, <1>4, <1>5, <2>2, <3>1 DEF ProgramFound, IsLinked
    <3>4. x \in DOMAIN Loaded(s) /\ Loaded(s)[x] = ram[x]
      BY <1>1, <1>2, <1>4, <1>5, <3>2, <3>3, LoadedIs
    <3> QED BY <3>2, <3>4
  <2> QED BY <2>1, <2>2
<1>10. BootTypes'
  BY <1>0, BootTypesStep DEF BootNext
<1>11. segment' <= Len(Elf[1].segments)' /\ SegmentsLoaded(segment)'
  BY <1>4, <1>6, <1>7, <1>9
<1>12. init_elf_start' # 0 /\ init_elf_size' # 0
  BY <1>0, <1>6
<1> QED BY <1>6, <1>7, <1>8, <1>10, <1>11, <1>12 DEF BootInv

LEMMA LoadEndsInv ==
    ASSUME BootInv, LoadEnds
    PROVE  BootInv'
<1>0. /\ stage = "load" /\ BootTypes /\ ArchivesKept /\ ~InTheWay(modules)
      /\ segment <= Len(Elf[1].segments) /\ SegmentsLoaded(segment)
      /\ init_elf_start # 0 /\ init_elf_size # 0
  BY DEF BootInv, LoadEnds
<1>1. ProgramFound /\ ProgramHeaders = Elf[1].segments
  BY <1>0, LoadedProgram
<1>2. /\ stage' = "started" /\ segment' = 0
      /\ UNCHANGED <<modules, ram, tag, ptr, registered, init_elf_start, init_elf_size>>
  BY DEF LoadEnds
<1>3. segment = Len(Elf[1].segments)
  <2>1. Len(Elf[1].segments) \in Nat /\ segment \in Nat
    BY <1>0, <1>1, LenProperties DEF ProgramFound, IsLinked, BootTypes
  <2>2. segment >= Len(Elf[1].segments)
    BY <1>1 DEF LoadEnds
  <2> QED BY <1>0, <2>1, <2>2
<1>4. /\ AllEntries' = AllEntries /\ Elf' = Elf /\ Unpacked(AllEntries)'
      /\ ~InTheWay(modules)'
  BY <1>0, <1>2, UnpackedAllStays
<1>5. ArchivesKept'
  BY <1>0, <1>2, ArchivesStay
<1>6. SegmentsLoaded(Len(Elf[1].segments))'
  BY <1>0, <1>2, <1>3, <1>4 DEF SegmentsLoaded
<1>7. BootTypes'
  BY <1>0, BootTypesStep DEF BootNext
<1>8. init_elf_start' # 0 /\ init_elf_size' # 0
  BY <1>0, <1>2
<1> QED BY <1>2, <1>4, <1>5, <1>6, <1>7, <1>8 DEF BootInv

LEMMA RunInv ==
    ASSUME BootInv, Run
    PROVE  BootInv'
<1>0. /\ stage \in {"started", "running"} /\ BootTypes /\ ArchivesKept
      /\ segment = 0 /\ init_elf_start # 0 /\ init_elf_size # 0
  BY DEF BootInv, Run
<1>1. PICK x \in DOMAIN ram \ DOMAIN Placed(modules) : ram' = [ram EXCEPT ![x] = Scratch]
  BY DEF Run
<1>2. /\ stage' = "running"
      /\ UNCHANGED <<modules, tag, ptr, segment, registered, init_elf_start, init_elf_size>>
  BY DEF Run
<1>3. Unpacked(AllEntries)' /\ ~InTheWay(modules)'
  BY <1>0, <1>2, UnpackedAllStays
<1>4. ArchivesKept'
  BY <1>0, <1>1, <1>2 DEF ArchivesKept
<1>5. BootTypes'
  BY <1>0, BootTypesStep DEF BootNext
<1>6. init_elf_start' # 0 /\ init_elf_size' # 0 /\ segment' = 0
  BY <1>0, <1>2
<1> QED BY <1>2, <1>3, <1>4, <1>5, <1>6 DEF BootInv

LEMMA ExecveInv ==
    ASSUME BootInv, Execve
    PROVE  BootInv'
<1>0. /\ stage = "running" /\ BootTypes /\ ArchivesKept /\ ~InTheWay(modules)
      /\ segment = 0 /\ init_elf_start # 0 /\ init_elf_size # 0
  BY DEF BootInv, Execve
<1>1. ProgramFound
  BY <1>0, LoadedProgram
<1>2. /\ stage' = "load"
      /\ UNCHANGED <<modules, ram, tag, ptr, segment, registered, init_elf_start,
                     init_elf_size>>
  BY <1>1 DEF Execve, ProgramFound
<1>3. Elf' = Elf /\ Unpacked(AllEntries)' /\ ~InTheWay(modules)'
  BY <1>0, <1>2, UnpackedAllStays
<1>4. ArchivesKept'
  BY <1>0, <1>2, ArchivesStay
<1>5. segment' <= Len(Elf[1].segments)' /\ SegmentsLoaded(segment)'
  <2>1. Len(Elf[1].segments) \in Nat
    BY <1>1, LenProperties DEF ProgramFound, IsLinked
  <2>2. segment' = 0
    BY <1>0, <1>2
  <2>3. SegmentsLoaded(segment)'
    BY <2>2 DEF SegmentsLoaded
  <2> QED BY <1>3, <2>1, <2>2, <2>3
<1>6. BootTypes'
  BY <1>0, BootTypesStep DEF BootNext
<1>7. init_elf_start' # 0 /\ init_elf_size' # 0
  BY <1>0, <1>2
<1> QED BY <1>2, <1>3, <1>4, <1>5, <1>6, <1>7 DEF BootInv

LEMMA BootStep ==
    ASSUME BootInv, [BootNext]_boot
    PROVE  BootInv'
<1>1. CASE UNCHANGED boot
  <2>1. UNCHANGED <<modules, ram, stage, tag, ptr, segment, registered, init_elf_start,
                    init_elf_size>>
    BY <1>1 DEF boot
  <2>2. AllEntries' = AllEntries /\ Elf' = Elf
    BY <2>1 DEF AllEntries, Elf
  <2>3. BootTypes' /\ ArchivesKept' /\ ~InTheWay(modules)'
    BY <2>1, BootTypesStep, ArchivesStay DEF BootInv
  <2>6. /\ stage' = "tags" => Unpacked(Whole(modules, tag))'
        /\ stage' \notin {"tags", "unpack"} => Unpacked(AllEntries)'
    BY <2>1, <2>2 DEF BootInv, Unpacked, FoundInit, LiesAt
  <2>7. ASSUME stage' = "unpack"
        PROVE  /\ tag' > 0
               /\ \E k \in 0 .. Len(modules[tag].entries)' :
                    ptr' = Begin(modules[tag], k)' /\ Unpacked(Seen(modules, tag - 1, k))'
    BY <2>1, <2>7 DEF BootInv, Unpacked, FoundInit, LiesAt
  <2>8. /\ stage' = "load" => segment' <= Len(Elf[1].segments)' /\ SegmentsLoaded(segment)'
        /\ stage' = "started" => SegmentsLoaded(Len(Elf[1].segments))'
    BY <2>1, <2>2 DEF BootInv, SegmentsLoaded
  <2> QED BY <2>1, <2>2, <2>3, <2>6, <2>7, <2>8 DEF BootInv
<1>2. CASE Halt
  BY <1>1, <1>2 DEF Halt
<1> QED BY <1>1, <1>2, ModuleTagInv, UnpackInv, UnpackEndsInv, TagsEndInv, LoadSegmentInv,
           LoadEndsInv, RunInv, ExecveInv DEF BootNext

LEMMA BootInvStarts == BootInv => InitStarts
<1> SUFFICES ASSUME BootInv PROVE InitStarts
  OBVIOUS
<1> DEFINE inits == Inits(AllEntries)
           elf == inits[Len(inits)].data
           files == FilesOf(AllEntries)
<1>1. elf = Elf
  BY DEF Elf, LastInit
<1>2. stage = "halted" => inits = <<>> \/ elf = <<>>
  BY <1>1 DEF BootInv
<1>3. ASSUME stage = "started"
      PROVE  /\ \A s \in Range(elf[1].segments) : \A i \in 0 .. s.memsz - 1 :
                    ram[s.vaddr + i] = IF i < s.filesz THEN elf[s.offset + i + 1] ELSE Nul
             /\ registered = FirstFiles(files)
  <2> HIDE DEF elf
  <2>1. SegmentsLoaded(Len(Elf[1].segments)) /\ Unpacked(AllEntries)
    BY <1>3 DEF BootInv
  <2>2. ProgramFound
    BY <1>3, LoadedProgram
  <2>3. ASSUME NEW s \in Range(elf[1].segments), NEW i \in 0 .. s.memsz - 1
        PROVE  ram[s.vaddr + i] = IF i < s.filesz THEN elf[s.offset + i + 1] ELSE Nul
    <3>1. Elf[1].segments \in Seq([vaddr : Nat, offset : Nat, filesz : Nat, memsz : Nat])
      BY <2>2 DEF ProgramFound, IsLinked
    <3>2. PICK j \in 1 .. Len(Elf[1].segments) : s = Elf[1].segments[j]
      BY <1>1, <3>1 DEF Range
    <3>3. s.vaddr \in Nat /\ s.offset \in Nat /\ s.filesz \in Nat /\ s.memsz \in Nat
      <4>1. s \in [vaddr : Nat, offset : Nat, filesz : Nat, memsz : Nat]
        BY <3>1, <3>2, ElementOfSeq
      <4> QED BY <4>1
    <3>4. PICK x : x = s.vaddr + i
      OBVIOUS
    <3>5. x \in PlaceOf(s)
      BY <3>3, <3>4 DEF PlaceOf
    <3>6. ram[x] = IF x < s.vaddr + s.filesz THEN Elf[s.offset + (x - s.vaddr) + 1] ELSE Nul
      BY <2>1, <3>2, <3>5 DEF SegmentsLoaded
    <3>7. /\ x < s.vaddr + s.filesz <=> i < s.filesz
          /\ s.offset + (x - s.vaddr) + 1 = s.offset + i + 1
      <4>1. PICK v \in Nat, o \in Nat, f \in Nat : v = s.vaddr /\ o = s.offset /\ f = s.filesz
        BY <3>3
      <4>2. i \in Int /\ x = v + i
        BY <3>4, <4>1
      <4>3. (x < v + f <=> i < f) /\ o + (x - v) + 1 = o + i + 1
        BY <4>2
      <4> QED BY <4>1, <4>3
    <3> QED BY <1>1, <3>4, <3>6, <3>7
  <2>4. registered = FirstFiles(files)
    BY <2>1 DEF Unpacked
  <2> QED BY <2>3, <2>4
<1> QED BY <1>2, <1>3 DEF InitStarts, FirstFiles, Kept

\* Unless init is linked to where an archive lies: what starts, at boot and after every
\* execve, is the last init of the archives, unchanged; the kernel halts only if there is
\* none; and ramfs has the files (main.c:71-125, 268-284, elf.c:48-77, task.c:172).
THEOREM LastInitStarts == BootCareful => (BootSpec => []InitStarts)
<1> SUFFICES ASSUME BootCareful PROVE BootSpec => []InitStarts
  OBVIOUS
<1>1. ASSUME \E ms \in Archives \cup {<<>>} : BootInit(ms) PROVE BootInv
  BY <1>1, BootInitInv
<1>2. BootInv /\ [BootNext]_boot => BootInv'
  BY BootStep
<1> QED BY <1>1, <1>2, BootInvStarts, PTL DEF BootSpec

-----------------------------------------------------------------------------
(* All calls together.                                                     *)

\* What a step of all calls leaves unchanged, if it is none.
calls == <<fd_table, sockets, transfers, memory, boot, family>>

\* While a program uses files, no slot of a socket is used.
NoSockets == UnixTypeOK /\ InetTypeOK /\ UsedUnix = {} /\ UsedInet = {}

\* The inductive invariant of what shares fd_table.  Memory and the boot share nothing with
\* it, and have their own.
CallsInv ==
    /\ family = "files" => TransfersInv /\ NoSockets
    /\ family # "files" => SocketsInv /\ TransfersInit

LEMMA CallsInitInv == Init => CallsInv
<1> SUFFICES ASSUME Init PROVE CallsInv
  OBVIOUS
<1>1. fd_table = [f \in Fds |-> Empty] /\ UnixInit /\ InetInit /\ TransfersInit
  BY DEF Init, SocketsInit
<1>2. SocketsInv /\ TransfersInv
  BY <1>1, UnixInitInv, InetInitInv, TransfersInitInv DEF SocketsInv
<1>3. UsedUnix = {} /\ UsedInet = {}
  BY <1>1 DEF UnixInit, InetInit, UsedUnix, UsedInet
<1>4. NoSockets
  BY <1>2, <1>3 DEF NoSockets, SocketsInv, UnixInv, InetInv
<1> QED BY <1>1, <1>2, <1>4 DEF CallsInv

\* Sockets that a step leaves alone, or that are called.
LEMMA SocketCalls ==
    ASSUME Careful, SocketsInv, [SocketsNext]_<<fd_table, sockets>>
    PROVE  SocketsInv' /\ StreamStep
  BY SocketsStep, SocketsStay DEF StreamStep

\* Every step is one of the sockets and none of the files, or the other way round.
LEMMA CallsAre ==
    ASSUME [Next]_calls
    PROVE  /\ UNCHANGED family
           /\ family = "files" => [TransfersNext]_<<fd_table, transfers>> /\ UNCHANGED sockets
           /\ family # "files" => [SocketsNext]_<<fd_table, sockets>> /\ UNCHANGED transfers
<1>1. CASE UNCHANGED calls
  BY <1>1 DEF calls
<1>2. CASE family = "unix" /\ UnixNext /\ UNCHANGED <<inet_sockets, mail, transfers>>
           /\ UNCHANGED family
  BY <1>2 DEF SocketsNext
<1>3. CASE family = "unix" /\ InetSocket /\ UNCHANGED <<unix_sockets, bound, transfers>>
           /\ UNCHANGED family
  BY <1>3 DEF SocketsNext, InetNext
<1>4. CASE family = "inet" /\ InetNext /\ UNCHANGED <<unix_sockets, bound, transfers>>
           /\ UNCHANGED family
  BY <1>4 DEF SocketsNext
<1>5. CASE family = "files" /\ TransfersNext /\ UNCHANGED sockets /\ UNCHANGED family
  BY <1>5
<1>6. CASE family \in {"memory", "boot"} /\ UNCHANGED <<fd_table, sockets, transfers>>
           /\ UNCHANGED family
  BY <1>6
<1> QED BY <1>1, <1>2, <1>3, <1>4, <1>5, <1>6 DEF Next

LEMMA CallsStep ==
    ASSUME Careful, CallsInv, [Next]_calls
    PROVE  CallsInv'
<1>1. UNCHANGED family
  BY CallsAre
<1>2. CASE family = "files"
  <2>1. TransfersInv'
    BY <1>2, CallsAre, TransfersStep DEF CallsInv
  <2>2. UNCHANGED <<unix_sockets, bound, inet_sockets, mail>>
    BY <1>2, CallsAre DEF sockets
  <2>3. NoSockets'
    BY <1>2, <2>2 DEF CallsInv, NoSockets, UnixTypeOK, InetTypeOK, UsedUnix, UsedInet
  <2> QED BY <1>1, <1>2, <2>1, <2>3 DEF CallsInv
<1>3. CASE family # "files"
  <2>1. SocketsInv'
    BY <1>3, CallsAre, SocketCalls DEF CallsInv
  <2>2. TransfersInit'
    BY <1>3, CallsAre DEF CallsInv, TransfersInit, transfers
  <2> QED BY <1>1, <1>3, <2>1, <2>2 DEF CallsInv
<1> QED BY <1>2, <1>3

LEMMA CallsInvariance ==
    ASSUME Careful
    PROVE  Spec => []CallsInv
<1>1. CallsInv /\ [Next]_calls => CallsInv'
  BY CallsStep
<1> QED BY <1>1, CallsInitInv, PTL DEF Spec, calls

LEMMA TransfersInitTypes == TransfersInit => TransfersTypeOK
<1> SUFFICES ASSUME TransfersInit PROVE TransfersTypeOK
  OBVIOUS
<1>1. <<>> \in Seq(Values \cup {Zero})
  OBVIOUS
<1>2. MAX_BLOCKS_PER_FILE * BLOCK_SIZE \in Nat /\ OFFSETS \in Nat \ {0} /\ TOTAL_BLOCKS \in Nat
  BY TransfersConstants
<1>3. 0 \in 0 .. MAX_BLOCKS_PER_FILE * BLOCK_SIZE /\ 0 \in 0 .. OFFSETS - 1
  BY <1>2
<1>4. held \in [RamFiles -> Seq(Values \cup {Zero})]
  BY <1>1 DEF TransfersInit
<1> QED BY <1>2, <1>3, <1>4 DEF TransfersInit, TransfersTypeOK

\* What the invariant says of sockets, when they are used and when they are not.
LEMMA CallsInvSockets ==
    ASSUME CallsInv
    PROVE  /\ UnixTypeOK /\ InetTypeOK /\ TransfersTypeOK
           /\ SlotsOwned /\ NoClientForgotten /\ OneListener /\ MailKept /\ PortsApart
<1>1. CASE family # "files"
  <2>1. SocketsInv /\ TransfersInit
    BY <1>1 DEF CallsInv
  <2>2. UnixTypeOK /\ InetTypeOK /\ SlotsOwned /\ NoClientForgotten
    BY <2>1 DEF SocketsInv, UnixInv, InetInv, SlotsOwned
  <2>3. MailKept
    BY <2>1 DEF SocketsInv, InetInv, RingInv, Holds, MailKept, UsedInet
  <2> QED BY <2>1, <2>2, <2>3, TransfersInitTypes, OneListenerHolds, PortsApartHolds
          DEF SocketsInv
<1>2. CASE family = "files"
  <2>1. TransfersInv /\ UnixTypeOK /\ InetTypeOK /\ UsedUnix = {} /\ UsedInet = {}
    BY <1>2 DEF CallsInv, NoSockets
  <2>2. UnixFds = {} /\ InetFds = {}
    <3>1. \A f \in Fds : fd_table[f].type \in {"EMPTY", "VFS_FILE"}
      BY <2>1 DEF TransfersInv, FileTableOK
    <3> QED BY <3>1 DEF UnixFds, IsUnix, InetFds, IsInet
  <2>3. SlotsOwned /\ NoClientForgotten /\ MailKept /\ PortsApart
    BY <2>1, <2>2 DEF SlotsOwned, UnixSlotsOwned, InetSlotsOwned, NoClientForgotten, MailKept,
                      PortsApart
  <2>4. OneListener
    <3>1. \A p \in Paths : Listeners(p) = {}
      BY <2>1 DEF Listeners, UsedUnix
    <3>2. Cardinality({}) = 0
      BY FS_EmptySet
    <3> QED BY <3>1, <3>2 DEF OneListener
  <2> QED BY <2>1, <2>3, <2>4, TransfersInvTypes
<1> QED BY <1>1, <1>2

\* Memory and the boot go on as they do alone.
LEMMA MemoryRuns == Spec => MemorySpec
<1>1. Init => MemoryInit
  BY DEF Init
<1>2. [Next]_calls => [MemoryNext]_memory
  BY DEF Next, calls
<1> QED BY <1>1, <1>2, PTL DEF Spec, calls, MemorySpec

LEMMA BootRuns == Spec => BootSpec
<1>1. Init => \E ms \in Archives \cup {<<>>} : BootInit(ms)
  BY DEF Init
<1>2. [Next]_calls => [BootNext]_boot
  BY DEF Next, calls
<1> QED BY <1>1, <1>2, PTL DEF Spec, calls, BootSpec

\* Whatever mix of calls fills the one table of descriptors, every variable keeps its type:
\* rings, sizes, offsets, the break and the walk over the archives stay in their ranges
\* (vfs.c:26-84, filesystem.c:18-48, syscall.c:27, main.c:71-125).
THEOREM CallsAreTyped ==
    ASSUME Careful, WindowsClosed, MemoryCareful
    PROVE  Spec => []TypeOK
<1>1. CallsInv => UnixTypeOK /\ InetTypeOK /\ TransfersTypeOK
  BY CallsInvSockets
<1>2. UnixTypeOK /\ InetTypeOK /\ TransfersTypeOK /\ MemoryTypeOK /\ BootTypeOK => TypeOK
  BY DEF TypeOK
<1> QED BY <1>1, <1>2, CallsInvariance, MemoryRuns, BootRuns, MemoryTypes, BootIsTyped, PTL

\* With all calls in one kernel: every socket in use has its descriptor, every client its
\* listener, every path one listener and every port one socket; datagrams arrive in order; no
\* address is given twice; and what starts is the last init (vfs.c:391-552,
\* syscall.c:78-90, 201-211, main.c:71-125, elf.c:48-77).
THEOREM CallsAreSafe ==
    ASSUME Careful, WindowsClosed, MemoryCareful, BootCareful
    PROVE  Spec => []( /\ SlotsOwned /\ NoClientForgotten /\ OneListener
                       /\ MailKept /\ PortsApart /\ GivenOnce /\ InitStarts )
<1>1. CallsInv => SlotsOwned /\ NoClientForgotten /\ OneListener /\ MailKept /\ PortsApart
  BY CallsInvSockets
<1>2. BootSpec => []InitStarts
  BY LastInitStarts
<1> QED BY <1>1, <1>2, CallsInvariance, MemoryRuns, BootRuns, NothingGivenTwice, PTL

\* With all calls in one kernel: stream sockets implement Streams, files implement ByteFiles,
\* and no call takes the break back (vfs.c:299-347, 469-516, syscall.c:86-88, 208).
THEOREM CallsImplement ==
    ASSUME Careful, WindowsClosed, MemoryCareful, TransfersCareful
    PROVE  Spec => StreamsKept /\ FilesKept /\ BrkNeverFalls
<1>1. Init => Stream!Init
  BY NoneIsNoSlot
  DEF Init, SocketsInit, UnixInit, Stream!Init, Partner, UsedUnix
<1>2. Init => Plain!Init
  BY TransfersStartPlain DEF Init, SocketsInit
<1>3. CallsInv /\ [Next]_calls => [Stream!Next]_<<partners, askers, inboxes>>
  <2> SUFFICES ASSUME CallsInv, [Next]_calls
               PROVE  [Stream!Next]_<<partners, askers, inboxes>>
    OBVIOUS
  <2>1. CASE family # "files"
    BY <2>1, CallsAre, SocketCalls DEF CallsInv, StreamStep
  <2>2. CASE family = "files"
    <3>1. UNCHANGED unix_sockets
      BY <2>2, CallsAre DEF sockets
    <3>2. UNCHANGED <<partners, askers, inboxes>>
      BY <3>1, SamePartners DEF SameUse, SameLinks, SameQueues
    <3> QED BY <3>2
  <2> QED BY <2>1, <2>2
<1>4. CallsInv /\ [Next]_calls /\ CallsInv' => [Plain!Next]_<<FileContents, Positions, got>>
  <2> SUFFICES ASSUME CallsInv, [Next]_calls, CallsInv'
               PROVE  [Plain!Next]_<<FileContents, Positions, got>>
    OBVIOUS
  <2>1. CASE family = "files"
    BY <2>1, CallsAre, TransfersRefines DEF CallsInv
  <2>2. CASE family # "files"
    <3>1. UNCHANGED <<held, size, offset, got>> /\ UNCHANGED family
      BY <2>2, CallsAre DEF transfers
    <3>2. FdTypeOK /\ FdTypeOK'
      BY <2>2, <3>1 DEF CallsInv, SocketsInv, UnixInv
    <3>3. FileFds = {} /\ FileFds' = {}
      BY <3>2 DEF FdTypeOK, Types, FileFds
    <3>4. Positions' = Positions
      BY <3>3 DEF Positions
    <3> QED BY <3>1, <3>4, SameContents
  <2> QED BY <2>1, <2>2
<1>5. Spec => StreamsKept
  BY <1>1, <1>3, CallsInvariance, PTL
  DEF Spec, calls, StreamsKept, Stream!Spec, partners, askers, inboxes
<1>6. Spec => FilesKept
  BY <1>2, <1>4, CallsInvariance, PTL
  DEF Spec, calls, FilesKept, Plain!Spec, FileContents, Positions
<1> QED BY <1>5, <1>6, MemoryRuns, TheBreakNeverFalls, PTL
=============================================================================
