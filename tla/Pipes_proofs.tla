----------------------------- MODULE Pipes_proofs -----------------------------
(***************************************************************************)
(* Proofs about the pipe, with a ring of any size, reads and writes of any *)
(* length and ticks anywhere outside of the windows.                       *)
(***************************************************************************)
EXTENDS Pipes, SequenceTheorems, TLAPS

\* The hypothesis of the theorems.
WindowsClosed == TickPoints \cap Windows = {}

Cells == 0 .. PIPE_SIZE - 1
Values == Bytes \cup {Blank}

\* The cell k behind r.
Behind(r, k) == IF r + k < PIPE_SIZE THEN r + k ELSE r + k - PIPE_SIZE

\* Whether t has moved its position and not yet changed count.
Moved(t) == IF pc[t] \in {"count", "countWrite"} THEN 1 ELSE 0

\* The bytes that the reader has not passed and count stands for.
Unread == count - Moved("reader")

InLoop(t) == pc[t] \in {"move", "advance", "count", "countWrite"}
InCall(t) == InLoop(t) \/ pc[t] = "check"

\* In a window the task runs, so that what it holds is what memory holds.
WindowInv ==
    \A t \in Tasks : /\ pc[t] \in Windows => cpu = t
                     /\ pc[t] = "countWrite" => loaded[t] = count
                     /\ pc[t] = "closeFree" => ~IsOpen

\* Who is in a call has its end, and who moves a byte still wants one; only a pipe with
\* no end is free.
EndsInv ==
    /\ \A t \in Tasks : /\ InCall(t) => HasEnd(t)
                        /\ pc[t] = "move" => left[t] > 0
    /\ ~ends.used => ~IsOpen

\* There is a byte for the reader and room for the writer; the positions are as far apart
\* as count and what is on its way say; the byte on its way in is there.
RingInv ==
    /\ InLoop("reader") => count > 0
    /\ InLoop("writer") => count < PIPE_SIZE
    /\ write_pos = Behind(read_pos, Unread + Moved("writer"))
    /\ pc["writer"] = "advance" \/ Moved("writer") = 1
            => data[Behind(read_pos, Unread)] \in Bytes

\* The inductive invariant.
PipeInv == TypeOK /\ WindowInv /\ EndsInv /\ RingInv
-----------------------------------------------------------------------------
(* Arithmetic of the ring, and sequences.                                  *)

LEMMA ModIs ==
    ASSUME NEW N \in Nat \ {0}, NEW r \in 0 .. N - 1, NEW k \in 0 .. N
    PROVE  (r + k) % N = IF r + k < N THEN r + k ELSE r + k - N
  OBVIOUS

LEMMA BehindFacts ==
    ASSUME NEW r \in Cells
    PROVE  /\ \A k \in 0 .. PIPE_SIZE : /\ Behind(r, k) \in Cells
                                        /\ (r + k) % PIPE_SIZE = Behind(r, k)
           /\ After(r) = Behind(r, 1)
           /\ \A k \in 0 .. PIPE_SIZE - 1 : Behind(Behind(r, k), 1) = Behind(r, k + 1)
           /\ \A k \in 0 .. PIPE_SIZE - 1 : Behind(Behind(r, 1), k) = Behind(r, k + 1)
           /\ \A j, k \in 0 .. PIPE_SIZE - 1 : Behind(r, j) = Behind(r, k) => j = k
<1>1. PIPE_SIZE \in Nat \ {0} /\ r \in 0 .. PIPE_SIZE - 1
  BY PipesAssumption DEF PipesAssumption, Cells
<1>2. ASSUME NEW k \in 0 .. PIPE_SIZE
      PROVE  (r + k) % PIPE_SIZE = Behind(r, k)
  BY <1>1, ModIs, Zenon DEF Behind
<1>3. After(r) = Behind(r, 1)
  <2>1. 1 \in 0 .. PIPE_SIZE
    BY <1>1
  <2> QED BY <1>2, <2>1 DEF After
<1>4. /\ \A k \in 0 .. PIPE_SIZE : Behind(r, k) \in Cells
      /\ \A k \in 0 .. PIPE_SIZE - 1 : Behind(Behind(r, k), 1) = Behind(r, k + 1)
      /\ \A k \in 0 .. PIPE_SIZE - 1 : Behind(Behind(r, 1), k) = Behind(r, k + 1)
      /\ \A j, k \in 0 .. PIPE_SIZE - 1 : Behind(r, j) = Behind(r, k) => j = k
  BY <1>1 DEF Behind, Cells
<1> QED BY <1>2, <1>3, <1>4

LEMMA IsTail ==
    ASSUME NEW S, NEW q \in Seq(S), NEW r \in Seq(S), Len(q) # 0, Len(r) = Len(q) - 1,
           \A k \in 1 .. Len(r) : r[k] = q[k + 1]
    PROVE  r = Tail(q) /\ q # <<>>
<1>1. q # <<>>
  OBVIOUS
<1>2. /\ Tail(q) \in Seq(S) /\ Len(Tail(q)) = Len(q) - 1
      /\ \A k \in 1 .. Len(Tail(q)) : Tail(q)[k] = q[k + 1]
  BY <1>1, HeadTailProperties
<1>3. Len(r) = Len(Tail(q)) /\ \A k \in 1 .. Len(r) : r[k] = Tail(q)[k]
  BY <1>2
<1> QED BY <1>1, <1>2, <1>3, SeqEqual

LEMMA IsAppend ==
    ASSUME NEW S, NEW q \in Seq(S), NEW r \in Seq(S), NEW x \in S, Len(r) = Len(q) + 1,
           \A k \in 1 .. Len(q) : r[k] = q[k], r[Len(q) + 1] = x
    PROVE  r = Append(q, x)
<1>1. /\ Append(q, x) \in Seq(S) /\ Len(Append(q, x)) = Len(q) + 1
      /\ Append(q, x)[Len(q) + 1] = x
      /\ \A k \in 1 .. Len(q) : Append(q, x)[k] = q[k]
  BY AppendProperties
<1>2. Len(q) \in Nat /\ \A k \in 1 .. Len(q) + 1 : k \in 1 .. Len(q) \/ k = Len(q) + 1
  OBVIOUS
<1>3. Len(r) = Len(Append(q, x)) /\ \A k \in 1 .. Len(r) : r[k] = Append(q, x)[k]
  BY <1>1, <1>2
<1> QED BY <1>1, <1>3, SeqEqual

\* n bytes of the ring d from r on.
Stretch(d, r, n) == [i \in 1 .. n |-> d[(r + i - 1) % PIPE_SIZE]]

LEMMA StretchIs ==
    ASSUME NEW d \in [Cells -> Values], NEW r \in Cells, NEW n \in 0 .. PIPE_SIZE
    PROVE  /\ Stretch(d, r, n) \in Seq(Values) /\ Len(Stretch(d, r, n)) = n
           /\ \A k \in 1 .. n : Stretch(d, r, n)[k] = d[Behind(r, k - 1)]
<1>1. PIPE_SIZE \in Nat \ {0} /\ n \in Nat
  BY PipesAssumption DEF PipesAssumption
<1> DEFINE s == [k \in 1 .. n |-> d[Behind(r, k - 1)]]
<1>2. Stretch(d, r, n) = s
  <2>1. ASSUME NEW k \in 1 .. n PROVE (r + k - 1) % PIPE_SIZE = Behind(r, k - 1)
    <3>1. k - 1 \in 0 .. PIPE_SIZE /\ r + k - 1 = r + (k - 1)
      BY <1>1 DEF Cells
    <3>2. (r + (k - 1)) % PIPE_SIZE = Behind(r, k - 1)
      BY <3>1, BehindFacts
    <3> QED BY <3>1, <3>2
  <2> QED BY <2>1, Zenon DEF Stretch
<1>3. s \in [1 .. n -> Values]
  <2>1. \A k \in 1 .. n : k - 1 \in 0 .. PIPE_SIZE
    BY <1>1
  <2>2. \A k \in 1 .. n : Behind(r, k - 1) \in Cells
    BY <2>1, BehindFacts
  <2> QED BY <2>2
<1>4. \A k \in 1 .. n : s[k] = d[Behind(r, k - 1)]
  OBVIOUS
<1> HIDE DEF s
<1>5. s \in Seq(Values) /\ Len(s) = n
  BY <1>1, <1>3
<1> QED BY <1>2, <1>4, <1>5

-----------------------------------------------------------------------------
(* The inductive invariant.                                                *)

LEMMA InitPipeInv == Init => PipeInv
<1> SUFFICES ASSUME Init PROVE PipeInv
  OBVIOUS
<1> USE PipesAssumption DEF PipesAssumption, Init, Tasks
<1>1. TypeOK
  BY DEF TypeOK, Points
<1>2. WindowInv
  BY DEF WindowInv, Windows
<1>3. EndsInv
  BY DEF EndsInv, InCall, InLoop, HasEnd, CountOf
<1>4. RingInv
  BY DEF RingInv, InLoop, Moved, Unread, Behind
<1> QED BY <1>1, <1>2, <1>3, <1>4 DEF PipeInv

LEMMA TickStep == WindowsClosed /\ PipeInv /\ Tick => PipeInv'
<1> SUFFICES ASSUME WindowsClosed, PipeInv, Tick PROVE PipeInv'
  OBVIOUS
<1> USE DEF PipeInv, Tick, pipe
<1>1. TypeOK'
  BY DEF TypeOK
<1>2. WindowInv'
  BY DEF WindowInv, WindowsClosed, TypeOK, HasEnd, IsOpen, CountOf
<1>3. EndsInv'
  BY DEF EndsInv, InCall, InLoop, HasEnd, IsOpen, CountOf
<1>4. RingInv'
  BY DEF RingInv, InLoop, Moved, Unread, Behind
<1> QED BY <1>1, <1>2, <1>3, <1>4

\* The steps that leave the ring alone and what is on its way too.
LEMMA CallStep == ASSUME PipeInv, NEW t \in Tasks, Call(t) PROVE PipeInv'
<1> USE DEF PipeInv, Call, pipe, At, Goto
<1>1. TypeOK'
  BY PipesAssumption DEF PipesAssumption, TypeOK, Points
<1>2. WindowInv'
  BY DEF WindowInv, Windows, TypeOK, HasEnd, IsOpen, CountOf, Tasks
<1>3. EndsInv'
  BY DEF EndsInv, InCall, InLoop, HasEnd, IsOpen, CountOf, TypeOK, Tasks
<1>4. RingInv'
  BY DEF RingInv, InLoop, Moved, Unread, Behind, TypeOK, Tasks
<1> QED BY <1>1, <1>2, <1>3, <1>4

LEMMA CheckStep == ASSUME PipeInv, NEW t \in Tasks, Check(t) PROVE PipeInv'
<1> USE DEF PipeInv, Check, MayMove, pipe, At, Goto
<1>1. TypeOK'
  BY DEF TypeOK, Points
<1>2. WindowInv'
  BY DEF WindowInv, Windows, TypeOK, HasEnd, IsOpen, CountOf, Tasks
<1>3. EndsInv'
  BY DEF EndsInv, InCall, InLoop, HasEnd, IsOpen, CountOf, TypeOK, Tasks
<1>4. RingInv'
  BY DEF RingInv, InLoop, Moved, Unread, Behind, TypeOK, Tasks
<1> QED BY <1>1, <1>2, <1>3, <1>4

LEMMA ReturnStep == ASSUME PipeInv, NEW t \in Tasks, Return(t) PROVE PipeInv'
<1> USE DEF PipeInv, Return, pipe, At, Goto
<1>1. TypeOK'
  BY PipesAssumption DEF PipesAssumption, TypeOK, Points
<1>2. WindowInv'
  BY DEF WindowInv, Windows, TypeOK, HasEnd, IsOpen, CountOf, Tasks
<1>3. EndsInv'
  BY DEF EndsInv, InCall, InLoop, HasEnd, IsOpen, CountOf, TypeOK, Tasks
<1>4. RingInv'
  BY DEF RingInv, InLoop, Moved, Unread, Behind, TypeOK, Tasks
<1> QED BY <1>1, <1>2, <1>3, <1>4

\* The bytes of the ring.
LEMMA StoreStep == ASSUME PipeInv, Store PROVE PipeInv'
<1> USE DEF PipeInv, Store, pipe, At, Goto
<1>1. TypeOK'
  <2>1. left["writer"] - 1 \in Nat
    BY DEF TypeOK, Tasks, EndsInv
  <2> QED BY <2>1 DEF TypeOK, Points, Tasks
<1>2. WindowInv'
  BY DEF WindowInv, Windows, TypeOK, HasEnd, IsOpen, CountOf, Tasks
<1>3. EndsInv'
  BY DEF EndsInv, InCall, InLoop, HasEnd, IsOpen, CountOf, TypeOK, Tasks
<1>4. RingInv'
  BY DEF RingInv, InLoop, Moved, Unread, Behind, TypeOK, Tasks
<1> QED BY <1>1, <1>2, <1>3, <1>4

LEMMA LoadStep == ASSUME PipeInv, Load PROVE PipeInv'
<1> USE DEF PipeInv, Load, pipe, At, Goto
<1>1. TypeOK'
  <2>1. left["reader"] - 1 \in Nat
    BY DEF TypeOK, Tasks, EndsInv
  <2> QED BY <2>1 DEF TypeOK, Points, Tasks
<1>2. WindowInv'
  BY DEF WindowInv, Windows, TypeOK, HasEnd, IsOpen, CountOf, Tasks
<1>3. EndsInv'
  BY DEF EndsInv, InCall, InLoop, HasEnd, IsOpen, CountOf, TypeOK, Tasks
<1>4. RingInv'
  BY DEF RingInv, InLoop, Moved, Unread, Behind, TypeOK, Tasks
<1> QED BY <1>1, <1>2, <1>3, <1>4

\* The reader passes a byte and it is no longer among the unread; the writer passes the one
\* it put behind them.
LEMMA AdvanceStep == ASSUME PipeInv, NEW t \in Tasks, Advance(t) PROVE PipeInv'
<1> USE DEF PipeInv, Advance, pipe, At, Goto
<1>1. PIPE_SIZE \in Nat \ {0} /\ Cells = 0 .. PIPE_SIZE - 1
  BY PipesAssumption DEF PipesAssumption, Cells
<1>2. read_pos \in Cells /\ write_pos \in Cells /\ count \in 0 .. PIPE_SIZE
  BY DEF TypeOK, Cells
<1>3. /\ After(read_pos) = Behind(read_pos, 1) /\ After(read_pos) \in Cells
      /\ After(write_pos) = Behind(write_pos, 1) /\ After(write_pos) \in Cells
  <2>1. 1 \in 0 .. PIPE_SIZE
    BY <1>1
  <2> QED BY <1>2, <2>1, BehindFacts
<1>4. read_pos' \in Cells /\ write_pos' \in Cells
  BY <1>2, <1>3
<1>5. TypeOK'
  BY <1>1, <1>4 DEF TypeOK, Points, Tasks
<1>6. WindowInv'
  BY DEF WindowInv, Windows, TypeOK, HasEnd, IsOpen, CountOf, Tasks
<1>7. EndsInv'
  BY DEF EndsInv, InCall, InLoop, HasEnd, IsOpen, CountOf, TypeOK, Tasks
<1>8. (InLoop("reader") => count > 0)' /\ (InLoop("writer") => count < PIPE_SIZE)'
  BY DEF RingInv, InLoop, TypeOK, Tasks
<1>9. CASE t = "writer"
  <2>1. Unread' = Unread /\ Moved("writer") = 0 /\ Moved("writer")' = 1
    BY <1>9 DEF Moved, Unread, TypeOK, Tasks
  <2>2. Unread \in 0 .. PIPE_SIZE - 1
    BY <1>1, <1>2, <1>9 DEF Moved, Unread, RingInv, InLoop, TypeOK, Tasks
  <2>3. write_pos = Behind(read_pos, Unread)
    BY <2>1, <2>2 DEF RingInv
  <2>4. write_pos' = Behind(read_pos, Unread + 1)
    BY <1>2, <1>3, <1>9, <2>2, <2>3, BehindFacts
  <2>5. data[Behind(read_pos, Unread)] \in Bytes
    BY <1>9 DEF RingInv
  <2> QED BY <1>5, <1>6, <1>7, <1>8, <1>9, <2>1, <2>4, <2>5 DEF RingInv, Behind
<1>10. CASE t = "reader"
  <2>1. /\ Moved("reader") = 0 /\ Unread = count /\ Unread' = count - 1
        /\ Moved("writer")' = Moved("writer") /\ Moved("writer") \in {0, 1}
        /\ (pc["writer"] = "advance")' <=> pc["writer"] = "advance"
    BY <1>2, <1>10 DEF Moved, Unread, TypeOK, Tasks
  <2>2. count > 0 /\ count + Moved("writer") <= PIPE_SIZE
    <3>1. count > 0
      BY <1>10 DEF RingInv, InLoop
    <3>2. Moved("writer") = 1 => count < PIPE_SIZE
      BY DEF Moved, RingInv, InLoop
    <3> QED BY <1>1, <1>2, <2>1, <3>1, <3>2
  <2>3. write_pos = Behind(read_pos, count + Moved("writer"))
    BY <2>1 DEF RingInv
  <2>4. write_pos' = Behind(read_pos', count - 1 + Moved("writer"))
    <3>1. /\ count - 1 + Moved("writer") \in 0 .. PIPE_SIZE - 1
          /\ count - 1 + Moved("writer") + 1 = count + Moved("writer")
      BY <1>1, <1>2, <2>1, <2>2
    <3>2. Behind(Behind(read_pos, 1), count - 1 + Moved("writer"))
            = Behind(read_pos, count - 1 + Moved("writer") + 1)
      BY <1>2, <3>1, BehindFacts
    <3> QED BY <1>3, <1>10, <2>3, <3>1, <3>2
  <2>5. (pc["writer"] = "advance" \/ Moved("writer") = 1)
            => data[Behind(read_pos', count - 1)] \in Bytes
    <3>1. count - 1 \in 0 .. PIPE_SIZE - 1 /\ count - 1 + 1 = count
      BY <1>1, <1>2, <2>2
    <3>2. Behind(Behind(read_pos, 1), count - 1) = Behind(read_pos, count - 1 + 1)
      BY <1>2, <3>1, BehindFacts
    <3>3. Behind(read_pos', count - 1) = Behind(read_pos, count)
      BY <1>3, <1>10, <3>1, <3>2
    <3> QED BY <2>1, <3>3 DEF RingInv
  <2>6. data' = data
    OBVIOUS
  <2> QED BY <1>5, <1>6, <1>7, <1>8, <1>10, <2>1, <2>4, <2>5, <2>6 DEF RingInv, Behind
<1> QED BY <1>9, <1>10 DEF Tasks

LEMMA CountStep == ASSUME PipeInv, NEW t \in Tasks, Count(t) PROVE PipeInv'
<1> USE DEF PipeInv, Count, pipe, At, Goto
<1>1. TypeOK'
  BY DEF TypeOK, Points
<1>2. WindowInv'
  BY DEF WindowInv, Windows, TypeOK, HasEnd, IsOpen, CountOf, Tasks
<1>3. EndsInv'
  BY DEF EndsInv, InCall, InLoop, HasEnd, IsOpen, CountOf, TypeOK, Tasks
<1>4. RingInv'
  BY DEF RingInv, InLoop, Moved, Unread, Behind, TypeOK, Tasks
<1> QED BY <1>1, <1>2, <1>3, <1>4

\* count takes in the byte that is on its way, as loaded is count still.
LEMMA CountWriteStep == ASSUME PipeInv, NEW t \in Tasks, CountWrite(t) PROVE PipeInv'
<1> USE DEF PipeInv, CountWrite, pipe, At, Goto
<1>1. PIPE_SIZE \in Nat \ {0} /\ count \in 0 .. PIPE_SIZE /\ loaded[t] = count
  BY PipesAssumption DEF PipesAssumption, TypeOK, WindowInv
<1>2. /\ t = "writer" => count < PIPE_SIZE /\ count' = count + 1
      /\ t = "reader" => count > 0 /\ count' = count - 1
  BY <1>1 DEF RingInv, InLoop
<1>3. count' \in 0 .. PIPE_SIZE
  BY <1>1, <1>2 DEF Tasks
<1>4. TypeOK'
  BY <1>3 DEF TypeOK, Points
<1>5. WindowInv'
  BY DEF WindowInv, Windows, TypeOK, HasEnd, IsOpen, CountOf, Tasks
<1>6. EndsInv'
  BY DEF EndsInv, InCall, InLoop, HasEnd, IsOpen, CountOf, TypeOK, Tasks
<1>7. RingInv'
  <2>1. CASE t = "writer"
    BY <1>1, <1>2, <2>1 DEF RingInv, InLoop, Moved, Unread, Behind, TypeOK, Tasks
  <2>2. CASE t = "reader"
    BY <1>1, <1>2, <2>2 DEF RingInv, InLoop, Moved, Unread, Behind, TypeOK, Tasks
  <2> QED BY <2>1, <2>2 DEF Tasks
<1> QED BY <1>4, <1>5, <1>6, <1>7

\* The ends.
LEMMA CloseStep == ASSUME PipeInv, NEW t \in Tasks, Close(t) PROVE PipeInv'
<1> USE DEF PipeInv, Close, pipe, At, Goto
<1>1. /\ ends' \in [readers : 0 .. 1, writers : 0 .. 1, used : BOOLEAN]
      /\ ends'.readers <= ends.readers /\ ends'.writers <= ends.writers
      /\ \A u \in Tasks \ {t} : HasEnd(u)' = HasEnd(u)
      /\ ends.used
      /\ ends'.used = ends.used
  BY DEF TypeOK, HasEnd, CountOf, Tasks, EndsInv, IsOpen
<1>2. TypeOK'
  BY <1>1 DEF TypeOK, Points
<1>3. WindowInv'
  BY <1>1 DEF WindowInv, Windows, TypeOK, HasEnd, IsOpen, CountOf, Tasks
<1>4. EndsInv'
  BY <1>1 DEF EndsInv, InCall, InLoop, TypeOK, Tasks
<1>5. RingInv'
  BY DEF RingInv, InLoop, Moved, Unread, Behind, TypeOK, Tasks
<1> QED BY <1>2, <1>3, <1>4, <1>5

LEMMA CloseTestStep == ASSUME PipeInv, NEW t \in Tasks, CloseTest(t) PROVE PipeInv'
<1> USE DEF PipeInv, CloseTest, pipe, At, Goto
<1>1. TypeOK'
  BY DEF TypeOK, Points
<1>2. WindowInv'
  BY DEF WindowInv, Windows, TypeOK, HasEnd, IsOpen, CountOf, Tasks
<1>3. EndsInv'
  BY DEF EndsInv, InCall, InLoop, HasEnd, IsOpen, CountOf, TypeOK, Tasks
<1>4. RingInv'
  BY DEF RingInv, InLoop, Moved, Unread, Behind, TypeOK, Tasks
<1> QED BY <1>1, <1>2, <1>3, <1>4

LEMMA CloseFreeStep == ASSUME PipeInv, NEW t \in Tasks, CloseFree(t) PROVE PipeInv'
<1> USE DEF PipeInv, CloseFree, pipe, At, Goto
<1>1. TypeOK'
  BY DEF TypeOK, Points
<1>2. WindowInv'
  BY DEF WindowInv, Windows, TypeOK, HasEnd, IsOpen, CountOf, Tasks
<1>3. EndsInv'
  BY DEF EndsInv, InCall, InLoop, HasEnd, IsOpen, CountOf, TypeOK, Tasks, WindowInv
<1>4. RingInv'
  BY DEF RingInv, InLoop, Moved, Unread, Behind, TypeOK, Tasks
<1> QED BY <1>1, <1>2, <1>3, <1>4

LEMMA OpenStep == ASSUME PipeInv, NEW t \in Tasks, Open(t) PROVE PipeInv'
<1> USE DEF PipeInv, Open, pipe, At, Goto
<1>1. PIPE_SIZE \in Nat \ {0}
  BY PipesAssumption DEF PipesAssumption
<1>2. \A u \in Tasks : ~InCall(u)
  BY DEF EndsInv, IsOpen, HasEnd, CountOf, Tasks
<1>3. cpu = t /\ \A u \in Tasks : pc[u] \in {"user", "closeTest", "closeFree"}
  BY <1>2 DEF InCall, InLoop, Points, TypeOK
<1>4. \A u \in Tasks : pc[u] # "closeFree"
  BY <1>3 DEF WindowInv, Windows
<1>5. TypeOK'
  BY <1>1 DEF TypeOK
<1>6. WindowInv'
  BY <1>3, <1>4 DEF WindowInv, Windows
<1>7. EndsInv'
  BY <1>3 DEF EndsInv, InCall, InLoop
<1>8. RingInv'
  BY <1>1, <1>3 DEF RingInv, InLoop, Moved, Unread, Behind, Tasks
<1> QED BY <1>5, <1>6, <1>7, <1>8

LEMMA PipeInvStep == WindowsClosed /\ PipeInv /\ [Next]_vars => PipeInv'
<1> SUFFICES ASSUME WindowsClosed, PipeInv, [Next]_vars PROVE PipeInv'
  OBVIOUS
<1>1. CASE Tick
  BY <1>1, TickStep
<1>2. ASSUME NEW t \in Tasks, Call(t) \/ Close(t) \/ Open(t) PROVE PipeInv'
  BY <1>2, CallStep, CloseStep, OpenStep
<1>3. ASSUME NEW t \in Tasks, Kernel(t) PROVE PipeInv'
  BY <1>3, CheckStep, ReturnStep, AdvanceStep, CountStep, CountWriteStep, CloseTestStep,
     CloseFreeStep, StoreStep, LoadStep DEF Kernel
<1>4. CASE UNCHANGED vars
  BY <1>4 DEF vars, pipe, PipeInv, TypeOK, WindowInv, EndsInv, RingInv, InCall, InLoop,
              HasEnd, IsOpen, Moved, Unread
<1> QED BY <1>1, <1>2, <1>3, <1>4 DEF Next

LEMMA PipeInvariance ==
    ASSUME WindowsClosed
    PROVE  Init /\ [][Next]_vars => []PipeInv
<1>1. WindowsClosed
  OBVIOUS
<1> QED BY <1>1, InitPipeInv, PipeInvStep, PTL

-----------------------------------------------------------------------------
(* The pipe as a queue.                                                    *)

\* How many bytes wait.
NumWaiting == IF IsOpen THEN Unread ELSE 0

LEMMA UnreadIn ==
    ASSUME PipeInv
    PROVE  /\ PIPE_SIZE \in Nat \ {0} /\ read_pos \in Cells /\ data \in [Cells -> Values]
           /\ Unread \in 0 .. PIPE_SIZE /\ NumWaiting \in 0 .. PIPE_SIZE
<1>1. PIPE_SIZE \in Nat \ {0} /\ count \in 0 .. PIPE_SIZE
  BY PipesAssumption DEF PipesAssumption, PipeInv, TypeOK
<1>2. Unread \in 0 .. PIPE_SIZE
  BY <1>1 DEF PipeInv, RingInv, InLoop, Unread, Moved
<1>3. read_pos \in Cells /\ data \in [Cells -> Values]
  BY DEF PipeInv, TypeOK, Cells, Values
<1> QED BY <1>1, <1>2, <1>3 DEF NumWaiting

\* What waits is the stretch of the ring behind read_pos.
WaitingFacts ==
    /\ Waiting \in Seq(Values) /\ Len(Waiting) = NumWaiting
    /\ \A k \in 1 .. NumWaiting : Waiting[k] = data[Behind(read_pos, k - 1)]

LEMMA WaitingIs == PipeInv => WaitingFacts
<1> SUFFICES ASSUME PipeInv PROVE WaitingFacts
  OBVIOUS
<1> DEFINE r == read_pos  n == NumWaiting
<1>1. data \in [Cells -> Values] /\ r \in Cells /\ n \in 0 .. PIPE_SIZE
  BY UnreadIn
<1>2. Waiting = Stretch(data, r, n)
  BY Zenon DEF Waiting, Stretch, NumWaiting, Unread, Moved
<1> HIDE DEF r, n
<1>3. /\ Stretch(data, r, n) \in Seq(Values) /\ Len(Stretch(data, r, n)) = n
      /\ \A k \in 1 .. n : Stretch(data, r, n)[k] = data[Behind(r, k - 1)]
  BY <1>1, StretchIs
<1> QED BY <1>2, <1>3 DEF WaitingFacts, r, n

LEMMA SameStretch ==
    ASSUME UNCHANGED <<data, read_pos>>, NumWaiting' = NumWaiting
    PROVE  Waiting' = Waiting
<1>1. Waiting = Stretch(data, read_pos, NumWaiting)
  BY Zenon DEF Waiting, Stretch, NumWaiting, Unread, Moved
<1>2. Waiting' = Stretch(data', read_pos', NumWaiting')
  BY Zenon DEF Waiting, Stretch, NumWaiting, Unread, Moved
<1> QED BY <1>1, <1>2

\* The abstract queue, its step spelled out.
FifoNext ==
    \/ Waiting # <<>> /\ Waiting' = Tail(Waiting) /\ UNCHANGED IsOpen
    \/ IsOpen' = ~IsOpen /\ Waiting' = <<>>
    \/ \E x \in Bytes : /\ Len(Waiting) < PIPE_SIZE
                        /\ Waiting' = Append(Waiting, x)
                        /\ UNCHANGED IsOpen

LEMMA Stutters ==
    ASSUME UNCHANGED <<data, read_pos, ends>>, Unread' = Unread
    PROVE  UNCHANGED <<Waiting, IsOpen>>
<1>1. IsOpen' = IsOpen
  BY DEF IsOpen, HasEnd, CountOf
<1>2. NumWaiting' = NumWaiting
  BY <1>1 DEF NumWaiting
<1> QED BY <1>1, <1>2, SameStretch

\* The writer puts a byte behind those that wait.
LEMMA StoreIsStutter == ASSUME PipeInv, PipeInv', Store PROVE UNCHANGED <<Waiting, IsOpen>>
<1> USE DEF Store, At, Goto
<1>0. WaitingFacts /\ WaitingFacts'
  BY WaitingIs, PTL
<1>1. /\ IsOpen' = IsOpen /\ Unread' = Unread /\ NumWaiting' = NumWaiting
      /\ read_pos' = read_pos
  BY DEF IsOpen, HasEnd, CountOf, Unread, Moved, NumWaiting, PipeInv, TypeOK, Tasks
<1>2. Unread \in 0 .. PIPE_SIZE - 1 /\ write_pos = Behind(read_pos, Unread)
  BY UnreadIn DEF PipeInv, RingInv, Unread, Moved, InLoop, TypeOK, Tasks
<1>3. ASSUME NEW k \in 1 .. NumWaiting
      PROVE  data'[Behind(read_pos, k - 1)] = data[Behind(read_pos, k - 1)]
  <2>1. k - 1 \in 0 .. PIPE_SIZE - 1 /\ k - 1 # Unread /\ k - 1 \in 0 .. PIPE_SIZE
    BY <1>2, UnreadIn DEF NumWaiting
  <2>2. Behind(read_pos, k - 1) # write_pos /\ Behind(read_pos, k - 1) \in Cells
    BY <1>2, <2>1, UnreadIn, BehindFacts
  <2> QED BY <2>2, UnreadIn
<1>4. /\ Waiting \in Seq(Values) /\ Waiting' \in Seq(Values) /\ Len(Waiting') = Len(Waiting)
      /\ Len(Waiting) = NumWaiting
      /\ \A k \in 1 .. NumWaiting : Waiting[k] = data[Behind(read_pos, k - 1)]
      /\ \A k \in 1 .. NumWaiting' : Waiting'[k] = data'[Behind(read_pos', k - 1)]
  BY <1>0, <1>1 DEF WaitingFacts, Behind
<1>5. \A k \in 1 .. Len(Waiting) : Waiting'[k] = Waiting[k]
  BY <1>1, <1>3, <1>4
<1>6. Waiting' = Waiting
  BY <1>4, <1>5, SeqEqual
<1> QED BY <1>1, <1>6

\* The reader's step past a byte is the Get.
LEMMA AdvanceIsGet == ASSUME PipeInv, PipeInv', Advance("reader") PROVE FifoNext
<1> USE DEF Advance, At, Goto
<1>0. WaitingFacts /\ WaitingFacts'
  BY WaitingIs, PTL
<1>1. IsOpen /\ IsOpen' /\ IsOpen' = IsOpen
  BY DEF IsOpen, HasEnd, CountOf, PipeInv, EndsInv, InCall, InLoop, Tasks
<1>2. /\ Unread \in Nat /\ Unread > 0 /\ Unread' = Unread - 1
      /\ NumWaiting = Unread /\ NumWaiting' = Unread - 1
  BY <1>1 DEF Unread, Moved, NumWaiting, PipeInv, RingInv, InLoop, TypeOK, Tasks
<1>3. data' = data /\ read_pos' = Behind(read_pos, 1)
  BY UnreadIn, BehindFacts
<1>4. /\ Waiting \in Seq(Values) /\ Waiting' \in Seq(Values)
      /\ Len(Waiting) = NumWaiting /\ Len(Waiting') = NumWaiting'
      /\ \A k \in 1 .. NumWaiting : Waiting[k] = data[Behind(read_pos, k - 1)]
      /\ \A k \in 1 .. NumWaiting' : Waiting'[k] = data'[Behind(read_pos', k - 1)]
  BY <1>0 DEF WaitingFacts, Behind
<1>5. ASSUME NEW k \in 1 .. Len(Waiting') PROVE Waiting'[k] = Waiting[k + 1]
  <2>1. /\ k - 1 \in 0 .. PIPE_SIZE - 1 /\ k - 1 + 1 = k /\ k + 1 - 1 = k
        /\ k \in 1 .. NumWaiting' /\ k + 1 \in 1 .. NumWaiting
    BY <1>2, <1>4, UnreadIn
  <2>2. Behind(Behind(read_pos, 1), k - 1) = Behind(read_pos, k)
    BY <2>1, UnreadIn, BehindFacts
  <2>3. Waiting'[k] = data'[Behind(read_pos', k - 1)]
    BY <1>4, <2>1
  <2>4. Waiting[k + 1] = data[Behind(read_pos, k + 1 - 1)]
    BY <1>4, <2>1
  <2> QED BY <1>3, <2>1, <2>2, <2>3, <2>4
<1>6. Len(Waiting) # 0 /\ Len(Waiting') = Len(Waiting) - 1
  BY <1>2, <1>4
<1>7. Waiting' = Tail(Waiting) /\ Waiting # <<>>
  BY <1>4, <1>5, <1>6, IsTail
<1> QED BY <1>1, <1>7 DEF FifoNext

\* The writer's store to count is the Put, the reader's a stutter.
LEMMA CountWriteIsPut == ASSUME PipeInv, PipeInv', CountWrite("writer") PROVE FifoNext
<1> USE DEF CountWrite, At, Goto
<1>0. WaitingFacts /\ WaitingFacts'
  BY WaitingIs, PTL
<1>1. IsOpen /\ IsOpen' /\ IsOpen' = IsOpen
  BY DEF IsOpen, HasEnd, CountOf, PipeInv, EndsInv, InCall, InLoop, Tasks
<1>2. /\ Unread \in Nat /\ Unread < PIPE_SIZE /\ Unread' = Unread + 1
      /\ NumWaiting = Unread /\ NumWaiting' = Unread + 1
  <2>1. loaded["writer"] = count /\ count \in Nat /\ count < PIPE_SIZE
    BY UnreadIn DEF PipeInv, WindowInv, RingInv, InLoop, TypeOK, Tasks
  <2>2. count' = count + 1 /\ Moved("reader")' = Moved("reader") /\ Moved("reader") \in {0, 1}
    BY <2>1 DEF Moved, PipeInv, TypeOK, Tasks
  <2>3. Unread \in Nat /\ Unread < PIPE_SIZE /\ Unread' = Unread + 1
    BY <2>1, <2>2, UnreadIn DEF Unread
  <2> QED BY <1>1, <2>3 DEF NumWaiting
<1>3. data' = data /\ read_pos' = read_pos
  OBVIOUS
<1>4. /\ Waiting \in Seq(Values) /\ Waiting' \in Seq(Values)
      /\ Len(Waiting) = NumWaiting /\ Len(Waiting') = NumWaiting'
      /\ \A k \in 1 .. NumWaiting : Waiting[k] = data[Behind(read_pos, k - 1)]
      /\ \A k \in 1 .. NumWaiting' : Waiting'[k] = data'[Behind(read_pos', k - 1)]
  BY <1>0 DEF WaitingFacts, Behind
<1>5. data[Behind(read_pos, Unread)] \in Bytes
  BY DEF PipeInv, RingInv, Moved
<1>6. Waiting'[Len(Waiting) + 1] = data[Behind(read_pos, Unread)]
  <2>1. /\ Len(Waiting) + 1 \in 1 .. NumWaiting'
        /\ Len(Waiting) + 1 - 1 = Unread
    BY <1>2, <1>4
  <2> QED BY <1>3, <1>4, <2>1
<1>7. \A k \in 1 .. Len(Waiting) : Waiting'[k] = Waiting[k]
  <2>1. \A k \in 1 .. NumWaiting : k \in 1 .. NumWaiting'
    BY <1>2
  <2> QED BY <1>3, <1>4, <2>1
<1>8. Len(Waiting') = Len(Waiting) + 1
  BY <1>2, <1>4
<1>9. Waiting' = Append(Waiting, data[Behind(read_pos, Unread)])
  <2>1. data[Behind(read_pos, Unread)] \in Values
    BY <1>5 DEF Values
  <2> QED BY <1>4, <1>6, <1>7, <1>8, <2>1, IsAppend
<1>10. Len(Waiting) < PIPE_SIZE
  BY <1>2, <1>4
<1> QED BY <1>1, <1>5, <1>9, <1>10 DEF FifoNext

LEMMA CountWriteIsStutter ==
    ASSUME PipeInv, CountWrite("reader")
    PROVE  UNCHANGED <<Waiting, IsOpen>>
<1>1. UNCHANGED <<data, read_pos, ends>>
  BY DEF CountWrite
<1>2. Unread' = Unread
  <2>1. loaded["reader"] = count /\ count \in Nat
    BY UnreadIn DEF PipeInv, WindowInv, CountWrite, At, TypeOK, Tasks
  <2> QED BY <2>1 DEF CountWrite, At, Goto, Unread, Moved, PipeInv, TypeOK, Tasks
<1> QED BY <1>1, <1>2, Stutters

\* The last end that is closed, and a new pipe, empty the queue.
LEMMA CloseStepFifo ==
    ASSUME PipeInv, PipeInv', NEW t \in Tasks, Close(t)
    PROVE  FifoNext \/ UNCHANGED <<Waiting, IsOpen>>
<1>1. IsOpen
  BY DEF Close, IsOpen, HasEnd, CountOf, Tasks
<1>2. CASE IsOpen'
  <2>1. IsOpen' = IsOpen
    BY <1>1, <1>2 DEF IsOpen
  <2>2. UNCHANGED <<data, read_pos>> /\ Unread' = Unread
    BY DEF Close, pipe, At, Goto, Unread, Moved, PipeInv, TypeOK, Tasks
  <2>3. NumWaiting' = NumWaiting
    BY <1>1, <1>2, <2>2 DEF NumWaiting
  <2> QED BY <2>1, <2>2, <2>3, SameStretch
<1>3. CASE ~IsOpen'
  <2>1. IsOpen' = ~IsOpen
    BY <1>1, <1>3 DEF IsOpen
  <2>2. WaitingFacts'
    BY WaitingIs, PTL
  <2>3. NumWaiting' = 0
    BY <1>3 DEF NumWaiting
  <2>4. Waiting' = <<>>
    BY <2>2, <2>3 DEF WaitingFacts
  <2> QED BY <2>1, <2>4 DEF FifoNext
<1> QED BY <1>2, <1>3

LEMMA OpenIsEmpty == ASSUME PipeInv, PipeInv', NEW t \in Tasks, Open(t) PROVE FifoNext
<1>1. ~IsOpen /\ IsOpen'
  BY DEF Open, PipeInv, EndsInv, IsOpen, HasEnd, CountOf
<1>2. IsOpen' = ~IsOpen
  BY <1>1 DEF IsOpen
<1>3. NumWaiting' = 0
  <2>1. \A u \in Tasks : ~InCall(u)
    BY <1>1 DEF PipeInv, EndsInv, IsOpen, Tasks
  <2>2. Moved("reader") = 0
    BY <2>1 DEF Moved, InCall, InLoop, Tasks
  <2>3. Moved("reader")' = Moved("reader") /\ count' = 0
    BY DEF Open, Moved
  <2>4. Unread' = 0
    BY <2>2, <2>3 DEF Unread
  <2> QED BY <2>4 DEF NumWaiting
<1>4. WaitingFacts'
  BY WaitingIs, PTL
<1>5. Waiting' = <<>>
  BY <1>3, <1>4 DEF WaitingFacts
<1> QED BY <1>2, <1>5 DEF FifoNext

LEMMA RestStutters ==
    ASSUME PipeInv, NEW t \in Tasks,
           \/ Tick \/ Call(t) \/ Check(t) \/ Return(t) \/ Load \/ Advance("writer") \/ Count(t)
           \/ CloseTest(t) \/ CloseFree(t)
    PROVE  UNCHANGED <<Waiting, IsOpen>>
<1>1. UNCHANGED <<data, read_pos>>
  BY DEF Tick, Call, Check, Return, Load, Advance, Count, CloseTest, CloseFree, pipe
<1>2. Unread' = Unread
  BY DEF Tick, Call, Check, Return, Load, Advance, Count, CloseTest, CloseFree, pipe, At, Goto,
         Unread, Moved, PipeInv, TypeOK, Tasks
<1>3. UNCHANGED <<ends.readers, ends.writers>>
  BY DEF Tick, Call, Check, Return, Load, Advance, Count, CloseTest, CloseFree, PipeInv, TypeOK
<1>4. IsOpen' = IsOpen
  BY <1>3 DEF IsOpen, HasEnd, CountOf
<1>5. NumWaiting' = NumWaiting
  BY <1>2, <1>4 DEF NumWaiting
<1> QED BY <1>1, <1>4, <1>5, SameStretch

LEMMA FifoStep ==
    PipeInv /\ PipeInv' /\ [Next]_vars => FifoNext \/ UNCHANGED <<Waiting, IsOpen>>
<1> SUFFICES ASSUME PipeInv, PipeInv', [Next]_vars
             PROVE  FifoNext \/ UNCHANGED <<Waiting, IsOpen>>
  OBVIOUS
<1>1. "writer" \in Tasks
  BY DEF Tasks
<1>2. CASE Tick
  BY <1>1, <1>2, RestStutters
<1>3. ASSUME NEW t \in Tasks, Call(t) \/ Close(t) \/ Open(t)
      PROVE  FifoNext \/ UNCHANGED <<Waiting, IsOpen>>
  BY <1>3, RestStutters, CloseStepFifo, OpenIsEmpty
<1>4. ASSUME NEW t \in Tasks, Kernel(t)
      PROVE  FifoNext \/ UNCHANGED <<Waiting, IsOpen>>
  <2>1. CASE Advance(t)
    BY <2>1, AdvanceIsGet, RestStutters DEF Tasks
  <2>2. CASE CountWrite(t)
    BY <2>2, CountWriteIsPut, CountWriteIsStutter DEF Tasks
  <2>3. CASE Store
    BY <2>3, StoreIsStutter
  <2>4. CASE Check(t) \/ Return(t) \/ Count(t) \/ CloseTest(t) \/ CloseFree(t) \/ Load
    BY <2>4, RestStutters
  <2> QED BY <1>4, <2>1, <2>2, <2>3, <2>4 DEF Kernel
<1>5. CASE UNCHANGED vars
  <2>1. UNCHANGED <<data, read_pos, ends>> /\ Unread' = Unread
    BY <1>5 DEF vars, pipe, Unread, Moved
  <2> QED BY <2>1, Stutters
<1> QED BY <1>2, <1>3, <1>4, <1>5 DEF Next

-----------------------------------------------------------------------------
(* Theorems.                                                               *)

LEMMA Multiples == ASSUME NEW N \in Nat \ {0} PROVE 0 % N = 0 /\ (-N) % N = 0
  OBVIOUS

LEMMA PipeInvImpliesCount == PipeInv => CountIsDistance
<1> SUFFICES ASSUME PipeInv, \A t \in Tasks : pc[t] \in {"user", "check", "move"}
             PROVE  (write_pos - read_pos - count) % PIPE_SIZE = 0
  BY DEF CountIsDistance
<1>1. Moved("reader") = 0 /\ Moved("writer") = 0
  BY DEF Moved, Tasks
<1>2. count \in Nat /\ read_pos \in Int /\ PIPE_SIZE \in Nat \ {0}
  BY PipesAssumption DEF PipesAssumption, PipeInv, TypeOK
<1>3. write_pos = Behind(read_pos, count)
  BY <1>1, <1>2 DEF PipeInv, RingInv, Unread
<1>4. write_pos - read_pos - count \in {0, -PIPE_SIZE}
  BY <1>2, <1>3 DEF Behind
<1> QED BY <1>2, <1>4, Multiples

LEMMA InitFifo == Init => Fifo!Init
<1> SUFFICES ASSUME Init PROVE Fifo!Init
  OBVIOUS
<1>1. WaitingFacts
  BY InitPipeInv, WaitingIs
<1>2. NumWaiting = 0
  <2>1. count = 0 /\ Moved("reader") = 0
    BY DEF Init, Moved, Tasks
  <2>2. Unread = 0
    BY <2>1 DEF Unread
  <2> QED BY <2>2 DEF NumWaiting
<1>3. Waiting = <<>>
  BY <1>1, <1>2 DEF WaitingFacts
<1>4. IsOpen \in BOOLEAN
  BY DEF IsOpen
<1> QED BY <1>3, <1>4 DEF Fifo!Init

LEMMA FifoNextIsFifo ==
    FifoNext \/ UNCHANGED <<Waiting, IsOpen>> => [Fifo!Next]_<<Waiting, FALSE, IsOpen>>
  BY Zenon DEF FifoNext, Fifo!Next, Fifo!Get, Fifo!Empty, Fifo!Put

\* Every variable has its type, and count stays within the ring, wherever ticks come but in
\* the windows (vfs.c:98-117, 328-331, 357-362).
THEOREM PipeTypes ==
    ASSUME WindowsClosed
    PROVE  Spec => []TypeOK
<1>1. PipeInv => TypeOK
  BY DEF PipeInv
<1> QED BY <1>1, PipeInvariance, PTL DEF Spec

\* The positions and count never disagree while no byte is on its way, if no tick comes
\* between the load and the store of count (vfs.c:103, 114).
THEOREM PositionsAgree ==
    ASSUME WindowsClosed
    PROVE  Spec => []CountIsDistance
<1> QED BY PipeInvImpliesCount, PipeInvariance, PTL DEF Spec

\* A pipe of any size is a first-in first-out queue that loses no byte while an end is
\* open (vfs.c:98-117, 328-331, 357-362).
THEOREM PipesAreQueues ==
    ASSUME WindowsClosed
    PROVE  Spec => FifoKept
<1>1. PipeInv /\ PipeInv' /\ [Next]_vars => [Fifo!Next]_<<Waiting, FALSE, IsOpen>>
  BY FifoStep, FifoNextIsFifo
<1> QED BY <1>1, InitFifo, PipeInvariance, PTL DEF Spec, FifoKept, Fifo!Spec
===============================================================================
