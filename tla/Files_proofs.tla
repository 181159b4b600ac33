----------------------------- MODULE Files_proofs -----------------------------
(***************************************************************************)
(* Proofs about open, write and close, with any number of tasks,           *)
(* descriptors, files, blocks and pipes, as long as no tick comes inside   *)
(* one of the Windows.                                                     *)
(***************************************************************************)
EXTENDS Files, Descriptors_proofs, FiniteSetTheorems

\* The hypothesis of the theorems.
WindowsClosed == TickPoints \cap Windows = {}

BlockLists == [Slots -> Blocks \cup {-1}]
-----------------------------------------------------------------------------
(* The loop of fs_write.                                                   *)

LEMMA Limits ==
    /\ MAX_BLOCKS_PER_FILE \in Nat \ {0} /\ BLOCK_SIZE \in Nat \ {0}
    /\ TOTAL_BLOCKS \in Nat \ {0} /\ MAX_FILES \in Nat /\ MAX_FILES > 0 /\ PIPE_COUNT \in Nat
    /\ Sizes \subseteq Nat /\ -1 \notin Blocks /\ Blocks \in SUBSET Nat /\ Files \in SUBSET Nat
  BY FilesAssumption DEF FilesAssumption, Blocks, Files

\* Where the loop may be between two rounds.
Loops == [blocks : BlockLists, bitmap : SUBSET Blocks, left : Nat, stopped : BOOLEAN]

\* What is left after a round that moved bytes.
Less(left) == IF left < BLOCK_SIZE THEN 0 ELSE left - BLOCK_SIZE

LEMMA RoundIs ==
    ASSUME NEW at \in Loops, NEW j \in Slots
    PROVE  \/ WriteRound(at, j) = at /\ (at.stopped \/ at.left = 0)
           \/ /\ WriteRound(at, j) = [at EXCEPT !.stopped = TRUE]
              /\ ~at.stopped /\ at.left # 0
           \/ /\ WriteRound(at, j) = [at EXCEPT !.left = Less(@)]
              /\ ~at.stopped /\ at.left # 0 /\ at.blocks[j] # -1
           \/ \E b \in Blocks \ at.bitmap :
              /\ WriteRound(at, j) = [blocks |-> [at.blocks EXCEPT ![j] = b],
                                      bitmap |-> at.bitmap \cup {b},
                                      left |-> Less(at.left), stopped |-> at.stopped]
              /\ ~at.stopped /\ at.left # 0 /\ at.blocks[j] = -1
<1>1. CASE at.stopped \/ at.left = 0
  BY <1>1 DEF WriteRound
<1>2. CASE ~(at.stopped \/ at.left = 0) /\ at.blocks[j] = -1 /\ at.bitmap = Blocks
  BY <1>2 DEF WriteRound
<1>3. CASE ~(at.stopped \/ at.left = 0) /\ at.blocks[j] # -1
  <2>1. WriteRound(at, j) = [at EXCEPT !.blocks[j] = at.blocks[j], !.bitmap = at.bitmap,
                                       !.left = Less(@)]
    BY <1>3 DEF WriteRound, Less
  <2>2. [at.blocks EXCEPT ![j] = at.blocks[j]] = at.blocks
    BY DEF Loops, BlockLists
  <2>3. WriteRound(at, j) = [at EXCEPT !.left = Less(@)]
    BY <2>1, <2>2 DEF Loops
  <2> QED BY <1>3, <2>3
<1>4. CASE ~(at.stopped \/ at.left = 0) /\ at.blocks[j] = -1 /\ at.bitmap # Blocks
  <2> DEFINE b == Lowest(Blocks \ at.bitmap)
  <2>1. b \in Blocks \ at.bitmap
    <3>1. Blocks \ at.bitmap \in SUBSET Nat /\ Blocks \ at.bitmap # {}
      BY <1>4, Limits DEF Loops
    <3> QED BY <3>1, LowestIn
  <2>2. WriteRound(at, j) = [at EXCEPT !.blocks[j] = b, !.bitmap = at.bitmap \cup {b},
                                       !.left = Less(@)]
    BY <1>4 DEF WriteRound, Less
  <2> HIDE DEF b
  <2>3. WriteRound(at, j) = [blocks |-> [at.blocks EXCEPT ![j] = b],
                             bitmap |-> at.bitmap \cup {b},
                             left |-> Less(at.left), stopped |-> at.stopped]
    BY <2>2 DEF Loops
  <2> QED BY <1>4, <2>1, <2>3
<1> QED BY <1>1, <1>2, <1>3, <1>4

LEMMA RoundType ==
    ASSUME NEW at \in Loops, NEW j \in Slots
    PROVE  WriteRound(at, j) \in Loops
<1>1. Less(at.left) \in Nat
  BY Limits DEF Less, Loops
<1>2. [at EXCEPT !.stopped = TRUE] \in Loops /\ [at EXCEPT !.left = Less(@)] \in Loops
  BY <1>1 DEF Loops
<1>3. ASSUME NEW b \in Blocks
      PROVE  [blocks |-> [at.blocks EXCEPT ![j] = b], bitmap |-> at.bitmap \cup {b},
              left |-> Less(at.left), stopped |-> at.stopped] \in Loops
  <2>1. [at.blocks EXCEPT ![j] = b] \in BlockLists
    BY DEF Loops, BlockLists
  <2>2. at.bitmap \cup {b} \in SUBSET Blocks
    BY DEF Loops
  <2>3. at.stopped \in BOOLEAN
    BY DEF Loops
  <2> QED BY <1>1, <2>1, <2>2, <2>3 DEF Loops
<1>4. CASE WriteRound(at, j) = at
  BY <1>4
<1>5. CASE WriteRound(at, j) = [at EXCEPT !.stopped = TRUE]
  BY <1>2, <1>5
<1>6. CASE WriteRound(at, j) = [at EXCEPT !.left = Less(@)]
  BY <1>2, <1>6
<1>7. CASE \E b \in Blocks : WriteRound(at, j) =
              [blocks |-> [at.blocks EXCEPT ![j] = b], bitmap |-> at.bitmap \cup {b},
               left |-> Less(at.left), stopped |-> at.stopped]
  BY <1>3, <1>7
<1> QED BY <1>4, <1>5, <1>6, <1>7, RoundIs

\* Before the first round.
Start(blocks, n) == [blocks |-> blocks, bitmap |-> bitmap, left |-> n, stopped |-> FALSE]

LEMMA RoundsAre ==
    ASSUME NEW blocks \in BlockLists, NEW n \in Nat, bitmap \in SUBSET Blocks
    PROVE  LET rounds == WriteRounds(blocks, n)
           IN /\ rounds[0] = Start(blocks, n)
              /\ \A j \in Slots : rounds[j + 1] = WriteRound(rounds[j], j)
<1> DEFINE M == MAX_BLOCKS_PER_FILE
           P(r) == r = [j \in 0 .. M |-> IF j = 0 THEN Start(blocks, n)
                                                 ELSE WriteRound(r[j - 1], j - 1)]
           Upto(k, g) == /\ g \in [0 .. k -> Loops]
                         /\ g[0] = Start(blocks, n)
                         /\ \A j \in 1 .. k : g[j] = WriteRound(g[j - 1], j - 1)
           S == {k \in Nat : k <= M => \E g : Upto(k, g)}
<1>1. Start(blocks, n) \in Loops
  BY DEF Start, Loops
<1>2. 0 \in S
  <2>1. Upto(0, [j \in 0 .. 0 |-> Start(blocks, n)])
    BY <1>1
  <2> QED BY <2>1
<1>3. ASSUME NEW k \in Nat, k \in S PROVE k + 1 \in S
  <2> SUFFICES ASSUME k + 1 <= M PROVE \E g : Upto(k + 1, g)
    OBVIOUS
  <2>0. k <= M /\ k \in Slots
    BY Limits DEF Slots
  <2>1. PICK g : Upto(k, g)
    BY <1>3, <2>0
  <2> DEFINE h == [j \in 0 .. k + 1 |-> IF j <= k THEN g[j] ELSE WriteRound(g[k], k)]
  <2>2. g[k] \in Loops
    BY <2>1
  <2>3. WriteRound(g[k], k) \in Loops
    BY <2>0, <2>2, RoundType
  <2> HIDE DEF Start
  <2>4. h \in [0 .. k + 1 -> Loops] /\ h[0] = Start(blocks, n)
    BY <2>1, <2>3
  <2>5. ASSUME NEW j \in 1 .. k + 1 PROVE h[j] = WriteRound(h[j - 1], j - 1)
    <3>1. CASE j <= k
      <4>1. j \in 1 .. k /\ h[j] = g[j] /\ h[j - 1] = g[j - 1]
        BY <3>1
      <4> QED BY <2>1, <4>1
    <3>2. CASE j = k + 1
      <4>1. h[j] = WriteRound(g[k], k) /\ h[k] = g[k] /\ j - 1 = k
        BY <3>2
      <4> QED BY <4>1
    <3> QED BY <3>1, <3>2
  <2>6. Upto(k + 1, h)
    BY <2>4, <2>5
  <2> QED BY <2>6
<1> HIDE DEF S
<1>4. Nat \subseteq S
  BY <1>2, <1>3, Induction
<1>5. PICK g : Upto(M, g)
  <2>1. M \in Nat /\ M <= M
    BY Limits
  <2>2. M \in S
    BY <2>1, <1>4
  <2> HIDE DEF M, Upto
  <2> QED BY <2>1, <2>2 DEF S
<1>6. P(g)
  <2> HIDE DEF Start
  <2>1. \A j \in 0 .. M : g[j] = IF j = 0 THEN Start(blocks, n) ELSE WriteRound(g[j - 1], j - 1)
    BY <1>5, Limits
  <2> QED BY <1>5, <2>1
<1>7. WriteRounds(blocks, n) = CHOOSE r : P(r)
  BY DEF WriteRounds, Start
<1> HIDE DEF P
<1>8. P(WriteRounds(blocks, n))
  BY <1>6, <1>7
<1> USE DEF P
<1> HIDE DEF Start
<1>9. 0 \in 0 .. M /\ \A j \in Slots : j + 1 \in 0 .. M /\ j + 1 # 0 /\ (j + 1) - 1 = j
  BY Limits DEF Slots
<1> QED BY <1>8, <1>9

\* What the rounds so far have left of the file's blocks, and where they took new ones.
Kept(blocks, at) ==
    /\ at \in Loops
    /\ bitmap \subseteq at.bitmap
    /\ \A j \in Slots : blocks[j] # -1 => at.blocks[j] = blocks[j]
    /\ \A j \in Slots : blocks[j] = -1 /\ at.blocks[j] # -1 =>
            at.blocks[j] \in at.bitmap /\ at.blocks[j] \notin bitmap
    /\ \A j, l \in Slots : blocks[j] = -1 /\ blocks[l] = -1 /\ at.blocks[j] # -1
            /\ at.blocks[j] = at.blocks[l] => j = l
    /\ \A b \in at.bitmap \ bitmap : \E j \in Slots : blocks[j] = -1 /\ at.blocks[j] = b

LEMMA KeptRound ==
    ASSUME NEW blocks \in BlockLists, NEW at, Kept(blocks, at), NEW k \in Slots,
           bitmap \in SUBSET Blocks
    PROVE  Kept(blocks, WriteRound(at, k))
<1> DEFINE to == WriteRound(at, k)
<1>0. at \in Loops
  BY DEF Kept
<1>1. to \in Loops
  BY <1>0, RoundType
<1>2. CASE to.blocks = at.blocks /\ to.bitmap = at.bitmap
  BY <1>1, <1>2 DEF Kept
<1>3. CASE \E b \in Blocks \ at.bitmap : /\ to.blocks = [at.blocks EXCEPT ![k] = b]
                                        /\ to.bitmap = at.bitmap \cup {b}
                                        /\ at.blocks[k] = -1
  <2>1. PICK b \in Blocks \ at.bitmap : /\ to.blocks = [at.blocks EXCEPT ![k] = b]
                                        /\ to.bitmap = at.bitmap \cup {b}
                                        /\ at.blocks[k] = -1
    BY <1>3
  <2> HIDE DEF to
  <2>2. b # -1 /\ blocks[k] = -1 /\ b \notin bitmap
    BY <2>1, Limits DEF Kept
  <2>3. to.blocks[k] = b /\ \A j \in Slots \ {k} : to.blocks[j] = at.blocks[j]
    BY <2>1, <1>0 DEF Loops, BlockLists
  <2>4. \A j \in Slots : blocks[j] = -1 /\ at.blocks[j] # -1 => at.blocks[j] # b
    BY <2>1 DEF Kept
  <2>5. \A j \in Slots : blocks[j] # -1 => to.blocks[j] = blocks[j]
    BY <2>2, <2>3 DEF Kept
  <2>6. \A j \in Slots : blocks[j] = -1 /\ to.blocks[j] # -1 =>
            to.blocks[j] \in to.bitmap /\ to.blocks[j] \notin bitmap
    BY <2>1, <2>2, <2>3 DEF Kept
  <2>7. \A j, l \in Slots : blocks[j] = -1 /\ blocks[l] = -1 /\ to.blocks[j] # -1
            /\ to.blocks[j] = to.blocks[l] => j = l
    BY <2>2, <2>3, <2>4 DEF Kept
  <2>8. ASSUME NEW c \in to.bitmap \ bitmap
        PROVE  \E j \in Slots : blocks[j] = -1 /\ to.blocks[j] = c
    <3>1. CASE c = b
      BY <3>1, <2>2, <2>3
    <3>2. CASE c # b
      <4>1. c \in at.bitmap \ bitmap /\ c # -1
        BY <3>2, <2>1, <1>0, Limits DEF Loops
      <4>2. PICK j \in Slots : blocks[j] = -1 /\ at.blocks[j] = c
        BY <4>1 DEF Kept
      <4>3. j # k
        BY <4>1, <4>2, <2>1
      <4> QED BY <4>2, <4>3, <2>3
    <3> QED BY <3>1, <3>2
  <2>9. bitmap \subseteq to.bitmap
    BY <2>1 DEF Kept
  <2> QED BY <1>1, <2>5, <2>6, <2>7, <2>8, <2>9 DEF Kept, to
<1>4. <1>2!1 \/ <1>3!1
  <2>1. CASE to = at
    BY <2>1
  <2>2. CASE to = [at EXCEPT !.stopped = TRUE]
    BY <2>2, <1>0 DEF Loops
  <2>3. CASE to = [at EXCEPT !.left = Less(@)]
    BY <2>3, <1>0 DEF Loops
  <2>4. CASE \E b \in Blocks \ at.bitmap :
              /\ to = [blocks |-> [at.blocks EXCEPT ![k] = b], bitmap |-> at.bitmap \cup {b},
                       left |-> Less(at.left), stopped |-> at.stopped]
              /\ at.blocks[k] = -1
    BY <2>4
  <2> QED BY <2>1, <2>2, <2>3, <2>4, <1>0, RoundIs
<1> QED BY <1>2, <1>3, <1>4

\* A file's blocks come before its gaps, and there are h of them.
Filled(blocks, h) ==
    /\ h \in 0 .. MAX_BLOCKS_PER_FILE
    /\ \A j \in Slots : blocks[j] # -1 <=> j < h

\* So far k rounds have gone, and the bytes that went are in blocks.
Reach(blocks, n, at, k) ==
    /\ at \in Loops /\ at.left <= n
    /\ \E h \in Nat : /\ Filled(at.blocks, h)
                      /\ \A i \in Nat : Filled(blocks, i) => i <= h
                      /\ n - at.left <= h * BLOCK_SIZE
                      /\ at.left # 0 /\ ~at.stopped =>
                            k <= h /\ n - at.left <= k * BLOCK_SIZE

LEMMA Blockwise ==
    \A h, k \in Nat : /\ h * BLOCK_SIZE \in Nat
                      /\ (h + 1) * BLOCK_SIZE = h * BLOCK_SIZE + BLOCK_SIZE
                      /\ h <= k => h * BLOCK_SIZE <= k * BLOCK_SIZE
<1>0. BLOCK_SIZE \in Nat
  BY Limits
<1> SUFFICES ASSUME NEW B \in Nat, NEW h \in Nat, NEW k \in Nat
             PROVE  h * B \in Nat /\ (h + 1) * B = h * B + B /\ (h <= k => h * B <= k * B)
  BY <1>0
<1>1. h * B \in Nat /\ (h + 1) * B = h * B + B
  OBVIOUS
<1>2. ASSUME h <= k PROVE h * B <= k * B
  <2>1. k - h \in Nat /\ k = h + (k - h)
    BY <1>2
  <2> DEFINE d == k - h
  <2>2. d * B \in Nat /\ (h + d) * B = h * B + d * B
    BY <2>1
  <2> QED BY <2>1, <2>2, <1>1
<1> QED BY <1>1, <1>2

LEMMA ReachRound ==
    ASSUME NEW blocks \in BlockLists, NEW n \in Nat, NEW at, NEW k \in Slots,
           Reach(blocks, n, at, k)
    PROVE  Reach(blocks, n, WriteRound(at, k), k + 1)
<1> DEFINE to == WriteRound(at, k)
<1>0. at \in Loops /\ k \in Nat /\ at.left \in Nat /\ at.left <= n /\ BLOCK_SIZE \in Nat
  BY Limits DEF Reach, Slots, Loops
<1>1. to \in Loops
  BY <1>0, RoundType
<1>2. PICK h \in Nat : /\ Filled(at.blocks, h)
                       /\ \A i \in Nat : Filled(blocks, i) => i <= h
                       /\ n - at.left <= h * BLOCK_SIZE
                       /\ at.left # 0 /\ ~at.stopped =>
                             k <= h /\ n - at.left <= k * BLOCK_SIZE
  BY DEF Reach
<1>3. CASE /\ to.blocks = at.blocks /\ to.left = at.left
           /\ to.left = 0 \/ to.stopped
  BY <1>0, <1>1, <1>2, <1>3 DEF Reach
<1>4. ASSUME /\ ~at.stopped /\ at.left # 0
             /\ to.left = Less(at.left)
             /\ \/ to.blocks = at.blocks /\ at.blocks[k] # -1
                \/ \E b \in Blocks : to.blocks = [at.blocks EXCEPT ![k] = b] /\ at.blocks[k] = -1
      PROVE  Reach(blocks, n, to, k + 1)
  <2>1. to.left \in Nat /\ to.left <= at.left /\ at.left - to.left <= BLOCK_SIZE
    BY <1>0, <1>4 DEF Less
  <2>2. k <= h /\ n - at.left <= k * BLOCK_SIZE
    BY <1>2, <1>4
  <2>3. n - to.left <= (k + 1) * BLOCK_SIZE
    <3> DEFINE here == k * BLOCK_SIZE
               next == (k + 1) * BLOCK_SIZE
    <3>1. here \in Nat /\ next = here + BLOCK_SIZE
      BY <1>0, Blockwise
    <3>2. n - at.left <= here
      BY <2>2
    <3> HIDE DEF here, next
    <3>3. n - to.left <= next
      BY <1>0, <2>1, <3>1, <3>2
    <3> QED BY <3>3 DEF next
  <2>4. PICK g \in Nat : Filled(to.blocks, g) /\ k + 1 <= g /\ h <= g
    <3>1. CASE to.blocks = at.blocks /\ at.blocks[k] # -1
      BY <3>1, <1>0, <1>2 DEF Filled
    <3>2. CASE \E b \in Blocks : to.blocks = [at.blocks EXCEPT ![k] = b] /\ at.blocks[k] = -1
      <4>1. PICK b \in Blocks : to.blocks = [at.blocks EXCEPT ![k] = b] /\ at.blocks[k] = -1
        BY <3>2
      <4>2. h = k
        BY <4>1, <2>2, <1>0, <1>2 DEF Filled
      <4> HIDE DEF to
      <4>3. to.blocks[k] # -1 /\ \A j \in Slots \ {k} : to.blocks[j] = at.blocks[j]
        BY <4>1, <1>0, Limits DEF Loops, BlockLists
      <4>4. k + 1 \in 0 .. MAX_BLOCKS_PER_FILE
        BY <1>0, Limits DEF Slots
      <4>5. \A j \in Slots : j < k + 1 <=> j = k \/ j < k
        BY <1>0 DEF Slots
      <4>6. Filled(to.blocks, k + 1)
        BY <1>2, <4>2, <4>3, <4>4, <4>5 DEF Filled
      <4> QED BY <1>0, <4>2, <4>6
    <3> QED BY <3>1, <3>2, <1>4
  <2>5. n - to.left <= g * BLOCK_SIZE
    <3> DEFINE next == (k + 1) * BLOCK_SIZE
               far == g * BLOCK_SIZE
    <3>1. far \in Nat /\ next <= far /\ next \in Nat
      BY <1>0, <2>4, Blockwise
    <3>2. n - to.left <= next
      BY <2>3
    <3> HIDE DEF next, far
    <3>3. n - to.left <= far
      BY <1>0, <2>1, <3>1, <3>2
    <3> QED BY <3>3 DEF far
  <2>6. \A i \in Nat : Filled(blocks, i) => i <= g
    BY <1>2, <2>4
  <2>7. to.left <= n
    BY <1>0, <2>1
  <2> HIDE DEF to
  <2> QED BY <1>1, <2>3, <2>4, <2>5, <2>6, <2>7 DEF Reach
<1>5. CASE to = at /\ (at.stopped \/ at.left = 0)
  BY <1>3, <1>5
<1>6. CASE to = [at EXCEPT !.stopped = TRUE]
  BY <1>0, <1>3, <1>6 DEF Loops
<1>7. CASE to = [at EXCEPT !.left = Less(@)] /\ ~at.stopped /\ at.left # 0 /\ at.blocks[k] # -1
  BY <1>0, <1>4, <1>7 DEF Loops
<1>8. CASE \E b \in Blocks \ at.bitmap :
              /\ to = [blocks |-> [at.blocks EXCEPT ![k] = b], bitmap |-> at.bitmap \cup {b},
                       left |-> Less(at.left), stopped |-> at.stopped]
              /\ ~at.stopped /\ at.left # 0 /\ at.blocks[k] = -1
  BY <1>4, <1>8
<1> QED BY <1>5, <1>6, <1>7, <1>8, <1>0, RoundIs

\* What fs_write leaves, whatever the file had and however many bytes it gets.
LEMMA WriteLeaves ==
    ASSUME NEW blocks \in BlockLists, NEW n \in Nat, bitmap \in SUBSET Blocks,
           NEW h \in Nat, Filled(blocks, h)
    PROVE  LET end == WriteRounds(blocks, n)[MAX_BLOCKS_PER_FILE]
           IN Kept(blocks, end) /\ Reach(blocks, n, end, MAX_BLOCKS_PER_FILE)
<1> DEFINE M == MAX_BLOCKS_PER_FILE
           S == {k \in Nat : k <= M => /\ Kept(blocks, WriteRounds(blocks, n)[k])
                                       /\ Reach(blocks, n, WriteRounds(blocks, n)[k], k)}
<1>1. 0 \in S
  <2>1. WriteRounds(blocks, n)[0] = Start(blocks, n)
    BY RoundsAre
  <2>2. Start(blocks, n) \in Loops
    BY DEF Start, Loops
  <2>3. Kept(blocks, Start(blocks, n))
    BY <2>2 DEF Kept, Start
  <2>4. 0 * BLOCK_SIZE = 0 /\ 0 <= h * BLOCK_SIZE
    BY Blockwise, Limits
  <2>5. \A i \in Nat : Filled(blocks, i) => i <= h
    <3> SUFFICES ASSUME NEW i \in Nat, Filled(blocks, i), i > h PROVE FALSE
      OBVIOUS
    <3>1. h \in Slots /\ h < i /\ ~(h < h)
      BY Limits DEF Filled, Slots
    <3> QED BY <3>1 DEF Filled
  <2> HIDE DEF M
  <2>6. Reach(blocks, n, Start(blocks, n), 0)
    BY <2>2, <2>4, <2>5 DEF Reach, Start
  <2> QED BY <2>1, <2>3, <2>6
<1>2. ASSUME NEW k \in Nat, k \in S PROVE k + 1 \in S
  <2> SUFFICES ASSUME k + 1 <= M
               PROVE  /\ Kept(blocks, WriteRounds(blocks, n)[k + 1])
                      /\ Reach(blocks, n, WriteRounds(blocks, n)[k + 1], k + 1)
    OBVIOUS
  <2>1. k <= M /\ k \in Slots
    BY Limits DEF Slots
  <2>2. WriteRounds(blocks, n)[k + 1] = WriteRound(WriteRounds(blocks, n)[k], k)
    BY <2>1, RoundsAre
  <2>3. /\ Kept(blocks, WriteRounds(blocks, n)[k])
        /\ Reach(blocks, n, WriteRounds(blocks, n)[k], k)
    BY <1>2, <2>1
  <2> QED BY <2>1, <2>2, <2>3, KeptRound, ReachRound
<1> HIDE DEF S
<1>3. Nat \subseteq S
  BY <1>1, <1>2, Induction
<1>4. M \in Nat /\ M <= M
  BY Limits
<1>5. M \in S
  BY <1>3, <1>4
<1> HIDE DEF M
<1>6. /\ Kept(blocks, WriteRounds(blocks, n)[M])
      /\ Reach(blocks, n, WriteRounds(blocks, n)[M], M)
  BY <1>4, <1>5 DEF S
<1> QED BY <1>6 DEF M

-----------------------------------------------------------------------------
(* The blocks of the files.                                                *)

RamType == file_table \in [Files -> Entries] /\ bitmap \subseteq Blocks

\* The entries that no file has yet are all zero, and block 0 is a block: an open that
\* is led to one of them writes over block 0 and takes none.
UnusedFull == \A i \in Files : ~file_table[i].used =>
                  \A j \in Slots : file_table[i].blocks[j] # -1

Fits(e) == \E h \in Nat : Filled(e.blocks, h) /\ e.size <= h * BLOCK_SIZE

Has(i, j) == file_table[i].used /\ file_table[i].blocks[j] # -1

RamInv ==
    /\ UnusedFull
    /\ \A i \in Files : file_table[i].used => Fits(file_table[i])
    /\ \A i \in Files, j \in Slots : Has(i, j) => file_table[i].blocks[j] \in bitmap
    /\ \A i, k \in Files, j, l \in Slots :
            Has(i, j) /\ Has(k, l) /\ file_table[i].blocks[j] = file_table[k].blocks[l] =>
                i = k /\ j = l
    /\ \A b \in bitmap : \E i \in Files, j \in Slots :
            Has(i, j) /\ file_table[i].blocks[j] = b

\* Nothing else has the blocks of e, which is or will be in entry i.
OwnBlocks(i, e) ==
    /\ Fits(e)
    /\ \A j \in Slots : e.blocks[j] # -1 => e.blocks[j] \in bitmap
    /\ \A j, l \in Slots : e.blocks[j] # -1 /\ e.blocks[j] = e.blocks[l] => j = l
    /\ \A k \in Files \ {i}, j, l \in Slots :
            e.blocks[j] # -1 /\ Has(k, l) => file_table[k].blocks[l] # e.blocks[j]
    /\ \A b \in bitmap : \/ \E j \in Slots : e.blocks[j] = b
                         \/ \E k \in Files \ {i}, l \in Slots :
                                Has(k, l) /\ file_table[k].blocks[l] = b

\* The entry after fs_write has gone its rounds.
WrittenEntry(e, n) ==
    LET end == WriteRounds(e.blocks, n)[MAX_BLOCKS_PER_FILE]
    IN [e EXCEPT !.blocks = end.blocks, !.size = IF end.stopped THEN @ ELSE n - end.left]

LEMMA WrittenFits ==
    ASSUME NEW e \in Entries, NEW n \in Nat, bitmap \in SUBSET Blocks, Fits(e)
    PROVE  WrittenEntry(e, n) \in Entries /\ Fits(WrittenEntry(e, n))
<1> DEFINE end == WriteRounds(e.blocks, n)[MAX_BLOCKS_PER_FILE]
           w == WrittenEntry(e, n)
<1>1. PICK h \in Nat : Filled(e.blocks, h) /\ e.size <= h * BLOCK_SIZE
  BY DEF Fits
<1>2. e.blocks \in BlockLists /\ e.size \in Nat /\ e.used \in BOOLEAN /\ e.name \in Names
  BY DEF Entries, BlockLists
<1>3. Kept(e.blocks, end) /\ Reach(e.blocks, n, end, MAX_BLOCKS_PER_FILE)
  BY <1>1, <1>2, WriteLeaves
<1>4. end \in Loops
  BY <1>3 DEF Kept
<1>0. w = [e EXCEPT !.blocks = end.blocks, !.size = IF end.stopped THEN @ ELSE n - end.left]
  BY DEF WrittenEntry
<1> HIDE DEF end, w
<1>5. w = [name |-> e.name, size |-> IF end.stopped THEN e.size ELSE n - end.left,
           blocks |-> end.blocks, used |-> e.used]
  BY <1>0 DEF Entries
<1>6. PICK g \in Nat : /\ Filled(end.blocks, g)
                       /\ \A i \in Nat : Filled(e.blocks, i) => i <= g
                       /\ n - end.left <= g * BLOCK_SIZE
  BY <1>3 DEF Reach
<1>7. n - end.left \in Nat
  BY <1>3, <1>4 DEF Reach, Loops
<1>8. w.size \in Nat
  BY <1>2, <1>5, <1>7
<1>9. w.size <= g * BLOCK_SIZE
  <2> DEFINE old == h * BLOCK_SIZE
             new == g * BLOCK_SIZE
  <2>1. h <= g /\ old \in Nat /\ new \in Nat
    BY <1>1, <1>6, Blockwise
  <2>2. old <= new
    BY <2>1, Blockwise
  <2>3. e.size <= old /\ n - end.left <= new
    BY <1>1, <1>6
  <2> HIDE DEF old, new
  <2>4. w.size <= new
    BY <1>2, <1>5, <1>7, <2>1, <2>2, <2>3
  <2> QED BY <2>4 DEF new
<1>10. Fits(w)
  BY <1>5, <1>6, <1>9 DEF Fits
<1>11. end.blocks \in [Slots -> Blocks \cup {-1}]
  BY <1>4 DEF Loops, BlockLists
<1>12. w \in Entries
  <2> DEFINE s == IF end.stopped THEN e.size ELSE n - end.left
  <2>1. s \in Nat
    BY <1>2, <1>7
  <2> HIDE DEF s
  <2>2. w = [name |-> e.name, size |-> s, blocks |-> end.blocks, used |-> e.used]
    BY <1>5 DEF s
  <2> QED BY <2>1, <2>2, <1>2, <1>11 DEF Entries
<1> QED BY <1>10, <1>12 DEF w

\* A write gives no block to two files.
LEMMA WriteKeepsRam ==
    ASSUME RamType, RamInv, NEW i \in Files, NEW e \in Entries, NEW n \in Nat,
           e.used, OwnBlocks(i, e), FsWrite(i, e, n)
    PROVE  RamType' /\ RamInv'
<1> DEFINE end == WriteRounds(e.blocks, n)[MAX_BLOCKS_PER_FILE]
           w == WrittenEntry(e, n)
<1>1. PICK h \in Nat : Filled(e.blocks, h)
  BY DEF OwnBlocks, Fits
<1>2. e.blocks \in BlockLists /\ bitmap \in SUBSET Blocks /\ Fits(e)
  BY DEF Entries, BlockLists, RamType, OwnBlocks
<1>3. Kept(e.blocks, end)
  BY <1>1, <1>2, WriteLeaves
<1>4. w \in Entries /\ Fits(w)
  BY <1>2, WrittenFits
<1>5. w.blocks = end.blocks /\ w.used
  BY DEF WrittenEntry, Entries
<1>6. bitmap' = end.bitmap /\ file_table' = [file_table EXCEPT ![i] = w]
  BY DEF FsWrite, WrittenEntry
<1> HIDE DEF end, w
<1>7. end.bitmap \subseteq Blocks
  BY <1>3 DEF Kept, Loops
<1>8. RamType'
  BY <1>4, <1>6, <1>7 DEF RamType
<1>9. file_table'[i] = w /\ \A k \in Files \ {i} : file_table'[k] = file_table[k]
  BY <1>6 DEF RamType
<1>10. /\ \A j \in Slots : Has(i, j)' <=> end.blocks[j] # -1
       /\ \A k \in Files \ {i}, l \in Slots : Has(k, l)' <=> Has(k, l)
  BY <1>5, <1>9 DEF Has
<1>11. UnusedFull'
  BY <1>5, <1>9 DEF UnusedFull, RamInv
<1>12. \A k \in Files : file_table'[k].used => Fits(file_table'[k])
  BY <1>4, <1>9 DEF RamInv
<1> DEFINE Old(j) == e.blocks[j] # -1
<1>13. \A j \in Slots : end.blocks[j] # -1 =>
          \/ Old(j) /\ end.blocks[j] = e.blocks[j] /\ end.blocks[j] \in bitmap
          \/ ~Old(j) /\ end.blocks[j] \in end.bitmap /\ end.blocks[j] \notin bitmap
  BY <1>3 DEF Kept, OwnBlocks
<1>14. bitmap \subseteq end.bitmap
  BY <1>3 DEF Kept
<1>15. \A k \in Files, j \in Slots : Has(k, j)' => file_table'[k].blocks[j] \in bitmap'
  BY <1>5, <1>6, <1>9, <1>10, <1>13, <1>14 DEF RamInv
<1>16. ASSUME NEW j \in Slots, NEW l \in Slots, end.blocks[j] # -1, end.blocks[j] = end.blocks[l]
       PROVE  j = l
  <2>1. CASE Old(j) /\ Old(l)
    BY <1>13, <1>16, <2>1 DEF OwnBlocks
  <2>2. CASE ~Old(j) /\ ~Old(l)
    <3>1. e.blocks[j] = -1 /\ e.blocks[l] = -1
      BY <2>2
    <3> QED BY <1>3, <1>16, <3>1 DEF Kept
  <2>3. CASE Old(j) /\ ~Old(l)
    <3>1. end.blocks[j] \in bitmap /\ end.blocks[l] \notin bitmap
      BY <1>13, <1>16, <2>3
    <3> QED BY <1>16, <3>1
  <2>4. CASE ~Old(j) /\ Old(l)
    <3>1. end.blocks[l] \in bitmap /\ end.blocks[j] \notin bitmap
      BY <1>13, <1>16, <2>4
    <3> QED BY <1>16, <3>1
  <2> QED BY <2>1, <2>2, <2>3, <2>4
<1>17. ASSUME NEW k \in Files \ {i}, NEW j \in Slots, NEW l \in Slots,
              end.blocks[j] # -1, Has(k, l)
       PROVE  file_table[k].blocks[l] # end.blocks[j]
  <2>1. file_table[k].blocks[l] \in bitmap
    BY <1>17 DEF RamInv
  <2>2. CASE Old(j)
    BY <1>13, <1>17, <2>2 DEF OwnBlocks
  <2>3. CASE ~Old(j)
    BY <1>13, <1>17, <2>1, <2>3
  <2> QED BY <2>2, <2>3
<1>18. ASSUME NEW k \in Files, NEW m \in Files, NEW j \in Slots, NEW l \in Slots,
              Has(k, j)', Has(m, l)', file_table'[k].blocks[j] = file_table'[m].blocks[l]
       PROVE  k = m /\ j = l
  <2>1. CASE k = i /\ m = i
    BY <1>5, <1>9, <1>10, <1>16, <1>18, <2>1
  <2>2. CASE k = i /\ m # i
    BY <1>5, <1>9, <1>10, <1>17, <1>18, <2>2
  <2>3. CASE k # i /\ m = i
    BY <1>5, <1>9, <1>10, <1>17, <1>18, <2>3
  <2>4. CASE k # i /\ m # i
    BY <1>9, <1>10, <1>18, <2>4 DEF RamInv
  <2> QED BY <2>1, <2>2, <2>3, <2>4
<1>19. ASSUME NEW b \in bitmap'
       PROVE  \E k \in Files, j \in Slots : Has(k, j)' /\ file_table'[k].blocks[j] = b
  <2>0. b # -1
    BY <1>6, <1>7, Limits
  <2>1. CASE \E j \in Slots : end.blocks[j] = b
    BY <1>5, <1>9, <1>10, <2>0, <2>1
  <2>2. CASE b \notin bitmap
    <3>1. \E j \in Slots : end.blocks[j] = b
      BY <1>3, <1>6, <2>2 DEF Kept
    <3> QED BY <2>1, <3>1
  <2>3. CASE b \in bitmap /\ \E j \in Slots : e.blocks[j] = b
    <3>1. \E j \in Slots : end.blocks[j] = b
      BY <1>3, <2>0, <2>3 DEF Kept
    <3> QED BY <2>1, <3>1
  <2>4. CASE \E k \in Files \ {i}, l \in Slots : Has(k, l) /\ file_table[k].blocks[l] = b
    BY <1>9, <1>10, <2>4
  <2> QED BY <2>2, <2>3, <2>4 DEF OwnBlocks
<1> QED BY <1>8, <1>11, <1>12, <1>15, <1>18, <1>19 DEF RamInv, Fits, Filled

\* A write to an entry that no file has changes its size only.
LEMMA WriteOfUnused ==
    ASSUME RamType, RamInv, NEW i \in Files, NEW n \in Nat, ~file_table[i].used,
           FsWrite(i, file_table[i], n)
    PROVE  RamType' /\ RamInv'
<1> DEFINE e == file_table[i]
           end == WriteRounds(e.blocks, n)[MAX_BLOCKS_PER_FILE]
           w == WrittenEntry(e, n)
<1>0. e \in Entries /\ e.blocks \in BlockLists /\ bitmap \in SUBSET Blocks
  BY DEF RamType, Entries, BlockLists
<1>1. \A j \in Slots : e.blocks[j] # -1
  BY DEF RamInv, UnusedFull
<1>2. Filled(e.blocks, MAX_BLOCKS_PER_FILE)
  BY <1>1, Limits DEF Filled, Slots
<1>3. MAX_BLOCKS_PER_FILE \in Nat
  BY Limits
<1>4. Kept(e.blocks, end) /\ Reach(e.blocks, n, end, MAX_BLOCKS_PER_FILE)
  BY <1>0, <1>2, <1>3, WriteLeaves
<1>5. end \in Loops
  BY <1>4 DEF Kept
<1>6. w = [e EXCEPT !.blocks = end.blocks, !.size = IF end.stopped THEN @ ELSE n - end.left]
  BY DEF WrittenEntry
<1>7. bitmap' = end.bitmap /\ file_table' = [file_table EXCEPT ![i] = w]
  BY DEF FsWrite, WrittenEntry
<1> HIDE DEF end, w
<1>8. n - end.left \in Nat
  BY <1>4, <1>5 DEF Reach, Loops
<1>9. end.bitmap = bitmap
  BY <1>1, <1>4 DEF Kept
<1>10. end.blocks = e.blocks
  BY <1>0, <1>1, <1>4, <1>5 DEF Kept, Loops, BlockLists
<1>11. w \in Entries
  <2> DEFINE s == IF end.stopped THEN e.size ELSE n - end.left
  <2>1. s \in Nat
    BY <1>0, <1>8 DEF Entries
  <2>2. w = [e EXCEPT !.blocks = end.blocks, !.size = s]
    BY <1>6
  <2> HIDE DEF s, e
  <2> QED BY <2>1, <2>2, <1>0, <1>10 DEF Entries
<1>12. w.blocks = e.blocks /\ ~w.used
  <2>1. w.blocks = e.blocks
    BY <1>0, <1>6, <1>10 DEF Entries
  <2>2. w.used = e.used
    BY <1>0, <1>6 DEF Entries
  <2> QED BY <2>1, <2>2
<1>13. file_table'[i] = w /\ \A k \in Files \ {i} : file_table'[k] = file_table[k]
  BY <1>7 DEF RamType
<1>14. RamType'
  BY <1>7, <1>9, <1>11 DEF RamType
<1>15. \A k \in Files : file_table'[k].blocks = file_table[k].blocks
  BY <1>12, <1>13
<1>16. \A k \in Files : /\ file_table'[k].used <=> file_table[k].used
                        /\ file_table[k].used => file_table'[k] = file_table[k]
  BY <1>12, <1>13
<1>17. \A k \in Files, j \in Slots : Has(k, j)' <=> Has(k, j)
  BY <1>15, <1>16 DEF Has
<1>18. UnusedFull'
  BY <1>15, <1>16 DEF RamInv, UnusedFull
<1>19. \A k \in Files : file_table'[k].used => Fits(file_table'[k])
  BY <1>16 DEF RamInv
<1> QED BY <1>7, <1>9, <1>14, <1>15, <1>17, <1>18, <1>19 DEF RamInv, Fits, Filled

LEMMA CreatedIs ==
    ASSUME NEW p \in RamPaths
    PROVE  Created(p) \in Entries /\ Created(p).used /\ Fits(Created(p))
<1>1. Created(p) \in Entries
  BY DEF Created, Entries, Names
<1>2. Filled(Created(p).blocks, 0)
  BY Limits DEF Filled, Created, Slots
<1>3. Created(p).size = 0 /\ 0 \in Nat /\ 0 * BLOCK_SIZE = 0
  BY Limits DEF Created
<1>4. Fits(Created(p))
  BY <1>2, <1>3 DEF Fits
<1>5. Created(p).used
  BY DEF Created
<1> QED BY <1>1, <1>4, <1>5

LEMMA CreatedOwn ==
    ASSUME RamType, RamInv, NEW i \in Files, ~file_table[i].used, NEW p \in RamPaths
    PROVE  OwnBlocks(i, Created(p))
<1>1. \A j \in Slots : Created(p).blocks[j] = -1
  BY DEF Created
<1>2. Fits(Created(p))
  BY CreatedIs
<1>3. \A b \in bitmap : \E k \in Files \ {i}, l \in Slots :
            Has(k, l) /\ file_table[k].blocks[l] = b
  BY DEF RamInv, Has
<1> QED BY <1>1, <1>2, <1>3 DEF OwnBlocks

LEMMA FileOwn ==
    ASSUME RamType, RamInv, NEW i \in Files, file_table[i].used
    PROVE  OwnBlocks(i, file_table[i])
<1>1. \A j \in Slots : Has(i, j) <=> file_table[i].blocks[j] # -1
  BY DEF Has
<1>2. Fits(file_table[i])
  BY DEF RamInv
<1>3. \A j \in Slots : file_table[i].blocks[j] # -1 => file_table[i].blocks[j] \in bitmap
  BY <1>1 DEF RamInv
<1>4. \A j, l \in Slots : file_table[i].blocks[j] # -1
          /\ file_table[i].blocks[j] = file_table[i].blocks[l] => j = l
  BY <1>1 DEF RamInv
<1>5. \A k \in Files \ {i}, j, l \in Slots :
          file_table[i].blocks[j] # -1 /\ Has(k, l) =>
              file_table[k].blocks[l] # file_table[i].blocks[j]
  BY <1>1 DEF RamInv
<1>6. \A b \in bitmap : \/ \E j \in Slots : file_table[i].blocks[j] = b
                        \/ \E k \in Files \ {i}, l \in Slots :
                               Has(k, l) /\ file_table[k].blocks[l] = b
  BY DEF RamInv
<1> QED BY <1>2, <1>3, <1>4, <1>5, <1>6 DEF OwnBlocks

\* fs_create: an entry that takes no block yet.
LEMMA CreateKeepsRam ==
    ASSUME RamType, RamInv, NEW i \in Files, ~file_table[i].used, NEW p \in RamPaths,
           file_table' = [file_table EXCEPT ![i] = Created(p)], bitmap' = bitmap
    PROVE  RamType' /\ RamInv'
<1> DEFINE e == Created(p)
<1>1. e \in Entries /\ e.used /\ Fits(e) /\ \A j \in Slots : e.blocks[j] = -1
  BY CreatedIs DEF Created
<1> HIDE DEF e
<1>2. file_table'[i] = e /\ \A k \in Files \ {i} : file_table'[k] = file_table[k]
  BY DEF RamType, e
<1>3. RamType'
  BY <1>1 DEF RamType, e
<1>4. \A k \in Files, j \in Slots : Has(k, j)' <=> Has(k, j)
  BY <1>1, <1>2 DEF Has
<1>5. \A k \in Files, j \in Slots : Has(k, j) => file_table'[k] = file_table[k]
  BY <1>2 DEF Has
<1>6. UnusedFull'
  BY <1>1, <1>2 DEF UnusedFull, RamInv
<1>7. \A k \in Files : file_table'[k].used => Fits(file_table'[k])
  BY <1>1, <1>2 DEF RamInv
<1>8. \A b \in bitmap' : \E k \in Files, j \in Slots :
          Has(k, j)' /\ file_table'[k].blocks[j] = b
  BY <1>4, <1>5 DEF RamInv
<1>9. \A k \in Files, j \in Slots : Has(k, j)' => file_table'[k].blocks[j] \in bitmap'
  BY <1>4, <1>5 DEF RamInv
<1>10. \A k, m \in Files, j, l \in Slots :
          Has(k, j)' /\ Has(m, l)' /\ file_table'[k].blocks[j] = file_table'[m].blocks[l] =>
              k = m /\ j = l
  BY <1>4, <1>5 DEF RamInv
<1> QED BY <1>3, <1>6, <1>7, <1>8, <1>9, <1>10 DEF RamInv, Fits, Filled

LEMMA FreeFileIn ==
    ASSUME FreeFiles # {}
    PROVE  Lowest(FreeFiles) \in Files /\ ~file_table[Lowest(FreeFiles)].used
<1>1. FreeFiles \in SUBSET Nat
  BY Limits DEF FreeFiles
<1> QED BY <1>1, LowestIn DEF FreeFiles

\* Any write, by a call or at boot.
LEMMA AnyWrite ==
    ASSUME RamType, RamInv, NEW n \in Sizes,
           \/ \E i \in Files : FsWrite(i, file_table[i], n)
           \/ \E p \in RamPaths : FreeFiles # {} /\ FsWrite(Lowest(FreeFiles), Created(p), n)
    PROVE  RamType' /\ RamInv'
<1>0. n \in Nat
  BY Limits
<1>1. ASSUME NEW i \in Files, FsWrite(i, file_table[i], n) PROVE RamType' /\ RamInv'
  <2>1. file_table[i] \in Entries
    BY DEF RamType
  <2> QED BY <1>0, <1>1, <2>1, FileOwn, WriteKeepsRam, WriteOfUnused
<1>2. ASSUME NEW p \in RamPaths, FreeFiles # {}, FsWrite(Lowest(FreeFiles), Created(p), n)
      PROVE  RamType' /\ RamInv'
  BY <1>0, <1>2, FreeFileIn, CreatedIs, CreatedOwn, WriteKeepsRam
<1> QED BY <1>1, <1>2

-----------------------------------------------------------------------------
(* The invariant.                                                          *)

\* The descriptors that stand for something: not those whose close has given it up.
Live == {f \in Fds : /\ fd_table[f].type # "EMPTY"
                     /\ \A t \in Tasks : pc[t] = "closeClear" => fd[t] # f}

FileAt(f) == f \in Live /\ fd_table[f].type = "VFS_FILE"
EndAt(f) == f \in Live /\ fd_table[f].type # "VFS_FILE"

\* An open has the node n, and its descriptor does not stand for it yet.
Making(n) == \E t \in Tasks : pc[t] \in {"openFind", "openFill"} /\ data[t] = n

OpenHas(t) ==
    /\ pc[t] \in {"openNode", "openFind", "openFill"} =>
            fd[t] \in Fds /\ fd_table[fd[t]].type = "EMPTY"
    /\ pc[t] \in {"openFind", "openFill", "transfer"} => data[t] \in nodes
    /\ pc[t] = "closeClear" => fd[t] \in Fds

NodesInv ==
    /\ \A f \in Fds : FileAt(f) => fd_table[f].data \in nodes
    /\ \A f \in Fds, n \in nodes : FileAt(f) /\ Making(n) => fd_table[f].data # n
    /\ \A f, g \in Fds : FileAt(f) /\ FileAt(g) /\ fd_table[f].data = fd_table[g].data => f = g
    /\ \A n \in nodes : Making(n) \/ \E f \in Fds : FileAt(f) /\ fd_table[f].data = n
    /\ \A t \in Tasks : OpenHas(t)

\* A vfs_pipe has the pipe p, and one of its ends or none.
Piping(t) == pc[t] \in {"pipeReadEnd", "pipeWriteEnd"}
Held(p) == \E t \in Tasks : Piping(t) /\ data[t] = p

HasEnd(type, p) == \E f \in Fds : EndAt(f) /\ fd_table[f] = [type |-> type, data |-> p]

PipeNew(p) == pipes[p].used /\ pipes[p].readers = 1 /\ pipes[p].writers = 1

PipingHas(t) ==
    /\ data[t] \in Pipes
    /\ PipeNew(data[t])
    /\ pc[t] = "pipeReadEnd" =>
            \A f \in Fds : EndAt(f) => fd_table[f].data # data[t]
    /\ pc[t] = "pipeWriteEnd" =>
            \E e \in Fds : /\ e = fd[t] /\ EndAt(e)
                           /\ fd_table[e] = [type |-> "PIPE_READ", data |-> data[t]]
                           /\ \A f \in Fds \ {e} : EndAt(f) => fd_table[f].data # data[t]

Counted(p) ==
    /\ HasEnd("PIPE_READ", p) \/ HasEnd("PIPE_WRITE", p)
    /\ pipes[p].readers = 1 <=> HasEnd("PIPE_READ", p)
    /\ pipes[p].writers = 1 <=> HasEnd("PIPE_WRITE", p)

PipesInv ==
    /\ \A f \in Fds : EndAt(f) => \E p \in Pipes : fd_table[f].data = p /\ pipes[p].used
    /\ \A f, g \in Fds : EndAt(f) /\ EndAt(g) /\ fd_table[f] = fd_table[g] => f = g
    /\ \A t, u \in Tasks : Piping(t) /\ Piping(u) /\ data[u] = data[t] => u = t
    /\ \A t \in Tasks : Piping(t) => PipingHas(t)
    /\ \A p \in Pipes : pipes[p].used /\ ~Held(p) => Counted(p)

FilesInv == TypeOK /\ RamInv /\ NodesInv /\ PipesInv
-----------------------------------------------------------------------------
(* A step of one task.                                                     *)

\* t goes on to a point with these locals; no other task is in a window.
Local(t, to, f, d) ==
    /\ pc'[t] = to /\ fd'[t] = f /\ data'[t] = d
    /\ \A u \in Tasks \ {t} : /\ pc[u] \in {"idle", "pipeReadEnd"}
                              /\ pc'[u] = pc[u] /\ fd'[u] = fd[u] /\ data'[u] = data[u]

LEMMA Others ==
    ASSUME WindowsClosed, NEW t \in Tasks, NEW point, At(t, point)
    PROVE  \A u \in Tasks \ {t} : pc[u] \in {"idle", "pipeReadEnd"}
<1>1. TickPoints \subseteq {"idle", "pipeReadEnd"}
  BY FilesAssumption DEF FilesAssumption, WindowsClosed, Points
<1> QED BY <1>1 DEF At

LEMMA Returns ==
    ASSUME WindowsClosed, TypeOK, NEW t \in Tasks, NEW point, At(t, point), Return(t)
    PROVE  Local(t, "idle", Null, Null)
  BY Others DEF Local, Return, TypeOK

\* What was live before such a step, and what is after it.
LEMMA LiveStep ==
    ASSUME NEW t \in Tasks, NEW to, NEW f, NEW d, Local(t, to, f, d), NEW g \in Fds
    PROVE  /\ g \in Live <=> fd_table[g].type # "EMPTY" /\ (pc[t] = "closeClear" => fd[t] # g)
           /\ g \in Live' <=> fd_table'[g].type # "EMPTY" /\ (to = "closeClear" => f # g)
<1>1. \A u \in Tasks : u # t => pc[u] # "closeClear" /\ pc'[u] # "closeClear"
  BY DEF Local
<1>2. pc'[t] = to /\ fd'[t] = f
  BY DEF Local
<1> QED BY <1>1, <1>2 DEF Live

\* A step that changes no node and no file's descriptor.
LEMMA NodesKept ==
    ASSUME TypeOK, NodesInv, NEW t \in Tasks, NEW to, NEW f, NEW d, Local(t, to, f, d),
           nodes' = nodes,
           \A g \in Fds : /\ FileAt(g)' <=> FileAt(g)
                          /\ FileAt(g) => fd_table'[g] = fd_table[g],
           to \in {"openFind", "openFill"} <=> pc[t] \in {"openFind", "openFill"},
           to \in {"openFind", "openFill"} => d = data[t],
           to \in {"openNode", "openFind", "openFill"} => f \in Fds /\ fd_table'[f].type = "EMPTY",
           to = "transfer" => d \in nodes,
           to = "closeClear" => f \in Fds
    PROVE  NodesInv'
<1>1. \A n : Making(n)' <=> Making(n)
  BY DEF Making, Local
<1>2. ASSUME NEW u \in Tasks PROVE OpenHas(u)'
  <2>1. CASE u # t
    BY <2>1 DEF Local, OpenHas
  <2>2. CASE u = t
    <3>1. pc'[t] = to /\ fd'[t] = f /\ data'[t] = d
      BY DEF Local
    <3>2. to \in {"openFind", "openFill"} => d \in nodes
      BY DEF NodesInv, OpenHas
    <3> QED BY <2>2, <3>1, <3>2 DEF OpenHas
  <2> QED BY <2>1, <2>2
<1>3. \A g \in Fds : FileAt(g)' => fd_table'[g].data \in nodes'
  BY DEF NodesInv
<1>4. \A g, h \in Fds : FileAt(g)' /\ FileAt(h)' /\ fd_table'[g].data = fd_table'[h].data => g = h
  BY DEF NodesInv
<1>5. \A n \in nodes' : Making(n)' \/ \E g \in Fds : FileAt(g)' /\ fd_table'[g].data = n
  BY <1>1 DEF NodesInv
<1>6. \A g \in Fds, n \in nodes' : FileAt(g)' /\ Making(n)' => fd_table'[g].data # n
  BY <1>1 DEF NodesInv
<1> QED BY <1>2, <1>3, <1>4, <1>5, <1>6 DEF NodesInv

\* A step that changes no pipe and no end of one.
LEMMA PipesKept ==
    ASSUME TypeOK, PipesInv, NEW t \in Tasks, NEW to, NEW f, NEW d, Local(t, to, f, d),
           pipes' = pipes,
           \A g \in Fds : /\ EndAt(g)' <=> EndAt(g)
                          /\ EndAt(g) => fd_table'[g] = fd_table[g],
           to \notin {"pipeReadEnd", "pipeWriteEnd"}, ~Piping(t)
    PROVE  PipesInv'
<1>1. \A u \in Tasks : /\ Piping(u)' <=> Piping(u)
                       /\ Piping(u) => pc'[u] = pc[u] /\ data'[u] = data[u] /\ fd'[u] = fd[u]
  BY DEF Piping, Local
<1>2. \A p : Held(p)' <=> Held(p)
  BY <1>1 DEF Held
<1>3. \A type, p : HasEnd(type, p)' <=> HasEnd(type, p)
  BY DEF HasEnd
<1>4. \A g \in Fds : EndAt(g)' => \E p \in Pipes : fd_table'[g].data = p /\ pipes'[p].used
  BY DEF PipesInv
<1>5. \A g, h \in Fds : EndAt(g)' /\ EndAt(h)' /\ fd_table'[g] = fd_table'[h] => g = h
  BY DEF PipesInv
<1>6. \A p \in Pipes : pipes'[p].used /\ ~Held(p)' => Counted(p)'
  BY <1>2, <1>3 DEF PipesInv, Counted
<1>7. \A u, v \in Tasks : Piping(u)' /\ Piping(v)' /\ data'[v] = data'[u] => v = u
  BY <1>1 DEF PipesInv
<1>8. ASSUME NEW u \in Tasks, Piping(u)' PROVE PipingHas(u)'
  <2>1. Piping(u) /\ pc'[u] = pc[u] /\ data'[u] = data[u] /\ fd'[u] = fd[u]
    BY <1>1, <1>8
  <2>2. PipingHas(u)
    BY <2>1 DEF PipesInv
  <2> QED BY <2>1, <2>2 DEF PipingHas, PipeNew
<1> QED BY <1>4, <1>5, <1>6, <1>7, <1>8 DEF PipesInv

LEMMA TableKept ==
    ASSUME NEW t \in Tasks, NEW to, NEW f, NEW d, Local(t, to, f, d),
           fd_table' = fd_table, pc[t] # "closeClear", to # "closeClear"
    PROVE  \A g \in Fds : /\ FileAt(g)' <=> FileAt(g)
                          /\ EndAt(g)' <=> EndAt(g)
                          /\ fd_table'[g] = fd_table[g]
<1>1. \A g \in Fds : g \in Live' <=> g \in Live
  BY LiveStep
<1> QED BY <1>1 DEF FileAt, EndAt

\* A step of an open or a transfer that changes no descriptor and no node.
LEMMA QuietStep ==
    ASSUME TypeOK, NodesInv, PipesInv, NEW t \in Tasks, NEW to, NEW f, NEW d,
           Local(t, to, f, d),
           fd_table' = fd_table, nodes' = nodes, pipes' = pipes,
           \/ pc[t] = "idle" /\ to = "openNode" /\ f \in Fds /\ fd_table[f].type = "EMPTY"
           \/ pc[t] = "openNode" /\ to = "idle"
           \/ pc[t] = "openFind" /\ to = "openFill" /\ f = fd[t] /\ d = data[t]
           \/ pc[t] = "idle" /\ to = "transfer" /\ d \in nodes
           \/ pc[t] = "transfer" /\ to = "idle"
    PROVE  NodesInv' /\ PipesInv'
<1>1. pc[t] # "closeClear" /\ to # "closeClear" /\ ~Piping(t)
      /\ to \notin {"pipeReadEnd", "pipeWriteEnd"}
  BY DEF Piping
<1>2. \A g \in Fds : /\ FileAt(g)' <=> FileAt(g)
                     /\ EndAt(g)' <=> EndAt(g)
                     /\ fd_table'[g] = fd_table[g]
  BY <1>1, TableKept
<1>3. PipesInv'
  BY <1>1, <1>2, PipesKept
<1>4. to \in {"openNode", "openFind", "openFill"} => f \in Fds /\ fd_table'[f].type = "EMPTY"
  BY DEF NodesInv, OpenHas
<1>5. NodesInv'
  <2>1. to \in {"openFind", "openFill"} <=> pc[t] \in {"openFind", "openFill"}
    OBVIOUS
  <2>2. to \in {"openFind", "openFill"} => d = data[t]
    OBVIOUS
  <2>3. to = "transfer" => d \in nodes
    OBVIOUS
  <2> QED BY <1>1, <1>2, <1>4, <2>1, <2>2, <2>3, NodesKept
<1> QED BY <1>3, <1>5

LEMMA OpenPickKeeps ==
    ASSUME WindowsClosed, FilesInv, NEW t \in Tasks, NEW p, OpenPick(t, p)
    PROVE  NodesInv' /\ PipesInv'
<1> DEFINE f == Lowest(FreeFds)
<1>1. f \in Fds /\ fd_table[f].type = "EMPTY"
  BY FreeFdIn DEF OpenPick
<1> HIDE DEF f
<1>2. Local(t, "openNode", f, data[t])
  BY Others DEF FilesInv, TypeOK, OpenPick, Goto, Local, f
<1>3. /\ pc[t] = "idle" /\ TypeOK /\ NodesInv /\ PipesInv
      /\ fd_table' = fd_table /\ nodes' = nodes /\ pipes' = pipes
  BY DEF OpenPick, At, FilesInv
<1> QED BY <1>1, <1>2, <1>3, QuietStep

LEMMA OpenNoMemoryKeeps ==
    ASSUME WindowsClosed, FilesInv, NEW t \in Tasks, OpenNoMemory(t)
    PROVE  NodesInv' /\ PipesInv'
<1>1. Local(t, "idle", Null, Null)
  BY Returns DEF FilesInv, OpenNoMemory
<1>2. /\ pc[t] = "openNode" /\ TypeOK /\ NodesInv /\ PipesInv
      /\ fd_table' = fd_table /\ nodes' = nodes /\ pipes' = pipes
  BY DEF OpenNoMemory, At, FilesInv
<1> QED BY <1>1, <1>2, QuietStep

LEMMA OpenFindKeeps ==
    ASSUME WindowsClosed, FilesInv, NEW t \in Tasks, OpenFind(t)
    PROVE  NodesInv' /\ PipesInv'
<1>1. Local(t, "openFill", fd[t], data[t])
  BY Others DEF FilesInv, TypeOK, OpenFind, Goto, Local, locals
<1>2. /\ pc[t] = "openFind" /\ TypeOK /\ NodesInv /\ PipesInv
      /\ fd_table' = fd_table /\ nodes' = nodes /\ pipes' = pipes
  BY DEF OpenFind, At, FilesInv
<1> QED BY <1>1, <1>2, QuietStep

LEMMA TransferTakeKeeps ==
    ASSUME WindowsClosed, FilesInv, NEW t \in Tasks, NEW f \in Fds, TransferTake(t, f)
    PROVE  NodesInv' /\ PipesInv'
<1>1. Local(t, "transfer", fd[t], fd_table[f].data)
  BY Others DEF FilesInv, TypeOK, TransferTake, Goto, Local
<1>2. /\ pc[t] = "idle" /\ TypeOK /\ NodesInv /\ PipesInv
      /\ fd_table' = fd_table /\ nodes' = nodes /\ pipes' = pipes
  BY DEF TransferTake, At, FilesInv
<1>3. f \in Live /\ fd_table[f].type = "VFS_FILE"
  BY <1>1, <1>2, LiveStep DEF TransferTake
<1>4. fd_table[f].data \in nodes
  BY <1>2, <1>3 DEF NodesInv, FileAt
<1> QED BY <1>1, <1>2, <1>4, QuietStep

LEMMA TransferKeeps ==
    ASSUME WindowsClosed, FilesInv, NEW t \in Tasks, Transfer(t)
    PROVE  NodesInv' /\ PipesInv'
<1>1. Local(t, "idle", Null, Null)
  BY Returns DEF FilesInv, Transfer
<1>2. /\ pc[t] = "transfer" /\ TypeOK /\ NodesInv /\ PipesInv
      /\ fd_table' = fd_table /\ nodes' = nodes /\ pipes' = pipes
  BY DEF Transfer, At, FilesInv
<1> QED BY <1>1, <1>2, QuietStep

LEMMA OpenNodeKeeps ==
    ASSUME WindowsClosed, FilesInv, NEW t \in Tasks, OpenNode(t)
    PROVE  NodesInv' /\ PipesInv'
<1>1. PICK n \in Nodes \ nodes : nodes' = nodes \cup {n} /\ data' = [data EXCEPT ![t] = n]
  BY DEF OpenNode
<1>2. Local(t, "openFind", fd[t], n)
  BY <1>1, Others DEF FilesInv, TypeOK, OpenNode, Goto, Local
<1>3. /\ pc[t] = "openNode" /\ TypeOK /\ NodesInv /\ PipesInv
      /\ fd_table' = fd_table /\ pipes' = pipes
  BY DEF OpenNode, At, FilesInv
<1>4. \A g \in Fds : /\ FileAt(g)' <=> FileAt(g)
                     /\ EndAt(g)' <=> EndAt(g)
                     /\ fd_table'[g] = fd_table[g]
  BY <1>2, <1>3, TableKept
<1>5. PipesInv'
  BY <1>2, <1>3, <1>4, PipesKept DEF Piping
<1>6. \A m : Making(m)' <=> m = n
  BY <1>2 DEF Making, Local
<1>7. \A m : ~Making(m)
  BY <1>2, <1>3 DEF Making, Local
<1>8. ASSUME NEW u \in Tasks PROVE OpenHas(u)'
  <2>1. CASE u # t
    BY <1>2, <2>1 DEF Local, OpenHas
  <2>2. CASE u = t
    <3>1. pc'[t] = "openFind" /\ fd'[t] = fd[t] /\ data'[t] = n
      BY <1>2 DEF Local
    <3>2. fd[t] \in Fds /\ fd_table[fd[t]].type = "EMPTY"
      BY <1>3 DEF NodesInv, OpenHas
    <3> QED BY <1>1, <1>3, <2>2, <3>1, <3>2 DEF OpenHas
  <2> QED BY <2>1, <2>2
<1>9. NodesInv'
  BY <1>1, <1>3, <1>4, <1>6, <1>7, <1>8 DEF NodesInv
<1> QED BY <1>5, <1>9

LEMMA OpenUnknownKeeps ==
    ASSUME WindowsClosed, FilesInv, NEW t \in Tasks, OpenUnknown(t)
    PROVE  NodesInv' /\ PipesInv'
<1>1. Local(t, "idle", Null, Null)
  BY Returns DEF FilesInv, OpenUnknown
<1>2. /\ pc[t] = "openFind" /\ TypeOK /\ NodesInv /\ PipesInv
      /\ fd_table' = fd_table /\ pipes' = pipes /\ nodes' = nodes \ {data[t]}
  BY DEF OpenUnknown, At, FilesInv, Freed
<1>4. \A g \in Fds : /\ FileAt(g)' <=> FileAt(g)
                     /\ EndAt(g)' <=> EndAt(g)
                     /\ fd_table'[g] = fd_table[g]
  BY <1>1, <1>2, TableKept
<1>5. PipesInv'
  BY <1>1, <1>2, <1>4, PipesKept DEF Piping
<1>6. \A m : ~Making(m)'
  BY <1>1 DEF Making, Local
<1>7. \A m : Making(m) <=> m = data[t]
  BY <1>1, <1>2 DEF Making, Local
<1>8. \A u \in Tasks : OpenHas(u)'
  BY <1>1 DEF Local, OpenHas
<1>9. NodesInv'
  BY <1>2, <1>4, <1>6, <1>7, <1>8 DEF NodesInv
<1> QED BY <1>5, <1>9

LEMMA OpenFillKeeps ==
    ASSUME WindowsClosed, FilesInv, NEW t \in Tasks, OpenFill(t)
    PROVE  NodesInv' /\ PipesInv'
<1> DEFINE f == fd[t]
           n == data[t]
<1>1. Local(t, "idle", Null, Null)
  BY Returns DEF FilesInv, OpenFill
<1>2. /\ pc[t] = "openFill" /\ TypeOK /\ NodesInv /\ PipesInv
      /\ fd_table' = [fd_table EXCEPT ![f] = [type |-> "VFS_FILE", data |-> n]]
      /\ pipes' = pipes /\ nodes' = nodes
  BY DEF OpenFill, At, FilesInv
<1>3. f \in Fds /\ fd_table[f].type = "EMPTY" /\ n \in nodes
  BY <1>2 DEF NodesInv, OpenHas
<1> HIDE DEF f, n
<1>4. fd_table'[f] = [type |-> "VFS_FILE", data |-> n]
      /\ \A g \in Fds \ {f} : fd_table'[g] = fd_table[g]
  BY <1>2, <1>3 DEF TypeOK
<1>5. \A g \in Fds : /\ FileAt(g)' <=> FileAt(g) \/ g = f
                     /\ EndAt(g)' <=> EndAt(g)
  <2>1. ASSUME NEW g \in Fds PROVE /\ g \in Live <=> fd_table[g].type # "EMPTY"
                                   /\ g \in Live' <=> fd_table'[g].type # "EMPTY"
    BY <1>1, <1>2, LiveStep
  <2> QED BY <1>3, <1>4, <2>1 DEF FileAt, EndAt
<1>6. ~FileAt(f) /\ ~EndAt(f)
  BY <1>3 DEF FileAt, EndAt, Live
<1>7. PipesInv'
  <2>1. \A g \in Fds : EndAt(g) => fd_table'[g] = fd_table[g]
    BY <1>4, <1>6
  <2> QED BY <1>1, <1>2, <1>5, <2>1, PipesKept DEF Piping
<1>8. \A m : ~Making(m)'
  BY <1>1 DEF Making, Local
<1>9. \A m : Making(m) <=> m = n
  BY <1>1, <1>2 DEF Making, Local, n
<1>10. \A u \in Tasks : OpenHas(u)'
  BY <1>1 DEF Local, OpenHas
<1>11. \A g \in Fds : FileAt(g) => fd_table[g].data # n /\ fd_table'[g] = fd_table[g]
  BY <1>3, <1>4, <1>6, <1>9, <1>2 DEF NodesInv
<1>12. \A g \in Fds : FileAt(g)' => fd_table'[g].data \in nodes'
  BY <1>2, <1>3, <1>4, <1>5, <1>11 DEF NodesInv
<1>13. \A g, h \in Fds : FileAt(g)' /\ FileAt(h)' /\ fd_table'[g].data = fd_table'[h].data => g = h
  BY <1>2, <1>4, <1>5, <1>11 DEF NodesInv
<1>14. \A m \in nodes' : \E g \in Fds : FileAt(g)' /\ fd_table'[g].data = m
  BY <1>2, <1>3, <1>4, <1>5, <1>9, <1>11 DEF NodesInv
<1>15. NodesInv'
  BY <1>8, <1>10, <1>12, <1>13, <1>14 DEF NodesInv
<1> QED BY <1>7, <1>15

LEMMA CloseClearKeeps ==
    ASSUME WindowsClosed, FilesInv, NEW t \in Tasks, CloseClear(t)
    PROVE  NodesInv' /\ PipesInv'
<1> DEFINE f == fd[t]
<1>1. Local(t, "idle", Null, Null)
  BY Returns DEF FilesInv, CloseClear
<1>2. /\ pc[t] = "closeClear" /\ TypeOK /\ NodesInv /\ PipesInv
      /\ fd_table' = [fd_table EXCEPT ![f] = Empty]
      /\ pipes' = pipes /\ nodes' = nodes
  BY DEF CloseClear, At, FilesInv
<1>3. f \in Fds
  BY <1>2 DEF NodesInv, OpenHas
<1> HIDE DEF f
<1>4. fd_table'[f].type = "EMPTY" /\ \A g \in Fds \ {f} : fd_table'[g] = fd_table[g]
  BY <1>2, <1>3 DEF TypeOK, Empty
<1>5. \A g \in Fds : /\ FileAt(g)' <=> FileAt(g)
                     /\ EndAt(g)' <=> EndAt(g)
                     /\ FileAt(g) \/ EndAt(g) => fd_table'[g] = fd_table[g]
  <2>1. ASSUME NEW g \in Fds
        PROVE  /\ g \in Live <=> fd_table[g].type # "EMPTY" /\ g # f
               /\ g \in Live' <=> fd_table'[g].type # "EMPTY"
    BY <1>1, <1>2, LiveStep DEF f
  <2> QED BY <1>3, <1>4, <2>1 DEF FileAt, EndAt
<1>6. PipesInv'
  BY <1>1, <1>2, <1>5, PipesKept DEF Piping
<1>7. NodesInv'
  BY <1>1, <1>2, <1>5, NodesKept
<1> QED BY <1>6, <1>7

\* What a close of f starts from, and which descriptors are live when it has begun.
LEMMA CloseReleaseIs ==
    ASSUME WindowsClosed, FilesInv, NEW t \in Tasks, NEW f \in Fds, CloseRelease(t, f)
    PROVE  /\ Local(t, "closeClear", f, data[t])
           /\ pc[t] = "idle" /\ f \in Live /\ fd_table' = fd_table
           /\ \A g \in Fds : /\ FileAt(g)' <=> FileAt(g) /\ g # f
                             /\ EndAt(g)' <=> EndAt(g) /\ g # f
<1>1. Local(t, "closeClear", f, data[t])
  BY Others DEF FilesInv, TypeOK, CloseRelease, Goto, Local
<1>2. pc[t] = "idle" /\ fd_table' = fd_table /\ fd_table[f].type # "EMPTY"
  BY DEF CloseRelease, At
<1>3. ASSUME NEW g \in Fds
      PROVE  /\ g \in Live <=> fd_table[g].type # "EMPTY"
             /\ g \in Live' <=> fd_table'[g].type # "EMPTY" /\ g # f
  BY <1>1, <1>2, LiveStep
<1>4. \A g \in Fds : /\ FileAt(g)' <=> FileAt(g) /\ g # f
                     /\ EndAt(g)' <=> EndAt(g) /\ g # f
  BY <1>2, <1>3 DEF FileAt, EndAt
<1> QED BY <1>1, <1>2, <1>3, <1>4

LEMMA CloseFileKeeps ==
    ASSUME WindowsClosed, FilesInv, NEW t \in Tasks, NEW f \in Fds, CloseRelease(t, f),
           fd_table[f].type = "VFS_FILE"
    PROVE  NodesInv' /\ PipesInv'
<1> DEFINE n == fd_table[f].data
<1>1. Local(t, "closeClear", f, data[t])
  BY CloseReleaseIs
<1>2. /\ pc[t] = "idle" /\ f \in Live /\ fd_table' = fd_table
      /\ \A g \in Fds : /\ FileAt(g)' <=> FileAt(g) /\ g # f
                        /\ EndAt(g)' <=> EndAt(g) /\ g # f
  BY CloseReleaseIs
<1>3. FileAt(f) /\ ~EndAt(f)
  BY <1>2 DEF FileAt, EndAt
<1>4. /\ TypeOK /\ NodesInv /\ PipesInv
      /\ nodes' = nodes \ {n} /\ pipes' = pipes
  BY DEF FilesInv, CloseRelease, Freed
<1> HIDE DEF n
<1>5. PipesInv'
  BY <1>1, <1>2, <1>3, <1>4, PipesKept DEF Piping
<1>6. \A m : ~Making(m) /\ ~Making(m)'
  BY <1>1, <1>2 DEF Making, Local
<1>7. \A u \in Tasks : OpenHas(u)'
  BY <1>1 DEF Local, OpenHas
<1>8. \A g \in Fds : FileAt(g)' => fd_table'[g].data \in nodes'
  BY <1>2, <1>3, <1>4 DEF NodesInv, n
<1>9. \A g, h \in Fds : FileAt(g)' /\ FileAt(h)' /\ fd_table'[g].data = fd_table'[h].data => g = h
  BY <1>2, <1>4 DEF NodesInv
<1>10. \A m \in nodes' : \E g \in Fds : FileAt(g)' /\ fd_table'[g].data = m
  BY <1>2, <1>4, <1>6 DEF NodesInv, n
<1>11. NodesInv'
  BY <1>6, <1>7, <1>8, <1>9, <1>10 DEF NodesInv
<1> QED BY <1>5, <1>11

\* A close of one end of a pipe: the other end, if it is open, still has it.
LEMMA ClosePipeKeeps ==
    ASSUME WindowsClosed, FilesInv, NEW t \in Tasks, NEW f \in Fds, CloseRelease(t, f),
           fd_table[f].type # "VFS_FILE"
    PROVE  NodesInv' /\ PipesInv'
<1>1. Local(t, "closeClear", f, data[t])
  BY CloseReleaseIs
<1>2. /\ pc[t] = "idle" /\ f \in Live /\ fd_table' = fd_table
      /\ \A g \in Fds : /\ FileAt(g)' <=> FileAt(g) /\ g # f
                        /\ EndAt(g)' <=> EndAt(g) /\ g # f
  BY CloseReleaseIs
<1>3. EndAt(f) /\ ~FileAt(f)
  BY <1>2 DEF FileAt, EndAt
<1>4. /\ TypeOK /\ NodesInv /\ PipesInv
      /\ nodes' = nodes
      /\ pipes' = [pipes EXCEPT ![fd_table[f].data] = Released(fd_table[f].type, @)]
  BY DEF FilesInv, CloseRelease
<1>5. NodesInv'
  BY <1>1, <1>2, <1>3, <1>4, NodesKept
<1>6. PICK p \in Pipes : fd_table[f].data = p /\ pipes[p].used
  BY <1>3, <1>4 DEF PipesInv
<1>7. PICK type \in {"PIPE_READ", "PIPE_WRITE"} : fd_table[f].type = type
  BY <1>2, <1>4 DEF TypeOK, Live
<1>8. fd_table[f] = [type |-> type, data |-> p]
  BY <1>4, <1>6, <1>7 DEF TypeOK
<1>9. \A u \in Tasks : Piping(u)' <=> Piping(u)
  BY <1>1, <1>2 DEF Piping, Local
<1>10. \A u \in Tasks : Piping(u) => u # t /\ pc'[u] = "pipeReadEnd" /\ pc[u] = "pipeReadEnd"
                                  /\ data'[u] = data[u] /\ data[u] # p
  <2>1. ASSUME NEW u \in Tasks, Piping(u) PROVE u # t /\ pc[u] = "pipeReadEnd"
    BY <1>1, <1>2, <2>1 DEF Piping, Local
  <2>2. ASSUME NEW u \in Tasks, Piping(u) PROVE data[u] # p
    <3>1. PipingHas(u) /\ pc[u] = "pipeReadEnd"
      BY <1>4, <2>1, <2>2 DEF PipesInv
    <3> QED BY <1>3, <1>6, <3>1 DEF PipingHas
  <2> QED BY <1>1, <2>1, <2>2 DEF Local
<1>11. ~Held(p) /\ \A q : Held(q)' <=> Held(q)
  BY <1>9, <1>10 DEF Held
<1>12. Counted(p)
  BY <1>4, <1>6, <1>11 DEF PipesInv
<1>13. \A q \in Pipes \ {p} : pipes'[q] = pipes[q]
  BY <1>4, <1>6 DEF TypeOK
<1>14. pipes'[p] = Released(type, pipes[p])
  BY <1>4, <1>6, <1>7 DEF TypeOK
<1>15. \A q \in Pipes \ {p} : \A kind : HasEnd(kind, q)' <=> HasEnd(kind, q)
  BY <1>2, <1>8 DEF HasEnd
<1>16. ~HasEnd(type, p)' /\ HasEnd(type, p)
       /\ \A kind : kind # type => (HasEnd(kind, p)' <=> HasEnd(kind, p))
  <2>1. ASSUME NEW g \in Fds, EndAt(g)', fd_table'[g] = [type |-> type, data |-> p] PROVE FALSE
    <3>1. EndAt(g) /\ g # f /\ fd_table[g] = fd_table[f]
      BY <1>2, <1>8, <2>1
    <3> QED BY <1>3, <1>4, <3>1 DEF PipesInv
  <2>2. \A kind : kind # type => (HasEnd(kind, p)' <=> HasEnd(kind, p))
    BY <1>2, <1>8 DEF HasEnd
  <2>3. HasEnd(type, p)
    BY <1>3, <1>8 DEF HasEnd
  <2>4. ~HasEnd(type, p)'
    BY <2>1 DEF HasEnd
  <2> QED BY <2>2, <2>3, <2>4
<1>17. pipes[p] \in [used : BOOLEAN, readers : 0 .. 1, writers : 0 .. 1]
  BY <1>4, <1>6 DEF TypeOK
<1>17a. pipes'[p].used <=> pipes[p].used /\ (pipes'[p].readers # 0 \/ pipes'[p].writers # 0)
  <2> DEFINE r == Released(type, pipes[p])
  <2>1. r.used <=> pipes[p].used /\ (r.readers # 0 \/ r.writers # 0)
    BY DEF Released
  <2> HIDE DEF r
  <2>2. pipes'[p] = r
    BY <1>14 DEF r
  <2> QED BY <2>1, <2>2
<1>18. ASSUME type = "PIPE_READ"
       PROVE  /\ pipes'[p].used => Counted(p)'
              /\ HasEnd("PIPE_READ", p)' \/ HasEnd("PIPE_WRITE", p)' => pipes'[p].used
  <2>1. pipes[p].readers = 1
    BY <1>12, <1>16, <1>18 DEF Counted
  <2>2. pipes'[p].readers = 0 /\ pipes'[p].writers = pipes[p].writers
    BY <1>14, <1>17, <1>18, <2>1 DEF Released
  <2>3. pipes'[p].used <=> pipes[p].writers # 0
    BY <1>6, <1>17a, <2>2
  <2>4. pipes'[p].used <=> HasEnd("PIPE_WRITE", p)
    BY <1>12, <1>17, <2>3 DEF Counted
  <2>5. HasEnd("PIPE_WRITE", p)' <=> HasEnd("PIPE_WRITE", p)
    BY <1>16, <1>18
  <2>6. pipes'[p].used => Counted(p)'
    BY <1>12, <1>16, <1>18, <2>2, <2>4, <2>5 DEF Counted
  <2>7. HasEnd("PIPE_READ", p)' \/ HasEnd("PIPE_WRITE", p)' => pipes'[p].used
    BY <1>16, <1>18, <2>4, <2>5
  <2> QED BY <2>6, <2>7
<1>19. ASSUME type = "PIPE_WRITE"
       PROVE  /\ pipes'[p].used => Counted(p)'
              /\ HasEnd("PIPE_READ", p)' \/ HasEnd("PIPE_WRITE", p)' => pipes'[p].used
  <2>1. pipes[p].writers = 1
    BY <1>12, <1>16, <1>19 DEF Counted
  <2>2. pipes'[p].writers = 0 /\ pipes'[p].readers = pipes[p].readers
    BY <1>14, <1>17, <1>19, <2>1 DEF Released
  <2>3. pipes'[p].used <=> pipes[p].readers # 0
    BY <1>6, <1>17a, <2>2
  <2>4. pipes'[p].used <=> HasEnd("PIPE_READ", p)
    BY <1>12, <1>17, <2>3 DEF Counted
  <2>5. HasEnd("PIPE_READ", p)' <=> HasEnd("PIPE_READ", p)
    BY <1>16, <1>19
  <2>6. pipes'[p].used => Counted(p)'
    BY <1>12, <1>16, <1>19, <2>2, <2>4, <2>5 DEF Counted
  <2>7. HasEnd("PIPE_READ", p)' \/ HasEnd("PIPE_WRITE", p)' => pipes'[p].used
    BY <1>16, <1>19, <2>4, <2>5
  <2> QED BY <2>6, <2>7
<1>20. /\ pipes'[p].used => Counted(p)'
       /\ HasEnd("PIPE_READ", p)' \/ HasEnd("PIPE_WRITE", p)' => pipes'[p].used
  BY <1>7, <1>18, <1>19
<1>21. ASSUME NEW g \in Fds, EndAt(g)'
       PROVE  \E q \in Pipes : fd_table'[g].data = q /\ pipes'[q].used
  <2>1. EndAt(g) /\ fd_table'[g] = fd_table[g]
    BY <1>2, <1>21
  <2>2. PICK q \in Pipes : fd_table[g].data = q /\ pipes[q].used
    BY <1>4, <2>1 DEF PipesInv
  <2>3. CASE q = p
    <3>1. fd_table[g].type \in {"PIPE_READ", "PIPE_WRITE"}
      BY <1>4, <2>1 DEF EndAt, Live, TypeOK
    <3>2. fd_table[g] = [type |-> fd_table[g].type, data |-> p]
      BY <1>4, <2>2, <2>3 DEF TypeOK
    <3>3. CASE fd_table[g].type = "PIPE_READ"
      <4>1. HasEnd("PIPE_READ", p)'
        BY <1>2, <1>21, <3>2, <3>3 DEF HasEnd
      <4> QED BY <1>6, <1>20, <2>1, <2>2, <2>3, <4>1
    <3>4. CASE fd_table[g].type = "PIPE_WRITE"
      <4>1. HasEnd("PIPE_WRITE", p)'
        BY <1>2, <1>21, <3>2, <3>4 DEF HasEnd
      <4> QED BY <1>6, <1>20, <2>1, <2>2, <2>3, <4>1
    <3> QED BY <3>1, <3>3, <3>4
  <2>4. CASE q # p
    BY <1>13, <2>1, <2>2, <2>4
  <2> QED BY <2>3, <2>4
<1>22. ASSUME NEW u \in Tasks, Piping(u)' PROVE PipingHas(u)'
  <2>1. Piping(u) /\ PipingHas(u)
    BY <1>4, <1>9, <1>22 DEF PipesInv
  <2>2. pc'[u] = "pipeReadEnd" /\ data'[u] = data[u] /\ data[u] # p /\ pc[u] = "pipeReadEnd"
    BY <1>10, <2>1
  <2>3. data[u] \in Pipes /\ pipes'[data[u]] = pipes[data[u]]
    BY <1>13, <2>1, <2>2 DEF PipingHas
  <2> QED BY <1>2, <2>1, <2>2, <2>3 DEF PipingHas, PipeNew
<1>23. \A g, h \in Fds : EndAt(g)' /\ EndAt(h)' /\ fd_table'[g] = fd_table'[h] => g = h
  BY <1>2, <1>4 DEF PipesInv
<1>24. \A u, v \in Tasks : Piping(u)' /\ Piping(v)' /\ data'[v] = data'[u] => v = u
  BY <1>4, <1>9, <1>10 DEF PipesInv
<1>25. \A q \in Pipes : pipes'[q].used /\ ~Held(q)' => Counted(q)'
  BY <1>4, <1>11, <1>13, <1>15, <1>20 DEF PipesInv, Counted
<1>26. PipesInv'
  BY <1>21, <1>22, <1>23, <1>24, <1>25 DEF PipesInv
<1> QED BY <1>5, <1>26

LEMMA PipeTakeKeeps ==
    ASSUME WindowsClosed, FilesInv, NEW t \in Tasks, PipeTake(t)
    PROVE  NodesInv' /\ PipesInv'
<1>0. FreePipes \in SUBSET Nat /\ FreePipes # {}
  BY Limits DEF FreePipes, Pipes, PipeTake
<1>1. PICK p \in Pipes : p = Lowest(FreePipes) /\ ~pipes[p].used
  BY <1>0, LowestIn DEF FreePipes
<1>2. Local(t, "pipeReadEnd", fd[t], p)
  BY <1>1, Others DEF FilesInv, TypeOK, PipeTake, Goto, Local
<1>3. /\ pc[t] = "idle" /\ TypeOK /\ NodesInv /\ PipesInv
      /\ fd_table' = fd_table /\ nodes' = nodes
      /\ pipes' = [pipes EXCEPT ![p] = [used |-> TRUE, readers |-> 1, writers |-> 1]]
  BY <1>1 DEF PipeTake, At, FilesInv
<1>4. \A g \in Fds : /\ FileAt(g)' <=> FileAt(g)
                     /\ EndAt(g)' <=> EndAt(g)
                     /\ fd_table'[g] = fd_table[g]
  BY <1>2, <1>3, TableKept
<1>5. NodesInv'
  BY <1>2, <1>3, <1>4, NodesKept
<1>6. pipes'[p].used /\ \A q \in Pipes \ {p} : pipes'[q] = pipes[q]
  BY <1>3 DEF TypeOK
<1>7. PipeNew(p)'
  BY <1>3 DEF PipeNew, TypeOK
<1>8. \A g \in Fds : EndAt(g) => fd_table[g].data # p
  BY <1>1, <1>3 DEF PipesInv
<1>9. \A u \in Tasks : /\ Piping(u)' <=> Piping(u) \/ u = t
                       /\ Piping(u) => u # t /\ data[u] # p
  <2>1. \A u \in Tasks : Piping(u) => u # t /\ data[u] # p
    BY <1>1, <1>3 DEF PipesInv, PipingHas, PipeNew, Piping
  <2>2. \A u \in Tasks : Piping(u)' <=> Piping(u) \/ u = t
    BY <1>2 DEF Piping, Local
  <2> QED BY <2>1, <2>2
<1>10. \A u \in Tasks \ {t} : pc'[u] = pc[u] /\ data'[u] = data[u] /\ fd'[u] = fd[u]
  BY <1>2 DEF Local
<1>11. data'[t] = p /\ pc'[t] = "pipeReadEnd"
  BY <1>2 DEF Local
<1>12. \A q \in Pipes : Held(q)' <=> Held(q) \/ q = p
  BY <1>9, <1>10, <1>11 DEF Held
<1>13. \A kind, q : HasEnd(kind, q)' <=> HasEnd(kind, q)
  BY <1>4 DEF HasEnd
<1>14. \A g \in Fds : EndAt(g)' => \E q \in Pipes : fd_table'[g].data = q /\ pipes'[q].used
  BY <1>3, <1>4, <1>6 DEF PipesInv
<1>15. \A g, h \in Fds : EndAt(g)' /\ EndAt(h)' /\ fd_table'[g] = fd_table'[h] => g = h
  BY <1>3, <1>4 DEF PipesInv
<1>16. \A u, v \in Tasks : Piping(u)' /\ Piping(v)' /\ data'[v] = data'[u] => v = u
  BY <1>3, <1>9, <1>10, <1>11 DEF PipesInv
<1>17. ASSUME NEW u \in Tasks, Piping(u)' PROVE PipingHas(u)'
  <2>1. CASE u = t
    BY <1>4, <1>7, <1>8, <1>11, <2>1 DEF PipingHas, PipeNew
  <2>2. CASE u # t
    <3>1. Piping(u) /\ PipingHas(u)
      BY <1>3, <1>9, <1>17, <2>2 DEF PipesInv
    <3>2. data[u] \in Pipes \ {p} /\ pipes'[data[u]] = pipes[data[u]]
      BY <1>6, <1>9, <3>1 DEF PipingHas
    <3> QED BY <1>4, <1>10, <2>2, <3>1, <3>2 DEF PipingHas, PipeNew
  <2> QED BY <2>1, <2>2
<1>18. \A q \in Pipes : pipes'[q].used /\ ~Held(q)' => Counted(q)'
  BY <1>3, <1>6, <1>12, <1>13 DEF PipesInv, Counted
<1>19. PipesInv'
  BY <1>14, <1>15, <1>16, <1>17, <1>18 DEF PipesInv
<1> QED BY <1>5, <1>19

\* The table when vfs_pipe gets a descriptor for one of its ends.
LEMMA EndAllocated ==
    ASSUME WindowsClosed, FilesInv, NEW t \in Tasks, NEW to, NEW d1, NEW d2,
           NEW type \in {"PIPE_READ", "PIPE_WRITE"}, FreeFds # {},
           Local(t, to, d1, d2), pc[t] # "closeClear", to # "closeClear",
           data[t] \in Pipes,
           fd_table' = Allocated(type, data[t])
    PROVE  LET f == Lowest(FreeFds)
           IN /\ f \in Fds /\ ~EndAt(f) /\ fd_table'[f] = [type |-> type, data |-> data[t]]
              /\ \A g \in Fds : /\ FileAt(g)' <=> FileAt(g)
                                /\ EndAt(g)' <=> EndAt(g) \/ g = f
                                /\ g # f => fd_table'[g] = fd_table[g]
                                /\ FileAt(g) => g # f
<1> DEFINE f == Lowest(FreeFds)
<1>1. f \in Fds /\ fd_table[f].type = "EMPTY"
  BY FreeFdIn
<1>2. fd_table'[f] = [type |-> type, data |-> data[t]]
      /\ \A g \in Fds \ {f} : fd_table'[g] = fd_table[g]
  BY <1>1 DEF FilesInv, TypeOK, Allocated
<1> HIDE DEF f
<1>3. ASSUME NEW g \in Fds
      PROVE  /\ g \in Live <=> fd_table[g].type # "EMPTY"
             /\ g \in Live' <=> fd_table'[g].type # "EMPTY"
  BY LiveStep
<1>4. ~EndAt(f) /\ \A g \in Fds : FileAt(g) => g # f
  BY <1>1, <1>3 DEF FileAt, EndAt
<1>5. \A g \in Fds : /\ FileAt(g)' <=> FileAt(g)
                     /\ EndAt(g)' <=> EndAt(g) \/ g = f
  BY <1>1, <1>2, <1>3 DEF FileAt, EndAt
<1> QED BY <1>1, <1>2, <1>4, <1>5 DEF f

LEMMA PipeReadEndKeeps ==
    ASSUME WindowsClosed, FilesInv, NEW t \in Tasks, PipeReadEnd(t)
    PROVE  NodesInv' /\ PipesInv'
<1>1. /\ pc[t] = "pipeReadEnd" /\ TypeOK /\ NodesInv /\ PipesInv /\ FreeFds # {}
      /\ fd_table' = Allocated("PIPE_READ", data[t])
      /\ nodes' = nodes /\ pipes' = pipes
  BY DEF PipeReadEnd, At, FilesInv
<1>2. Local(t, "pipeWriteEnd", Lowest(FreeFds), data[t])
  BY Others DEF FilesInv, TypeOK, PipeReadEnd, Goto, Local
<1>3. Piping(t) /\ PipingHas(t)
  BY <1>1 DEF PipesInv, Piping
<1>4. PICK p \in Pipes : p = data[t]
  BY <1>3 DEF PipingHas
<1>5. PICK f \in Fds : f = Lowest(FreeFds)
  BY <1>1, FreeFdIn
<1>6. /\ ~EndAt(f) /\ fd_table'[f] = [type |-> "PIPE_READ", data |-> p]
      /\ \A g \in Fds : /\ FileAt(g)' <=> FileAt(g)
                        /\ EndAt(g)' <=> EndAt(g) \/ g = f
                        /\ g # f => fd_table'[g] = fd_table[g]
                        /\ FileAt(g) => g # f
  BY <1>1, <1>2, <1>4, <1>5, EndAllocated
<1>7. NodesInv'
  BY <1>1, <1>2, <1>6, NodesKept
<1>8. PipeNew(p) /\ \A g \in Fds : EndAt(g) => fd_table[g].data # p
  BY <1>1, <1>3, <1>4 DEF PipingHas
<1>9. \A u \in Tasks : /\ Piping(u)' <=> Piping(u)
                       /\ data'[u] = data[u]
                       /\ u # t => pc'[u] = pc[u] /\ fd'[u] = fd[u]
  BY <1>2, <1>3 DEF Local, Piping
<1>10. pc'[t] = "pipeWriteEnd" /\ fd'[t] = f
  BY <1>2, <1>5 DEF Local
<1>11. \A q : Held(q)' <=> Held(q)
  BY <1>9 DEF Held
<1>12. Held(p)
  BY <1>3, <1>4 DEF Held
<1>13. \A q \in Pipes \ {p} : \A kind : HasEnd(kind, q)' <=> HasEnd(kind, q)
  BY <1>6 DEF HasEnd
<1>14. \A g \in Fds : EndAt(g)' => \E q \in Pipes : fd_table'[g].data = q /\ pipes'[q].used
  BY <1>1, <1>6, <1>8 DEF PipesInv, PipeNew
<1>15. \A g, h \in Fds : EndAt(g)' /\ EndAt(h)' /\ fd_table'[g] = fd_table'[h] => g = h
  BY <1>1, <1>6, <1>8 DEF PipesInv
<1>16. \A u, v \in Tasks : Piping(u)' /\ Piping(v)' /\ data'[v] = data'[u] => v = u
  BY <1>1, <1>9 DEF PipesInv
<1>17. ASSUME NEW u \in Tasks, Piping(u)' PROVE PipingHas(u)'
  <2>1. Piping(u) /\ PipingHas(u)
    BY <1>1, <1>9, <1>17 DEF PipesInv
  <2>2. CASE u = t
    <3>1. data'[t] = p
      BY <1>4, <1>9
    <3>2. PipeNew(p)'
      BY <1>1, <1>8 DEF PipeNew
    <3>3. \A g \in Fds \ {f} : EndAt(g)' => fd_table'[g].data # p
      BY <1>6, <1>8
    <3>4. EndAt(f)'
      BY <1>6
    <3> QED BY <1>4, <1>6, <1>10, <2>2, <3>1, <3>2, <3>3, <3>4 DEF PipingHas, PipeNew
  <2>3. CASE u # t
    <3>1. data[u] # p
      BY <1>1, <1>3, <1>4, <2>1, <2>3 DEF PipesInv
    <3>2. pc[u] = "pipeReadEnd" /\ pc'[u] = "pipeReadEnd" /\ data'[u] = data[u]
      BY <1>2, <1>9, <2>1, <2>3 DEF Local, Piping
    <3> QED BY <1>1, <1>6, <2>1, <3>1, <3>2 DEF PipingHas, PipeNew
  <2> QED BY <2>2, <2>3
<1>18. \A q \in Pipes : pipes'[q].used /\ ~Held(q)' => Counted(q)'
  BY <1>1, <1>11, <1>12, <1>13 DEF PipesInv, Counted
<1>19. PipesInv'
  BY <1>14, <1>15, <1>16, <1>17, <1>18 DEF PipesInv
<1> QED BY <1>7, <1>19

LEMMA PipeWriteEndKeeps ==
    ASSUME WindowsClosed, FilesInv, NEW t \in Tasks, PipeWriteEnd(t)
    PROVE  NodesInv' /\ PipesInv'
<1>1. /\ pc[t] = "pipeWriteEnd" /\ TypeOK /\ NodesInv /\ PipesInv /\ FreeFds # {}
      /\ fd_table' = Allocated("PIPE_WRITE", data[t])
      /\ nodes' = nodes /\ pipes' = pipes
  BY DEF PipeWriteEnd, At, FilesInv
<1>2. Local(t, "idle", Null, Null)
  BY Returns DEF FilesInv, PipeWriteEnd
<1>3. Piping(t) /\ PipingHas(t)
  BY <1>1 DEF PipesInv, Piping
<1>4. PICK p \in Pipes : p = data[t]
  BY <1>3 DEF PipingHas
<1>5. PICK f \in Fds : f = Lowest(FreeFds)
  BY <1>1, FreeFdIn
<1>6. /\ ~EndAt(f) /\ fd_table'[f] = [type |-> "PIPE_WRITE", data |-> p]
      /\ \A g \in Fds : /\ FileAt(g)' <=> FileAt(g)
                        /\ EndAt(g)' <=> EndAt(g) \/ g = f
                        /\ g # f => fd_table'[g] = fd_table[g]
                        /\ FileAt(g) => g # f
  BY <1>1, <1>2, <1>4, <1>5, EndAllocated
<1>7. NodesInv'
  BY <1>1, <1>2, <1>6, NodesKept
<1>8. PICK e \in Fds : /\ EndAt(e) /\ fd_table[e] = [type |-> "PIPE_READ", data |-> p]
                       /\ \A g \in Fds \ {e} : EndAt(g) => fd_table[g].data # p
  BY <1>1, <1>3, <1>4 DEF PipingHas
<1>9. PipeNew(p)
  BY <1>3, <1>4 DEF PipingHas
<1>10. \A u \in Tasks : /\ Piping(u)' <=> Piping(u) /\ u # t
                        /\ u # t => pc'[u] = pc[u] /\ fd'[u] = fd[u] /\ data'[u] = data[u]
  BY <1>2 DEF Local, Piping
<1>11. \A u \in Tasks : Piping(u) /\ u # t => data[u] # p /\ pc[u] = "pipeReadEnd"
  BY <1>1, <1>2, <1>3, <1>4 DEF PipesInv, Piping, Local
<1>12. \A q \in Pipes : Held(q)' <=> Held(q) /\ q # p
  BY <1>3, <1>4, <1>10, <1>11 DEF Held
<1>13. \A q \in Pipes \ {p} : \A kind : HasEnd(kind, q)' <=> HasEnd(kind, q)
  BY <1>6 DEF HasEnd
<1>14. HasEnd("PIPE_READ", p)' /\ HasEnd("PIPE_WRITE", p)'
  <2>1. HasEnd("PIPE_WRITE", p)'
    BY <1>6 DEF HasEnd
  <2>2. HasEnd("PIPE_READ", p)'
    BY <1>6, <1>8 DEF HasEnd
  <2> QED BY <2>1, <2>2
<1>15. \A g \in Fds : EndAt(g)' => \E q \in Pipes : fd_table'[g].data = q /\ pipes'[q].used
  BY <1>1, <1>6, <1>9 DEF PipesInv, PipeNew
<1>16. \A g, h \in Fds : EndAt(g)' /\ EndAt(h)' /\ fd_table'[g] = fd_table'[h] => g = h
  <2>1. \A g \in Fds : EndAt(g) => fd_table[g] # fd_table'[f]
    BY <1>6, <1>8
  <2> QED BY <1>1, <1>6, <2>1 DEF PipesInv
<1>17. \A u, v \in Tasks : Piping(u)' /\ Piping(v)' /\ data'[v] = data'[u] => v = u
  BY <1>1, <1>10 DEF PipesInv
<1>18. ASSUME NEW u \in Tasks, Piping(u)' PROVE PipingHas(u)'
  <2>1. Piping(u) /\ PipingHas(u) /\ u # t /\ data[u] # p
    BY <1>1, <1>10, <1>11, <1>18 DEF PipesInv
  <2>2. pc[u] = "pipeReadEnd" /\ pc'[u] = "pipeReadEnd" /\ data'[u] = data[u]
    BY <1>10, <1>11, <2>1
  <2> QED BY <1>1, <1>6, <2>1, <2>2 DEF PipingHas, PipeNew
<1>19. Counted(p)'
  BY <1>1, <1>9, <1>14 DEF Counted, PipeNew
<1>20. \A q \in Pipes : pipes'[q].used /\ ~Held(q)' => Counted(q)'
  BY <1>1, <1>12, <1>13, <1>19 DEF PipesInv, Counted
<1>21. PipesInv'
  BY <1>15, <1>16, <1>17, <1>18, <1>20 DEF PipesInv
<1> QED BY <1>7, <1>21

\* Without a descriptor for one of the ends, none of them is left and the pipe is free.
LEMMA PipeFailKeeps ==
    ASSUME WindowsClosed, FilesInv, NEW t \in Tasks, PipeFail(t)
    PROVE  NodesInv' /\ PipesInv'
<1>1. /\ TypeOK /\ NodesInv /\ PipesInv
      /\ nodes' = nodes /\ pipes' = [pipes EXCEPT ![data[t]].used = FALSE]
  BY DEF PipeFail, FilesInv
<1>2. Local(t, "idle", Null, Null)
  BY Returns DEF FilesInv, PipeFail
<1>3. Piping(t) /\ PipingHas(t)
  BY <1>1 DEF PipesInv, Piping, PipeFail, At
<1>4. PICK p \in Pipes : p = data[t]
  BY <1>3 DEF PipingHas
<1>5. ASSUME NEW g \in Fds
      PROVE  /\ g \in Live <=> fd_table[g].type # "EMPTY"
             /\ g \in Live' <=> fd_table'[g].type # "EMPTY"
  <2>1. pc[t] # "closeClear"
    BY <1>3 DEF Piping
  <2> QED BY <1>2, <2>1, LiveStep
<1>6. \A g \in Fds : /\ FileAt(g)' <=> FileAt(g)
                     /\ EndAt(g)' <=> EndAt(g) /\ fd_table[g].data # p
                     /\ EndAt(g)' \/ FileAt(g) => fd_table'[g] = fd_table[g]
  <2>1. CASE pc[t] = "pipeReadEnd"
    <3>1. fd_table' = fd_table
      BY <2>1 DEF PipeFail
    <3>2. \A g \in Fds : EndAt(g) => fd_table[g].data # p
      BY <1>3, <1>4, <2>1 DEF PipingHas
    <3> QED BY <1>5, <3>1, <3>2 DEF FileAt, EndAt
  <2>2. CASE pc[t] = "pipeWriteEnd"
    <3>1. PICK e \in Fds : /\ e = fd[t] /\ EndAt(e)
                           /\ fd_table[e] = [type |-> "PIPE_READ", data |-> p]
                           /\ \A g \in Fds \ {e} : EndAt(g) => fd_table[g].data # p
      BY <1>3, <1>4, <2>2 DEF PipingHas
    <3>2. fd_table' = [fd_table EXCEPT ![e].type = "EMPTY"]
      BY <2>2, <3>1 DEF PipeFail
    <3>3. fd_table'[e].type = "EMPTY" /\ \A g \in Fds \ {e} : fd_table'[g] = fd_table[g]
      BY <1>1, <3>2 DEF TypeOK
    <3> QED BY <1>5, <3>1, <3>3 DEF FileAt, EndAt
  <2> QED BY <1>3, <2>1, <2>2 DEF Piping
<1>7. NodesInv'
  BY <1>1, <1>2, <1>3, <1>6, NodesKept DEF Piping
<1>8. \A q \in Pipes \ {p} : pipes'[q] = pipes[q]
  BY <1>1, <1>4 DEF TypeOK
<1>9. ~pipes'[p].used
  BY <1>1, <1>4 DEF TypeOK
<1>10. \A u \in Tasks : /\ Piping(u)' <=> Piping(u) /\ u # t
                        /\ u # t => pc'[u] = pc[u] /\ fd'[u] = fd[u] /\ data'[u] = data[u]
  BY <1>2 DEF Local, Piping
<1>11. \A u \in Tasks : Piping(u) /\ u # t => data[u] # p /\ pc[u] = "pipeReadEnd"
  BY <1>1, <1>2, <1>3, <1>4 DEF PipesInv, Piping, Local
<1>12. \A q \in Pipes : Held(q)' <=> Held(q) /\ q # p
  BY <1>3, <1>4, <1>10, <1>11 DEF Held
<1>13. \A q \in Pipes \ {p} : \A kind : HasEnd(kind, q)' <=> HasEnd(kind, q)
  BY <1>6 DEF HasEnd
<1>14. ASSUME NEW g \in Fds, EndAt(g)'
       PROVE  \E q \in Pipes : fd_table'[g].data = q /\ pipes'[q].used
  <2>1. EndAt(g) /\ fd_table[g].data # p /\ fd_table'[g] = fd_table[g]
    BY <1>6, <1>14
  <2>2. PICK q \in Pipes : fd_table[g].data = q /\ pipes[q].used
    BY <1>1, <2>1 DEF PipesInv
  <2>3. pipes'[q] = pipes[q]
    BY <1>8, <2>1, <2>2
  <2> QED BY <2>1, <2>2, <2>3
<1>15. \A g, h \in Fds : EndAt(g)' /\ EndAt(h)' /\ fd_table'[g] = fd_table'[h] => g = h
  BY <1>1, <1>6 DEF PipesInv
<1>16. \A u, v \in Tasks : Piping(u)' /\ Piping(v)' /\ data'[v] = data'[u] => v = u
  BY <1>1, <1>10 DEF PipesInv
<1>17. ASSUME NEW u \in Tasks, Piping(u)' PROVE PipingHas(u)'
  <2>1. Piping(u) /\ PipingHas(u) /\ u # t /\ data[u] # p
    BY <1>1, <1>10, <1>11, <1>17 DEF PipesInv
  <2>2. pc[u] = "pipeReadEnd" /\ pc'[u] = "pipeReadEnd" /\ data'[u] = data[u]
    BY <1>10, <1>11, <2>1
  <2>3. data[u] \in Pipes /\ pipes'[data[u]] = pipes[data[u]]
    BY <1>8, <2>1 DEF PipingHas
  <2> QED BY <1>6, <2>1, <2>2, <2>3 DEF PipingHas, PipeNew
<1>18. \A q \in Pipes : pipes'[q].used /\ ~Held(q)' => Counted(q)'
  BY <1>1, <1>8, <1>9, <1>12, <1>13 DEF PipesInv, Counted
<1>19. PipesInv'
  BY <1>14, <1>15, <1>16, <1>17, <1>18 DEF PipesInv
<1> QED BY <1>7, <1>19

-----------------------------------------------------------------------------
(* The steps together.                                                     *)

LEMMA RamStep ==
    ASSUME WindowsClosed, FilesInv, [Next]_vars
    PROVE  RamType' /\ RamInv'
<1>0. RamType /\ RamInv
  BY DEF FilesInv, TypeOK, RamType
<1>1. CASE UNCHANGED ramfs
  BY <1>0, <1>1 DEF ramfs, RamType, RamInv, UnusedFull, Fits, Filled, Has
<1>2. ASSUME NEW p \in RamPaths, NEW n \in Sizes \ {0}, Register(p, n)
      PROVE  RamType' /\ RamInv'
  BY <1>0, <1>2, AnyWrite DEF Register
<1>3. ASSUME NEW t \in Tasks, OpenFind(t), ~UNCHANGED ramfs PROVE RamType' /\ RamInv'
  <2>1. /\ path[t] \in RamPaths /\ FreeFiles # {}
        /\ file_table' = [file_table EXCEPT ![Lowest(FreeFiles)] = Created(path[t])]
        /\ bitmap' = bitmap
    BY <1>3 DEF OpenFind
  <2>2. PICK p \in RamPaths : p = path[t]
    BY <2>1
  <2>3. PICK i \in Files : i = Lowest(FreeFiles) /\ ~file_table[i].used
    BY <2>1, FreeFileIn
  <2> QED BY <1>0, <2>1, <2>2, <2>3, CreateKeepsRam
<1>4. ASSUME NEW t \in Tasks, Transfer(t), ~UNCHANGED ramfs PROVE RamType' /\ RamInv'
  <2>1. pc[t] = "transfer" /\ data[t] \in Nodes
    BY <1>4 DEF Transfer, At, FilesInv, NodesInv, OpenHas, TypeOK
  <2>2. internal_id[data[t]] \in Files \cup {Driver}
    BY <2>1 DEF FilesInv, TypeOK
  <2>3. PICK i \in Files : \E n \in Sizes : FsWrite(i, file_table[i], n)
    BY <1>4, <2>2 DEF Transfer
  <2> QED BY <1>0, <2>3, AnyWrite
<1>5. ASSUME NEW t \in Tasks, Open(t), ~UNCHANGED ramfs PROVE OpenFind(t)
  BY <1>5 DEF Open, OpenPick, OpenNode, OpenNoMemory, OpenUnknown, OpenFill
<1>6. ASSUME NEW t \in Tasks, Close(t) \/ Pipe(t) PROVE UNCHANGED ramfs
  BY <1>6 DEF Close, Pipe, CloseRelease, CloseClear, PipeTake, PipeReadEnd, PipeWriteEnd, PipeFail
<1>7. ASSUME NEW t \in Tasks, NEW f \in Fds, TransferTake(t, f) PROVE UNCHANGED ramfs
  BY <1>7 DEF TransferTake
<1>8. CASE BootDone
  BY <1>1, <1>8 DEF BootDone
<1>9. CASE UNCHANGED vars
  BY <1>1, <1>9 DEF vars
<1> QED BY <1>1, <1>2, <1>3, <1>4, <1>5, <1>6, <1>7, <1>8, <1>9 DEF Next

Descs == [type : {"EMPTY", "VFS_FILE", "PIPE_READ", "PIPE_WRITE"},
          data : Nodes \cup Pipes \cup {Null}]
PipeRecs == [used : BOOLEAN, readers : 0 .. 1, writers : 0 .. 1]

LEMMA PipeRecTypes ==
    ASSUME NEW q \in PipeRecs
    PROVE  /\ \A type : Released(type, q) \in PipeRecs
           /\ [q EXCEPT !.used = FALSE] \in PipeRecs
           /\ [used |-> TRUE, readers |-> 1, writers |-> 1] \in PipeRecs
<1>1. ASSUME NEW type PROVE Released(type, q) \in PipeRecs
  <2> DEFINE r == Released(type, q)
  <2>1. r.readers \in 0 .. 1 /\ r.writers \in 0 .. 1
    BY DEF Released, PipeRecs
  <2>2. r.used \in BOOLEAN
    BY DEF Released, PipeRecs
  <2>3. r = [used |-> r.used, readers |-> r.readers, writers |-> r.writers]
    BY DEF Released
  <2> HIDE DEF r
  <2>4. r \in PipeRecs
    BY <2>1, <2>2, <2>3 DEF PipeRecs
  <2> QED BY <2>4 DEF r
<1>2. [q EXCEPT !.used = FALSE] \in PipeRecs
  BY DEF PipeRecs
<1>3. [used |-> TRUE, readers |-> 1, writers |-> 1] \in PipeRecs
  BY DEF PipeRecs
<1> QED BY <1>1, <1>2, <1>3

LEMMA ReturnTypes ==
    ASSUME TypeOK, NEW t \in Tasks, Return(t)
    PROVE  /\ pc' \in [Tasks -> Points]
           /\ fd' \in [Tasks -> Fds \cup {Null}]
           /\ data' \in [Tasks -> Nodes \cup Pipes \cup {Null}]
  BY DEF TypeOK, Return, Points

\* What a step changes has its type after it.
LEMMA StepTypes ==
    ASSUME FilesInv, RamType', [Next]_vars
    PROVE  TypeOK'
<1> DEFINE D == Nodes \cup Pipes \cup {Null}
           Rest == /\ fd_table' \in [Fds -> Descs]
                   /\ nodes' \subseteq Nodes
                   /\ internal_id' \in [Nodes -> Files \cup {Driver}]
                   /\ pipes' \in [Pipes -> PipeRecs]
                   /\ booting' \in BOOLEAN
                   /\ pc' \in [Tasks -> Points]
                   /\ fd' \in [Tasks -> Fds \cup {Null}]
                   /\ data' \in [Tasks -> D]
<1>0. TypeOK
  BY DEF FilesInv
<1>a. /\ fd_table \in [Fds -> Descs] /\ pipes \in [Pipes -> PipeRecs]
      /\ nodes \subseteq Nodes /\ internal_id \in [Nodes -> Files \cup {Driver}]
      /\ pc \in [Tasks -> Points] /\ fd \in [Tasks -> Fds \cup {Null}] /\ data \in [Tasks -> D]
      /\ booting \in BOOLEAN
  BY <1>0 DEF TypeOK, Descs, PipeRecs
<1> HIDE DEF D
<1>1. ASSUME NEW t \in Tasks, Open(t) PROVE Rest
  <2>1. ASSUME NEW p, OpenPick(t, p) PROVE Rest
    <3>1. Lowest(FreeFds) \in Fds
      BY <2>1, FreeFdIn DEF OpenPick
    <3> QED BY <1>a, <2>1, <3>1 DEF OpenPick, Goto, Points, Windows
  <2>2. CASE OpenNode(t)
    BY <1>a, <2>2 DEF OpenNode, Goto, Points, Windows, D
  <2>3. CASE OpenNoMemory(t)
    BY <1>0, <1>a, <2>3, ReturnTypes DEF OpenNoMemory, D
  <2>4. CASE OpenFind(t)
    <3>1. Matches(path[t]) \in SUBSET Nat /\ FreeFiles \in SUBSET Nat
      BY Limits DEF Matches, FreeFiles
    <3>2. \E i \in Files \cup {Driver} : internal_id' = [internal_id EXCEPT ![data[t]] = i]
      BY <2>4, <3>1, LowestIn DEF OpenFind, Matches, FreeFiles
    <3>3. internal_id' \in [Nodes -> Files \cup {Driver}]
      BY <1>a, <3>2
    <3> QED BY <1>a, <2>4, <3>3 DEF OpenFind, Goto, Points, Windows, locals
  <2>5. CASE OpenUnknown(t)
    BY <1>0, <1>a, <2>5, ReturnTypes DEF OpenUnknown, Freed, D
  <2>6. CASE OpenFill(t)
    <3>1. [type |-> "VFS_FILE", data |-> data[t]] \in Descs
      BY <1>a DEF Descs, D
    <3> QED BY <1>0, <1>a, <2>6, <3>1, ReturnTypes DEF OpenFill, D
  <2> QED BY <1>1, <2>1, <2>2, <2>3, <2>4, <2>5, <2>6 DEF Open
<1>2. ASSUME NEW t \in Tasks, Close(t) PROVE Rest
  <2>1. ASSUME NEW f \in Fds, CloseRelease(t, f) PROVE Rest
    <3>1. CASE fd_table[f].type = "VFS_FILE"
      BY <1>a, <2>1, <3>1 DEF CloseRelease, Freed, Goto, Points, Windows
    <3>2. CASE fd_table[f].type # "VFS_FILE"
      <4>1. pipes' \in [Pipes -> PipeRecs]
        <5> DEFINE d == fd_table[f].data
                   q == Released(fd_table[f].type, pipes[d])
        <5>1. pipes' = [pipes EXCEPT ![d] = q]
          BY <2>1, <3>2 DEF CloseRelease
        <5>2. d \in Pipes => q \in PipeRecs
          BY <1>a, PipeRecTypes
        <5> HIDE DEF d, q
        <5> QED BY <1>a, <5>1, <5>2
      <4> QED BY <1>a, <2>1, <3>2, <4>1 DEF CloseRelease, Goto, Points, Windows
    <3> QED BY <3>1, <3>2
  <2>2. CASE CloseClear(t)
    <3>1. Empty \in Descs
      BY DEF Empty, Descs
    <3> QED BY <1>0, <1>a, <2>2, <3>1, ReturnTypes DEF CloseClear, D
  <2> QED BY <1>2, <2>1, <2>2 DEF Close
<1>3. ASSUME NEW t \in Tasks, Pipe(t) PROVE Rest
  <2>1. CASE PipeTake(t)
    <3>1. Lowest(FreePipes) \in Pipes
      <4>1. FreePipes \in SUBSET Nat /\ FreePipes # {}
        BY <2>1, Limits DEF FreePipes, Pipes, PipeTake
      <4> QED BY <4>1, LowestIn DEF FreePipes
    <3>2. [used |-> TRUE, readers |-> 1, writers |-> 1] \in PipeRecs
      BY DEF PipeRecs
    <3> QED BY <1>a, <2>1, <3>1, <3>2 DEF PipeTake, Goto, Points, D
  <2>2. ASSUME FreeFds # {}, NEW kind \in {"PIPE_READ", "PIPE_WRITE"}
        PROVE  Allocated(kind, data[t]) \in [Fds -> Descs] /\ Lowest(FreeFds) \in Fds
    <3>1. [type |-> kind, data |-> data[t]] \in Descs
      BY <1>a DEF Descs, D
    <3> QED BY <1>a, <2>2, <3>1, FreeFdIn DEF Allocated
  <2>3. CASE PipeReadEnd(t)
    BY <1>a, <2>2, <2>3 DEF PipeReadEnd, Goto, Points, Windows
  <2>4. CASE PipeWriteEnd(t)
    BY <1>0, <1>a, <2>2, <2>4, ReturnTypes DEF PipeWriteEnd, D
  <2>5. CASE PipeFail(t)
    <3>1. pipes' \in [Pipes -> PipeRecs]
      <4> DEFINE d == data[t]
                 q == [pipes[d] EXCEPT !.used = FALSE]
      <4>1. pipes' = [pipes EXCEPT ![d] = q]
        BY <2>5 DEF PipeFail
      <4>2. d \in Pipes => q \in PipeRecs
        BY <1>a, PipeRecTypes
      <4> HIDE DEF d, q
      <4> QED BY <1>a, <4>1, <4>2
    <3>2. fd_table' \in [Fds -> Descs]
      BY <1>a, <2>5 DEF PipeFail, Descs
    <3> QED BY <1>0, <1>a, <2>5, <3>1, <3>2, ReturnTypes DEF PipeFail, D
  <2> QED BY <1>3, <2>1, <2>3, <2>4, <2>5 DEF Pipe
<1>4. ASSUME NEW t \in Tasks, NEW f \in Fds, TransferTake(t, f) PROVE Rest
  <2>1. fd_table[f].data \in D
    BY <1>a DEF Descs, D
  <2> QED BY <1>a, <1>4, <2>1 DEF TransferTake, Goto, Points, Windows
<1>5. ASSUME NEW t \in Tasks, Transfer(t) PROVE Rest
  BY <1>0, <1>a, <1>5, ReturnTypes DEF Transfer, D
<1>6. ASSUME NEW p, NEW n, Register(p, n) PROVE Rest
  BY <1>a, <1>6 DEF Register, locals
<1>7. ASSUME BootDone PROVE Rest
  BY <1>a, <1>7 DEF BootDone, locals
<1>8. ASSUME UNCHANGED vars PROVE Rest
  BY <1>a, <1>8 DEF vars, locals
<1>9. Rest
  BY <1>1, <1>2, <1>3, <1>4, <1>5, <1>6, <1>7, <1>8 DEF Next
<1> QED BY <1>9 DEF TypeOK, RamType, Descs, PipeRecs, D

LEMMA Still ==
    ASSUME NodesInv, PipesInv,
           fd_table' = fd_table, nodes' = nodes, pipes' = pipes,
           pc' = pc, fd' = fd, data' = data
    PROVE  NodesInv' /\ PipesInv'
<1>1. NodesInv'
  BY DEF NodesInv, FileAt, Live, Making, OpenHas
<1>2. PipesInv'
  BY DEF PipesInv, EndAt, Live, Piping, PipingHas, PipeNew, Held, Counted, HasEnd
<1> QED BY <1>1, <1>2

LEMMA FilesStep ==
    ASSUME WindowsClosed, FilesInv, [Next]_vars
    PROVE  FilesInv'
<1>1. RamType' /\ RamInv'
  BY RamStep
<1>2. TypeOK'
  BY <1>1, StepTypes
<1>3. NodesInv' /\ PipesInv'
  <2>1. ASSUME NEW t \in Tasks, Open(t) PROVE NodesInv' /\ PipesInv'
    BY <2>1, OpenPickKeeps, OpenNodeKeeps, OpenNoMemoryKeeps, OpenFindKeeps,
       OpenUnknownKeeps, OpenFillKeeps DEF Open
  <2>2. ASSUME NEW t \in Tasks, Close(t) PROVE NodesInv' /\ PipesInv'
    BY <2>2, CloseFileKeeps, ClosePipeKeeps, CloseClearKeeps DEF Close
  <2>3. ASSUME NEW t \in Tasks, Pipe(t) PROVE NodesInv' /\ PipesInv'
    BY <2>3, PipeTakeKeeps, PipeReadEndKeeps, PipeWriteEndKeeps, PipeFailKeeps DEF Pipe
  <2>4. ASSUME NEW t \in Tasks, Transfer(t) \/ \E f \in Fds : TransferTake(t, f)
        PROVE  NodesInv' /\ PipesInv'
    BY <2>4, TransferKeeps, TransferTakeKeeps
  <2>5. CASE \/ \E p \in RamPaths, n \in Sizes \ {0} : Register(p, n)
             \/ BootDone
             \/ UNCHANGED vars
    BY <2>5, Still DEF Register, BootDone, vars, locals, FilesInv
  <2> QED BY <2>1, <2>2, <2>3, <2>4, <2>5 DEF Next
<1> QED BY <1>1, <1>2, <1>3 DEF FilesInv

LEMMA FilesStart == Init => FilesInv
<1> SUFFICES ASSUME Init PROVE FilesInv
  OBVIOUS
<1>1. file_table \in [Files -> Entries]
  <2>1. 0 \in Blocks
    BY Limits DEF Blocks
  <2>2. [name |-> Null, size |-> 0, blocks |-> [j \in Slots |-> 0], used |-> FALSE] \in Entries
    BY <2>1 DEF Entries, Names
  <2> QED BY <2>2 DEF Init
<1>2. TypeOK
  <2>1. fd_table \in [Fds -> Descs] /\ pipes \in [Pipes -> PipeRecs]
    BY DEF Init, Descs, PipeRecs, Empty
  <2> QED BY <1>1, <2>1 DEF Init, TypeOK, Descs, PipeRecs, Points
<1>3. RamInv
  BY DEF Init, RamInv, UnusedFull, Has
<1>4. NodesInv
  BY DEF Init, NodesInv, FileAt, Live, Making, OpenHas, Empty
<1>5. PipesInv
  BY DEF Init, PipesInv, EndAt, Live, Piping, Empty
<1> QED BY <1>2, <1>3, <1>4, <1>5 DEF FilesInv

LEMMA FilesInvariant == WindowsClosed => (Spec => []FilesInv)
<1> SUFFICES ASSUME WindowsClosed PROVE Spec => []FilesInv
  OBVIOUS
<1>1. FilesInv /\ [Next]_vars => FilesInv'
  BY FilesStep
<1> QED BY FilesStart, <1>1, PTL DEF Spec
-----------------------------------------------------------------------------
(* The theorems.                                                           *)

\* With no tick in the windows every variable keeps its type.
THEOREM FileTypes == WindowsClosed => (Spec => []TypeOK)
<1>1. FilesInv => TypeOK
  BY DEF FilesInv
<1> QED BY <1>1, FilesInvariant, PTL

\* Every node on the heap is that of one open file, and no call goes on with one that
\* was freed: on no path through vfs_open, whatever failed on the way, and after
\* closes in any order.
THEOREM EveryNodeIsOfAnOpenFile == WindowsClosed => (Spec => []NodesOwned)
<1>1. FilesInv => NodesOwned
  <2> SUFFICES ASSUME FilesInv PROVE NodesOwned
    OBVIOUS
  <2>0. NodesInv
    BY DEF FilesInv
  <2>1. \A t \in Tasks : pc[t] \in {"openFind", "openFill", "transfer"} => data[t] \in nodes
    BY <2>0 DEF NodesInv, OpenHas
  <2>2. ASSUME Idle
        PROVE  /\ nodes = {fd_table[f].data : f \in Of("VFS_FILE")}
               /\ \A f, g \in Of("VFS_FILE") : fd_table[f].data = fd_table[g].data => f = g
    <3>1. \A n : ~Making(n)
      BY <2>2 DEF Idle, Making
    <3>2. \A f \in Fds : FileAt(f) <=> f \in Of("VFS_FILE")
      BY <2>2 DEF Idle, FileAt, Live, Of
    <3> QED BY <2>0, <3>1, <3>2 DEF NodesInv, Of
  <2> QED BY <2>1, <2>2 DEF NodesOwned
<1> QED BY <1>1, FilesInvariant, PTL

LEMMA EndsOfPipe ==
    ASSUME FilesInv, Idle, NEW p \in Pipes, NEW type \in {"PIPE_READ", "PIPE_WRITE"}
    PROVE  LET E == {f \in Of(type) : fd_table[f].data = p}
           IN Cardinality(E) = IF HasEnd(type, p) THEN 1 ELSE 0
<1> DEFINE E == {f \in Of(type) : fd_table[f].data = p}
<1>1. \A f \in Fds : EndAt(f) /\ fd_table[f] = [type |-> type, data |-> p] <=> f \in E
  BY DEF FilesInv, TypeOK, Idle, EndAt, Live, Of
<1>2. E \subseteq Fds
  BY DEF Of
<1> HIDE DEF E
<1>3. CASE HasEnd(type, p)
  <2>1. PICK f \in Fds : f \in E
    BY <1>1, <1>3 DEF HasEnd
  <2>2. E = {f}
    BY <1>1, <1>2, <2>1 DEF FilesInv, PipesInv
  <2>3. Cardinality(E) = 1
    BY <2>2, FS_Singleton
  <2> QED BY <1>3, <2>3 DEF E
<1>4. CASE ~HasEnd(type, p)
  <2>1. E = {}
    BY <1>1, <1>2, <1>4 DEF HasEnd
  <2>2. Cardinality(E) = 0
    BY <2>1, FS_EmptySet
  <2> QED BY <1>4, <2>2 DEF E
<1> QED BY <1>3, <1>4

\* A pipe stays in use as long as one of its ends is open and no longer, in whatever
\* order its ends and those of other pipes are closed, and also when vfs_pipe failed.
THEOREM APipeIsUsedWhileOpen == WindowsClosed => (Spec => []PipesCounted)
<1>1. FilesInv => PipesCounted
  <2> SUFFICES ASSUME FilesInv, Idle, NEW p \in Pipes
               PROVE  LET ends(type) == Cardinality({f \in Of(type) : fd_table[f].data = p}) IN
                      /\ pipes[p].used <=> ends("PIPE_READ") + ends("PIPE_WRITE") > 0
                      /\ pipes[p].used => /\ pipes[p].readers = ends("PIPE_READ")
                                          /\ pipes[p].writers = ends("PIPE_WRITE")
    BY DEF PipesCounted
  <2> DEFINE ends(type) == Cardinality({f \in Of(type) : fd_table[f].data = p})
  <2>1. /\ ends("PIPE_READ") = IF HasEnd("PIPE_READ", p) THEN 1 ELSE 0
        /\ ends("PIPE_WRITE") = IF HasEnd("PIPE_WRITE", p) THEN 1 ELSE 0
    BY EndsOfPipe
  <2> HIDE DEF ends
  <2>2. ~Held(p)
    BY DEF Idle, Held, Piping
  <2>3. pipes[p].readers \in 0 .. 1 /\ pipes[p].writers \in 0 .. 1
    BY DEF FilesInv, TypeOK
  <2>4. pipes[p].used => Counted(p)
    BY <2>2 DEF FilesInv, PipesInv
  <2>5. HasEnd("PIPE_READ", p) \/ HasEnd("PIPE_WRITE", p) => pipes[p].used
    BY DEF FilesInv, PipesInv, HasEnd
  <2>6. pipes[p].used <=> ends("PIPE_READ") + ends("PIPE_WRITE") > 0
    <3>1. pipes[p].used <=> HasEnd("PIPE_READ", p) \/ HasEnd("PIPE_WRITE", p)
      BY <2>4, <2>5 DEF Counted
    <3>2. HasEnd("PIPE_READ", p) \/ HasEnd("PIPE_WRITE", p)
             <=> ends("PIPE_READ") + ends("PIPE_WRITE") > 0
      BY <2>1
    <3> QED BY <3>1, <3>2
  <2>7. pipes[p].used => /\ pipes[p].readers = ends("PIPE_READ")
                         /\ pipes[p].writers = ends("PIPE_WRITE")
    BY <2>1, <2>3, <2>4 DEF Counted
  <2> QED BY <2>6, <2>7 DEF ends
<1> QED BY <1>1, FilesInvariant, PTL

\* No block is in two files or twice in one, none in use is lost, and a file's blocks
\* hold its size, with disks and files of any size, after writes of any length.
THEOREM EveryBlockIsOfOneFile == WindowsClosed => (Spec => []BlocksOwned)
<1>1. FilesInv => BlocksOwned
  <2> SUFFICES ASSUME FilesInv PROVE BlocksOwned
    OBVIOUS
  <2> DEFINE made == {i \in Files : file_table[i].used}
             at == {x \in made \X Slots : file_table[x[1]].blocks[x[2]] # -1}
             blockAt(x) == file_table[x[1]].blocks[x[2]]
  <2>0. RamInv
    BY DEF FilesInv
  <2>1. \A i \in Files, j \in Slots : <<i, j>> \in at <=> Has(i, j)
    BY DEF Has
  <2>2. \A x \in at : x[1] \in made /\ x[2] \in Slots /\ x = <<x[1], x[2]>> /\ Has(x[1], x[2])
    BY DEF Has
  <2>3. bitmap = {blockAt(x) : x \in at}
    <3>1. ASSUME NEW x \in at PROVE blockAt(x) \in bitmap
      BY <2>0, <2>2 DEF RamInv
    <3>2. ASSUME NEW b \in bitmap PROVE \E x \in at : blockAt(x) = b
      <4>1. PICK i \in Files, j \in Slots : Has(i, j) /\ file_table[i].blocks[j] = b
        BY <2>0 DEF RamInv
      <4>2. <<i, j>> \in at /\ blockAt(<<i, j>>) = b
        BY <2>1, <4>1
      <4> QED BY <4>2
    <3> QED BY <3>1, <3>2
  <2>4. ASSUME NEW x \in at, NEW y \in at, blockAt(x) = blockAt(y) PROVE x = y
    BY <2>0, <2>2, <2>4 DEF RamInv
  <2>5. ASSUME NEW i \in made
        PROVE  LET has == {j \in Slots : <<i, j>> \in at}
               IN /\ has = 0 .. Cardinality(has) - 1
                  /\ file_table[i].size <= Cardinality(has) * BLOCK_SIZE
    <3> DEFINE has == {j \in Slots : <<i, j>> \in at}
    <3>1. PICK h \in Nat : Filled(file_table[i].blocks, h)
                           /\ file_table[i].size <= h * BLOCK_SIZE
      BY <2>0 DEF RamInv, Fits
    <3>2. has = 0 .. h - 1
      <4>1. \A j \in Slots : j \in has <=> j < h
        BY <2>1, <3>1 DEF Filled, Has
      <4> HIDE DEF has, at
      <4>2. has \subseteq Slots
        BY DEF has
      <4>3. h <= MAX_BLOCKS_PER_FILE
        BY <3>1, Limits DEF Filled
      <4>4. \A j \in Slots : j \in 0 .. h - 1 <=> j < h
        BY <3>1, <4>3, Limits DEF Slots
      <4>5. 0 .. h - 1 \subseteq Slots
        BY <3>1, <4>3, Limits DEF Slots
      <4> QED BY <4>1, <4>2, <4>4, <4>5
    <3> HIDE DEF has, at
    <3>3. Cardinality(has) = h
      <4>1. 0 \in Int /\ h - 1 \in Int
        OBVIOUS
      <4>2. Cardinality(0 .. h - 1) = IF 0 > h - 1 THEN 0 ELSE (h - 1) - 0 + 1
        BY <4>1, FS_Interval
      <4>3. Cardinality(0 .. h - 1) = h
        BY <4>2
      <4> QED BY <3>2, <4>3
    <3>4. has = 0 .. Cardinality(has) - 1
          /\ file_table[i].size <= Cardinality(has) * BLOCK_SIZE
      BY <3>1, <3>2, <3>3
    <3> QED BY <3>4 DEF has
  <2> HIDE DEF made
  <2> QED BY <2>3, <2>4, <2>5 DEF BlocksOwned, made
<1> QED BY <1>1, FilesInvariant, PTL
==============================================================================
