----------------------------- MODULE Heap_proofs -----------------------------
(***************************************************************************)
(* Proofs about Heap, for every heap and header size and every set of      *)
(* requests.  They are about one task inside the allocator at a time       *)
(* (Callers = {k}): with two, the run heap_race shows HeldDisjoint fail.   *)
(***************************************************************************)
EXTENDS Heap, WellFoundedInduction, TLAPS

\* Where a call stands and what it may rely on there.
CallInv ==
    \A c \in Callers :
        /\ curr[c] \in linked \cup {NULL}
        /\ pc[c] # "idle" => initialized
        /\ pc[c] \in {"split", "take"} => curr[c] \in linked /\ isFree[curr[c]]
        /\ pc[c] = "split" => size[curr[c]] > want[c] + HeaderWords + 1
        /\ pc[c] = "take" => size[curr[c]] - want[c] \in 0 .. HeaderWords + 1

\* What callers hold, against the list.  Distinct regions start at distinct
\* addresses, or freeing one would free the other.
HeldInv ==
    \A c \in Callers :
        /\ \A h \in held[c] :
            /\ h.at - HeaderWords \in linked
            /\ ~isFree[h.at - HeaderWords]
            /\ size[h.at - HeaderWords] - h.words \in 0 .. HeaderWords + 1
        /\ \A g, h \in held[c] : g.at = h.at => g = h

\* A used block has its holder.
UsedInv ==
    \A b \in linked :
        isFree[b] \/ \E c \in Callers : \E h \in held[c] : h.at = b + HeaderWords

\* The inductive invariant.
IInv ==
    /\ TypeOK
    /\ ~initialized => linked = {}
    /\ Tiling
    /\ CallInv
    /\ HeldInv
    /\ UsedInv
-----------------------------------------------------------------------------
(* The initial state, and then one lemma per action of the only caller k.  *)

LEMMA InitInv == Init => IInv
<1> SUFFICES ASSUME Init PROVE IInv
  OBVIOUS
<1>1. TypeOK
  <2>1. 0 \in 0 .. HeapSize
    BY HeapAssumption
  <2>2. size \in [Addr -> 0 .. HeapSize]
    BY <2>1 DEF Init
  <2>3. isFree \in [Addr -> BOOLEAN] /\ next \in [Addr -> Addr \cup {NULL}]
    BY DEF Init
  <2>4. pc \in [Callers -> PcValues] /\ want \in [Callers -> Nat]
    BY DEF Init, PcValues
  <2>5. curr \in [Callers -> Addr \cup {NULL}] /\ held \in [Callers -> SUBSET Region]
    BY DEF Init
  <2> QED BY <2>2, <2>3, <2>4, <2>5 DEF Init, TypeOK
<1>2. Tiling
  BY DEF Init, Tiling
<1>3. CallInv /\ HeldInv /\ UsedInv
  BY DEF Init, CallInv, HeldInv, UsedInv
<1> QED BY <1>1, <1>2, <1>3 DEF Init, IInv

LEMMA EnterAlloc ==
    ASSUME NEW k, Callers = {k}, IInv, AllocEnter(k) PROVE IInv'
<1> USE HeapAssumption
<1>1. PICK n \in Requests : AllocEnter(k)!(n)
  BY DEF AllocEnter
<1>2. RoundUp(n) \in Nat
  BY DEF RoundUp
<1>3. CASE initialized
  <2>1. UNCHANGED <<initialized, size, isFree, next, linked, held>>
    BY <1>1, <1>3 DEF LayOut, headers
  <2>2. TypeOK' /\ CallInv'
    BY <1>1, <1>2, <1>3, <2>1
    DEF IInv, TypeOK, CallInv, Tiling, Addr, PcValues
  <2>3. Tiling' /\ HeldInv' /\ UsedInv' /\ (~initialized => linked = {})'
    BY <2>1 DEF IInv, Tiling, HeldInv, UsedInv, End
  <2> QED BY <2>2, <2>3 DEF IInv
<1>4. CASE ~initialized
  <2>1. /\ initialized' = TRUE /\ linked' = {0}
        /\ size' = [size EXCEPT ![0] = HeapSize - HeaderWords]
        /\ isFree' = [isFree EXCEPT ![0] = TRUE]
        /\ next' = [next EXCEPT ![0] = NULL]
    BY <1>1, <1>4 DEF LayOut
  <2>2. linked = {} /\ 0 \in Addr
    BY <1>4 DEF IInv, Addr
  <2>3. TypeOK'
    BY <1>1, <1>2, <2>1, <2>2 DEF IInv, TypeOK, Addr, PcValues
  <2>4. Tiling'
    BY <2>1, <2>2 DEF IInv, TypeOK, Tiling, End, Addr
  <2>5. CallInv'
    BY <1>1, <2>1 DEF IInv, TypeOK, CallInv
  <2>6. HeldInv' /\ UsedInv'
    BY <1>1, <2>1, <2>2 DEF IInv, TypeOK, HeldInv, UsedInv
  <2> QED BY <2>1, <2>3, <2>4, <2>5, <2>6 DEF IInv
<1> QED BY <1>3, <1>4

\* Steps that only move the caller's locals.
LEMMA Walk ==
    ASSUME NEW k, Callers = {k}, IInv,
           ScanNext(k) \/ ScanFail(k) \/ ScanFound(k) \/ MergeNext(k) \/ MergeDone(k)
    PROVE  IInv'
<1> USE HeapAssumption
<1>1. UNCHANGED <<initialized, size, isFree, next, held, linked>>
  BY DEF ScanNext, ScanFail, ScanFound, MergeNext, MergeDone, headers
<1>2. \A b \in linked : b \in Addr /\ next[b] \in linked \cup {NULL}
  BY DEF IInv, TypeOK, Tiling
<1>3. TypeOK' /\ CallInv'
  <2>1. CASE ScanNext(k) \/ MergeNext(k)
    BY <1>1, <1>2, <2>1
    DEF IInv, TypeOK, CallInv, ScanNext, MergeNext, InMerge, Addr, NULL, PcValues
  <2>2. CASE ScanFail(k) \/ MergeDone(k)
    BY <1>1, <2>2
    DEF IInv, TypeOK, CallInv, ScanFail, MergeDone, Return, Addr, NULL, PcValues
  <2>3. CASE ScanFound(k)
    BY <1>1, <1>2, <2>3, SMTT(60)
    DEF IInv, TypeOK, CallInv, ScanFound, Fits, Addr, NULL, PcValues
  <2> QED BY <2>1, <2>2, <2>3
<1>4. Tiling' /\ HeldInv' /\ UsedInv' /\ (~initialized => linked = {})'
  BY <1>1 DEF IInv, Tiling, HeldInv, UsedInv, End
<1> QED BY <1>3, <1>4 DEF IInv
\* What splitting a block of the tiling leaves: b ends where rest starts.
LEMMA SplitStep ==
    ASSUME NEW k, Callers = {k}, IInv, Split(k) PROVE IInv'
<1> USE HeapAssumption
<1> DEFINE b == curr[k]
           w == want[k]
           rest == b + HeaderWords + w
<1>1. /\ b \in linked /\ b \in Addr /\ w \in Nat /\ isFree[b]
      /\ size[b] \in Nat /\ size[b] > w + HeaderWords + 1
      /\ initialized
  BY DEF Split, IInv, TypeOK, CallInv
<1>2. /\ rest \in Addr /\ rest # b /\ rest \notin linked
      /\ b < rest /\ rest < End(b) /\ End(b) <= HeapSize
  <2>1. End(b) <= HeapSize
    BY <1>1 DEF IInv, Tiling
  <2>2. rest \in Addr /\ b < rest /\ rest < End(b)
    BY <1>1, <2>1 DEF Addr, End
  <2>3. rest \notin linked
    BY <1>1, <2>2 DEF IInv, Tiling, Addr, End
  <2> QED BY <1>1, <2>1, <2>2, <2>3 DEF Addr
<1>3. /\ size' = [size EXCEPT ![rest] = size[b] - w - HeaderWords, ![b] = w]
      /\ isFree' = [isFree EXCEPT ![rest] = TRUE]
      /\ next' = [next EXCEPT ![rest] = next[b], ![b] = rest]
      /\ linked' = linked \cup {rest}
      /\ pc' = [pc EXCEPT ![k] = "take"]
      /\ UNCHANGED <<initialized, want, curr, held>>
  BY DEF Split
<1>4. TypeOK'
  <2>1. w \in 0 .. HeapSize /\ size[b] - w - HeaderWords \in 0 .. HeapSize
    BY <1>1 DEF IInv, TypeOK
  <2>2. size' \in [Addr -> 0 .. HeapSize]
    BY <1>1, <1>2, <1>3, <2>1 DEF IInv, TypeOK
  <2>3. /\ isFree' \in [Addr -> BOOLEAN]
        /\ next' \in [Addr -> Addr \cup {NULL}]
        /\ linked' \subseteq Addr
    BY <1>1, <1>2, <1>3 DEF IInv, TypeOK
  <2>4. pc' \in [Callers -> PcValues]
    BY <1>3 DEF IInv, TypeOK, PcValues
  <2> QED BY <1>3, <2>2, <2>3, <2>4 DEF IInv, TypeOK
<1>5. /\ size'[b] = w /\ size'[rest] = size[b] - w - HeaderWords
      /\ next'[b] = rest /\ next'[rest] = next[b] /\ isFree'[rest]
      /\ \A a \in linked \ {b} : size'[a] = size[a] /\ next'[a] = next[a]
      /\ \A a \in linked : isFree'[a] = isFree[a]
  BY <1>1, <1>2, <1>3 DEF IInv, TypeOK
<1>6. Tiling'
  <2>1. /\ End(b)' = rest /\ End(rest)' = End(b)
        /\ \A a \in linked \ {b} : End(a)' = End(a)
    <3>1. HeaderWords \in Int /\ b \in Int /\ w \in Int /\ size[b] \in Int
      BY <1>1 DEF Addr
    <3>2. b + HeaderWords + size'[b] = rest
      BY <1>5
    <3>3. rest + HeaderWords + size'[rest] = b + HeaderWords + size[b]
      BY <1>5, <3>1
    <3> QED BY <1>3, <1>5, <3>2, <3>3 DEF End
  <2>2. 0 \in linked'
    BY <1>1, <1>3 DEF IInv, Tiling
  <2>3. ASSUME NEW a \in linked'
        PROVE  /\ End(a)' <= HeapSize
               /\ IF End(a)' = HeapSize THEN next'[a] = NULL
                  ELSE next'[a] = End(a)' /\ End(a)' \in linked'
    <3>1. CASE a = b
      BY <1>2, <1>3, <1>5, <2>1, <3>1 DEF Addr
    <3>2. CASE a = rest
      <4>1. /\ End(b) <= HeapSize
            /\ IF End(b) = HeapSize THEN next[b] = NULL
               ELSE next[b] = End(b) /\ End(b) \in linked
        BY <1>1 DEF IInv, Tiling
      <4> QED BY <1>3, <1>5, <2>1, <3>2, <4>1
    <3>3. CASE a \in linked \ {b}
      <4>1. /\ End(a) <= HeapSize
            /\ IF End(a) = HeapSize THEN next[a] = NULL
               ELSE next[a] = End(a) /\ End(a) \in linked
        BY <3>3 DEF IInv, Tiling
      <4>2. End(a)' = End(a) /\ next'[a] = next[a]
        BY <1>5, <2>1, <3>3
      <4> QED BY <1>3, <4>1, <4>2
    <3> QED BY <1>3, <3>1, <3>2, <3>3
  <2>4. ASSUME NEW a \in linked', NEW d \in linked', a < d
        PROVE  End(a)' <= d
    <3>1. \A x, y \in linked : x < y => End(x) <= y
      BY DEF IInv, Tiling
    <3>2. \A x \in linked : x \in Int /\ size[x] \in Nat
      BY DEF IInv, TypeOK, Addr
    <3>3. CASE a = rest
      BY <1>1, <1>2, <1>3, <2>1, <2>4, <3>1, <3>2, <3>3 DEF Addr, End
    <3>4. CASE a = b
      BY <1>1, <1>2, <1>3, <2>1, <2>4, <3>1, <3>2, <3>4 DEF Addr, End
    <3>5. CASE a \in linked \ {b}
      <4>1. CASE d = rest
        <5>1. a < b
          BY <1>1, <1>2, <2>4, <3>1, <3>2, <3>5, <4>1 DEF Addr, End
        <5> QED BY <1>1, <1>2, <2>1, <3>1, <3>2, <3>5, <4>1, <5>1 DEF Addr, End
      <4>2. CASE d \in linked
        BY <2>1, <2>4, <3>1, <3>5, <4>2
      <4> QED BY <1>3, <4>1, <4>2
    <3> QED BY <1>3, <3>3, <3>4, <3>5
  <2> QED BY <2>2, <2>3, <2>4 DEF Tiling
<1>7. CallInv'
  BY <1>1, <1>3, <1>5 DEF IInv, TypeOK, CallInv
<1>8. HeldInv'
  <2>1. ASSUME NEW h \in held[k]
        PROVE  h.at - HeaderWords \in linked \ {b}
    BY <1>1 DEF IInv, HeldInv
  <2> QED BY <1>3, <1>5, <2>1 DEF IInv, HeldInv
<1>9. UsedInv'
  BY <1>3, <1>5 DEF IInv, UsedInv
<1> QED BY <1>1, <1>3, <1>4, <1>6, <1>7, <1>8, <1>9 DEF IInv

\* Block b swallows n, the next one: b ends where n did.
LEMMA AbsorbStep ==
    ASSUME NEW k, Callers = {k}, IInv, MergeAbsorb(k) PROVE IInv'
<1> USE HeapAssumption
<1> DEFINE b == curr[k]
           n == next[b]
<1>1. /\ b \in linked /\ b \in Addr /\ isFree[b] /\ initialized
      /\ pc[k] = "merge" /\ n # NULL /\ isFree[n]
  BY DEF MergeAbsorb, InMerge, BothFree, IInv, TypeOK, CallInv
<1>2. /\ n = End(b) /\ n \in linked /\ n \in Addr /\ b < n
      /\ size[b] \in Nat /\ size[n] \in Nat
      /\ End(n) <= HeapSize
  BY <1>1, SMTT(60) DEF IInv, TypeOK, Tiling, End, Addr
<1>3. /\ size' = [size EXCEPT ![b] = @ + HeaderWords + size[n]]
      /\ next' = [next EXCEPT ![b] = next[n]]
      /\ linked' = linked \ {n}
      /\ UNCHANGED <<initialized, isFree, pc, want, curr, held>>
  BY DEF MergeAbsorb
<1>4. TypeOK'
  <2>1. size[b] + HeaderWords + size[n] \in 0 .. HeapSize
    BY <1>1, <1>2 DEF Addr, End
  <2> QED BY <1>1, <1>2, <1>3, <2>1 DEF IInv, TypeOK
<1>5. /\ size'[b] = size[b] + HeaderWords + size[n] /\ next'[b] = next[n]
      /\ \A a \in linked \ {b} : size'[a] = size[a] /\ next'[a] = next[a]
  BY <1>1, <1>2, <1>3 DEF IInv, TypeOK
<1>6. Tiling'
  <2>1. End(b)' = End(n) /\ \A a \in linked \ {b} : End(a)' = End(a)
    BY <1>1, <1>2, <1>3, <1>5 DEF End, Addr
  <2>2. \A x \in linked : x \in Int /\ x >= 0 /\ size[x] \in Nat
    BY DEF IInv, TypeOK, Addr
  <2>3. \A x, y \in linked : x < y => End(x) <= y
    BY DEF IInv, Tiling
  <2>4. 0 \in linked'
    BY <1>1, <1>2, <1>3, <2>2 DEF IInv, Tiling, Addr
  <2>5. \A a \in linked \ {b} : End(a) # n
    BY <1>1, <1>2, <2>2, <2>3 DEF End
  <2>6. End(n) # n
    BY <1>2, <2>2 DEF End
  <2>7. ASSUME NEW a \in linked'
        PROVE  /\ End(a)' <= HeapSize
               /\ IF End(a)' = HeapSize THEN next'[a] = NULL
                  ELSE next'[a] = End(a)' /\ End(a)' \in linked'
    <3>1. CASE a = b
      BY <1>2, <1>3, <1>5, <2>1, <2>6, <3>1 DEF IInv, Tiling
    <3>2. CASE a # b
      BY <1>3, <1>5, <2>1, <2>5, <3>2 DEF IInv, Tiling
    <3> QED BY <3>1, <3>2
  <2>8. ASSUME NEW a \in linked', NEW d \in linked', a < d
        PROVE  End(a)' <= d
    <3>1. CASE a = b
      BY <1>1, <1>2, <1>3, <2>1, <2>2, <2>3, <2>8, <3>1 DEF End
    <3>2. CASE a # b
      BY <1>3, <2>1, <2>3, <2>8, <3>2
    <3> QED BY <3>1, <3>2
  <2> QED BY <2>4, <2>7, <2>8 DEF Tiling
<1>7. CallInv'
  <2>1. b # n /\ b \in linked'
    BY <1>1, <1>2, <1>3 DEF Addr
  <2> QED BY <1>1, <1>3, <2>1 DEF IInv, CallInv
<1>8. HeldInv' /\ UsedInv'
  BY <1>1, <1>2, <1>3, <1>5 DEF IInv, HeldInv, UsedInv
<1> QED BY <1>1, <1>3, <1>4, <1>6, <1>7, <1>8 DEF IInv
LEMMA TakeStep ==
    ASSUME NEW k, Callers = {k}, IInv, Take(k) PROVE IInv'
<1> USE HeapAssumption
<1> DEFINE b == curr[k]
           r == [at |-> b + HeaderWords, words |-> want[k]]
<1>1. /\ b \in linked /\ b \in Addr /\ isFree[b] /\ initialized
      /\ size[b] - want[k] \in 0 .. HeaderWords + 1
      /\ want[k] \in Nat /\ size[b] \in Nat /\ End(b) <= HeapSize
  BY DEF Take, IInv, TypeOK, CallInv, Tiling
<1>2. /\ isFree' = [isFree EXCEPT ![b] = FALSE]
      /\ held'[k] = held[k] \cup {r} /\ DOMAIN held' = Callers
      /\ pc' = [pc EXCEPT ![k] = "idle"]
      /\ want' = [want EXCEPT ![k] = 0]
      /\ curr' = [curr EXCEPT ![k] = NULL]
      /\ UNCHANGED <<initialized, size, next, linked>>
  BY DEF Take, Return, IInv, TypeOK
<1>3. TypeOK'
  <2>1. r \in Region
    BY <1>1 DEF Region, Addr, End
  <2>2. held' \in [Callers -> SUBSET Region]
    BY <1>2, <2>1 DEF Take, IInv, TypeOK
  <2> QED BY <1>1, <1>2, <2>2 DEF IInv, TypeOK, PcValues
<1>4. Tiling'
  BY <1>2 DEF IInv, Tiling, End
<1>5. CallInv'
  BY <1>2 DEF IInv, TypeOK, CallInv
<1>6. \A h \in held[k] : h.at # b + HeaderWords /\ h.at \in Int
  BY <1>1 DEF IInv, HeldInv, TypeOK, Region, Addr
<1>7. HeldInv'
  <2>1. ASSUME NEW h \in held'[k]
        PROVE  /\ h.at - HeaderWords \in linked'
               /\ ~isFree'[h.at - HeaderWords]
               /\ size'[h.at - HeaderWords] - h.words \in 0 .. HeaderWords + 1
    <3>1. CASE h = r
      <4>1. h.at - HeaderWords = b
        BY <1>1, <3>1 DEF Addr
      <4> QED BY <1>1, <1>2, <3>1, <4>1 DEF IInv, TypeOK
    <3>2. CASE h \in held[k]
      <4>1. h.at - HeaderWords # b
        BY <1>1, <1>6, <3>2 DEF Addr
      <4> QED BY <1>2, <3>2, <4>1 DEF IInv, TypeOK, HeldInv
    <3> QED BY <1>2, <3>1, <3>2
  <2>2. \A g, h \in held'[k] : g.at = h.at => g = h
    BY <1>2, <1>6 DEF IInv, HeldInv
  <2> QED BY <2>1, <2>2 DEF HeldInv
<1>8. UsedInv'
  <2>1. ASSUME NEW a \in linked
        PROVE  isFree'[a] \/ \E h \in held'[k] : h.at = a + HeaderWords
    <3>1. CASE a = b
      <4>1. r \in held'[k]
        BY <1>2
      <4>2. r.at = a + HeaderWords
        BY <3>1
      <4> HIDE DEF r
      <4> QED BY <4>1, <4>2
    <3>2. CASE a # b
      <4>1. isFree[a] \/ \E h \in held[k] : h.at = a + HeaderWords
        BY DEF IInv, UsedInv
      <4> QED BY <1>2, <3>2, <4>1 DEF IInv, TypeOK
    <3> QED BY <3>1, <3>2
  <2> QED BY <1>2, <2>1 DEF UsedInv
<1> QED BY <1>1, <1>2, <1>3, <1>4, <1>5, <1>7, <1>8 DEF IInv

LEMMA EnterFree ==
    ASSUME NEW k, Callers = {k}, IInv, FreeEnter(k) PROVE IInv'
<1> USE HeapAssumption
<1>1. PICK r \in held[k] : FreeEnter(k)!(r)
  BY DEF FreeEnter
<1> DEFINE b == r.at - HeaderWords
<1>2. /\ b \in linked /\ b \in Addr /\ ~isFree[b]
      /\ 0 \in linked /\ initialized /\ 0 \in Addr
  BY <1>1 DEF IInv, HeldInv, TypeOK, Tiling, Addr
<1>3. /\ isFree' = [isFree EXCEPT ![b] = TRUE]
      /\ held'[k] = held[k] \ {r}
      /\ UNCHANGED <<initialized, size, next, want, linked>>
  BY <1>1 DEF IInv, TypeOK
<1>4. TypeOK'
  BY <1>1, <1>2 DEF IInv, TypeOK, PcValues
<1>5. Tiling'
  BY <1>3 DEF IInv, Tiling, End
<1>6. CallInv'
  BY <1>1, <1>2 DEF IInv, TypeOK, CallInv
<1>7. \A h \in held'[k] : h \in held[k] /\ h.at - HeaderWords # b
  <2>1. \A h \in held[k] : h.at \in Int
    BY DEF IInv, TypeOK, Region
  <2>2. \A h \in held[k] \ {r} : h.at # r.at
    BY <1>1 DEF IInv, HeldInv
  <2> QED BY <1>1, <1>3, <2>1, <2>2
<1>8. HeldInv'
  BY <1>2, <1>3, <1>7 DEF IInv, TypeOK, HeldInv
<1>9. UsedInv'
  <2>1. ASSUME NEW a \in linked
        PROVE  isFree'[a] \/ \E h \in held'[k] : h.at = a + HeaderWords
    <3>1. CASE a = b
      BY <1>2, <1>3, <3>1 DEF IInv, TypeOK
    <3>2. CASE a # b
      <4>1. isFree[a] \/ \E h \in held[k] : h.at = a + HeaderWords
        BY DEF IInv, UsedInv
      <4>2. r.at # a + HeaderWords
        BY <1>1, <3>2 DEF IInv, TypeOK, Addr
      <4> QED BY <1>3, <3>2, <4>1, <4>2 DEF IInv, TypeOK
    <3> QED BY <3>1, <3>2
  <2> QED BY <1>3, <2>1 DEF UsedInv
<1> QED BY <1>2, <1>3, <1>4, <1>5, <1>6, <1>8, <1>9 DEF IInv

\* IInv is inductive.
LEMMA Step ==
    ASSUME NEW k, Callers = {k}, IInv, [Next]_vars PROVE IInv'
<1>1. CASE UNCHANGED vars
  BY <1>1
  DEF vars, headers, IInv, TypeOK, Tiling, CallInv, HeldInv, UsedInv, End
<1>2. CASE Next
  BY <1>2, EnterAlloc, EnterFree, Walk, SplitStep, AbsorbStep, TakeStep
  DEF Next, Continue
<1> QED BY <1>1, <1>2

THEOREM Invariance ==
    ASSUME NEW k, Callers = {k} PROVE Spec => []IInv
<1>1. Init => IInv
  BY InitInv
<1>2. IInv /\ [Next]_vars => IInv'
  BY Step
<1> QED BY <1>1, <1>2, PTL DEF Spec
-----------------------------------------------------------------------------
(* What follows from IInv.                                                 *)

\* Held regions start at distinct blocks of the tiling and end inside them.
LEMMA RegionInBlock ==
    ASSUME NEW k, Callers = {k}, IInv, NEW h \in held[k]
    PROVE  LET b == h.at - HeaderWords IN
           /\ h.at \in Nat /\ h.words \in Nat
           /\ b \in linked /\ b \in Nat /\ size[b] \in Nat
           /\ h.at + h.words <= End(b) /\ End(b) <= HeapSize
<1> USE HeapAssumption
<1> DEFINE b == h.at - HeaderWords
<1>1. h.at \in Nat /\ h.words \in Nat
  BY DEF IInv, TypeOK, Region
<1>2. b \in linked /\ size[b] - h.words \in 0 .. HeaderWords + 1
  BY DEF IInv, HeldInv
<1>3. b \in Nat /\ size[b] \in Nat /\ End(b) <= HeapSize
  <2>1. b \in Addr /\ size[b] \in 0 .. HeapSize /\ End(b) <= HeapSize
    BY <1>2 DEF IInv, TypeOK, Tiling
  <2> QED BY <2>1 DEF Addr
<1> QED BY <1>1, <1>2, <1>3 DEF End

LEMMA Disjoint ==
    ASSUME NEW k, Callers = {k}, IInv PROVE HeldDisjoint
<1> USE HeapAssumption
<1> SUFFICES ASSUME NEW g \in held[k], NEW h \in held[k], g # h
             PROVE  g.at + g.words <= h.at \/ h.at + h.words <= g.at
  BY DEF HeldDisjoint
<1> DEFINE a == g.at - HeaderWords
           b == h.at - HeaderWords
<1>1. /\ g.at \in Nat /\ g.words \in Nat /\ a \in linked
      /\ g.at + g.words <= End(a) /\ size[a] \in Nat
  BY RegionInBlock
<1>2. /\ h.at \in Nat /\ h.words \in Nat /\ b \in linked
      /\ h.at + h.words <= End(b) /\ size[b] \in Nat
  BY RegionInBlock
<1>3. g.at # h.at
  BY DEF IInv, HeldInv
<1>4. a < b => End(a) <= b
  BY <1>1, <1>2 DEF IInv, Tiling
<1>5. b < a => End(b) <= a
  BY <1>1, <1>2 DEF IInv, Tiling
<1> QED BY <1>1, <1>2, <1>3, <1>4, <1>5 DEF End

LEMMA InHeap ==
    ASSUME NEW k, Callers = {k}, IInv
    PROVE  \A h \in held[k] : h.at + h.words <= HeapSize
<1> USE HeapAssumption
<1> TAKE h \in held[k]
<1>1. /\ h.at \in Nat /\ h.words \in Nat
      /\ \E e \in Int : h.at + h.words <= e /\ e <= HeapSize
  BY RegionInBlock DEF End
<1> QED BY <1>1

\* The two lemmas above, of the state after a step.
LEMMA NextState ==
    ASSUME NEW k, Callers = {k}
    PROVE  /\ (IInv => HeldDisjoint)'
           /\ (IInv => \A h \in held[k] : h.at + h.words <= HeapSize)'
<1>1. IInv => HeldDisjoint
  BY Disjoint
<1>2. IInv => \A h \in held[k] : h.at + h.words <= HeapSize
  BY InHeap
<1> QED BY <1>1, <1>2, PTL

\* Every variable has its type, in every state of a run.
THEOREM TypeCorrect ==
    ASSUME NEW k, Callers = {k} PROVE Spec => []TypeOK
<1>1. IInv => TypeOK
  BY DEF IInv
<1> QED BY <1>1, Invariance, PTL

\* The blocks on the list tile the heap after any sequence of malloc and free,
\* and in the middle of each (alloc.c:42-49, 68-71).
THEOREM TilingAlways ==
    ASSUME NEW k, Callers = {k} PROVE Spec => []Tiling
<1>1. IInv => Tiling
  BY DEF IInv
<1> QED BY <1>1, Invariance, PTL

\* A held block stays used and large enough, and a used block has a holder.
THEOREM HeldBlocksAlways ==
    ASSUME NEW k, Callers = {k} PROVE Spec => []HeldBlocks
<1>1. IInv => HeldBlocks
  BY DEF IInv, HeldInv, UsedInv, HeldBlocks
<1> QED BY <1>1, Invariance, PTL

\* What malloc handed out and free did not take back never overlaps.
THEOREM HeldDisjointAlways ==
    ASSUME NEW k, Callers = {k} PROVE Spec => []HeldDisjoint
<1>1. IInv => HeldDisjoint
  BY Disjoint
<1> QED BY <1>1, Invariance, PTL

\* One step of the allocator is a step of its promise, or changes no region.
LEMMA StepKeepsPromise ==
    ASSUME NEW k, Callers = {k}, IInv, IInv', [Next]_vars
    PROVE  [Promise!Next]_held
<1> USE HeapAssumption
<1>1. CASE Take(k)
  <2> DEFINE r == [at |-> curr[k] + HeaderWords, words |-> want[k]]
  <2>1. held' = [held EXCEPT ![k] = @ \cup {r}]
    BY <1>1 DEF Take
  <2>2. r \in held'[k]
    BY <2>1 DEF IInv, TypeOK
  <2>3. r \notin held[k]
    <3>1. curr[k] \in Int /\ isFree[curr[k]]
      BY <1>1 DEF Take, IInv, TypeOK, CallInv, Addr
    <3> SUFFICES ASSUME r \in held[k] PROVE FALSE
      OBVIOUS
    <3>2. ~isFree[r.at - HeaderWords]
      BY DEF IInv, HeldInv
    <3> QED BY <3>1, <3>2
  <2>4. r.at \in 0 .. HeapSize /\ r.words \in 0 .. HeapSize
    BY <2>2 DEF IInv, TypeOK, Region
  <2>5. r.at + r.words <= HeapSize
    BY <2>2, NextState
  <2>6. ASSUME NEW h \in held[k]
        PROVE  Promise!WordsOf(h) \cap Promise!WordsOf(r) = {}
    <3>1. h \in held'[k] /\ h # r
      BY <2>1, <2>3 DEF IInv, TypeOK
    <3>2. h.at + h.words <= r.at \/ r.at + r.words <= h.at
      BY <2>2, <3>1, NextState DEF HeldDisjoint
    <3>3. h.at \in Int /\ h.words \in Int /\ r.at \in Int /\ r.words \in Int
      BY <2>4 DEF IInv, TypeOK, Region
    <3>4. \A i, j, m, n \in Int :
              i + m <= j \/ j + n <= i => (i .. i + m - 1) \cap (j .. j + n - 1) = {}
      OBVIOUS
    <3> HIDE DEF r
    <3> QED BY <3>2, <3>3, <3>4 DEF Promise!WordsOf
  <2> QED
    BY <2>1, <2>4, <2>5, <2>6 DEF Promise!Next, Promise!Grant, Promise!Unheld
<1>2. CASE FreeEnter(k)
  BY <1>2 DEF FreeEnter, Promise!Next, Promise!Release
<1>3. CASE UNCHANGED held
  BY <1>3
<1> QED
  BY <1>1, <1>2, <1>3
  DEF Next, Continue, AllocEnter, ScanNext, ScanFail, ScanFound, Split,
      MergeAbsorb, MergeNext, MergeDone, vars

\* The allocator implements its promise: malloc only ever hands out a region of
\* the heap that nobody holds.
THEOREM PromiseAlwaysKept ==
    ASSUME NEW k, Callers = {k} PROVE Spec => PromiseKept
<1>1. Init => Promise!Init
  BY DEF Init, Promise!Init
<1>2. IInv /\ IInv' /\ [Next]_vars => [Promise!Next]_held
  BY StepKeepsPromise
<1> QED BY <1>1, <1>2, Invariance, PTL DEF Spec, PromiseKept, Promise!Spec

-----------------------------------------------------------------------------
(* How far a call has come in the list.                                    *)

\* Two free neighbours.
Pair(b) == next[b] # NULL /\ isFree[b] /\ isFree[next[b]]

\* A scan has passed no block that would do; a merge has left no two free neighbours
\* behind it; between calls there are none, and a split makes just the pair that the
\* next step undoes.
PassInv ==
    \A c \in Callers :
        /\ pc[c] = "scan" =>
              \A b \in linked : curr[c] = NULL \/ b < curr[c] =>
                  ~(isFree[b] /\ size[b] >= want[c])
        /\ pc[c] \in {"idle", "scan", "split"} => \A b \in linked : ~Pair(b)
        /\ pc[c] = "take" => \A b \in linked : Pair(b) => b = curr[c]
        /\ pc[c] = "merge" => curr[c] # NULL /\ \A b \in linked : Pair(b) => curr[c] <= b

\* What the tiling says of one block.
LEMMA NextIs ==
    ASSUME IInv, NEW b \in linked
    PROVE  /\ b \in Nat /\ b \in Addr /\ size[b] \in Nat /\ b < End(b)
           /\ next[b] # NULL => next[b] = End(b) /\ next[b] \in linked
           /\ \A a \in linked : b < a => next[b] # NULL /\ next[b] <= a
<1> USE HeapAssumption
<1>1. b \in Nat /\ b \in Addr /\ size[b] \in Nat
  BY DEF IInv, TypeOK, Addr
<1>2. b < End(b)
  BY <1>1 DEF End
<1>3. next[b] # NULL => next[b] = End(b) /\ next[b] \in linked
  BY DEF IInv, Tiling
<1>4. ASSUME NEW a \in linked, b < a PROVE next[b] # NULL /\ next[b] <= a
  <2>1. a \in Addr /\ a < HeapSize /\ NULL \notin Addr
    BY DEF IInv, TypeOK, Addr, NULL
  <2>2. End(b) <= a /\ End(b) \in Nat
    BY <1>1, <1>4 DEF IInv, Tiling, End
  <2>3. End(b) # HeapSize
    BY <2>1, <2>2 DEF Addr
  <2>4. next[b] = End(b) /\ End(b) \in linked
    BY <2>3 DEF IInv, Tiling
  <2>5. End(b) \in Addr
    BY <2>4 DEF IInv, TypeOK
  <2> QED BY <2>1, <2>2, <2>4, <2>5
<1> QED BY <1>1, <1>2, <1>3, <1>4

\* Steps that change no header.
LEMMA PassWalk ==
    ASSUME NEW k, Callers = {k}, IInv, PassInv,
           ScanNext(k) \/ ScanFail(k) \/ ScanFound(k) \/ MergeNext(k) \/ MergeDone(k)
    PROVE  PassInv'
<1> USE HeapAssumption
<1>2. UNCHANGED <<size, isFree, next, linked>> /\ \A b : Pair(b)' <=> Pair(b)
  BY DEF Pair, ScanNext, ScanFail, ScanFound, MergeNext, MergeDone, headers
<1>3. k \in Callers /\ curr[k] \in linked \cup {NULL}
  BY DEF IInv, CallInv
<1>4. CASE ScanNext(k)
  <2>1. curr[k] \in linked /\ curr'[k] = next[curr[k]] /\ want'[k] = want[k] /\ pc'[k] = "scan"
    BY <1>3, <1>4 DEF ScanNext, IInv, TypeOK
  <2>2. ASSUME NEW b \in linked, curr'[k] = NULL \/ b < curr'[k]
        PROVE  ~(isFree[b] /\ size[b] >= want[k])
    <3>1. ~(curr[k] < b)
      BY <2>1, <2>2, NextIs
    <3>2. CASE b = curr[k]
      BY <1>4, <3>2 DEF ScanNext, Fits
    <3>3. CASE b < curr[k]
      BY <1>4, <3>3 DEF ScanNext, PassInv
    <3>4. b \in Nat /\ curr[k] \in Nat
      BY <2>1, NextIs
    <3> QED BY <3>1, <3>2, <3>3, <3>4
  <2>3. \A b \in linked : ~Pair(b)
    BY <1>4 DEF ScanNext, PassInv
  <2> QED BY <1>2, <2>1, <2>2, <2>3 DEF PassInv
<1>5. CASE ScanFail(k)
  <2>1. pc'[k] = "idle" /\ \A b \in linked : ~Pair(b)
    BY <1>5 DEF ScanFail, Return, PassInv, IInv, TypeOK
  <2> QED BY <1>2, <2>1 DEF PassInv
<1>6. CASE ScanFound(k)
  <2>1. pc'[k] \in {"split", "take"} /\ \A b \in linked : ~Pair(b)
    BY <1>6 DEF ScanFound, PassInv, IInv, TypeOK
  <2> QED BY <1>2, <2>1 DEF PassInv
<1>7. CASE MergeNext(k)
  <2>1. /\ curr[k] \in linked /\ curr'[k] = next[curr[k]] /\ next[curr[k]] # NULL
        /\ pc'[k] = "merge" /\ pc[k] = "merge" /\ ~Pair(curr[k])
    BY <1>3, <1>7 DEF MergeNext, InMerge, BothFree, Pair, IInv, TypeOK
  <2>2. ASSUME NEW b \in linked, Pair(b) PROVE next[curr[k]] <= b
    <3>1. curr[k] <= b /\ b # curr[k]
      BY <2>1, <2>2 DEF PassInv
    <3>2. b \in Nat /\ curr[k] \in Nat
      BY <2>1, NextIs
    <3> QED BY <2>1, <3>1, <3>2, NextIs
  <2> QED BY <1>2, <2>1, <2>2 DEF PassInv
<1>8. CASE MergeDone(k)
  <2>1. /\ pc[k] = "merge" /\ curr[k] \in linked /\ next[curr[k]] = NULL /\ pc'[k] = "idle"
    BY <1>3, <1>8 DEF MergeDone, InMerge, Return, PassInv, IInv, TypeOK
  <2>2. ASSUME NEW b \in linked, Pair(b) PROVE FALSE
    <3>1. curr[k] <= b /\ b # curr[k]
      BY <2>1, <2>2 DEF PassInv, Pair
    <3>2. b \in Nat /\ curr[k] \in Nat
      BY <2>1, NextIs
    <3> QED BY <2>1, <3>1, <3>2, NextIs
  <2> QED BY <1>2, <2>1, <2>2 DEF PassInv
<1> QED BY <1>4, <1>5, <1>6, <1>7, <1>8

LEMMA PassEnterAlloc ==
    ASSUME NEW k, Callers = {k}, IInv, PassInv, AllocEnter(k) PROVE PassInv'
<1> USE HeapAssumption
<1>1. pc[k] = "idle" /\ pc'[k] = "scan" /\ curr'[k] = 0
  BY DEF AllocEnter, IInv, TypeOK
<1>2. CASE initialized
  <2>1. UNCHANGED <<size, isFree, next, linked>>
    BY <1>2 DEF AllocEnter, LayOut, headers
  <2>2. \A b \in linked : ~Pair(b) /\ ~(b < 0) /\ NULL # 0
    BY <1>1, NextIs DEF PassInv, NULL
  <2>3. \A b : Pair(b)' <=> Pair(b)
    BY <2>1 DEF Pair
  <2> QED BY <1>1, <2>1, <2>2, <2>3 DEF PassInv
<1>3. CASE ~initialized
  <2>1. linked' = {0} /\ next'[0] = NULL
    BY <1>3 DEF AllocEnter, LayOut, IInv, TypeOK, Addr
  <2>2. ~Pair(0)'
    BY <2>1 DEF Pair
  <2> QED BY <1>1, <2>1, <2>2 DEF PassInv, NULL
<1> QED BY <1>2, <1>3

LEMMA PassSplit ==
    ASSUME NEW k, Callers = {k}, IInv, PassInv, Split(k) PROVE PassInv'
<1> USE HeapAssumption
<1>1. PICK b \in linked : b = curr[k] /\ isFree[b] /\ size[b] > want[k] + HeaderWords + 1
  BY DEF Split, IInv, CallInv
<1> DEFINE rest == b + HeaderWords + want[k]
<1>2. /\ isFree' = [isFree EXCEPT ![rest] = TRUE]
      /\ next' = [next EXCEPT ![rest] = next[b], ![b] = rest]
      /\ linked' = linked \cup {rest}
      /\ curr' = curr /\ pc[k] = "split" /\ pc'[k] = "take"
  BY <1>1 DEF Split, IInv, TypeOK
<1>3. want[k] \in Nat /\ size[b] \in Nat /\ b \in Nat
  BY <1>1, NextIs DEF IInv, TypeOK
<1>4. b < rest /\ rest < End(b) /\ End(b) <= HeapSize
  BY <1>1, <1>3 DEF End, IInv, Tiling
<1>5. rest \in Addr /\ b \in Addr
  <2>1. b \in Addr
    BY NextIs
  <2>2. rest \in Nat
    BY <1>3
  <2>3. rest <= HeapSize - HeaderWords
    BY <1>1, <1>3, <1>4 DEF End
  <2> QED BY <2>1, <2>2, <2>3 DEF Addr
<1>6. rest \notin linked
  BY <1>1, <1>3, <1>4 DEF IInv, Tiling, End
<1> HIDE DEF rest
<1>0. rest # b /\ linked \subseteq Addr
  BY <1>1, <1>6 DEF IInv, TypeOK
<1>7. next'[rest] = next[b] /\ \A x \in linked : x # b => next'[x] = next[x]
  BY <1>0, <1>2, <1>5, <1>6 DEF IInv, TypeOK
<1>10. \A x \in linked : isFree'[x] = isFree[x]
  BY <1>0, <1>2, <1>5, <1>6 DEF IInv, TypeOK
<1>8. \A x \in linked : ~Pair(x)
  BY <1>2 DEF PassInv
<1>9. ASSUME NEW x \in linked', Pair(x)' PROVE x = b
  <2> SUFFICES ASSUME x # b PROVE FALSE
    OBVIOUS
  <2>0. x # b
    OBVIOUS
  <2>1. CASE x = rest
    <3>1. next[b] # NULL
      BY <1>7, <1>9, <2>1 DEF Pair
    <3>2. next[b] \in linked
      BY <3>1, NextIs
    <3>3. isFree'[next[b]]
      <4>1. isFree'[next'[rest]]
        BY <1>9, <2>1 DEF Pair
      <4> QED BY <1>7, <4>1
    <3>4. isFree[next[b]]
      BY <1>10, <3>2, <3>3
    <3>5. Pair(b)
      BY <1>1, <3>1, <3>4 DEF Pair
    <3> QED BY <1>8, <3>5
  <2>2. CASE x \in linked
    <3>1. next'[x] = next[x]
      BY <1>7, <2>0, <2>2
    <3>2. next[x] # NULL
      BY <1>9, <3>1 DEF Pair
    <3>3. next[x] \in linked
      BY <2>2, <3>2, NextIs
    <3>4. isFree'[x]
      BY <1>9 DEF Pair
    <3>5. isFree'[next[x]]
      <4>1. isFree'[next'[x]]
        BY <1>9 DEF Pair
      <4> QED BY <3>1, <4>1
    <3>6. isFree[x] /\ isFree[next[x]]
      BY <1>10, <2>2, <3>3, <3>4, <3>5
    <3>7. Pair(x)
      BY <3>2, <3>6 DEF Pair
    <3> QED BY <1>8, <2>2, <3>7
  <2> QED BY <1>2, <2>1, <2>2
<1> QED BY <1>1, <1>2, <1>9 DEF PassInv

LEMMA PassTake ==
    ASSUME NEW k, Callers = {k}, IInv, PassInv, Take(k) PROVE PassInv'
<1>1. pc'[k] = "idle" /\ pc[k] = "take" /\ linked' = linked /\ next' = next
  BY DEF Take, Return, IInv, TypeOK
<1>2. curr[k] \in linked /\ isFree' = [isFree EXCEPT ![curr[k]] = FALSE]
  BY <1>1 DEF Take, IInv, CallInv
<1>3. ASSUME NEW x \in linked, Pair(x)' PROVE FALSE
  <2>1. next[x] # NULL /\ isFree'[x] /\ isFree'[next[x]]
    BY <1>1, <1>3 DEF Pair
  <2>2. next[x] \in linked /\ linked \subseteq Addr
    BY <2>1, NextIs DEF IInv, TypeOK
  <2>3. x # curr[k] /\ isFree[x] /\ isFree[next[x]]
    BY <1>2, <2>1, <2>2 DEF IInv, TypeOK
  <2> QED BY <1>1, <2>1, <2>3 DEF PassInv, Pair
<1> QED BY <1>1, <1>3 DEF PassInv

LEMMA PassEnterFree ==
    ASSUME NEW k, Callers = {k}, IInv, PassInv, FreeEnter(k) PROVE PassInv'
<1>1. pc'[k] = "merge" /\ curr'[k] = 0 /\ linked' = linked
  BY DEF FreeEnter, IInv, TypeOK
<1>2. \A b \in linked : b \in Nat
  BY NextIs
<1> QED BY <1>1, <1>2 DEF PassInv, NULL

LEMMA PassAbsorb ==
    ASSUME NEW k, Callers = {k}, IInv, PassInv, MergeAbsorb(k) PROVE PassInv'
<1>1. PICK b \in linked : b = curr[k]
  BY DEF MergeAbsorb, InMerge, IInv, CallInv
<1>2. /\ pc[k] = "merge" /\ pc' = pc /\ curr' = curr /\ isFree' = isFree
      /\ linked' = linked \ {next[b]}
      /\ next' = [next EXCEPT ![b] = next[next[b]]]
  BY <1>1 DEF MergeAbsorb, InMerge
<1>3. ASSUME NEW x \in linked', Pair(x)' PROVE b <= x
  <2>1. x \in Nat /\ b \in Nat
    BY <1>2, NextIs
  <2>2. CASE x # b
    <3>1. Pair(x)
      BY <1>2, <1>3, <2>2 DEF Pair, IInv, TypeOK
    <3> QED BY <1>1, <1>2, <3>1 DEF PassInv
  <2> QED BY <2>1, <2>2
<1> QED BY <1>1, <1>2, <1>3 DEF PassInv

LEMMA PassStep ==
    ASSUME NEW k, Callers = {k}, IInv, PassInv, [Next]_vars PROVE PassInv'
<1>1. CASE UNCHANGED vars
  BY <1>1 DEF vars, headers, PassInv, Pair
<1>2. CASE Next
  BY <1>2, PassEnterAlloc, PassEnterFree, PassWalk, PassSplit, PassAbsorb, PassTake
  DEF Next, Continue
<1> QED BY <1>1, <1>2

LEMMA PassInvariance ==
    ASSUME NEW k, Callers = {k} PROVE Spec => [](IInv /\ PassInv)
<1>1. Init => PassInv
  BY DEF Init, PassInv
<1>2. IInv /\ PassInv /\ [Next]_vars => PassInv'
  BY PassStep
<1> QED BY <1>1, <1>2, Invariance, PTL DEF Spec

\* Between calls no two neighbours are both free, whatever was freed in what order.
THEOREM CoalescedAlways ==
    ASSUME NEW k, Callers = {k} PROVE Spec => []Coalesced
<1>1. IInv /\ PassInv => Coalesced
  BY DEF PassInv, Pair, Coalesced
<1> QED BY <1>1, PassInvariance, PTL

\* NULL is only returned when no free block is large enough.
THEOREM NullIsHonest ==
    ASSUME NEW k, Callers = {k} PROVE Spec => NullOnlyWhenNothingFits
<1> DEFINE Honest == \A c \in Callers :
                         pc[c] = "scan" /\ pc'[c] = "idle" =>
                             \A b \in linked : ~(isFree[b] /\ size[b] >= want[c])
<1>1. IInv /\ PassInv /\ [Next]_vars => [Honest]_vars
  <2> SUFFICES ASSUME IInv, PassInv, Next, pc[k] = "scan", pc'[k] = "idle",
                      NEW b \in linked
               PROVE  ~(isFree[b] /\ size[b] >= want[k])
    OBVIOUS
  <2>1. ScanFail(k)
    <3>1. ~AllocEnter(k) /\ ~FreeEnter(k)
      BY DEF AllocEnter, FreeEnter
    <3>2. ~ScanNext(k) /\ ~ScanFound(k)
      BY DEF ScanNext, ScanFound, IInv, TypeOK
    <3>3. ~Split(k) /\ ~Take(k) /\ ~MergeAbsorb(k) /\ ~MergeNext(k) /\ ~MergeDone(k)
      BY DEF Split, Take, MergeAbsorb, MergeNext, MergeDone, InMerge
    <3> QED BY <3>1, <3>2, <3>3 DEF Next, Continue
  <2> QED BY <2>1 DEF ScanFail, PassInv
<1> QED BY <1>1, PassInvariance, PTL DEF Spec, NullOnlyWhenNothingFits

-----------------------------------------------------------------------------
(* What the walk from free_list reaches: round by round, every block up to *)
(* one that is at least as many words into the heap as there were rounds.  *)

\* What holds of 0, and of n + 1 when it holds of n, holds of every number.
LEMMA Induction ==
    ASSUME NEW S, 0 \in S, \A n \in Nat : n \in S => n + 1 \in S
    PROVE  Nat \subseteq S
<1> DEFINE T == Nat \ S
<1> SUFFICES ASSUME T # {} PROVE FALSE
  OBVIOUS
<1>1. T \in SUBSET Nat
  OBVIOUS
<1>2. PICK m \in T : \A y \in T : <<y, m>> \notin OpToRel(<, Nat)
  BY <1>1, NatLessThanWellFounded, WFMin, Zenon
<1>3. m \in Nat /\ m \notin S /\ m # 0
  OBVIOUS
<1>4. m - 1 \in Nat /\ m - 1 + 1 = m /\ m - 1 < m
  BY <1>3
<1>5. m - 1 \in S
  BY <1>2, <1>4 DEF OpToRel
<1> QED BY <1>3, <1>4, <1>5

\* One round of the walk.
Further(S) == S \cup ({next[a] : a \in S} \ {NULL})

LEMMA FurtherType ==
    ASSUME IInv, NEW S \in SUBSET Addr PROVE Further(S) \in SUBSET Addr
  BY DEF Further, IInv, TypeOK

\* The rounds that Reached is made of.
LEMMA ReachedIs ==
    ASSUME IInv
    PROVE  \E g : /\ g[0] = {0} /\ Reached = g[HeapSize]
                  /\ \A n \in 0 .. HeapSize - 1 : g[n + 1] = Further(g[n])
<1> DEFINE P(r) == r = [n \in 0 .. HeapSize |-> IF n = 0 THEN {0} ELSE Further(r[n - 1])]
           Upto(m, g) == /\ g \in [0 .. m -> SUBSET Addr]
                         /\ g[0] = {0}
                         /\ \A n \in 1 .. m : g[n] = Further(g[n - 1])
           S == {m \in Nat : \E g : Upto(m, g)}
<1>1. 0 \in S
  <2>1. Upto(0, [n \in 0 .. 0 |-> {0}])
    BY HeapAssumption DEF Addr
  <2> QED BY <2>1
<1>2. ASSUME NEW m \in Nat, m \in S PROVE m + 1 \in S
  <2>1. PICK g : Upto(m, g)
    BY <1>2
  <2> DEFINE h == [n \in 0 .. m + 1 |-> IF n <= m THEN g[n] ELSE Further(g[m])]
  <2>2. Further(g[m]) \in SUBSET Addr
    BY <2>1, FurtherType
  <2>3. h \in [0 .. m + 1 -> SUBSET Addr] /\ h[0] = {0}
    BY <2>1, <2>2
  <2>4. ASSUME NEW n \in 1 .. m + 1 PROVE h[n] = Further(h[n - 1])
    <3>1. CASE n <= m
      <4>1. n \in 1 .. m /\ h[n] = g[n] /\ h[n - 1] = g[n - 1]
        BY <3>1
      <4> QED BY <2>1, <4>1
    <3>2. CASE n = m + 1
      <4>1. h[n] = Further(g[m]) /\ h[m] = g[m] /\ n - 1 = m
        BY <3>2
      <4> QED BY <4>1
    <3> QED BY <3>1, <3>2
  <2>5. Upto(m + 1, h)
    BY <2>3, <2>4
  <2> HIDE DEF h, Upto
  <2> QED BY <2>5
<1> HIDE DEF S
<1>3. HeapSize \in S
  BY <1>1, <1>2, Induction, HeapAssumption
<1>4. PICK g : Upto(HeapSize, g)
  BY <1>3 DEF S
<1>5. P(g)
  <2>1. \A n \in 0 .. HeapSize : g[n] = IF n = 0 THEN {0} ELSE Further(g[n - 1])
    BY <1>4, HeapAssumption
  <2> QED BY <1>4, <2>1
<1> DEFINE walk == CHOOSE r : P(r)
<1>6. Reached = walk[HeapSize]
  BY DEF Reached, Further
<1> HIDE DEF P
<1>7. P(walk)
  BY <1>5
<1> HIDE DEF walk
<1> USE DEF P
<1>8. 0 \in 0 .. HeapSize /\ \A n \in 0 .. HeapSize - 1 :
          n + 1 \in 0 .. HeapSize /\ n + 1 # 0 /\ (n + 1) - 1 = n
  BY HeapAssumption
<1>9. walk[0] = {0} /\ \A n \in 0 .. HeapSize - 1 : walk[n + 1] = Further(walk[n])
  BY <1>7, <1>8
<1> QED BY <1>6, <1>9

\* The walk has all blocks up to one at word n or later, or all there are.
Covered(S, n) ==
    /\ S \subseteq linked
    /\ \/ linked \subseteq S
       \/ \E a \in S : n <= a /\ \A b \in linked : b <= a => b \in S

LEMMA CoveredFurther ==
    ASSUME IInv, NEW S, NEW n \in Nat, Covered(S, n)
    PROVE  Covered(Further(S), n + 1)
<1>1. S \subseteq linked /\ S \subseteq Further(S)
  BY DEF Covered, Further
<1>2. Further(S) \subseteq linked
  BY <1>1, NextIs DEF Further
<1>3. CASE linked \subseteq S
  BY <1>1, <1>2, <1>3 DEF Covered
<1>4. CASE ~(linked \subseteq S)
  <2>1. PICK a \in S : n <= a /\ \A b \in linked : b <= a => b \in S
    BY <1>4 DEF Covered
  <2>2. a \in linked /\ \A b \in linked : b \in Nat
    BY <1>1, NextIs
  <2>3. PICK c \in linked : c \notin S
    BY <1>4
  <2>4. a < c
    BY <2>1, <2>2, <2>3
  <2>5. next[a] # NULL /\ next[a] \in linked /\ next[a] = End(a) /\ a < End(a)
    BY <2>2, <2>4, NextIs
  <2>6. next[a] \in Further(S) /\ n + 1 <= next[a]
    BY <2>1, <2>2, <2>5 DEF Further
  <2>7. ASSUME NEW b \in linked, b <= next[a] PROVE b \in Further(S)
    <3>1. CASE b <= a
      BY <1>1, <2>1, <3>1
    <3>2. CASE a < b
      <4>1. next[a] <= b
        BY <2>2, <3>2, NextIs
      <4> QED BY <2>2, <2>5, <2>6, <2>7, <4>1
    <3> QED BY <2>2, <3>1, <3>2
  <2> QED BY <1>2, <2>6, <2>7 DEF Covered
<1> QED BY <1>3, <1>4

LEMMA ReachedAll == ASSUME IInv, initialized PROVE Reached = linked
<1>1. PICK g : /\ g[0] = {0} /\ Reached = g[HeapSize]
               /\ \A n \in 0 .. HeapSize - 1 : g[n + 1] = Further(g[n])
  BY ReachedIs
<1> DEFINE S == {n \in Nat : n <= HeapSize => Covered(g[n], n)}
<1>2. 0 \in S
  <2>1. 0 \in linked
    BY DEF IInv, Tiling
  <2>2. \A b \in linked : b \in Nat
    BY NextIs
  <2>3. \A b \in linked : b <= 0 => b \in {0}
    BY <2>2
  <2> QED BY <1>1, <2>1, <2>3 DEF Covered
<1>3. ASSUME NEW n \in Nat, n \in S PROVE n + 1 \in S
  <2> SUFFICES ASSUME n + 1 <= HeapSize PROVE Covered(g[n + 1], n + 1)
    OBVIOUS
  <2>1. n <= HeapSize /\ n \in 0 .. HeapSize - 1
    BY HeapAssumption
  <2> QED BY <1>1, <1>3, <2>1, CoveredFurther
<1> HIDE DEF S
<1>4. HeapSize \in S
  BY <1>2, <1>3, Induction, HeapAssumption
<1>5. Covered(g[HeapSize], HeapSize)
  BY <1>4, HeapAssumption DEF S
<1>6. \A a \in linked : ~(HeapSize <= a)
  BY HeapAssumption DEF IInv, TypeOK, Addr
<1> QED BY <1>1, <1>5, <1>6 DEF Covered

\* No block ever drops off the list: the walk of alloc and alloc_free passes every block
\* of a heap that the list tiles without a gap, whatever was split and merged before.
THEOREM EveryBlockIsOnTheList ==
    ASSUME NEW k, Callers = {k} PROVE Spec => []ListTilesHeap
<1>1. IInv => ListTilesHeap
  BY ReachedAll DEF IInv, ListTilesHeap
<1> QED BY <1>1, Invariance, PTL
==============================================================================
