------------------------- MODULE Descriptors_proofs -------------------------
(***************************************************************************)
(* What the search for a free descriptor, or a free slot, finds, and what  *)
(* the table of descriptors is after it.                                   *)
(***************************************************************************)
EXTENDS Descriptors, WellFoundedInduction, TLAPS

\* A loop that looks for the first of some slots finds one, and none before it.
LEMMA LowestIn ==
    ASSUME NEW S \in SUBSET Nat, S # {}
    PROVE  Lowest(S) \in S /\ \A y \in S : Lowest(S) <= y
<1>1. PICK x \in S : \A y \in S : <<y, x>> \notin OpToRel(<, Nat)
  BY NatLessThanWellFounded, WFMin, Zenon
<1>2. ASSUME NEW y \in S PROVE x <= y
  <2>1. ~(y < x)
    BY <1>1 DEF OpToRel
  <2> QED BY <2>1
<1> QED BY <1>2 DEF Lowest

LEMMA FreeFdIn ==
    ASSUME FreeFds # {}
    PROVE  Lowest(FreeFds) \in Fds /\ fd_table[Lowest(FreeFds)].type = "EMPTY"
<1>1. FreeFds \in SUBSET Nat
  BY DescriptorsAssumption DEF DescriptorsAssumption, FreeFds, Fds
<1>2. Lowest(FreeFds) \in FreeFds
  BY <1>1, LowestIn
<1> QED BY <1>2 DEF FreeFds

\* allocate_fd fills one entry, which was empty.
LEMMA AllocatedIs ==
    ASSUME NEW T, NEW D, fd_table \in [Fds -> [type : T, data : D]],
           NEW type \in T, NEW data \in D, FreeFds # {}
    PROVE  /\ Allocated(type, data) \in [Fds -> [type : T, data : D]]
           /\ Allocated(type, data)[Lowest(FreeFds)] = [type |-> type, data |-> data]
           /\ \A f \in Fds \ {Lowest(FreeFds)} : Allocated(type, data)[f] = fd_table[f]
  BY FreeFdIn DEF Allocated

\* What holds of 0, and of n + 1 when it holds of n, holds of every number.
LEMMA Induction ==
    ASSUME NEW S, 0 \in S, \A n \in Nat : n \in S => n + 1 \in S
    PROVE  Nat \subseteq S
<1> DEFINE T == Nat \ S
<1> SUFFICES ASSUME T # {} PROVE FALSE
  OBVIOUS
<1>1. T \in SUBSET Nat
  OBVIOUS
<1>2. PICK m \in T : \A y \in T : m <= y
  BY <1>1, LowestIn
<1>3. m \in Nat /\ m \notin S /\ m # 0
  OBVIOUS
<1>4. m - 1 \in Nat /\ m - 1 + 1 = m /\ ~(m <= m - 1)
  BY <1>3
<1>5. m - 1 \in S
  BY <1>2, <1>4
<1> QED BY <1>3, <1>4, <1>5
==============================================================================
