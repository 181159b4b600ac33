--------------------------- MODULE Sockets_proofs ---------------------------
(***************************************************************************)
(* Proofs about sockets of both families, with any number of slots and     *)
(* descriptors and rings of any size, for programs without bad habits.     *)
(***************************************************************************)
EXTENDS Sockets, Descriptors_proofs, FiniteSetTheorems, SequenceTheorems

\* The hypothesis of the theorems.
Careful == Habits \cap (BadUnixHabits \cup BadInetHabits) = {}

Types == {"EMPTY", "UNIX_SOCKET", "INET_SOCKET"}
Data == UnixSlots \cup InetSlots \cup {Null}
FdTypeOK == fd_table \in [Fds -> [type : Types, data : Data]]
-----------------------------------------------------------------------------
(* AF_UNIX: the invariant.                                                 *)

\* Who listens was bound, has no partner, and is alone at its path.
ListenInv ==
    /\ bound \subseteq UsedUnix
    /\ \A i \in UnixSlots :
        unix_sockets[i].listening => i \in bound /\ unix_sockets[i].peer = NONE
    /\ \A i, j \in bound : unix_sockets[i].path = unix_sockets[j].path => i = j

\* A socket with a peer that is there waits for it to accept, or is its partner.
LinkInv ==
    \A i \in UsedUnix :
        LET k == unix_sockets[i].peer IN
        /\ k = NONE => ~unix_sockets[i].connected
        /\ k # i
        /\ k \in UsedUnix => unix_sockets[k].listening \/ unix_sockets[k].peer = i

\* A client that is noted by a listener, and is still there, waits for it; who may yet
\* listen notes none.
WaitInv ==
    /\ \A i \in UnixSlots :
        unix_sockets[i].listening /\ IsUnix(unix_sockets[i].pending)
            => /\ Unix(unix_sockets[i].pending).peer = i
               /\ Unix(unix_sockets[i].pending).connected
    /\ \A i \in UsedUnix :
        unix_sockets[i].peer = NONE /\ ~unix_sockets[i].listening
            => unix_sockets[i].pending = NONE

\* Nothing is left in a slot that is given up.
EmptyInv == \A i \in FreeUnix : unix_sockets[i].queue = <<>>

\* The inductive invariant.
UnixInv ==
    /\ FdTypeOK /\ UnixTypeOK /\ UnixSlotsOwned /\ ListenInv /\ LinkInv /\ WaitInv
    /\ EmptyInv /\ NoClientForgotten
-----------------------------------------------------------------------------
(* Facts used below.                                                       *)

LEMMA NoneIsNoSlot ==
    /\ NONE \notin UnixSlots /\ NONE \notin Fds /\ 0 \notin Fds
    /\ UnixSlots \in SUBSET Nat /\ Null \notin UnixSlots
  BY UnixSocketsAssumption, DescriptorsAssumption
  DEF UnixSocketsAssumption, DescriptorsAssumption, NONE, UnixSlots, Fds

LEMMA FreeUnixIn ==
    ASSUME FreeUnix # {}
    PROVE  /\ Lowest(FreeUnix) \in UnixSlots /\ Lowest(FreeUnix) \notin UsedUnix
           /\ ~unix_sockets[Lowest(FreeUnix)].used
<1>1. FreeUnix \in SUBSET Nat
  BY NoneIsNoSlot DEF FreeUnix
<1> QED BY <1>1, LowestIn DEF FreeUnix, UsedUnix

LEMMA ListenerIn ==
    ASSUME NEW p, Listeners(p) # {}
    PROVE  /\ Lowest(Listeners(p)) \in UsedUnix
           /\ unix_sockets[Lowest(Listeners(p))].listening
           /\ unix_sockets[Lowest(Listeners(p))].path = p
           /\ Lowest(Listeners(p)) \in Listeners(p)
<1>1. Listeners(p) \in SUBSET Nat
  BY NoneIsNoSlot DEF Listeners, UsedUnix
<1> QED BY <1>1, LowestIn DEF Listeners

\* The socket of a descriptor.
LEMMA OfUnixFd ==
    ASSUME UnixInv, NEW f \in UnixFds
    PROVE  /\ f \in Fds /\ fd_table[f].type = "UNIX_SOCKET"
           /\ fd_table[f].data \in UsedUnix
           /\ Unix(f) = unix_sockets[fd_table[f].data]
           /\ \A g \in UnixFds : fd_table[g].data = fd_table[f].data => g = f
  BY DEF UnixInv, UnixSlotsOwned, UnixFds, IsUnix, Unix

SlotOK ==
    [queue : Seq(Bytes), peer : UnixSlots \cup {NONE}, pending : Fds \cup {0, NONE},
     used : BOOLEAN, listening : BOOLEAN, connected : BOOLEAN, path : Paths \cup {Null}]

LEMMA SlotTypes ==
    ASSUME UnixTypeOK
    PROVE  unix_sockets \in [UnixSlots -> SlotOK]
  BY DEF UnixTypeOK, SlotOK
-----------------------------------------------------------------------------
(* AF_UNIX: what each call does to the slots, field by field.              *)

\* The fields that most calls leave alone.
SameUse == \A j \in UnixSlots : unix_sockets'[j].used = unix_sockets[j].used
SameRoles ==
    \A j \in UnixSlots : /\ unix_sockets'[j].listening = unix_sockets[j].listening
                         /\ unix_sockets'[j].path = unix_sockets[j].path
SameQueues == \A j \in UnixSlots : unix_sockets'[j].queue = unix_sockets[j].queue

LEMMA ConnectEffect ==
    ASSUME UnixInv, NEW f \in UnixFds, NEW p \in Paths, UnixConnect(f, p),
           Unix(f).peer = NONE, ~Unix(f).listening,
           \A i \in Listeners(p) : unix_sockets[i].pending = NONE
    PROVE  LET c == fd_table[f].data
               v == Lowest(Listeners(p))
           IN /\ c \in UsedUnix /\ v \in UsedUnix /\ c # v
              /\ unix_sockets[v].listening /\ unix_sockets[v].pending = NONE
              /\ unix_sockets' \in [UnixSlots -> SlotOK]
              /\ SameUse /\ SameRoles /\ SameQueues
              /\ unix_sockets'[c].peer = v /\ unix_sockets'[c].connected
              /\ unix_sockets'[v].pending = f
              /\ \A j \in UnixSlots \ {c} :
                    /\ unix_sockets'[j].peer = unix_sockets[j].peer
                    /\ unix_sockets'[j].connected = unix_sockets[j].connected
              /\ \A j \in UnixSlots \ {v} : unix_sockets'[j].pending = unix_sockets[j].pending
              /\ UNCHANGED <<fd_table, bound>>
<1> DEFINE c == fd_table[f].data
           v == Lowest(Listeners(p))
<1>1. /\ c \in UsedUnix /\ c \in UnixSlots /\ f \in Fds
      /\ unix_sockets[c].peer = NONE /\ ~unix_sockets[c].listening
  BY OfUnixFd DEF UsedUnix
<1>2. Listeners(p) # {}
  BY DEF UnixConnect
<1>3. /\ v \in UsedUnix /\ v \in UnixSlots /\ unix_sockets[v].listening
      /\ unix_sockets[v].pending = NONE
  BY <1>2, ListenerIn DEF UsedUnix
<1>4. unix_sockets \in [UnixSlots -> SlotOK]
  BY SlotTypes DEF UnixInv
<1>5. /\ unix_sockets' = [unix_sockets EXCEPT ![c].peer = v, ![c].connected = TRUE,
                                              ![v].pending = f]
      /\ UNCHANGED <<fd_table, bound>>
  BY DEF UnixConnect
<1> HIDE DEF c, v
<1>6. c # v
  BY <1>1, <1>3
<1>7. /\ unix_sockets' \in [UnixSlots -> SlotOK]
      /\ SameUse /\ SameRoles /\ SameQueues
  <2>1. unix_sockets' \in [UnixSlots -> SlotOK]
    <3>1. [unix_sockets[c] EXCEPT !.peer = v, !.connected = TRUE] \in SlotOK
      BY <1>1, <1>3, <1>4 DEF SlotOK
    <3>2. [unix_sockets[v] EXCEPT !.pending = f] \in SlotOK
      BY <1>1, <1>3, <1>4 DEF SlotOK
    <3>3. unix_sockets' = [unix_sockets EXCEPT
                ![c] = [unix_sockets[c] EXCEPT !.peer = v, !.connected = TRUE],
                ![v] = [unix_sockets[v] EXCEPT !.pending = f]]
      BY <1>1, <1>3, <1>4, <1>5, <1>6
    <3> QED BY <1>1, <1>3, <1>4, <3>1, <3>2, <3>3
  <2>2. SameUse /\ SameRoles
    BY <1>1, <1>3, <1>4, <1>5, <1>6, ZenonT(60) DEF SlotOK, SameUse, SameRoles
  <2>3. SameQueues
    BY <1>1, <1>3, <1>4, <1>5, <1>6 DEF SlotOK, SameQueues
  <2> QED BY <2>1, <2>2, <2>3
<1>8. /\ unix_sockets'[c].peer = v /\ unix_sockets'[c].connected
      /\ unix_sockets'[v].pending = f
      /\ \A j \in UnixSlots \ {c} : /\ unix_sockets'[j].peer = unix_sockets[j].peer
                                    /\ unix_sockets'[j].connected = unix_sockets[j].connected
      /\ \A j \in UnixSlots \ {v} : unix_sockets'[j].pending = unix_sockets[j].pending
  BY <1>1, <1>3, <1>4, <1>5, <1>6 DEF SlotOK
<1> QED BY <1>1, <1>3, <1>5, <1>6, <1>7, <1>8 DEF c, v
-----------------------------------------------------------------------------
(* AF_UNIX: the calls keep the invariant.                                  *)

\* A call that leaves the table of descriptors, and who uses which slot, alone.
LEMMA SameOwners ==
    ASSUME UnixInv, unix_sockets' \in [UnixSlots -> SlotOK], SameUse, UNCHANGED fd_table
    PROVE  /\ FdTypeOK' /\ UnixSlotsOwned' /\ UsedUnix' = UsedUnix /\ UnixFds' = UnixFds
           /\ \A f : IsUnix(f)' = IsUnix(f)
           /\ \A f : Unix(f)' = unix_sockets'[fd_table[f].data]
<1>1. FdTypeOK' /\ UsedUnix' = UsedUnix /\ UnixFds' = UnixFds /\ \A f : IsUnix(f)' = IsUnix(f)
  BY DEF UnixInv, FdTypeOK, SameUse, UsedUnix, UnixFds, IsUnix
<1> QED BY <1>1 DEF UnixInv, UnixSlotsOwned, Unix

LEMMA ConnectInv ==
    ASSUME UnixInv, NEW f \in UnixFds, NEW p \in Paths, UnixConnect(f, p),
           Unix(f).peer = NONE, ~Unix(f).listening,
           \A i \in Listeners(p) : unix_sockets[i].pending = NONE
    PROVE  UnixInv'
<1> DEFINE c == fd_table[f].data
           v == Lowest(Listeners(p))
<1>1. /\ c \in UsedUnix /\ v \in UsedUnix /\ c # v
      /\ unix_sockets[v].listening /\ unix_sockets[v].pending = NONE
      /\ unix_sockets' \in [UnixSlots -> SlotOK]
      /\ SameUse /\ SameRoles /\ SameQueues
      /\ unix_sockets'[c].peer = v /\ unix_sockets'[c].connected
      /\ unix_sockets'[v].pending = f
      /\ \A j \in UnixSlots \ {c} : /\ unix_sockets'[j].peer = unix_sockets[j].peer
                                    /\ unix_sockets'[j].connected = unix_sockets[j].connected
      /\ \A j \in UnixSlots \ {v} : unix_sockets'[j].pending = unix_sockets[j].pending
      /\ UNCHANGED <<fd_table, bound>>
  BY ConnectEffect
<1>2. /\ c \in UnixSlots /\ v \in UnixSlots /\ f \in Fds /\ IsUnix(f)
      /\ unix_sockets[c].peer = NONE /\ ~unix_sockets[c].listening
      /\ \A g \in UnixFds : fd_table[g].data \in UsedUnix /\ (fd_table[g].data = c => g = f)
  BY <1>1, OfUnixFd DEF UsedUnix, UnixFds, IsUnix
<1> HIDE DEF c, v
<1>3. /\ FdTypeOK' /\ UnixSlotsOwned' /\ UsedUnix' = UsedUnix /\ UnixFds' = UnixFds
      /\ \A g : IsUnix(g)' = IsUnix(g)
      /\ \A g : Unix(g)' = unix_sockets'[fd_table[g].data]
  BY <1>1, SameOwners
<1>4. UnixTypeOK' /\ EmptyInv'
  BY <1>1, <1>3 DEF UnixInv, UnixTypeOK, SlotOK, SameQueues, EmptyInv, FreeUnix
<1>5. ListenInv'
  BY <1>1, <1>2, <1>3 DEF UnixInv, ListenInv, SameRoles, UsedUnix
<1>6. LinkInv'
  <2>1. ASSUME NEW i \in UsedUnix, i # c, NEW k, k = unix_sockets[i].peer
        PROVE  /\ k = NONE => ~unix_sockets[i].connected
               /\ k # i /\ k # c
               /\ k \in UsedUnix => unix_sockets[k].listening \/ unix_sockets[k].peer = i
    <3>1. /\ k = NONE => ~unix_sockets[i].connected
          /\ k # i
          /\ k \in UsedUnix => unix_sockets[k].listening \/ unix_sockets[k].peer = i
      BY <2>1 DEF UnixInv, LinkInv
    <3>2. i # NONE
      BY NoneIsNoSlot DEF UsedUnix
    <3> QED BY <1>1, <1>2, <3>1, <3>2
  <2>2. ASSUME NEW i \in UsedUnix, i # c
        PROVE  LET k == unix_sockets'[i].peer IN
               /\ k = NONE => ~unix_sockets'[i].connected
               /\ k # i
               /\ k \in UsedUnix => unix_sockets'[k].listening \/ unix_sockets'[k].peer = i
    BY <1>1, <2>1, <2>2 DEF SameRoles, UsedUnix
  <2>3. c # NONE /\ v # NONE
    BY <1>2, NoneIsNoSlot
  <2> QED BY <1>1, <1>2, <1>3, <2>2, <2>3 DEF LinkInv, SameRoles
<1>7. WaitInv'
  <2>4. \A i \in UsedUnix : unix_sockets'[i].peer = NONE /\ ~unix_sockets'[i].listening
                                => unix_sockets'[i].pending = NONE
    BY <1>1, <1>2, NoneIsNoSlot DEF UnixInv, WaitInv, SameRoles, UsedUnix
  <2> SUFFICES ASSUME NEW i \in UnixSlots, unix_sockets'[i].listening,
                      NEW g, g = unix_sockets'[i].pending, IsUnix(g)
               PROVE  /\ unix_sockets'[fd_table[g].data].peer = i
                      /\ unix_sockets'[fd_table[g].data].connected
    BY <1>3, <2>4 DEF WaitInv
  <2>1. unix_sockets[i].listening /\ fd_table[g].data \in UnixSlots
    BY <1>1, <1>2 DEF SameRoles, UsedUnix, UnixFds, IsUnix
  <2>2. CASE i = v
    BY <1>1, <2>2 DEF c
  <2>3. CASE i # v
    <3>1. /\ unix_sockets[fd_table[g].data].peer = i
          /\ unix_sockets[fd_table[g].data].connected
      BY <1>1, <2>1, <2>3 DEF UnixInv, WaitInv, Unix
    <3>2. fd_table[g].data # c
      BY <1>2, <3>1, NoneIsNoSlot
    <3> QED BY <1>1, <2>1, <3>1, <3>2
  <2> QED BY <2>2, <2>3
<1>8. NoClientForgotten'
  <2> SUFFICES ASSUME NEW g \in UnixFds, NEW i, i = fd_table[g].data,
                      NEW j \in UsedUnix, j = unix_sockets'[i].peer,
                      unix_sockets'[i].connected, unix_sockets'[j].listening
               PROVE  unix_sockets'[j].pending = g
    BY <1>3 DEF NoClientForgotten
  <2>1. i \in UnixSlots /\ j \in UnixSlots /\ unix_sockets[j].listening
    BY <1>1, <1>2 DEF SameRoles, UsedUnix
  <2>2. CASE i = c
    BY <1>1, <1>2, <2>2
  <2>3. CASE i # c
    <3>1. unix_sockets[i].peer = j /\ unix_sockets[i].connected
      BY <1>1, <2>1, <2>3
    <3>2. unix_sockets[j].pending = g
      BY <2>1, <3>1 DEF UnixInv, NoClientForgotten, Unix
    <3>3. j # v
      BY <1>1, <3>2, NoneIsNoSlot DEF UnixFds
    <3> QED BY <1>1, <2>1, <3>2, <3>3
  <2> QED BY <2>2, <2>3
<1> QED BY <1>1, <1>3, <1>4, <1>5, <1>6, <1>7, <1>8 DEF UnixInv

\* A call that writes one field of one slot.
SameLinks ==
    \A j \in UnixSlots : /\ unix_sockets'[j].peer = unix_sockets[j].peer
                         /\ unix_sockets'[j].connected = unix_sockets[j].connected

LEMMA BindInv ==
    ASSUME UnixInv, NEW f \in UnixFds, NEW p \in Paths, UnixBind(f, p)
    PROVE  UnixInv' /\ SameUse /\ SameLinks /\ SameQueues
<1> DEFINE i == fd_table[f].data
<1>1. /\ i \in UsedUnix /\ i \in UnixSlots /\ unix_sockets \in [UnixSlots -> SlotOK]
  BY OfUnixFd, SlotTypes DEF UnixInv, UsedUnix
<1>2. /\ \A j \in UsedUnix \ {i} : unix_sockets[j].path # p
      /\ unix_sockets' = [unix_sockets EXCEPT ![i].path = p]
      /\ bound' = bound \cup {i} /\ UNCHANGED fd_table
  BY DEF UnixBind
<1> HIDE DEF i
<1>3. unix_sockets' \in [UnixSlots -> SlotOK]
  <2>1. [unix_sockets[i] EXCEPT !.path = p] \in SlotOK
    BY <1>1 DEF SlotOK
  <2> QED BY <1>1, <1>2, <2>1
<1>4. SameUse /\ SameLinks /\ SameQueues
  BY <1>1, <1>2 DEF SlotOK, SameUse, SameLinks, SameQueues
<1>5. /\ \A j \in UnixSlots : /\ unix_sockets'[j].listening = unix_sockets[j].listening
                              /\ unix_sockets'[j].pending = unix_sockets[j].pending
      /\ \A j \in UnixSlots \ {i} : unix_sockets'[j].path = unix_sockets[j].path
      /\ unix_sockets'[i].path = p
  BY <1>1, <1>2 DEF SlotOK
<1>6. /\ FdTypeOK' /\ UnixSlotsOwned' /\ UsedUnix' = UsedUnix /\ UnixFds' = UnixFds
      /\ \A g : IsUnix(g)' = IsUnix(g)
      /\ \A g : Unix(g)' = unix_sockets'[fd_table[g].data]
      /\ \A g \in UnixFds : fd_table[g].data \in UnixSlots
  BY <1>2, <1>3, <1>4, SameOwners, OfUnixFd DEF UsedUnix
<1>7. UnixTypeOK' /\ EmptyInv'
  BY <1>1, <1>2, <1>3, <1>4, <1>6
  DEF UnixInv, UnixTypeOK, SlotOK, SameQueues, EmptyInv, FreeUnix, UsedUnix
<1>8. ListenInv'
  BY <1>1, <1>2, <1>4, <1>5, <1>6 DEF UnixInv, ListenInv, SameLinks, UsedUnix
<1>9. LinkInv'
  BY <1>4, <1>5, <1>6 DEF UnixInv, LinkInv, SameLinks, UsedUnix
<1>10. WaitInv'
  BY <1>4, <1>5, <1>6 DEF UnixInv, WaitInv, SameLinks, Unix, UnixFds, IsUnix, UsedUnix
<1>11. NoClientForgotten'
  BY <1>4, <1>5, <1>6 DEF UnixInv, NoClientForgotten, SameLinks, Unix, UsedUnix
<1> QED BY <1>4, <1>6, <1>7, <1>8, <1>9, <1>10, <1>11 DEF UnixInv

LEMMA ListenKeepsInv ==
    ASSUME UnixInv, NEW f \in UnixFds, UnixListen(f), Unix(f).peer = NONE,
           fd_table[f].data \in bound
    PROVE  UnixInv' /\ SameUse /\ SameLinks /\ SameQueues
<1> DEFINE i == fd_table[f].data
<1>1. /\ i \in UsedUnix /\ i \in UnixSlots /\ unix_sockets \in [UnixSlots -> SlotOK]
      /\ unix_sockets[i].peer = NONE /\ i \in bound
  BY OfUnixFd, SlotTypes DEF UnixInv, UsedUnix
<1>2. /\ unix_sockets' = [unix_sockets EXCEPT ![i].listening = TRUE]
      /\ UNCHANGED <<fd_table, bound>>
  BY DEF UnixListen
<1> HIDE DEF i
<1>3. unix_sockets' \in [UnixSlots -> SlotOK]
  <2>1. [unix_sockets[i] EXCEPT !.listening = TRUE] \in SlotOK
    BY <1>1 DEF SlotOK
  <2> QED BY <1>1, <1>2, <2>1
<1>4. SameUse /\ SameLinks /\ SameQueues
  BY <1>1, <1>2 DEF SlotOK, SameUse, SameLinks, SameQueues
<1>5. /\ \A j \in UnixSlots : /\ unix_sockets'[j].path = unix_sockets[j].path
                              /\ unix_sockets'[j].pending = unix_sockets[j].pending
      /\ \A j \in UnixSlots \ {i} : unix_sockets'[j].listening = unix_sockets[j].listening
      /\ unix_sockets'[i].listening
  BY <1>1, <1>2 DEF SlotOK
<1>6. /\ FdTypeOK' /\ UnixSlotsOwned' /\ UsedUnix' = UsedUnix /\ UnixFds' = UnixFds
      /\ \A g : IsUnix(g)' = IsUnix(g)
      /\ \A g : Unix(g)' = unix_sockets'[fd_table[g].data]
      /\ \A g \in UnixFds : fd_table[g].data \in UnixSlots
  BY <1>2, <1>3, <1>4, SameOwners, OfUnixFd DEF UsedUnix
<1>7. UnixTypeOK' /\ EmptyInv'
  BY <1>1, <1>2, <1>3, <1>4, <1>6
  DEF UnixInv, UnixTypeOK, SlotOK, SameQueues, EmptyInv, FreeUnix, UsedUnix
<1>8. ListenInv'
  BY <1>1, <1>2, <1>4, <1>5, <1>6 DEF UnixInv, ListenInv, SameLinks, UsedUnix
<1>9. LinkInv'
  BY <1>4, <1>5, <1>6 DEF UnixInv, LinkInv, SameLinks, UsedUnix
<1>10. WaitInv'
  <2>1. unix_sockets'[i].pending = NONE \/ unix_sockets[i].listening
    BY <1>1, <1>5 DEF UnixInv, WaitInv
  <2>2. ~IsUnix(NONE)
    BY NoneIsNoSlot DEF IsUnix
  <2> QED BY <1>4, <1>5, <1>6, <2>1, <2>2, SMTT(60)
          DEF UnixInv, WaitInv, SameLinks, Unix, UnixFds, IsUnix, UsedUnix
<1>11. NoClientForgotten'
  <2>1. ASSUME NEW j \in UsedUnix, unix_sockets[j].peer = i PROVE unix_sockets[i].listening
    BY <1>1, <2>1, NoneIsNoSlot DEF UnixInv, LinkInv, UsedUnix
  <2>2. \A g \in UnixFds : fd_table[g].data \in UsedUnix
    BY OfUnixFd
  <2> QED BY <1>1, <1>4, <1>5, <1>6, <2>1, <2>2
          DEF UnixInv, NoClientForgotten, SameLinks, Unix, UsedUnix
<1> QED BY <1>4, <1>6, <1>7, <1>8, <1>9, <1>10, <1>11 DEF UnixInv

\* The client that waited is gone.
LEMMA AcceptNobodyInv ==
    ASSUME UnixInv, NEW f \in UnixFds, UnixAcceptNobody(f), ~IsUnix(Unix(f).pending)
    PROVE  UnixInv' /\ SameUse /\ SameLinks /\ SameQueues
<1> DEFINE i == fd_table[f].data
<1>1. /\ i \in UsedUnix /\ i \in UnixSlots /\ unix_sockets \in [UnixSlots -> SlotOK]
      /\ ~IsUnix(unix_sockets[i].pending)
  BY OfUnixFd, SlotTypes DEF UnixInv, UsedUnix
<1>2. /\ unix_sockets' = [unix_sockets EXCEPT ![i].pending = NONE]
      /\ UNCHANGED <<fd_table, bound>>
  BY DEF UnixAcceptNobody
<1> HIDE DEF i
<1>3. unix_sockets' \in [UnixSlots -> SlotOK]
  <2>1. [unix_sockets[i] EXCEPT !.pending = NONE] \in SlotOK
    BY <1>1 DEF SlotOK
  <2> QED BY <1>1, <1>2, <2>1
<1>4. SameUse /\ SameLinks /\ SameQueues /\ SameRoles
  BY <1>1, <1>2 DEF SlotOK, SameUse, SameLinks, SameQueues, SameRoles
<1>5. /\ \A j \in UnixSlots \ {i} : unix_sockets'[j].pending = unix_sockets[j].pending
      /\ unix_sockets'[i].pending = NONE
  BY <1>1, <1>2 DEF SlotOK
<1>6. /\ FdTypeOK' /\ UnixSlotsOwned' /\ UsedUnix' = UsedUnix /\ UnixFds' = UnixFds
      /\ \A g : IsUnix(g)' = IsUnix(g)
      /\ \A g : Unix(g)' = unix_sockets'[fd_table[g].data]
      /\ \A g \in UnixFds : fd_table[g].data \in UnixSlots
  BY <1>2, <1>3, <1>4, SameOwners, OfUnixFd DEF UsedUnix
<1>7. UnixTypeOK' /\ EmptyInv'
  BY <1>1, <1>2, <1>3, <1>4, <1>6
  DEF UnixInv, UnixTypeOK, SlotOK, SameQueues, EmptyInv, FreeUnix, UsedUnix
<1>8. ListenInv'
  BY <1>1, <1>2, <1>4, <1>5, <1>6 DEF UnixInv, ListenInv, SameLinks, SameRoles, UsedUnix
<1>9. LinkInv'
  BY <1>4, <1>5, <1>6 DEF UnixInv, LinkInv, SameLinks, SameRoles, UsedUnix
<1>10. WaitInv'
  <2>1. ~IsUnix(NONE)
    BY NoneIsNoSlot DEF IsUnix
  <2>2. ASSUME NEW j \in UnixSlots, unix_sockets'[j].listening, IsUnix(unix_sockets'[j].pending)
        PROVE  /\ unix_sockets'[fd_table[unix_sockets'[j].pending].data].peer = j
               /\ unix_sockets'[fd_table[unix_sockets'[j].pending].data].connected
    <3>1. j # i /\ unix_sockets'[j].pending = unix_sockets[j].pending
          /\ unix_sockets[j].listening
      BY <1>4, <1>5, <2>1, <2>2 DEF SameRoles
    <3>2. /\ unix_sockets[fd_table[unix_sockets[j].pending].data].peer = j
          /\ unix_sockets[fd_table[unix_sockets[j].pending].data].connected
      BY <2>2, <3>1 DEF UnixInv, WaitInv, Unix
    <3>3. fd_table[unix_sockets[j].pending].data \in UnixSlots
      BY <1>6, <2>2, <3>1 DEF UnixFds, IsUnix
    <3> QED BY <1>4, <3>1, <3>2, <3>3 DEF SameLinks
  <2>3. ASSUME NEW j \in UsedUnix, unix_sockets'[j].peer = NONE, ~unix_sockets'[j].listening
        PROVE  unix_sockets'[j].pending = NONE
    BY <1>4, <1>5, <2>3 DEF UnixInv, WaitInv, SameLinks, SameRoles, UsedUnix
  <2> QED BY <1>6, <2>2, <2>3 DEF WaitInv
<1>11. NoClientForgotten'
  <2> SUFFICES ASSUME NEW g \in UnixFds, NEW j \in UsedUnix,
                      j = unix_sockets'[fd_table[g].data].peer,
                      unix_sockets'[fd_table[g].data].connected, unix_sockets'[j].listening
               PROVE  unix_sockets'[j].pending = g
    BY <1>6 DEF NoClientForgotten
  <2>1. unix_sockets[j].pending = g
    BY <1>4, <1>6 DEF UnixInv, NoClientForgotten, SameLinks, SameRoles, Unix, UsedUnix
  <2>2. j # i
    BY <1>1, <2>1 DEF UnixFds
  <2> QED BY <1>5, <2>1, <2>2 DEF UsedUnix
<1> QED BY <1>2, <1>4, <1>6, <1>7, <1>8, <1>9, <1>10, <1>11 DEF UnixInv

\* A call that changes what one socket has to read.
LEMMA QueueInv ==
    ASSUME UnixInv, NEW i \in UsedUnix, NEW q \in Seq(Bytes), Len(q) <= UNIX_SOCKET_QUEUE,
           unix_sockets' = [unix_sockets EXCEPT ![i].queue = q],
           UNCHANGED <<fd_table, bound>>
    PROVE  /\ UnixInv' /\ SameUse /\ SameLinks
           /\ \A j \in UnixSlots : unix_sockets'[j].queue = IF j = i THEN q
                                                           ELSE unix_sockets[j].queue
<1>1. i \in UnixSlots /\ unix_sockets \in [UnixSlots -> SlotOK] /\ unix_sockets[i].used
  BY SlotTypes DEF UnixInv, UsedUnix
<1>2. unix_sockets' \in [UnixSlots -> SlotOK]
  <2>1. [unix_sockets[i] EXCEPT !.queue = q] \in SlotOK
    BY <1>1 DEF SlotOK
  <2> QED BY <1>1, <2>1
<1>3. /\ SameUse /\ SameLinks /\ SameRoles
      /\ \A j \in UnixSlots : unix_sockets'[j].pending = unix_sockets[j].pending
  BY <1>1 DEF SlotOK, SameUse, SameLinks, SameRoles
<1>4. \A j \in UnixSlots : unix_sockets'[j].queue = IF j = i THEN q
                                                  ELSE unix_sockets[j].queue
  BY <1>1 DEF SlotOK
<1>5. /\ FdTypeOK' /\ UnixSlotsOwned' /\ UsedUnix' = UsedUnix /\ UnixFds' = UnixFds
      /\ \A g : IsUnix(g)' = IsUnix(g)
      /\ \A g : Unix(g)' = unix_sockets'[fd_table[g].data]
      /\ \A g \in UnixFds : fd_table[g].data \in UnixSlots
  BY <1>2, <1>3, SameOwners, OfUnixFd DEF UsedUnix
<1>6. UnixTypeOK' /\ EmptyInv'
  BY <1>1, <1>2, <1>4, <1>5 DEF UnixInv, UnixTypeOK, SlotOK, EmptyInv, FreeUnix, UsedUnix
<1>7. ListenInv'
  BY <1>3, <1>5 DEF UnixInv, ListenInv, SameLinks, SameRoles, UsedUnix
<1>8. LinkInv'
  BY <1>3, <1>5 DEF UnixInv, LinkInv, SameLinks, SameRoles, UsedUnix
<1>9. WaitInv'
  <2>1. ASSUME NEW k \in UnixSlots, unix_sockets'[k].listening, NEW g,
               g = unix_sockets'[k].pending, IsUnix(g)
        PROVE  /\ unix_sockets'[fd_table[g].data].peer = k
               /\ unix_sockets'[fd_table[g].data].connected
    <3>1. unix_sockets[k].listening /\ g = unix_sockets[k].pending
      BY <1>3, <2>1 DEF SameRoles
    <3>2. /\ unix_sockets[fd_table[g].data].peer = k
          /\ unix_sockets[fd_table[g].data].connected
      BY <2>1, <3>1 DEF UnixInv, WaitInv, Unix
    <3> QED BY <1>3, <1>5, <2>1, <3>2 DEF SameLinks, UnixFds, IsUnix
  <2>2. \A k \in UsedUnix : unix_sockets'[k].peer = NONE /\ ~unix_sockets'[k].listening
            => unix_sockets'[k].pending = NONE
    BY <1>3 DEF UnixInv, WaitInv, SameLinks, SameRoles, UsedUnix
  <2> QED BY <1>5, <2>1, <2>2 DEF WaitInv
<1>10. NoClientForgotten'
  BY <1>3, <1>5 DEF UnixInv, NoClientForgotten, SameLinks, SameRoles, Unix, UsedUnix
<1> QED BY <1>3, <1>4, <1>5, <1>6, <1>7, <1>8, <1>9, <1>10 DEF UnixInv

LEMMA MinOfTwo ==
    ASSUME NEW a \in Int, NEW b \in Int
    PROVE  Min({a, b}) = IF a <= b THEN a ELSE b
<1> DEFINE m == IF a <= b THEN a ELSE b
<1>1. m \in {a, b} /\ \A y \in {a, b} : m <= y
  OBVIOUS
<1>2. \A x \in {a, b} : (\A y \in {a, b} : x <= y) => x = m
  OBVIOUS
<1> HIDE DEF m
<1>3. Min({a, b}) = m
  BY <1>1, <1>2 DEF Min
<1> QED BY <1>3 DEF m

LEMMA Prefix ==
    ASSUME NEW S, NEW n \in Nat, NEW s \in [1 .. n -> S], NEW m \in 0 .. n
    PROVE  /\ SubSeq(s, 1, m) \in [1 .. m -> S] /\ SubSeq(s, 1, m) \in Seq(S)
           /\ Len(SubSeq(s, 1, m)) = m
           /\ m = 0 => SubSeq(s, 1, m) = <<>>
<1>1. \A i \in 1 .. m : s[i] \in S
  OBVIOUS
<1>2. SubSeq(s, 1, m) \in Seq(S) /\ Len(SubSeq(s, 1, m)) = m
  BY <1>1, SubSeqProperties
<1>3. SubSeq(s, 1, m) \in [1 .. m -> S]
  BY <1>2, LenProperties
<1>4. m = 0 => SubSeq(s, 1, m) = <<>>
  BY SubSeqEmpty
<1> QED BY <1>2, <1>3, <1>4

LEMMA Suffix ==
    ASSUME NEW S, NEW q \in Seq(S), NEW m \in 0 .. Len(q)
    PROVE  /\ SubSeq(q, m + 1, Len(q)) \in Seq(S)
           /\ Len(SubSeq(q, m + 1, Len(q))) = Len(q) - m
           /\ m = 0 => SubSeq(q, m + 1, Len(q)) = q
<1>1. Len(q) \in Nat /\ m \in Int /\ \A i \in m + 1 .. Len(q) : q[i] \in S
  OBVIOUS
<1>2. /\ SubSeq(q, m + 1, Len(q)) \in Seq(S)
      /\ Len(SubSeq(q, m + 1, Len(q))) = IF m + 1 <= Len(q) THEN Len(q) - (m + 1) + 1 ELSE 0
  BY <1>1, SubSeqProperties
<1>3. Len(SubSeq(q, m + 1, Len(q))) = Len(q) - m
  BY <1>1, <1>2
<1>4. m = 0 => SubSeq(q, m + 1, Len(q)) = q
  BY SubSeqFull
<1> QED BY <1>2, <1>3, <1>4

\* What a ring has after a send: as much as there is room for, behind the rest.
LEMMA SentIs ==
    ASSUME NEW q \in Seq(Bytes), Len(q) <= UNIX_SOCKET_QUEUE,
           NEW n \in Nat, NEW s \in [1 .. n -> Bytes]
    PROVE  LET m == Min({Len(s), UNIX_SOCKET_QUEUE - Len(q)}) IN
           /\ m \in 0 .. UNIX_SOCKET_QUEUE - Len(q)
           /\ SubSeq(s, 1, m) \in [1 .. m -> Bytes]
           /\ q \o SubSeq(s, 1, m) \in Seq(Bytes)
           /\ Len(q \o SubSeq(s, 1, m)) <= UNIX_SOCKET_QUEUE
           /\ m = 0 => q \o SubSeq(s, 1, m) = q
<1> DEFINE m == Min({Len(s), UNIX_SOCKET_QUEUE - Len(q)})
<1>1. UNIX_SOCKET_QUEUE \in Nat /\ Len(q) \in Nat
  BY UnixSocketsAssumption DEF UnixSocketsAssumption
<1>2. Len(s) = n
  OBVIOUS
<1>3. m = IF n <= UNIX_SOCKET_QUEUE - Len(q) THEN n ELSE UNIX_SOCKET_QUEUE - Len(q)
  BY <1>1, <1>2, MinOfTwo
<1> HIDE DEF m
<1>4. m \in 0 .. UNIX_SOCKET_QUEUE - Len(q) /\ m \in 0 .. n
  BY <1>1, <1>3
<1>5. /\ SubSeq(s, 1, m) \in Seq(Bytes) /\ Len(SubSeq(s, 1, m)) = m
      /\ SubSeq(s, 1, m) \in [1 .. m -> Bytes] /\ (m = 0 => SubSeq(s, 1, m) = <<>>)
  BY <1>4, Prefix
<1>6. /\ q \o SubSeq(s, 1, m) \in Seq(Bytes)
      /\ Len(q \o SubSeq(s, 1, m)) = Len(q) + m
  BY <1>5, ConcatProperties
<1>7. m = 0 => q \o SubSeq(s, 1, m) = q
  BY <1>5, ConcatEmptySeq
<1>8. Len(q) + m <= UNIX_SOCKET_QUEUE
  BY <1>1, <1>4
<1> QED BY <1>4, <1>5, <1>6, <1>7, <1>8 DEF m

\* And after a receive.
LEMMA ReceivedIs ==
    ASSUME NEW q \in Seq(Bytes), NEW n \in Nat
    PROVE  LET m == Min({n, Len(q)}) IN
           /\ m \in 0 .. Len(q)
           /\ SubSeq(q, m + 1, Len(q)) \in Seq(Bytes)
           /\ Len(SubSeq(q, m + 1, Len(q))) <= Len(q)
           /\ m = 0 => SubSeq(q, m + 1, Len(q)) = q
<1> DEFINE m == Min({n, Len(q)})
<1>1. Len(q) \in Nat
  OBVIOUS
<1>2. m \in 0 .. Len(q)
  BY <1>1, MinOfTwo
<1> HIDE DEF m
<1>3. Len(q) - m <= Len(q)
  BY <1>1, <1>2
<1> QED BY <1>2, <1>3, Suffix DEF m
-----------------------------------------------------------------------------
(* AF_UNIX: the calls that take and give up slots and descriptors.         *)

\* The descriptor of a new socket.
LEMMA NewUnixFd ==
    ASSUME UnixInv, NEW i \in UnixSlots, i \notin UsedUnix, FreeFds # {},
           fd_table' = Allocated("UNIX_SOCKET", i), UsedUnix' = UsedUnix \cup {i}
    PROVE  LET n == Lowest(FreeFds) IN
           /\ FdTypeOK' /\ UnixSlotsOwned'
           /\ n \in Fds /\ n \notin UnixFds /\ fd_table'[n].data = i
           /\ UnixFds' = UnixFds \cup {n}
           /\ \A f \in UnixFds : fd_table'[f] = fd_table[f]
           /\ \A f : IsUnix(f)' <=> IsUnix(f) \/ f = n
<1> DEFINE n == Lowest(FreeFds)
<1>1. n \in Fds /\ fd_table[n].type = "EMPTY" /\ n \notin UnixFds
  BY FreeFdIn DEF UnixFds, IsUnix
<1>2. /\ fd_table' \in [Fds -> [type : Types, data : Data]]
      /\ fd_table'[n] = [type |-> "UNIX_SOCKET", data |-> i]
      /\ \A f \in Fds \ {n} : fd_table'[f] = fd_table[f]
  <2>1. "UNIX_SOCKET" \in Types /\ i \in Data
    BY DEF Types, Data
  <2>2. fd_table \in [Fds -> [type : Types, data : Data]]
    BY DEF UnixInv, FdTypeOK
  <2> QED BY <2>1, <2>2, AllocatedIs, SMTT(60)
<1> HIDE DEF n
<1>3. FdTypeOK'
  BY <1>2 DEF FdTypeOK, Types, Data
<1>4. \A f : IsUnix(f)' <=> IsUnix(f) \/ f = n
  BY <1>1, <1>2 DEF IsUnix
<1>5. UnixFds' = UnixFds \cup {n} /\ \A f \in UnixFds : fd_table'[f] = fd_table[f]
  BY <1>1, <1>2, <1>4 DEF UnixFds, IsUnix
<1>6. fd_table'[n].data = i
  BY <1>2
<1>7. UnixSlotsOwned'
  <2>1. \A f \in UnixFds : fd_table[f].data \in UsedUnix
    BY OfUnixFd
  <2>2. \A f, g \in UnixFds' : fd_table'[f].data = fd_table'[g].data => f = g
    BY <1>5, <1>6, <2>1 DEF UnixInv, UnixSlotsOwned
  <2>3. {fd_table'[f].data : f \in UnixFds'} = UsedUnix'
    BY <1>1, <1>5, <1>6 DEF UnixInv, UnixSlotsOwned
  <2> QED BY <2>2, <2>3 DEF UnixSlotsOwned
<1> QED BY <1>1, <1>3, <1>4, <1>5, <1>6, <1>7 DEF n

\* What programs without bad habits see to before they open something.
Tidy ==
    /\ \A j \in UsedUnix : unix_sockets[j].peer \notin FreeUnix
    /\ \A j \in UsedUnix : unix_sockets[j].listening
                             => unix_sockets[j].pending \in UnixFds \cup {NONE}

LEMMA SocketEffect ==
    ASSUME UnixInv, UnixSocket
    PROVE  LET i == Lowest(FreeUnix) IN
           /\ i \in UnixSlots /\ i \notin UsedUnix /\ i \notin bound
           /\ unix_sockets' \in [UnixSlots -> SlotOK]
           /\ \A j \in UnixSlots \ {i} : unix_sockets'[j] = unix_sockets[j]
           /\ ~unix_sockets'[i].listening /\ ~unix_sockets'[i].connected
           /\ unix_sockets'[i].peer = NONE /\ unix_sockets'[i].pending = NONE
           /\ unix_sockets'[i].queue = unix_sockets[i].queue
           /\ UsedUnix' = IF FreeFds = {} THEN UsedUnix ELSE UsedUnix \cup {i}
           /\ fd_table' = IF FreeFds = {} THEN fd_table ELSE Allocated("UNIX_SOCKET", i)
           /\ bound' = bound
<1> DEFINE i == Lowest(FreeUnix)
<1>1. /\ i \in UnixSlots /\ i \notin UsedUnix /\ i \notin bound
      /\ unix_sockets \in [UnixSlots -> SlotOK]
  BY FreeUnixIn, SlotTypes DEF UnixSocket, UnixInv, ListenInv
<1>2. /\ unix_sockets' = [unix_sockets EXCEPT ![i] = UnixOpened(@)]
      /\ fd_table' = IF FreeFds = {} THEN fd_table ELSE Allocated("UNIX_SOCKET", i)
      /\ bound' = bound \ {i}
  BY DEF UnixSocket
<1> HIDE DEF i
<1>3. /\ UnixOpened(unix_sockets[i]) \in SlotOK
      /\ ~UnixOpened(unix_sockets[i]).listening /\ ~UnixOpened(unix_sockets[i]).connected
      /\ UnixOpened(unix_sockets[i]).peer = NONE
      /\ UnixOpened(unix_sockets[i]).pending = NONE
      /\ UnixOpened(unix_sockets[i]).used = (FreeFds # {})
      /\ UnixOpened(unix_sockets[i]).queue = unix_sockets[i].queue
  BY <1>1 DEF UnixOpened, SlotOK
<1>4. /\ unix_sockets' \in [UnixSlots -> SlotOK]
      /\ \A j \in UnixSlots \ {i} : unix_sockets'[j] = unix_sockets[j]
      /\ unix_sockets'[i] = UnixOpened(unix_sockets[i])
  BY <1>1, <1>2, <1>3
<1>5. UsedUnix' = IF FreeFds = {} THEN UsedUnix ELSE UsedUnix \cup {i}
  BY <1>1, <1>3, <1>4 DEF UsedUnix
<1>6. bound' = bound
  BY <1>1, <1>2
<1> QED BY <1>1, <1>2, <1>3, <1>4, <1>5, <1>6 DEF i

LEMMA SocketInv ==
    ASSUME UnixInv, Tidy, UnixSocket
    PROVE  UnixInv'
<1> DEFINE i == Lowest(FreeUnix)
           n == Lowest(FreeFds)
<1>1. /\ i \in UnixSlots /\ i \notin UsedUnix /\ i \notin bound
      /\ unix_sockets' \in [UnixSlots -> SlotOK]
      /\ \A j \in UnixSlots \ {i} : unix_sockets'[j] = unix_sockets[j]
      /\ ~unix_sockets'[i].listening /\ ~unix_sockets'[i].connected
      /\ unix_sockets'[i].peer = NONE /\ unix_sockets'[i].pending = NONE
      /\ unix_sockets'[i].queue = unix_sockets[i].queue
      /\ UsedUnix' = IF FreeFds = {} THEN UsedUnix ELSE UsedUnix \cup {i}
      /\ fd_table' = IF FreeFds = {} THEN fd_table ELSE Allocated("UNIX_SOCKET", i)
      /\ bound' = bound
  BY SocketEffect
<1> HIDE DEF i
<1>2. \A f \in UnixFds : fd_table[f].data \in UsedUnix
  BY OfUnixFd
<1>3. /\ FdTypeOK' /\ UnixSlotsOwned'
      /\ UnixFds' = IF FreeFds = {} THEN UnixFds ELSE UnixFds \cup {n}
      /\ FreeFds # {} => n \notin UnixFds /\ fd_table'[n].data = i
      /\ \A f \in UnixFds : fd_table'[f].data = fd_table[f].data
  <2>1. CASE FreeFds = {}
    <3>1. fd_table' = fd_table /\ UsedUnix' = UsedUnix
      BY <1>1, <2>1
    <3> QED BY <2>1, <3>1 DEF UnixInv, FdTypeOK, UnixFds, IsUnix, UnixSlotsOwned
  <2>2. CASE FreeFds # {}
    BY <1>1, <2>2, NewUnixFd
  <2> QED BY <2>1, <2>2
<1>4. \A j \in UsedUnix' : j # i => j \in UsedUnix /\ unix_sockets'[j] = unix_sockets[j]
  BY <1>1 DEF UsedUnix
<1>5. \A f : IsUnix(f)' <=> f \in UnixFds'
  BY DEF UnixFds, IsUnix
<1>6. UnixTypeOK'
  BY <1>1 DEF UnixInv, UnixTypeOK, SlotOK, ListenInv
<1>7. EmptyInv'
  BY <1>1 DEF UnixInv, EmptyInv, FreeUnix
<1>8. ListenInv'
  BY <1>1, NoneIsNoSlot DEF UnixInv, ListenInv, UsedUnix
<1>9. LinkInv'
  <2> SUFFICES ASSUME NEW j \in UsedUnix', j # i, NEW k, k = unix_sockets'[j].peer
               PROVE  /\ k = NONE => ~unix_sockets'[j].connected
                      /\ k # j
                      /\ k \in UsedUnix' => unix_sockets'[k].listening
                                            \/ unix_sockets'[k].peer = j
    BY <1>1, NoneIsNoSlot DEF LinkInv, UsedUnix
  <2>1. /\ j \in UsedUnix /\ k = unix_sockets[j].peer
        /\ unix_sockets'[j].connected = unix_sockets[j].connected
    BY <1>4
  <2>2. k # i
    BY <1>1, <2>1 DEF Tidy, FreeUnix
  <2> QED BY <1>4, <2>1, <2>2 DEF UnixInv, LinkInv
<1>10. WaitInv'
  <2>1. \A j \in UsedUnix' : unix_sockets'[j].peer = NONE /\ ~unix_sockets'[j].listening
                                => unix_sockets'[j].pending = NONE
    BY <1>1, <1>4 DEF UnixInv, WaitInv
  <2> SUFFICES ASSUME NEW j \in UnixSlots, unix_sockets'[j].listening,
                      NEW g, g = unix_sockets'[j].pending, g \in UnixFds'
               PROVE  Unix(g)'.peer = j /\ Unix(g)'.connected
    BY <1>5, <2>1 DEF WaitInv
  <2>2. j # i /\ unix_sockets'[j] = unix_sockets[j] /\ j \in UsedUnix
    BY <1>1 DEF UnixInv, ListenInv
  <2>3. g \in UnixFds
    BY <1>3, <2>2, NoneIsNoSlot DEF Tidy, UnixFds
  <2>4. /\ unix_sockets[fd_table[g].data].peer = j
        /\ unix_sockets[fd_table[g].data].connected
    BY <2>2, <2>3 DEF UnixInv, WaitInv, Unix, UnixFds
  <2>5. Unix(g)' = unix_sockets[fd_table[g].data]
    BY <1>1, <1>2, <1>3, <2>3 DEF Unix, UsedUnix
  <2> QED BY <2>4, <2>5
<1>11. NoClientForgotten'
  <2> SUFFICES ASSUME NEW g \in UnixFds', NEW j \in UsedUnix', j = Unix(g)'.peer,
                      Unix(g)'.connected, unix_sockets'[j].listening
               PROVE  unix_sockets'[j].pending = g
    BY DEF NoClientForgotten
  <2>1. g \in UnixFds /\ Unix(g)' = unix_sockets[fd_table[g].data]
    BY <1>1, <1>2, <1>3 DEF Unix, UsedUnix
  <2>2. j # i /\ j \in UsedUnix /\ unix_sockets'[j] = unix_sockets[j]
    BY <1>1, <1>4
  <2> QED BY <2>1, <2>2 DEF UnixInv, NoClientForgotten, Unix
<1> QED BY <1>3, <1>6, <1>7, <1>8, <1>9, <1>10, <1>11 DEF UnixInv

\* The client that waits gets the new socket, and keeps its place in nobody's queue.
LEMMA AcceptEffect ==
    ASSUME UnixInv, Tidy, NEW f \in UnixFds, UnixAccept(f), FreeFds # {}
    PROVE  LET v == fd_table[f].data
               g == Unix(f).pending
               c == fd_table[g].data
               a == Lowest(FreeUnix)
           IN /\ v \in UsedUnix /\ c \in UsedUnix /\ a \in UnixSlots /\ a \notin UsedUnix
              /\ v # c /\ g \in UnixFds
              /\ unix_sockets[v].listening /\ unix_sockets[v].peer = NONE
              /\ unix_sockets[v].pending = g
              /\ unix_sockets[c].peer = v /\ unix_sockets[c].connected
              /\ ~unix_sockets[c].listening /\ ~unix_sockets[a].listening
              /\ a \notin bound /\ unix_sockets[a].queue = <<>>
              /\ unix_sockets' \in [UnixSlots -> SlotOK]
              /\ SameRoles /\ SameQueues
              /\ unix_sockets'[a].used /\ unix_sockets'[a].connected
              /\ unix_sockets'[a].peer = c /\ unix_sockets'[c].peer = a
              /\ unix_sockets'[v].pending = NONE
              /\ \A j \in UnixSlots \ {a} :
                    /\ unix_sockets'[j].used = unix_sockets[j].used
                    /\ unix_sockets'[j].connected = unix_sockets[j].connected
              /\ \A j \in UnixSlots \ {a, c} : unix_sockets'[j].peer = unix_sockets[j].peer
              /\ \A j \in UnixSlots \ {v} : unix_sockets'[j].pending = unix_sockets[j].pending
              /\ UsedUnix' = UsedUnix \cup {a}
              /\ fd_table' = Allocated("UNIX_SOCKET", a)
              /\ bound' = bound
<1> DEFINE v == fd_table[f].data
           g == Unix(f).pending
           c == fd_table[g].data
           a == Lowest(FreeUnix)
<1>1. /\ v \in UsedUnix /\ v \in UnixSlots /\ Unix(f) = unix_sockets[v]
      /\ unix_sockets[v].listening /\ unix_sockets[v].pending = g /\ IsUnix(g)
      /\ FreeUnix # {}
  BY OfUnixFd DEF UnixAccept, CanAccept, UsedUnix
<1>2. /\ g \in UnixFds /\ c \in UsedUnix /\ c \in UnixSlots /\ Unix(g) = unix_sockets[c]
  <2>1. g \in UnixFds
    BY <1>1 DEF UnixFds, IsUnix
  <2> QED BY <2>1, OfUnixFd DEF UsedUnix
<1>3. /\ a \in UnixSlots /\ a \notin UsedUnix /\ a \in FreeUnix
  BY <1>1, FreeUnixIn DEF FreeUnix
<1>4. unix_sockets \in [UnixSlots -> SlotOK]
  BY SlotTypes DEF UnixInv
<1>5. /\ unix_sockets' = [unix_sockets EXCEPT
              ![v].pending = NONE,
              ![a].used = TRUE, ![a].connected = TRUE, ![a].peer = c,
              ![c].peer = a]
      /\ fd_table' = Allocated("UNIX_SOCKET", a) /\ bound' = bound \ {a}
  BY DEF UnixAccept
<1> HIDE DEF v, g, c, a
<1>6. /\ unix_sockets[c].peer = v /\ unix_sockets[c].connected
  BY <1>1, <1>2 DEF UnixInv, WaitInv
<1>7. /\ unix_sockets[v].peer = NONE /\ ~unix_sockets[a].listening /\ a \notin bound
      /\ ~unix_sockets[c].listening /\ unix_sockets[a].queue = <<>>
  BY <1>1, <1>2, <1>3, <1>6, NoneIsNoSlot DEF UnixInv, ListenInv, EmptyInv
<1>8. v # c /\ v # a /\ c # a
  BY <1>1, <1>2, <1>3, <1>7
<1>9. unix_sockets' = [unix_sockets EXCEPT
            ![v] = [unix_sockets[v] EXCEPT !.pending = NONE],
            ![a] = [unix_sockets[a] EXCEPT !.used = TRUE, !.connected = TRUE, !.peer = c],
            ![c] = [unix_sockets[c] EXCEPT !.peer = a]]
  BY <1>1, <1>2, <1>3, <1>4, <1>5, <1>8
<1>10. unix_sockets' \in [UnixSlots -> SlotOK]
  <2>1. [unix_sockets[v] EXCEPT !.pending = NONE] \in SlotOK
    BY <1>1, <1>4 DEF SlotOK
  <2>2. [unix_sockets[a] EXCEPT !.used = TRUE, !.connected = TRUE, !.peer = c] \in SlotOK
    BY <1>2, <1>3, <1>4 DEF SlotOK
  <2>3. [unix_sockets[c] EXCEPT !.peer = a] \in SlotOK
    BY <1>2, <1>3, <1>4 DEF SlotOK
  <2> QED BY <1>1, <1>2, <1>3, <1>4, <1>9, <2>1, <2>2, <2>3
<1>11. /\ unix_sockets'[v] = [unix_sockets[v] EXCEPT !.pending = NONE]
       /\ unix_sockets'[a] = [unix_sockets[a] EXCEPT !.used = TRUE, !.connected = TRUE,
                                                     !.peer = c]
       /\ unix_sockets'[c] = [unix_sockets[c] EXCEPT !.peer = a]
       /\ \A j \in UnixSlots \ {v, a, c} : unix_sockets'[j] = unix_sockets[j]
  BY <1>1, <1>2, <1>3, <1>4, <1>8, <1>9
<1>12. unix_sockets[v] \in SlotOK /\ unix_sockets[a] \in SlotOK /\ unix_sockets[c] \in SlotOK
  BY <1>1, <1>2, <1>3, <1>4
<1>13. /\ SameRoles /\ SameQueues
       /\ \A j \in UnixSlots \ {a} :
             /\ unix_sockets'[j].used = unix_sockets[j].used
             /\ unix_sockets'[j].connected = unix_sockets[j].connected
       /\ \A j \in UnixSlots \ {a, c} : unix_sockets'[j].peer = unix_sockets[j].peer
       /\ \A j \in UnixSlots \ {v} : unix_sockets'[j].pending = unix_sockets[j].pending
  <2>1. /\ unix_sockets'[v].used = unix_sockets[v].used
        /\ unix_sockets'[v].connected = unix_sockets[v].connected
        /\ unix_sockets'[v].peer = unix_sockets[v].peer
        /\ unix_sockets'[v].listening = unix_sockets[v].listening
        /\ unix_sockets'[v].path = unix_sockets[v].path
        /\ unix_sockets'[v].queue = unix_sockets[v].queue
    BY <1>11, <1>12 DEF SlotOK
  <2>2. /\ unix_sockets'[a].listening = unix_sockets[a].listening
        /\ unix_sockets'[a].path = unix_sockets[a].path
        /\ unix_sockets'[a].queue = unix_sockets[a].queue
        /\ unix_sockets'[a].pending = unix_sockets[a].pending
    BY <1>11, <1>12 DEF SlotOK
  <2>3. /\ unix_sockets'[c].used = unix_sockets[c].used
        /\ unix_sockets'[c].connected = unix_sockets[c].connected
        /\ unix_sockets'[c].listening = unix_sockets[c].listening
        /\ unix_sockets'[c].path = unix_sockets[c].path
        /\ unix_sockets'[c].queue = unix_sockets[c].queue
        /\ unix_sockets'[c].pending = unix_sockets[c].pending
    BY <1>11, <1>12 DEF SlotOK
  <2>4. \A j \in UnixSlots \ {v, a, c} : unix_sockets'[j] = unix_sockets[j]
    BY <1>11
  <2>5. SameRoles
    BY <2>1, <2>2, <2>3, <2>4 DEF SameRoles
  <2>6. SameQueues
    BY <2>1, <2>2, <2>3, <2>4 DEF SameQueues
  <2> QED BY <2>1, <2>2, <2>3, <2>4, <2>5, <2>6
<1>14. /\ unix_sockets'[a].used /\ unix_sockets'[a].connected
       /\ unix_sockets'[a].peer = c /\ unix_sockets'[c].peer = a
       /\ unix_sockets'[v].pending = NONE
  BY <1>11, <1>12 DEF SlotOK
<1>15. UsedUnix' = UsedUnix \cup {a}
  BY <1>3, <1>13, <1>14 DEF UsedUnix
<1>16. bound' = bound
  BY <1>5, <1>7
<1> QED BY <1>1, <1>2, <1>3, <1>5, <1>6, <1>7, <1>8, <1>10, <1>13, <1>14, <1>15, <1>16,
           Zenon DEF v, g, c, a

LEMMA AcceptInv ==
    ASSUME UnixInv, Tidy, NEW f \in UnixFds, UnixAccept(f), FreeFds # {}
    PROVE  UnixInv'
<1> DEFINE v == fd_table[f].data
           g == Unix(f).pending
           c == fd_table[g].data
           a == Lowest(FreeUnix)
           n == Lowest(FreeFds)
<1>1. /\ v \in UsedUnix /\ c \in UsedUnix /\ a \in UnixSlots /\ a \notin UsedUnix
      /\ v # c /\ g \in UnixFds
      /\ unix_sockets[v].listening /\ unix_sockets[v].peer = NONE
      /\ unix_sockets[v].pending = g
      /\ unix_sockets[c].peer = v /\ unix_sockets[c].connected
      /\ ~unix_sockets[c].listening /\ ~unix_sockets[a].listening
      /\ a \notin bound /\ unix_sockets[a].queue = <<>>
      /\ unix_sockets' \in [UnixSlots -> SlotOK]
      /\ SameRoles /\ SameQueues
      /\ unix_sockets'[a].used /\ unix_sockets'[a].connected
      /\ unix_sockets'[a].peer = c /\ unix_sockets'[c].peer = a
      /\ unix_sockets'[v].pending = NONE
      /\ \A j \in UnixSlots \ {a} :
            /\ unix_sockets'[j].used = unix_sockets[j].used
            /\ unix_sockets'[j].connected = unix_sockets[j].connected
      /\ \A j \in UnixSlots \ {a, c} : unix_sockets'[j].peer = unix_sockets[j].peer
      /\ \A j \in UnixSlots \ {v} : unix_sockets'[j].pending = unix_sockets[j].pending
      /\ UsedUnix' = UsedUnix \cup {a}
      /\ fd_table' = Allocated("UNIX_SOCKET", a)
      /\ bound' = bound
  BY AcceptEffect
<1>2. /\ FdTypeOK' /\ UnixSlotsOwned'
      /\ UnixFds' = UnixFds \cup {n} /\ n \notin UnixFds /\ fd_table'[n].data = a
      /\ \A h \in UnixFds : fd_table'[h].data = fd_table[h].data
  BY <1>1, NewUnixFd
<1>3. \A h \in UnixFds : /\ fd_table[h].data \in UsedUnix
                         /\ fd_table[h].data = c => h = g
  BY <1>1, OfUnixFd
<1> HIDE DEF v, g, c, a, n
<1>4. /\ \A j \in UsedUnix : j \in UnixSlots /\ j # a /\ j # NONE
      /\ a # NONE /\ a # c
  BY <1>1, NoneIsNoSlot DEF UsedUnix
<1>5. \A h : IsUnix(h)' <=> h \in UnixFds'
  BY DEF UnixFds, IsUnix
<1>6. \A h : IsUnix(h) <=> h \in UnixFds
  BY DEF UnixFds, IsUnix
<1>7. UnixTypeOK' /\ EmptyInv'
  <2>1. UnixTypeOK'
    BY <1>1 DEF UnixInv, UnixTypeOK, SlotOK, SameQueues
  <2>2. EmptyInv'
    BY <1>1 DEF UnixInv, EmptyInv, FreeUnix, SameQueues
  <2> QED BY <2>1, <2>2
<1>8. ListenInv'
  BY <1>1, <1>4 DEF UnixInv, ListenInv, SameRoles
\* Nobody has the client, or the new slot, as its peer.
<1>9. \A j \in UsedUnix : unix_sockets[j].peer # c /\ unix_sockets[j].peer # a
  BY <1>1, <1>4 DEF UnixInv, LinkInv, Tidy, FreeUnix
<1>10. LinkInv'
  <2> SUFFICES ASSUME NEW j \in UsedUnix', NEW k, k = unix_sockets'[j].peer
               PROVE  /\ k = NONE => ~unix_sockets'[j].connected
                      /\ k # j
                      /\ k \in UsedUnix' => unix_sockets'[k].listening
                                            \/ unix_sockets'[k].peer = j
    BY DEF LinkInv
  <2>1. CASE j = a
    BY <1>1, <1>4, <2>1
  <2>2. CASE j = c
    BY <1>1, <1>4, <2>2
  <2>3. CASE j # a /\ j # c
    <3>1. /\ j \in UsedUnix /\ k = unix_sockets[j].peer /\ k # c /\ k # a
          /\ unix_sockets'[j].connected = unix_sockets[j].connected
      BY <1>1, <1>4, <1>9, <2>3
    <3>2. /\ k = NONE => ~unix_sockets[j].connected
          /\ k # j
          /\ k \in UsedUnix => unix_sockets[k].listening \/ unix_sockets[k].peer = j
      BY <3>1 DEF UnixInv, LinkInv
    <3> QED BY <1>1, <1>4, <3>1, <3>2 DEF SameRoles
  <2> QED BY <2>1, <2>2, <2>3
<1>11. WaitInv'
  <2>1. ASSUME NEW j \in UsedUnix', unix_sockets'[j].peer = NONE,
               ~unix_sockets'[j].listening
        PROVE  unix_sockets'[j].pending = NONE
    <3>1. j # a /\ j # c /\ j \in UsedUnix
      BY <1>1, <1>4, <2>1
    <3> QED BY <1>1, <1>4, <2>1, <3>1 DEF UnixInv, WaitInv, SameRoles
  <2> SUFFICES ASSUME NEW j \in UnixSlots, unix_sockets'[j].listening,
                      NEW h, h = unix_sockets'[j].pending, h \in UnixFds'
               PROVE  Unix(h)'.peer = j /\ Unix(h)'.connected
    BY <1>5, <2>1 DEF WaitInv
  <2>2. j # a /\ unix_sockets[j].listening /\ j \in UsedUnix
    BY <1>1 DEF SameRoles, UnixInv, ListenInv
  <2>3. j # v /\ h = unix_sockets[j].pending
    BY <1>1, <1>2, <1>4, <2>2, NoneIsNoSlot DEF UnixFds
  <2>4. h \in UnixFds
    BY <1>2, <2>2, <2>3, NoneIsNoSlot DEF Tidy, UnixFds
  <2>5. /\ unix_sockets[fd_table[h].data].peer = j
        /\ unix_sockets[fd_table[h].data].connected
    BY <1>6, <2>2, <2>3, <2>4 DEF UnixInv, WaitInv, Unix
  <2>6. fd_table[h].data # c /\ fd_table[h].data \in UsedUnix
    BY <1>1, <1>3, <2>3, <2>4, <2>5
  <2>7. Unix(h)' = unix_sockets'[fd_table[h].data]
    BY <1>2, <2>4 DEF Unix
  <2> QED BY <1>1, <1>4, <2>5, <2>6, <2>7
<1>12. NoClientForgotten'
  <2> SUFFICES ASSUME NEW h \in UnixFds', NEW i, i = fd_table'[h].data,
                      NEW j \in UsedUnix', j = unix_sockets'[i].peer,
                      unix_sockets'[i].connected, unix_sockets'[j].listening
               PROVE  unix_sockets'[j].pending = h
    BY DEF NoClientForgotten, Unix
  <2>1. j # a /\ j # c /\ j \in UsedUnix /\ unix_sockets[j].listening
    BY <1>1, <1>4 DEF SameRoles
  <2>2. i # c /\ i # a
    BY <1>1, <2>1
  <2>3. h \in UnixFds /\ i = fd_table[h].data /\ i \in UsedUnix
    BY <1>2, <1>3, <2>2
  <2>4. unix_sockets[i].peer = j /\ unix_sockets[i].connected
    BY <1>1, <1>4, <2>2, <2>3
  <2>5. unix_sockets[j].pending = h
    BY <2>1, <2>3, <2>4 DEF UnixInv, NoClientForgotten, Unix
  <2>6. j # v
    BY <1>1, <2>2, <2>3, <2>5 DEF c
  <2> QED BY <1>1, <1>4, <2>1, <2>5, <2>6
<1> QED BY <1>2, <1>7, <1>8, <1>10, <1>11, <1>12 DEF UnixInv

\* A socket is given up, and its partner hears of it.
LEMMA CloseEffect ==
    ASSUME UnixInv, NEW f \in UnixFds, UnixClose(f)
    PROVE  LET i == fd_table[f].data
               k == Unix(f).peer
           IN /\ i \in UsedUnix /\ i # k /\ k = unix_sockets[i].peer
              /\ unix_sockets' \in [UnixSlots -> SlotOK]
              /\ SameRoles /\ SameQueues
              /\ \A j \in UnixSlots :
                    /\ unix_sockets'[j].peer = unix_sockets[j].peer
                    /\ unix_sockets'[j].pending = unix_sockets[j].pending
                    /\ unix_sockets'[j].connected = (unix_sockets[j].connected /\ j # k)
                    /\ unix_sockets'[j].used = (unix_sockets[j].used /\ j # i)
              /\ UsedUnix' = UsedUnix \ {i}
              /\ fd_table' = [fd_table EXCEPT ![f] = Empty]
              /\ bound' = bound \ {i}
<1> DEFINE i == fd_table[f].data
           k == Unix(f).peer
           s == IF k \in UnixSlots THEN [unix_sockets EXCEPT ![k].connected = FALSE]
                ELSE unix_sockets
<1>1. /\ i \in UsedUnix /\ i \in UnixSlots /\ k = unix_sockets[i].peer /\ i # k
  BY OfUnixFd DEF UsedUnix, UnixInv, LinkInv
<1>2. unix_sockets \in [UnixSlots -> SlotOK]
  BY SlotTypes DEF UnixInv
<1>3. /\ unix_sockets' = [s EXCEPT ![i].used = FALSE]
      /\ fd_table' = [fd_table EXCEPT ![f] = Empty] /\ bound' = bound \ {i}
  BY DEF UnixClose
<1> HIDE DEF i, k
<1>4. /\ s \in [UnixSlots -> SlotOK]
      /\ \A j \in UnixSlots :
            /\ s[j].peer = unix_sockets[j].peer /\ s[j].pending = unix_sockets[j].pending
            /\ s[j].listening = unix_sockets[j].listening
            /\ s[j].path = unix_sockets[j].path /\ s[j].queue = unix_sockets[j].queue
            /\ s[j].used = unix_sockets[j].used
            /\ s[j].connected = (unix_sockets[j].connected /\ j # k)
  <2>1. CASE k \in UnixSlots
    <3>1. unix_sockets[k] \in SlotOK
      BY <1>2, <2>1
    <3>2. [unix_sockets[k] EXCEPT !.connected = FALSE] \in SlotOK
      BY <3>1 DEF SlotOK
    <3>3. /\ s \in [UnixSlots -> SlotOK]
          /\ s[k] = [unix_sockets[k] EXCEPT !.connected = FALSE]
          /\ \A j \in UnixSlots \ {k} : s[j] = unix_sockets[j]
      BY <1>2, <2>1, <3>2
    <3>4. /\ s[k].peer = unix_sockets[k].peer /\ s[k].pending = unix_sockets[k].pending
          /\ s[k].listening = unix_sockets[k].listening
          /\ s[k].path = unix_sockets[k].path /\ s[k].queue = unix_sockets[k].queue
          /\ s[k].used = unix_sockets[k].used
          /\ s[k].connected = FALSE
      BY <3>1, <3>3 DEF SlotOK
    <3>5. \A j \in UnixSlots : unix_sockets[j].connected \in BOOLEAN
      BY <1>2 DEF SlotOK
    <3> QED BY <3>3, <3>4, <3>5
  <2>2. CASE k \notin UnixSlots
    <3>1. \A j \in UnixSlots : unix_sockets[j].connected \in BOOLEAN
      BY <1>2 DEF SlotOK
    <3> QED BY <1>2, <2>2, <3>1
  <2> QED BY <2>1, <2>2
<1> HIDE DEF s
<1>5. /\ unix_sockets' \in [UnixSlots -> SlotOK]
      /\ unix_sockets'[i] = [s[i] EXCEPT !.used = FALSE]
      /\ \A j \in UnixSlots \ {i} : unix_sockets'[j] = s[j]
  <2>1. [s[i] EXCEPT !.used = FALSE] \in SlotOK
    BY <1>1, <1>4, ZenonT(60) DEF SlotOK
  <2> QED BY <1>1, <1>3, <1>4, <2>1
<1>6. s[i] \in SlotOK
  BY <1>1, <1>4
<1>7. /\ unix_sockets'[i].peer = s[i].peer /\ unix_sockets'[i].pending = s[i].pending
      /\ unix_sockets'[i].listening = s[i].listening
      /\ unix_sockets'[i].path = s[i].path /\ unix_sockets'[i].queue = s[i].queue
      /\ unix_sockets'[i].connected = s[i].connected
      /\ unix_sockets'[i].used = FALSE
  BY <1>5, <1>6 DEF SlotOK
<1>8. \A j \in UnixSlots : unix_sockets[j].used \in BOOLEAN
  BY <1>2 DEF SlotOK
<1>9. \A j \in UnixSlots :
            /\ unix_sockets'[j].peer = unix_sockets[j].peer
            /\ unix_sockets'[j].pending = unix_sockets[j].pending
            /\ unix_sockets'[j].connected = (unix_sockets[j].connected /\ j # k)
            /\ unix_sockets'[j].used = (unix_sockets[j].used /\ j # i)
  <2> SUFFICES ASSUME NEW j \in UnixSlots
               PROVE  /\ unix_sockets'[j].peer = unix_sockets[j].peer
                      /\ unix_sockets'[j].pending = unix_sockets[j].pending
                      /\ unix_sockets'[j].connected = (unix_sockets[j].connected /\ j # k)
                      /\ unix_sockets'[j].used = (unix_sockets[j].used /\ j # i)
    OBVIOUS
  <2>1. CASE j = i
    BY <1>4, <1>7, <2>1
  <2>2. CASE j # i
    BY <1>4, <1>5, <1>8, <2>2
  <2> QED BY <2>1, <2>2
<1>10. SameRoles /\ SameQueues
  <2> SUFFICES ASSUME NEW j \in UnixSlots
               PROVE  /\ unix_sockets'[j].listening = unix_sockets[j].listening
                      /\ unix_sockets'[j].path = unix_sockets[j].path
                      /\ unix_sockets'[j].queue = unix_sockets[j].queue
    BY DEF SameRoles, SameQueues
  <2>1. CASE j = i
    BY <1>4, <1>7, <2>1
  <2>2. CASE j # i
    BY <1>4, <1>5, <2>2
  <2> QED BY <2>1, <2>2
<1>11. UsedUnix' = UsedUnix \ {i}
  BY <1>8, <1>9 DEF UsedUnix
<1> QED BY <1>1, <1>3, <1>5, <1>9, <1>10, <1>11, Zenon DEF i, k

LEMMA CloseInv ==
    ASSUME UnixInv, NEW f \in UnixFds, UnixClose(f), Unix(f).queue = <<>>,
           ~Unix(f).listening
    PROVE  UnixInv'
<1> DEFINE i == fd_table[f].data
           k == Unix(f).peer
<1>1. /\ i \in UsedUnix /\ i # k /\ k = unix_sockets[i].peer
      /\ unix_sockets' \in [UnixSlots -> SlotOK]
      /\ SameRoles /\ SameQueues
      /\ \A j \in UnixSlots :
            /\ unix_sockets'[j].peer = unix_sockets[j].peer
            /\ unix_sockets'[j].pending = unix_sockets[j].pending
            /\ unix_sockets'[j].connected = (unix_sockets[j].connected /\ j # k)
            /\ unix_sockets'[j].used = (unix_sockets[j].used /\ j # i)
      /\ UsedUnix' = UsedUnix \ {i}
      /\ fd_table' = [fd_table EXCEPT ![f] = Empty]
      /\ bound' = bound \ {i}
  BY CloseEffect
<1>2. /\ f \in Fds /\ ~unix_sockets[i].listening /\ unix_sockets[i].queue = <<>>
      /\ \A g \in UnixFds : /\ fd_table[g].data \in UsedUnix
                            /\ fd_table[g].data = i => g = f
  BY OfUnixFd
<1> HIDE DEF i, k
<1>3. FdTypeOK' /\ fd_table'[f] = Empty /\ \A g \in Fds \ {f} : fd_table'[g] = fd_table[g]
  <2>1. fd_table \in [Fds -> [type : Types, data : Data]]
    BY DEF UnixInv, FdTypeOK
  <2>2. Empty \in [type : Types, data : Data]
    BY DEF Empty, Types, Data
  <2>3. fd_table' \in [Fds -> [type : Types, data : Data]]
    BY <1>1, <2>1, <2>2
  <2> QED BY <1>1, <1>2, <2>1, <2>3 DEF FdTypeOK, Types, Data
<1>4. /\ UnixFds' = UnixFds \ {f}
      /\ \A g \in UnixFds \ {f} : fd_table'[g] = fd_table[g]
      /\ \A g : IsUnix(g)' <=> g \in UnixFds'
      /\ \A g : IsUnix(g) <=> g \in UnixFds
  BY <1>2, <1>3 DEF UnixFds, IsUnix, Empty
<1>5. UnixSlotsOwned'
  BY <1>1, <1>2, <1>4 DEF UnixInv, UnixSlotsOwned
<1>6. UnixTypeOK'
  BY <1>1 DEF UnixInv, UnixTypeOK, SlotOK, SameQueues
<1>7. EmptyInv'
  BY <1>1, <1>2 DEF UnixInv, EmptyInv, FreeUnix, SameQueues, UsedUnix
<1>8. ListenInv'
  BY <1>1, <1>2 DEF UnixInv, ListenInv, SameRoles, UsedUnix
<1>9. LinkInv'
  BY <1>1 DEF UnixInv, LinkInv, SameRoles, UsedUnix
<1>10. WaitInv'
  <2>1. \A j \in UsedUnix' : unix_sockets'[j].peer = NONE /\ ~unix_sockets'[j].listening
                                => unix_sockets'[j].pending = NONE
    BY <1>1 DEF UnixInv, WaitInv, SameRoles, UsedUnix
  <2> SUFFICES ASSUME NEW j \in UnixSlots, unix_sockets'[j].listening,
                      NEW g, g = unix_sockets'[j].pending, g \in UnixFds'
               PROVE  Unix(g)'.peer = j /\ Unix(g)'.connected
    BY <1>4, <2>1 DEF WaitInv
  <2>2. /\ unix_sockets[j].listening /\ unix_sockets[j].pending = g /\ g \in UnixFds
        /\ fd_table'[g] = fd_table[g]
    BY <1>1, <1>4 DEF SameRoles
  <2> DEFINE c == fd_table[g].data
  <2>3. unix_sockets[c].peer = j /\ unix_sockets[c].connected /\ c \in UsedUnix
    BY <1>2, <1>4, <2>2 DEF UnixInv, WaitInv, Unix
  <2> HIDE DEF c
  <2>4. c # k
    <3> SUFFICES ASSUME c = k PROVE FALSE
      OBVIOUS
    <3>1. unix_sockets[k].listening \/ unix_sockets[k].peer = i
      BY <1>1, <2>3 DEF UnixInv, LinkInv
    <3>2. j # i /\ j # NONE
      BY <1>2, <2>2, NoneIsNoSlot
    <3> QED BY <2>3, <3>1, <3>2 DEF UnixInv, ListenInv, UsedUnix
  <2>5. Unix(g)' = unix_sockets'[c] /\ c \in UnixSlots
    BY <2>2, <2>3 DEF Unix, c, UsedUnix
  <2> QED BY <1>1, <2>3, <2>4, <2>5
<1>11. NoClientForgotten'
  <2> SUFFICES ASSUME NEW g \in UnixFds', NEW j \in UsedUnix', j = Unix(g)'.peer,
                      Unix(g)'.connected, unix_sockets'[j].listening
               PROVE  unix_sockets'[j].pending = g
    BY DEF NoClientForgotten
  <2>1. /\ g \in UnixFds /\ Unix(g)' = unix_sockets'[fd_table[g].data]
        /\ fd_table[g].data \in UnixSlots
    BY <1>2, <1>4 DEF Unix, UsedUnix
  <2>2. j \in UsedUnix /\ unix_sockets[j].listening
    BY <1>1 DEF SameRoles, UsedUnix
  <2>3. Unix(g).peer = j /\ Unix(g).connected
    BY <1>1, <2>1, ZenonT(60) DEF Unix
  <2> QED BY <1>1, <2>1, <2>2, <2>3 DEF UnixInv, NoClientForgotten, UsedUnix
<1> QED BY <1>3, <1>5, <1>6, <1>7, <1>8, <1>9, <1>10, <1>11 DEF UnixInv

\* As much as there is room for goes to the peer, which is there.
LEMMA SendEffect ==
    ASSUME UnixInv, NEW f \in UnixFds, NEW n \in Nat, NEW s \in [1 .. n -> Bytes],
           UnixSend(f, s)
    PROVE  LET to == Unix(f).peer IN
           \E m \in 0 .. UNIX_SOCKET_QUEUE - Len(unix_sockets[to].queue),
              q \in Seq(Bytes) :
              /\ SubSeq(s, 1, m) \in [1 .. m -> Bytes]
              /\ q = unix_sockets[to].queue \o SubSeq(s, 1, m)
              /\ m = 0 => q = unix_sockets[to].queue
              /\ to \in UsedUnix /\ unix_sockets[to].connected
              /\ UnixInv' /\ SameUse /\ SameLinks
              /\ \A j \in UnixSlots : unix_sockets'[j].queue = IF j = to THEN q
                                                              ELSE unix_sockets[j].queue
<1> DEFINE to == Unix(f).peer
           old == unix_sockets[to].queue
           m == Min({Len(s), UNIX_SOCKET_QUEUE - Len(old)})
           q == old \o SubSeq(s, 1, m)
<1>1. /\ to \in UsedUnix /\ unix_sockets[to].connected
      /\ unix_sockets' = [unix_sockets EXCEPT ![to].queue = q]
      /\ UNCHANGED <<fd_table, bound>>
  <2>1. /\ to \in UsedUnix /\ unix_sockets[to].connected
        /\ unix_sockets' = [unix_sockets EXCEPT ![to].queue =
                @ \o SubSeq(s, 1, Min({Len(s), UNIX_SOCKET_QUEUE - Len(@)}))]
        /\ UNCHANGED <<fd_table, bound>>
    BY DEF UnixSend
  <2>2. to \in UnixSlots /\ unix_sockets \in [UnixSlots -> SlotOK]
    BY <2>1, SlotTypes DEF UsedUnix, UnixInv
  <2> QED BY <2>1, <2>2
<1>2. old \in Seq(Bytes) /\ Len(old) <= UNIX_SOCKET_QUEUE
  BY <1>1, SlotTypes DEF UnixInv, UnixTypeOK, UsedUnix, SlotOK
<1>3. /\ m \in 0 .. UNIX_SOCKET_QUEUE - Len(old)
      /\ SubSeq(s, 1, m) \in [1 .. m -> Bytes]
      /\ q \in Seq(Bytes) /\ Len(q) <= UNIX_SOCKET_QUEUE /\ (m = 0 => q = old)
  BY <1>2, SentIs
<1>4. q = old \o SubSeq(s, 1, m)
  OBVIOUS
<1> HIDE DEF to, m, q
<1>5. /\ UnixInv' /\ SameUse /\ SameLinks
      /\ \A j \in UnixSlots : unix_sockets'[j].queue = IF j = to THEN q
                                                      ELSE unix_sockets[j].queue
  BY <1>1, <1>3, QueueInv
<1> QED BY <1>1, <1>3, <1>4, <1>5 DEF to

LEMMA RecvEffect ==
    ASSUME UnixInv, NEW f \in UnixFds, NEW n \in Nat, UnixRecv(f, n)
    PROVE  LET i == fd_table[f].data IN
           \E m \in 0 .. Len(unix_sockets[i].queue), q \in Seq(Bytes) :
              /\ q = SubSeq(unix_sockets[i].queue, m + 1, Len(unix_sockets[i].queue))
              /\ m = 0 => q = unix_sockets[i].queue
              /\ i \in UsedUnix /\ UnixInv' /\ SameUse /\ SameLinks
              /\ \A j \in UnixSlots : unix_sockets'[j].queue = IF j = i THEN q
                                                              ELSE unix_sockets[j].queue
<1> DEFINE i == fd_table[f].data
           old == unix_sockets[i].queue
           m == Min({n, Len(old)})
           q == SubSeq(old, m + 1, Len(old))
<1>1. /\ i \in UsedUnix
      /\ unix_sockets' = [unix_sockets EXCEPT ![i].queue = q]
      /\ UNCHANGED <<fd_table, bound>>
  <2>1. /\ unix_sockets' = [unix_sockets EXCEPT ![i].queue =
                SubSeq(@, Min({n, Len(@)}) + 1, Len(@))]
        /\ UNCHANGED <<fd_table, bound>>
    BY DEF UnixRecv
  <2>2. i \in UsedUnix /\ i \in UnixSlots /\ unix_sockets \in [UnixSlots -> SlotOK]
    BY OfUnixFd, SlotTypes DEF UsedUnix, UnixInv
  <2> QED BY <2>1, <2>2
<1>2. old \in Seq(Bytes) /\ Len(old) <= UNIX_SOCKET_QUEUE /\ UNIX_SOCKET_QUEUE \in Nat
  BY <1>1, SlotTypes, UnixSocketsAssumption
  DEF UnixInv, UnixTypeOK, UsedUnix, SlotOK, UnixSocketsAssumption
<1>3. /\ m \in 0 .. Len(old)
      /\ q \in Seq(Bytes) /\ Len(q) <= Len(old) /\ (m = 0 => q = old)
  BY <1>2, ReceivedIs
<1>4. q = SubSeq(old, m + 1, Len(old)) /\ Len(q) \in Nat /\ Len(old) \in Nat
  BY <1>2, <1>3, SMTT(60)
<1> HIDE DEF i, m, q
<1>5. /\ UnixInv' /\ SameUse /\ SameLinks
      /\ \A j \in UnixSlots : unix_sockets'[j].queue = IF j = i THEN q
                                                      ELSE unix_sockets[j].queue
  <2>1. Len(q) <= UNIX_SOCKET_QUEUE
    BY <1>2, <1>3, <1>4
  <2> QED BY <1>1, <1>3, <2>1, QueueInv
<1> QED BY <1>1, <1>3, <1>4, <1>5 DEF i
-----------------------------------------------------------------------------
(* AF_UNIX: the whole of what careful programs do.                         *)

CarefulCall(f) ==
    \/ \E p \in Paths : UnixBind(f, p)
    \/ UnixListen(f) /\ Unix(f).peer = NONE /\ fd_table[f].data \in bound
    \/ \E p \in Paths : /\ UnixConnect(f, p) /\ Unix(f).peer = NONE /\ ~Unix(f).listening
                        /\ \A i \in Listeners(p) : unix_sockets[i].pending = NONE
    \/ Tidy /\ UnixAccept(f) /\ FreeFds # {}
    \/ UnixAcceptNobody(f) /\ ~IsUnix(Unix(f).pending)
    \/ \E n \in Nat : UnixRecv(f, n)
    \/ \E n \in Nat : \E s \in [1 .. n -> Bytes] : UnixSend(f, s)
    \/ UnixClose(f) /\ Unix(f).queue = <<>> /\ ~Unix(f).listening

CarefulNext == (Tidy /\ UnixSocket) \/ \E f \in UnixFds : CarefulCall(f)

LEMMA UnixCases ==
    ASSUME Careful, UnixInv, UnixNext
    PROVE  CarefulNext
<1>1. \A h \in BadUnixHabits : \A bad : OnlyIf(h, bad) => ~bad
  BY DEF Careful, OnlyIf
<1>2. /\ "close unread" \in BadUnixHabits /\ "open over hang-up" \in BadUnixHabits
      /\ "close listener" \in BadUnixHabits /\ "listen unbound" \in BadUnixHabits
      /\ "listen connected" \in BadUnixHabits /\ "connect again" \in BadUnixHabits
      /\ "connect while pending" \in BadUnixHabits
      /\ "open over lost client" \in BadUnixHabits
      /\ "accept without room" \in BadUnixHabits
  BY DEF BadUnixHabits
<1>3. MayOpen => Tidy
  BY <1>1, <1>2 DEF MayOpen, HungUp, LostClient, Tidy
<1>4. CASE UnixOpen
  BY <1>3, <1>4 DEF UnixOpen, CarefulNext
<1>5. ASSUME NEW f \in UnixFds, UnixCalls(f) PROVE CarefulCall(f)
  <2>1. CASE \E p \in Paths : UnixBind(f, p)
    BY <2>1 DEF CarefulCall
  <2>2. CASE /\ OnlyIf("listen unbound", fd_table[f].data \notin bound)
             /\ OnlyIf("listen connected", Unix(f).peer # NONE)
             /\ UnixListen(f)
    BY <1>1, <1>2, <2>2 DEF CarefulCall
  <2>3. ASSUME NEW p \in Paths,
               OnlyIf("connect again", Unix(f).peer # NONE \/ Unix(f).listening),
               OnlyIf("connect while pending",
                      \E i \in Listeners(p) : unix_sockets[i].pending # NONE),
               UnixConnect(f, p)
        PROVE  CarefulCall(f)
    BY <1>1, <1>2, <2>3 DEF CarefulCall
  <2>4. CASE MayOpen /\ OnlyIf("accept without room", FreeFds = {}) /\ UnixAccept(f)
    BY <1>1, <1>2, <1>3, <2>4 DEF CarefulCall
  <2>5. CASE OnlyIf("accept without room", IsUnix(Unix(f).pending)) /\ UnixAcceptNobody(f)
    BY <1>1, <1>2, <2>5 DEF CarefulCall
  <2>6. CASE \E n \in Sizes : UnixRecv(f, n) \/ \E s \in [1 .. n -> Bytes] : UnixSend(f, s)
    BY <2>6, UnixSocketsAssumption DEF CarefulCall, UnixSocketsAssumption
  <2>7. CASE /\ OnlyIf("close unread", Unix(f).queue # <<>>)
             /\ OnlyIf("close listener", Unix(f).listening)
             /\ UnixClose(f)
    BY <1>1, <1>2, <2>7 DEF CarefulCall
  <2> QED BY <1>5, <2>1, <2>2, <2>3, <2>4, <2>5, <2>6, <2>7 DEF UnixCalls
<1> QED BY <1>4, <1>5 DEF UnixNext, CarefulNext

LEMMA UnixInitInv ==
    ASSUME fd_table = [f \in Fds |-> Empty], UnixInit
    PROVE  UnixInv
<1>1. /\ unix_sockets \in [UnixSlots -> SlotOK]
      /\ \A i \in UnixSlots : /\ ~unix_sockets[i].used /\ ~unix_sockets[i].listening
                              /\ unix_sockets[i].queue = <<>>
      /\ bound = {}
  <2>1. [queue |-> <<>>, peer |-> 0, pending |-> 0, used |-> FALSE,
         listening |-> FALSE, connected |-> FALSE, path |-> Null] \in SlotOK
    BY UnixSocketsAssumption DEF SlotOK, UnixSlots, UnixSocketsAssumption
  <2> QED BY <2>1 DEF UnixInit
<1>2. UsedUnix = {} /\ UnixFds = {} /\ FdTypeOK
  BY <1>1 DEF UsedUnix, UnixFds, IsUnix, FdTypeOK, Empty, Types, Data
<1>3. UnixTypeOK /\ EmptyInv
  BY <1>1, UnixSocketsAssumption DEF UnixTypeOK, SlotOK, EmptyInv, FreeUnix,
     UnixSocketsAssumption
<1>4. UnixSlotsOwned
  BY <1>2 DEF UnixSlotsOwned
<1>5. ListenInv /\ LinkInv /\ WaitInv /\ NoClientForgotten
  BY <1>1, <1>2 DEF ListenInv, LinkInv, WaitInv, NoClientForgotten
<1> QED BY <1>2, <1>3, <1>4, <1>5 DEF UnixInv

LEMMA UnixStep ==
    ASSUME Careful, UnixInv, UnixNext
    PROVE  UnixInv'
<1>1. CarefulNext
  BY UnixCases
<1>2. CASE Tidy /\ UnixSocket
  BY <1>2, SocketInv
<1>3. ASSUME NEW f \in UnixFds, CarefulCall(f) PROVE UnixInv'
  <2>1. ASSUME NEW p \in Paths, UnixBind(f, p) PROVE UnixInv'
    BY <2>1, BindInv
  <2>2. CASE UnixListen(f) /\ Unix(f).peer = NONE /\ fd_table[f].data \in bound
    BY <2>2, ListenKeepsInv
  <2>3. ASSUME NEW p \in Paths, UnixConnect(f, p), Unix(f).peer = NONE,
               ~Unix(f).listening, \A i \in Listeners(p) : unix_sockets[i].pending = NONE
        PROVE  UnixInv'
    BY <2>3, ConnectInv
  <2>4. CASE Tidy /\ UnixAccept(f) /\ FreeFds # {}
    BY <2>4, AcceptInv
  <2>5. CASE UnixAcceptNobody(f) /\ ~IsUnix(Unix(f).pending)
    BY <2>5, AcceptNobodyInv
  <2>6. ASSUME NEW n \in Nat, UnixRecv(f, n) PROVE UnixInv'
    BY <2>6, RecvEffect
  <2>7. ASSUME NEW n \in Nat, NEW s \in [1 .. n -> Bytes], UnixSend(f, s) PROVE UnixInv'
    BY <2>7, SendEffect
  <2>8. CASE UnixClose(f) /\ Unix(f).queue = <<>> /\ ~Unix(f).listening
    BY <2>8, CloseInv
  <2> QED BY <1>3, <2>1, <2>2, <2>3, <2>4, <2>5, <2>6, <2>7, <2>8 DEF CarefulCall
<1> QED BY <1>1, <1>2, <1>3 DEF CarefulNext

-----------------------------------------------------------------------------
(* AF_UNIX: every call is a step of the streams, or none.                  *)

\* The refinement mapping, as in Stream.
partners == [i \in UnixSlots |-> Partner(i)]
askers == {i \in UsedUnix : unix_sockets[i].connected /\ Partner(i) = NONE}
inboxes ==
    [i \in UnixSlots |-> IF unix_sockets[i].used THEN unix_sockets[i].queue ELSE <<>>]

StreamStep == Stream!Next \/ UNCHANGED <<partners, askers, inboxes>>

LEMMA PartnerIs ==
    ASSUME NEW i \in UnixSlots, NEW j \in UnixSlots
    PROVE  /\ Partner(i) = j <=> /\ i \in UsedUnix /\ unix_sockets[i].peer = j
                                 /\ j \in UsedUnix \ {i} /\ unix_sockets[j].peer = i
           /\ Partner(i) \in UnixSlots \cup {NONE}
  BY NoneIsNoSlot DEF Partner, UsedUnix

\* Calls that change no peer and no connected.
LEMMA SamePartners ==
    ASSUME SameUse, SameLinks
    PROVE  /\ UsedUnix' = UsedUnix /\ partners' = partners /\ askers' = askers
           /\ SameQueues => inboxes' = inboxes
<1>1. UsedUnix' = UsedUnix
  BY DEF SameUse, UsedUnix
<1>2. ASSUME NEW i \in UnixSlots PROVE Partner(i)' = Partner(i)
  BY <1>1 DEF Partner, SameUse, SameLinks
<1>3. partners' = partners
  BY <1>2 DEF partners
<1>4. askers' = askers
  BY <1>1, <1>2 DEF askers, SameLinks, UsedUnix
<1>5. SameQueues => inboxes' = inboxes
  BY <1>1 DEF inboxes, SameQueues, UsedUnix
<1> QED BY <1>1, <1>3, <1>4, <1>5

LEMMA StreamSocket ==
    ASSUME UnixInv, Tidy, UnixSocket
    PROVE  UNCHANGED <<partners, askers, inboxes>>
<1> DEFINE i == Lowest(FreeUnix)
<1>1. /\ i \in UnixSlots /\ i \notin UsedUnix
      /\ \A j \in UnixSlots \ {i} : unix_sockets'[j] = unix_sockets[j]
      /\ ~unix_sockets'[i].connected
      /\ unix_sockets'[i].peer = NONE
      /\ unix_sockets'[i].queue = unix_sockets[i].queue
      /\ (UsedUnix' = UsedUnix \/ UsedUnix' = UsedUnix \cup {i})
  BY SocketEffect
<1> HIDE DEF i
<1>2. \A j \in UsedUnix : unix_sockets[j].peer # i
  BY <1>1 DEF Tidy, FreeUnix
<1>3. ASSUME NEW j \in UnixSlots PROVE Partner(j)' = Partner(j)
  <2>1. CASE j = i
    BY <1>1, <2>1, NoneIsNoSlot DEF Partner, UsedUnix
  <2>2. CASE j # i /\ j \in UsedUnix
    BY <1>1, <1>2, <2>2 DEF Partner, UsedUnix
  <2>3. CASE j # i /\ j \notin UsedUnix
    BY <1>1, <2>3 DEF Partner, UsedUnix
  <2> QED BY <2>1, <2>2, <2>3
<1>4. askers' = askers
  BY <1>1, <1>3 DEF askers, UsedUnix
<1>5. inboxes' = inboxes
  <2>1. unix_sockets[i].queue = <<>>
    BY <1>1 DEF UnixInv, EmptyInv, FreeUnix
  <2>2. ASSUME NEW j \in UnixSlots
        PROVE  (IF j \in UsedUnix' THEN unix_sockets'[j].queue ELSE <<>>)
                    = IF j \in UsedUnix THEN unix_sockets[j].queue ELSE <<>>
    BY <1>1, <2>1
  <2> QED BY <2>2 DEF inboxes, UsedUnix
<1> QED BY <1>3, <1>4, <1>5 DEF partners

LEMMA StreamConnect ==
    ASSUME UnixInv, NEW f \in UnixFds, NEW p \in Paths, UnixConnect(f, p),
           Unix(f).peer = NONE, ~Unix(f).listening,
           \A i \in Listeners(p) : unix_sockets[i].pending = NONE
    PROVE  \E e \in UnixSlots : Stream!Ask(e)
<1>1. PICK c, v :
      /\ c = fd_table[f].data
      /\ c \in UsedUnix /\ v \in UsedUnix /\ c # v
      /\ unix_sockets[v].listening
      /\ SameUse /\ SameQueues
      /\ unix_sockets'[c].peer = v /\ unix_sockets'[c].connected
      /\ \A j \in UnixSlots \ {c} : /\ unix_sockets'[j].peer = unix_sockets[j].peer
                                    /\ unix_sockets'[j].connected = unix_sockets[j].connected
  BY ConnectEffect
<1>2. unix_sockets[c].peer = NONE /\ c \in UnixSlots /\ v \in UnixSlots
  BY <1>1 DEF Unix, UsedUnix
<1>3. unix_sockets[v].peer = NONE /\ ~unix_sockets[c].connected /\ UsedUnix' = UsedUnix
  BY <1>1, <1>2 DEF UnixInv, ListenInv, LinkInv, SameUse, UsedUnix
<1>4. ASSUME NEW j \in UnixSlots
      PROVE  Partner(j)' = Partner(j) /\ (j = c => Partner(j) = NONE)
  <2>1. CASE j = c
    BY <1>1, <1>2, <1>3, <2>1, NoneIsNoSlot DEF Partner, UsedUnix
  <2>2. CASE j # c
    <3>1. unix_sockets'[j].peer = unix_sockets[j].peer
      BY <1>1, <2>2
    <3>2. CASE unix_sockets[j].peer = c
      <4>1. Partner(j) = NONE
        BY <1>2, <3>2, NoneIsNoSlot DEF Partner, UsedUnix
      <4>2. j # v /\ c # NONE
        BY <1>2, <1>3, <3>2, NoneIsNoSlot
      <4>3. Partner(j)' = NONE
        BY <1>1, <3>1, <3>2, <4>2 DEF Partner, UsedUnix
      <4> QED BY <2>2, <4>1, <4>3
    <3>3. CASE unix_sockets[j].peer # c
      BY <1>1, <1>3, <2>2, <3>1, <3>3 DEF Partner, UsedUnix
    <3> QED BY <3>2, <3>3
  <2> QED BY <2>1, <2>2
<1>5. partners' = partners /\ partners[c] = NONE
  BY <1>2, <1>4 DEF partners
<1>6. c \notin askers /\ askers' = askers \cup {c}
  BY <1>1, <1>2, <1>3, <1>4 DEF askers, UsedUnix
<1>7. inboxes' = inboxes
  BY <1>1, <1>3 DEF inboxes, SameQueues, UsedUnix
<1>8. Stream!Ask(c)
  BY <1>5, <1>6, <1>7 DEF Stream!Ask, Stream!Partnered, partners, askers, inboxes
<1> QED BY <1>2, <1>8

LEMMA StreamAccept ==
    ASSUME UnixInv, Tidy, NEW f \in UnixFds, UnixAccept(f), FreeFds # {}
    PROVE  \E e \in askers, a \in UnixSlots : Stream!Join(e, a)
<1>1. PICK v, c, a :
      /\ v \in UsedUnix /\ c \in UsedUnix /\ a \in UnixSlots /\ a \notin UsedUnix
      /\ unix_sockets[v].peer = NONE /\ unix_sockets[v].listening
      /\ unix_sockets[c].peer = v /\ unix_sockets[c].connected
      /\ ~unix_sockets[c].listening
      /\ unix_sockets[a].queue = <<>> /\ SameQueues
      /\ unix_sockets'[a].peer = c /\ unix_sockets'[c].peer = a
      /\ \A j \in UnixSlots \ {a} : unix_sockets'[j].connected = unix_sockets[j].connected
      /\ \A j \in UnixSlots \ {a, c} : unix_sockets'[j].peer = unix_sockets[j].peer
      /\ UsedUnix' = UsedUnix \cup {a}
  BY AcceptEffect
<1>2. /\ \A j \in UsedUnix : j \in UnixSlots /\ j # a /\ j # NONE
      /\ a # NONE /\ a # c
  BY <1>1, NoneIsNoSlot DEF UsedUnix
<1>3. \A j \in UsedUnix : unix_sockets[j].peer # c /\ unix_sockets[j].peer # a
  BY <1>1, <1>2 DEF UnixInv, LinkInv, Tidy, FreeUnix
<1>4. /\ Partner(a) = NONE /\ Partner(c) = NONE /\ Partner(a)' = c /\ Partner(c)' = a
      /\ a # NONE /\ c # NONE
  BY <1>1, <1>2, NoneIsNoSlot DEF Partner, UsedUnix
<1>5. ASSUME NEW j \in UnixSlots \ {a, c} PROVE Partner(j)' = Partner(j)
  <2>1. CASE j \in UsedUnix
    BY <1>1, <1>2, <1>3, <2>1 DEF Partner, UsedUnix
  <2>2. CASE j \notin UsedUnix
    BY <1>1, <2>2 DEF Partner, UsedUnix
  <2> QED BY <2>1, <2>2
<1>6. /\ partners' = [partners EXCEPT ![c] = a, ![a] = c]
      /\ partners[a] = NONE
  BY <1>1, <1>2, <1>4, <1>5 DEF partners
<1>7. c \in askers /\ a \notin askers /\ askers' = askers \ {c}
  <2>1. c \in askers /\ a \notin askers
    BY <1>1, <1>4 DEF askers
  <2>2. c \notin askers' /\ a \notin askers'
    BY <1>4 DEF askers
  <2>3. ASSUME NEW j \in UnixSlots \ {a, c} PROVE j \in askers' <=> j \in askers
    BY <1>1, <1>5 DEF askers
  <2>4. askers \subseteq UnixSlots /\ askers' \subseteq UnixSlots
    BY DEF askers, UsedUnix
  <2> QED BY <2>1, <2>2, <2>3, <2>4
<1>8. inboxes' = inboxes
  <2>1. ASSUME NEW j \in UnixSlots
        PROVE  (IF j \in UsedUnix' THEN unix_sockets'[j].queue ELSE <<>>)
                    = IF j \in UsedUnix THEN unix_sockets[j].queue ELSE <<>>
    BY <1>1 DEF SameQueues
  <2> QED BY <2>1 DEF inboxes, UsedUnix
<1>9. Stream!Join(c, a)
  BY <1>6, <1>7, <1>8 DEF Stream!Join, Stream!Partnered, partners, askers, inboxes
<1> QED BY <1>1, <1>7, <1>9

LEMMA StreamSend ==
    ASSUME UnixInv, NEW f \in UnixFds, NEW n \in Nat, NEW s \in [1 .. n -> Bytes],
           UnixSend(f, s)
    PROVE  (\E e \in UnixSlots : Stream!Send(e)) \/ UNCHANGED <<partners, askers, inboxes>>
<1> DEFINE to == Unix(f).peer
<1>1. PICK i : i \in UsedUnix /\ i \in UnixSlots /\ to = unix_sockets[i].peer
  BY OfUnixFd DEF UsedUnix
<1>2. PICK m \in 0 .. UNIX_SOCKET_QUEUE - Len(unix_sockets[to].queue), q \in Seq(Bytes) :
      /\ SubSeq(s, 1, m) \in [1 .. m -> Bytes]
      /\ q = unix_sockets[to].queue \o SubSeq(s, 1, m)
      /\ m = 0 => q = unix_sockets[to].queue
      /\ to \in UsedUnix /\ unix_sockets[to].connected
      /\ SameUse /\ SameLinks
      /\ \A j \in UnixSlots : unix_sockets'[j].queue = IF j = to THEN q
                                                      ELSE unix_sockets[j].queue
  BY SendEffect, ZenonT(60)
<1> HIDE DEF to
<1>3. to \in UnixSlots
  BY <1>2 DEF UsedUnix
<1>4. UsedUnix' = UsedUnix /\ partners' = partners /\ askers' = askers
  BY <1>2, SamePartners
<1>5. CASE m = 0
  <2>1. SameQueues
    BY <1>2, <1>5 DEF SameQueues
  <2> QED BY <1>2, <2>1, SamePartners
<1>6. CASE m # 0
  \* Who is connected does not listen, so that the peer is the partner.
  <2>1. Partner(i) = to
    <3>1. unix_sockets[to].peer # NONE
      BY <1>2 DEF UnixInv, LinkInv
    <3>2. ~unix_sockets[to].listening
      BY <1>3, <3>1 DEF UnixInv, ListenInv
    <3>3. unix_sockets[to].peer = i /\ i # to
      BY <1>1, <1>2, <3>2 DEF UnixInv, LinkInv
    <3> QED BY <1>1, <1>2, <1>3, <3>3, PartnerIs
  <2>2. partners[i] = to /\ to # NONE /\ inboxes[to] = unix_sockets[to].queue
    <3>1. unix_sockets[to].used
      BY <1>2 DEF UsedUnix
    <3> QED BY <1>1, <1>3, <2>1, <3>1, NoneIsNoSlot DEF partners, inboxes
  <2>3. inboxes' = [inboxes EXCEPT ![to] = @ \o SubSeq(s, 1, m)]
    BY <1>2, <1>3, <1>4 DEF inboxes, UsedUnix
  <2>4. m \in 1 .. UNIX_SOCKET_QUEUE - Len(inboxes[to])
    BY <1>2, <1>6, <2>2
  <2>5. \E l \in 1 .. UNIX_SOCKET_QUEUE - Len(inboxes[to]) : \E x \in [1 .. l -> Bytes] :
            inboxes' = [inboxes EXCEPT ![to] = @ \o x]
    BY <1>2, <2>3, <2>4
  <2>6. Stream!Send(i)
    BY <1>4, <2>2, <2>5 DEF Stream!Send, Stream!Partnered, partners, askers, inboxes
  <2> QED BY <1>1, <2>6
<1> QED BY <1>5, <1>6

LEMMA StreamRecv ==
    ASSUME UnixInv, NEW f \in UnixFds, NEW n \in Nat, UnixRecv(f, n)
    PROVE  (\E e \in UnixSlots : Stream!Receive(e)) \/ UNCHANGED <<partners, askers, inboxes>>
<1>1. PICK i : i = fd_table[f].data
  OBVIOUS
<1>2. PICK m \in 0 .. Len(unix_sockets[i].queue), q \in Seq(Bytes) :
      /\ q = SubSeq(unix_sockets[i].queue, m + 1, Len(unix_sockets[i].queue))
      /\ m = 0 => q = unix_sockets[i].queue
      /\ i \in UsedUnix /\ SameUse /\ SameLinks
      /\ \A j \in UnixSlots : unix_sockets'[j].queue = IF j = i THEN q
                                                      ELSE unix_sockets[j].queue
  BY <1>1, RecvEffect
<1>3. i \in UnixSlots
  BY <1>2 DEF UsedUnix
<1>4. UsedUnix' = UsedUnix /\ partners' = partners /\ askers' = askers
  BY <1>2, SamePartners
<1>5. CASE m = 0
  <2>1. SameQueues
    BY <1>2, <1>5 DEF SameQueues
  <2> QED BY <1>2, <2>1, SamePartners
<1>6. CASE m # 0
  <2>1. inboxes[i] = unix_sockets[i].queue
    BY <1>2, <1>3 DEF inboxes, UsedUnix
  <2>2. inboxes' = [inboxes EXCEPT ![i] = SubSeq(@, m + 1, Len(@))]
    BY <1>2, <1>3, <1>4 DEF inboxes, UsedUnix
  <2>3. m \in 1 .. Len(inboxes[i])
    BY <1>2, <1>6, <2>1
  <2>4. Stream!Receive(i)
    BY <1>4, <2>2, <2>3 DEF Stream!Receive, partners, askers, inboxes
  <2> QED BY <1>3, <2>4
<1> QED BY <1>5, <1>6

LEMMA StreamClose ==
    ASSUME UnixInv, NEW f \in UnixFds, UnixClose(f), Unix(f).queue = <<>>,
           ~Unix(f).listening
    PROVE  \E e \in UnixSlots : Stream!Close(e)
<1>1. PICK i, k :
      /\ i \in UsedUnix /\ i = fd_table[f].data /\ i # k /\ k = unix_sockets[i].peer
      /\ SameQueues
      /\ \A j \in UnixSlots :
            /\ unix_sockets'[j].peer = unix_sockets[j].peer
            /\ unix_sockets'[j].connected = (unix_sockets[j].connected /\ j # k)
      /\ UsedUnix' = UsedUnix \ {i}
  BY CloseEffect
<1>2. /\ \A j \in UsedUnix : j \in UnixSlots /\ j # NONE
      /\ i \in UnixSlots /\ ~unix_sockets[i].listening
  BY <1>1, NoneIsNoSlot DEF UsedUnix, Unix
\* Nobody but the peer has this socket as its own.
<1>3. \A j \in UsedUnix : unix_sockets[j].peer = i => j = k
  BY <1>1, <1>2 DEF UnixInv, LinkInv
<1>4. k \in UsedUnix /\ unix_sockets[k].connected => Partner(k) = i
  <2>1. ASSUME k \in UsedUnix, unix_sockets[k].connected
        PROVE  unix_sockets[k].peer = i
    <3>1. unix_sockets[k].peer # NONE
      BY <2>1 DEF UnixInv, LinkInv
    <3>2. ~unix_sockets[k].listening
      BY <1>2, <2>1, <3>1 DEF UnixInv, ListenInv
    <3> QED BY <1>1, <2>1, <3>2 DEF UnixInv, LinkInv
  <2> QED BY <1>1, <1>2, <2>1, PartnerIs
<1>5. ASSUME NEW j \in UnixSlots
      PROVE  Partner(j)' = IF i \in {j, Partner(j)} THEN NONE ELSE Partner(j)
  <2>1. CASE j = i \/ j \notin UsedUnix
    BY <1>1, <1>2, <2>1 DEF Partner, UsedUnix
  <2>2. CASE j # i /\ j \in UsedUnix
    <3>1. unix_sockets'[j].peer = unix_sockets[j].peer
      BY <1>1
    <3>2. CASE unix_sockets[j].peer = i
      <4>1. Partner(j)' = NONE
        BY <1>1, <3>1, <3>2 DEF Partner, UsedUnix
      <4>2. Partner(j) \in {i, NONE}
        BY <3>2 DEF Partner, UsedUnix
      <4> QED BY <4>1, <4>2
    <3>3. CASE unix_sockets[j].peer # i
      <4>1. Partner(j)' = Partner(j)
        BY <1>1, <1>2, <2>2, <3>1, <3>3 DEF Partner, UsedUnix
      <4>2. Partner(j) # i
        BY <1>2, <3>3, PartnerIs
      <4> QED BY <2>2, <4>1, <4>2
    <3> QED BY <3>2, <3>3
  <2> QED BY <2>1, <2>2
<1>6. partners' = [j \in UnixSlots |-> IF i \in {j, partners[j]} THEN NONE ELSE partners[j]]
  BY <1>5 DEF partners
<1>7. i \notin askers' /\ askers' = askers \ {i}
  <2>1. i \notin askers'
    BY <1>1 DEF askers
  <2>2. ASSUME NEW j \in UnixSlots \ {i} PROVE j \in askers' <=> j \in askers
    <3>1. CASE j = k
      BY <1>1, <1>2, <1>4, <3>1 DEF askers
    <3>2. CASE j # k
      <4>1. Partner(j) # i
        BY <1>2, <1>3, <3>2, PartnerIs
      <4>2. Partner(j)' = Partner(j)
        BY <1>5, <4>1
      <4> QED BY <1>1, <3>2, <4>2 DEF askers
    <3> QED BY <3>1, <3>2
  <2>3. askers \subseteq UnixSlots /\ askers' \subseteq UnixSlots
    BY DEF askers, UsedUnix
  <2> QED BY <2>1, <2>2, <2>3
<1>8. inboxes' = [inboxes EXCEPT ![i] = <<>>]
  BY <1>1, <1>2 DEF inboxes, SameQueues, UsedUnix
<1>9. Stream!Close(i)
  BY <1>6, <1>7, <1>8 DEF Stream!Close, partners, askers, inboxes
<1> QED BY <1>2, <1>9

LEMMA UnixRefines ==
    ASSUME Careful, UnixInv, UnixNext
    PROVE  StreamStep
<1>1. CarefulNext
  BY UnixCases
<1>2. ASSUME Tidy, UnixSocket PROVE StreamStep
  BY <1>2, StreamSocket DEF StreamStep
<1>3. ASSUME NEW f \in UnixFds, CarefulCall(f) PROVE StreamStep
  <2>1. ASSUME NEW p \in Paths, UnixBind(f, p) PROVE StreamStep
    BY <2>1, BindInv, SamePartners DEF StreamStep
  <2>2. CASE UnixListen(f) /\ Unix(f).peer = NONE /\ fd_table[f].data \in bound
    BY <2>2, ListenKeepsInv, SamePartners DEF StreamStep
  <2>3. ASSUME NEW p \in Paths, UnixConnect(f, p), Unix(f).peer = NONE,
               ~Unix(f).listening, \A i \in Listeners(p) : unix_sockets[i].pending = NONE
        PROVE  StreamStep
    BY <2>3, StreamConnect DEF StreamStep, Stream!Next
  <2>4. CASE Tidy /\ UnixAccept(f) /\ FreeFds # {}
    BY <2>4, StreamAccept DEF StreamStep, Stream!Next, askers
  <2>5. CASE UnixAcceptNobody(f) /\ ~IsUnix(Unix(f).pending)
    BY <2>5, AcceptNobodyInv, SamePartners DEF StreamStep
  <2>6. ASSUME NEW n \in Nat, UnixRecv(f, n) PROVE StreamStep
    BY <2>6, StreamRecv DEF StreamStep, Stream!Next
  <2>7. ASSUME NEW n \in Nat, NEW s \in [1 .. n -> Bytes], UnixSend(f, s) PROVE StreamStep
    BY <2>7, StreamSend DEF StreamStep, Stream!Next
  <2>8. CASE UnixClose(f) /\ Unix(f).queue = <<>> /\ ~Unix(f).listening
    BY <2>8, StreamClose DEF StreamStep, Stream!Next
  <2> QED BY <1>3, <2>1, <2>2, <2>3, <2>4, <2>5, <2>6, <2>7, <2>8 DEF CarefulCall
<1> QED BY <1>1, <1>2, <1>3 DEF CarefulNext

\* Two listeners at one path would both have been bound to it.
LEMMA OneListenerHolds ==
    ASSUME UnixInv
    PROVE  OneListener
<1> SUFFICES ASSUME NEW p \in Paths
             PROVE  Cardinality(Listeners(p)) <= 1 /\ Listeners(p) \subseteq bound
  BY DEF OneListener
<1>1. /\ Listeners(p) \subseteq bound
      /\ \A i, j \in Listeners(p) : i = j
  BY DEF UnixInv, ListenInv, Listeners, UsedUnix
<1>2. CASE Listeners(p) = {}
  <2>1. Cardinality(Listeners(p)) = 0
    BY <1>2, FS_EmptySet, Zenon
  <2> QED BY <1>1, <2>1
<1>3. CASE Listeners(p) # {}
  <2>1. PICK i : Listeners(p) = {i}
    BY <1>1, <1>3
  <2>2. Cardinality(Listeners(p)) = 1
    BY <2>1, FS_Singleton, Zenon
  <2> QED BY <1>1, <2>2
<1> QED BY <1>2, <1>3

\* The other sockets leave these alone.
LEMMA UnixUndisturbed ==
    ASSUME UnixInv, UNCHANGED <<unix_sockets, bound>>, FdTypeOK', UnixFds' = UnixFds,
           \A f \in UnixFds : fd_table'[f] = fd_table[f]
    PROVE  UnixInv' /\ UNCHANGED <<partners, askers, inboxes>>
<1>1. \A f : IsUnix(f)' = IsUnix(f)
  BY DEF UnixFds, IsUnix
<1>2. UsedUnix' = UsedUnix /\ FreeUnix' = FreeUnix
  BY DEF UsedUnix, FreeUnix
<1>3. UnixTypeOK' /\ EmptyInv' /\ ListenInv' /\ LinkInv'
  BY <1>2 DEF UnixInv, UnixTypeOK, EmptyInv, ListenInv, LinkInv
<1>4. UnixSlotsOwned'
  BY <1>2 DEF UnixInv, UnixSlotsOwned
<1>5. \A f \in UnixFds : Unix(f)' = Unix(f)
  BY DEF Unix
<1>6. WaitInv'
  <2>1. \A f : IsUnix(f) => f \in UnixFds
    BY DEF UnixFds, IsUnix
  <2> QED BY <1>1, <1>2, <1>5, <2>1 DEF UnixInv, WaitInv
<1>7. NoClientForgotten'
  BY <1>2, <1>5 DEF UnixInv, NoClientForgotten
<1>8. UNCHANGED <<partners, askers, inboxes>>
  BY <1>2, SamePartners DEF SameUse, SameLinks, SameQueues
<1> QED BY <1>3, <1>4, <1>6, <1>7, <1>8 DEF UnixInv
-----------------------------------------------------------------------------
(* AF_INET: the invariant.                                                 *)

AutomaticPorts == Automatic(3) .. Automatic(MAX_FD - 1)

InetSlotOK ==
    [datagrams : [Cells -> Datagrams \cup {Null}], head : Cells, tail : Cells,
     count : 0 .. INET_DATAGRAM_COUNT, address : Addresses, port : Nat,
     peer : [address : Addresses, port : Ports] \cup {Null}, used : BOOLEAN]

\* The cell k behind h.
At(h, k) ==
    IF h + k < INET_DATAGRAM_COUNT THEN h + k ELSE h + k - INET_DATAGRAM_COUNT

\* The ring of the slot s holds m, and tail is behind it.
Holds(s, m) == Contents(s) = m /\ s.tail = At(s.head, s.count)

RingInv ==
    \A i \in InetSlots : /\ Holds(inet_sockets[i], mail[i])
                         /\ ~inet_sockets[i].used => inet_sockets[i].count = 0

\* A port that the kernel could choose is the one of its descriptor, or was bound when
\* nobody had it.
PortsOK(s) ==
    /\ \A f \in InetFds :
        LET p == s[fd_table[f].data].port IN p \in {0, Automatic(f)} \/ p \notin AutomaticPorts
    /\ \A f, g \in InetFds :
        LET p == s[fd_table[f].data].port IN
        p # 0 /\ p \notin AutomaticPorts /\ p = s[fd_table[g].data].port => f = g
    /\ \A i \in InetSlots : s[i].peer # Null => s[i].port # 0

PortInv == PortsOK(inet_sockets)

InetInv == FdTypeOK /\ InetTypeOK /\ InetSlotsOwned /\ RingInv /\ PortInv
-----------------------------------------------------------------------------
(* AF_INET: the rings.                                                     *)

LEMMA ModIs ==
    ASSUME NEW N \in Nat \ {0}, NEW h \in 0 .. N - 1, NEW k \in 0 .. N
    PROVE  (h + k) % N = IF h + k < N THEN h + k ELSE h + k - N
  OBVIOUS

LEMMA AtFacts ==
    ASSUME NEW h \in Cells, NEW k \in 0 .. INET_DATAGRAM_COUNT
    PROVE  /\ At(h, k) \in Cells /\ (h + k) % INET_DATAGRAM_COUNT = At(h, k)
           /\ After(h) = At(h, 1) /\ At(h, 0) = h
           /\ k < INET_DATAGRAM_COUNT => /\ After(At(h, k)) = At(h, k + 1)
                                         /\ At(After(h), k) = At(h, k + 1)
           /\ \A j \in 0 .. INET_DATAGRAM_COUNT - 1 :
                k < INET_DATAGRAM_COUNT /\ At(h, k) = At(h, j) => k = j
<1>1. INET_DATAGRAM_COUNT \in Nat \ {0} /\ h \in 0 .. INET_DATAGRAM_COUNT - 1
  BY InetSocketsAssumption DEF InetSocketsAssumption, Cells
<1>2. /\ At(h, k) \in 0 .. INET_DATAGRAM_COUNT - 1 /\ At(h, 0) = h
      /\ \A j \in 0 .. INET_DATAGRAM_COUNT - 1 :
            k < INET_DATAGRAM_COUNT /\ At(h, k) = At(h, j) => k = j
  BY <1>1 DEF At
<1>3. (h + k) % INET_DATAGRAM_COUNT = At(h, k)
  BY <1>1, ModIs, Zenon DEF At
<1>4. ASSUME NEW c \in 0 .. INET_DATAGRAM_COUNT - 1
      PROVE  After(c) = At(c, 1)
  <2>1. 1 \in 0 .. INET_DATAGRAM_COUNT
    BY <1>1
  <2> QED BY <1>1, <2>1, ModIs, Zenon DEF At, After
<1>5. k < INET_DATAGRAM_COUNT => At(At(h, k), 1) = At(h, k + 1) /\ At(At(h, 1), k) = At(h, k + 1)
  BY <1>1 DEF At
<1> QED BY <1>1, <1>2, <1>3, <1>4, <1>5 DEF Cells

LEMMA HoldsIs ==
    ASSUME NEW s \in InetSlotOK, NEW m \in Seq(Datagrams)
    PROVE  Holds(s, m) <=> /\ Len(m) = s.count
                           /\ \A k \in 1 .. s.count : m[k] = s.datagrams[At(s.head, k - 1)]
                           /\ s.tail = At(s.head, s.count)
<1>1. /\ s.count \in 0 .. INET_DATAGRAM_COUNT /\ s.head \in Cells
      /\ INET_DATAGRAM_COUNT \in Nat \ {0}
  BY InetSocketsAssumption DEF InetSlotOK, InetSocketsAssumption
<1> DEFINE c == [k \in 1 .. s.count |-> s.datagrams[At(s.head, k - 1)]]
<1>2. Contents(s) = c
  <2>1. ASSUME NEW k \in 1 .. s.count
        PROVE  (s.head + k - 1) % INET_DATAGRAM_COUNT = At(s.head, k - 1)
    <3>1. k - 1 \in 0 .. INET_DATAGRAM_COUNT
      BY <1>1
    <3>2. (s.head + (k - 1)) % INET_DATAGRAM_COUNT = At(s.head, k - 1)
      BY <1>1, <3>1, AtFacts
    <3>3. s.head + k - 1 = s.head + (k - 1)
      BY <1>1 DEF Cells
    <3> QED BY <3>2, <3>3
  <2> QED BY <2>1, Zenon DEF Contents
<1>3. c = m <=> Len(m) = s.count /\ \A k \in 1 .. s.count : m[k] = c[k]
  <2>1. Len(m) \in Nat /\ DOMAIN m = 1 .. Len(m) /\ m = [k \in 1 .. Len(m) |-> m[k]]
    OBVIOUS
  <2>2. DOMAIN c = 1 .. s.count
    OBVIOUS
  <2>3. s.count \in Nat
    BY <1>1
  <2> HIDE DEF c
  <2>4. c = m => Len(m) = s.count
    BY <2>1, <2>2, <2>3
  <2>5. (Len(m) = s.count /\ \A k \in 1 .. s.count : m[k] = c[k]) => c = m
    <3>1. c = [k \in 1 .. s.count |-> c[k]]
      BY DEF c
    <3> QED BY <2>1, <3>1
  <2> QED BY <2>4, <2>5
<1>4. \A k \in 1 .. s.count : c[k] = s.datagrams[At(s.head, k - 1)]
  OBVIOUS
<1> HIDE DEF c
<1> QED BY <1>2, <1>3, <1>4 DEF Holds

\* inet_send puts a datagram behind the others, or nowhere.
LEMMA ReceivedHolds ==
    ASSUME NEW s \in InetSlotOK, NEW m \in Seq(Datagrams), Holds(s, m), NEW d \in Datagrams
    PROVE  /\ Received(s, d) \in InetSlotOK
           /\ Holds(Received(s, d), IF s.count = INET_DATAGRAM_COUNT THEN m ELSE Append(m, d))
           /\ Received(s, d).used = s.used /\ Received(s, d).port = s.port
           /\ Received(s, d).address = s.address /\ Received(s, d).peer = s.peer
<1>1. CASE s.count = INET_DATAGRAM_COUNT
  BY <1>1 DEF Received
<1>2. CASE s.count # INET_DATAGRAM_COUNT
  <2> DEFINE t == [s EXCEPT !.datagrams[s.tail] = d, !.tail = After(@), !.count = @ + 1]
  <2>1. Received(s, d) = t
    BY <1>2 DEF Received
  <2>2. /\ INET_DATAGRAM_COUNT \in Nat \ {0} /\ s.count \in 0 .. INET_DATAGRAM_COUNT - 1
        /\ s.head \in Cells /\ s.tail \in Cells
        /\ s.datagrams \in [Cells -> Datagrams \cup {Null}]
    BY <1>2, InetSocketsAssumption DEF InetSlotOK, InetSocketsAssumption
  <2>3. /\ Len(m) = s.count /\ s.tail = At(s.head, s.count)
        /\ \A k \in 1 .. s.count : m[k] = s.datagrams[At(s.head, k - 1)]
    BY HoldsIs
  <2>4. s.count \in 0 .. INET_DATAGRAM_COUNT
    BY <2>2
  <2>5. /\ After(s.tail) = At(s.head, s.count + 1) /\ After(s.tail) \in Cells
    <3>1. After(At(s.head, s.count)) = At(s.head, s.count + 1)
      BY <2>2, <2>4, AtFacts
    <3>2. At(s.head, s.count + 1) \in Cells
      BY <2>2, AtFacts
    <3> QED BY <2>3, <3>1, <3>2
  <2>6. \A k \in 1 .. s.count : At(s.head, k - 1) \in Cells /\ At(s.head, k - 1) # s.tail
    <3> SUFFICES ASSUME NEW k \in 1 .. s.count
                 PROVE  At(s.head, k - 1) \in Cells /\ At(s.head, k - 1) # s.tail
      OBVIOUS
    <3>1. /\ k - 1 \in 0 .. INET_DATAGRAM_COUNT - 1 /\ k - 1 \in 0 .. INET_DATAGRAM_COUNT
          /\ k - 1 # s.count
      BY <2>2
    <3>2. At(s.head, k - 1) \in Cells
      BY <2>2, <3>1, AtFacts
    <3>3. s.count < INET_DATAGRAM_COUNT
      BY <2>2
    <3>4. At(s.head, s.count) = At(s.head, k - 1) => s.count = k - 1
      BY <2>2, <2>4, <3>1, <3>3, AtFacts
    <3> QED BY <2>3, <3>1, <3>2, <3>4
  <2> HIDE DEF t
  <2>7. /\ t.datagrams = [s.datagrams EXCEPT ![s.tail] = d] /\ t.head = s.head
        /\ t.tail = After(s.tail) /\ t.count = s.count + 1
        /\ t.used = s.used /\ t.port = s.port /\ t.address = s.address /\ t.peer = s.peer
    BY DEF t, InetSlotOK
  <2>8. t \in InetSlotOK
    <3>1. t.datagrams \in [Cells -> Datagrams \cup {Null}]
      BY <2>2, <2>7
    <3>2. t.count \in 0 .. INET_DATAGRAM_COUNT
      BY <2>2, <2>7
    <3>3. [s EXCEPT !.datagrams = t.datagrams, !.tail = t.tail, !.count = t.count]
            \in InetSlotOK
      BY <2>5, <2>7, <3>1, <3>2 DEF InetSlotOK
    <3>4. t = [s EXCEPT !.datagrams = t.datagrams, !.tail = t.tail, !.count = t.count]
      BY <2>7 DEF t, InetSlotOK
    <3> QED BY <3>3, <3>4
  <2>9. Holds(t, Append(m, d))
    <3>1. /\ Append(m, d) \in Seq(Datagrams) /\ Len(Append(m, d)) = Len(m) + 1
          /\ Append(m, d)[Len(m) + 1] = d
          /\ \A k \in 1 .. Len(m) : Append(m, d)[k] = m[k]
      BY AppendProperties
    <3>2. \A k \in 1 .. s.count + 1 :
            Append(m, d)[k] = t.datagrams[At(s.head, k - 1)]
      <4> SUFFICES ASSUME NEW k \in 1 .. s.count + 1
                   PROVE  Append(m, d)[k] = t.datagrams[At(s.head, k - 1)]
        OBVIOUS
      <4>1. CASE k \in 1 .. s.count
        <5>1. At(s.head, k - 1) \in Cells /\ At(s.head, k - 1) # s.tail
          BY <2>6, <4>1
        <5>2. t.datagrams[At(s.head, k - 1)] = s.datagrams[At(s.head, k - 1)]
          BY <2>2, <2>7, <5>1
        <5> QED BY <2>3, <3>1, <4>1, <5>2
      <4>2. CASE k = s.count + 1
        <5>1. k - 1 = s.count
          BY <2>2, <4>2
        <5>2. t.datagrams[s.tail] = d
          BY <2>2, <2>7
        <5>3. At(s.head, k - 1) = s.tail
          BY <2>3, <5>1
        <5>4. Append(m, d)[k] = d
          BY <2>3, <3>1, <4>2
        <5> QED BY <5>2, <5>3, <5>4
      <4>3. k \in 1 .. s.count \/ k = s.count + 1
        BY <2>2
      <4> QED BY <4>1, <4>2, <4>3, Zenon
    <3> QED BY <2>3, <2>5, <2>7, <2>8, <3>1, <3>2, HoldsIs
  <2> QED BY <1>2, <2>1, <2>7, <2>8, <2>9
<1> QED BY <1>1, <1>2

\* recvfrom takes the first.
LEMMA TakenHolds ==
    ASSUME NEW s \in InetSlotOK, NEW m \in Seq(Datagrams), Holds(s, m), s.count # 0
    PROVE  LET t == [s EXCEPT !.head = After(@), !.count = @ - 1] IN
           /\ t \in InetSlotOK /\ Holds(t, Tail(m)) /\ Tail(m) \in Seq(Datagrams)
           /\ t.used = s.used /\ t.port = s.port /\ t.address = s.address /\ t.peer = s.peer
<1> DEFINE t == [s EXCEPT !.head = After(@), !.count = @ - 1]
<1>1. /\ INET_DATAGRAM_COUNT \in Nat \ {0} /\ s.count \in 1 .. INET_DATAGRAM_COUNT
      /\ s.head \in Cells /\ s.tail \in Cells
  BY InetSocketsAssumption DEF InetSlotOK, InetSocketsAssumption
<1>2. /\ Len(m) = s.count /\ s.tail = At(s.head, s.count)
      /\ \A k \in 1 .. s.count : m[k] = s.datagrams[At(s.head, k - 1)]
  BY HoldsIs
<1>3. \A k \in 0 .. INET_DATAGRAM_COUNT - 1 : At(After(s.head), k) = At(s.head, k + 1)
  <2> SUFFICES ASSUME NEW k \in 0 .. INET_DATAGRAM_COUNT - 1
               PROVE  At(After(s.head), k) = At(s.head, k + 1)
    OBVIOUS
  <2>1. k \in 0 .. INET_DATAGRAM_COUNT /\ k < INET_DATAGRAM_COUNT
    BY <1>1
  <2> QED BY <1>1, <2>1, AtFacts
<1>4. After(s.head) \in Cells
  <2>1. 1 \in 0 .. INET_DATAGRAM_COUNT
    BY <1>1
  <2> QED BY <1>1, <2>1, AtFacts
<1>5. t \in InetSlotOK
  <2>1. s.count - 1 \in 0 .. INET_DATAGRAM_COUNT
    BY <1>1
  <2> QED BY <1>4, <2>1 DEF InetSlotOK
<1>6. /\ t.head = After(s.head) /\ t.count = s.count - 1 /\ t.tail = s.tail
      /\ t.datagrams = s.datagrams
      /\ t.used = s.used /\ t.port = s.port /\ t.address = s.address /\ t.peer = s.peer
  BY DEF InetSlotOK
<1> HIDE DEF t
<1>7. m # <<>>
  BY <1>1, <1>2
<1>8. /\ Tail(m) \in Seq(Datagrams) /\ Len(Tail(m)) = Len(m) - 1
      /\ \A k \in 1 .. Len(Tail(m)) : Tail(m)[k] = m[k + 1]
  BY <1>7, HeadTailProperties
<1>9. \A k \in 1 .. s.count - 1 : Tail(m)[k] = s.datagrams[At(After(s.head), k - 1)]
  <2> SUFFICES ASSUME NEW k \in 1 .. s.count - 1
               PROVE  Tail(m)[k] = s.datagrams[At(After(s.head), k - 1)]
    OBVIOUS
  <2>1. /\ k - 1 \in 0 .. INET_DATAGRAM_COUNT - 1 /\ k + 1 \in 1 .. s.count
        /\ (k - 1) + 1 = k /\ (k + 1) - 1 = k
    BY <1>1
  <2>2. At(After(s.head), k - 1) = At(s.head, k)
    BY <1>3, <2>1
  <2>3. m[k + 1] = s.datagrams[At(s.head, k)]
    BY <1>2, <2>1
  <2> QED BY <1>2, <1>8, <2>2, <2>3
<1>10. s.tail = At(After(s.head), s.count - 1)
  <2>1. s.count - 1 \in 0 .. INET_DATAGRAM_COUNT - 1 /\ (s.count - 1) + 1 = s.count
    BY <1>1
  <2> QED BY <1>2, <1>3, <2>1
<1>11. Holds(t, Tail(m))
  <2>1. /\ Len(Tail(m)) = t.count /\ t.tail = At(t.head, t.count)
        /\ \A k \in 1 .. t.count : Tail(m)[k] = t.datagrams[At(t.head, k - 1)]
    BY <1>2, <1>6, <1>8, <1>9, <1>10
  <2> QED BY <1>5, <1>8, <2>1, HoldsIs
<1> QED BY <1>5, <1>6, <1>8, <1>11 DEF t

\* What a socket is called, and whether it is used, says nothing of its ring.
LEMMA NamesKeepHolds ==
    ASSUME NEW s, NEW t, NEW m, Holds(s, m), t.datagrams = s.datagrams, t.head = s.head,
           t.tail = s.tail, t.count = s.count
    PROVE  Holds(t, m)
  BY Zenon DEF Holds, Contents
-----------------------------------------------------------------------------
(* AF_INET: the calls keep the invariant.                                  *)

LEMMA InetSlotTypes ==
    ASSUME InetTypeOK
    PROVE  /\ inet_sockets \in [InetSlots -> InetSlotOK]
           /\ mail \in [InetSlots -> Seq(Datagrams)]
  BY DEF InetTypeOK, InetSlotOK

LEMMA OfInetFd ==
    ASSUME InetInv, NEW f \in InetFds
    PROVE  /\ f \in Fds /\ fd_table[f].type = "INET_SOCKET"
           /\ fd_table[f].data \in UsedInet /\ fd_table[f].data \in InetSlots
           /\ Inet(f) = inet_sockets[fd_table[f].data]
           /\ \A g \in InetFds : fd_table[g].data = fd_table[f].data => g = f
  BY DEF InetInv, InetSlotsOwned, InetFds, IsInet, Inet, UsedInet

\* The numbers of the ports that the kernel chooses.
LEMMA AutomaticIs ==
    /\ \A f \in Fds : Automatic(f) \in Nat \ {0} /\ Automatic(f) \in AutomaticPorts
    /\ \A f, g \in Fds : Automatic(f) = Automatic(g) => f = g
    /\ 0 \notin AutomaticPorts
  BY InetSocketsAssumption, DescriptorsAssumption
  DEF InetSocketsAssumption, DescriptorsAssumption, AutomaticPorts, Automatic, Fds

\* Two descriptors of sockets have two ports.
LEMMA PortsApartHolds ==
    ASSUME InetInv
    PROVE  PortsApart
<1> SUFFICES ASSUME NEW i \in UsedInet, NEW j \in UsedInet,
                    inet_sockets[i].port # 0, inet_sockets[i].port = inet_sockets[j].port
             PROVE  i = j
  BY DEF PortsApart
<1>1. PICK f \in InetFds, g \in InetFds : fd_table[f].data = i /\ fd_table[g].data = j
  BY DEF InetInv, InetSlotsOwned
<1>2. /\ Inet(f).port = Inet(g).port /\ Inet(f).port # 0 /\ f \in Fds /\ g \in Fds
  BY <1>1 DEF Inet, InetFds
<1>3. CASE Inet(f).port \notin AutomaticPorts
  BY <1>1, <1>2, <1>3 DEF InetInv, PortInv, PortsOK, Inet
<1>4. CASE Inet(f).port \in AutomaticPorts
  BY <1>1, <1>2, <1>4, AutomaticIs DEF InetInv, PortInv, PortsOK, Inet
<1> QED BY <1>3, <1>4

\* inet_send changes no more than one ring, and what was sent to it.
LEMMA DeliverEffect ==
    ASSUME NEW s \in [InetSlots -> InetSlotOK], mail \in [InetSlots -> Seq(Datagrams)],
           \A i \in InetSlots : Holds(s[i], mail[i]), NEW d \in Datagrams, NEW a, NEW p,
           Deliver(s, d, a, p)
    PROVE  /\ inet_sockets' \in [InetSlots -> InetSlotOK]
           /\ mail' \in [InetSlots -> Seq(Datagrams)]
           /\ \A i \in InetSlots :
                /\ Holds(inet_sockets'[i], mail'[i])
                /\ ~s[i].used => inet_sockets'[i] = s[i]
                /\ inet_sockets'[i].used = s[i].used /\ inet_sockets'[i].port = s[i].port
                /\ inet_sockets'[i].peer = s[i].peer
<1> DEFINE R == Receivers(s, a, p)
<1>1. CASE R = {}
  <2>1. inet_sockets' = s /\ mail' = mail
    BY <1>1 DEF Deliver
  <2> QED BY <2>1
<1>2. CASE R # {}
  <2>1. PICK r : r = Lowest(R)
    OBVIOUS
  <2>2. r \in InetSlots /\ s[r].used
    <3>1. R \in SUBSET Nat
      BY DEF Receivers, InetSlots
    <3> QED BY <1>2, <2>1, <3>1, LowestIn DEF Receivers
  <2>3. /\ inet_sockets' = [s EXCEPT ![r] = Received(s[r], d)]
        /\ mail' = IF s[r].count = INET_DATAGRAM_COUNT THEN mail
                   ELSE [mail EXCEPT ![r] = Append(mail[r], d)]
    BY <1>2, <2>1, <2>2 DEF Deliver
  <2> HIDE DEF R
  <2>4. s[r] \in InetSlotOK /\ mail[r] \in Seq(Datagrams) /\ Holds(s[r], mail[r])
    BY <2>2
  <2>5. /\ Received(s[r], d) \in InetSlotOK
        /\ Holds(Received(s[r], d),
                 IF s[r].count = INET_DATAGRAM_COUNT THEN mail[r] ELSE Append(mail[r], d))
        /\ Received(s[r], d).used = s[r].used /\ Received(s[r], d).port = s[r].port
        /\ Received(s[r], d).peer = s[r].peer
    BY <2>4, ReceivedHolds
  <2>6. /\ inet_sockets' \in [InetSlots -> InetSlotOK]
        /\ inet_sockets'[r] = Received(s[r], d)
        /\ \A i \in InetSlots \ {r} : inet_sockets'[i] = s[i]
    BY <2>2, <2>3, <2>5
  <2>7. Append(mail[r], d) \in Seq(Datagrams)
    BY <2>4, AppendProperties
  <2>8. /\ mail' \in [InetSlots -> Seq(Datagrams)]
        /\ mail'[r] = IF s[r].count = INET_DATAGRAM_COUNT THEN mail[r] ELSE Append(mail[r], d)
        /\ \A i \in InetSlots \ {r} : mail'[i] = mail[i]
    BY <2>2, <2>3, <2>7
  <2> QED BY <2>2, <2>5, <2>6, <2>8
<1> QED BY <1>1, <1>2

\* A call that gives the socket of f a port, an address or a peer.  The port is the one
\* that connect and sendto leave to it, or one that no other socket has.
LEMMA NamedOK ==
    ASSUME InetInv, NEW f \in InetFds, NEW i, i = fd_table[f].data, NEW t \in InetSlotOK,
           t.datagrams = inet_sockets[i].datagrams, t.head = inet_sockets[i].head,
           t.tail = inet_sockets[i].tail, t.count = inet_sockets[i].count,
           t.used = inet_sockets[i].used, t.port # 0,
           \/ t.port = PortOf(f)
           \/ /\ t.port \notin AutomaticPorts
              /\ \A j \in UsedInet \ {i} : inet_sockets[j].port # t.port,
           NEW s, s = [inet_sockets EXCEPT ![i] = t]
    PROVE  /\ s \in [InetSlots -> InetSlotOK] /\ PortsOK(s)
           /\ \A j \in InetSlots : /\ Holds(s[j], mail[j])
                                   /\ ~s[j].used => s[j].count = 0
                                   /\ s[j].used = inet_sockets[j].used
<1>2. /\ inet_sockets \in [InetSlots -> InetSlotOK] /\ i \in InetSlots
      /\ \A g \in InetFds : /\ fd_table[g].data \in UsedInet /\ fd_table[g].data \in InetSlots
                            /\ fd_table[g].data = i => g = f
      /\ f \in Fds /\ \A g \in InetFds : g \in Fds
  BY InetSlotTypes, OfInetFd DEF InetInv
<1>3. /\ s \in [InetSlots -> InetSlotOK] /\ s[i] = t
      /\ \A j \in InetSlots \ {i} : s[j] = inet_sockets[j]
  BY <1>2
<1>4. \A j \in InetSlots : /\ Holds(inet_sockets[j], mail[j])
                           /\ ~inet_sockets[j].used => inet_sockets[j].count = 0
  BY DEF InetInv, RingInv
<1>5. Holds(t, mail[i])
  BY <1>2, <1>4, NamesKeepHolds
<1>6. \A j \in InetSlots : /\ Holds(s[j], mail[j])
                           /\ ~s[j].used => s[j].count = 0
                           /\ s[j].used = inet_sockets[j].used
  BY <1>2, <1>3, <1>4, <1>5
<1>7. PortsOK(s)
  <2>1. /\ \A g \in InetFds : LET p == inet_sockets[fd_table[g].data].port IN
            p \in {0, Automatic(g)} \/ p \notin AutomaticPorts
        /\ \A g, h \in InetFds : LET p == inet_sockets[fd_table[g].data].port IN
            p # 0 /\ p \notin AutomaticPorts /\ p = inet_sockets[fd_table[h].data].port
                => g = h
        /\ \A j \in InetSlots : inet_sockets[j].peer # Null => inet_sockets[j].port # 0
    BY DEF InetInv, PortInv, PortsOK
  <2>2. PortOf(f) = IF inet_sockets[i].port = 0 THEN Automatic(f) ELSE inet_sockets[i].port
    BY DEF PortOf, Inet
  <2>3. \A g \in InetFds \ {f} : s[fd_table[g].data] = inet_sockets[fd_table[g].data]
    BY <1>2, <1>3
  <2>4. Automatic(f) \in AutomaticPorts
    BY <1>2, AutomaticIs
  <2>5. t.port \in {0, Automatic(f)} \/ t.port \notin AutomaticPorts
    BY <2>1, <2>2
  <2>6. \A g \in InetFds : LET p == s[fd_table[g].data].port IN
            p \in {0, Automatic(g)} \/ p \notin AutomaticPorts
    BY <1>3, <2>1, <2>3, <2>5
  <2>7. \A g \in InetFds \ {f} : t.port \notin AutomaticPorts
                                    => inet_sockets[fd_table[g].data].port # t.port
    BY <1>2, <2>1, <2>2, <2>4
  <2>8. \A g, h \in InetFds : LET p == s[fd_table[g].data].port IN
            p # 0 /\ p \notin AutomaticPorts /\ p = s[fd_table[h].data].port => g = h
    BY <1>3, <2>1, <2>3, <2>7
  <2>9. \A j \in InetSlots : s[j].peer # Null => s[j].port # 0
    BY <1>3, <2>1
  <2> QED BY <2>6, <2>8, <2>9 DEF PortsOK
<1> QED BY <1>3, <1>6, <1>7

\* A call that opens and closes nothing.  The table was s when the rings were changed.
LEMMA InetAfter ==
    ASSUME InetInv, UNCHANGED fd_table, NEW s, PortsOK(s),
           inet_sockets' \in [InetSlots -> InetSlotOK], mail' \in [InetSlots -> Seq(Datagrams)],
           \A j \in InetSlots :
                /\ Holds(inet_sockets'[j], mail'[j])
                /\ ~inet_sockets[j].used => inet_sockets'[j].count = 0
                /\ inet_sockets'[j].used = inet_sockets[j].used
                /\ inet_sockets'[j].port = s[j].port
                /\ inet_sockets'[j].peer = s[j].peer
    PROVE  InetInv'
<1>1. /\ UsedInet' = UsedInet /\ InetFds' = InetFds /\ FdTypeOK'
      /\ InetTypeOK' /\ RingInv'
  BY DEF UsedInet, InetFds, IsInet, InetInv, FdTypeOK, InetTypeOK, InetSlotOK, RingInv
<1>2. InetSlotsOwned'
  BY <1>1 DEF InetInv, InetSlotsOwned
<1>3. PortInv'
  <2>1. \A g \in InetFds : fd_table[g].data \in InetSlots
    BY OfInetFd
  <2>2. \A j \in InetSlots : inet_sockets'[j].peer # Null => inet_sockets'[j].port # 0
    BY DEF PortsOK
  <2>3. \A g \in InetFds : inet_sockets'[fd_table[g].data].port = s[fd_table[g].data].port
    BY <2>1
  <2>4. \A g \in InetFds : LET p == inet_sockets'[fd_table[g].data].port IN
            p \in {0, Automatic(g)} \/ p \notin AutomaticPorts
    BY <2>3 DEF PortsOK
  <2>5. \A g, h \in InetFds : LET p == inet_sockets'[fd_table[g].data].port IN
            p # 0 /\ p \notin AutomaticPorts /\ p = inet_sockets'[fd_table[h].data].port
                => g = h
    BY <2>3 DEF PortsOK
  <2> QED BY <1>1, <2>2, <2>4, <2>5 DEF PortInv, PortsOK, Automatic, AutomaticPorts
<1> QED BY <1>1, <1>2, <1>3 DEF InetInv

LEMMA NamedInv ==
    ASSUME InetInv, NEW f \in InetFds, NEW i, i = fd_table[f].data, NEW t \in InetSlotOK,
           t.datagrams = inet_sockets[i].datagrams, t.head = inet_sockets[i].head,
           t.tail = inet_sockets[i].tail, t.count = inet_sockets[i].count,
           t.used = inet_sockets[i].used, t.port # 0,
           \/ t.port = PortOf(f)
           \/ /\ t.port \notin AutomaticPorts
              /\ \A j \in UsedInet \ {i} : inet_sockets[j].port # t.port,
           inet_sockets' = [inet_sockets EXCEPT ![i] = t], UNCHANGED <<fd_table, mail>>
    PROVE  InetInv'
<1>1. PICK s : s = [inet_sockets EXCEPT ![i] = t]
  OBVIOUS
<1>2. s \in [InetSlots -> InetSlotOK] /\ PortsOK(s)
  BY <1>1, NamedOK
<1>3. \A j \in InetSlots : Holds(s[j], mail[j])
  BY <1>1, NamedOK
<1>4. \A j \in InetSlots : ~s[j].used => s[j].count = 0
  BY <1>1, NamedOK
<1>5. \A j \in InetSlots : s[j].used = inet_sockets[j].used
  BY <1>1, NamedOK
<1>6. mail \in [InetSlots -> Seq(Datagrams)]
  BY InetSlotTypes DEF InetInv
<1> QED BY <1>1, <1>2, <1>3, <1>4, <1>5, <1>6, InetAfter

LEMMA InetBindInv ==
    ASSUME InetInv, NEW f \in InetFds, NEW a \in Addresses, NEW p \in Ports,
           p \notin AutomaticPorts, InetBind(f, a, p)
    PROVE  InetInv'
<1>1. PICK i : i = fd_table[f].data
  OBVIOUS
<1>2. inet_sockets \in [InetSlots -> InetSlotOK] /\ mail \in [InetSlots -> Seq(Datagrams)]
      /\ i \in InetSlots
  BY <1>1, InetSlotTypes, OfInetFd DEF InetInv
<1>3. p \in Nat \ {0}
  BY InetSocketsAssumption DEF InetSocketsAssumption
<1>4. PICK t : t = [inet_sockets[i] EXCEPT !.address = a, !.port = p]
  OBVIOUS
<1>5. /\ t \in InetSlotOK /\ t.port = p
      /\ t.datagrams = inet_sockets[i].datagrams /\ t.head = inet_sockets[i].head
      /\ t.tail = inet_sockets[i].tail /\ t.count = inet_sockets[i].count
      /\ t.used = inet_sockets[i].used
  BY <1>2, <1>3, <1>4 DEF InetSlotOK
<1>6. \A j \in UsedInet \ {i} : inet_sockets[j].port # p
  <2>1. \A j \in InetSlots \ {i} : ~Taken(j, a, p)
    BY <1>1 DEF InetBind
  <2>2. \A j \in InetSlots : inet_sockets[j].address \in Addresses
    BY <1>2 DEF InetSlotOK
  <2> QED BY <2>1, <2>2 DEF Taken, UsedInet, Addresses
<1>7. /\ inet_sockets' = [inet_sockets EXCEPT ![i] = t] /\ UNCHANGED <<fd_table, mail>>
  BY <1>1, <1>2, <1>4 DEF InetBind
<1>8. t.port # 0 /\ t.port \notin AutomaticPorts
  BY <1>3, <1>5
<1>9. \A j \in UsedInet \ {i} : inet_sockets[j].port # t.port
  BY <1>5, <1>6
<1> QED BY <1>1, <1>5, <1>7, <1>8, <1>9, NamedInv

\* The port that connect and sendto leave to a socket.
LEMMA PortOfIs ==
    ASSUME InetInv, NEW f \in InetFds
    PROVE  PortOf(f) \in Nat \ {0}
<1>1. Inet(f).port \in Nat
  BY InetSlotTypes, OfInetFd DEF InetInv, InetSlotOK
<1> QED BY <1>1, OfInetFd, AutomaticIs DEF PortOf

LEMMA InetConnectInv ==
    ASSUME InetInv, NEW f \in InetFds, NEW a \in Addresses, NEW p \in Ports,
           InetConnect(f, a, p)
    PROVE  InetInv'
<1>1. PICK i, q : i = fd_table[f].data /\ q = PortOf(f)
  OBVIOUS
<1>2. inet_sockets \in [InetSlots -> InetSlotOK] /\ mail \in [InetSlots -> Seq(Datagrams)]
      /\ i \in InetSlots
  BY <1>1, InetSlotTypes, OfInetFd DEF InetInv
<1>3. q \in Nat \ {0}
  BY <1>1, PortOfIs
<1>4. PICK t : t = [inet_sockets[i] EXCEPT !.port = q, !.peer = [address |-> a, port |-> p]]
  OBVIOUS
<1>5. /\ t \in InetSlotOK /\ t.port = q
      /\ t.datagrams = inet_sockets[i].datagrams /\ t.head = inet_sockets[i].head
      /\ t.tail = inet_sockets[i].tail /\ t.count = inet_sockets[i].count
      /\ t.used = inet_sockets[i].used
  BY <1>2, <1>3, <1>4 DEF InetSlotOK
<1>6. /\ inet_sockets' = [inet_sockets EXCEPT ![i] = t] /\ UNCHANGED <<fd_table, mail>>
  BY <1>1, <1>2, <1>4 DEF InetConnect
<1>7. t.port # 0 /\ t.port = PortOf(f)
  BY <1>1, <1>3, <1>5
<1> QED BY <1>1, <1>5, <1>6, <1>7, NamedInv

LEMMA InetSendInv ==
    ASSUME InetInv, NEW f \in InetFds, NEW x \in Payloads, InetSend(f, x)
    PROVE  InetInv'
<1>1. /\ inet_sockets \in [InetSlots -> InetSlotOK] /\ mail \in [InetSlots -> Seq(Datagrams)]
      /\ \A i \in InetSlots : Holds(inet_sockets[i], mail[i])
      /\ \A i \in InetSlots : ~inet_sockets[i].used => inet_sockets[i].count = 0
      /\ PortsOK(inet_sockets)
  BY InetSlotTypes DEF InetInv, RingInv, PortInv
<1>2. PICK d : d = [from |-> Inet(f).port, payload |-> x]
  OBVIOUS
<1>3. d \in Datagrams
  <2>1. Inet(f) \in InetSlotOK /\ Inet(f).peer # Null
    BY <1>1, OfInetFd DEF InetSend
  <2>2. Inet(f).port # 0
    BY <1>1, <2>1, OfInetFd DEF PortsOK
  <2>3. Inet(f).port \in Nat \ {0}
    BY <2>1, <2>2 DEF InetSlotOK
  <2> QED BY <1>2, <2>3 DEF Datagrams
<1>4. /\ Deliver(inet_sockets, d, Inet(f).peer.address, Inet(f).peer.port)
      /\ UNCHANGED fd_table
  BY <1>2 DEF InetSend
<1>5. /\ inet_sockets' \in [InetSlots -> InetSlotOK]
      /\ mail' \in [InetSlots -> Seq(Datagrams)]
  BY <1>1, <1>3, <1>4, DeliverEffect
<1>6. \A i \in InetSlots :
        /\ Holds(inet_sockets'[i], mail'[i])
        /\ ~inet_sockets[i].used => inet_sockets'[i] = inet_sockets[i]
  BY <1>1, <1>3, <1>4, DeliverEffect
<1>7. \A i \in InetSlots :
        /\ inet_sockets'[i].used = inet_sockets[i].used
        /\ inet_sockets'[i].port = inet_sockets[i].port
        /\ inet_sockets'[i].peer = inet_sockets[i].peer
  BY <1>1, <1>3, <1>4, DeliverEffect
<1> QED BY <1>1, <1>4, <1>5, <1>6, <1>7, InetAfter

LEMMA InetSendtoInv ==
    ASSUME InetInv, NEW f \in InetFds, NEW x \in Payloads, NEW a, NEW p,
           InetSendto(f, x, a, p)
    PROVE  InetInv'
<1>1. PICK i, q, d, t :
        /\ i = fd_table[f].data /\ q = PortOf(f) /\ d = [from |-> q, payload |-> x]
        /\ t = [inet_sockets[i] EXCEPT !.port = q]
  OBVIOUS
<1>2. inet_sockets \in [InetSlots -> InetSlotOK] /\ mail \in [InetSlots -> Seq(Datagrams)]
      /\ i \in InetSlots
  BY <1>1, InetSlotTypes, OfInetFd DEF InetInv
<1>3. q \in Nat \ {0} /\ d \in Datagrams
  BY <1>1, PortOfIs DEF Datagrams
<1>4. /\ t \in InetSlotOK /\ t.port = q
      /\ t.datagrams = inet_sockets[i].datagrams /\ t.head = inet_sockets[i].head
      /\ t.tail = inet_sockets[i].tail /\ t.count = inet_sockets[i].count
      /\ t.used = inet_sockets[i].used
  BY <1>1, <1>2, <1>3, ZenonT(60) DEF InetSlotOK
<1>5. t.port # 0 /\ t.port = PortOf(f)
  BY <1>1, <1>3, <1>4
<1>6. PICK s : /\ s = [inet_sockets EXCEPT ![i] = t] /\ i = fd_table[f].data
               /\ Deliver(s, d, a, p) /\ UNCHANGED fd_table
  BY <1>1, <1>2 DEF InetSendto
<1>7. s \in [InetSlots -> InetSlotOK] /\ PortsOK(s)
  BY <1>4, <1>5, <1>6, NamedOK
<1>8. \A j \in InetSlots : Holds(s[j], mail[j])
  BY <1>4, <1>5, <1>6, NamedOK
<1>9. \A j \in InetSlots : ~s[j].used => s[j].count = 0
  BY <1>4, <1>5, <1>6, NamedOK
<1>10. \A j \in InetSlots : s[j].used = inet_sockets[j].used
  BY <1>4, <1>5, <1>6, NamedOK
<1>11. /\ inet_sockets' \in [InetSlots -> InetSlotOK]
       /\ mail' \in [InetSlots -> Seq(Datagrams)]
  BY <1>2, <1>3, <1>6, <1>7, <1>8, DeliverEffect
<1>12. \A j \in InetSlots : /\ Holds(inet_sockets'[j], mail'[j])
                            /\ ~s[j].used => inet_sockets'[j] = s[j]
  BY <1>2, <1>3, <1>6, <1>7, <1>8, DeliverEffect
<1>13. \A j \in InetSlots : /\ inet_sockets'[j].used = s[j].used
                            /\ inet_sockets'[j].port = s[j].port
                            /\ inet_sockets'[j].peer = s[j].peer
  BY <1>2, <1>3, <1>6, <1>7, <1>8, DeliverEffect
<1> QED BY <1>6, <1>7, <1>9, <1>10, <1>11, <1>12, <1>13, InetAfter

LEMMA InetRecvfromInv ==
    ASSUME InetInv, NEW f \in InetFds, InetRecvfrom(f)
    PROVE  InetInv'
<1>1. /\ inet_sockets \in [InetSlots -> InetSlotOK] /\ mail \in [InetSlots -> Seq(Datagrams)]
      /\ \A i \in InetSlots : Holds(inet_sockets[i], mail[i])
      /\ \A i \in InetSlots : ~inet_sockets[i].used => inet_sockets[i].count = 0
      /\ PortsOK(inet_sockets)
  BY InetSlotTypes DEF InetInv, RingInv, PortInv
<1>2. PICK i, t : /\ i = fd_table[f].data
                  /\ t = [inet_sockets[i] EXCEPT !.head = After(@), !.count = @ - 1]
  OBVIOUS
<1>3. i \in InetSlots /\ inet_sockets[i].used
  BY <1>2, OfInetFd DEF UsedInet
<1>4. /\ inet_sockets[i].count # 0
      /\ inet_sockets' = [inet_sockets EXCEPT ![i] = t]
      /\ mail' = [mail EXCEPT ![i] = Tail(mail[i])]
      /\ UNCHANGED fd_table
  BY <1>1, <1>2, <1>3 DEF InetRecvfrom
<1>5. /\ t \in InetSlotOK /\ Holds(t, Tail(mail[i])) /\ Tail(mail[i]) \in Seq(Datagrams)
      /\ t.used = inet_sockets[i].used /\ t.port = inet_sockets[i].port
      /\ t.peer = inet_sockets[i].peer
  BY <1>1, <1>2, <1>3, <1>4, TakenHolds
<1>6. /\ inet_sockets' \in [InetSlots -> InetSlotOK] /\ inet_sockets'[i] = t
      /\ \A j \in InetSlots \ {i} : inet_sockets'[j] = inet_sockets[j]
  BY <1>1, <1>3, <1>4, <1>5
<1>7. /\ mail' \in [InetSlots -> Seq(Datagrams)] /\ mail'[i] = Tail(mail[i])
      /\ \A j \in InetSlots \ {i} : mail'[j] = mail[j]
  BY <1>1, <1>3, <1>4, <1>5
<1>8. \A j \in InetSlots : /\ Holds(inet_sockets'[j], mail'[j])
                           /\ ~inet_sockets[j].used => inet_sockets'[j].count = 0
  BY <1>1, <1>3, <1>5, <1>6, <1>7
<1>9. \A j \in InetSlots : /\ inet_sockets'[j].used = inet_sockets[j].used
                           /\ inet_sockets'[j].port = inet_sockets[j].port
                           /\ inet_sockets'[j].peer = inet_sockets[j].peer
  BY <1>5, <1>6
<1> QED BY <1>1, <1>4, <1>6, <1>7, <1>8, <1>9, InetAfter

\* A ring with nothing in it.
LEMMA HoldsNothing ==
    ASSUME NEW s \in InetSlotOK, s.count = 0
    PROVE  /\ Holds(s, <<>>) <=> s.tail = s.head
           /\ \A m \in Seq(Datagrams) : Holds(s, m) => m = <<>> /\ s.tail = s.head
<1>1. At(s.head, 0) = s.head
  BY InetSocketsAssumption DEF At, InetSlotOK, Cells, InetSocketsAssumption
<1>2. <<>> \in Seq(Datagrams) /\ Len(<<>>) = 0
  OBVIOUS
<1>3. Holds(s, <<>>) <=> s.tail = s.head
  <2>1. \A k \in 1 .. s.count : <<>>[k] = s.datagrams[At(s.head, k - 1)]
    OBVIOUS
  <2>2. Holds(s, <<>>) <=> /\ Len(<<>>) = s.count
                           /\ \A k \in 1 .. s.count : <<>>[k] = s.datagrams[At(s.head, k - 1)]
                           /\ s.tail = At(s.head, s.count)
    BY <1>2, HoldsIs, Zenon
  <2> QED BY <1>1, <1>2, <2>1, <2>2
<1>4. ASSUME NEW m \in Seq(Datagrams), Holds(s, m) PROVE m = <<>> /\ s.tail = s.head
  <2>1. Len(m) = 0 /\ s.tail = s.head
    BY <1>1, <1>4, HoldsIs
  <2> QED BY <2>1
<1> QED BY <1>3, <1>4

LEMMA FreeInetIn ==
    ASSUME FreeInet # {}
    PROVE  /\ Lowest(FreeInet) \in InetSlots /\ Lowest(FreeInet) \notin UsedInet
           /\ ~inet_sockets[Lowest(FreeInet)].used
<1>1. FreeInet \in SUBSET Nat
  BY DEF FreeInet, InetSlots
<1> QED BY <1>1, LowestIn DEF FreeInet, UsedInet

\* The descriptor of a new socket.
LEMMA NewInetFd ==
    ASSUME InetInv, NEW i \in InetSlots, i \notin UsedInet, FreeFds # {},
           fd_table' = Allocated("INET_SOCKET", i), UsedInet' = UsedInet \cup {i}
    PROVE  LET n == Lowest(FreeFds) IN
           /\ FdTypeOK' /\ InetSlotsOwned'
           /\ n \in Fds /\ n \notin InetFds /\ fd_table'[n].data = i
           /\ InetFds' = InetFds \cup {n}
           /\ \A f \in InetFds : fd_table'[f] = fd_table[f]
<1>1. PICK n : n = Lowest(FreeFds) /\ n \in Fds /\ fd_table[n].type = "EMPTY" /\ n \notin InetFds
  BY FreeFdIn DEF InetFds, IsInet
<1>2. /\ fd_table' \in [Fds -> [type : Types, data : Data]]
      /\ fd_table'[n] = [type |-> "INET_SOCKET", data |-> i]
      /\ \A f \in Fds \ {n} : fd_table'[f] = fd_table[f]
  <2>1. "INET_SOCKET" \in Types /\ i \in Data
    BY DEF Types, Data
  <2>2. fd_table \in [Fds -> [type : Types, data : Data]]
    BY DEF InetInv, FdTypeOK
  <2> QED BY <1>1, <2>1, <2>2, AllocatedIs
<1>3. FdTypeOK'
  BY <1>2 DEF FdTypeOK, Types, Data
<1>4. InetFds' = InetFds \cup {n} /\ \A f \in InetFds : fd_table'[f] = fd_table[f]
  BY <1>1, <1>2 DEF InetFds, IsInet
<1>5. fd_table'[n].data = i
  BY <1>2
<1>6. InetSlotsOwned'
  <2>1. \A f \in InetFds : fd_table[f].data \in UsedInet
    BY OfInetFd
  <2>2. \A f, g \in InetFds' : fd_table'[f].data = fd_table'[g].data => f = g
    BY <1>4, <1>5, <2>1 DEF InetInv, InetSlotsOwned
  <2>3. {fd_table'[f].data : f \in InetFds'} = UsedInet'
    BY <1>4, <1>5 DEF InetInv, InetSlotsOwned
  <2> QED BY <2>2, <2>3 DEF InetSlotsOwned
<1> QED BY <1>1, <1>3, <1>4, <1>5, <1>6

LEMMA InetSocketInv ==
    ASSUME InetInv, InetSocket
    PROVE  InetInv'
<1>1. PICK i, t : i = Lowest(FreeInet) /\ t = InetOpened(inet_sockets[i])
  OBVIOUS
<1>2. /\ i \in InetSlots /\ i \notin UsedInet /\ ~inet_sockets[i].used
      /\ inet_sockets \in [InetSlots -> InetSlotOK] /\ mail \in [InetSlots -> Seq(Datagrams)]
  BY <1>1, FreeInetIn, InetSlotTypes DEF InetSocket, InetInv
<1>3. /\ \A j \in InetSlots : Holds(inet_sockets[j], mail[j])
      /\ \A j \in InetSlots : ~inet_sockets[j].used => inet_sockets[j].count = 0
      /\ PortsOK(inet_sockets)
  BY DEF InetInv, RingInv, PortInv
<1>4. /\ t \in InetSlotOK /\ t.head = inet_sockets[i].head /\ t.tail = inet_sockets[i].tail
      /\ t.count = 0 /\ t.port = 0 /\ t.peer = Null /\ t.used = (FreeFds # {})
  <2>1. inet_sockets[i] \in InetSlotOK
    BY <1>2
  <2>2. t = [inet_sockets[i] EXCEPT !.used = (FreeFds # {}), !.peer = Null, !.address = "ANY",
                                    !.port = 0, !.count = 0]
    BY <1>1 DEF InetOpened
  <2>3. 0 \in 0 .. INET_DATAGRAM_COUNT /\ "ANY" \in Addresses /\ (FreeFds # {}) \in BOOLEAN
    BY InetSocketsAssumption DEF InetSocketsAssumption, Addresses
  <2>4. t \in InetSlotOK
    BY <2>1, <2>2, <2>3 DEF InetSlotOK
  <2>5. /\ t.head = inet_sockets[i].head /\ t.tail = inet_sockets[i].tail
        /\ t.count = 0 /\ t.port = 0 /\ t.peer = Null
    BY <2>1, <2>2 DEF InetSlotOK
  <2>6. t.used = (FreeFds # {})
    BY <2>1, <2>2 DEF InetSlotOK
  <2> QED BY <2>4, <2>5, <2>6
<1>5. Holds(t, <<>>)
  BY <1>2, <1>3, <1>4, HoldsNothing
<1>6. /\ inet_sockets' = [inet_sockets EXCEPT ![i] = t]
      /\ fd_table' = IF FreeFds = {} THEN fd_table ELSE Allocated("INET_SOCKET", i)
      /\ mail' = [mail EXCEPT ![i] = <<>>]
  BY <1>1, <1>2 DEF InetSocket
<1>7. /\ inet_sockets' \in [InetSlots -> InetSlotOK] /\ inet_sockets'[i] = t
      /\ \A j \in InetSlots \ {i} : inet_sockets'[j] = inet_sockets[j]
  BY <1>2, <1>4, <1>6
<1>8. /\ mail' \in [InetSlots -> Seq(Datagrams)] /\ mail'[i] = <<>>
      /\ \A j \in InetSlots \ {i} : mail'[j] = mail[j]
  BY <1>2, <1>6
<1>9. RingInv'
  BY <1>3, <1>4, <1>5, <1>7, <1>8 DEF RingInv
<1>10. InetTypeOK'
  BY <1>7, <1>8 DEF InetTypeOK, InetSlotOK
<1>11. UsedInet' = IF FreeFds = {} THEN UsedInet ELSE UsedInet \cup {i}
  BY <1>2, <1>4, <1>7 DEF UsedInet
<1>12. /\ FdTypeOK' /\ InetSlotsOwned'
       /\ \A f \in InetFds : fd_table'[f] = fd_table[f]
       /\ \A f \in InetFds' : f \in InetFds \/ fd_table'[f].data = i
  <2>1. CASE FreeFds = {}
    <3>1. fd_table' = fd_table /\ UsedInet' = UsedInet
      BY <1>6, <1>11, <2>1
    <3> QED BY <3>1 DEF InetInv, FdTypeOK, InetFds, IsInet, InetSlotsOwned
  <2>2. CASE FreeFds # {}
    <3>1. fd_table' = Allocated("INET_SOCKET", i) /\ UsedInet' = UsedInet \cup {i}
      BY <1>6, <1>11, <2>2
    <3> QED BY <1>2, <2>2, <3>1, NewInetFd
  <2> QED BY <2>1, <2>2
<1>13. PortInv'
  <2>1. \A f \in InetFds : fd_table[f].data \in UsedInet /\ fd_table[f].data \in InetSlots
    BY OfInetFd
  <2>2. \A f \in InetFds' :
            \/ inet_sockets'[fd_table'[f].data].port = 0
            \/ /\ f \in InetFds
               /\ inet_sockets'[fd_table'[f].data].port = inet_sockets[fd_table[f].data].port
    BY <1>2, <1>4, <1>7, <1>12, <2>1
  <2>3. \A f \in InetFds' : LET p == inet_sockets'[fd_table'[f].data].port IN
            p \in {0, Automatic(f)} \/ p \notin AutomaticPorts
    BY <1>3, <2>2 DEF PortsOK
  <2>4. \A f, g \in InetFds' : LET p == inet_sockets'[fd_table'[f].data].port IN
            p # 0 /\ p \notin AutomaticPorts /\ p = inet_sockets'[fd_table'[g].data].port
                => f = g
    BY <1>3, <2>2 DEF PortsOK
  <2>5. \A j \in InetSlots : inet_sockets'[j].peer # Null => inet_sockets'[j].port # 0
    BY <1>3, <1>4, <1>7 DEF PortsOK
  <2> QED BY <2>3, <2>4, <2>5 DEF PortInv, PortsOK, Automatic, AutomaticPorts
<1> QED BY <1>9, <1>10, <1>12, <1>13 DEF InetInv

LEMMA InetCloseInv ==
    ASSUME InetInv, NEW f \in InetFds, InetClose(f), Inet(f).count = 0
    PROVE  InetInv'
<1>1. PICK i, t : i = fd_table[f].data /\ t = [inet_sockets[i] EXCEPT !.used = FALSE]
  OBVIOUS
<1>2. /\ inet_sockets \in [InetSlots -> InetSlotOK] /\ mail \in [InetSlots -> Seq(Datagrams)]
      /\ i \in InetSlots /\ i \in UsedInet /\ inet_sockets[i].count = 0 /\ f \in Fds
      /\ \A g \in InetFds : /\ fd_table[g].data \in UsedInet /\ fd_table[g].data \in InetSlots
                            /\ fd_table[g].data = i => g = f
  BY <1>1, OfInetFd, InetSlotTypes DEF InetInv
<1>3. /\ \A j \in InetSlots : Holds(inet_sockets[j], mail[j])
      /\ \A j \in InetSlots : ~inet_sockets[j].used => inet_sockets[j].count = 0
      /\ PortsOK(inet_sockets)
  BY DEF InetInv, RingInv, PortInv
<1>4. /\ t \in InetSlotOK /\ t.head = inet_sockets[i].head /\ t.tail = inet_sockets[i].tail
      /\ t.count = 0 /\ t.port = inet_sockets[i].port /\ t.peer = inet_sockets[i].peer
      /\ t.used = FALSE
  BY <1>1, <1>2 DEF InetSlotOK
<1>5. Holds(t, <<>>)
  BY <1>2, <1>3, <1>4, HoldsNothing
<1>6. /\ inet_sockets' = [inet_sockets EXCEPT ![i] = t]
      /\ fd_table' = [fd_table EXCEPT ![f] = Empty]
      /\ mail' = [mail EXCEPT ![i] = <<>>]
  BY <1>1, <1>2 DEF InetClose
<1>7. /\ inet_sockets' \in [InetSlots -> InetSlotOK] /\ inet_sockets'[i] = t
      /\ \A j \in InetSlots \ {i} : inet_sockets'[j] = inet_sockets[j]
  BY <1>2, <1>4, <1>6
<1>8. /\ mail' \in [InetSlots -> Seq(Datagrams)] /\ mail'[i] = <<>>
      /\ \A j \in InetSlots \ {i} : mail'[j] = mail[j]
  BY <1>2, <1>6
<1>9. RingInv'
  BY <1>3, <1>4, <1>5, <1>7, <1>8 DEF RingInv
<1>10. InetTypeOK'
  BY <1>7, <1>8 DEF InetTypeOK, InetSlotOK
<1>11. UsedInet' = UsedInet \ {i}
  BY <1>2, <1>4, <1>7 DEF UsedInet
<1>12. FdTypeOK' /\ fd_table'[f] = Empty /\ \A g \in Fds \ {f} : fd_table'[g] = fd_table[g]
  <2>1. fd_table \in [Fds -> [type : Types, data : Data]]
    BY DEF InetInv, FdTypeOK
  <2>2. Empty \in [type : Types, data : Data]
    BY DEF Empty, Types, Data
  <2>3. fd_table' \in [Fds -> [type : Types, data : Data]]
    BY <1>6, <2>1, <2>2
  <2> QED BY <1>2, <1>6, <2>1, <2>3 DEF FdTypeOK, Types, Data
<1>13. /\ InetFds' = InetFds \ {f}
       /\ \A g \in InetFds \ {f} : fd_table'[g] = fd_table[g]
  BY <1>2, <1>12 DEF InetFds, IsInet, Empty
<1>14. InetSlotsOwned'
  <2>1. /\ \A g, h \in InetFds : fd_table[g].data = fd_table[h].data => g = h
        /\ {fd_table[g].data : g \in InetFds} = UsedInet
    BY DEF InetInv, InetSlotsOwned
  <2>2. {fd_table'[g].data : g \in InetFds'} = {fd_table[g].data : g \in InetFds \ {f}}
    BY <1>13
  <2>3. {fd_table[g].data : g \in InetFds \ {f}} = UsedInet \ {i}
    BY <1>1, <1>2, <2>1
  <2> QED BY <1>11, <1>13, <2>1, <2>2, <2>3 DEF InetSlotsOwned
<1>15. PortInv'
  <2>1. \A g \in InetFds' : /\ g \in InetFds
                            /\ inet_sockets'[fd_table'[g].data] = inet_sockets[fd_table[g].data]
    BY <1>1, <1>2, <1>7, <1>13
  <2>2. \A j \in InetSlots : inet_sockets'[j].peer # Null => inet_sockets'[j].port # 0
    BY <1>3, <1>4, <1>7 DEF PortsOK
  <2>3. \A g \in InetFds' : LET p == inet_sockets'[fd_table'[g].data].port IN
            p \in {0, Automatic(g)} \/ p \notin AutomaticPorts
    BY <1>3, <2>1 DEF PortsOK
  <2>4. \A g, h \in InetFds' : LET p == inet_sockets'[fd_table'[g].data].port IN
            p # 0 /\ p \notin AutomaticPorts /\ p = inet_sockets'[fd_table'[h].data].port
                => g = h
    BY <1>3, <2>1 DEF PortsOK
  <2> QED BY <2>2, <2>3, <2>4 DEF PortInv, PortsOK, Automatic, AutomaticPorts
<1> QED BY <1>9, <1>10, <1>12, <1>14, <1>15 DEF InetInv

\* The other sockets leave these alone.
LEMMA InetUndisturbed ==
    ASSUME InetInv, UNCHANGED <<inet_sockets, mail>>, FdTypeOK', InetFds' = InetFds,
           \A f \in InetFds : fd_table'[f] = fd_table[f]
    PROVE  InetInv'
<1>1. UsedInet' = UsedInet /\ InetTypeOK' /\ RingInv'
  BY DEF UsedInet, InetInv, InetTypeOK, RingInv, Holds, Contents, At
<1>2. InetSlotsOwned'
  BY <1>1 DEF InetInv, InetSlotsOwned
<1>3. PortInv'
  BY DEF InetInv, PortInv, PortsOK, Automatic, AutomaticPorts
<1> QED BY <1>1, <1>2, <1>3 DEF InetInv

LEMMA InetInitInv ==
    ASSUME fd_table = [f \in Fds |-> Empty], InetInit
    PROVE  InetInv
<1> DEFINE s == [datagrams |-> [k \in Cells |-> Null], head |-> 0, tail |-> 0, count |-> 0,
                 address |-> "ANY", port |-> 0, peer |-> Null, used |-> FALSE]
<1>1. s \in InetSlotOK
  <2>1. 0 \in Cells /\ 0 \in 0 .. INET_DATAGRAM_COUNT /\ "ANY" \in Addresses /\ 0 \in Nat
    BY InetSocketsAssumption DEF InetSocketsAssumption, Cells, Addresses
  <2> QED BY <2>1 DEF InetSlotOK
<1>2. /\ inet_sockets = [i \in InetSlots |-> s] /\ mail = [i \in InetSlots |-> <<>>]
  BY DEF InetInit
<1>3. /\ s.count = 0 /\ s.tail = s.head /\ ~s.used /\ s.peer = Null
  OBVIOUS
<1> HIDE DEF s
<1>4. Holds(s, <<>>)
  BY <1>1, <1>3, HoldsNothing
<1>5. RingInv
  BY <1>2, <1>3, <1>4 DEF RingInv
<1>6. InetTypeOK
  BY <1>1, <1>2 DEF InetTypeOK, InetSlotOK
<1>7. UsedInet = {} /\ InetFds = {} /\ FdTypeOK
  BY <1>2, <1>3 DEF UsedInet, InetFds, IsInet, FdTypeOK, Empty, Types, Data
<1>8. InetSlotsOwned
  BY <1>7 DEF InetSlotsOwned
<1>9. PortInv
  BY <1>2, <1>3, <1>7 DEF PortInv, PortsOK
<1> QED BY <1>5, <1>6, <1>7, <1>8, <1>9 DEF InetInv

LEMMA InetStep ==
    ASSUME Careful, InetInv, InetNext
    PROVE  InetInv'
<1>1. \A h \in BadInetHabits : \A bad : OnlyIf(h, bad) => ~bad
  BY DEF Careful, OnlyIf
<1>2. "close unread datagrams" \in BadInetHabits /\ "bind automatic" \in BadInetHabits
  BY DEF BadInetHabits
<1>3. CASE InetSocket
  BY <1>3, InetSocketInv
<1>4. ASSUME NEW f \in InetFds, InetCalls(f) PROVE InetInv'
  <2>1. ASSUME NEW a \in Addresses, NEW p \in Ports,
               OnlyIf("bind automatic", p \in Automatic(3) .. Automatic(MAX_FD - 1)),
               InetBind(f, a, p)
        PROVE  InetInv'
    BY <1>1, <1>2, <2>1, InetBindInv DEF AutomaticPorts
  <2>2. ASSUME NEW a \in Addresses, NEW p \in Ports, InetConnect(f, a, p) PROVE InetInv'
    BY <2>2, InetConnectInv
  <2>3. ASSUME NEW a \in Addresses, NEW p \in Ports, NEW x \in Payloads,
               InetSendto(f, x, a, p)
        PROVE  InetInv'
    BY <2>3, InetSendtoInv
  <2>4. ASSUME NEW x \in Payloads, InetSend(f, x) PROVE InetInv'
    BY <2>4, InetSendInv
  <2>5. ASSUME InetRecvfrom(f) PROVE InetInv'
    BY <2>5, InetRecvfromInv
  <2>6. ASSUME OnlyIf("close unread datagrams", Inet(f).count # 0), InetClose(f)
        PROVE  InetInv'
    BY <1>1, <1>2, <2>6, InetCloseInv
  <2> QED BY <1>4, <2>1, <2>2, <2>3, <2>4, <2>5, <2>6 DEF InetCalls
<1> QED BY <1>3, <1>4 DEF InetNext
-----------------------------------------------------------------------------
(* Both families.                                                          *)

\* A call fills an empty entry of the table of descriptors, or empties one of its own.
LEMMA OtherFds ==
    ASSUME FdTypeOK, NEW T \in Types, NEW X \in Types \ {T, "EMPTY"},
           \/ UNCHANGED fd_table
           \/ FreeFds # {} /\ \E i \in Data : fd_table' = Allocated(T, i)
           \/ \E f \in Fds : /\ fd_table[f].type = T
                             /\ fd_table' = [fd_table EXCEPT ![f] = Empty]
    PROVE  /\ FdTypeOK'
           /\ \A f \in Fds : fd_table'[f].type = X <=> fd_table[f].type = X
           /\ \A f \in Fds : fd_table[f].type = X => fd_table'[f] = fd_table[f]
<1>1. fd_table \in [Fds -> [type : Types, data : Data]]
  BY DEF FdTypeOK
<1>2. CASE UNCHANGED fd_table
  BY <1>1, <1>2 DEF FdTypeOK, Types, Data
<1>3. ASSUME FreeFds # {}, NEW i \in Data, fd_table' = Allocated(T, i)
      PROVE  /\ FdTypeOK'
             /\ \A f \in Fds : fd_table'[f].type = X <=> fd_table[f].type = X
             /\ \A f \in Fds : fd_table[f].type = X => fd_table'[f] = fd_table[f]
  <2> DEFINE n == Lowest(FreeFds)
  <2>1. n \in Fds /\ fd_table[n].type = "EMPTY"
    BY <1>3, FreeFdIn
  <2>2. /\ fd_table' \in [Fds -> [type : Types, data : Data]]
        /\ fd_table'[n] = [type |-> T, data |-> i]
        /\ \A f \in Fds \ {n} : fd_table'[f] = fd_table[f]
    <3>1. [type |-> T, data |-> i] \in [type : Types, data : Data]
      BY <1>3
    <3>2. fd_table' = [fd_table EXCEPT ![n] = [type |-> T, data |-> i]]
      BY <1>3 DEF Allocated
    <3> HIDE DEF n
    <3> QED BY <1>1, <2>1, <3>1, <3>2
  <2> HIDE DEF n
  <2> QED BY <2>1, <2>2 DEF FdTypeOK, Types, Data
<1>4. ASSUME NEW g \in Fds, fd_table[g].type = T, fd_table' = [fd_table EXCEPT ![g] = Empty]
      PROVE  /\ FdTypeOK'
             /\ \A f \in Fds : fd_table'[f].type = X <=> fd_table[f].type = X
             /\ \A f \in Fds : fd_table[f].type = X => fd_table'[f] = fd_table[f]
  <2>1. Empty \in [type : Types, data : Data] /\ Empty.type = "EMPTY"
    BY DEF Empty, Types, Data
  <2>2. /\ fd_table' \in [Fds -> [type : Types, data : Data]]
        /\ fd_table'[g] = Empty /\ \A f \in Fds \ {g} : fd_table'[f] = fd_table[f]
    BY <1>1, <1>4, <2>1
  <2> QED BY <1>4, <2>1, <2>2 DEF FdTypeOK, Types, Data
<1> QED BY <1>2, <1>3, <1>4

LEMMA UnixTable ==
    ASSUME UnixInv, CarefulNext
    PROVE  \/ UNCHANGED fd_table
           \/ FreeFds # {} /\ \E i \in Data : fd_table' = Allocated("UNIX_SOCKET", i)
           \/ \E f \in Fds : /\ fd_table[f].type = "UNIX_SOCKET"
                             /\ fd_table' = [fd_table EXCEPT ![f] = Empty]
<1>1. UnixSlots \subseteq Data
  BY DEF Data
<1>2. CASE UnixSocket
  BY <1>1, <1>2, FreeUnixIn DEF UnixSocket
<1>3. ASSUME NEW f \in UnixFds, CarefulCall(f)
      PROVE  \/ UNCHANGED fd_table
             \/ FreeFds # {} /\ \E i \in Data : fd_table' = Allocated("UNIX_SOCKET", i)
             \/ \E g \in Fds : /\ fd_table[g].type = "UNIX_SOCKET"
                               /\ fd_table' = [fd_table EXCEPT ![g] = Empty]
  <2>1. CASE UnixAccept(f)
    BY <1>1, <2>1, FreeUnixIn DEF UnixAccept
  <2>2. CASE UnixClose(f)
    BY <2>2, OfUnixFd DEF UnixClose
  <2> QED BY <1>3, <2>1, <2>2
          DEF CarefulCall, UnixBind, UnixListen, UnixConnect, UnixAcceptNobody, UnixRecv,
              UnixSend
<1> QED BY <1>2, <1>3 DEF CarefulNext

LEMMA InetTable ==
    ASSUME InetInv, InetNext
    PROVE  \/ UNCHANGED fd_table
           \/ FreeFds # {} /\ \E i \in Data : fd_table' = Allocated("INET_SOCKET", i)
           \/ \E f \in Fds : /\ fd_table[f].type = "INET_SOCKET"
                             /\ fd_table' = [fd_table EXCEPT ![f] = Empty]
<1>1. InetSlots \subseteq Data
  BY DEF Data
<1>2. CASE InetSocket
  BY <1>1, <1>2, FreeInetIn DEF InetSocket
<1>3. ASSUME NEW f \in InetFds, InetCalls(f)
      PROVE  \/ UNCHANGED fd_table
             \/ \E g \in Fds : /\ fd_table[g].type = "INET_SOCKET"
                               /\ fd_table' = [fd_table EXCEPT ![g] = Empty]
  <2>1. CASE InetClose(f)
    BY <2>1, OfInetFd DEF InetClose
  <2> QED BY <1>3, <2>1 DEF InetCalls, InetBind, InetConnect, InetSend, InetSendto, InetRecvfrom
<1> QED BY <1>2, <1>3 DEF InetNext

SocketsInv == UnixInv /\ InetInv

LEMMA SocketsStep ==
    ASSUME Careful, SocketsInv, SocketsNext
    PROVE  SocketsInv' /\ StreamStep
<1>1. "UNIX_SOCKET" \in Types \ {"INET_SOCKET", "EMPTY"}
      /\ "INET_SOCKET" \in Types \ {"UNIX_SOCKET", "EMPTY"}
  BY DEF Types
<1>2. FdTypeOK
  BY DEF SocketsInv, UnixInv
<1>3. CASE UnixNext /\ UNCHANGED <<inet_sockets, mail>>
  <2>1. UnixInv' /\ StreamStep
    BY <1>3, UnixStep, UnixRefines DEF SocketsInv
  <2>2. /\ FdTypeOK'
        /\ \A f \in Fds : fd_table'[f].type = "INET_SOCKET" <=> fd_table[f].type = "INET_SOCKET"
        /\ \A f \in Fds : fd_table[f].type = "INET_SOCKET" => fd_table'[f] = fd_table[f]
    BY <1>1, <1>2, <1>3, UnixCases, UnixTable, OtherFds DEF SocketsInv
  <2>3. InetFds' = InetFds /\ \A f \in InetFds : fd_table'[f] = fd_table[f]
    BY <2>2 DEF InetFds, IsInet
  <2> QED BY <1>3, <2>1, <2>2, <2>3, InetUndisturbed DEF SocketsInv
<1>4. CASE InetNext /\ UNCHANGED <<unix_sockets, bound>>
  <2>1. InetInv'
    BY <1>4, InetStep DEF SocketsInv
  <2>2. /\ FdTypeOK'
        /\ \A f \in Fds : fd_table'[f].type = "UNIX_SOCKET" <=> fd_table[f].type = "UNIX_SOCKET"
        /\ \A f \in Fds : fd_table[f].type = "UNIX_SOCKET" => fd_table'[f] = fd_table[f]
    BY <1>1, <1>2, <1>4, InetTable, OtherFds DEF SocketsInv
  <2>3. UnixFds' = UnixFds /\ \A f \in UnixFds : fd_table'[f] = fd_table[f]
    BY <2>2 DEF UnixFds, IsUnix
  <2> QED BY <1>4, <2>1, <2>2, <2>3, UnixUndisturbed DEF SocketsInv, StreamStep
<1> QED BY <1>3, <1>4 DEF SocketsNext

\* A step that is none of a socket.
LEMMA SocketsStay ==
    ASSUME SocketsInv, UNCHANGED <<fd_table, sockets>>
    PROVE  SocketsInv' /\ UNCHANGED <<partners, askers, inboxes>>
<1>1. FdTypeOK' /\ UnixFds' = UnixFds /\ InetFds' = InetFds
  BY DEF SocketsInv, UnixInv, FdTypeOK, UnixFds, IsUnix, InetFds, IsInet
<1> QED BY <1>1, UnixUndisturbed, InetUndisturbed DEF SocketsInv, sockets

LEMMA SocketsInvariance ==
    ASSUME Careful
    PROVE  SocketsSpec => []SocketsInv
<1>1. SocketsInit => SocketsInv
  BY UnixInitInv, InetInitInv DEF SocketsInit, SocketsInv
<1>2. SocketsInv /\ [SocketsNext]_<<fd_table, sockets>> => SocketsInv'
  BY SocketsStep, SocketsStay
<1> QED BY <1>1, <1>2, PTL DEF SocketsSpec

\* Slots, positions, counts and ports stay what they are declared to be (vfs.c:40-75).
THEOREM SocketTypes ==
    ASSUME Careful
    PROVE  SocketsSpec => [](UnixTypeOK /\ InetTypeOK)
<1>1. SocketsInv => UnixTypeOK /\ InetTypeOK
  BY DEF SocketsInv, UnixInv, InetInv
<1> QED BY <1>1, SocketsInvariance, PTL

\* No failure of socket or accept loses a slot of either kind (vfs.c:392-419, 490-503).
THEOREM EverySlotHasItsDescriptor ==
    ASSUME Careful
    PROVE  SocketsSpec => []SlotsOwned
<1>1. SocketsInv => SlotsOwned
  BY DEF SocketsInv, UnixInv, InetInv, SlotsOwned
<1> QED BY <1>1, SocketsInvariance, PTL

\* A connect to a path can reach one socket only (vfs.c:442-443, 474-476).
THEOREM APathHasOneListener ==
    ASSUME Careful
    PROVE  SocketsSpec => []OneListener
<1>1. SocketsInv => OneListener
  BY OneListenerHolds DEF SocketsInv
<1> QED BY <1>1, SocketsInvariance, PTL

\* Who is connected to a listener is the client that it accepts next (vfs.c:474-481,
\* 490-498).
THEOREM EveryClientIsNoted ==
    ASSUME Careful
    PROVE  SocketsSpec => []NoClientForgotten
<1>1. SocketsInv => NoClientForgotten
  BY DEF SocketsInv, UnixInv
<1> QED BY <1>1, SocketsInvariance, PTL

\* The calls of AF_UNIX sockets, on slots that are used again and descriptors that come to
\* name other sockets, implement streams (vfs.c:119-138, 332-335, 469-516).
THEOREM SocketsAreStreams ==
    ASSUME Careful
    PROVE  SocketsSpec => StreamsKept
<1>1. SocketsInit => Stream!Init
  BY NoneIsNoSlot
  DEF SocketsInit, UnixInit, Stream!Init, Partner, UsedUnix
<1>2. SocketsInv /\ [SocketsNext]_<<fd_table, sockets>>
        => [Stream!Next]_<<partners, askers, inboxes>>
  BY SocketsStep, SocketsStay DEF StreamStep
<1> QED BY <1>1, <1>2, SocketsInvariance, PTL
        DEF SocketsSpec, StreamsKept, Stream!Spec, partners, askers, inboxes

\* A datagram socket receives what it was sent since it was opened, in that order, whatever
\* its slot held before (vfs.c:165-182, 391-405, 535-552).
THEOREM DatagramsArriveInOrder ==
    ASSUME Careful
    PROVE  SocketsSpec => []MailKept
<1>1. SocketsInv => MailKept
  BY DEF SocketsInv, InetInv, RingInv, Holds, MailKept, UsedInet
<1> QED BY <1>1, SocketsInvariance, PTL

\* No two datagram sockets come to have one port (vfs.c:429-434, 463, 531).
THEOREM EveryPortHasOneSocket ==
    ASSUME Careful
    PROVE  SocketsSpec => []PortsApart
<1>1. SocketsInv => PortsApart
  BY PortsApartHolds DEF SocketsInv
<1> QED BY <1>1, SocketsInvariance, PTL
=============================================================================
