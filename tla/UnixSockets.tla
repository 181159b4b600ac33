----------------------------- MODULE UnixSockets -----------------------------
(***************************************************************************)
(* The AF_UNIX stream sockets of fs/vfs.c: a call is one action.  The ring *)
(* of a socket is a sequence, because its positions and its count only     *)
(* ever move together; that such a ring is a queue is shown in Pipes, of   *)
(* the same code.                                                          *)
(*                                                                         *)
(* A socket is a slot of unix_sockets.  Other sockets remember slots (peer)*)
(* and descriptors (pending) that may have been given up and taken again,  *)
(* and a slot taken again keeps what is not reset.  The habits of programs *)
(* that meet this are BadUnixHabits.                                       *)
(***************************************************************************)
EXTENDS Programs, Descriptors, SequencesExt, FiniteSets

CONSTANTS
    UNIX_SOCKET_COUNT, UNIX_SOCKET_QUEUE,
    Paths,      \* the paths that sockets are bound to
    Bytes,      \* what a byte can be
    Sizes       \* the lengths that sends and receives ask for

UnixSlots == 0 .. UNIX_SOCKET_COUNT - 1
NONE == -1      \* UNIX_SOCKET_NONE

BadUnixHabits == {
    "close unread",             \* close a socket with bytes that were not received
    "open over hang-up",        \* open or accept while the partner of a socket is gone
    "close listener",
    "listen unbound",           \* listen without a bind of one's own
    "listen connected",         \* listen on a socket that has or had a partner
    "connect again",            \* connect a socket that is connected, or listens
    "connect while pending",    \* connect to a listener that has a client waiting
    "open over lost client",    \* open or accept while a listener's client is closed
    "accept without room" }     \* accept with no socket or no descriptor left

ASSUME UnixSocketsAssumption ==
    /\ UNIX_SOCKET_COUNT \in Nat \ {0} /\ UNIX_SOCKET_QUEUE \in Nat \ {0}
    /\ Null \notin Paths \cup UnixSlots
    /\ Sizes \subseteq Nat \ {0}      \* a call for 0 bytes changes nothing

VARIABLES
    unix_sockets,
    bound       \* history: the slots whose socket was bound since it was opened

\* .bss: an accepted socket in a new slot has 0, not NONE, as its pending descriptor.
UnixInit ==
    /\ unix_sockets = [i \in UnixSlots |->
            [queue |-> <<>>, peer |-> 0, pending |-> 0, used |-> FALSE,
             listening |-> FALSE, connected |-> FALSE, path |-> Null]]
    /\ bound = {}
-----------------------------------------------------------------------------
IsUnix(f) == f \in Fds /\ fd_table[f].type = "UNIX_SOCKET"
UnixFds == {f \in Fds : IsUnix(f)}
Unix(f) == unix_sockets[fd_table[f].data]

UsedUnix == {i \in UnixSlots : unix_sockets[i].used}
FreeUnix == UnixSlots \ UsedUnix

\* What vfs_socket makes of the slot s; with no descriptor left it is given back.
UnixOpened(s) ==
    [s EXCEPT !.used = FreeFds # {}, !.listening = FALSE, !.connected = FALSE,
              !.peer = NONE, !.pending = NONE]

UnixSocket ==
    LET i == Lowest(FreeUnix) IN
    /\ FreeUnix # {}
    /\ unix_sockets' = [unix_sockets EXCEPT ![i] = UnixOpened(@)]
    /\ fd_table' = IF FreeFds = {} THEN fd_table ELSE Allocated("UNIX_SOCKET", i)
    /\ bound' = bound \ {i}

\* Mutant: looks for the path among the sockets that listen.
UnixBindAmongListeners(f, p) ==
    /\ \A i \in UsedUnix \ {fd_table[f].data} :
            unix_sockets[i].listening => unix_sockets[i].path # p
    /\ unix_sockets' = [unix_sockets EXCEPT ![fd_table[f].data].path = p]
    /\ bound' = bound \cup {fd_table[f].data}
    /\ UNCHANGED fd_table

UnixBind(f, p) ==
    /\ \A i \in UsedUnix \ {fd_table[f].data} : unix_sockets[i].path # p
    /\ unix_sockets' = [unix_sockets EXCEPT ![fd_table[f].data].path = p]
    /\ bound' = bound \cup {fd_table[f].data}
    /\ UNCHANGED fd_table

UnixListen(f) ==
    /\ Unix(f).path # Null
    /\ unix_sockets' = [unix_sockets EXCEPT ![fd_table[f].data].listening = TRUE]
    /\ UNCHANGED <<fd_table, bound>>

Listeners(p) == {i \in UsedUnix : unix_sockets[i].listening /\ unix_sockets[i].path = p}

\* The first socket that listens at p notes the descriptor f.
UnixConnect(f, p) ==
    LET client == fd_table[f].data
        server == Lowest(Listeners(p))
    IN /\ Listeners(p) # {}
       /\ unix_sockets' = [unix_sockets EXCEPT ![client].peer = server,
                                               ![client].connected = TRUE,
                                               ![server].pending = f]
       /\ UNCHANGED <<fd_table, bound>>

CanAccept(f) == Unix(f).listening /\ Unix(f).pending # NONE

\* Mutant: the client goes on with the listener as its peer.
UnixAcceptOneSided(f) ==
    LET client == Unix(Unix(f).pending)
        a == Lowest(FreeUnix)
    IN /\ CanAccept(f) /\ IsUnix(Unix(f).pending) /\ FreeUnix # {}
       /\ unix_sockets' = [unix_sockets EXCEPT
              ![fd_table[f].data].pending = NONE,
              ![a].used = TRUE, ![a].connected = TRUE,
              ![a].peer = fd_table[Unix(f).pending].data]
       /\ fd_table' = IF FreeFds = {} THEN fd_table ELSE Allocated("UNIX_SOCKET", a)
       /\ UNCHANGED bound

\* A new socket becomes the peer of the one that the pending descriptor now names.  It
\* stays used when there is no descriptor for it.
UnixAccept(f) ==
    LET client == fd_table[Unix(f).pending].data
        a == Lowest(FreeUnix)
    IN /\ CanAccept(f) /\ IsUnix(Unix(f).pending) /\ FreeUnix # {}
       /\ unix_sockets' = [unix_sockets EXCEPT
              ![fd_table[f].data].pending = NONE,
              ![a].used = TRUE, ![a].connected = TRUE, ![a].peer = client,
              ![client].peer = a]
       /\ fd_table' = IF FreeFds = {} THEN fd_table ELSE Allocated("UNIX_SOCKET", a)
       /\ bound' = bound \ {a}

\* The client is gone, or there is no socket for its partner: it is forgotten.
UnixAcceptNobody(f) ==
    /\ CanAccept(f) /\ (IsUnix(Unix(f).pending) => FreeUnix = {})
    /\ unix_sockets' = [unix_sockets EXCEPT ![fd_table[f].data].pending = NONE]
    /\ UNCHANGED <<fd_table, bound>>

\* Mutant: looks at the sender's connected and not at the receiver's.
UnixSendUnchecked(f, s) ==
    LET to == Unix(f).peer IN
    /\ to \in UsedUnix /\ Unix(f).connected
    /\ unix_sockets' = [unix_sockets EXCEPT ![to].queue =
            @ \o SubSeq(s, 1, Min({Len(s), UNIX_SOCKET_QUEUE - Len(@)}))]
    /\ UNCHANGED <<fd_table, bound>>

\* vfs_socket_send, and vfs_write: as much of s as the peer's ring takes.
UnixSend(f, s) ==
    LET to == Unix(f).peer IN
    /\ to \in UsedUnix /\ unix_sockets[to].connected
    /\ unix_sockets' = [unix_sockets EXCEPT ![to].queue =
            @ \o SubSeq(s, 1, Min({Len(s), UNIX_SOCKET_QUEUE - Len(@)}))]
    /\ UNCHANGED <<fd_table, bound>>

\* vfs_socket_recv, and vfs_read, of up to n bytes.
UnixRecv(f, n) ==
    /\ unix_sockets' = [unix_sockets EXCEPT ![fd_table[f].data].queue =
            SubSeq(@, Min({n, Len(@)}) + 1, Len(@))]
    /\ UNCHANGED <<fd_table, bound>>

UnixClose(f) ==
    LET i == fd_table[f].data
        hungUp == IF Unix(f).peer \in UnixSlots
                  THEN [unix_sockets EXCEPT ![Unix(f).peer].connected = FALSE]
                  ELSE unix_sockets
    IN /\ unix_sockets' = [hungUp EXCEPT ![i].used = FALSE]
       /\ fd_table' = [fd_table EXCEPT ![f] = Empty]
       /\ bound' = bound \ {i}
-----------------------------------------------------------------------------
(* The programs, with the habits they have.                                *)

HungUp == \E i \in UsedUnix : unix_sockets[i].peer \in FreeUnix
LostClient == \E i \in UsedUnix :
    unix_sockets[i].listening /\ unix_sockets[i].pending \notin UnixFds \cup {NONE}

MayOpen == OnlyIf("open over hang-up", HungUp) /\ OnlyIf("open over lost client", LostClient)

UnixOpen == MayOpen /\ UnixSocket

UnixCalls(f) ==
    \/ \E p \in Paths : UnixBind(f, p)
    \/ /\ OnlyIf("listen unbound", fd_table[f].data \notin bound)
       /\ OnlyIf("listen connected", Unix(f).peer # NONE)
       /\ UnixListen(f)
    \/ \E p \in Paths :
        /\ OnlyIf("connect again", Unix(f).peer # NONE \/ Unix(f).listening)
        /\ OnlyIf("connect while pending",
                  \E i \in Listeners(p) : unix_sockets[i].pending # NONE)
        /\ UnixConnect(f, p)
    \/ /\ MayOpen
       /\ OnlyIf("accept without room", FreeFds = {})
       /\ UnixAccept(f)
    \/ /\ OnlyIf("accept without room", IsUnix(Unix(f).pending))
       /\ UnixAcceptNobody(f)
    \/ \E n \in Sizes : UnixRecv(f, n) \/ \E s \in [1 .. n -> Bytes] : UnixSend(f, s)
    \/ /\ OnlyIf("close unread", Unix(f).queue # <<>>)
       /\ OnlyIf("close listener", Unix(f).listening)
       /\ UnixClose(f)

UnixNext == UnixOpen \/ \E f \in UnixFds : UnixCalls(f)
-----------------------------------------------------------------------------
(* Properties.                                                             *)

UnixTypeOK ==
    /\ unix_sockets \in [UnixSlots ->
            [queue : Seq(Bytes), peer : UnixSlots \cup {NONE}, pending : Fds \cup {0, NONE},
             used : BOOLEAN, listening : BOOLEAN, connected : BOOLEAN,
             path : Paths \cup {Null}]]
    /\ \A i \in UnixSlots : Len(unix_sockets[i].queue) <= UNIX_SOCKET_QUEUE
    /\ bound \subseteq UnixSlots

\* The peer of a socket, once each is the other's.
Partner(i) ==
    LET j == unix_sockets[i].peer IN
    IF /\ unix_sockets[i].used /\ j \in UnixSlots \ {i}
       /\ unix_sockets[j].used /\ unix_sockets[j].peer = i THEN j ELSE NONE

Stream == INSTANCE Streams WITH
    Ends <- UnixSlots, Capacity <- UNIX_SOCKET_QUEUE, NoEnd <- NONE,
    partner <- [i \in UnixSlots |-> Partner(i)],
    asking <- {i \in UsedUnix : unix_sockets[i].connected /\ Partner(i) = NONE},
    inbox <- [i \in UnixSlots |->
                IF unix_sockets[i].used THEN unix_sockets[i].queue ELSE <<>>]

\* What is sent on a stream arrives at its other end and nowhere else, a new socket has
\* nothing to read, only who asked for a partner gets one, and keeps it until an end closes
\* (vfs.c:119-138, 332-335, 469-516).
StreamsKept == Stream!Spec

\* Every socket in use has one descriptor, and every descriptor of a socket one in use: no
\* failure of socket or accept loses a slot (vfs.c:407-419, 490-503).
UnixSlotsOwned ==
    /\ \A f, g \in UnixFds : fd_table[f].data = fd_table[g].data => f = g
    /\ {fd_table[f].data : f \in UnixFds} = UsedUnix

\* A client that is connected to a listener is the one that it will accept next: none waits
\* for ever (vfs.c:474-481, 490-498).
NoClientForgotten ==
    \A f \in UnixFds :
        LET j == Unix(f).peer IN
        Unix(f).connected /\ j \in UsedUnix /\ unix_sockets[j].listening
            => unix_sockets[j].pending = f

\* A connect to a path can reach one socket only, one that was bound to it (vfs.c:442-443,
\* 474-476).
OneListener ==
    \A p \in Paths : Cardinality(Listeners(p)) <= 1 /\ Listeners(p) \subseteq bound

\* A socket that was never connected has nothing to read.  The code does not empty the ring
\* of a slot that is used again (vfs.c:407-417).
FreshIsEmpty ==
    \A i \in UsedUnix : unix_sockets[i].peer = NONE => unix_sockets[i].queue = <<>>
==============================================================================
