----------------------------- MODULE InetSockets -----------------------------
(***************************************************************************)
(* The AF_INET datagram sockets of fs/vfs.c, which reach only each other:  *)
(* a call is one action.  Left out are the lengths (a datagram fits or is  *)
(* refused at once, and is cut to the reader's buffer) and the source's    *)
(* address, which is LOOP always.  A socket is connected when it has a     *)
(* peer: the peer of one that is not connected is never read.              *)
(*                                                                         *)
(* A slot of inet_sockets that is taken again keeps head and tail, and the *)
(* port that connect and sendto choose is not compared with any.  The      *)
(* habits of programs that meet this are BadInetHabits.                    *)
(***************************************************************************)
EXTENDS Programs, Descriptors, SequencesExt

CONSTANTS
    INET_SOCKET_COUNT, INET_DATAGRAM_COUNT,
    FirstAutomatic,     \* 49152
    Ports,              \* the ports that programs name
    Payloads            \* what a datagram can hold

InetSlots == 0 .. INET_SOCKET_COUNT - 1
Cells == 0 .. INET_DATAGRAM_COUNT - 1
Addresses == {"ANY", "LOOP"}    \* 0 and 127.0.0.1; inet_address refuses others

BadInetHabits == {
    "close unread datagrams",   \* close a socket with datagrams that were not received
    "bind automatic" }          \* bind a port that the kernel chooses from

\* What connect and sendto give to a socket that has no port.
Automatic(f) == FirstAutomatic + (f - 3)

ASSUME InetSocketsAssumption ==
    /\ INET_SOCKET_COUNT \in Nat \ {0} /\ INET_DATAGRAM_COUNT \in Nat \ {0}
    /\ FirstAutomatic \in Nat \ {0} /\ Ports \subseteq Nat \ {0}
    /\ Null \notin InetSlots

VARIABLES
    inet_sockets,
    mail        \* history: what each slot's socket was sent and has not received

InetInit ==
    /\ inet_sockets = [i \in InetSlots |->
            [datagrams |-> [k \in Cells |-> Null], head |-> 0, tail |-> 0, count |-> 0,
             address |-> "ANY", port |-> 0, peer |-> Null, used |-> FALSE]]
    /\ mail = [i \in InetSlots |-> <<>>]
-----------------------------------------------------------------------------
IsInet(f) == f \in Fds /\ fd_table[f].type = "INET_SOCKET"
InetFds == {f \in Fds : IsInet(f)}
Inet(f) == inet_sockets[fd_table[f].data]

UsedInet == {i \in InetSlots : inet_sockets[i].used}
FreeInet == InetSlots \ UsedInet

\* Mutant: a socket for which there is no descriptor stays used.
InetOpenedKept(s) ==
    [s EXCEPT !.used = TRUE, !.peer = Null, !.address = "ANY", !.port = 0, !.count = 0]

\* Mutant: head starts again at 0, and tail does not.
InetOpenedResetsHead(s) ==
    [s EXCEPT !.used = FreeFds # {}, !.peer = Null, !.address = "ANY", !.port = 0,
              !.count = 0, !.head = 0]

\* What vfs_socket makes of the slot s; with no descriptor left it is given back.
InetOpened(s) ==
    [s EXCEPT !.used = FreeFds # {}, !.peer = Null, !.address = "ANY", !.port = 0,
              !.count = 0]

InetSocket ==
    LET i == Lowest(FreeInet) IN
    /\ FreeInet # {}
    /\ inet_sockets' = [inet_sockets EXCEPT ![i] = InetOpened(@)]
    /\ fd_table' = IF FreeFds = {} THEN fd_table ELSE Allocated("INET_SOCKET", i)
    /\ mail' = [mail EXCEPT ![i] = <<>>]

\* Mutant: ANY and LOOP are taken for addresses apart.
TakenSameAddress(i, a, p) ==
    i \in UsedInet /\ inet_sockets[i].port = p /\ inet_sockets[i].address = a

\* Whether the slot i is in the way of a bind to the port p of the address a.
Taken(i, a, p) ==
    /\ i \in UsedInet /\ inet_sockets[i].port = p
    /\ inet_sockets[i].address = "ANY" \/ a = "ANY" \/ inet_sockets[i].address = a

InetBind(f, a, p) ==
    /\ \A i \in InetSlots \ {fd_table[f].data} : ~Taken(i, a, p)
    /\ inet_sockets' = [inet_sockets EXCEPT ![fd_table[f].data].address = a,
                                            ![fd_table[f].data].port = p]
    /\ UNCHANGED <<fd_table, mail>>

\* The port that a call of connect or sendto leaves to the socket.
PortOf(f) == IF Inet(f).port = 0 THEN Automatic(f) ELSE Inet(f).port

InetConnect(f, a, p) ==
    /\ inet_sockets' = [inet_sockets EXCEPT
            ![fd_table[f].data].port = PortOf(f),
            ![fd_table[f].data].peer = [address |-> a, port |-> p]]
    /\ UNCHANGED <<fd_table, mail>>

After(k) == (k + 1) % INET_DATAGRAM_COUNT

\* The sockets, in the table s, that a datagram to the port p of the address a is for.
Receivers(s, a, p) ==
    {i \in InetSlots : s[i].used /\ s[i].port = p /\ s[i].address \in {"ANY", a}}

\* Mutant: a full ring is written over.
ReceivedAnyway(s, d) ==
    [s EXCEPT !.datagrams[s.tail] = d, !.tail = After(@), !.count = @ + 1]

\* The socket s once the datagram d is in its ring.
Received(s, d) ==
    IF s.count = INET_DATAGRAM_COUNT THEN s
    ELSE [s EXCEPT !.datagrams[s.tail] = d, !.tail = After(@), !.count = @ + 1]

\* inet_send: the first of the receivers gets d, if there is room.
Deliver(s, d, a, p) ==
    LET i == Lowest(Receivers(s, a, p)) IN
    IF Receivers(s, a, p) = {} THEN inet_sockets' = s /\ UNCHANGED mail
    ELSE /\ inet_sockets' = [s EXCEPT ![i] = Received(@, d)]
         /\ mail' = IF s[i].count = INET_DATAGRAM_COUNT THEN mail
                    ELSE [mail EXCEPT ![i] = Append(@, d)]

\* vfs_socket_send, to the peer.  write never comes here: k_sys_write refuses these sockets.
InetSend(f, x) ==
    /\ Inet(f).peer # Null
    /\ Deliver(inet_sockets, [from |-> Inet(f).port, payload |-> x],
               Inet(f).peer.address, Inet(f).peer.port)
    /\ UNCHANGED fd_table

\* A sender without a port has its automatic one before the receiver is looked for.
InetSendto(f, x, a, p) ==
    /\ Deliver([inet_sockets EXCEPT ![fd_table[f].data].port = PortOf(f)],
               [from |-> PortOf(f), payload |-> x], a, p)
    /\ UNCHANGED fd_table

\* vfs_socket_recvfrom, and recv and vfs_read by way of it.
InetRecvfrom(f) ==
    LET i == fd_table[f].data IN
    /\ inet_sockets[i].count # 0
    /\ inet_sockets' = [inet_sockets EXCEPT ![i].head = After(@), ![i].count = @ - 1]
    /\ mail' = [mail EXCEPT ![i] = Tail(@)]
    /\ UNCHANGED fd_table

InetClose(f) ==
    /\ inet_sockets' = [inet_sockets EXCEPT ![fd_table[f].data].used = FALSE]
    /\ fd_table' = [fd_table EXCEPT ![f] = Empty]
    /\ mail' = [mail EXCEPT ![fd_table[f].data] = <<>>]
-----------------------------------------------------------------------------
(* The programs, with the habits they have.                                *)

InetCalls(f) ==
    \/ \E a \in Addresses, p \in Ports :
        \/ /\ OnlyIf("bind automatic", p \in Automatic(3) .. Automatic(MAX_FD - 1))
           /\ InetBind(f, a, p)
        \/ InetConnect(f, a, p)
        \/ \E x \in Payloads : InetSendto(f, x, a, p)
    \/ \E x \in Payloads : InetSend(f, x)
    \/ InetRecvfrom(f)
    \/ /\ OnlyIf("close unread datagrams", Inet(f).count # 0)
       /\ InetClose(f)

InetNext == InetSocket \/ \E f \in InetFds : InetCalls(f)
-----------------------------------------------------------------------------
(* Properties.                                                             *)

Datagrams == [from : Nat \ {0}, payload : Payloads]

InetTypeOK ==
    /\ inet_sockets \in [InetSlots ->
            [datagrams : [Cells -> Datagrams \cup {Null}], head : Cells, tail : Cells,
             count : 0 .. INET_DATAGRAM_COUNT, address : Addresses, port : Nat,
             peer : [address : Addresses, port : Ports] \cup {Null},
             used : BOOLEAN]]
    /\ mail \in [InetSlots -> Seq(Datagrams)]

\* The datagrams that the next calls of recvfrom return.
Contents(s) ==
    [k \in 1 .. s.count |-> s.datagrams[(s.head + k - 1) % INET_DATAGRAM_COUNT]]

\* A socket receives what it was sent since it was opened, in that order, and nothing else,
\* whatever its slot held before (vfs.c:165-182, 391-405, 535-552).
MailKept == \A i \in UsedInet : Contents(inet_sockets[i]) = mail[i]

\* No two sockets have one port, so that a datagram has one receiver, whichever of bind,
\* connect and sendto gave them theirs (vfs.c:429-434, 463, 531).
PortsApart ==
    \A i, j \in UsedInet : inet_sockets[i].port \in {0} \/ i = j
                            \/ inet_sockets[i].port # inet_sockets[j].port

InetSlotsOwned ==
    /\ \A f, g \in InetFds : fd_table[f].data = fd_table[g].data => f = g
    /\ {fd_table[f].data : f \in InetFds} = UsedInet
==============================================================================
