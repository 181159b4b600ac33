------------------------------ MODULE Sockets -------------------------------
(***************************************************************************)
(* Sockets of both families.  All that they share is the table of          *)
(* descriptors, which either may fill.                                     *)
(***************************************************************************)
EXTENDS UnixSockets, InetSockets

sockets == <<unix_sockets, bound, inet_sockets, mail>>

SocketsInit == fd_table = [f \in Fds |-> Empty] /\ UnixInit /\ InetInit

SocketsNext ==
    \/ UnixNext /\ UNCHANGED <<inet_sockets, mail>>
    \/ InetNext /\ UNCHANGED <<unix_sockets, bound>>

SocketsSpec == SocketsInit /\ [][SocketsNext]_<<fd_table, sockets>>

\* Every socket in use has one descriptor, and every descriptor of a socket one in use: no
\* failure of socket or accept, for want of a slot or of a descriptor, loses a slot
\* (vfs.c:392-419, 490-503).
SlotsOwned == UnixSlotsOwned /\ InetSlotsOwned
==============================================================================
