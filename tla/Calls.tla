-------------------------------- MODULE Calls --------------------------------
(***************************************************************************)
(* The boot, and the calls of sockets, of files and of memory.  All that   *)
(* the calls share is fd_table.  A behaviour therefore is a boot or uses   *)
(* one family of calls, chosen at the start; programs with AF_UNIX sockets *)
(* also ask for a datagram socket when there is no descriptor left for it. *)
(***************************************************************************)
EXTENDS Sockets, Transfers, AddressSpace, Boot

VARIABLE family

Init ==
    /\ SocketsInit /\ TransfersInit /\ MemoryInit
    /\ \/ family \in {"unix", "inet", "files", "memory"} /\ BootInit(<<>>)
       \/ family = "boot" /\ \E ms \in Archives : BootInit(ms)

Next ==
    /\ UNCHANGED family
    /\ \/ /\ family = "unix"
          /\ UnixNext
          /\ UNCHANGED <<inet_sockets, mail, transfers, memory, boot>>
       \/ /\ family = "unix"
          /\ FreeFds = {} /\ InetSocket
          /\ UNCHANGED <<unix_sockets, bound, transfers, memory, boot>>
       \/ /\ family = "inet"
          /\ InetNext
          /\ UNCHANGED <<unix_sockets, bound, transfers, memory, boot>>
       \/ /\ family = "files"
          /\ TransfersNext
          /\ UNCHANGED <<sockets, memory, boot>>
       \/ /\ family = "memory"
          /\ MemoryNext
          /\ UNCHANGED <<fd_table, sockets, transfers, boot>>
       \/ /\ family = "boot"
          /\ BootNext
          /\ UNCHANGED <<fd_table, sockets, transfers, memory>>

Spec == Init /\ [][Next]_<<fd_table, sockets, transfers, memory, boot, family>>

\* Every variable has its type.
TypeOK == UnixTypeOK /\ InetTypeOK /\ TransfersTypeOK /\ MemoryTypeOK /\ BootTypeOK
==============================================================================
