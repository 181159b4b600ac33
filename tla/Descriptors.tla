----------------------------- MODULE Descriptors -----------------------------
(***************************************************************************)
(* The table of descriptors of fs/vfs.c, one for all tasks, and the search *)
(* for a free one.  Descriptors 0 to 2 are the console's for ever and are  *)
(* left out; the offset of a file is in Transfers.                          *)
(***************************************************************************)
EXTENDS Integers

CONSTANTS MAX_FD, Null

ASSUME DescriptorsAssumption == MAX_FD \in Nat /\ MAX_FD > 3

VARIABLE
    fd_table    \* type, and in data what private_data points to

Fds == 3 .. MAX_FD - 1

Empty == [type |-> "EMPTY", data |-> Null]

Lowest(S) == CHOOSE x \in S : \A y \in S : x <= y

FreeFds == {f \in Fds : fd_table[f].type = "EMPTY"}

\* The table once allocate_fd(type, data) has found a free descriptor.
Allocated(type, data) ==
    [fd_table EXCEPT ![Lowest(FreeFds)] = [type |-> type, data |-> data]]
==============================================================================
