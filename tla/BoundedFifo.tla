----------------------------- MODULE BoundedFifo -----------------------------
(***************************************************************************)
(* What the rings of the kernel promise, the keyboard buffer of            *)
(* drivers/keyboard.c and the pipe of fs/vfs.c: items come out in the      *)
(* order they went in, each once, and none is lost but one that comes when *)
(* Capacity of them already wait, or those that wait when the ring is      *)
(* emptied.                                                                *)
(***************************************************************************)
EXTENDS Integers, Sequences

CONSTANTS Items, Capacity

VARIABLES
    queue,
    dropped,    \* changes whenever an item is dropped
    emptied     \* changes whenever the ring is emptied

Init == queue = <<>> /\ dropped = FALSE /\ emptied \in BOOLEAN

Put(x) ==
    /\ Len(queue) < Capacity
    /\ queue' = Append(queue, x)
    /\ UNCHANGED <<dropped, emptied>>

Drop ==
    /\ Len(queue) = Capacity
    /\ dropped' = ~dropped
    /\ UNCHANGED <<queue, emptied>>

Get ==
    /\ queue # <<>>
    /\ queue' = Tail(queue)
    /\ UNCHANGED <<dropped, emptied>>

Empty ==
    /\ emptied' = ~emptied
    /\ queue' = <<>>
    /\ UNCHANGED dropped

Next == Get \/ Drop \/ Empty \/ \E x \in Items : Put(x)

Spec == Init /\ [][Next]_<<queue, dropped, emptied>>
==============================================================================
