----------------------------- MODULE RoundRobin -----------------------------
(***************************************************************************)
(* What the task list of sys/kernel/task.c promises: the tasks take turns  *)
(* in a fixed cyclic order.  queue is that order from the task that runs   *)
(* next to the one that runs now.  A turn moves the first task to the end; *)
(* a fork puts its child behind the head of the list, the idle task; an    *)
(* exit takes the running task out.  Nothing else reorders or drops tasks. *)
(***************************************************************************)
EXTENDS Integers, SequencesExt

CONSTANTS
    Tasks,  \* the task_t's
    Idle,   \* the one task_init made, head of the list for ever
    First   \* the one task_create made, which runs the shell

VARIABLE queue

Init == queue = <<First, Idle>>

Turn == queue' = Append(Tail(queue), Head(queue))

Join ==
    \E t \in Tasks \ Range(queue), i \in DOMAIN queue :
        /\ queue[i] = Idle
        /\ queue' = InsertAt(queue, i + 1, t)

Leave ==
    /\ Last(queue) # Idle
    /\ queue' = Front(queue)

Next == Turn \/ Join \/ Leave

Spec == Init /\ [][Next]_queue
==============================================================================
