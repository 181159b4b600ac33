------------------------------- MODULE MCTasks -------------------------------
(* Constants for TLC: which program points a timer tick may come at.           *)
EXTENDS Tasks

CONSTANTS idle, shell, child, grandchild, null

\* Any point, as the code has it.
AnyPoint == Points \ {"none", "halted"}

\* Any point but the windows in which task.c would have to turn interrupts off.
OutsideWindows == AnyPoint \ Windows
==============================================================================
