------------------------------ MODULE Programs ------------------------------
(***************************************************************************)
(* The programs that make the system calls.  Some calls go wrong when      *)
(* programs have certain habits; the modules of the calls name them, and   *)
(* Habits says which of them the programs have.                            *)
(***************************************************************************)
CONSTANT Habits

\* In a guard: programs do what is bad only if they have the habit.
OnlyIf(habit, bad) == bad => habit \in Habits
==============================================================================
