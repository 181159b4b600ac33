------------------------------- MODULE MCPipes -------------------------------
(* Constants for TLC: the bytes, and where a timer tick may come.              *)
EXTENDS Pipes

CONSTANTS a, b, blank

\* Any point of a read or a write, as the code has it.
AnyPointOfTransfers == Points \ {"closeFree"}

\* Any point but the windows.
OutsideWindows == Points \ Windows
==============================================================================
