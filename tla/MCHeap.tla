------------------------------- MODULE MCHeap -------------------------------
(* Constants for TLC: a heap of some words, and requests that need rounding up, *)
(* leave too little to split off, or fill the heap.                             *)
EXTENDS Heap

CONSTANTS shell, child
==============================================================================
