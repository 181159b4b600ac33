----------------------------- MODULE MCKeyboard -----------------------------
(* Constants for TLC.                                                        *)
EXTENDS Keyboard

CONSTANTS key, enter, backspace, nul, prompt, blank
==============================================================================
