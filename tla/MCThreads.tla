------------------------------ MODULE MCThreads ------------------------------
(* Threads for TLC: the menu thread and two more. *)
EXTENDS Threads
==============================================================================
