------------------------------- MODULE MCConsole -------------------------------
(* Console for TLC: the booting thread and one more, a line with a newline  *)
(* and one without, reads of two characters, a delayed buffer of two and    *)
(* three keys.                                                              *)
EXTENDS Console

TwoLines == {<<"x", "nl">>, <<"x">>}
==============================================================================
