----------------------------- MODULE MCAddrSpace -----------------------------
(* AddrSpace for TLC: two programs, pages of two bytes. *)
EXTENDS AddrSpace, TLC

(* An executable with an empty segment and one that straddles two pages,   *)
(* and one with a region too many.                                         *)
MCExecutables == { << <<0, 0>>, <<1, 2>> >>,
                   << <<0, 2>>, <<2, 1>>, <<3, 1>> >> }

Symmetry == Permutations(Programs)
==============================================================================
