-------------------------------- MODULE MCLhd --------------------------------
(* Lhd for TLC: two threads, a disk of two sectors with two possible        *)
(* contents, sfs's single sectors, runs of two by one thread on the raw     *)
(* device, and the ten retries of the code cut to two.                      *)
EXTENDS Lhd
==============================================================================
