------------------------------ MODULE MCPhysMem ------------------------------
(* PhysMem for TLC: two threads and six pages above the kernel image, of    *)
(* which early boot takes some and the table one or two.                    *)
EXTENDS PhysMem
==============================================================================
