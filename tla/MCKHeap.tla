------------------------------- MODULE MCKHeap -------------------------------
(* KHeap for TLC: pages of twelve units cut into three blocks or two, five  *)
(* pages above the kernel image of which one holds the table and one is     *)
(* never granted, three pagerefs, and requests for a block of each size,    *)
(* one page and two.                                                        *)
EXTENDS KHeap
==============================================================================
