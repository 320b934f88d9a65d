--------------------------- MODULE MCLinkedLists ----------------------------
(* Four nodes over a FIFO and an ordered list, two order values: every     *)
(* position of insertion and removal, with ties.                           *)
EXTENDS LinkedLists

CONSTANTS fifo, sorted

MCQueue == {fifo, sorted}
MCOrdered == {sorted}
=============================================================================
