------------------------------- MODULE MCHeap -------------------------------
(***************************************************************************)
(* Pages of 16 bytes with headers of 8 and 10 bytes: cells of 4 bytes, two *)
(* to a page.                                                              *)
(***************************************************************************)
EXTENDS Heap

=============================================================================
