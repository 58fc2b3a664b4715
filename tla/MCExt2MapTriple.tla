-------------------------- MODULE MCExt2MapTriple ---------------------------
(***************************************************************************)
(* One file that reaches the triple indirect blocks, with space for all.   *)
(***************************************************************************)
EXTENDS Ext2Map

MCReserved == {0}
MCMaxBlocks == [n \in Inodes |-> 8]
=============================================================================
