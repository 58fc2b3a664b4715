----------------------------- MODULE MCExt2Map ------------------------------
(***************************************************************************)
(* Two files on a volume of two groups.  The first can grow through its    *)
(* direct, single and double indirect blocks, the second has one block,    *)
(* so that its block lies among those of the first.  There is space for    *)
(* everything.                                                             *)
(***************************************************************************)
EXTENDS Ext2Map

MCReserved == {0, 8}
MCMaxBlocks == [n \in Inodes |-> IF n = 1 THEN 6 ELSE 1]
=============================================================================
