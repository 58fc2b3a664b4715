-------------------------- MODULE MCExt2CacheTasks --------------------------
(* Two tasks and three blocks that compete for the slots of a small cache. *)
EXTENDS Ext2CacheTasks

MCBlocks == 1 .. 3

=============================================================================
