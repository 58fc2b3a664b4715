---------------------------- MODULE MCExt2Cache -----------------------------
(* Small instances of the ext2 block cache for TLC.                        *)
EXTENDS Ext2Cache

MCBlocks == 1 .. 3
=============================================================================
