----------------------------- MODULE MCExt2Dir ------------------------------
(***************************************************************************)
(* Blocks of 56 bytes, so that a directory has space for two or three      *)
(* entries behind its first two.  The root has one block, one that mkfs    *)
(* filled to the last byte, or two blocks of which the first is full.      *)
(***************************************************************************)
EXTENDS Ext2Dir

MCNameLen == [n \in Names |-> IF n = "long" THEN 6 ELSE 2]

MCDots(len) == <<Record(".", 2, 12), Record("..", 2, len)>>

MCRootBlocks ==
  {<<MCDots(44)>>,
   <<MCDots(12) \o <<Record("a", 1, 32)>>>>,
   <<MCDots(12) \o <<Record("a", 0, 16), Record("long", 1, 16)>>>>,
   <<MCDots(44), <<Record("long", 0, 56)>>>>}

MCReserved == {1, 2, 4, 7, 8}
=============================================================================
