---------------------------- MODULE MCRingBuffer ----------------------------
(***************************************************************************)
(* Three slots, which hold two bytes; calls of up to three bytes wrap and  *)
(* have to wait.                                                           *)
(***************************************************************************)
EXTENDS RingBuffer
=============================================================================
