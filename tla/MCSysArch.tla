----------------------------- MODULE MCSysArch ------------------------------
(***************************************************************************)
(* One task that posts, the tcpip thread that fetches and locks, and the   *)
(* receive interrupt, over a mailbox of two slots.                         *)
(***************************************************************************)
EXTENDS SysArch
=============================================================================
