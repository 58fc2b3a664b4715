----------------------------- MODULE MCFdTable ------------------------------
(***************************************************************************)
(* Two tasks over two nodes besides the root.  Tables start with two       *)
(* entries and storage for three: the gap, the last entry, the slot after  *)
(* the end, a full table and one that has grown all occur.                 *)
(***************************************************************************)
EXTENDS FdTable, TLC

\* fs_root differs from the other nodes.
FdSymmetry == Permutations(Nodes \ {Root}) \cup Permutations(Tasks)

=============================================================================
