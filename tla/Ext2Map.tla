------------------------------ MODULE Ext2Map -------------------------------
(***************************************************************************)
(* The block map of an ext2 file (kernel/src/ext2.c set_block_number,      *)
(* get_block_number) and the allocation of blocks (allocate_block,         *)
(* allocate_inode_block), as inode_read_block and inode_write_block use    *)
(* them.                                                                   *)
(*                                                                         *)
(* An inode has direct pointers and three roots: of a block of pointers,   *)
(* of a block of such blocks, and of a block of those.  A block is a       *)
(* sequence of p words, read as pointers or as the content of a file.      *)
(***************************************************************************)
EXTENDS Naturals, Sequences, FiniteSets, FiniteSetsExt

CONSTANTS
  Inodes,              \* inode numbers of the files
  EXT2_DIRECT_BLOCKS,
  p,                   \* this->pointers_per_block
  BGDS,                \* number of block groups
  blocks_per_group,
  Reserved,            \* blocks in use after mkfs, block 0 among them
  Words,               \* the words that files are filled with
  MaxBlocks            \* bound on the file blocks written, for each inode

D == EXT2_DIRECT_BLOCKS
Groups == 0 .. BGDS - 1
Blocks == 0 .. BGDS * blocks_per_group - 1
Index == 0 .. p - 1
BlocksOf(g) == {b \in Blocks : b \div blocks_per_group = g}

Fill(w) == [j \in Index |-> w]

ASSUME MapConstants ==
  /\ {EXT2_DIRECT_BLOCKS, p, BGDS, blocks_per_group} \subseteq Nat \ {0}
  /\ 0 \in Reserved /\ Reserved \subseteq Blocks
  /\ Words \subseteq Nat
  /\ MaxBlocks \in [Inodes -> Nat]

VARIABLES
  fs,     \* the disk: bitmaps, free counts, blocks and inodes
  pc,     \* the call of inode_write_block in progress, or Idle
  file    \* ghost: the content of each file by the writes that returned

vars == <<fs, pc, file>>

Idle == [no |-> "none"]

-----------------------------------------------------------------------------
(* Allocation.  Operators on a disk f give [fs, no]: the disk afterwards   *)
(* and a block number, 0 when there is no space.                           *)

\* Faulty variant: the bit is not set in the bitmap.
AllocateUnmarked(f) ==
  LET withSpace == {g \in Groups : f.free_blocks_count[g] > 0}
      g == Min(withSpace)
      no == Min({b \in BlocksOf(g) : b \notin f.bitmap})
  IN  IF withSpace = {} THEN [fs |-> f, no |-> 0]
      ELSE [fs |-> [f EXCEPT !.free_blocks_count[g] = @ - 1,
                             !.sb_free = @ - 1,
                             !.block[no] = Fill(0)],
            no |-> no]

\* Faulty variant: the new block is not cleared.
AllocateDirty(f) ==
  LET withSpace == {g \in Groups : f.free_blocks_count[g] > 0}
      g == Min(withSpace)
      no == Min({b \in BlocksOf(g) : b \notin f.bitmap})
  IN  IF withSpace = {} THEN [fs |-> f, no |-> 0]
      ELSE [fs |-> [f EXCEPT !.bitmap = @ \cup {no},
                             !.free_blocks_count[g] = @ - 1,
                             !.sb_free = @ - 1],
            no |-> no]

allocate_block(f) ==
  LET withSpace == {g \in Groups : f.free_blocks_count[g] > 0}
      g == Min(withSpace)
      no == Min({b \in BlocksOf(g) : b \notin f.bitmap})
  IN  IF withSpace = {} THEN [fs |-> f, no |-> 0]
      ELSE [fs |-> [f EXCEPT !.bitmap = @ \cup {no},
                             !.free_blocks_count[g] = @ - 1,
                             !.sb_free = @ - 1,
                             !.block[no] = Fill(0)],
            no |-> no]

\* The block that root k of inode n points to, allocated when there is none.
Root(f, n, k) ==
  LET a == allocate_block(f)
  IN  IF f.inode[n][k] # 0 THEN [fs |-> f, no |-> f.inode[n][k]]
      ELSE IF a.no = 0 THEN a
      ELSE [fs |-> [a.fs EXCEPT !.inode[n][k] = a.no], no |-> a.no]

\* The block that word j of the block r.no points to, likewise.
Child(r, j) ==
  LET a == allocate_block(r.fs)
  IN  IF r.no = 0 THEN r
      ELSE IF r.fs.block[r.no][j] # 0
        THEN [fs |-> r.fs, no |-> r.fs.block[r.no][j]]
      ELSE IF a.no = 0 THEN a
      ELSE [fs |-> [a.fs EXCEPT !.block[r.no][j] = a.no], no |-> a.no]

\* Word j of the block r.no is set to w, unless space ran out on the way.
SetWord(r, j, w) ==
  IF r.no = 0 THEN [fs |-> r.fs, ret |-> "E_NOSPACE"]
  ELSE [fs |-> [r.fs EXCEPT !.block[r.no][j] = w], ret |-> "E_SUCCESS"]

\* Faulty variant: the remainder in the second indirect range is one off.
SetWrongRemainder(f, n, iblock, rblock) ==
  LET b == iblock - D - p
      c == b \div p
  IN  IF iblock < D
        THEN [fs |-> [f EXCEPT !.inode[n][iblock] = rblock],
              ret |-> "E_SUCCESS"]
      ELSE IF iblock < D + p
        THEN SetWord(Root(f, n, D), iblock - D, rblock)
      ELSE SetWord(Child(Root(f, n, D + 1), c), (b + 1) % p, rblock)

set_block_number(f, n, iblock, rblock) ==
  LET a == iblock - D
      b == a - p
      c2 == b \div p
      d2 == b - c2 * p
      c == b - p * p
      d == c \div (p * p)
      e == c - d * p * p
      f3 == e \div p
      g == e - f3 * p
      leaf == Child(Child(Root(f, n, D + 2), d), f3)
  IN  IF iblock < D
        THEN [fs |-> [f EXCEPT !.inode[n][iblock] = rblock],
              ret |-> "E_SUCCESS"]
      ELSE IF iblock < D + p
        THEN SetWord(Root(f, n, D), a, rblock)
      ELSE IF iblock < D + p + p * p
        THEN SetWord(Child(Root(f, n, D + 1), c2), d2, rblock)
      ELSE IF iblock < D + p + p * p + p
        THEN SetWord(leaf, g, leaf.no)
      ELSE [fs |-> f, ret |-> "E_BADBLOCK"]

\* read_block leaves the buffer alone when it is asked for block 0.
ReadInto(f, no, tmp) == IF no = 0 THEN tmp ELSE f.block[no]

\* tmp is what the fresh buffer happens to hold.
get_block_number(f, n, iblock, tmp) ==
  LET a == iblock - D
      b == a - p
      c2 == b \div p
      d2 == b - c2 * p
      c == b - p * p
      d == c \div (p * p)
      e == c - d * p * p
      f3 == e \div p
      g == e - f3 * p
      first(k) == ReadInto(f, f.inode[n][k], tmp)
      second(k, i) == ReadInto(f, first(k)[i], first(k))
      third(k, i, j) == ReadInto(f, second(k, i)[j], second(k, i))
  IN  IF iblock < D THEN f.inode[n][iblock]
      ELSE IF iblock < D + p THEN first(D)[a]
      ELSE IF iblock < D + p + p * p THEN second(D + 1, c2)[d2]
      ELSE IF iblock < D + p + p * p + p THEN third(D + 2, d, f3)[g]
      ELSE 0

\* Faulty variant: i_blocks counts one block too many.
AllocateMiscounted(f, n, iblock) ==
  LET a == allocate_block(f)
      s == set_block_number(a.fs, n, iblock, a.no)
  IN  IF a.no = 0 THEN [fs |-> f, ret |-> "E_NOSPACE"]
      ELSE [fs |-> [s.fs EXCEPT !.blocks[n] = Max({@, iblock + 2})],
            ret |-> "E_SUCCESS"]

\* allocate_inode_block drops the result of set_block_number.
allocate_inode_block(f, n, iblock) ==
  LET a == allocate_block(f)
      s == set_block_number(a.fs, n, iblock, a.no)
  IN  IF a.no = 0 THEN [fs |-> f, ret |-> "E_NOSPACE"]
      ELSE [fs |-> [s.fs EXCEPT !.blocks[n] = Max({@, iblock + 1})],
            ret |-> "E_SUCCESS"]

-----------------------------------------------------------------------------

\* Free blocks hold whatever was there before.
Init ==
  /\ \E w \in Words : fs =
          [bitmap |-> Reserved,
           free_blocks_count |->
             [g \in Groups |-> Cardinality(BlocksOf(g) \ Reserved)],
           sb_free |-> Cardinality(Blocks \ Reserved),
           block |-> [b \in Blocks |-> Fill(w)],
           inode |-> [n \in Inodes |-> [k \in 0 .. D + 2 |-> 0]],
           blocks |-> [n \in Inodes |-> 0]]
  /\ pc = Idle
  /\ file = [n \in Inodes |-> <<>>]

inode_write_block(n, iblock, w) ==
  /\ pc = Idle
  /\ pc' = [no |-> n, iblock |-> iblock, word |-> w]
  /\ UNCHANGED <<fs, file>>

\* One turn of its loop, which goes on until the file is long enough.
Grow ==
  /\ pc # Idle
  /\ pc.iblock >= fs.blocks[pc.no]
  /\ fs' = allocate_inode_block(fs, pc.no, fs.blocks[pc.no]).fs
  /\ UNCHANGED <<pc, file>>

\* The content after the last write: blocks allocated on the way are zeroed.
Written(old, iblock, w) ==
  [i \in 0 .. Max({iblock} \cup DOMAIN old) |->
     IF i = iblock THEN w ELSE IF i \in DOMAIN old THEN old[i] ELSE 0]

\* The loop is over: the block is written.  write_block refuses block 0.
Store ==
  /\ pc # Idle
  /\ pc.iblock < fs.blocks[pc.no]
  /\ \E tmp \in {Fill(w) : w \in Words} :
       LET real_block == get_block_number(fs, pc.no, pc.iblock, tmp)
       IN  fs' = IF real_block \in Blocks \ {0}
                 THEN [fs EXCEPT !.block[real_block] = Fill(pc.word)] ELSE fs
  /\ file' = [file EXCEPT ![pc.no] = Written(@, pc.iblock, pc.word)]
  /\ pc' = Idle

Next ==
  \/ \E n \in Inodes, w \in Words :
       \E iblock \in 0 .. MaxBlocks[n] - 1 : inode_write_block(n, iblock, w)
  \/ Grow
  \/ Store

Spec == Init /\ [][Next]_vars

-----------------------------------------------------------------------------

\* The content of block iblock of file n, as inode_read_block returns it.
inode_read_block(n, iblock, tmp) ==
  IF iblock >= fs.blocks[n] THEN Fill(0)
  ELSE ReadInto(fs, get_block_number(fs, n, iblock, tmp), tmp)

\* The ways down from an inode, and the block that each ends at (0 for none).
Paths ==
  LET roots == {<<n, k>> : n \in Inodes, k \in 0 .. D + 2}
      firsts == {<<n, k, i>> : n \in Inodes, k \in {D, D + 1}, i \in Index}
      seconds == {<<n, D + 1, i, j>> : n \in Inodes, i \in Index, j \in Index}
  IN  roots \cup firsts \cup seconds

Target(q) ==
  LET word(b, j) == IF b = 0 THEN 0 ELSE fs.block[b][j]
      root == fs.inode[q[1]][q[2]]
  IN  CASE Len(q) = 2 -> root
        [] Len(q) = 3 -> word(root, q[3])
        [] Len(q) = 4 -> word(word(root, q[3]), q[4])

-----------------------------------------------------------------------------
(* Properties *)

\* The disk has its type, and i_blocks never counts a block that no write has
\* asked for (allocate_inode_block raises it by the block it adds).
TypeOK ==
  /\ fs.bitmap \subseteq Blocks
  /\ fs.free_blocks_count \in [Groups -> 0 .. blocks_per_group]
  /\ fs.block \in [Blocks -> [Index -> Nat]]
  /\ fs.inode \in [Inodes -> [0 .. D + 2 -> Blocks]]
  /\ \A n \in Inodes : fs.blocks[n] \in 0 .. MaxBlocks[n]

\* The free count of a group is the number of clear bits in its bitmap, and
\* that of the superblock the number of all clear bits.  On this rests the scan
\* of allocate_block, which looks for a clear bit in a group whose count is
\* positive and has no other bound.
CountsMatchBitmap ==
  /\ \A g \in Groups :
       fs.free_blocks_count[g] = Cardinality(BlocksOf(g) \ fs.bitmap)
  /\ fs.sb_free = Cardinality(Blocks \ fs.bitmap)

\* No block is reached in two ways, be it as data or as a block of pointers of
\* the same or of another file, and all that are reached are marked in use and
\* were free when the volume was made.
NoBlockShared ==
  \A q \in Paths :
    Target(q) # 0 =>
      /\ Target(q) \in fs.bitmap \ Reserved
      /\ \A r \in Paths \ {q} : Target(r) # Target(q)

\* Between writes, inode_read_block returns for every block of every file what
\* inode_write_block last stored there, and zeroes where nothing was, whatever
\* a buffer or a block of the disk held before.
FileContents ==
  pc = Idle =>
    \A n \in Inodes : \A w \in Words : \A i \in 0 .. MaxBlocks[n] - 1 :
      inode_read_block(n, i, Fill(w)) =
        Fill(IF i \in DOMAIN file[n] THEN file[n][i] ELSE 0)

\* get_block_number returns for the next block of any file what
\* set_block_number stores for it, whenever set_block_number reports success:
\* it sets 'the "real" block number for a given "inode" block number'.
GetReturnsWhatWasSet ==
  \A n \in Inodes : fs.blocks[n] < MaxBlocks[n] =>
    LET i == fs.blocks[n]
        a == allocate_block(fs)
        s == set_block_number(a.fs, n, i, a.no)
    IN  a.no # 0 /\ s.ret = "E_SUCCESS" =>
          get_block_number(s.fs, n, i, Fill(0)) = a.no

=============================================================================
