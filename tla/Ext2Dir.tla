------------------------------ MODULE Ext2Dir -------------------------------
(***************************************************************************)
(* Directories and inodes of ext2 (kernel/src/ext2.c): create_entry,       *)
(* allocate_inode, create_ext2, mkdir_ext2, symlink_ext2, unlink_ext2 and  *)
(* the searches of finddir_ext2 and direntry_ext2.                         *)
(*                                                                         *)
(* A directory is a sequence of blocks, and a block a sequence of records, *)
(* each with the distance rec_len to the next.  A record whose inode is 0  *)
(* is deleted.  The kernel adds no block to a directory that it has made.  *)
(*                                                                         *)
(* The calls come from system calls and are single steps; blocks of data,  *)
(* the cache and the times and owners in inodes are left out.  There is an *)
(* inode and a block for every call here: the code does not survive        *)
(* running out of either.                                                  *)
(***************************************************************************)
EXTENDS Integers, Sequences, FiniteSets, SequencesExt, FiniteSetsExt

CONSTANTS
  Names,             \* names that callers use
  NameLen,           \* their lengths
  Block,             \* this->block_size
  inodes_per_group, BGDS,
  Reserved,          \* inodes in use after mkfs, the root's among them
  Root,
  RootBlocks         \* the directory blocks that mkfs may leave in the root

Inodes == 1 .. BGDS * inodes_per_group
Groups == 0 .. BGDS - 1
Dots == {".", ".."}

ASSUME DirConstants ==
  /\ {Block, inodes_per_group, BGDS} \subseteq Nat \ {0}
  /\ NameLen \in [Names -> Nat \ {0}] /\ Names \cap Dots = {}
  /\ Root \in Reserved /\ Reserved \subseteq Inodes
  \* an inode whose number is a multiple of inodes_per_group is looked up in
  \* the wrong group and is taken to be in use
  /\ \A i \in Inodes : i % inodes_per_group = 0 => i \in Reserved

GroupOf(i) == i \div inodes_per_group
InodesOf(g) == {i \in Inodes : (i - 1) \div inodes_per_group = g}

VARIABLES
  bitmap,            \* inodes in use
  free_inodes_count, \* of each group
  sb_free,           \* of the superblock
  used_dirs_count,   \* of each group, since mkfs
  kind,              \* of each inode: dir or file, links among the files
  links_count,
  dir                \* the blocks of each directory

vars == <<bitmap, free_inodes_count, sb_free, used_dirs_count, kind,
          links_count, dir>>

\* The least rec_len of a name: a header of 8 bytes, rounded up to 4.
sreclen(name) ==
  LET n == 8 + CASE name = "." -> 1 [] name = ".." -> 2
                 [] OTHER -> NameLen[name]
  IN  4 * ((n + 3) \div 4)

Record(name, inode, len) == [name |-> name, inode |-> inode, rec_len |-> len]

Init ==
  /\ bitmap = Reserved
  /\ free_inodes_count =
       [g \in Groups |-> Cardinality(InodesOf(g) \ Reserved)]
  /\ sb_free = Cardinality(Inodes \ Reserved)
  /\ used_dirs_count = [g \in Groups |-> 0]
  /\ kind = [i \in Inodes |-> IF i = Root THEN "dir"
                             ELSE IF i \in Reserved THEN "file" ELSE "none"]
  /\ links_count = [i \in Inodes |-> IF i = Root THEN 2 ELSE 0]
  /\ \E blocks \in RootBlocks :
       dir = [i \in Inodes |-> IF i = Root THEN blocks ELSE <<>>]

-----------------------------------------------------------------------------

Records(blocks) == FlattenSeq(blocks)

\* The inode of the first record with this name that is not deleted, 0 when
\* there is none.
finddir(blocks, name) ==
  LET rs == SelectSeq(Records(blocks),
                      LAMBDA r : r.inode # 0 /\ r.name = name)
  IN  IF rs = <<>> THEN 0 ELSE Head(rs).inode

\* Faulty variant: the space behind the last record is not looked at.
CreateUnchecked(blocks, name, inode) ==
  LET b == Last(blocks)
      end == sreclen(Last(b).name)
  IN  [blocks EXCEPT ![Len(blocks)] =
         Front(b) \o <<[Last(b) EXCEPT !.rec_len = end],
                       Record(name, inode, Last(b).rec_len - end)>>]

\* Faulty variant: the last record keeps its rec_len.
CreateOverlong(blocks, name, inode) ==
  LET b == Last(blocks)
  IN  IF Last(b).rec_len <= sreclen(Last(b).name) + sreclen(name) THEN blocks
      ELSE [blocks EXCEPT ![Len(blocks)] =
              Append(b, Record(name, inode,
                               Last(b).rec_len - sreclen(Last(b).name)))]

\* Faulty variant: the last record is overwritten.
CreateOver(blocks, name, inode) ==
  LET b == Last(blocks)
  IN  IF Last(b).rec_len <= sreclen(Last(b).name) + sreclen(name) THEN blocks
      ELSE [blocks EXCEPT ![Len(blocks)] =
              Append(Front(b), Record(name, inode, Last(b).rec_len))]

\* The new record takes what is behind the last one, if that is more than it
\* needs.  When the last record has no space behind it the new one is put
\* behind the end of the buffer, and the block is written as it was.
create_entry(blocks, name, inode) ==
  LET b == Last(blocks)
      previous == Last(b)
      end == sreclen(previous.name)
  IN  IF previous.rec_len <= end + sreclen(name) THEN blocks
      ELSE [blocks EXCEPT ![Len(blocks)] =
              Front(b) \o <<[previous EXCEPT !.rec_len = end],
                            Record(name, inode, previous.rec_len - end)>>]

-----------------------------------------------------------------------------

Group == Min({g \in Groups : free_inodes_count[g] > 0})

\* Faulty variant: the inode is not marked as used.
MarkNothing(i) == bitmap' = bitmap

Mark(i) == bitmap' = bitmap \cup {i}

allocate_inode(i) ==
  /\ \E g \in Groups : free_inodes_count[g] > 0
  /\ i = Min(InodesOf(Group) \ bitmap)
  /\ Mark(i)
  /\ free_inodes_count' = [free_inodes_count EXCEPT ![Group] = @ - 1]
  /\ sb_free' = sb_free - 1

\* The directories that paths lead to.
Reachable ==
  LET children(ds) ==
        {i \in Inodes : kind[i] = "dir" /\ \E d \in ds, name \in Names :
                          finddir(dir[d], name) = i}
      reach[n \in 0 .. Cardinality(Inodes)] ==
        IF n = 0 THEN {Root} ELSE reach[n - 1] \cup children(reach[n - 1])
  IN  reach[Cardinality(Inodes)]

\* create_ext2 and symlink_ext2; the entry may not fit, and the inode is in
\* use all the same.
create(d, name) ==
  /\ finddir(dir[d], name) = 0
  /\ \E i \in Inodes :
       /\ allocate_inode(i)
       /\ kind' = [kind EXCEPT ![i] = "file"]
       /\ links_count' = [links_count EXCEPT ![i] = 1]
       /\ dir' = [dir EXCEPT ![d] = create_entry(@, name, i)]
  /\ UNCHANGED used_dirs_count

\* Faulty variant: the parent of the new directory is the directory itself.
NewDirOfItself(i, d) ==
  <<<<Record(".", i, 12), Record("..", i, Block - 12)>>>>

NewDir(i, d) == <<<<Record(".", i, 12), Record("..", d, Block - 12)>>>>

mkdir(d, name) ==
  /\ finddir(dir[d], name) = 0
  /\ \E i \in Inodes :
       /\ allocate_inode(i)
       /\ kind' = [kind EXCEPT ![i] = "dir"]
       /\ dir' = [dir EXCEPT ![d] = create_entry(@, name, i),
                             ![i] = NewDir(i, d)]
       /\ links_count' = [links_count EXCEPT ![i] = 2, ![d] = @ + 1]
       /\ used_dirs_count' = [used_dirs_count EXCEPT ![GroupOf(i)] = @ + 1]

\* Only the record is cleared: the inode, its blocks and its links stay.
unlink(d, name) ==
  LET named(r) == r.inode # 0 /\ r.name = name
      x == Min({k \in DOMAIN dir[d] : \E r \in Range(dir[d][k]) : named(r)})
      y == Min({k \in DOMAIN dir[d][x] : named(dir[d][x][k])})
  IN  /\ finddir(dir[d], name) # 0
      /\ dir' = [dir EXCEPT ![d][x][y].inode = 0]
      /\ UNCHANGED <<bitmap, free_inodes_count, sb_free, used_dirs_count,
                     kind, links_count>>

Next ==
  \E d \in Reachable, name \in Names :
    \/ create(d, name)
    \/ mkdir(d, name)
    \/ unlink(d, name)

Spec == Init /\ [][Next]_vars

-----------------------------------------------------------------------------
(* Properties *)

Dirs == {i \in bitmap : kind[i] = "dir"}
Live(d) == {r \in Range(Records(dir[d])) : r.inode # 0}

\* Type invariant: entries are records of known names and inodes.
TypeOK ==
  /\ bitmap \subseteq Inodes
  /\ free_inodes_count \in [Groups -> 0 .. inodes_per_group]
  /\ sb_free \in 0 .. Cardinality(Inodes)
  /\ used_dirs_count \in [Groups -> Nat]
  /\ kind \in [Inodes -> {"none", "dir", "file"}]
  /\ links_count \in [Inodes -> Nat]
  /\ \A i \in Inodes : \A r \in Range(Records(dir[i])) :
       r \in [name : Names \cup Dots, inode : Inodes \cup {0}, rec_len : Nat]

\* The free counts are the numbers of clear bits: the scan of allocate_inode
\* for a clear bit in a group with a positive count has no other bound.
InodesAreCounted ==
  /\ \A g \in Groups :
       free_inodes_count[g] = Cardinality(InodesOf(g) \ bitmap)
  /\ sb_free = Cardinality(Inodes \ bitmap)

\* In every block of every directory the records follow each other to the end
\* of the block, aligned, each with space for its name: a search never leaves
\* the block, and never reads a name out of the next record.
RecordsTile ==
  \A d \in Dirs : \A b \in Range(dir[d]) :
    /\ FoldSeq(LAMBDA r, n : n + r.rec_len, 0, b) = Block
    /\ \A r \in Range(b) : r.rec_len >= sreclen(r.name) /\ r.rec_len % 4 = 0

\* The directories form a tree: an inode in use has one name in one directory
\* at most, names in a directory differ, and the ".." of a directory that has
\* a name is the directory that names it.
DirectoriesFormATree ==
  /\ \A d \in Dirs :
       /\ finddir(dir[d], ".") = d
       /\ \A r \in Live(d) : r.inode \in bitmap
       /\ Cardinality({r.name : r \in Live(d)}) =
            Len(SelectSeq(Records(dir[d]), LAMBDA r : r.inode # 0))
  /\ LET named == {<<d, r>> \in Dirs \X UNION {Live(d) : d \in Dirs} :
                     r \in Live(d) /\ r.name \in Names}
     IN  Cardinality({dr[2].inode : dr \in named}) = Cardinality(named)
  /\ \A d \in Dirs : \A r \in Live(d) :
       r.name \in Names /\ kind[r.inode] = "dir" =>
         finddir(dir[r.inode], "..") = d

\* A call changes what one name in one directory leads to, at most: entries
\* next to a new or a deleted record are found as before.
OtherNamesAreKept ==
  [][Cardinality({dn \in Dirs \X Names :
                    finddir(dir'[dn[1]], dn[2]) # finddir(dir[dn[1]], dn[2])})
       <= 1]_vars

=============================================================================
