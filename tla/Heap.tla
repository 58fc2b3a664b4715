-------------------------------- MODULE Heap --------------------------------
(***************************************************************************)
(* The kernel heap (kernel/src/mem/alloc.c).                               *)
(*                                                                         *)
(* The heap grows by pages and never shrinks.  A block starts on a page    *)
(* with a header.  A small block is one page of cells of one size, its     *)
(* free cells a stack; the blocks of a size that have free cells are       *)
(* listed in a bin.  A big block is one allocation; the free ones are in a *)
(* skip list ordered by size.  malloc and valloc only ever take big blocks *)
(* and hand out the second page of one, so that the result is aligned;     *)
(* calloc, and realloc when it moves, use the first byte behind a header.  *)
(*                                                                         *)
(* The links between big blocks (next, prev, klmalloc_newest_big) serve    *)
(* only the code that is switched off with #if 0 and are left out.  sbrk   *)
(* always has another page: behaviours end before the heap is exhausted.   *)
(***************************************************************************)
EXTENDS Integers, Sequences, FiniteSets, SequencesExt, FiniteSetsExt

CONSTANTS
  PAGE_SIZE,
  Header, BigHeader,      \* sizes of the two headers
  SMALLEST_BIN_LOG,
  BIG_BIN,                \* number of bins of small cells
  SKIP_MAX_LEVEL,
  MaxPages,               \* bound: pages up to the end of the heap
  MaxLive,                \* bound: blocks that callers hold at a time
  Requests,               \* sizes that callers ask for
  Words,                  \* what a caller may have in the word at offset 8
  ReallocAligned          \* whether realloc is called on what malloc returns

ASSUME HeapConstants ==
  /\ {PAGE_SIZE, Header, BigHeader, MaxPages, MaxLive, BIG_BIN} \subseteq Nat \ {0}
  /\ {SMALLEST_BIN_LOG, SKIP_MAX_LEVEL} \subseteq Nat
  /\ Header < BigHeader /\ BigHeader < PAGE_SIZE
  /\ Requests \subseteq Nat \ {0} /\ Words \subseteq Nat
  /\ ReallocAligned \in BOOLEAN
  \* a page holds a cell of every small size, and valloc never asks for one
  /\ Header + 2^(SMALLEST_BIN_LOG + BIG_BIN - 1) <= PAGE_SIZE
  /\ PAGE_SIZE - BigHeader >= 2^(SMALLEST_BIN_LOG + BIG_BIN - 1)

Pages == 0 .. MaxPages - 1
Levels == 0 .. SKIP_MAX_LEVEL
HEAD == -1                \* klmalloc_big_bins.head
NULL == -2

VARIABLES
  heap,     \* the allocator's own state, below
  live      \* ghost: the blocks that callers hold, with the size they asked
            \* for and whether the contents are still what they wrote

vars == <<heap, live>>

\* heap_end counts the pages that sbrk has given out; headers are the pages
\* with a header; size and head are its fields, the bin standing for the size
\* of a small block and the stack of free addresses for the head; bin_head has
\* the list of each bin; forward and level are the skip list.
Init ==
  /\ heap = [heap_end |-> 0,
             headers |-> {},
             size |-> [p \in Pages |-> 0],
             head |-> [p \in Pages |-> <<>>],
             bin_head |-> [b \in 0 .. BIG_BIN - 1 |-> <<>>],
             forward |-> [n \in Pages \cup {HEAD} |-> [i \in Levels |-> NULL]],
             level |-> 0]
  /\ live = <<>>

IsBig(h, p) == h.size[p] > BIG_BIN + 1

-----------------------------------------------------------------------------
(* Bins *)

CellSize(b) == 2^(SMALLEST_BIN_LOG + b)

\* Faulty variant: the cell is the largest that is smaller than s.
BinRoundedDown(s) ==
  LET bins == {b \in 1 .. BIG_BIN : CellSize(b) > s}
  IN  IF bins = {} THEN BIG_BIN ELSE Min(bins) - 1

\* The bin of the least cell that s fits in, BIG_BIN when there is none.
klmalloc_bin_size(s) ==
  LET bins == {b \in 0 .. BIG_BIN - 1 : CellSize(b) >= s}
  IN  IF bins = {} THEN BIG_BIN ELSE Min(bins)

\* The cells of a new small block, the first on top.
CellStack(p, b) ==
  [k \in 1 .. (PAGE_SIZE - Header) \div CellSize(b) |->
     p * PAGE_SIZE + Header + (k - 1) * CellSize(b)]

\* The page with the header of an address: the one before an aligned address.
HeaderOf(ptr) ==
  (IF ptr % PAGE_SIZE = 0 THEN ptr - 1 ELSE ptr) \div PAGE_SIZE

-----------------------------------------------------------------------------
(* The skip list *)

\* update[i]: where the search for size s leaves level i; it walks along each
\* level, from the highest, while the next block is smaller.
Update(h, s) ==
  LET walk(i) ==
        LET w[m \in Pages \cup {HEAD}] ==
              LET next == h.forward[m][i]
              IN  IF next # NULL /\ h.size[next] < s THEN w[next] ELSE m
        IN  w
      u[i \in 0 .. h.level] == walk(i)[IF i = h.level THEN HEAD ELSE u[i + 1]]
  IN  u

klmalloc_skip_list_findbest(h, s) == h.forward[Update(h, s)[0]][0]

\* Faulty variant: the list is not searched, the block becomes its first.
InsertFirst(h, v, lv) ==
  [h EXCEPT !.level = Max({lv, @}),
            !.forward[v] = [i \in Levels |-> IF i <= lv THEN h.forward[HEAD][i]
                                             ELSE h.forward[v][i]],
            !.forward[HEAD] = [i \in Levels |-> IF i <= lv THEN v ELSE @[i]]]

\* v is linked behind all smaller blocks, on the levels up to lv, unless it is
\* what the search finds there.
klmalloc_skip_list_insert(h, v, lv) ==
  LET u == Update(h, h.size[v])
      before(i) == IF i <= h.level THEN u[i] ELSE HEAD
  IN  IF h.forward[u[0]][0] = v THEN h
      ELSE [h EXCEPT !.level = Max({lv, @}),
                !.forward = [n \in DOMAIN @ |-> [i \in Levels |->
                    IF i > lv THEN @[n][i]
                    ELSE IF n = v THEN @[before(i)][i]
                    ELSE IF n = before(i) THEN v ELSE @[n][i]]]]

\* Faulty variant: the block is only unlinked from the lowest level.
DeleteLowest(h, v) ==
  [h EXCEPT !.forward[Update(h, h.size[v])[0]][0] = h.forward[v][0]]

\* The loop stops at the first level whose predecessor does not link to v.
klmalloc_skip_list_delete(h, v) ==
  LET u == Update(h, h.size[v])
      linked == {i \in 0 .. h.level : \A j \in 0 .. i : h.forward[u[j]][j] = v}
      forward == [n \in DOMAIN h.forward |-> [i \in Levels |->
                    IF i \in linked /\ n = u[i] THEN h.forward[v][i]
                    ELSE h.forward[n][i]]]
  IN  [h EXCEPT !.forward = forward,
                !.level = Max({0} \cup
                              {i \in 1 .. @ : forward[HEAD][i] # NULL})]

-----------------------------------------------------------------------------
(* klmalloc and klfree.  An allocation is a record of the heap it leaves    *)
(* and the address it returns.                                              *)

\* From the first block of the bin, which is made when there is none.
KlmallocSmall(h, s) ==
  LET b == klmalloc_bin_size(s)
      new == h.bin_head[b] = <<>>
      p == IF new THEN h.heap_end ELSE Head(h.bin_head[b])
      stack == IF new THEN CellStack(p, b) ELSE h.head[p]
      listed == IF new THEN <<p>> ELSE h.bin_head[b]
  IN  [ptr |-> Head(stack),
       heap |-> [h EXCEPT
         !.heap_end = IF new THEN @ + 1 ELSE @,
         !.headers = @ \cup {p},
         !.size[p] = b,
         !.head[p] = Tail(stack),
         !.bin_head[b] = IF Tail(stack) = <<>> THEN Tail(listed) ELSE listed]]

\* Faulty variant: the pages of a new block stay behind the end of the heap.
KlmallocBigUnclaimed(h, s) ==
  LET p == klmalloc_skip_list_findbest(h, s)
      pages == (s + BigHeader) \div PAGE_SIZE + 1
  IN  IF p # NULL
      THEN [ptr |-> Head(h.head[p]),
            heap |-> [klmalloc_skip_list_delete(h, p) EXCEPT
                        !.head[p] = Tail(@)]]
      ELSE [ptr |-> h.heap_end * PAGE_SIZE + BigHeader,
            heap |-> [h EXCEPT
              !.headers = @ \cup {h.heap_end},
              !.size[h.heap_end] = pages * PAGE_SIZE - BigHeader]]

KlmallocBig(h, s) ==
  LET p == klmalloc_skip_list_findbest(h, s)
      pages == (s + BigHeader) \div PAGE_SIZE + 1
  IN  IF p # NULL
      THEN [ptr |-> Head(h.head[p]),
            heap |-> [klmalloc_skip_list_delete(h, p) EXCEPT
                        !.head[p] = Tail(@)]]
      ELSE [ptr |-> h.heap_end * PAGE_SIZE + BigHeader,
            heap |-> [h EXCEPT
              !.heap_end = @ + pages,
              !.headers = @ \cup {h.heap_end},
              !.size[h.heap_end] = pages * PAGE_SIZE - BigHeader]]

klmalloc(h, s) ==
  IF klmalloc_bin_size(s) < BIG_BIN THEN KlmallocSmall(h, s)
  ELSE KlmallocBig(h, s)

\* lv is the level that klmalloc_random_level draws.  A page without the magic
\* number of a header is left alone.
klfree(h, ptr, lv) ==
  LET p == HeaderOf(ptr)
      start == p * PAGE_SIZE + BigHeader
  IN  IF p \notin h.headers THEN h
      ELSE IF IsBig(h, p)
      THEN klmalloc_skip_list_insert([h EXCEPT !.head[p] = <<start>> \o @],
                                     p, lv)
      ELSE [h EXCEPT !.head[p] = <<ptr>> \o @,
                     !.bin_head[h.size[p]] = IF h.head[p] = <<>>
                                             THEN <<p>> \o @ ELSE @]

-----------------------------------------------------------------------------
(* What callers do *)

Put(f, ptr, s, ok) ==
  [p \in DOMAIN f \cup {ptr} |->
     IF p = ptr THEN [size |-> s, intact |-> ok] ELSE f[p]]

Drop(f, ptr) == [p \in DOMAIN f \ {ptr} |-> f[p]]

\* malloc and valloc: the second page of a block.
valloc(s) ==
  LET r == klmalloc(heap, s + PAGE_SIZE - BigHeader)
  IN  /\ r.heap.heap_end <= MaxPages
      /\ heap' = r.heap
      /\ live' = Put(live, r.ptr + PAGE_SIZE - BigHeader, s, TRUE)

calloc(s) ==
  LET r == klmalloc(heap, s)
  IN  /\ r.heap.heap_end <= MaxPages
      /\ heap' = r.heap
      /\ live' = Put(live, r.ptr, s, TRUE)

free(ptr) ==
  \E lv \in Levels :
    /\ heap' = klfree(heap, ptr, lv)
    /\ live' = Drop(live, ptr)

\* Faulty variant: the bin of a small block is taken for its size.
OldSizeOfBin(ptr) == {heap.size[ptr \div PAGE_SIZE]}

\* old_size of klrealloc.  The header of an aligned block is looked for on
\* its own page, where the caller has its data.
OldSize(ptr) ==
  {IF d < BIG_BIN THEN CellSize(d) ELSE d :
     d \in IF ptr % PAGE_SIZE = 0 THEN Words
           ELSE {heap.size[ptr \div PAGE_SIZE]}}

realloc(ptr, s) ==
  /\ ptr % PAGE_SIZE = 0 => ReallocAligned
  /\ \E old \in OldSize(ptr), lv \in Levels :
       IF old >= s
       THEN live' = [live EXCEPT ![ptr].size = s] /\ UNCHANGED heap
       ELSE LET r == klmalloc(heap, s)
                kept == live[ptr].intact /\ old >= live[ptr].size
            IN  /\ r.heap.heap_end <= MaxPages
                /\ heap' = klfree(r.heap, ptr, lv)
                /\ live' = Put(Drop(live, ptr), r.ptr, s, kept)

Next ==
  \/ /\ Cardinality(DOMAIN live) < MaxLive
     /\ \E s \in Requests : valloc(s) \/ calloc(s)
  \/ \E ptr \in DOMAIN live : free(ptr) \/ \E s \in Requests : realloc(ptr, s)

Spec == Init /\ [][Next]_vars

-----------------------------------------------------------------------------
(* Properties *)

\* The chain of level i of the skip list.
Chain(i) ==
  LET c[n \in Pages \cup {HEAD}] ==
        IF heap.forward[n][i] = NULL THEN <<>>
        ELSE <<heap.forward[n][i]>> \o c[heap.forward[n][i]]
  IN  c[HEAD]

Bytes(ptr, n) == ptr .. ptr + n - 1

HeaderBytes(p) ==
  Bytes(p * PAGE_SIZE, IF IsBig(heap, p) THEN BigHeader ELSE Header)

FreeBig == {p \in heap.headers : IsBig(heap, p) /\ heap.head[p] # <<>>}

\* Type invariant: headers lie below the end of the heap, bins and skip list
\* hold blocks, and the stack of a big block has at most its one entry.
TypeOK ==
  /\ heap.heap_end \in 0 .. MaxPages
  /\ heap.headers \subseteq 0 .. heap.heap_end - 1
  /\ heap.size \in [Pages -> Nat]
  /\ heap.head \in [Pages -> Seq(Nat)]
  /\ heap.bin_head \in [0 .. BIG_BIN - 1 -> Seq(heap.headers)]
  /\ heap.forward \in [Pages \cup {HEAD} -> [Levels -> heap.headers \cup {NULL}]]
  /\ heap.level \in Levels
  /\ \A p \in heap.headers : IsBig(heap, p) => Len(heap.head[p]) <= 1

\* What callers hold lies inside the heap, and touches neither what another
\* caller holds nor a header nor a free cell, whatever was allocated, freed,
\* reused and moved before.
NothingOverlaps ==
  \A ptr \in DOMAIN live :
    LET mine == Bytes(ptr, live[ptr].size)
    IN  /\ mine \subseteq Bytes(0, heap.heap_end * PAGE_SIZE)
        /\ \A q \in DOMAIN live \ {ptr} :
             mine \cap Bytes(q, live[q].size) = {}
        /\ \A p \in heap.headers :
             mine \cap (HeaderBytes(p) \cup Range(heap.head[p])) = {}

\* Every free block can be found: the lowest level of the skip list has each
\* free big block once, in the order of their sizes, every level is a part of
\* the one below it and levels above the current one are empty; each bin lists
\* the small blocks with free cells of its size, once.
FreeBlocksAreListed ==
  /\ Range(Chain(0)) = FreeBig /\ IsInjective(Chain(0))
  /\ \A j, k \in 1 .. Len(Chain(0)) :
       j < k => heap.size[Chain(0)[j]] <= heap.size[Chain(0)[k]]
  /\ \A i \in Levels \ {0} :
       /\ Chain(i) = SelectSeq(Chain(i - 1), LAMBDA p : p \in Range(Chain(i)))
       /\ i > heap.level => Chain(i) = <<>>
  /\ \A b \in DOMAIN heap.bin_head :
       /\ IsInjective(heap.bin_head[b])
       /\ Range(heap.bin_head[b]) =
            {p \in heap.headers : ~IsBig(heap, p) /\ heap.size[p] = b
                                  /\ heap.head[p] # <<>>}

\* A big allocation takes the smallest free block that is large enough, and
\* the heap only grows for it when there is none.
BestFit ==
  \A ptr \in DOMAIN live' \ DOMAIN live :
    LET s == live'[ptr].size
        need == IF ptr % PAGE_SIZE = 0 THEN s + PAGE_SIZE - BigHeader ELSE s
        fits == {p \in FreeBig : heap.size[p] >= need}
    IN  klmalloc_bin_size(need) = BIG_BIN =>
          IF fits = {} THEN HeaderOf(ptr) \notin heap.headers
          ELSE /\ HeaderOf(ptr) \in fits
               /\ \A p \in fits : heap.size[HeaderOf(ptr)] <= heap.size[p]

BestFitAlways == [][BestFit]_vars

\* realloc keeps what the caller had written, as far as it still fits.
ContentsAreKept == \A ptr \in DOMAIN live : live[ptr].intact

=============================================================================
