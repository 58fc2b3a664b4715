-------------------------- MODULE Ext2CacheProofs ---------------------------
(***************************************************************************)
(* Proofs about the ext2 block cache, for every number of slots and every  *)
(* set of blocks and contents.                                             *)
(***************************************************************************)
EXTENDS Ext2Cache, FiniteSetTheorems, TLAPS

USE CacheConstants

\* Type correctness: whatever operations run and whenever power fails, the
\* fields of the cache and of the disk keep their types (ext2.c read_block,
\* write_block, ext2_sync, mount_ext2).
LEMMA InitTypeOK == Init => TypeOK
  BY DEF Init, TypeOK, Slots, Times

\* The stamp handed out by get_cache_time and the counter it leaves are
\* 32-bit values.
LEMMA TouchTypeOK ==
  ASSUME TypeOK, NEW b \in Blocks, NEW i \in Slots, Touch(b, i)
  PROVE  /\ last_use' \in [Slots -> Times]
         /\ used' \in [Blocks -> Times \cup {-1}]
         /\ cache_time' \in Times
         /\ laps' \in 0 .. MaxLaps
  BY DEF TypeOK, Touch, get_cache_time, Times

\* Writing a slot back changes the disk at the block the slot names, or not
\* at all.
LEMMA FlushedType ==
  ASSUME TypeOK, NEW i \in Slots
  PROVE  Flushed(i) \in [Blocks -> Data]
  BY DEF TypeOK, Flushed

\* Every operation keeps the types, hit or miss, cached or not.
LEMMA NextTypeOK == TypeOK /\ [Next]_vars => TypeOK'
<1> SUFFICES ASSUME TypeOK, [Next]_vars PROVE TypeOK'
  OBVIOUS
<1>1. ASSUME NEW b \in Blocks, read_block(b) PROVE TypeOK'
  <2>1. CASE ReadDirect(b)
    BY <2>1 DEF ReadDirect, TypeOK, dc
  <2>2. ASSUME NEW i \in Slots, ReadHit(b, i) PROVE TypeOK'
    BY <2>2, TouchTypeOK DEF ReadHit, TypeOK
  <2>3. ASSUME NEW i \in Slots, ReadMiss(b, i) PROVE TypeOK'
    BY <2>3, TouchTypeOK, FlushedType DEF ReadMiss, TypeOK
  <2> QED
    BY <1>1, <2>1, <2>2, <2>3 DEF read_block, Found, Oldest
<1>2. ASSUME NEW b \in Blocks, NEW d \in Data, write_block(b, d) PROVE TypeOK'
  <2>1. CASE WriteDirect(b, d)
    BY <2>1 DEF WriteDirect, TypeOK, dc
  <2>2. ASSUME NEW i \in Slots, WriteHit(b, d, i) PROVE TypeOK'
    BY <2>2, TouchTypeOK DEF WriteHit, TypeOK
  <2>3. ASSUME NEW i \in Slots, WriteMiss(b, d, i) PROVE TypeOK'
    BY <2>3, TouchTypeOK, FlushedType DEF WriteMiss, TypeOK
  <2> QED
    BY <1>2, <2>1, <2>2, <2>3 DEF write_block, Found, Oldest
<1>3. CASE RefuseBlockZero
  BY <1>3 DEF RefuseBlockZero, TypeOK, dc
<1>4. CASE ext2_sync
  <2>1. disk' \in [Blocks -> Data]
    BY <1>4 DEF ext2_sync, TypeOK
  <2> QED
    BY <1>4, <2>1 DEF ext2_sync, TypeOK
<1>5. CASE Remount
  BY <1>5 DEF Remount, TypeOK, Times
<1>6. CASE UNCHANGED vars
  BY <1>6 DEF vars, dc, TypeOK
<1> QED
  BY <1>1, <1>2, <1>3, <1>4, <1>5, <1>6 DEF Next

\* The fields of DC and of the disk keep their types in every reachable state.
THEOREM TypeCorrect == Spec => []TypeOK
  BY InitTypeOK, NextTypeOK, PTL DEF Spec

\* A nonempty set of natural numbers has a least element.
LEMMA LeastElement ==
  ASSUME NEW T \in SUBSET Nat, T # {}
  PROVE  \E x \in T : \A y \in T : x <= y
<1>1. \E x \in T : \A y \in T : ~ (<<y, x>> \in OpToRel(<, Nat))
  BY NatLessThanWellFounded, WFMin
<1>2. \A x, y \in Nat : x < y => <<x, y>> \in OpToRel(<, Nat)
  BY DEF OpToRel
<1>3. PICK x \in T : \A y \in T : ~ (y < x)
  BY <1>1, <1>2
<1> QED
  BY <1>3

-----------------------------------------------------------------------------
(* Coherence.  None of the three parts is inductive alone: that a clean    *)
(* slot agrees with the disk is kept by a write-back only because no other *)
(* slot holds the block written, and because a dirty slot names a block.   *)
(* Without a cache, writes go round the slots: no slot is in use then.     *)

NoCacheNoSlot == ~cached => \A i \in Slots : block_no[i] = 0

CoherenceInv == TypeOK /\ Coherent /\ NoCacheNoSlot

\* What replacing slot i by block b does to the slots, in read_block and in
\* write_block: i takes b, which no slot held, and the disk differs at most
\* at the block that i held.
LEMMA ReplaceSlot ==
  ASSUME CoherenceInv, NEW b \in Blocks, NEW i \in Slots, Found(b) = {}
  PROVE  /\ \A j \in Slots : block_no[j] # b
         /\ Flushed(i) \in [Blocks -> Data]
         /\ \A j \in Slots : j # i /\ block_no[j] # 0
              => Flushed(i)[block_no[j]] = disk[block_no[j]]
<1>1. \A j \in Slots : block_no[j] # b
  <2> SUFFICES ASSUME NEW j \in Slots, block_no[j] = b PROVE FALSE
    OBVIOUS
  <2> DEFINE Holders == {n \in Slots : block_no[n] = b}
  <2>1. Holders \in SUBSET Nat /\ Holders # {}
    BY DEF Slots
  <2>2. PICK k \in Holders : \A n \in Holders : k <= n
    BY <2>1, LeastElement
  <2> QED
    BY <2>2 DEF Found
<1>2. \A j \in Slots : j # i /\ block_no[j] # 0
              => Flushed(i)[block_no[j]] = disk[block_no[j]]
  BY DEF CoherenceInv, Coherent, OneSlotPerBlock, DirtySlotsAreNamed, Flushed,
         TypeOK
<1> QED
  BY <1>1, <1>2, FlushedType DEF CoherenceInv

\* Mounted without a cache, no operation fills a slot.
LEMMA NextNoCacheNoSlot == CoherenceInv /\ [Next]_vars => NoCacheNoSlot'
  BY DEF CoherenceInv, TypeOK, NoCacheNoSlot, Next, read_block, write_block,
         ReadDirect, ReadHit, ReadMiss, WriteDirect, WriteHit, WriteMiss,
         RefuseBlockZero, ext2_sync, Remount, vars, dc

\* Every operation keeps the cache coherent.
LEMMA NextCoherent == CoherenceInv /\ [Next]_vars => Coherent'
<1> SUFFICES ASSUME CoherenceInv, [Next]_vars PROVE Coherent'
  OBVIOUS
<1> USE DEF CoherenceInv, Coherent, NoCacheNoSlot, OneSlotPerBlock, CleanSlotsMatchDisk,
            DirtySlotsAreNamed
<1>1. ASSUME NEW b \in Blocks, read_block(b) PROVE Coherent'
  <2>1. CASE ReadDirect(b)
    BY <2>1 DEF ReadDirect, TypeOK, dc
  <2>2. ASSUME NEW i \in Slots, ReadHit(b, i) PROVE Coherent'
    BY <2>2 DEF ReadHit, TypeOK
  <2>3. ASSUME NEW i \in Slots, Found(b) = {}, ReadMiss(b, i) PROVE Coherent'
    <3>1. OneSlotPerBlock'
      BY <2>3, ReplaceSlot DEF ReadMiss, TypeOK
    <3>2. CleanSlotsMatchDisk'
      BY <2>3, ReplaceSlot DEF ReadMiss, TypeOK
    <3>3. DirtySlotsAreNamed'
      BY <2>3 DEF ReadMiss, TypeOK
    <3> QED
      BY <3>1, <3>2, <3>3
  <2> QED
    BY <1>1, <2>1, <2>2, <2>3 DEF read_block, Found, Oldest
<1>2. ASSUME NEW b \in Blocks, NEW d \in Data, write_block(b, d)
      PROVE  Coherent'
  <2>1. CASE ~cached /\ WriteDirect(b, d)
    BY <2>1 DEF WriteDirect, TypeOK, dc
  <2>2. ASSUME NEW i \in Slots, block_no[i] = b, WriteHit(b, d, i)
        PROVE  Coherent'
    BY <2>2 DEF WriteHit, TypeOK
  <2>3. ASSUME NEW i \in Slots, Found(b) = {}, WriteMiss(b, d, i)
        PROVE  Coherent'
    <3>1. OneSlotPerBlock'
      BY <2>3, ReplaceSlot DEF WriteMiss, TypeOK
    <3>2. CleanSlotsMatchDisk'
      BY <2>3, ReplaceSlot DEF WriteMiss, TypeOK
    <3>3. DirtySlotsAreNamed'
      BY <2>3 DEF WriteMiss, TypeOK
    <3> QED
      BY <3>1, <3>2, <3>3
  <2> QED
    BY <1>2, <2>1, <2>2, <2>3 DEF write_block, Found, Oldest
<1>3. CASE RefuseBlockZero
  BY <1>3 DEF RefuseBlockZero, TypeOK, dc
<1>4. CASE ext2_sync
  BY <1>4 DEF ext2_sync, TypeOK
<1>5. CASE Remount
  BY <1>5 DEF Remount, TypeOK
<1>6. CASE UNCHANGED vars
  BY <1>6 DEF vars, dc, TypeOK
<1> QED
  BY <1>1, <1>2, <1>3, <1>4, <1>5, <1>6 DEF Next

\* The cache is coherent in every reachable state: one slot at most for each
\* block, clean slots agree with the disk, and cache_flush_dirty never writes
\* through a slot that names no block.
THEOREM CacheCoherence == Spec => []CoherenceInv
<1>1. Init => CoherenceInv
  BY InitTypeOK DEF Init, CoherenceInv, Coherent, OneSlotPerBlock,
     CleanSlotsMatchDisk, DirtySlotsAreNamed, NoCacheNoSlot
<1>2. CoherenceInv /\ [Next]_vars => CoherenceInv'
  BY NextTypeOK, NextCoherent, NextNoCacheNoSlot DEF CoherenceInv
<1> QED
  BY <1>1, <1>2, PTL DEF Spec

\* The same, as the property that the model-checking runs state.
THEOREM CacheIsCoherent == Spec => []Coherent
<1>1. CoherenceInv => Coherent
  BY DEF CoherenceInv
<1> QED
  BY <1>1, CacheCoherence, PTL

-----------------------------------------------------------------------------
(* A miss finds a slot to replace.  A slot is passed over only when its    *)
(* stamp is UINT32_MAX; get_cache_time hands that stamp out once in each   *)
(* lap, so during the first cache_entries laps some slot is below it.      *)

TopStamped == {i \in Slots : last_use[i] = MaxTime}

StampInv == TypeOK /\ Cardinality(TopStamped) <= laps

\* There are cache_entries slots.
LEMMA SlotsFinite ==
  /\ IsFiniteSet(Slots)
  /\ Cardinality(Slots) = cache_entries
  BY FS_Interval DEF Slots

\* A set of slots is finite, and a smaller set has no more members.
LEMMA SlotSets ==
  ASSUME NEW S \in SUBSET Slots, NEW T \in SUBSET S
  PROVE  /\ IsFiniteSet(S)
         /\ Cardinality(S) \in Nat
         /\ Cardinality(T) \in Nat
         /\ Cardinality(T) <= Cardinality(S)
<1>1. IsFiniteSet(S)
  BY SlotsFinite, FS_Subset
<1>2. IsFiniteSet(T) /\ Cardinality(T) <= Cardinality(S)
  BY <1>1, FS_Subset
<1> QED
  BY <1>1, <1>2, FS_CardinalityType

\* Stamping one slot adds at most one UINT32_MAX, and then the clock wraps.
LEMMA TouchStamps ==
  ASSUME StampInv, NEW b \in Blocks, NEW i \in Slots, Touch(b, i)
  PROVE  Cardinality(TopStamped') <= laps'
<1> DEFINE T == TopStamped
<1>1. T \in SUBSET Slots /\ T \cup {i} \in SUBSET Slots
      /\ T' \in SUBSET Slots
  BY DEF TopStamped
<1>2. T' \subseteq T \cup {i}
  BY DEF Touch, TopStamped, StampInv, TypeOK
<1>3. Cardinality(T) \in Nat /\ IsFiniteSet(T)
  BY <1>1, SlotSets
<1>4. CASE cache_time < MaxTime
  <2>1. T' \subseteq T
    BY <1>4 DEF Touch, get_cache_time, TopStamped, StampInv, TypeOK, Times
  <2>2. Cardinality(T') <= Cardinality(T) /\ Cardinality(T') \in Nat
    BY <1>1, <2>1, SlotSets
  <2>3. laps' = laps /\ laps \in Nat
    BY <1>4 DEF Touch, get_cache_time, StampInv, TypeOK, Times
  <2> QED
    BY <1>3, <2>2, <2>3 DEF StampInv
<1>5. CASE cache_time = MaxTime
  <2>1. Cardinality(T \cup {i}) <= Cardinality(T) + 1
        /\ Cardinality(T \cup {i}) \in Nat
    BY <1>1, <1>3, FS_AddElement, SlotSets
  <2>2. Cardinality(T') <= Cardinality(T \cup {i}) /\ Cardinality(T') \in Nat
    BY <1>1, <1>2, SlotSets
  <2>3. laps' = laps + 1 /\ laps \in Nat
    BY <1>5 DEF Touch, get_cache_time, StampInv, TypeOK, Times
  <2> QED
    BY <1>3, <2>1, <2>2, <2>3 DEF StampInv
<1> QED
  BY <1>4, <1>5 DEF Touch, get_cache_time

\* No operation stamps more than one slot per lap with UINT32_MAX.
LEMMA NextStamps == StampInv /\ [Next]_vars => StampInv'
<1> SUFFICES ASSUME StampInv, [Next]_vars PROVE StampInv'
  OBVIOUS
<1>1. TypeOK'
  BY NextTypeOK DEF StampInv
<1>2. ASSUME NEW b \in Blocks, NEW i \in Slots, Touch(b, i) PROVE StampInv'
  BY <1>1, <1>2, TouchStamps DEF StampInv
<1>3. CASE UNCHANGED <<last_use, laps>>
  BY <1>1, <1>3 DEF StampInv, TopStamped
<1>4. CASE Remount
  <2>1. TopStamped' = {}
    BY <1>4 DEF Remount, TopStamped
  <2>2. Cardinality(TopStamped') <= laps'
    BY <1>4, <2>1, FS_EmptySet DEF Remount
  <2> QED
    BY <1>1, <2>2 DEF StampInv
<1> QED
  BY <1>2, <1>3, <1>4 DEF Next, read_block, write_block, ReadDirect, ReadHit,
     ReadMiss, WriteDirect, WriteHit, WriteMiss, RefuseBlockZero, ext2_sync,
     Found, Oldest, vars, dc

\* Among the slots there is a first one with the least stamp; it is Oldest
\* when that stamp is below UINT32_MAX.
LEMMA StampsLeaveAVictim == StampInv => VictimExists
<1> SUFFICES ASSUME StampInv PROVE VictimExists
  OBVIOUS
<1>1. PICK k \in Slots : last_use[k] < MaxTime
  <2>1. TopStamped \in SUBSET Slots
    BY DEF TopStamped
  <2>2. TopStamped # Slots
    BY SlotsFinite DEF StampInv, TypeOK
  <2> QED
    BY <2>1, <2>2 DEF TopStamped, StampInv, TypeOK, Times
<1> DEFINE Stamps == {last_use[i] : i \in Slots}
<1>2. Stamps \in SUBSET Nat /\ Stamps # {}
  BY <1>1 DEF StampInv, TypeOK, Times
<1>3. PICK t \in Stamps : \A u \in Stamps : t <= u
  BY <1>2, LeastElement
<1> DEFINE First == {i \in Slots : last_use[i] = t}
<1>4. First \in SUBSET Nat /\ First # {}
  BY <1>3 DEF Slots
<1>5. PICK m \in First : \A i \in First : m <= i
  BY <1>4, LeastElement
<1>6. last_use[m] < MaxTime
  BY <1>1, <1>2, <1>3, <1>5
<1>7. m \in Oldest
  BY <1>3, <1>5, <1>6 DEF Oldest
<1> QED
  BY <1>7 DEF VictimExists

\* read_block and write_block always find a slot to replace: they never use
\* the -1 that "oldest" starts from as an index, as long as the clock has
\* wrapped fewer than cache_entries times.
THEOREM MissFindsVictim == Spec => []VictimExists
<1>1. Init => StampInv
  <2> SUFFICES ASSUME Init PROVE StampInv
    OBVIOUS
  <2>1. TopStamped = {} /\ laps = 0
    BY DEF Init, TopStamped
  <2> QED
    BY <2>1, InitTypeOK, FS_EmptySet DEF StampInv
<1> QED
  BY <1>1, NextStamps, StampsLeaveAVictim, PTL DEF Spec

-----------------------------------------------------------------------------
(* Transparency: the cache implements the abstract block store.            *)

\* StoreView without its CHOOSE: any slot that holds a block has the content
\* that the driver reads.
ViewBySlot ==
  /\ StoreView \in [Blocks -> Data]
  /\ \A b \in Blocks, i \in Slots : block_no[i] = b => StoreView[b] = block[i]
  /\ \A b \in Blocks :
       (\A i \in Slots : block_no[i] # b) => StoreView[b] = disk[b]

\* In a coherent cache the CHOOSE of StoreView has one candidate.
LEMMA CoherentView == CoherenceInv => ViewBySlot
<1> SUFFICES ASSUME CoherenceInv PROVE ViewBySlot
  OBVIOUS
<1>1. \A b \in Blocks, i \in Slots :
        block_no[i] = b => (CHOOSE j \in Slots : block_no[j] = b) = i
  BY DEF CoherenceInv, Coherent, OneSlotPerBlock
<1>2. \A b \in Blocks, i \in Slots : block_no[i] = b => StoreView[b] = block[i]
  BY <1>1 DEF StoreView
<1>3. \A b \in Blocks :
       (\A i \in Slots : block_no[i] # b) => StoreView[b] = disk[b]
  BY DEF StoreView
<1>4. \A b \in Blocks : StoreView[b] \in Data
  BY <1>2, <1>3 DEF CoherenceInv, TypeOK
<1>5. StoreView = [b \in Blocks |-> StoreView[b]]
  BY DEF StoreView
<1>6. StoreView \in [Blocks -> Data]
  BY <1>4, <1>5
<1> QED
  BY <1>2, <1>3, <1>6 DEF ViewBySlot

\* Two contents of the device that agree on every block are equal.
LEMMA SameContents ==
  ASSUME NEW f \in [Blocks -> Data], NEW g \in [Blocks -> Data],
         \A c \in Blocks : f[c] = g[c]
  PROVE  f = g
<1>1. f = [c \in Blocks |-> f[c]] /\ g = [c \in Blocks |-> g[c]]
  OBVIOUS
<1>2. [c \in Blocks |-> f[c]] = [c \in Blocks |-> g[c]]
  BY Zenon
<1> QED
  BY <1>1, <1>2

\* Writing back the blocks of a set S is a write-back.
LEMMA WriteBackSet ==
  ASSUME NEW S \in SUBSET Blocks, NEW st,
         disk' = [b \in Blocks |-> IF b \in S THEN st[b] ELSE disk[b]]
  PROVE  BS!WriteBack(st)
<1> SUFFICES \E T \in SUBSET Blocks :
       disk' = [b \in Blocks |-> IF b \in T THEN st[b] ELSE disk[b]]
  BY DEF BS!WriteBack
<1> WITNESS S \in SUBSET Blocks
<1> QED
  OBVIOUS

\* Nothing, or the content of the replaced slot, reaches the disk.
LEMMA FlushWritesBack ==
  ASSUME CoherenceInv, NEW i \in Slots, disk' = Flushed(i),
         NEW st \in [Blocks -> Data],
         block_no[i] # 0 => st[block_no[i]] = block[i]
  PROVE  BS!WriteBack(st)
<1> DEFINE S == IF dirty[i] THEN {block_no[i]} ELSE {}
<1>1. S \in SUBSET Blocks
  BY DEF CoherenceInv, TypeOK, Coherent, DirtySlotsAreNamed
<1>2. disk' = [b \in Blocks |-> IF b \in S THEN st[b] ELSE disk[b]]
  BY DEF Flushed, CoherenceInv, TypeOK, Coherent, DirtySlotsAreNamed
<1> HIDE DEF S
<1> QED
  BY <1>1, <1>2, WriteBackSet

\* Leaving the disk alone is writing back no block.
LEMMA NoWriteBack ==
  ASSUME TypeOK, UNCHANGED disk, NEW st
  PROVE  BS!WriteBack(st)
<1>1. disk' = [b \in Blocks |-> IF b \in {} THEN st[b] ELSE disk[b]]
  BY DEF TypeOK
<1>2. {} \in SUBSET Blocks
  OBVIOUS
<1> QED
  BY <1>1, <1>2, WriteBackSet

\* read_block answers with the store's content and leaves the store alone.
LEMMA ReadRefines ==
  ASSUME CoherenceInv, ViewBySlot, ViewBySlot', NEW b \in Blocks, read_block(b)
  PROVE  BS!Read(b)
<1>1. CASE ~cached /\ ReadDirect(b)
  <2>1. UNCHANGED StoreView
    BY <1>1 DEF ReadDirect, dc, StoreView
  <2>2. StoreView[b] = disk[b]
    BY <1>1 DEF ViewBySlot, CoherenceInv, NoCacheNoSlot
  <2> QED
    BY <1>1, <2>1, <2>2, NoWriteBack DEF ReadDirect, BS!Read, CoherenceInv
<1>2. ASSUME NEW i \in Slots, block_no[i] = b, ReadHit(b, i) PROVE BS!Read(b)
  <2>1. UNCHANGED StoreView
    BY <1>2 DEF ReadHit, StoreView
  <2>2. StoreView[b] = block[i]
    BY <1>2 DEF ViewBySlot
  <2> QED
    BY <1>2, <2>1, <2>2, NoWriteBack DEF ReadHit, BS!Read, CoherenceInv
<1>3. ASSUME NEW i \in Slots, Found(b) = {}, ReadMiss(b, i) PROVE BS!Read(b)
  <2>1. StoreView[b] = disk[b] /\ disk'[b] = disk[b]
    BY <1>3, ReplaceSlot DEF ReadMiss, ViewBySlot, Flushed, CoherenceInv, TypeOK
  <2>2. BS!WriteBack(StoreView)
    <3>1. StoreView \in [Blocks -> Data]
      BY DEF ViewBySlot
    <3>2. block_no[i] # 0 => StoreView[block_no[i]] = block[i]
      <4>1. block_no[i] \in Blocks \cup {0}
        BY DEF CoherenceInv, TypeOK
      <4> QED
        BY <4>1 DEF ViewBySlot
    <3>3. disk' = Flushed(i)
      BY <1>3 DEF ReadMiss
    <3> QED
      BY <3>1, <3>2, <3>3, FlushWritesBack
  <2>3. ASSUME NEW c \in Blocks PROVE StoreView'[c] = StoreView[c]
    <3>1. CASE c = b
      <4>1. block_no'[i] = b /\ block'[i] = disk[b]
        BY <1>3, <2>1 DEF ReadMiss, CoherenceInv, TypeOK
      <4> QED
        BY <2>1, <3>1, <4>1 DEF ViewBySlot
    <3>2. CASE c # b /\ block_no[i] = c
      <4>1. \A j \in Slots : block_no'[j] # c
        BY <1>3, <3>2 DEF ReadMiss, CoherenceInv, TypeOK, Coherent,
           OneSlotPerBlock
      <4>2. disk'[c] = block[i]
        BY <1>3, <3>2 DEF ReadMiss, Flushed, CoherenceInv, TypeOK, Coherent,
           CleanSlotsMatchDisk
      <4> QED
        BY <3>2, <4>1, <4>2 DEF ViewBySlot
    <3>3. CASE \E j \in Slots : j # i /\ block_no[j] = c
      BY <1>3, <3>3 DEF ReadMiss, ViewBySlot, CoherenceInv, TypeOK
    <3>4. CASE c # b /\ \A j \in Slots : block_no[j] # c
      <4>1. \A j \in Slots : block_no'[j] # c
        BY <1>3, <3>4 DEF ReadMiss, CoherenceInv, TypeOK
      <4>2. disk'[c] = disk[c]
        BY <1>3, <3>4 DEF ReadMiss, Flushed, CoherenceInv, TypeOK
      <4> QED
        BY <3>4, <4>1, <4>2 DEF ViewBySlot
    <3> QED
      BY <3>1, <3>2, <3>3, <3>4
  <2>4. UNCHANGED StoreView
    BY <2>3 DEF ViewBySlot
  <2> QED
    BY <1>3, <2>1, <2>2, <2>4 DEF ReadMiss, BS!Read
<1> QED
  BY <1>1, <1>2, <1>3 DEF read_block, Found, Oldest

\* write_block changes the store at one block.
LEMMA WriteRefines ==
  ASSUME CoherenceInv, ViewBySlot, ViewBySlot', NEW b \in Blocks, NEW d \in Data,
         write_block(b, d)
  PROVE  BS!Write(b, d)
<1>1. CASE ~cached /\ WriteDirect(b, d)
  <2>1. \A c \in Blocks, i \in Slots : block_no[i] # c /\ block_no'[i] # c
    BY <1>1 DEF WriteDirect, dc, CoherenceInv, NoCacheNoSlot
  <2>2. \A c \in Blocks : StoreView[c] = disk[c] /\ StoreView'[c] = disk'[c]
    BY <2>1 DEF ViewBySlot
  <2>3. StoreView' = [StoreView EXCEPT ![b] = d]
    BY <1>1, <2>2 DEF WriteDirect, ViewBySlot, CoherenceInv, TypeOK
  <2>4. disk' = [c \in Blocks |-> IF c \in {b} THEN StoreView'[c] ELSE disk[c]]
    BY <1>1, <2>2 DEF WriteDirect, CoherenceInv, TypeOK
  <2>5. {b} \in SUBSET Blocks
    OBVIOUS
  <2>6. BS!WriteBack(StoreView')
    BY <2>4, <2>5, WriteBackSet
  <2> QED
    BY <1>1, <2>3, <2>6 DEF WriteDirect, BS!Write
<1>2. ASSUME NEW i \in Slots, block_no[i] = b, WriteHit(b, d, i)
      PROVE  BS!Write(b, d)
  <2>1. StoreView'[b] = d
    BY <1>2 DEF WriteHit, ViewBySlot, CoherenceInv, TypeOK
  <2>2. ASSUME NEW c \in Blocks, c # b PROVE StoreView'[c] = StoreView[c]
    <3>1. CASE \E j \in Slots : block_no[j] = c
      BY <1>2, <2>2, <3>1 DEF WriteHit, ViewBySlot, CoherenceInv, TypeOK
    <3>2. CASE \A j \in Slots : block_no[j] # c
      BY <1>2, <3>2 DEF WriteHit, ViewBySlot
    <3> QED
      BY <3>1, <3>2
  <2>3. StoreView' = [StoreView EXCEPT ![b] = d]
    BY <2>1, <2>2 DEF ViewBySlot
  <2> QED
    BY <1>2, <2>3, NoWriteBack DEF WriteHit, BS!Write, CoherenceInv
<1>3. ASSUME NEW i \in Slots, Found(b) = {}, WriteMiss(b, d, i)
      PROVE  BS!Write(b, d)
  <2>1. block_no'[i] = b /\ block'[i] = d /\ block_no[i] # b
    BY <1>3, ReplaceSlot DEF WriteMiss, CoherenceInv, TypeOK
  <2>2. StoreView'[b] = d
    BY <2>1 DEF ViewBySlot
  <2>3. ASSUME NEW c \in Blocks, c # b PROVE StoreView'[c] = StoreView[c]
    <3>1. CASE block_no[i] = c
      <4>1. \A j \in Slots : block_no'[j] # c
        BY <1>3, <2>3, <3>1 DEF WriteMiss, CoherenceInv, TypeOK, Coherent,
           OneSlotPerBlock
      <4>2. disk'[c] = block[i]
        BY <1>3, <3>1 DEF WriteMiss, Flushed, CoherenceInv, TypeOK, Coherent,
           CleanSlotsMatchDisk
      <4> QED
        BY <3>1, <4>1, <4>2 DEF ViewBySlot
    <3>2. CASE \E j \in Slots : j # i /\ block_no[j] = c
      BY <1>3, <3>2 DEF WriteMiss, ViewBySlot, CoherenceInv, TypeOK
    <3>3. CASE \A j \in Slots : block_no[j] # c
      <4>1. \A j \in Slots : block_no'[j] # c
        BY <1>3, <2>3, <3>3 DEF WriteMiss, CoherenceInv, TypeOK
      <4>2. disk'[c] = disk[c]
        BY <1>3, <3>3 DEF WriteMiss, Flushed, CoherenceInv, TypeOK
      <4> QED
        BY <3>3, <4>1, <4>2 DEF ViewBySlot
    <3> QED
      BY <3>1, <3>2, <3>3
  <2>4. StoreView' = [StoreView EXCEPT ![b] = d]
    BY <2>2, <2>3 DEF ViewBySlot
  <2>5. StoreView' \in [Blocks -> Data]
    BY DEF ViewBySlot
  <2>6. block_no[i] # 0 => StoreView'[block_no[i]] = block[i]
    <3>1. block_no[i] \in Blocks \cup {0}
      BY DEF CoherenceInv, TypeOK
    <3>2. block_no[i] # 0 => StoreView[block_no[i]] = block[i]
      BY <3>1 DEF ViewBySlot
    <3> QED
      BY <2>1, <2>3, <3>1, <3>2
  <2>7. disk' = Flushed(i)
    BY <1>3 DEF WriteMiss
  <2>8. BS!WriteBack(StoreView')
    BY <2>5, <2>6, <2>7, FlushWritesBack
  <2> QED
    BY <1>3, <2>4, <2>8 DEF WriteMiss, BS!Write
<1> QED
  BY <1>1, <1>2, <1>3 DEF write_block, Found, Oldest

\* ext2_sync makes the whole store durable.
LEMMA SyncRefines ==
  ASSUME CoherenceInv, ViewBySlot, ViewBySlot', ext2_sync
  PROVE  BS!Sync
<1>1. ASSUME NEW c \in Blocks
      PROVE  disk'[c] = StoreView[c] /\ StoreView'[c] = StoreView[c]
  <2>1. CASE \E j \in Slots : block_no[j] = c
    <3>1. PICK j \in Slots : block_no[j] = c
      BY <2>1
    <3>2. StoreView[c] = block[j] /\ StoreView'[c] = block[j]
      BY <3>1 DEF ext2_sync, ViewBySlot
    <3>3. CASE dirty[j]
      <4>1. (CHOOSE i \in Slots : dirty[i] /\ block_no[i] = c) = j
        BY <3>1, <3>3 DEF CoherenceInv, Coherent, OneSlotPerBlock
      <4> QED
        BY <3>1, <3>2, <3>3, <4>1 DEF ext2_sync
    <3>4. CASE ~dirty[j]
      <4>1. ~ \E i \in Slots : dirty[i] /\ block_no[i] = c
        BY <3>1, <3>4 DEF CoherenceInv, Coherent, OneSlotPerBlock
      <4>2. disk'[c] = disk[c]
        BY <4>1 DEF ext2_sync
      <4> QED
        BY <3>1, <3>2, <3>4, <4>2 DEF CoherenceInv, Coherent,
           CleanSlotsMatchDisk
    <3> QED
      BY <3>3, <3>4
  <2>2. CASE \A j \in Slots : block_no[j] # c
    BY <2>2 DEF ext2_sync, ViewBySlot
  <2> QED
    BY <2>1, <2>2
<1>2. disk' \in [Blocks -> Data] /\ StoreView \in [Blocks -> Data]
      /\ StoreView' \in [Blocks -> Data]
  <2>1. disk' = [c \in Blocks |-> disk'[c]]
    BY DEF ext2_sync
  <2> QED
    BY <1>1, <2>1 DEF ViewBySlot
<1>3. disk' = StoreView /\ StoreView' = StoreView
  BY <1>1, <1>2, SameContents
<1> QED
  BY <1>3 DEF ext2_sync, BS!Sync

\* The cache is transparent: to the rest of the driver, mounted with or
\* without a cache, read_block, write_block and ext2_sync are the operations
\* of the abstract block store, whatever slots they hit, fill or replace.
THEOREM CacheIsTransparent == Spec => StoreSpec
<1>1. Init => BS!Init
  <2> SUFFICES ASSUME Init PROVE BS!Init
    OBVIOUS
  <2>1. \A b \in Blocks, i \in Slots : block_no[i] # b
    BY DEF Init
  <2>2. StoreView = disk
    BY <2>1 DEF StoreView, Init
  <2> QED
    BY <2>2 DEF Init, BS!Init
<1>2. CoherenceInv /\ CoherenceInv' /\ ViewBySlot /\ ViewBySlot' /\ [Next]_vars
        => [BS!Next]_(BS!bsVars)
  <2> SUFFICES ASSUME CoherenceInv, CoherenceInv', ViewBySlot, ViewBySlot',
                      [Next]_vars
               PROVE  [BS!Next]_(BS!bsVars)
    OBVIOUS
  <2>1. ASSUME NEW b \in Blocks, read_block(b) PROVE BS!Next
    BY <2>1, ReadRefines DEF BS!Next
  <2>2. ASSUME NEW b \in Blocks, NEW d \in Data, write_block(b, d) PROVE BS!Next
    BY <2>2, WriteRefines DEF BS!Next
  <2>3. CASE RefuseBlockZero
    BY <2>3 DEF RefuseBlockZero, dc, StoreView, BS!Refuse, BS!Next
  <2>4. CASE ext2_sync
    BY <2>4, SyncRefines DEF BS!Next
  <2>5. CASE Remount
    <3>1. \A b \in Blocks, i \in Slots : block_no'[i] # b
      BY <2>5 DEF Remount
    <3>2. \A b \in Blocks : StoreView'[b] = disk[b]
      BY <2>5, <3>1 DEF Remount, ViewBySlot
    <3>3. StoreView' \in [Blocks -> Data] /\ disk \in [Blocks -> Data]
      BY DEF ViewBySlot, CoherenceInv, TypeOK
    <3>4. StoreView' = disk
      BY <3>2, <3>3, SameContents
    <3> QED
      BY <2>5, <3>4 DEF Remount, BS!PowerFailure, BS!Next
  <2>6. CASE UNCHANGED vars
    BY <2>6 DEF vars, dc, StoreView, BS!bsVars
  <2> QED
    BY <2>1, <2>2, <2>3, <2>4, <2>5, <2>6 DEF Next
<1> QED
  BY <1>1, <1>2, CacheCoherence, CoherentView, PTL DEF Spec, StoreSpec, BS!Spec

=============================================================================
