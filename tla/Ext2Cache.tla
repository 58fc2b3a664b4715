----------------------------- MODULE Ext2Cache ------------------------------
(***************************************************************************)
(* The block cache of the ext2 driver (kernel/src/ext2.c): cache_entries   *)
(* slots, each with a block number, a content, a dirty flag and the cache  *)
(* time of its last use.  read_block and write_block replace the slot that *)
(* was used least recently, writing it back first when it is dirty.        *)
(*                                                                         *)
(* Here one operation runs at a time, which is what the comments of        *)
(* read_block and write_block ask for ("This operation requires the        *)
(* filesystem lock to be obtained"); Ext2CacheTasks drops that assumption. *)
(***************************************************************************)
EXTENDS Integers, FiniteSets

CONSTANTS
  Blocks,         \* numbers of the blocks the file system names, never 0
  Data,           \* the contents a block can have
  Zero,           \* the content of a block of zeroes
  cache_entries,  \* number of slots
  MaxTime,        \* greatest value of the cache clock (UINT32_MAX)
  MaxLaps         \* bound on the wrap-arounds of the clock that are followed

ASSUME CacheConstants ==
  /\ Blocks \subseteq Nat \ {0}
  /\ Zero \in Data
  /\ cache_entries \in Nat \ {0}
  /\ MaxTime \in Nat \ {0}
  /\ MaxLaps \in Nat
  /\ MaxLaps < cache_entries

VARIABLES
  cached,      \* DC # NULL: not mounted with EXT2_FLAG_NOCACHE
  disk,        \* the blocks of this->block_device
  block_no,    \* DC[i].block_no, 0 for a slot never used
  last_use,    \* DC[i].last_use
  dirty,       \* DC[i].dirty
  block,       \* DC[i].block
  cache_time,  \* this->cache_time
  reply,       \* error code and buffer of the last operation
  laps,        \* ghost: wrap-arounds of cache_time since the mount
  used         \* ghost: cache time of the last access to each block, or -1

dc == <<block_no, last_use, dirty, block>>
vars == <<cached, disk, dc, cache_time, reply, laps, used>>

Slots == 0 .. cache_entries - 1
Times == 0 .. MaxTime

\* What the driver reads from each block: the slot that holds it, or the disk.
StoreView ==
  [b \in Blocks |->
    IF \E i \in Slots : block_no[i] = b
    THEN block[CHOOSE i \in Slots : block_no[i] = b]
    ELSE disk[b]]

BS == INSTANCE BlockStore WITH
        store <- StoreView,
        durable <- disk

-----------------------------------------------------------------------------

Init ==
  /\ cached \in BOOLEAN
  /\ disk \in [Blocks -> Data]
  /\ block_no = [i \in Slots |-> 0]
  /\ last_use = [i \in Slots |-> 0]
  /\ dirty = [i \in Slots |-> FALSE]
  /\ block = [i \in Slots |-> Zero]
  /\ cache_time = 0
  /\ reply = BS!Idle
  /\ laps = 0
  /\ used = [b \in Blocks |-> -1]

\* Faulty variant: the counter saturates.
SaturatingClock ==
  /\ cache_time' = IF cache_time < MaxTime THEN cache_time + 1 ELSE MaxTime
  /\ UNCHANGED laps

\* Faulty variant: the counter is wider than last_use.
WideClock ==
  /\ laps < MaxLaps
  /\ cache_time' = cache_time + 1
  /\ laps' = IF cache_time >= MaxTime THEN laps + 1 ELSE laps

\* cache_time++ on a 32-bit counter.
get_cache_time ==
  \/ /\ cache_time < MaxTime
     /\ cache_time' = cache_time + 1
     /\ UNCHANGED laps
  \/ /\ cache_time = MaxTime
     /\ laps < MaxLaps
     /\ cache_time' = 0
     /\ laps' = laps + 1

\* The slot at which the search loop stops, when there is one.
Found(b) ==
  {i \in Slots : block_no[i] = b /\ \A j \in Slots : block_no[j] = b => i <= j}

\* The search loop's "oldest": the first slot with the least last_use, none
\* when no slot is below the UINT32_MAX that oldest_age starts from.
Oldest ==
  {i \in Slots :
    /\ last_use[i] < MaxTime
    /\ \A j \in Slots : last_use[i] <= last_use[j]
    /\ \A j \in Slots : last_use[j] = last_use[i] => i <= j}

Touch(b, i) ==
  /\ get_cache_time
  /\ last_use' = [last_use EXCEPT ![i] = cache_time]
  /\ used' = [used EXCEPT ![b] = cache_time]

\* cache_flush_dirty, and its guard at every call.
Flushed(i) ==
  IF dirty[i] THEN [disk EXCEPT ![block_no[i]] = block[i]] ELSE disk

\* Faulty variant: a hit does not count as a use.
ReadHitUntouched(b, i) ==
  /\ get_cache_time
  /\ used' = [used EXCEPT ![b] = cache_time]
  /\ reply' = BS!Ok(b, block[i])
  /\ UNCHANGED <<cached, disk, dc>>

ReadHit(b, i) ==
  /\ Touch(b, i)
  /\ reply' = BS!Ok(b, block[i])
  /\ UNCHANGED <<cached, disk, block_no, dirty, block>>

ReadMiss(b, i) ==
  /\ disk' = Flushed(i)
  /\ block' = [block EXCEPT ![i] = disk'[b]]
  /\ reply' = BS!Ok(b, disk'[b])
  /\ block_no' = [block_no EXCEPT ![i] = b]
  /\ Touch(b, i)
  /\ dirty' = [dirty EXCEPT ![i] = FALSE]
  /\ UNCHANGED cached

\* Faulty variant: a hit does not mark the slot dirty.
WriteHitClean(b, d, i) ==
  /\ Touch(b, i)
  /\ block' = [block EXCEPT ![i] = d]
  /\ reply' = BS!Ok(b, d)
  /\ UNCHANGED <<cached, disk, block_no, dirty>>

WriteHit(b, d, i) ==
  /\ Touch(b, i)
  /\ dirty' = [dirty EXCEPT ![i] = TRUE]
  /\ block' = [block EXCEPT ![i] = d]
  /\ reply' = BS!Ok(b, d)
  /\ UNCHANGED <<cached, disk, block_no>>

\* Faulty variant: the replaced slot is not written back.
WriteMissNoFlush(b, d, i) ==
  /\ block' = [block EXCEPT ![i] = d]
  /\ block_no' = [block_no EXCEPT ![i] = b]
  /\ Touch(b, i)
  /\ dirty' = [dirty EXCEPT ![i] = TRUE]
  /\ reply' = BS!Ok(b, d)
  /\ UNCHANGED <<cached, disk>>

WriteMiss(b, d, i) ==
  /\ disk' = Flushed(i)
  /\ block' = [block EXCEPT ![i] = d]
  /\ block_no' = [block_no EXCEPT ![i] = b]
  /\ Touch(b, i)
  /\ dirty' = [dirty EXCEPT ![i] = TRUE]
  /\ reply' = BS!Ok(b, d)
  /\ UNCHANGED cached

\* Without a cache (DC = NULL) both operations go to the device.
ReadDirect(b) ==
  /\ reply' = BS!Ok(b, disk[b])
  /\ UNCHANGED <<cached, disk, dc, cache_time, laps, used>>

WriteDirect(b, d) ==
  /\ disk' = [disk EXCEPT ![b] = d]
  /\ reply' = BS!Ok(b, d)
  /\ UNCHANGED <<cached, dc, cache_time, laps, used>>

read_block(b) ==
  \/ /\ ~cached
     /\ ReadDirect(b)
  \/ /\ cached
     /\ \E i \in Found(b) : ReadHit(b, i)
  \/ /\ cached
     /\ Found(b) = {}
     /\ \E i \in Oldest : ReadMiss(b, i)

write_block(b, d) ==
  \/ /\ ~cached
     /\ WriteDirect(b, d)
  \/ /\ cached
     /\ \E i \in Found(b) : WriteHit(b, d, i)
  \/ /\ cached
     /\ Found(b) = {}
     /\ \E i \in Oldest : WriteMiss(b, d, i)

\* Either operation on block 0.
RefuseBlockZero ==
  /\ reply' = BS!BadBlock
  /\ UNCHANGED <<cached, disk, dc, cache_time, laps, used>>

\* Returns at once when there is no cache.
ext2_sync ==
  /\ cached
  /\ disk' = [b \in Blocks |->
                IF \E i \in Slots : dirty[i] /\ block_no[i] = b
                THEN block[CHOOSE i \in Slots : dirty[i] /\ block_no[i] = b]
                ELSE disk[b]]
  /\ dirty' = [i \in Slots |-> FALSE]
  /\ reply' = BS!Idle
  /\ UNCHANGED <<cached, block_no, last_use, block, cache_time, laps, used>>

\* Power is lost between two operations and mount_ext2 runs again, with or
\* without the nocache option.
Remount ==
  /\ cached' \in BOOLEAN
  /\ block_no' = [i \in Slots |-> 0]
  /\ last_use' = [i \in Slots |-> 0]
  /\ dirty' = [i \in Slots |-> FALSE]
  /\ block' = [i \in Slots |-> Zero]
  /\ cache_time' = 0
  /\ reply' = BS!Idle
  /\ laps' = 0
  /\ used' = [b \in Blocks |-> -1]
  /\ UNCHANGED disk

Next ==
  \/ \E b \in Blocks : read_block(b)
  \/ \E b \in Blocks, d \in Data : write_block(b, d)
  \/ RefuseBlockZero
  \/ ext2_sync
  \/ Remount

Spec == Init /\ [][Next]_vars

-----------------------------------------------------------------------------

\* Every field of the cache and of the disk keeps its C type: in particular a
\* slot only ever names a block of the device or none.
TypeOK ==
  /\ cached \in BOOLEAN
  /\ disk \in [Blocks -> Data]
  /\ block_no \in [Slots -> Blocks \cup {0}]
  /\ last_use \in [Slots -> Times]
  /\ dirty \in [Slots -> BOOLEAN]
  /\ block \in [Slots -> Data]
  /\ cache_time \in Times
  /\ laps \in 0 .. MaxLaps
  /\ used \in [Blocks -> Times \cup {-1}]

\* No block is held by two slots: read_block and write_block replace a slot
\* only after a search of the whole cache.
OneSlotPerBlock ==
  \A i, j \in Slots : block_no[i] = block_no[j] /\ block_no[i] # 0 => i = j

\* A slot that is not dirty can be dropped: it agrees with the disk.
CleanSlotsMatchDisk ==
  \A i \in Slots :
    block_no[i] # 0 /\ ~dirty[i] => block[i] = disk[block_no[i]]

\* cache_flush_dirty never writes through a slot that names no block (that
\* would overwrite the start of the device).
DirtySlotsAreNamed ==
  \A i \in Slots : dirty[i] => block_no[i] # 0

\* The cache is coherent: each block has one slot at most, clean slots agree
\* with the disk and dirty slots know where they belong.
Coherent ==
  /\ OneSlotPerBlock
  /\ CleanSlotsMatchDisk
  /\ DirtySlotsAreNamed

\* A miss always finds a slot to replace: read_block and write_block never
\* index the cache with the -1 that "oldest" starts from.  The last_use of a
\* slot may stay at UINT32_MAX after the clock has wrapped, and such a slot
\* is passed over, but only one slot can be stamped so in each lap.
VictimExists == Oldest # {}

\* The cache keeps its working set: until the clock wraps, a block is cached
\* as long as fewer than cache_entries other blocks were used after it.  (The
\* very first access is stamped 0, like a slot never used, and is lost to the
\* next miss.)
WorkingSetIsCached ==
  cached /\ laps = 0 =>
    \A b \in Blocks :
      /\ used[b] > 0
      /\ Cardinality({c \in Blocks : used[c] > used[b]}) < cache_entries
      => \E i \in Slots : block_no[i] = b

\* The cache is transparent: the driver sees a block store whose reads answer
\* with the last write, whose sync makes everything durable, and which falls
\* back to what was written out when power fails.
StoreSpec == BS!Spec

=============================================================================
