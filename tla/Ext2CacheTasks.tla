--------------------------- MODULE Ext2CacheTasks ---------------------------
(***************************************************************************)
(* The ext2 block cache used by several tasks.  The spin_lock calls of     *)
(* read_block, write_block and ext2_sync are commented out, and the ATA    *)
(* driver turns interrupts on while it waits for a sector                  *)
(* (ata_device_read_sector, which every sector write calls as well to read *)
(* the sector back): a task that waits for the disk in the middle of an    *)
(* operation is preempted by others that use the same slots.               *)
(*                                                                         *)
(* An operation runs without interruption between two disk transfers.  A   *)
(* block is transferred at once; a real one has two sectors or more, and   *)
(* more points at which its task is preempted.                             *)
(***************************************************************************)
EXTENDS Ext2Cache

CONSTANT Tasks

VARIABLES
  op,       \* the operation each task is in, and the slot it replaces
  written   \* ghost: the content of each block by the last write that returned

tvars == <<vars, op, written>>

None == [pc |-> "none"]

TasksInit ==
  /\ Init
  /\ cached
  /\ op = [t \in Tasks |-> None]
  /\ written = disk

\* The sectors of a dirty slot are on the disk before they are read back.
StartFlush(i) == disk' = Flushed(i)

Finish(t) == op' = [op EXCEPT ![t] = None]

ReadBlock(t, b) ==
  /\ op[t] = None
  /\ \/ \E i \in Found(b) :
          /\ ReadHit(b, i)
          /\ UNCHANGED op
     \/ \E i \in Oldest :
          /\ Found(b) = {}
          /\ StartFlush(i)
          /\ op' = [op EXCEPT ![t] =
               [kind |-> "read", block_no |-> b, oldest |-> i,
                pc |-> IF dirty[i] THEN "flush" ELSE "fill"]]
          /\ UNCHANGED <<cached, dc, cache_time, reply, laps, used>>
  /\ UNCHANGED written

\* What write_block does to the slot after it has been made room for.
Replace(b, d, i) ==
  /\ block' = [block EXCEPT ![i] = d]
  /\ block_no' = [block_no EXCEPT ![i] = b]
  /\ Touch(b, i)
  /\ dirty' = [dirty EXCEPT ![i] = TRUE]
  /\ reply' = BS!Ok(b, d)
  /\ written' = [written EXCEPT ![b] = d]
  /\ UNCHANGED <<cached, disk>>

WriteBlock(t, b, d) ==
  /\ op[t] = None
  /\ \/ \E i \in Found(b) :
          /\ WriteHit(b, d, i)
          /\ written' = [written EXCEPT ![b] = d]
          /\ UNCHANGED op
     \/ \E i \in Oldest :
          /\ Found(b) = {}
          /\ ~dirty[i]
          /\ Replace(b, d, i)
          /\ UNCHANGED op
     \/ \E i \in Oldest :
          /\ Found(b) = {}
          /\ dirty[i]
          /\ StartFlush(i)
          /\ op' = [op EXCEPT ![t] =
               [kind |-> "write", block_no |-> b, oldest |-> i, buf |-> d,
                pc |-> "flush"]]
          /\ UNCHANGED <<cached, dc, cache_time, reply, laps, used, written>>

\* The disk has answered: cache_flush_dirty clears the flag and returns.
ReadFlushed(t) ==
  /\ op[t].pc = "flush"
  /\ op[t].kind = "read"
  /\ dirty' = [dirty EXCEPT ![op[t].oldest] = FALSE]
  /\ op' = [op EXCEPT ![t].pc = "fill"]
  /\ UNCHANGED <<cached, disk, block_no, last_use, block, cache_time, reply,
                 laps, used, written>>

WriteFlushed(t) ==
  /\ op[t].pc = "flush"
  /\ op[t].kind = "write"
  /\ Replace(op[t].block_no, op[t].buf, op[t].oldest)
  /\ Finish(t)

ReadFilled(t) ==
  LET b == op[t].block_no
      i == op[t].oldest
  IN  /\ op[t].pc = "fill"
      /\ block' = [block EXCEPT ![i] = disk[b]]
      /\ reply' = BS!Ok(b, disk[b])
      /\ block_no' = [block_no EXCEPT ![i] = b]
      /\ Touch(b, i)
      /\ dirty' = [dirty EXCEPT ![i] = FALSE]
      /\ Finish(t)
      /\ UNCHANGED <<cached, disk, written>>

\* ext2_sync: from slot i on, the next dirty slot is flushed.
SyncFrom(t, i) ==
  LET D == {j \in Slots : j >= i /\ dirty[j]}
  IN  \/ /\ D = {}
         /\ Finish(t)
         /\ UNCHANGED disk
      \/ \E j \in D :
           /\ \A k \in D : j <= k
           /\ StartFlush(j)
           /\ op' = [op EXCEPT ![t] = [kind |-> "sync", pc |-> "flush", i |-> j]]

Sync(t) ==
  /\ op[t] = None
  /\ \E i \in Slots : dirty[i]
  /\ SyncFrom(t, 0)
  /\ UNCHANGED <<cached, dc, cache_time, reply, laps, used, written>>

SyncFlushed(t) ==
  /\ op[t].pc = "flush"
  /\ op[t].kind = "sync"
  /\ dirty' = [dirty EXCEPT ![op[t].i] = FALSE]
  /\ SyncFrom(t, op[t].i + 1)
  /\ UNCHANGED <<cached, block_no, last_use, block, cache_time, reply, laps,
                 used, written>>

TasksNext ==
  \E t \in Tasks :
    \/ \E b \in Blocks : ReadBlock(t, b)
    \/ \E b \in Blocks, d \in Data : WriteBlock(t, b, d)
    \/ ReadFlushed(t)
    \/ WriteFlushed(t)
    \/ ReadFilled(t)
    \/ Sync(t)
    \/ SyncFlushed(t)

TasksSpec == TasksInit /\ [][TasksNext]_tvars

-----------------------------------------------------------------------------

\* When no operation is in progress, every block reads as the last write of
\* it that returned E_SUCCESS.  The comments of read_block, write_block and
\* ext2_sync ask for the filesystem lock, which would ensure it.
WritesAreKept ==
  (\A t \in Tasks : op[t] = None) => StoreView = written

=============================================================================
