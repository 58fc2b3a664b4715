# ChiffOS: a verification development

This directory holds a TLA+ development of the ChiffOS kernel (`kernel/` in the repository): modules that model
its components, TLC configurations that check them on small instances, and theorems that TLAPS proves for every
value of the constants. `PROJECT.json` lists the components, the runs, the theorems, the hazards, and for each
definition the source lines it models.

## 1. The system

ChiffOS is a 32-bit single-processor kernel. Everything in it, drivers, file systems, the lwIP stack and the
system calls, runs in one address space at ring 0; kernel tasks are preempted by the timer interrupt unless
interrupts are off. The table lists its parts (paths under `kernel/src/`), their state and their operations.

| Part | Source | State | Operations |
|---|---|---|---|
| ext2 block cache | `ext2.c` 95-284 | slots `DC[i]` (block number, content, dirty flag, time of last use), clock, disk | `read_block`, `write_block`, `ext2_sync`, mount |
| ext2 block map | `ext2.c` 294-615 | `inode->block[15]`, indirect blocks | `set_block_number`, `get_block_number`, `inode_read_block`, `inode_write_block` |
| ext2 allocation and directories | `ext2.c` 496-1106 | bitmaps, free counters, directory entries | `allocate_block`, `allocate_inode`, `create_entry`, `mkdir`, `create`, `unlink` |
| scheduler | `task/proc.c`, `task/sched.c`, `task/list.c` | ring of tasks with a current element, ready queue, sleep state | create, `_task_switch`, `sleep2`, `kexit`, `kill` |
| interrupts | `dev/cpu/interrupts.c` | IF, nesting depth, `task_switching` | `int_disable`, `int_resume`, `int_enable`, `irq_handler` |
| process tree, signals, waiting | `task/proc.c`, `signal.c` | tree, wait queues, signal queue | `fork`, `waitpid`, `wakeup_queue`, `send_signal`, `handle_signal` |
| pipes and ring buffers | `ringbuffer.c`, `pipe.c`, `unixpipe.c` | circular buffer, waiters, reference counts | read, write, close, select |
| terminals | `tty.c` | canonical line buffer, two ring buffers | `tty_input_process`, `tty_output_process`, `pty_ioctl` |
| keyboard, timer | `dev/kbd.c`, `dev/timer.c` | circular buffer, ticks | interrupt handlers, `getchar`, `sleep` |
| virtual file system | `fs/vfs.c`, `syscalls.c` | mount tree, nodes with reference counts, descriptor tables | `kopen`, `open_fs`, `close_fs`, `clone_fs`, `sys_*` |
| tmpfs | `tmpfs.c` | files as lists of frames, directory lists | read, write, create, unlink |
| physical and virtual memory | `mem/mem.c`, `mem/shm.c`, `mem/alloc.c` | frame bitmap, page tables, shared chunks, heap bins | allocate, free, map, obtain, release |
| ATA driver | `dev/ata.c` | DMA buffer, status | sector and range reads and writes |
| network | `8139.c`, `lwip/src/arch/sys_arch.c` | transmit ring, receive ring, semaphores, mailboxes | interrupt handler, output, wait, post |
| containers | `list.c`, `tree.c`, `hashmap.c`, `bitset.c` | linked structures | insert, delete, search |

How the parts interact, and when they can interleave:

- A system call runs with interrupts off from its entry to its return, so that calls of different tasks are
  atomic with respect to each other. There are two exceptions: `ata_device_read_sector` turns interrupts on while
  it polls the controller, so every call that reaches the disk can be preempted there; and kernel tasks (the
  tcpip thread, tasks made by `kernel.c`) run with interrupts on.
- `irq_handler` switches tasks *before* it dispatches the interrupt. The scheduler, the timer and the
  acknowledgement of interrupts have to be understood together.
- Every lock (`spin_lock`) in the kernel is commented out. `sleep_on` makes another task the current one without
  leaving the caller's stack (`_task_switch(0)`), `sleep(ms)` returns at once,
  and `sem_wait` returns before the code that would wait.
- Pipes and terminals use the ring buffer; system calls reach files through descriptor tables and the virtual
  file system; ext2 reaches the disk through its block cache; everything allocates from the kernel heap; the heap,
  page tables, shared memory and tmpfs take frames from one bitmap.

The hard behaviours follow from that: preemption while a sector is read, interrupts that are served on the stack of
another task, wrap-arounds (the cache clock, ring pointers, 32-bit semaphores), reference counts over long call
sequences, structures that have to agree with each other (ring and ready queue, bitmap and free counts, bins and
headers), and power failures between write-backs. The correctness properties are stated in section 3 and the lines
at which each of these can go wrong are the "hazards" of `PROJECT.json`.

## 2. Modules

Each component is one module with its state, its actions, `Spec` and its properties. The MC module of a component
gives its constants values. Definitions keep the names of the functions they model; definitions marked "Faulty
variant" are mutations of the definition that follows them, used to show that a property can fail.

### The block cache of ext2: `Ext2Cache`, `BlockStore`, `Ext2CacheProofs`, `Ext2CacheTasks`

`Ext2Cache` models `read_block`, `write_block`, `ext2_sync` and the mount. Its variables are the fields of the
slots `DC[i]`, the cache clock and the disk; `cached` is false for a volume mounted without a cache. A miss takes a
slot with the least `last_use` below `UINT32_MAX`, as the loop does. `get_cache_time` is modelled with its
wrap-around, `MaxTime` standing for `UINT32_MAX`. A remount after a power failure empties the cache and leaves
the disk. One operation is one step here.

`BlockStore` says what the cache promises: a map from block numbers to contents whose reads answer with the last
write, whose sync makes everything durable and which falls back to what is durable after a power failure. The
refinement mapping gives `store` the content of the slot that holds a block, and the disk's for a block in no slot.

`Ext2CacheTasks` extends the cache by several tasks that are preempted at each disk transfer, because the lock that
the comments ask for is not taken.

### Files on ext2: `Ext2Map`, `Ext2Dir`

`Ext2Map` models the pointers of an inode through all three levels of indirection, the block bitmaps with their
counts, and `inode_read_block` and `inode_write_block`. The disk is one record of bitmaps, counts, blocks and
inodes; a write is split where the code loops (allocating up to the block, then the transfer), so that the growth of
two files interleaves.

`Ext2Dir` models directory records with their `rec_len`, `create_entry`, the inode bitmaps and counts, `create`,
`mkdir`, `symlink` and `unlink`. Names have lengths only. Both modules leave out running out of space, which the
code does not survive: it drops the error of `set_block_number` (`ext2.c` 557), goes on with inode 0 (762) or loops for ever (603).

### The scheduler: `Sched`

`ring` is the ring of `task/list.c`, rotated so that its current element is first; `ready_queue` is the list linked
by `next`; `frame` is the interrupt saved on the stack of a suspended task. `irq_handler` is one step: it runs with
interrupts off. `sleep2` and `kexit` run with interrupts on and are split at each store to shared state, so that the
timer and the disk can interrupt between any two. `wakeup_time` counts down what is left, which keeps the state
finite. Three things are taken to turn out well: the `next` field of a new task, which nothing sets, is NULL; what
`irq_handler` reads in front of `irq_routines` for a new task (its frame has number 0) is no handler; and no task calls
`sleep_on`, `sys_sleepabs` or `task_exit`, whose `_task_switch(0)` saves 0 as the caller's stack pointer.

### Ring buffer: `RingBuffer`, `Fifo`, `RingBufferProofs`

`RingBuffer` models `ringbuffer.c` byte by byte; `Fifo` is the bounded queue it implements. The mapping reads the
slots from `read_ptr` to `write_ptr` as a sequence.

### Descriptors: `FdTable`

The descriptor table of each task and the reference count of each node, with `open`, `pipe`, `close`, `dup2`, `exec`
and `kexit`. A table is the record `fd_table_t`: entries, length, capacity. Its storage comes from `malloc` and only
the first entry is set, so that any other may be NULL or `Junk`, as may the storage that `process_append_fd` adds; what
lies behind the capacity is `Junk` too. A call that would follow `Junk` has no defined effect and is left out, as is
`fork`, after which the caller has an uninitialised table: the results hold for behaviours up to there. The code does
lose references, through a link at the end of a path, through `dup2` into the slot after the end and through `kexit`.
The ghost variable `leaked` has the nodes that lost one: `RefcountsAccounted` says that all others have exact counts,
and that a leaked node is never freed.

### lwIP's system layer: `SysArch`

Semaphores, mutexes and mailboxes of `sys_arch.c`. Each load and each store of a counter or a position is a step;
the receive interrupt runs `sys_mbox_trypost` in one. `Wrap` stands for the width of the counters.

### Kernel heap: `Heap`

The bins, the big blocks, the skip list with the random level of each insertion, and `valloc`/`malloc`, `calloc`,
`free` and `realloc` with addresses in bytes. `realloc` on a block of `malloc` is switched by the constant
`ReallocAligned`: it reads its header from the caller's data.

## 3. Runs

| Run | Bounds | What it shows |
|---|---|---|
| `ext2_cache` | 2 slots, 3 blocks, 2 contents, a clock of 0..4 with one wrap-around | `Coherent`: a block is in one slot at most, clean slots agree with the disk, dirty ones name a block. `VictimExists`: a miss finds a slot. `WorkingSetIsCached`: the most recently used blocks are cached until the clock wraps. `StoreSpec`: the cache implements `BlockStore` |
| `ext2_cache_tasks` | the same with 2 tasks | violated: a write that returned success is lost (finding) |
| `ext2_map` | 2 files, 1 direct block, 2 pointers per block, 2 groups of 8 blocks | `NoBlockShared`, `FileContents`, `GetReturnsWhatWasSet` through the double indirect range, `CountsMatchBitmap` |
| `ext2_map_triple` | 1 file, 20 blocks | violated: `GetReturnsWhatWasSet` in the triple indirect range (finding) |
| `ext2_dir` | blocks of 56 bytes, names of 2 and 6 bytes, 8 inodes in 2 groups, 4 roots that mkfs may leave | `RecordsTile`: the records of a block always add up to it. `DirectoriesFormATree`, `InodesAreCounted`. `OtherNamesAreKept`: no call changes what another name finds |
| `sched` | 3 tasks, 2 priorities, sleeps of one tick | `RingMatchesQueue`, `InterruptsAreOnStacks`, `FreedNeverResumed`, `SleepersNotResumed`; under fairness `RunnableRuns`, `SleepEnds`, `DiskIrqEnds` |
| `ring_buffer` | 3 slots, calls of up to 3 bytes | `FullIsNotEmpty`; `FifoSpec`: a bounded FIFO queue |
| `fd_table` | 2 tasks, 3 nodes, tables of 1 to 3 entries with storage for 2 that grows to 4, paths with up to 2 links | `NoDanglingEntry`: no descriptor is a freed node. `RefcountsAccounted`: exact counts, and leaks that are for good |
| `sys_arch` | 1 producer, 1 consumer, the interrupt, a mailbox of 2, counters of 2 bits | violated: `FetchWaits` (finding) |
| `sys_arch_mutex` | 2 tasks | violated: `MutualExclusion` (finding) |
| `heap` | 6 pages of 16 bytes, 2 blocks held, 3 sizes, 2 levels | `NothingOverlaps`: blocks that callers hold are disjoint from each other, from headers and free cells. `FreeBlocksAreListed`, `ContentsAreKept`, `BestFitAlways` |
| `heap_realloc` | the same with `realloc` on blocks of `malloc` | violated: `NothingOverlaps` (finding) |

Every module with a passing run has a type invariant besides, checked in that run.

**Why the bounds are enough.** The cache has more blocks than slots, so that every access can replace a dirty slot,
and the clock wraps within a run. In `ext2_map` one direct block and two pointers per block make the first six file
blocks pass through three of the four ranges. In `ext2_dir` a directory fills up after two or three entries. Three
tasks let a switch skip a sleeper and still choose between two tasks, and let an interrupt be put off twice. A ring
of three slots wraps in every call of three bytes. Tables start with one entry, fill up and grow, and the slot after the
end, which `dup2` can reach, is inside the storage, behind it, or in the part that was added. In `heap` each request is of another class (a cell, a big block with a
remainder, a block of more than one page), and six pages let freed blocks be reused in another order.

**Deadlock.** Checked in `ext2_cache`, `ext2_map` and `sched`. The others stop at a bound (nodes, pages,
inodes) or in the code's own endless loop (a read of an empty ring buffer with interrupts off).

**Fairness.** `Sched` assumes only that the timer interrupt keeps coming: `WF_vars(Interrupt("timer"))`, which the
programmed interval timer guarantees, since every path of the model leaves interrupts on. Nothing is assumed of tasks
or of the disk. `SysArch` states that each task inside a call takes its next step (`WF_vars(Step(t))`), which
`RunnableRuns` provides; its two counterexamples are finite and do not depend on it. The modules
without liveness properties assume no fairness.

## 4. Proofs

`Ext2CacheProofs` holds for any set of blocks, any contents, any number of slots and any width of the clock:

- `TypeCorrect`, by one case per action; the contents of a slot come from a slot, the disk or the caller.
- `CacheIsCoherent`. `Coherent` is inductive only together with the type invariant and with the fact that an unused
  cache (`~cached`) has no named slots (`NoCacheNoSlot`): without it a direct write would leave a clean slot behind
  the disk. `ReplaceSlot` is the heart of it: renaming a slot to a block that no slot holds keeps names unique.
- `MissFindsVictim`. The loop passes over slots stamped `UINT32_MAX`, and a cache full of them would leave no slot.
  `StampInv` bounds their number by the wrap-arounds of the clock: the clock hands that stamp out once in a lap. The
  result is for runs of fewer wrap-arounds than slots (`MaxLaps < cache_entries`).
- `CacheIsTransparent`: the cache implements `BlockStore`. The mapping chooses the slot of a block; `CoherentView`
  shows from coherence that the choice is unique, and one lemma for each operation gives the set of blocks it has
  written back as the witness of the abstract step.

`RingBufferProofs` holds for any size above one and any bytes:

- `TypeCorrect` and `FullIsNeverEmpty`: the two counts computed from the pointers add up to `size - 1`
  (`SharesOfBuffer`).
- `RingIsFifo`: reading a byte removes the head of the mapped sequence and storing one appends to it
  (`ReadTakesHead`, `WriteAppends`), element by element on both sides of the wrap.

The assumptions are those of the constants (`CacheConstants`, `RingConstants`), which TLC evaluates in the runs.

Only model-checked: everything about `Ext2Map`, `Ext2Dir`, `Sched`, `FdTable`, `SysArch` and `Heap`;
`WorkingSetIsCached`; all liveness (the prover has no rule for fairness).

## 5. Findings

Five runs show the code doing what a comment of it denies; `PROJECT.json` quotes the lines.

1. `ext2_cache_tasks`: `read_block` and `write_block` "require the filesystem lock", which is commented out. A task
   that waits for a sector fills its slot over the write of another.
2. `ext2_map_triple`: `set_block_number` stores the wrong number in the triple indirect range.
3. `sys_arch_mutex`: two tasks hold one mutex.
4. `sys_arch`: a fetch for which "timeout = 0 means wait forever" does not wait, and takes the NULL of an empty slot.
5. `heap_realloc`: `realloc` of a block from `malloc` takes the caller's data for a header.

## 6. Not modelled, and the plan

`PROJECT.json` lists every part of the system with its status. Without a model are, for good: the lwIP core (third
party), start-up and assembly, the screen, serial line, clock and PCI accesses, formatting, the virtual 8086 monitor
and the user programs. The parts that follow, in this order:

1. Memory: frames, page directories (`clone_directory`, `release_directory`), shared memory and tmpfs as one
   composed module, since all draw from one bitmap. Property: a frame in use by a mapping, a chunk or a file is
   marked, and has the users that it should have.
2. Pipes and terminals on top of `RingBuffer`; waiting and signals on top of `Sched`.
3. The network card with `SysArch`: transmit descriptors, receive ring, polling.
4. Mounts and paths of the virtual file system; reading and writing ext2 files by offset on top of `Ext2Map`; the
   ATA driver's split of ranges into sectors.
5. Keyboard buffer, containers.
6. Proofs: `RingMatchesQueue` and `FreedNeverResumed` of `Sched`, `NoDanglingEntry` and `RefcountsAccounted` of
   `FdTable`, and the invariants of `Ext2Dir`.
