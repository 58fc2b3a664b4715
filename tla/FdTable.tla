------------------------------ MODULE FdTable -------------------------------
(***************************************************************************)
(* File descriptors and the reference counts of file system nodes: the     *)
(* calls of kernel/src/syscalls.c that open, close and duplicate           *)
(* descriptors, open_fs and close_fs of kernel/src/fs/vfs.c, and what exec *)
(* (elf.c) and kexit (task/proc.c) do to tables and counts.                *)
(*                                                                         *)
(* A system call runs with interrupts off, so each is one step; exec turns *)
(* them on, but touches nothing that other calls reach.                    *)
(*                                                                         *)
(* The storage of a table comes from malloc and only its first entry is    *)
(* set: any other may be NULL or Junk, a pointer to anywhere.  What lies   *)
(* behind the capacity of a table is Junk as well.  A call that follows    *)
(* Junk has no defined effect, and behaviours end before it.  So does one  *)
(* that calls fork, which gives its caller a table without storage         *)
(* (proc.c 255, 303 to 322, with new_task the caller).                     *)
(***************************************************************************)
EXTENDS Integers, FiniteSets

CONSTANTS
  Tasks, Nodes, NULL, Junk,
  Root,          \* fs_root, the first entry of every table
  Length,        \* entries of a new table (12)
  Capacity,      \* what its storage has space for (44)
  MaxFds,        \* bound on the entries of a table
  Kinds,         \* what is opened: "file", or "root", a copy of a pinned root
  MaxLinks       \* bound on the symbolic links at the end of a path

ASSUME FdConstants ==
  /\ IsFiniteSet(Tasks) /\ NULL \notin Nodes /\ Junk \notin Nodes
  /\ NULL # Junk /\ Root \in Nodes
  /\ Length \in Nat \ {0} /\ Capacity \in Nat /\ MaxFds \in Nat
  /\ Length <= Capacity /\ Capacity < MaxFds
  /\ Kinds \subseteq {"file", "root"} /\ MaxLinks \in Nat

Fds == 0 .. MaxFds - 1

VARIABLES
  fds,          \* the table of each task that has one: entries, length, capacity
  live,         \* nodes that are allocated
  refcount,     \* of each node; -1 for one that vfs_lock has pinned
  leaked        \* ghost: nodes of which a reference was dropped, not closed

fdVars == <<fds, live, refcount, leaked>>

Running == DOMAIN fds

\* Entries from lo to hi - 1 as malloc returns them: some are NULL.
Uninitialised(e, lo, hi) ==
  {[i \in Fds |-> IF i \in clear THEN NULL ELSE e[i]] :
     clear \in SUBSET (Fds \cap lo .. hi - 1)}

AllJunk == [i \in Fds |-> Junk]

NewTables ==
  {[entries |-> e, length |-> Length, capacity |-> Capacity] :
     e \in Uninitialised([AllJunk EXCEPT ![0] = Root], 1, Capacity)}

FdInit ==
  /\ \E t \in Tasks : fds \in [{t} -> NewTables]
  /\ live = {Root}
  /\ refcount = [n \in Nodes |-> IF n = Root THEN -1 ELSE 0]
  /\ leaked = {}

-----------------------------------------------------------------------------
(* Operators on r = [live, refcount], which give it as a call leaves it     *)

Now == [live |-> live, refcount |-> refcount]

open_fs(r, n) ==
  IF n = NULL \/ r.refcount[n] < 0 THEN r
  ELSE [r EXCEPT !.refcount[n] = @ + 1]

\* Faulty variant: a pinned node is counted down.
CloseLocked(r, n) ==
  IF n = NULL THEN r
  ELSE [refcount |-> [r.refcount EXCEPT ![n] = @ - 1],
        live |-> IF r.refcount[n] = 1 THEN r.live \ {n} ELSE r.live]

\* Faulty variant: the node is freed at its first close.
CloseEarly(r, n) ==
  IF n = NULL \/ r.refcount[n] = -1 THEN r
  ELSE [refcount |-> [r.refcount EXCEPT ![n] = @ - 1], live |-> r.live \ {n}]

close_fs(r, n) ==
  IF n = NULL \/ r.refcount[n] = -1 THEN r
  ELSE [refcount |-> [r.refcount EXCEPT ![n] = @ - 1],
        live |-> IF r.refcount[n] = 1 THEN r.live \ {n} ELSE r.live]

Set(r) == live' = r.live /\ refcount' = r.refcount

\* Node n as kopen2 returns it: opened once, and once more for each of the
\* links that its path ends in; a copy of a pinned root stays pinned.
kopen2(r, n, kind, links) ==
  [live |-> r.live \cup {n},
   refcount |-> [r.refcount EXCEPT ![n] = IF kind = "root" THEN -1 ELSE links + 1]]

Gaps(tb) == {i \in 0 .. tb.length - 1 : tb.entries[i] = NULL}

\* The storage that process_append_fd expands a table to when it is full.
Expanded(tb) ==
  IF tb.length = tb.capacity
  THEN {[tb EXCEPT !.entries = e, !.capacity = 2 * @] :
          e \in Uninitialised(tb.entries, tb.capacity, 2 * tb.capacity)}
  ELSE {tb}

\* The tables in which process_append_fd leaves n: in the first gap, or else
\* after the end.
process_append_fd(tb, n) ==
  IF Gaps(tb) # {}
  THEN {[tb EXCEPT !.entries[CHOOSE i \in Gaps(tb) : \A j \in Gaps(tb) : i <= j] = n]}
  ELSE {[x EXCEPT !.entries[tb.length] = n, !.length = @ + 1] : x \in Expanded(tb)}

\* What the slot after the end held is overwritten.
Dropped(tb) ==
  IF Gaps(tb) = {} THEN {tb.entries[tb.length]} \cap Nodes ELSE {}

InBound(tb) == Gaps(tb) # {} \/ tb.length < MaxFds - 1

Fresh(n) == n \in Nodes \ live

-----------------------------------------------------------------------------
(* System calls *)

sys_open(t, n, kind, links) ==
  /\ t \in Running /\ Fresh(n) /\ InBound(fds[t])
  /\ Set(kopen2(Now, n, kind, links))
  /\ \E tb \in process_append_fd(fds[t], n) : fds' = [fds EXCEPT ![t] = tb]
  /\ leaked' = leaked \cup Dropped(fds[t])
                 \cup (IF kind # "root" /\ links > 0 THEN {n} ELSE {})

\* Two nodes, opened once each.
sys_pipe(t, n, m) ==
  /\ t \in Running /\ Fresh(n) /\ Fresh(m) /\ n # m /\ InBound(fds[t])
  /\ live' = live \cup {n, m}
  /\ refcount' = open_fs(open_fs([Now EXCEPT !.refcount[n] = 0, !.refcount[m] = 0],
                                 n), m).refcount
  /\ \E tb \in process_append_fd(fds[t], n) :
       /\ InBound(tb)
       /\ \E tc \in process_append_fd(tb, m) : fds' = [fds EXCEPT ![t] = tc]
       /\ leaked' = leaked \cup Dropped(fds[t]) \cup Dropped(tb)

FD_CHECK(t, fd) == fd < fds[t].length /\ fds[t].entries[fd] # NULL

sys_close(t, fd) ==
  /\ t \in Running /\ FD_CHECK(t, fd) /\ fds[t].entries[fd] # Junk
  /\ Set(close_fs(Now, fds[t].entries[fd]))
  /\ fds' = [fds EXCEPT ![t].entries[fd] = NULL]
  /\ UNCHANGED leaked

\* Faulty variant: the duplicated node is not opened again.
MoveWithoutOpen(r, src, dest) == close_fs(r, dest)

\* dest is closed and becomes a reference to src.
MoveFd(r, src, dest) == open_fs(close_fs(r, dest), src)

\* Both bounds of process_move_fd are length itself, so that the slot after
\* the end is read and written, even where that is behind the storage.
process_move_fd(t, src, dest) ==
  LET e == fds[t].entries
  IN  /\ t \in Running /\ src <= fds[t].length /\ dest <= fds[t].length
      /\ e[dest] # e[src] /\ Junk \notin {e[src], e[dest]}
      /\ Set(MoveFd(Now, e[src], e[dest]))
      /\ fds' = [fds EXCEPT ![t].entries[dest] = e[src]]
      /\ UNCHANGED leaked

\* dup2(old, -1): the slot is the one where process_append_fd puts a NULL.
DupToFree(t, src) ==
  /\ t \in Running /\ src <= fds[t].length /\ InBound(fds[t])
  /\ \E tb \in process_append_fd(fds[t], NULL) :
       LET i == IF tb.length > fds[t].length THEN fds[t].length
                ELSE CHOOSE i \in Gaps(fds[t]) : \A j \in Gaps(fds[t]) : i <= j
           n == tb.entries[src]
       IN  /\ n # Junk
           /\ Set(MoveFd(Now, n, NULL))
           /\ fds' = [fds EXCEPT ![t] = [tb EXCEPT !.entries[i] = n]]
  /\ leaked' = leaked \cup Dropped(fds[t])

\* exec: the executable is opened and closed again, and a new task u that runs
\* it has a table of its own.  The caller goes on.
exec_elf(t, u, n, links) ==
  /\ t \in Running /\ u \in Tasks \ Running /\ Fresh(n)
  /\ Set(close_fs(kopen2(Now, n, "file", links), n))
  /\ leaked' = leaked \cup (IF links > 0 THEN {n} ELSE {})
  /\ \E tb \in NewTables :
       fds' = [x \in Running \cup {u} |-> IF x = u THEN tb ELSE fds[x]]

\* kexit frees the task, but neither its table nor what is in it, which
\* nothing leads to any more.
kexit(t) ==
  /\ t \in Running
  /\ fds' = [x \in Running \ {t} |-> fds[x]]
  /\ leaked' = leaked \cup {n \in Nodes : \E i \in Fds : fds[t].entries[i] = n}
  /\ UNCHANGED <<live, refcount>>

FdNext ==
  \E t \in Tasks :
    \/ \E n \in Nodes, kind \in Kinds, links \in 0 .. MaxLinks :
         sys_open(t, n, kind, links)
    \/ \E n, m \in Nodes : sys_pipe(t, n, m)
    \/ \E fd \in Fds : sys_close(t, fd)
    \/ \E src, dest \in Fds : process_move_fd(t, src, dest)
    \/ \E src \in Fds : DupToFree(t, src)
    \/ \E u \in Tasks, n \in Nodes, links \in 0 .. MaxLinks : exec_elf(t, u, n, links)
    \/ kexit(t)

FdSpec == FdInit /\ [][FdNext]_fdVars

-----------------------------------------------------------------------------
(* Properties *)

References(n) ==
  Cardinality({p \in Running \X Fds : fds[p[1]].entries[p[2]] = n})

\* Type invariant: tables that fit the bound, and counts that are -1 or not
\* negative.
FdTypeOK ==
  /\ fds \in [Running -> [entries : [Fds -> Nodes \cup {NULL, Junk}],
                         length : Length .. MaxFds - 1, capacity : Nat]]
  /\ Running \subseteq Tasks
  /\ live \subseteq Nodes /\ leaked \subseteq Nodes
  /\ refcount \in [Nodes -> Int] /\ \A n \in Nodes : refcount[n] >= -1

\* No entry of a descriptor table that open, pipe or dup2 has written, the one
\* after its end included, is a node that close_fs has freed: a read, write or
\* close through it never touches freed memory.
NoDanglingEntry ==
  \A t \in Running, i \in Fds : fds[t].entries[i] \in Nodes => fds[t].entries[i] \in live

\* As long as no reference to a node was dropped, its count is the number of
\* descriptors that are it, so that the last close frees it.  A node that
\* was reached through a symbolic link, overwritten in the slot after the end
\* or open when its task exited has a count above that for good: it is never
\* freed.
RefcountsAccounted ==
  \A n \in live : refcount[n] >= 0 =>
    /\ n \notin leaked => refcount[n] = References(n) /\ refcount[n] > 0
    /\ n \in leaked => refcount[n] > References(n)

=============================================================================
