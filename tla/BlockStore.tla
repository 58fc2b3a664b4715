----------------------------- MODULE BlockStore -----------------------------
(***************************************************************************)
(* What the ext2 driver expects of its block layer: a map from block       *)
(* numbers to contents.  A read answers with the content last written.     *)
(* Writes reach the disk at any later time and in any order, a sync makes  *)
(* all of them durable, and a power failure takes the store back to what   *)
(* is durable.                                                             *)
(***************************************************************************)
CONSTANTS
  Blocks,   \* the block numbers of the device that a file system may name
  Data      \* the contents a block can have

VARIABLES
  store,    \* what a read of each block answers
  durable,  \* what each block holds on the disk
  reply     \* the outcome of the last operation

bsVars == <<store, durable, reply>>

Ok(b, d) == [err |-> "E_SUCCESS", block_no |-> b, data |-> d]
BadBlock == [err |-> "E_BADBLOCK"]
Idle == [err |-> "none"]

TypeOK ==
  /\ store \in [Blocks -> Data]
  /\ durable \in [Blocks -> Data]
  /\ reply \in {Ok(b, d) : b \in Blocks, d \in Data} \cup {BadBlock, Idle}

Init ==
  /\ store \in [Blocks -> Data]
  /\ durable = store
  /\ reply = Idle

\* Any set of blocks is written back, each with its current content.
WriteBack(st) ==
  \E S \in SUBSET Blocks :
    durable' = [b \in Blocks |-> IF b \in S THEN st[b] ELSE durable[b]]

Read(b) ==
  /\ WriteBack(store)
  /\ reply' = Ok(b, store[b])
  /\ UNCHANGED store

Write(b, d) ==
  /\ store' = [store EXCEPT ![b] = d]
  /\ WriteBack(store')
  /\ reply' = Ok(b, d)

Refuse ==
  /\ reply' = BadBlock
  /\ UNCHANGED <<store, durable>>

Sync ==
  /\ durable' = store
  /\ reply' = Idle
  /\ UNCHANGED store

PowerFailure ==
  /\ store' = durable
  /\ reply' = Idle
  /\ UNCHANGED durable

Next ==
  \/ \E b \in Blocks : Read(b)
  \/ \E b \in Blocks, d \in Data : Write(b, d)
  \/ Refuse
  \/ Sync
  \/ PowerFailure

Spec == Init /\ [][Next]_bsVars
=============================================================================
