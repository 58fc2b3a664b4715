----------------------------- MODULE RingBuffer -----------------------------
(***************************************************************************)
(* The ring buffer under Unix pipes and terminals                          *)
(* (kernel/src/ringbuffer.c).                                              *)
(*                                                                         *)
(* It is reached only through system calls, which run with interrupts off: *)
(* no other task runs until the call returns.  sleep_on neither returns    *)
(* control to another task nor blocks, so a call that sleeps goes round    *)
(* its loop again; it ends there only if sleep_on happens to return        *)
(* non-zero (the flag of whatever task became current, which nothing       *)
(* initialises) after ring_buffer_interrupt.                               *)
(***************************************************************************)
EXTENDS Naturals, Sequences

CONSTANTS
  Bytes,      \* values of a byte
  size,       \* bytes allocated; one is always left empty
  MaxCall     \* bound on the bytes of a call

ASSUME RingConstants ==
  size \in Nat /\ size > 1 /\ MaxCall \in Nat

VARIABLES
  buffer, read_ptr, write_ptr,
  internal_stop,
  discard,    \* whether a write to a full buffer gives up; set once, at creation
  call        \* the call in progress

ring == <<buffer, read_ptr, write_ptr>>
vars == <<buffer, read_ptr, write_ptr, internal_stop, discard, call>>

NoCall == [op |-> "none"]
Slots == 0 .. size - 1

\* Faulty variant: the case of a wrapped buffer is off by one.
UnreadShort ==
  IF read_ptr = write_ptr THEN 0
  ELSE IF read_ptr > write_ptr THEN size - 1 - read_ptr + write_ptr
  ELSE write_ptr - read_ptr

ring_buffer_unread ==
  IF read_ptr = write_ptr THEN 0
  ELSE IF read_ptr > write_ptr THEN (size - read_ptr) + write_ptr
  ELSE write_ptr - read_ptr

\* Faulty variant: no slot is left empty.
AvailableAll ==
  IF read_ptr = write_ptr THEN size
  ELSE IF read_ptr > write_ptr THEN read_ptr - write_ptr
  ELSE (size - write_ptr) + read_ptr

ring_buffer_available ==
  IF read_ptr = write_ptr THEN size - 1
  ELSE IF read_ptr > write_ptr THEN read_ptr - write_ptr - 1
  ELSE (size - write_ptr) + read_ptr - 1

\* Faulty variant: the pointer runs one past the end.
IncrementPastEnd(ptr) == IF ptr = size THEN 0 ELSE ptr + 1

Increment(ptr) == IF ptr + 1 = size THEN 0 ELSE ptr + 1

ByteRead == buffer[read_ptr]

ring_buffer_increment_read ==
  read_ptr' = Increment(read_ptr) /\ UNCHANGED <<buffer, write_ptr>>

\* A byte is stored and the write pointer moved on.
StoreByte(b) ==
  /\ buffer' = [buffer EXCEPT ![write_ptr] = b]
  /\ write_ptr' = Increment(write_ptr)
  /\ UNCHANGED read_ptr

\* ring_buffer_create; malloc leaves any bytes in the buffer.
Init ==
  /\ \E b \in Bytes : buffer = [i \in Slots |-> b]
  /\ read_ptr = 0 /\ write_ptr = 0
  /\ internal_stop = FALSE
  /\ discard \in BOOLEAN
  /\ call = NoCall

ring_buffer_read(n) ==
  /\ call = NoCall
  /\ call' = [op |-> "read", size |-> n, got |-> <<>>]
  /\ UNCHANGED <<ring, internal_stop, discard>>

ReadByte ==
  /\ call.op = "read"
  /\ ring_buffer_unread > 0 /\ Len(call.got) < call.size
  /\ call' = [call EXCEPT !.got = Append(@, ByteRead)]
  /\ ring_buffer_increment_read
  /\ UNCHANGED <<internal_stop, discard>>

ReadReturns ==
  /\ call.op = "read"
  /\ ring_buffer_unread = 0 \/ Len(call.got) = call.size
  /\ Len(call.got) > 0
  /\ call' = NoCall
  /\ UNCHANGED <<ring, internal_stop, discard>>

\* sleep_on returned non-zero after an interrupt.
ReadStopped ==
  /\ call.op = "read"
  /\ ring_buffer_unread = 0 \/ Len(call.got) = call.size
  /\ Len(call.got) = 0
  /\ internal_stop
  /\ internal_stop' = FALSE
  /\ call' = NoCall
  /\ UNCHANGED <<ring, discard>>

ring_buffer_write(s) ==
  /\ call = NoCall
  /\ call' = [op |-> "write", todo |-> s]
  /\ UNCHANGED <<ring, internal_stop, discard>>

WriteByte ==
  /\ call.op = "write"
  /\ ring_buffer_available > 0 /\ Len(call.todo) > 0
  /\ StoreByte(Head(call.todo))
  /\ call' = [call EXCEPT !.todo = Tail(@)]
  /\ UNCHANGED <<internal_stop, discard>>

WriteReturns ==
  /\ call.op = "write"
  /\ \/ Len(call.todo) = 0
     \/ ring_buffer_available = 0 /\ discard
  /\ call' = NoCall
  /\ UNCHANGED <<ring, internal_stop, discard>>

WriteStopped ==
  /\ call.op = "write"
  /\ Len(call.todo) > 0 /\ ring_buffer_available = 0
  /\ ~discard
  /\ internal_stop
  /\ internal_stop' = FALSE
  /\ call' = NoCall
  /\ UNCHANGED <<ring, discard>>

ring_buffer_interrupt ==
  /\ call = NoCall
  /\ internal_stop' = TRUE
  /\ UNCHANGED <<ring, discard, call>>

Strings == UNION {[1 .. n -> Bytes] : n \in 0 .. MaxCall}

Next ==
  \/ \E n \in 0 .. MaxCall : ring_buffer_read(n)
  \/ ReadByte
  \/ ReadReturns
  \/ ReadStopped
  \/ \E s \in Strings : ring_buffer_write(s)
  \/ WriteByte
  \/ WriteReturns
  \/ WriteStopped
  \/ ring_buffer_interrupt

Spec == Init /\ [][Next]_vars

-----------------------------------------------------------------------------
(* Properties *)

Calls ==
  {NoCall}
  \cup [op : {"read"}, size : 0 .. MaxCall, got : Seq(Bytes)]
  \cup [op : {"write"}, todo : Seq(Bytes)]

\* The pointers stay inside the buffer that ring_buffer_create allocated.
TypeOK ==
  /\ buffer \in [Slots -> Bytes]
  /\ read_ptr \in Slots /\ write_ptr \in Slots
  /\ internal_stop \in BOOLEAN /\ discard \in BOOLEAN
  /\ call \in Calls

\* The slot of the i-th unread byte, from 1.
SlotOf(i) ==
  IF read_ptr + i - 1 < size THEN read_ptr + i - 1 ELSE read_ptr + i - 1 - size

\* The unread bytes, oldest first.
Contents == [i \in 1 .. ring_buffer_unread |-> buffer[SlotOf(i)]]

\* What ring_buffer_unread and ring_buffer_available compute from the pointers
\* always adds up to size - 1, so that a full buffer is never taken for an
\* empty one.
FullIsNotEmpty == ring_buffer_unread + ring_buffer_available = size - 1

Queue == INSTANCE Fifo WITH queue <- Contents, stop <- internal_stop,
                            Capacity <- size - 1

\* The ring buffer implements the queue: across any number of wraps, reads
\* take the bytes of earlier writes in order, none lost, repeated or invented.
FifoSpec == Queue!Spec

=============================================================================
