-------------------------------- MODULE Fifo --------------------------------
(***************************************************************************)
(* What the ring buffer promises: a queue of at most Capacity bytes, from  *)
(* which a read takes what is there, at least one byte, and to which a     *)
(* write adds all of its bytes in order.  A call that waits can be cut     *)
(* short once after an interrupt, and a write that finds the queue full    *)
(* gives up when the queue discards.                                       *)
(***************************************************************************)
EXTENDS Naturals, Sequences

CONSTANTS Bytes, Capacity, MaxCall

VARIABLES
  queue,    \* the bytes written and not yet read
  call,     \* the call in progress
  stop,     \* an interrupt that no call has answered yet
  discard   \* whether a write to a full queue gives up

vars == <<queue, call, stop, discard>>

Strings == UNION {[1 .. n -> Bytes] : n \in 0 .. MaxCall}

NoCall == [op |-> "none"]

Init ==
  /\ queue = <<>> /\ call = NoCall /\ stop = FALSE
  /\ discard \in BOOLEAN

BeginRead(n) ==
  /\ call = NoCall
  /\ call' = [op |-> "read", size |-> n, got |-> <<>>]
  /\ UNCHANGED <<queue, stop, discard>>

BeginWrite(s) ==
  /\ call = NoCall
  /\ call' = [op |-> "write", todo |-> s]
  /\ UNCHANGED <<queue, stop, discard>>

Take ==
  /\ call.op = "read"
  /\ queue # <<>>
  /\ Len(call.got) < call.size
  /\ call' = [call EXCEPT !.got = Append(@, Head(queue))]
  /\ queue' = Tail(queue)
  /\ UNCHANGED <<stop, discard>>

Put ==
  /\ call.op = "write"
  /\ Len(queue) < Capacity
  /\ call.todo # <<>>
  /\ queue' = Append(queue, Head(call.todo))
  /\ call' = [call EXCEPT !.todo = Tail(@)]
  /\ UNCHANGED <<stop, discard>>

EndRead ==
  /\ call.op = "read"
  /\ call.got # <<>>
  /\ Len(call.got) = call.size \/ queue = <<>>
  /\ call' = NoCall
  /\ UNCHANGED <<queue, stop, discard>>

EndWrite ==
  /\ call.op = "write"
  /\ call.todo = <<>> \/ (discard /\ Len(queue) = Capacity)
  /\ call' = NoCall
  /\ UNCHANGED <<queue, stop, discard>>

Interrupt ==
  /\ call = NoCall
  /\ stop' = TRUE
  /\ UNCHANGED <<queue, call, discard>>

\* A call that cannot go on is cut short, and the interrupt is used up.
CutShort ==
  /\ stop
  /\ \/ call.op = "read" /\ call.got = <<>>
     \/ call.op = "write" /\ call.todo # <<>> /\ Len(queue) = Capacity
  /\ call' = NoCall
  /\ stop' = FALSE
  /\ UNCHANGED <<queue, discard>>

Next ==
  \/ \E n \in 0 .. MaxCall : BeginRead(n)
  \/ \E s \in Strings : BeginWrite(s)
  \/ Take
  \/ Put
  \/ EndRead
  \/ EndWrite
  \/ Interrupt
  \/ CutShort

Spec == Init /\ [][Next]_vars

=============================================================================
