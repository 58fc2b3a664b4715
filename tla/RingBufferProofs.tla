-------------------------- MODULE RingBufferProofs --------------------------
(***************************************************************************)
(* The ring buffer, of any size and over any bytes, is a bounded FIFO      *)
(* queue.                                                                  *)
(***************************************************************************)
EXTENDS RingBuffer, SequenceTheorems, TLAPS

\* Any string a call may be given is a sequence of bytes.
LEMMA StringsAreSequences == Strings \subseteq Seq(Bytes)
  BY DEF Strings

\* Every operation keeps the pointers inside the buffer and the call well
\* formed.
THEOREM TypeCorrect == Spec => []TypeOK
<1>1. Init => TypeOK
  <2>1. NoCall \in Calls
    BY DEF Calls
  <2>2. Init => buffer \in [Slots -> Bytes]
    BY DEF Init
  <2>3. Init => internal_stop \in BOOLEAN /\ discard \in BOOLEAN
    BY Zenon DEF Init
  <2>4. Init => read_ptr \in Slots /\ write_ptr \in Slots
    BY RingConstants DEF Init, Slots
  <2>5. Init => call \in Calls
    BY <2>1 DEF Init
  <2> QED
    BY <2>2, <2>3, <2>4, <2>5 DEF TypeOK
<1>2. TypeOK /\ [Next]_vars => TypeOK'
  <2> SUFFICES ASSUME TypeOK, [Next]_vars PROVE TypeOK'
    OBVIOUS
  <2> USE RingConstants DEF TypeOK, Slots
  <2>1. Increment(read_ptr) \in Slots /\ Increment(write_ptr) \in Slots
    BY DEF Increment
  <2>2. CASE \E n \in 0 .. MaxCall : ring_buffer_read(n)
    BY <2>2 DEF ring_buffer_read, ring, Calls
  <2>3. CASE ReadByte
    <3>1. call \in [op : {"read"}, size : 0 .. MaxCall, got : Seq(Bytes)]
      BY <2>3 DEF ReadByte, Calls, NoCall
    <3>2. ByteRead \in Bytes
      BY DEF ByteRead
    <3>3. Append(call.got, ByteRead) \in Seq(Bytes)
      BY <3>1, <3>2
    <3>4. call' \in [op : {"read"}, size : 0 .. MaxCall, got : Seq(Bytes)]
      BY <2>3, <3>1, <3>3 DEF ReadByte
    <3> QED
      BY <2>1, <2>3, <3>4 DEF ReadByte, ring_buffer_increment_read, Calls
  <2>4. CASE ReadReturns
    BY <2>4 DEF ReadReturns, ring, Calls
  <2>5. CASE ReadStopped
    BY <2>5 DEF ReadStopped, ring, Calls
  <2>6. CASE \E s \in Strings : ring_buffer_write(s)
    BY <2>6, StringsAreSequences DEF ring_buffer_write, ring, Calls
  <2>7. CASE WriteByte
    <3>1. call \in [op : {"write"}, todo : Seq(Bytes)]
      BY <2>7 DEF WriteByte, Calls, NoCall
    <3>2. /\ Head(call.todo) \in Bytes
          /\ Tail(call.todo) \in Seq(Bytes)
      BY <2>7, <3>1 DEF WriteByte
    <3>3. call' \in [op : {"write"}, todo : Seq(Bytes)]
      BY <2>7, <3>1, <3>2 DEF WriteByte
    <3> QED
      BY <2>1, <2>7, <3>2, <3>3 DEF WriteByte, StoreByte, Calls
  <2>8. CASE WriteReturns
    BY <2>8 DEF WriteReturns, ring, Calls
  <2>9. CASE WriteStopped
    BY <2>9 DEF WriteStopped, ring, Calls
  <2>10. CASE ring_buffer_interrupt
    BY <2>10 DEF ring_buffer_interrupt, ring
  <2>11. CASE UNCHANGED vars
    BY <2>11 DEF vars
  <2> QED
    BY <2>2, <2>3, <2>4, <2>5, <2>6, <2>7, <2>8, <2>9, <2>10, <2>11 DEF Next
<1> QED
  BY <1>1, <1>2, PTL DEF Spec

\* With the pointers inside the buffer, unread and available share its slots
\* but one.
LEMMA SharesOfBuffer ==
  TypeOK => /\ ring_buffer_unread \in 0 .. size - 1
            /\ ring_buffer_available \in 0 .. size - 1
            /\ FullIsNotEmpty
  BY RingConstants
     DEF TypeOK, Slots, ring_buffer_unread, ring_buffer_available,
         FullIsNotEmpty

\* A full buffer is never taken for an empty one, whatever its size.
THEOREM FullIsNeverEmpty == Spec => []FullIsNotEmpty
  BY TypeCorrect, SharesOfBuffer, PTL

-----------------------------------------------------------------------------
(* The buffer as a queue *)

\* The unread bytes are a sequence as long as ring_buffer_unread says.
LEMMA ContentsIsSequence ==
  TypeOK => /\ Contents \in Seq(Bytes)
            /\ Len(Contents) = ring_buffer_unread
            /\ DOMAIN Contents = 1 .. ring_buffer_unread
<1> SUFFICES ASSUME TypeOK
             PROVE /\ Contents \in Seq(Bytes)
                   /\ Len(Contents) = ring_buffer_unread
                   /\ DOMAIN Contents = 1 .. ring_buffer_unread
  OBVIOUS
<1>1. ring_buffer_unread \in Nat /\ ring_buffer_unread < size
  BY SharesOfBuffer, RingConstants
<1>2. \A i \in 1 .. ring_buffer_unread : SlotOf(i) \in Slots
  BY <1>1, RingConstants DEF TypeOK, Slots, SlotOf
<1>3. \A i \in 1 .. ring_buffer_unread : buffer[SlotOf(i)] \in Bytes
  BY <1>2 DEF TypeOK
<1>4. Contents \in [1 .. ring_buffer_unread -> Bytes]
  BY <1>3, Zenon DEF Contents
<1> QED
  BY <1>1, <1>4

\* Nothing that leaves the pointers and the bytes alone changes the queue.
LEMMA SameRing == ring' = ring => Contents' = Contents
  BY DEF ring, Contents, ring_buffer_unread, SlotOf

\* A sequence is known by its elements.
LEMMA TailByElements ==
  ASSUME NEW S, NEW s \in Seq(S), s # <<>>, NEW t \in Seq(S),
         Len(t) = Len(s) - 1, \A i \in 1 .. Len(t) : t[i] = s[i + 1]
  PROVE  t = Tail(s)
  BY HeadTailProperties, SeqEqual

\* The same for a sequence with one more element.
LEMMA AppendByElements ==
  ASSUME NEW S, NEW s \in Seq(S), NEW e \in S, NEW t \in Seq(S),
         Len(t) = Len(s) + 1, \A i \in 1 .. Len(s) : t[i] = s[i],
         t[Len(s) + 1] = e
  PROVE  t = Append(s, e)
<1>1. \A i \in 1 .. Len(t) : t[i] = Append(s, e)[i]
  BY AppendProperties
<1> QED
  BY <1>1, AppendProperties, SeqEqual

\* Moving the read pointer on removes the oldest byte.
LEMMA ReadTakesHead ==
  ASSUME TypeOK, TypeOK', ring_buffer_unread > 0, ring_buffer_increment_read
  PROVE  ByteRead = Head(Contents) /\ Contents' = Tail(Contents)
<1>0. /\ (Contents \in Seq(Bytes))'
      /\ (Len(Contents) = ring_buffer_unread)'
  BY ContentsIsSequence, PTL
<1> USE RingConstants DEF TypeOK, Slots
<1>1. ring_buffer_unread \in Nat /\ ring_buffer_unread < size
  BY SharesOfBuffer
<1>2. ring_buffer_unread' = ring_buffer_unread - 1
  BY DEF ring_buffer_unread, ring_buffer_increment_read, Increment
<1>3. \A i \in 1 .. ring_buffer_unread - 1 : SlotOf(i)' = SlotOf(i + 1)
  BY <1>1 DEF SlotOf, ring_buffer_increment_read, Increment
<1>4. SlotOf(1) = read_ptr
  BY DEF SlotOf
<1>5. \A i \in 1 .. ring_buffer_unread : Contents[i] = buffer[SlotOf(i)]
  BY DEF Contents
<1>6. Contents \in Seq(Bytes) /\ Len(Contents) = ring_buffer_unread
  BY ContentsIsSequence
<1>7. ByteRead = Head(Contents)
  BY <1>1, <1>4, <1>5, <1>6 DEF ByteRead
<1>8. Contents' \in Seq(Bytes) /\ Len(Contents') = ring_buffer_unread - 1
  BY <1>0, <1>2
<1>9. \A i \in 1 .. ring_buffer_unread - 1 : Contents'[i] = buffer[SlotOf(i)']
  BY <1>2 DEF Contents, ring_buffer_increment_read
<1>10. \A i \in 1 .. Len(Contents') : Contents'[i] = Contents[i + 1]
  BY <1>1, <1>3, <1>5, <1>8, <1>9
<1> QED
  BY <1>1, <1>6, <1>7, <1>8, <1>10, TailByElements

\* Storing a byte adds it at the end.
LEMMA WriteAppends ==
  ASSUME TypeOK, TypeOK', ring_buffer_available > 0,
         NEW b \in Bytes, StoreByte(b)
  PROVE  Contents' = Append(Contents, b)
<1>0. /\ (Contents \in Seq(Bytes))'
      /\ (Len(Contents) = ring_buffer_unread)'
  BY ContentsIsSequence, PTL
<1> USE RingConstants DEF TypeOK, Slots
<1>1. ring_buffer_unread \in Nat /\ ring_buffer_unread < size - 1
  BY SharesOfBuffer DEF FullIsNotEmpty
<1>2. ring_buffer_unread' = ring_buffer_unread + 1
  BY <1>1, SharesOfBuffer
     DEF ring_buffer_unread, ring_buffer_available, StoreByte, Increment
<1>3. \A i \in 1 .. ring_buffer_unread + 1 : SlotOf(i)' = SlotOf(i)
  BY DEF SlotOf, StoreByte
<1>4. SlotOf(ring_buffer_unread + 1) = write_ptr
  BY <1>1 DEF SlotOf, ring_buffer_unread
<1>5. \A i \in 1 .. ring_buffer_unread :
        SlotOf(i) \in Slots /\ SlotOf(i) # write_ptr
  BY <1>1 DEF SlotOf, ring_buffer_unread
<1>6. \A i \in 1 .. ring_buffer_unread : buffer'[SlotOf(i)] = Contents[i]
  BY <1>5 DEF StoreByte, Contents
<1>7. buffer'[write_ptr] = b
  BY DEF StoreByte
<1>8. Contents \in Seq(Bytes) /\ Len(Contents) = ring_buffer_unread
  BY ContentsIsSequence
<1>9. Contents' \in Seq(Bytes) /\ Len(Contents') = ring_buffer_unread + 1
  BY <1>0, <1>2
<1>10. \A i \in 1 .. ring_buffer_unread + 1 :
         Contents'[i] = buffer'[SlotOf(i)']
  BY <1>2 DEF Contents
<1>11. \A i \in 1 .. Len(Contents) : Contents'[i] = Contents[i]
  BY <1>1, <1>3, <1>6, <1>8, <1>10
<1>12. Contents'[Len(Contents) + 1] = b
  BY <1>1, <1>3, <1>4, <1>7, <1>8, <1>10
<1> QED
  BY <1>8, <1>9, <1>11, <1>12, AppendByElements

-----------------------------------------------------------------------------

\* The ring buffer implements the queue: each byte read or written is a step
\* of the queue on the same call, and nothing else changes it.
THEOREM RingIsFifo == Spec => FifoSpec
<1>1. Init => Queue!Init
  <2> SUFFICES ASSUME Init PROVE Queue!Init
    OBVIOUS
  <2>1. ring_buffer_unread = 0
    BY DEF Init, ring_buffer_unread
  <2>2. Contents = <<>>
    BY <2>1 DEF Contents
  <2> QED
    BY <2>2 DEF Init, Queue!Init, NoCall, Queue!NoCall
<1>2. TypeOK /\ TypeOK' /\ [Next]_vars => [Queue!Next]_(Queue!vars)
  <2> SUFFICES ASSUME TypeOK, TypeOK', [Next]_vars
               PROVE [Queue!Next]_(Queue!vars)
    OBVIOUS
  <2> USE DEF NoCall, Queue!NoCall, Queue!Next
  <2>1. /\ Contents \in Seq(Bytes) /\ Len(Contents) = ring_buffer_unread
        /\ Contents = <<>> <=> ring_buffer_unread = 0
    BY ContentsIsSequence
  <2>2. /\ ring_buffer_unread \in Nat /\ ring_buffer_available \in Nat
        /\ ring_buffer_available = 0 <=> ring_buffer_unread = size - 1
        /\ ring_buffer_available > 0 <=> ring_buffer_unread < size - 1
    BY SharesOfBuffer, RingConstants DEF FullIsNotEmpty
  <2>3. CASE \E n \in 0 .. MaxCall : ring_buffer_read(n)
    BY <2>3, SameRing DEF ring_buffer_read, Queue!BeginRead
  <2>4. CASE ReadByte
    <3>1. ByteRead = Head(Contents) /\ Contents' = Tail(Contents)
      BY <2>4, ReadTakesHead DEF ReadByte
    <3>2. Contents # <<>>
      BY <2>1, <2>2, <2>4 DEF ReadByte
    <3> QED
      BY <2>4, <3>1, <3>2 DEF ReadByte, Queue!Take
  <2>5. CASE ReadReturns
    <3>1. call \in [op : {"read"}, size : 0 .. MaxCall, got : Seq(Bytes)]
      BY <2>5 DEF ReadReturns, TypeOK, Calls
    <3> QED
      BY <2>1, <2>5, <3>1, SameRing DEF ReadReturns, Queue!EndRead
  <2>6. CASE ReadStopped
    <3>1. call \in [op : {"read"}, size : 0 .. MaxCall, got : Seq(Bytes)]
      BY <2>6 DEF ReadStopped, TypeOK, Calls
    <3> QED
      BY <2>6, <3>1, SameRing DEF ReadStopped, Queue!CutShort
  <2>7. CASE \E s \in Strings : ring_buffer_write(s)
    BY <2>7, SameRing
       DEF ring_buffer_write, Queue!BeginWrite, Strings, Queue!Strings
  <2>8. CASE WriteByte
    <3>1. call \in [op : {"write"}, todo : Seq(Bytes)]
      BY <2>8 DEF WriteByte, TypeOK, Calls
    <3>2. Head(call.todo) \in Bytes /\ call.todo # <<>>
      BY <2>8, <3>1 DEF WriteByte
    <3>3. Contents' = Append(Contents, Head(call.todo))
      BY <2>8, <3>2, WriteAppends DEF WriteByte
    <3> QED
      BY <2>1, <2>2, <2>8, <3>2, <3>3 DEF WriteByte, Queue!Put
  <2>9. CASE WriteReturns
    <3>1. call \in [op : {"write"}, todo : Seq(Bytes)]
      BY <2>9 DEF WriteReturns, TypeOK, Calls
    <3> QED
      BY <2>1, <2>2, <2>9, <3>1, SameRing DEF WriteReturns, Queue!EndWrite
  <2>10. CASE WriteStopped
    <3>1. call \in [op : {"write"}, todo : Seq(Bytes)]
      BY <2>10 DEF WriteStopped, TypeOK, Calls
    <3> QED
      BY <2>1, <2>2, <2>10, <3>1, SameRing DEF WriteStopped, Queue!CutShort
  <2>11. CASE ring_buffer_interrupt
    BY <2>11, SameRing DEF ring_buffer_interrupt, Queue!Interrupt
  <2>12. CASE UNCHANGED vars
    <3>1. UNCHANGED ring
      BY <2>12 DEF vars, ring
    <3> QED
      BY <2>12, <3>1, SameRing DEF vars, Queue!vars
  <2> QED
    BY <2>3, <2>4, <2>5, <2>6, <2>7, <2>8, <2>9, <2>10, <2>11, <2>12 DEF Next
<1> QED
  BY <1>1, <1>2, TypeCorrect, PTL DEF Spec, FifoSpec, Queue!Spec

=============================================================================
