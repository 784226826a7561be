-------------------------- MODULE RingBufferProofs --------------------------
(***************************************************************************)
(* Proofs about the ring buffer, for every Size, every set of values and   *)
(* every width of the index arithmetic.  TypeOK is inductive as it stands; *)
(* the FIFO property needs it, and NoWrap: that Out + Count fits in the    *)
(* 8-bit variable it is computed in.                                       *)
(***************************************************************************)
EXTENDS RingBuffer, TLAPS

\* The stored bytes lie inside the array, and no two of them share a slot.
LEMMA SlotsDistinct ==
    ASSUME TypeOK
    PROVE  /\ \A k \in 0..(Size - 1) : Slot(k) \in Slots
           /\ \A k, l \in 0..(Size - 1) : k # l => Slot(k) # Slot(l)
  BY SizeAssumption DEF TypeOK, Slots, Slot

\* While the sum fits in 8 bits, RingBuffer_Insert writes the slot that
\* follows the newest stored byte.
LEMMA InIsNextSlot ==
    ASSUME TypeOK, NoWrap, ~IsFull
    PROVE  In = Slot(count) /\ In \in Slots
<1>1. out + count \in Nat /\ out + count < Byte
  BY SizeAssumption DEF TypeOK, NoWrap, IsFull, Slots
<1>2. (out + count) % Byte = out + count
  BY <1>1, SizeAssumption
<1>3. QED
  BY <1>1, <1>2, SizeAssumption DEF In, Slot, TypeOK, IsFull, Slots

\* A sum of two bytes that exceeds 8 bits loses 256.
LEMMA WrapOnce ==
    \A s, b \in Nat : b <= s /\ s < 2 * b => s % b = s - b
<1> TAKE s, b \in Nat
<1> HAVE b <= s /\ s < 2 * b
<1>1. s - b \in 0..(b - 1) /\ s = (s - b) + b
  OBVIOUS
<1>2. ((s - b) + b) % b = s - b
  BY <1>1
<1>3. QED
  BY <1>1, <1>2

\* Even when the sum is truncated the index stays inside the array: the
\* damage is confined to the buffer's own bytes.
LEMMA InInRange ==
    ASSUME TypeOK, ~IsFull
    PROVE  In \in Slots
<1>1. /\ out \in Nat /\ count \in Nat /\ Byte \in Nat /\ Size \in Nat
      /\ out < Size /\ count < Size /\ Size < Byte
  BY SizeAssumption DEF TypeOK, IsFull, Slots
<1>2. CASE out + count < Byte
  <2>1. (out + count) % Byte = out + count
    BY <1>1, <1>2
  <2>2. QED
    BY <1>1, <2>1 DEF In, Slots
<1>3. CASE out + count >= Byte
  <2>1. out + count \in Nat /\ Byte <= out + count /\ out + count < 2 * Byte
    BY <1>1, <1>3
  <2>2. (out + count) % Byte = (out + count) - Byte
    BY <1>1, <2>1, WrapOnce, Zenon
  <2>3. QED
    BY <1>1, <1>3, <2>2 DEF In, Slots
<1>4. QED
  BY <1>1, <1>2, <1>3

-----------------------------------------------------------------------------

LEMMA TypeInit == Init => TypeOK
  BY SizeAssumption DEF Init, TypeOK, Slots

LEMMA TypeStep == TypeOK /\ [Next]_vars => TypeOK'
<1> SUFFICES ASSUME TypeOK, [Next]_vars
             PROVE  TypeOK'
  OBVIOUS
<1> USE SizeAssumption
<1>1. CASE InitBuffer
  BY <1>1 DEF InitBuffer, TypeOK, Slots
<1>2. ASSUME NEW v \in Value, Insert(v)
      PROVE  TypeOK'
  <2>1. In \in Slots
    BY <1>2, InInRange DEF Insert
  <2>2. data' \in [Slots -> Value]
    BY <1>2 DEF Insert, TypeOK
  <2>3. count' \in 0..Size /\ out' \in Slots
    BY <1>2 DEF Insert, TypeOK, IsFull, Slots
  <2>4. QED
    BY <2>2, <2>3 DEF TypeOK
<1>3. CASE Remove
  BY <1>3 DEF Remove, TypeOK, IsEmpty, Slots
<1>4. CASE UNCHANGED vars
  BY <1>4 DEF vars, TypeOK, Slots
<1>5. QED
  BY <1>1, <1>2, <1>3, <1>4 DEF Next

\* For every Size from 1 to 255, Out and Count keep their ranges: no operation
\* of ringBuffer.h reads or writes outside the storage array.
THEOREM TypeCorrect == Spec => []TypeOK
<1>1. Init => TypeOK
  BY TypeInit
<1>2. TypeOK /\ [Next]_vars => TypeOK'
  BY TypeStep
<1>3. QED
  BY <1>1, <1>2, PTL DEF Spec

LEMMA InsertSafeState == TypeOK /\ NoWrap => InsertUsesFreeSlot
<1> SUFFICES ASSUME TypeOK, NoWrap, ~IsFull, In \in Occupied
             PROVE  FALSE
  BY InInRange DEF InsertUsesFreeSlot
<1>1. In = Slot(count)
  BY InIsNextSlot
<1>2. PICK k \in 0..(count - 1) : In = Slot(k)
  BY DEF Occupied
<1>3. k \in 0..(Size - 1) /\ count \in 0..(Size - 1) /\ k # count
  BY <1>2, SizeAssumption DEF TypeOK, IsFull
<1>4. QED
  BY <1>1, <1>2, <1>3, SlotsDistinct

\* RingBuffer_Insert writes a free slot, whenever twice the size less two is
\* below 256: for sizes up to 128 of the 255 the header allows.
THEOREM InsertCorrect ==
    ASSUME NoWrap
    PROVE  Spec => []InsertUsesFreeSlot
<1>1. TypeOK => InsertUsesFreeSlot
  BY InsertSafeState, NoWrap
<1>2. QED
  BY <1>1, TypeCorrect, PTL

-----------------------------------------------------------------------------

StoredOK == Stored \in Seq(Value) /\ Len(Stored) = count

LEMMA StoredIsSeq == TypeOK => StoredOK
<1> HAVE TypeOK
<1>1. \A i \in 1..count : data[Slot(i - 1)] \in Value
  <2> TAKE i \in 1..count
  <2>1. i - 1 \in 0..(Size - 1)
    BY SizeAssumption DEF TypeOK
  <2>2. Slot(i - 1) \in Slots
    BY <2>1, SlotsDistinct
  <2>3. QED
    BY <2>2 DEF TypeOK
<1>2. count \in Nat
  BY SizeAssumption DEF TypeOK
<1>3. QED
  BY <1>1, <1>2 DEF Stored, StoredOK

LEMMA StoredIsSeqPrimed == TypeOK' => StoredOK'
  BY StoredIsSeq, PTL

\* Two sequences with the same length and elements are equal.
LEMMA SeqEqual ==
    ASSUME NEW S, NEW s \in Seq(S), NEW t \in Seq(S), Len(s) = Len(t),
           \A i \in 1..Len(s) : s[i] = t[i]
    PROVE  s = t
  OBVIOUS

LEMMA EmptyStored ==
    ASSUME TypeOK, count = 0
    PROVE  Stored = <<>>
  BY StoredIsSeq DEF StoredOK

\* RingBuffer_Insert appends the byte to the stored ones.
LEMMA InsertPuts ==
    ASSUME TypeOK, TypeOK', NoWrap, NEW v \in Value, Insert(v)
    PROVE  Fifo!Put(v)
<1>1. ~IsFull /\ In = Slot(count) /\ In \in Slots
  BY InIsNextSlot DEF Insert
<1>2. /\ Stored \in Seq(Value) /\ Len(Stored) = count
      /\ Stored' \in Seq(Value) /\ Len(Stored') = count + 1
  BY StoredIsSeq, StoredIsSeqPrimed DEF StoredOK, Insert
<1>3. count \in Nat /\ count < Size /\ Size \in Nat
  BY <1>1, SizeAssumption DEF TypeOK, IsFull
<1>4. ASSUME NEW i \in 1..(count + 1)
      PROVE  Stored'[i] = Append(Stored, v)[i]
  <2>1. Stored'[i] = data'[Slot(i - 1)]
    BY <1>3 DEF Stored, Slot, Insert
  <2>2. CASE i = count + 1
    <3>1. Stored'[i] = v
      BY <1>1, <1>3, <2>1, <2>2 DEF Insert, TypeOK
    <3>2. Append(Stored, v)[i] = v
      BY <1>2, <2>2
    <3>3. QED
      BY <3>1, <3>2
  <2>3. CASE i \in 1..count
    <3>1. i - 1 \in 0..(Size - 1) /\ count \in 0..(Size - 1) /\ i - 1 # count
      BY <1>3, <2>3
    <3>2. Slot(i - 1) # In /\ Slot(i - 1) \in Slots
      BY <1>1, <3>1, SlotsDistinct
    <3>3. data'[Slot(i - 1)] = data[Slot(i - 1)]
      BY <3>2 DEF Insert, TypeOK
    <3>4. Append(Stored, v)[i] = Stored[i]
      BY <1>2, <2>3
    <3>5. Stored[i] = data[Slot(i - 1)]
      BY <2>3 DEF Stored
    <3>6. QED
      BY <2>1, <3>3, <3>4, <3>5
  <2>4. i = count + 1 \/ i \in 1..count
    BY <1>3, <1>4
  <2>5. QED
    BY <2>2, <2>3, <2>4
<1>5. Stored' = Append(Stored, v)
  <2>1. Append(Stored, v) \in Seq(Value) /\ Len(Append(Stored, v)) = count + 1
    BY <1>2
  <2>2. QED
    BY <1>2, <1>4, <2>1, SeqEqual
<1>6. QED
  BY <1>2, <1>3, <1>5 DEF Fifo!Put, Insert

\* RingBuffer_Remove takes the oldest byte and returns it.
LEMMA RemoveTakes ==
    ASSUME TypeOK, TypeOK', Remove
    PROVE  Fifo!Take
<1>1. count \in Nat /\ 0 < count /\ count <= Size /\ Size \in Nat /\ out \in Nat /\ out < Size
  BY SizeAssumption DEF TypeOK, IsEmpty, Remove, Slots
<1>2. /\ Stored \in Seq(Value) /\ Len(Stored) = count
      /\ Stored' \in Seq(Value) /\ Len(Stored') = count - 1
  BY StoredIsSeq, StoredIsSeqPrimed DEF StoredOK, Remove
<1>3. Stored # <<>> /\ Head(Stored) = Peek
  <2>1. Stored[1] = data[Slot(0)] /\ Slot(0) = out
    BY <1>1 DEF Stored, Slot
  <2>2. QED
    BY <1>1, <1>2, <2>1 DEF Peek
<1>4. ASSUME NEW i \in 1..(count - 1)
      PROVE  Stored'[i] = Tail(Stored)[i]
  <2>1. Slot(i - 1)' = Slot(i)
    BY <1>1 DEF Slot, Remove
  <2>2. Stored'[i] = data[Slot(i)]
    BY <1>1, <2>1 DEF Stored, Remove
  <2>3. Stored[i + 1] = data[Slot(i)]
    BY <1>1 DEF Stored
  <2>4. Tail(Stored)[i] = Stored[i + 1]
    BY <1>1, <1>2
  <2>5. QED
    BY <2>2, <2>3, <2>4
<1>5. Stored' = Tail(Stored)
  <2>1. Tail(Stored) \in Seq(Value) /\ Len(Tail(Stored)) = count - 1
    BY <1>1, <1>2
  <2>2. QED
    BY <1>2, <1>4, <2>1, SeqEqual
<1>6. QED
  BY <1>3, <1>5 DEF Fifo!Take, Remove

LEMMA FifoStep == TypeOK /\ TypeOK' /\ NoWrap /\ [Next]_vars => [Fifo!Next]_(Fifo!vars)
<1> SUFFICES ASSUME TypeOK, TypeOK', NoWrap, [Next]_vars
             PROVE  [Fifo!Next]_(Fifo!vars)
  OBVIOUS
<1>1. CASE InitBuffer
  <2>1. Stored' = <<>>
    BY <1>1, StoredIsSeqPrimed DEF InitBuffer, StoredOK
  <2>2. QED
    BY <1>1, <2>1 DEF InitBuffer, Fifo!Next, Fifo!Clear, Fifo!Idle
<1>2. ASSUME NEW v \in Value, Insert(v)
      PROVE  Fifo!Next
  BY <1>2, InsertPuts DEF Fifo!Next
<1>3. CASE Remove
  BY <1>3, RemoveTakes DEF Fifo!Next
<1>4. CASE UNCHANGED vars
  BY <1>4 DEF vars, Fifo!vars, Stored, Slot
<1>5. QED
  BY <1>1, <1>2, <1>3, <1>4 DEF Next

\* The ring buffer implements the bounded FIFO, whenever twice the size less
\* two is below 256: bytes come out once each, in the order they went in.
THEOREM FifoCorrect ==
    ASSUME NoWrap
    PROVE  Spec => ImplementsFifo
<1>1. Init => Fifo!Init
  BY TypeInit, EmptyStored DEF Init, Fifo!Init, Fifo!Idle
<1>2. TypeOK /\ TypeOK' /\ [Next]_vars => [Fifo!Next]_(Fifo!vars)
  BY FifoStep, NoWrap
<1>3. QED
  BY <1>1, <1>2, TypeCorrect, PTL DEF Spec, ImplementsFifo, Fifo!Spec
=============================================================================
