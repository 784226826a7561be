---------------------------- MODULE RingBuffer ----------------------------
(***************************************************************************)
(* The 8-bit ring buffer of ringBuffer.h, in which DigiCDCFast keeps the   *)
(* bytes going to and coming from the host.  Byte is the number of values  *)
(* of a uint8_t (256 in the code, smaller in a scaled instance): the       *)
(* insertion index is computed in that width before it is compared with    *)
(* Size.  The guards of Insert and Remove are those of every caller:       *)
(* write() and usbFunctionWriteOut() test IsFull, read() and               *)
(* usbPollWrapper() test IsEmpty.                                          *)
(***************************************************************************)
EXTENDS Naturals, Sequences

CONSTANTS Size,     \* RingBuffer_t.Size
          Byte,     \* number of values of a uint8_t
          Value     \* what one slot can hold

ASSUME SizeAssumption == Byte \in Nat /\ Size \in 1..(Byte - 1)

VARIABLES data, out, count, port

vars == <<data, out, count, port>>

Slots == 0..(Size - 1)

IsEmpty == count = 0
IsFull  == count = Size
Peek    == data[out]

-----------------------------------------------------------------------------
\* Variants of the definitions below: mistakes this code could contain.
RemoveNoWrap ==
    /\ ~IsEmpty
    /\ port' = <<"take", Peek>>
    /\ out' = (out + 1) % Byte
    /\ count' = count - 1
    /\ UNCHANGED data

RemoveAdvancesFirst ==
    /\ ~IsEmpty
    /\ out' = IF out + 1 = Size THEN 0 ELSE out + 1
    /\ port' = <<"take", data[out']>>
    /\ count' = count - 1
    /\ UNCHANGED data
-----------------------------------------------------------------------------

Init ==
    /\ data \in [Slots -> Value]
    /\ out = 0
    /\ count = 0
    /\ port = <<"idle">>

\* RingBuffer_InitBuffer, called again by usbBegin() and end().
InitBuffer ==
    /\ out' = 0
    /\ count' = 0
    /\ port' = <<"idle">>
    /\ UNCHANGED data

\* "uint8_t In = Buffer->Out + Buffer->Count": the sum is truncated to 8 bits
\* before it is compared with Size.
In == LET sum == (out + count) % Byte
      IN  IF sum >= Size THEN sum - Size ELSE sum

Insert(v) ==
    /\ ~IsFull
    /\ data' = [data EXCEPT ![In] = v]
    /\ count' = count + 1
    /\ port' = <<"put", v>>
    /\ UNCHANGED out

Remove ==
    /\ ~IsEmpty
    /\ port' = <<"take", Peek>>
    /\ out' = IF out + 1 = Size THEN 0 ELSE out + 1
    /\ count' = count - 1
    /\ UNCHANGED data

Next == InitBuffer \/ (\E v \in Value : Insert(v)) \/ Remove

Spec == Init /\ [][Next]_vars

-----------------------------------------------------------------------------
(* The stored bytes, oldest first, and the queue they stand for.           *)

Slot(k) == IF out + k >= Size THEN out + k - Size ELSE out + k

Stored == [i \in 1..count |-> data[Slot(i - 1)]]

Occupied == {Slot(k) : k \in 0..(count - 1)}

Fifo == INSTANCE BoundedFifo WITH Capacity <- Size, queue <- Stored

\* The Out index stays inside the storage array, and Count within Size.
TypeOK ==
    /\ data \in [Slots -> Value]
    /\ out \in Slots
    /\ count \in 0..Size

\* RingBuffer_Insert writes a free slot of the array: never outside it, and
\* never over a byte that has not been removed yet.
InsertUsesFreeSlot == ~IsFull => In \in Slots \ Occupied

\* The buffer is a FIFO of Size bytes: RingBuffer_Insert appends the byte it
\* is given and RingBuffer_Remove returns the oldest one.
ImplementsFifo == Fifo!Spec

\* The sizes for which Out + Count never needs more than 8 bits.
NoWrap == 2 * Size - 2 < Byte
=============================================================================
