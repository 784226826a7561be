------------------------- MODULE CdcTransmitProofs -------------------------
(***************************************************************************)
(* Proofs about the transmit path, for every buffer and packet size and    *)
(* every timeout, without any bound on what is written or on what fails:   *)
(* its types, what success and failure of the calls that wait for the      *)
(* host, write() and flush(), mean, and how often the two sides' tokens    *)
(* get out of step.                                                        *)
(***************************************************************************)
EXTENDS CdcTransmit, SequenceTheorems, TLAPS

-----------------------------------------------------------------------------
(* Types.                                                                  *)

LEMMA TypeInit == Init => TypeOK
<1> SUFFICES ASSUME Init PROVE TypeOK
  OBVIOUS
<1> USE TransmitAssumption DEF Init
<1>1. <<>> \in Seq(Nat) /\ Len(<<>>) = 0
  OBVIOUS
<1>2. BufferType
  <2>1. usbTxStatus1 \in [nak : BOOLEAN, token : {0, 1}, buffer : Seq(Nat)]
        /\ usbTxStatus1.buffer = <<>>
    BY <1>1 DEF USB_INITIAL_DATATOKEN
  <2>2. 0 <= InPacketSize /\ 0 <= TxSize
    OBVIOUS
  <2> HIDE DEF Init
  <2>3. txBuf = <<>> /\ tmp = <<>> /\ sendEmptyFrame = FALSE /\ hostStalled = FALSE
    BY DEF Init
  <2> HIDE TransmitAssumption
  <2>4. QED
    BY <1>1, <2>1, <2>2, <2>3 DEF BufferType
<1>3. CallType
  BY DEF CallType
<1>4. HostType
  <2>1. connected \in BOOLEAN /\ transferOpen \in BOOLEAN
    BY Zenon
  <2>2. expected \in {0, 1} /\ received \in Seq(Nat)
        /\ {requests, restarts, failed, dropped} \subseteq Nat
    BY <1>1
  <2>3. QED
    BY <2>1, <2>2 DEF HostType
<1>5. HistoryType
  BY DEF HistoryType
<1>6. QED
  BY <1>2, <1>3, <1>4, <1>5 DEF TypeOK

\* What a step leaves alone keeps its type.
LEMMA Unchanged ==
    /\ BufferType /\ UNCHANGED <<usbTxStatus1, bufferVars>> => BufferType'
    /\ CallType /\ UNCHANGED callVars => CallType'
    /\ HostType /\ UNCHANGED hostVars => HostType'
    /\ HistoryType /\ UNCHANGED historyVars => HistoryType'
  BY DEF BufferType, CallType, HostType, HistoryType, bufferVars, callVars, hostVars, historyVars

\* txPending() never exceeds what the buffer and the packet hold together.
LEMMA PendingFits == BufferType => txPending \in 0..(TxSize + InPacketSize)
<1> SUFFICES ASSUME BufferType PROVE txPending \in 0..(TxSize + InPacketSize)
  OBVIOUS
<1> DEFINE b == Len(txBuf)
           t == Len(tmp)
<1>1. b \in Nat /\ t \in Nat /\ b <= TxSize /\ t <= InPacketSize
  BY DEF BufferType
<1>2. TxSize \in Nat /\ InPacketSize \in Nat
  BY TransmitAssumption
<1>3. txPending = b + t
  BY DEF txPending
<1> HIDE DEF b, t
<1>4. QED
  BY <1>1, <1>2, <1>3

\* usbPollWrapper() moves no more than fits the packet, and no more than waits.
LEMMA RefilledFits ==
    BufferType => /\ Refilled \in 0..Len(txBuf)
                  /\ Len(tmp) + Refilled <= InPacketSize
<1> SUFFICES ASSUME BufferType
             PROVE  Refilled \in 0..Len(txBuf) /\ Len(tmp) + Refilled <= InPacketSize
  OBVIOUS
<1> DEFINE b == Len(txBuf)
           t == Len(tmp)
<1>1. b \in Nat /\ t \in Nat /\ t <= InPacketSize
  BY DEF BufferType
<1>2. InPacketSize \in Nat
  BY TransmitAssumption
<1>3. Refilled = IF b < InPacketSize - t THEN b ELSE InPacketSize - t
  BY DEF Refilled
<1> HIDE DEF b, t
<1>4. Refilled \in 0..b /\ t + Refilled <= InPacketSize
  BY <1>1, <1>2, <1>3
<1>5. QED
  BY <1>4 DEF b, t

LEMMA TypeCalls == TypeOK /\ Calls => TypeOK'
<1> SUFFICES ASSUME TypeOK, Calls PROVE TypeOK'
  OBVIOUS
<1> USE DEF TypeOK
<1>1. BufferType' /\ HostType' /\ HistoryType'
  BY Unchanged DEF Calls, CallWrite, CallFlush, CallRefresh, Call
<1>2. pending' \in 0..(TxSize + InPacketSize)
  BY PendingFits DEF Calls, CallWrite, CallFlush, CallRefresh, CallType
<1>3. CallType'
  BY <1>2, TransmitAssumption DEF Calls, CallWrite, CallFlush, CallRefresh, Call, CallType
<1>4. QED
  BY <1>1, <1>3

\* write() queues its byte only when the ring buffer is not full.
LEMMA TypeTest == TypeOK /\ Test => TypeOK'
<1> SUFFICES ASSUME TypeOK, Test PROVE TypeOK'
  OBVIOUS
<1> USE DEF TypeOK
<1>1. HostType' /\ CallType'
  BY Unchanged DEF Test, CallType
<1>2. ASSUME txBuf' = Append(txBuf, written + 1), ~MustWait, op # "flush"
      PROVE  txBuf' \in Seq(Nat) /\ Len(txBuf') <= TxSize
  <2>1. txBuf \in Seq(Nat) /\ Len(txBuf) <= TxSize /\ Len(txBuf) # TxSize
    BY <1>2 DEF BufferType, MustWait
  <2>2. written + 1 \in Nat
    BY DEF HistoryType
  <2>3. txBuf' \in Seq(Nat) /\ Len(txBuf') = Len(txBuf) + 1
    BY <1>2, <2>1, <2>2
  <2> DEFINE b == Len(txBuf)
  <2>4. b \in Nat /\ b <= TxSize /\ b # TxSize /\ TxSize \in Nat
    BY <2>1, TransmitAssumption
  <2> HIDE DEF b
  <2>5. b + 1 <= TxSize
    BY <2>4
  <2>6. QED
    BY <2>3, <2>5 DEF b
<1>3. txBuf' \in Seq(Nat) /\ Len(txBuf') <= TxSize
  BY <1>2 DEF Test, BufferType
<1>4. hostStalled' \in BOOLEAN
  BY DEF Test, BufferType
<1>5. BufferType'
  BY <1>3, <1>4 DEF Test, BufferType
<1>6. HistoryType'
  BY DEF Test, HistoryType
<1>7. QED
  BY <1>1, <1>5, <1>6

LEMMA TypeDecide == TypeOK /\ Decide => TypeOK'
<1> SUFFICES ASSUME TypeOK, Decide PROVE TypeOK'
  OBVIOUS
<1> USE DEF TypeOK, Decide
<1>1. HostType' /\ HistoryType'
  BY Unchanged
<1>2. BufferType'
  BY DEF BufferType
<1>3. pending' \in 0..(TxSize + InPacketSize)
  BY PendingFits DEF CallType
<1>4. CallType'
  BY <1>3, TransmitAssumption DEF CallType
<1>5. QED
  BY <1>1, <1>2, <1>4

\* What usbPoll() can change for a request of the host: in the device only a
\* token and sendEmptyFrame, in the host what it expects.
LEMMA RequestKeeps ==
    ASSUME TypeOK, Poll
    PROVE  /\ usbTxStatus1' = usbTxStatus1 \/ usbTxStatus1' = usbResetDataToggling
           /\ usbTxStatus1' \in [nak : BOOLEAN, token : {0, 1}, buffer : Seq(Nat)]
           /\ usbTxStatus1'.nak = usbTxStatus1.nak /\ usbTxStatus1'.buffer = usbTxStatus1.buffer
           /\ sendEmptyFrame' \in BOOLEAN /\ (sendEmptyFrame => sendEmptyFrame')
           /\ expected' \in {0, 1}
           /\ transferOpen' \in BOOLEAN /\ (transferOpen' => transferOpen)
           /\ requests' \in Nat /\ restarts' \in Nat /\ restarts' >= restarts
           /\ \/ restarts' = restarts + 1
              \/ UNCHANGED <<usbTxStatus1, expected, transferOpen, restarts>>
<1> USE DEF Poll, NoRequest, ClassRequest, SetConfiguration, SetInterface, HostRestarts
<1>1. usbTxStatus1 \in [nak : BOOLEAN, token : {0, 1}, buffer : Seq(Nat)]
      /\ sendEmptyFrame \in BOOLEAN
  BY DEF TypeOK, BufferType
<1>2. /\ expected \in {0, 1} /\ transferOpen \in BOOLEAN
      /\ requests \in Nat /\ restarts \in Nat
  BY DEF TypeOK, HostType
<1>3. usbTxStatus1' = usbTxStatus1 \/ usbTxStatus1' = usbResetDataToggling
  OBVIOUS
<1>4. /\ usbTxStatus1' \in [nak : BOOLEAN, token : {0, 1}, buffer : Seq(Nat)]
      /\ usbTxStatus1'.nak = usbTxStatus1.nak /\ usbTxStatus1'.buffer = usbTxStatus1.buffer
  BY <1>1, <1>3 DEF usbResetDataToggling, USB_INITIAL_DATATOKEN
<1>5. sendEmptyFrame' \in BOOLEAN /\ (sendEmptyFrame => sendEmptyFrame')
  BY <1>1
<1>6. expected' \in {0, 1} /\ transferOpen' \in BOOLEAN /\ (transferOpen' => transferOpen)
  <2>1. expected' \in {0, expected}
    OBVIOUS
  <2>2. HostRestarts \/ UNCHANGED <<expected, transferOpen>>
    BY Zenon
  <2>3. transferOpen' \in BOOLEAN /\ (transferOpen' => transferOpen)
    <3>1. CASE HostRestarts
      BY <3>1, Zenon
    <3>2. CASE UNCHANGED <<expected, transferOpen>>
      BY <1>2, <3>2
    <3>3. QED
      BY <2>2, <3>1, <3>2
  <2>4. QED
    BY <1>2, <2>1, <2>3
<1>7. /\ requests' \in {requests, requests + 1}
      /\ restarts' \in {restarts, restarts + 1}
      /\ restarts' = restarts + 1 \/ UNCHANGED <<usbTxStatus1, expected, transferOpen, restarts>>
  OBVIOUS
<1> HIDE DEF Poll, NoRequest, ClassRequest, SetConfiguration, SetInterface, HostRestarts
<1>8. requests' \in Nat /\ restarts' \in Nat /\ restarts' >= restarts
  BY <1>2, <1>7
<1>9. QED
  BY <1>3, <1>4, <1>5, <1>6, <1>7, <1>8

LEMMA TypePoll == TypeOK /\ Poll => TypeOK'
<1> SUFFICES ASSUME TypeOK, Poll PROVE TypeOK'
  OBVIOUS
<1> USE DEF TypeOK
<1>1. HistoryType' /\ CallType' /\ HostType'
  <2>1. HistoryType' /\ CallType'
    BY Unchanged DEF Poll, CallType
  <2>2. UNCHANGED <<connected, received, failed, dropped>>
    BY DEF Poll
  <2>3. HostType'
    BY <2>2, RequestKeeps DEF HostType
  <2>4. QED
    BY <2>1, <2>3
<1> DEFINE n == Refilled
           b == Len(txBuf)
           t == Len(tmp)
           moved == SubSeq(txBuf, 1, n)
           rest == SubSeq(txBuf, n + 1, b)
<1>2. n \in 0..b /\ t + n <= InPacketSize /\ b \in Nat /\ t \in Nat
      /\ txBuf \in Seq(Nat) /\ tmp \in Seq(Nat) /\ b <= TxSize /\ TxSize \in Nat
  BY RefilledFits, TransmitAssumption DEF BufferType
<1>3. moved \in Seq(Nat) /\ Len(moved) = n
  <2> HIDE DEF n
  <2>1. QED
    BY <1>2
<1>4. rest \in Seq(Nat) /\ Len(rest) <= b
  <2> HIDE DEF n
  <2>1. QED
    BY <1>2
<1>5. tmp' = tmp \o moved /\ txBuf' = rest
  BY DEF Poll
<1>6. tmp' \in Seq(Nat) /\ Len(tmp') = t + n
  BY <1>2, <1>3, <1>5
<1>7. txBuf' \in Seq(Nat) /\ Len(txBuf') <= TxSize
  <2> DEFINE r == Len(rest)
  <2>1. r \in Nat /\ r <= b
    BY <1>4
  <2> HIDE DEF r, b
  <2>2. r <= TxSize
    BY <1>2, <2>1
  <2>3. QED
    BY <1>4, <1>5, <2>2 DEF r
<1>8. Len(tmp') <= InPacketSize
  BY <1>2, <1>6
<1>9. BufferType'
  <2>1. /\ sendEmptyFrame' \in BOOLEAN /\ UNCHANGED hostStalled
        /\ usbTxStatus1' \in [nak : BOOLEAN, token : {0, 1}, buffer : Seq(Nat)]
        /\ usbTxStatus1'.buffer = usbTxStatus1.buffer
    BY RequestKeeps DEF Poll
  <2> HIDE DEF n, b, t, moved, rest
  <2>2. QED
    BY <1>6, <1>7, <1>8, <2>1 DEF BufferType
<1>10. QED
  BY <1>1, <1>9

LEMMA TypeHandOver == TypeOK /\ (Ready \/ Copy \/ Arm \/ Mark) => TypeOK'
<1> SUFFICES ASSUME TypeOK, Ready \/ Copy \/ Arm \/ Mark PROVE TypeOK'
  OBVIOUS
<1> USE DEF TypeOK
<1>1. CASE Ready
  BY <1>1, Unchanged DEF Ready, AfterPoll, CallType
<1>2. CASE Copy
  <2>1. HostType' /\ HistoryType' /\ CallType'
    BY <1>2, Unchanged DEF Copy, CallType
  <2>2. NextToken \in {0, 1}
    BY DEF NextToken, BufferType
  <2>3. BufferType'
    BY <1>2, <2>2 DEF Copy, BufferType, bufferVars
  <2>4. QED
    BY <2>1, <2>3
<1>3. CASE Arm
  <2>1. HostType' /\ CallType'
    BY <1>3, Unchanged DEF Arm, CallType
  <2>2. BufferType'
    BY <1>3 DEF Arm, BufferType, bufferVars
  <2>3. HistoryType'
    BY <1>3, TransmitAssumption DEF Arm, HistoryType
  <2>4. QED
    BY <2>1, <2>2, <2>3
<1>4. CASE Mark
  <2>1. HostType' /\ HistoryType' /\ CallType'
    BY <1>4, Unchanged DEF Mark, AfterPoll, CallType
  <2>2. IndexReset \in Seq(Nat) /\ Len(IndexReset) <= InPacketSize
    BY TransmitAssumption DEF IndexReset
  <2>3. BufferType'
    BY <1>4, <2>2 DEF Mark, BufferType
  <2>4. QED
    BY <2>1, <2>3
<1>5. QED
  BY <1>1, <1>2, <1>3, <1>4

LEMMA TypeHostTakes == TypeOK /\ HostTakes => TypeOK'
<1> SUFFICES ASSUME TypeOK, HostTakes PROVE TypeOK'
  OBVIOUS
<1> USE DEF TypeOK
<1>1. CallType' /\ HistoryType'
  BY Unchanged DEF HostTakes
<1>2. BufferType'
  BY DEF HostTakes, BufferType, bufferVars
<1>3. usbTxStatus1.buffer \in Seq(Nat)
  BY DEF BufferType
<1>4. received' \in Seq(Nat)
  <2> DEFINE packet == usbTxStatus1.buffer
  <2>1. received' = received \o packet \/ received' = received
    BY DEF HostTakes
  <2>2. received \in Seq(Nat) /\ packet \in Seq(Nat)
    BY <1>3 DEF HostType
  <2> HIDE DEF packet
  <2>3. received \o packet \in Seq(Nat)
    BY <2>2
  <2>4. QED
    BY <2>1, <2>2, <2>3
<1>5. {failed, dropped}' \subseteq Nat /\ UNCHANGED <<connected, requests, restarts>>
  BY DEF HostTakes, HostType
<1>6. expected' \in {0, 1} /\ transferOpen' \in BOOLEAN
  <2>1. expected' \in {expected, 1 - expected} /\ expected \in {0, 1}
    BY DEF HostTakes, HostType
  <2>2. \/ transferOpen' = (Len(usbTxStatus1.buffer) = InPacketSize)
        \/ transferOpen' = transferOpen /\ transferOpen \in BOOLEAN
    BY DEF HostTakes, HostType
  <2>3. expected' \in {0, 1}
    BY <2>1
  <2>4. transferOpen' \in BOOLEAN
    BY <2>2
  <2>5. QED
    BY <2>3, <2>4
<1>7. HostType'
  BY <1>4, <1>5, <1>6 DEF HostType
<1>8. QED
  BY <1>1, <1>2, <1>7

LEMMA TypeTick == TypeOK /\ Tick => TypeOK'
<1> SUFFICES ASSUME TypeOK, Tick PROVE TypeOK'
  OBVIOUS
<1> USE DEF TypeOK
<1>1. BufferType' /\ HostType'
  BY Unchanged DEF Tick
<1>2. \A clock \in 0..(HostTimeout + 1) : Later(clock) \in 0..(HostTimeout + 1)
  BY TransmitAssumption DEF Later
<1>3. CallType' /\ HistoryType'
  BY <1>2 DEF Tick, CallType, HistoryType
<1>4. QED
  BY <1>1, <1>3

LEMMA TypeSession == TypeOK /\ (Begin \/ End) => TypeOK'
<1> SUFFICES ASSUME TypeOK, Begin \/ End PROVE TypeOK'
  OBVIOUS
<1> USE DEF TypeOK
<1>1. CallType'
  BY Unchanged DEF Begin, End
<1>2. HostType' /\ HistoryType'
  <2>1. HistoryType'
    BY DEF Begin, End, HistoryType
  <2>2. connected' \in BOOLEAN /\ expected' \in {0, 1} /\ transferOpen' \in BOOLEAN
    BY DEF Begin, End, HostRestarts, HostType
  <2>3. UNCHANGED <<received, requests, restarts, failed, dropped>>
    BY DEF Begin, End
  <2>4. QED
    BY <2>1, <2>2, <2>3 DEF HostType
<1>3. BufferType'
  <2>1. CASE Begin
    <3>1. <<>> \in Seq(Nat) /\ Len(<<>>) <= TxSize
      BY TransmitAssumption
    <3>2. usbTxStatus1' \in [nak : BOOLEAN, token : {0, 1}, buffer : Seq(Nat)]
          /\ usbTxStatus1'.buffer = usbTxStatus1.buffer
      BY <2>1 DEF Begin, BufferType, usbResetDataToggling, USB_INITIAL_DATATOKEN
    <3>3. QED
      BY <2>1, <3>1, <3>2 DEF Begin, BufferType
  <2>2. CASE End
    BY <2>2, Unchanged DEF End
  <2>3. QED
    BY <2>1, <2>2
<1>4. QED
  BY <1>1, <1>2, <1>3

\* The transmit path keeps its types, in whatever order the sketch, the
\* interrupt, the host and the clock take their steps: neither the packet nor
\* the ring buffer ever overflows, and waitForHost()'s count fits both.
THEOREM TypeCorrect == Spec => []TypeOK
<1>1. TypeOK /\ [Next]_vars => TypeOK'
  <2> SUFFICES ASSUME TypeOK, [Next]_vars PROVE TypeOK'
    OBVIOUS
  <2>1. CASE Calls
    BY <2>1, TypeCalls
  <2>2. CASE Main
    BY <2>2, TypeTest, TypeDecide, TypePoll, TypeHandOver DEF Main
  <2>3. CASE HostTakes
    BY <2>3, TypeHostTakes
  <2>4. CASE Tick
    BY <2>4, TypeTick
  <2>5. CASE Begin \/ End
    BY <2>5, TypeSession
  <2>6. CASE UNCHANGED vars
    BY <2>6, Unchanged DEF TypeOK, vars
  <2>7. QED
    BY <2>1, <2>2, <2>3, <2>4, <2>5, <2>6 DEF Next
<1>2. QED
  BY TypeInit, <1>1, PTL DEF Spec

-----------------------------------------------------------------------------
(* Failure.  pending never lags behind what waits.  While nothing has been *)
(* handed over since it was taken, the packet on offer is at least as old  *)
(* as the wait; and when one is handed over, what waits goes down, so that *)
(* the clock is set back before it is read, unless flush() is down to the  *)
(* empty packet.                                                           *)

\* waitForHost() is running.
Waits == pc # "idle" /\ InWait

\* flush() waits for packets only, and pending can no longer go down.
Drained == op = "flush" /\ txPending = 0

PendingInv ==
    /\ pc \in {"test", "decide"} => InWait
    /\ Waits => txPending <= pending

PacketInv ==
    /\ pc \in {"ready", "copy", "arm", "mark"} /\ tmp = <<>> => txBuf = <<>>
    /\ pc \in {"copy", "arm", "mark"} => tmp # <<>> \/ sendEmptyFrame
    /\ Waits /\ op = "write" /\ pc \in {"poll", "ready", "copy", "arm", "mark"} => txPending # 0

AgeInv ==
    Waits /\ pc # "mark" /\ ~usbTxStatus1.nak /\ txPending >= pending /\ ~Drained
        => elapsed <= age

\* Between Ready and Arm the interrupt has no packet, so that the main program
\* alone touches the endpoint's buffer; until Mark tmp still holds what is in it.
HandInv ==
    /\ pc \in {"copy", "arm"} => usbTxStatus1.nak
    /\ pc \in {"arm", "mark"} => usbTxStatus1.buffer = tmp

WaitInv == TypeOK /\ PendingInv /\ PacketInv /\ AgeInv /\ HandInv

-----------------------------------------------------------------------------
(* Success.  A transfer the host has open is one this side knows to be     *)
(* open: sendEmptyFrame is set, or Mark is about to set it.                *)

FlushInv ==
    /\ op = "flush" /\ pc # "idle" => result = "none"
    /\ op = "flush" /\ result = "ok" => usbTxStatus1.nak /\ tmp = <<>> /\ txBuf = <<>>

TransferInv ==
    /\ pc = "mark" /\ transferOpen /\ usbTxStatus1.nak => Len(tmp) = InPacketSize
    /\ pc # "mark" /\ transferOpen /\ usbTxStatus1.nak => sendEmptyFrame
    /\ pc # "mark" /\ ~usbTxStatus1.nak /\ Len(usbTxStatus1.buffer) = InPacketSize
           => sendEmptyFrame
    /\ op = "flush" /\ result = "ok" => ~transferOpen

\* Once a packet has been lost, the host may wait for what this side has sent.
SuccessInv == WaitInv /\ FlushInv /\ (failed + dropped = 0 => TransferInv)

-----------------------------------------------------------------------------
(* Tokens.  The token is toggled when a packet is copied, the host's when  *)
(* it takes the packet.  Each failure and each restart may put the two out *)
(* of step, once; the next packet is dropped then, and they agree again.   *)

InStep == usbTxStatus1.token = expected <=> ~usbTxStatus1.nak \/ pc = "arm"

DropInv == dropped + (IF InStep THEN 0 ELSE 1) <= failed + restarts

-----------------------------------------------------------------------------

\* Lengths, without the sequences.
LEMMA Lengths ==
    ASSUME BufferType
    PROVE  /\ Len(txBuf) \in Nat /\ Len(tmp) \in Nat
           /\ txPending = Len(txBuf) + Len(tmp) /\ txPending \in Nat
           /\ txBuf = <<>> <=> Len(txBuf) = 0
           /\ tmp = <<>> <=> Len(tmp) = 0
           /\ txPending = 0 <=> txBuf = <<>> /\ tmp = <<>>
<1>1. /\ Len(txBuf) \in Nat /\ Len(tmp) \in Nat
      /\ txBuf = <<>> <=> Len(txBuf) = 0
      /\ tmp = <<>> <=> Len(tmp) = 0
  BY EmptySeq, LenProperties DEF BufferType
<1> DEFINE b == Len(txBuf)
           t == Len(tmp)
<1>2. txPending = b + t
  BY DEF txPending
<1> HIDE DEF b, t
<1>3. b \in Nat /\ t \in Nat => b + t \in Nat /\ (b + t = 0 <=> b = 0 /\ t = 0)
  OBVIOUS
<1>4. QED
  BY <1>1, <1>2, <1>3 DEF b, t

\* usbPollWrapper() moves bytes but loses none, and leaves the packet empty
\* only if there is none.
LEMMA PollKeeps ==
    ASSUME TypeOK, TypeOK', Poll
    PROVE  txPending' = txPending /\ (tmp' = <<>> => txBuf' = <<>>)
<1> DEFINE b == Len(txBuf)
           t == Len(tmp)
           r == Refilled
<1>1. b \in Nat /\ t \in Nat /\ InPacketSize \in 1..8
  BY Lengths, TransmitAssumption DEF TypeOK
<1>2. r \in 0..b /\ r = IF b < InPacketSize - t THEN b ELSE InPacketSize - t
  BY RefilledFits DEF TypeOK, Refilled
<1>3. txBuf \in Seq(Nat) /\ tmp \in Seq(Nat)
  BY DEF TypeOK, BufferType
<1>4. tmp' = tmp \o SubSeq(txBuf, 1, r) /\ txBuf' = SubSeq(txBuf, r + 1, b)
  BY DEF Poll
<1> HIDE DEF r
<1>5. Len(SubSeq(txBuf, 1, r)) = r /\ SubSeq(txBuf, 1, r) \in Seq(Nat)
  BY <1>2, <1>3
<1>6. Len(SubSeq(txBuf, r + 1, b)) = b - r
  BY <1>2, <1>3
<1>7. Len(tmp') = t + r
  BY <1>3, <1>4, <1>5, ConcatProperties
<1>8. Len(txBuf') = b - r
  BY <1>4, <1>6
<1>9. txPending' = Len(txBuf') + Len(tmp') /\ txPending = b + t
  BY DEF txPending
<1>10. tmp' = <<>> => Len(tmp') = 0
  BY EmptySeq DEF TypeOK, BufferType
<1>11. Len(txBuf') = 0 => txBuf' = <<>>
  BY EmptySeq DEF TypeOK, BufferType
<1> HIDE DEF b, t
<1>12. t + r = 0 => b - r = 0
  BY <1>1, <1>2
<1>13. (b - r) + (t + r) = b + t
  BY <1>1, <1>2
<1>14. QED
  BY <1>7, <1>8, <1>9, <1>10, <1>11, <1>12, <1>13

\* What is handed over no longer waits.
LEMMA MarkKeeps ==
    ASSUME TypeOK, Mark
    PROVE  /\ txPending' \in Nat /\ txPending' <= txPending
           /\ tmp # <<>> => txPending' < txPending
<1>1. txBuf' = txBuf /\ tmp' = <<>>
  BY DEF Mark, IndexReset
<1> DEFINE b == Len(txBuf)
           t == Len(tmp)
<1>2. b \in Nat /\ t \in Nat /\ txPending = b + t /\ (tmp # <<>> => t # 0)
  BY Lengths DEF TypeOK
<1>3. txPending' = b + 0
  BY <1>1, EmptySeq DEF txPending
<1> HIDE DEF b, t
<1>4. QED
  BY <1>2, <1>3

-----------------------------------------------------------------------------

LEMMA WaitInit == Init => WaitInv
<1> SUFFICES ASSUME Init PROVE WaitInv
  OBVIOUS
<1>1. TypeOK
  BY TypeInit
<1>2. QED
  BY <1>1 DEF Init, WaitInv, PendingInv, PacketInv, AgeInv, HandInv, Waits, InWait

LEMMA TypeStep == TypeOK /\ [Next]_vars => TypeOK'
<1> SUFFICES ASSUME TypeOK, [Next]_vars PROVE TypeOK'
  OBVIOUS
<1>1. CASE Calls
  BY <1>1, TypeCalls
<1>2. CASE Main
  BY <1>2, TypeTest, TypeDecide, TypePoll, TypeHandOver DEF Main
<1>3. CASE HostTakes
  BY <1>3, TypeHostTakes
<1>4. CASE Tick
  BY <1>4, TypeTick
<1>5. CASE Begin \/ End
  BY <1>5, TypeSession
<1>6. CASE UNCHANGED vars
  BY <1>6, Unchanged DEF TypeOK, vars
<1>7. QED
  BY <1>1, <1>2, <1>3, <1>4, <1>5, <1>6 DEF Next

LEMMA PendingStep == WaitInv /\ TypeOK' /\ [Next]_vars => PendingInv'
<1> SUFFICES ASSUME WaitInv, TypeOK', [Next]_vars PROVE PendingInv'
  OBVIOUS
<1> USE DEF PendingInv, Waits, InWait
<1>0. txPending \in Nat /\ pending \in Nat
  BY Lengths, TransmitAssumption DEF WaitInv, TypeOK, CallType
<1>1. CASE Calls
  <2>1. UNCHANGED txPending /\ pc = "idle"
    BY <1>1 DEF Calls, CallWrite, CallFlush, CallRefresh, Call, bufferVars, txPending
  <2>2. \/ pc' = "poll" /\ op' = "refresh"
        \/ pc' = "test" /\ op' \in {"write", "flush"} /\ result' = "none" /\ pending' = txPending
    BY <1>1 DEF Calls, CallWrite, CallFlush, CallRefresh, Call
  <2>3. QED
    BY <1>0, <2>1, <2>2
<1>2. CASE Test
  <2>1. pc = "test" /\ UNCHANGED <<op, pending, tmp>>
    BY <1>2 DEF Test
  <2>2. CASE pc' = "poll" /\ UNCHANGED <<result, txBuf>>
    BY <2>1, <2>2 DEF WaitInv, txPending
  <2>3. CASE result' = "ok" /\ pc' \in {"idle", "poll"}
    BY <2>3
  <2>4. QED
    BY <1>2, <2>2, <2>3 DEF Test
<1>3. CASE Decide
  <2>1. UNCHANGED <<op, txPending>> /\ pc = "decide"
    BY <1>3 DEF Decide, txPending
  <2>2. CASE pending' = txPending /\ pc' = "test" /\ UNCHANGED result
    BY <1>0, <2>1, <2>2 DEF WaitInv
  <2>3. CASE pc' = "idle"
    BY <2>3
  <2>4. CASE pc' = "test" /\ UNCHANGED <<result, pending>>
    BY <2>1, <2>4 DEF WaitInv
  <2>5. QED
    BY <1>3, <2>2, <2>3, <2>4 DEF Decide
<1>4. CASE Poll
  <2>1. txPending' = txPending
    BY <1>4, PollKeeps DEF WaitInv
  <2>2. QED
    BY <1>4, <2>1 DEF Poll, WaitInv
<1>5. CASE Ready \/ Copy \/ Arm
  BY <1>5 DEF Ready, Copy, Arm, AfterPoll, bufferVars, txPending, WaitInv
<1>6. CASE Mark
  <2>1. txPending' \in Nat /\ txPending' <= txPending
    BY <1>6, MarkKeeps DEF WaitInv
  <2>2. pc = "mark" /\ pc' = AfterPoll /\ UNCHANGED <<op, result, pending>>
    BY <1>6 DEF Mark
  <2>3. QED
    BY <1>0, <2>1, <2>2 DEF AfterPoll, WaitInv
<1>7. CASE HostTakes \/ Tick \/ UNCHANGED vars
  BY <1>7 DEF HostTakes, Tick, vars, bufferVars, callVars, txPending, WaitInv
<1>8. CASE Begin \/ End
  BY <1>8 DEF Begin, End, bufferVars, callVars
<1>9. QED
  BY <1>1, <1>2, <1>3, <1>4, <1>5, <1>6, <1>7, <1>8 DEF Next, Main

LEMMA PacketStep == WaitInv /\ TypeOK' /\ [Next]_vars => PacketInv'
<1> SUFFICES ASSUME WaitInv, TypeOK', [Next]_vars PROVE PacketInv'
  OBVIOUS
<1> USE DEF PacketInv, Waits, InWait
<1>1. CASE Calls \/ Begin \/ End
  BY <1>1 DEF Calls, CallWrite, CallFlush, CallRefresh, Call, Begin, End, callVars, bufferVars
<1>2. CASE Test
  <2>1. UNCHANGED <<op, tmp>> /\ pc' \in {"idle", "poll"}
    BY <1>2 DEF Test
  <2>2. CASE MustWait /\ op = "write" /\ UNCHANGED txBuf
    <3>1. Len(txBuf) = TxSize /\ TxSize \in 1..128
      BY <2>2, TransmitAssumption DEF MustWait
    <3>2. txBuf # <<>>
      BY <3>1, Lengths DEF WaitInv, TypeOK
    <3>3. txPending # 0 /\ txPending' = txPending
      BY <2>1, <2>2, <3>2, Lengths DEF WaitInv, TypeOK, txPending
    <3>4. QED
      BY <2>1, <3>3
  <2>3. CASE result' = "ok" \/ op = "flush" \/ pc' = "idle"
    BY <2>1, <2>3
  <2>4. op \in {"write", "flush"}
    BY <1>2 DEF Test, WaitInv, PendingInv
  <2>5. QED
    BY <1>2, <2>2, <2>3, <2>4 DEF Test
<1>3. CASE Decide
  BY <1>3 DEF Decide
<1>4. CASE Poll
  <2>1. txPending' = txPending /\ (tmp' = <<>> => txBuf' = <<>>)
    BY <1>4, PollKeeps DEF WaitInv
  <2>2. QED
    BY <1>4, <2>1 DEF Poll, WaitInv
<1>5. CASE Ready \/ Copy \/ Arm
  BY <1>5 DEF Ready, Copy, Arm, AfterPoll, bufferVars, txPending, WaitInv
<1>6. CASE Mark
  BY <1>6 DEF Mark, AfterPoll
<1>7. CASE HostTakes \/ Tick \/ UNCHANGED vars
  BY <1>7 DEF HostTakes, Tick, vars, bufferVars, callVars, txPending, WaitInv
<1>8. QED
  BY <1>1, <1>2, <1>3, <1>4, <1>5, <1>6, <1>7 DEF Next, Main

LEMMA AgeStep == WaitInv /\ TypeOK' /\ [Next]_vars => AgeInv'
<1> SUFFICES ASSUME WaitInv, TypeOK', [Next]_vars PROVE AgeInv'
  OBVIOUS
<1> USE DEF AgeInv, Waits, InWait, Drained
<1>0. age \in Nat /\ elapsed \in Nat /\ age' \in Nat /\ elapsed' \in Nat /\ HostTimeout \in Nat
      /\ elapsed <= HostTimeout + 1 /\ age <= HostTimeout + 1
  BY TransmitAssumption DEF WaitInv, TypeOK, CallType, HistoryType
<1>1. CASE Calls
  BY <1>0, <1>1 DEF Calls, CallWrite, CallFlush, CallRefresh, Call
<1>2. CASE Test
  <2>1. pc = "test" /\ UNCHANGED <<usbTxStatus1, op, pending, elapsed, age, tmp>>
    BY <1>2 DEF Test
  <2>2. CASE pc' = "poll" /\ UNCHANGED <<result, txBuf>>
    BY <2>1, <2>2 DEF WaitInv, txPending
  <2>3. CASE result' = "ok"
    BY <2>3
  <2>4. QED
    BY <1>2, <2>2, <2>3 DEF Test
<1>3. CASE Decide
  <2>1. UNCHANGED <<usbTxStatus1, op, txPending, age>> /\ pc = "decide"
    BY <1>3 DEF Decide, historyVars, txPending
  <2>2. CASE elapsed' = 0 \/ pc' = "idle"
    BY <1>0, <2>2
  <2>3. CASE pc' = "test" /\ UNCHANGED <<result, pending, elapsed>>
    BY <2>1, <2>3 DEF WaitInv
  <2>4. QED
    BY <1>3, <2>2, <2>3 DEF Decide
<1>4. CASE Poll
  <2>1. txPending' = txPending
    BY <1>4, PollKeeps DEF WaitInv
  <2>2. usbTxStatus1'.nak = usbTxStatus1.nak
    BY <1>4, RequestKeeps DEF WaitInv
  <2>3. QED
    BY <1>4, <2>1, <2>2 DEF Poll, WaitInv, historyVars
<1>5. CASE Ready \/ Copy
  BY <1>5 DEF Ready, Copy, AfterPoll, bufferVars, historyVars, txPending, WaitInv, TypeOK, BufferType
<1>6. CASE Arm
  BY <1>6 DEF Arm
<1>7. CASE Mark
  <2>1. tmp # <<>> => txPending' < txPending
    BY <1>7, MarkKeeps DEF WaitInv
  <2>2. /\ txPending' \in Nat /\ txPending \in Nat /\ txPending' <= txPending
        /\ pending \in Nat /\ pending' = pending
    BY <1>7, MarkKeeps, Lengths DEF WaitInv, TypeOK, CallType, Mark
  <2>3. pc = "mark" /\ UNCHANGED <<op, result, txBuf>>
    BY <1>7 DEF Mark
  <2>4. CASE tmp # <<>>
    <3>1. ~Waits \/ txPending <= pending
      BY DEF WaitInv, PendingInv
    <3>2. Waits' => Waits
      BY <2>3
    <3>3. Waits' => ~(txPending' >= pending')
      BY <2>1, <2>2, <2>4, <3>1, <3>2
    <3>4. QED
      BY <3>3
  <2>5. CASE tmp = <<>>
    <3>1. txPending = 0
      BY <2>3, <2>5, Lengths DEF WaitInv, PacketInv, TypeOK
    <3>2. txPending' = 0
      BY <2>2, <3>1
    <3>3. Waits => op # "write"
      BY <2>3, <3>1 DEF WaitInv, PacketInv
    <3>4. QED
      BY <2>3, <3>2, <3>3
  <2>6. QED
    BY <2>4, <2>5
<1>8. CASE HostTakes
  BY <1>8 DEF HostTakes, WaitInv, TypeOK, BufferType
<1>9. CASE Tick
  <2>1. UNCHANGED <<usbTxStatus1, txPending, pc, op, result, pending>>
    BY <1>9 DEF Tick, bufferVars, txPending
  <2>2. CASE ~(Waits /\ ~usbTxStatus1.nak)
    BY <2>1, <2>2
  <2>3. CASE Waits /\ ~usbTxStatus1.nak
    <3>1. elapsed' = Later(elapsed) /\ age' = Later(age)
      BY <1>9, <2>3 DEF Tick
    <3>2. elapsed <= age => elapsed' <= age'
      BY <1>0, <3>1 DEF Later
    <3>3. QED
      BY <2>1, <2>3, <3>2 DEF WaitInv
  <2>4. QED
    BY <2>2, <2>3
<1>10. CASE Begin \/ End
  BY <1>10 DEF Begin, End, callVars
<1>11. CASE UNCHANGED vars
  BY <1>11 DEF vars, bufferVars, callVars, historyVars, txPending, WaitInv
<1>12. QED
  BY <1>1, <1>2, <1>3, <1>4, <1>5, <1>6, <1>7, <1>8, <1>9, <1>10, <1>11 DEF Next, Main

LEMMA HandStep == WaitInv /\ [Next]_vars => HandInv'
<1> SUFFICES ASSUME WaitInv, [Next]_vars PROVE HandInv'
  OBVIOUS
<1> USE DEF HandInv
<1>0. HandInv /\ usbTxStatus1 \in [nak : BOOLEAN, token : {0, 1}, buffer : Seq(Nat)]
  BY DEF WaitInv, TypeOK, BufferType
<1>1. CASE Test \/ Decide \/ Poll \/ Mark
  BY <1>1 DEF Test, Decide, Poll, Mark, AfterPoll
<1>2. CASE Ready
  BY <1>0, <1>2 DEF Ready, AfterPoll, IsReady
<1>3. CASE Copy \/ Arm
  <2>1. \/ /\ pc' = "arm" /\ usbTxStatus1'.buffer = tmp /\ pc = "copy"
           /\ usbTxStatus1'.nak = TRUE
        \/ pc' = "mark" /\ usbTxStatus1'.buffer = usbTxStatus1.buffer /\ pc = "arm"
    BY <1>0, <1>3 DEF Copy, Arm
  <2>2. tmp' = tmp
    BY <1>3 DEF Copy, Arm, bufferVars
  <2>3. QED
    BY <1>0, <2>1, <2>2
<1>4. CASE HostTakes
  <2>1. /\ usbTxStatus1'.nak = TRUE /\ usbTxStatus1'.buffer = usbTxStatus1.buffer
        /\ UNCHANGED <<pc, tmp>>
    BY <1>0, <1>4 DEF HostTakes, callVars, bufferVars
  <2>2. QED
    BY <1>0, <2>1
<1>5. CASE Calls \/ Begin \/ End
  BY <1>5 DEF Calls, CallWrite, CallFlush, CallRefresh, Call, Begin, End, callVars
<1>6. CASE Tick \/ UNCHANGED vars
  BY <1>0, <1>6 DEF Tick, vars, bufferVars, callVars
<1>7. QED
  BY <1>1, <1>2, <1>3, <1>4, <1>5, <1>6 DEF Next, Main

LEMMA WaitStep == WaitInv /\ [Next]_vars => WaitInv'
<1>1. WaitInv => TypeOK
  BY DEF WaitInv
<1>2. QED
  BY <1>1, TypeStep, PendingStep, PacketStep, AgeStep, HandStep DEF WaitInv

LEMMA WaitCorrect == Spec => []WaitInv
  BY WaitInit, WaitStep, PTL DEF Spec

\* OfferStays: usbGenericSetInterrupt() writes to the endpoint's buffer only while
\* the interrupt has no packet in it, wherever the interrupt comes in between; of
\* a packet on offer SET_INTERFACE alone changes anything, its token.
THEOREM OfferCorrect == Spec => OfferStays
<1> DEFINE Stays ==
        \/ usbTxStatus1' = usbTxStatus1
        \/ (usbTxStatus1' = usbResetDataToggling /\ restarts' > restarts)
<1>1. WaitInv /\ [Next]_vars => [~usbTxStatus1.nak /\ pc' # pc => Stays]_vars
  <2> SUFFICES ASSUME WaitInv, [Next]_vars, ~usbTxStatus1.nak, pc' # pc PROVE Stays
    OBVIOUS
  <2>1. ~Copy /\ ~Arm
    BY DEF WaitInv, HandInv, Copy, Arm
  <2>2. ~(HostTakes \/ Tick \/ Begin \/ End \/ UNCHANGED vars)
    BY DEF HostTakes, Tick, Begin, End, vars, callVars
  <2>3. CASE Poll
    <3>1. \/ UNCHANGED usbTxStatus1
          \/ usbTxStatus1' = usbResetDataToggling /\ restarts' = restarts + 1
      BY <2>3, RequestKeeps DEF WaitInv
    <3>2. restarts \in Nat
      BY DEF WaitInv, TypeOK, HostType
    <3>3. QED
      BY <3>1, <3>2
  <2>4. CASE Calls \/ Test \/ Decide \/ Ready \/ Mark
    BY <2>4 DEF Calls, CallWrite, CallFlush, CallRefresh, Call, Test, Decide, Ready, Mark
  <2>5. QED
    BY <2>1, <2>2, <2>3, <2>4 DEF Next, Main
<1>2. QED
  BY WaitCorrect, <1>1, PTL DEF Spec, OfferStays

\* StalledOnlyAfterTimeout: write() and flush() give the host up only when it
\* has let a packet wait for HOST_TIMEOUT_MS, for every timeout and buffer size.
THEOREM StalledCorrect == Spec => StalledOnlyAfterTimeout
<1>1. WaitInv /\ [Next]_vars =>
          [~hostStalled /\ hostStalled' =>
               \/ IsReady \/ age > HostTimeout
               \/ op = "flush" /\ txPending = 0 /\ elapsed > HostTimeout]_vars
  <2> SUFFICES ASSUME WaitInv, [Next]_vars, ~hostStalled, hostStalled', ~IsReady
               PROVE  elapsed > HostTimeout /\ (age > HostTimeout \/ Drained)
    BY DEF Drained
  <2>1. Decide
    BY DEF Next, Main, Calls, CallWrite, CallFlush, CallRefresh, Call, Test, Poll, Ready, Copy,
       Arm, Mark, HostTakes, Tick, Begin, End, vars, bufferVars
  <2>2. ~MadeProgress /\ elapsed > HostTimeout
    BY <2>1 DEF Decide, TimedOut
  <2>3. pc = "decide" /\ Waits /\ ~usbTxStatus1.nak
    BY <2>1 DEF Decide, WaitInv, PendingInv, Waits, IsReady
  <2>4. txPending >= pending
    BY <2>2, Lengths, TransmitAssumption DEF MadeProgress, WaitInv, TypeOK, CallType
  <2>5. Drained \/ elapsed <= age
    BY <2>3, <2>4 DEF WaitInv, AgeInv
  <2>6. age \in Nat /\ elapsed \in Nat /\ HostTimeout \in Nat
    BY TransmitAssumption DEF WaitInv, TypeOK, CallType, HistoryType
  <2>7. QED
    BY <2>2, <2>5, <2>6
<1>2. QED
  BY <1>1, WaitCorrect, PTL DEF Spec, StalledOnlyAfterTimeout

-----------------------------------------------------------------------------

LEMMA SuccessInit == Init => SuccessInv
<1> SUFFICES ASSUME Init PROVE SuccessInv
  OBVIOUS
<1>1. WaitInv
  BY WaitInit
<1>2. QED
  BY <1>1 DEF Init, SuccessInv, TransferInv, FlushInv

\* The main program: the packet goes out, and sendEmptyFrame tells whether the
\* host will wait for another one.
LEMMA TransferMain ==
    SuccessInv /\ TransferInv /\ TypeOK' /\ Main => TransferInv'
<1> SUFFICES ASSUME SuccessInv, TransferInv, HandInv, TypeOK', Main PROVE TransferInv'
  BY DEF SuccessInv, WaitInv
<1> USE DEF TransferInv
<1>0. /\ usbTxStatus1 \in [nak : BOOLEAN, token : {0, 1}, buffer : Seq(Nat)]
      /\ HandInv /\ TypeOK
  BY DEF SuccessInv, WaitInv, TypeOK, BufferType
<1>1. CASE Test
  <2>1. /\ pc = "test" /\ pc' # "mark"
        /\ UNCHANGED <<usbTxStatus1, tmp, sendEmptyFrame, op, transferOpen>>
    BY <1>1 DEF Test, hostVars
  <2>2. op = "flush" /\ result' = "ok" => usbTxStatus1.nak /\ ~sendEmptyFrame
    <3>1. op = "flush" => result = "none"
      BY <2>1 DEF SuccessInv, FlushInv
    <3>2. op = "flush" /\ result' = "ok" => ~MustWait
      BY <1>1, <3>1 DEF Test
    <3>3. QED
      BY <3>2 DEF MustWait, IsReady
  <2>3. QED
    BY <2>1, <2>2
<1>2. CASE Decide
  BY <1>2 DEF Decide, hostVars, SuccessInv, FlushInv
<1>3. CASE Poll
  <2>1. /\ usbTxStatus1'.nak = usbTxStatus1.nak /\ usbTxStatus1'.buffer = usbTxStatus1.buffer
        /\ (transferOpen' => transferOpen) /\ (sendEmptyFrame => sendEmptyFrame')
    BY <1>0, <1>3, RequestKeeps
  <2>2. pc = "poll" /\ pc' = "ready" /\ UNCHANGED <<op, result>>
    BY <1>3 DEF Poll
  <2>3. QED
    BY <2>1, <2>2
<1>4. CASE Ready
  BY <1>4 DEF Ready, AfterPoll, hostVars, bufferVars, IsReady
<1>5. CASE Copy
  <2>1. usbTxStatus1.nak /\ usbTxStatus1'.nak /\ usbTxStatus1'.buffer = tmp
    BY <1>0, <1>5 DEF Copy, HandInv
  <2>2. /\ pc = "copy" /\ pc' = "arm"
        /\ UNCHANGED <<tmp, sendEmptyFrame, expected, transferOpen, op, result>>
    BY <1>5 DEF Copy, bufferVars, hostVars
  <2>3. QED
    BY <2>1, <2>2
<1>6. CASE Arm
  <2>1. ~usbTxStatus1'.nak /\ usbTxStatus1'.buffer = usbTxStatus1.buffer
    BY <1>0, <1>6 DEF Arm
  <2>2. pc = "arm" /\ pc' = "mark" /\ UNCHANGED <<tmp, transferOpen, op, result>>
    BY <1>6 DEF Arm, bufferVars, hostVars
  <2>3. QED
    BY <2>1, <2>2
<1>7. CASE Mark
  <2>1. /\ pc = "mark" /\ pc' # "mark" /\ UNCHANGED <<usbTxStatus1, transferOpen, op, result>>
        /\ sendEmptyFrame' = (Len(tmp) = InPacketSize)
    BY <1>7 DEF Mark, AfterPoll, EndsTransfer, hostVars
  <2>2. usbTxStatus1.buffer = tmp
    BY <1>0, <2>1 DEF HandInv
  <2>3. QED
    BY <2>1, <2>2
<1>8. QED
  BY <1>1, <1>2, <1>3, <1>4, <1>5, <1>6, <1>7 DEF Main

\* What the host has lost so far it has lost for good.
LEMMA LostForGood ==
    TypeOK /\ [Next]_vars /\ failed' + dropped' = 0
        => failed = 0 /\ dropped = 0 /\ UNCHANGED <<failed, dropped>>
<1> SUFFICES ASSUME TypeOK, [Next]_vars, failed' + dropped' = 0
             PROVE  failed = 0 /\ dropped = 0 /\ UNCHANGED <<failed, dropped>>
  OBVIOUS
<1>1. failed \in Nat /\ dropped \in Nat
  BY DEF TypeOK, HostType
<1>2. \/ UNCHANGED <<failed, dropped>>
      \/ failed' = failed + 1 /\ dropped' = dropped
      \/ failed' = failed /\ dropped' = dropped + 1
  BY DEF Next, Calls, CallWrite, CallFlush, CallRefresh, Call, Main, Test, Decide, Poll, Ready,
     Copy, Arm, Mark, HostTakes, Tick, Begin, End, vars, hostVars
<1>3. QED
  BY <1>1, <1>2

LEMMA TransferStep ==
    SuccessInv /\ TypeOK' /\ failed' + dropped' = 0 /\ [Next]_vars => TransferInv'
<1> SUFFICES ASSUME SuccessInv, HandInv, TypeOK', failed' + dropped' = 0, [Next]_vars
             PROVE  TransferInv'
  BY DEF SuccessInv, WaitInv
<1>0. usbTxStatus1 \in [nak : BOOLEAN, token : {0, 1}, buffer : Seq(Nat)]
  BY DEF SuccessInv, WaitInv, TypeOK, BufferType
<1>1. failed = 0 /\ dropped = 0 /\ UNCHANGED <<failed, dropped>> /\ TransferInv
  BY LostForGood DEF SuccessInv, WaitInv
<1>2. CASE Main
  BY <1>1, <1>2, TransferMain
<1>3. CASE HostTakes
  <2>1. /\ usbTxStatus1'.nak = TRUE /\ usbTxStatus1'.buffer = usbTxStatus1.buffer
        /\ ~usbTxStatus1.nak /\ UNCHANGED <<pc, op, result, tmp, sendEmptyFrame>>
    BY <1>0, <1>3 DEF HostTakes, bufferVars, callVars
  <2>2. transferOpen' = (Len(usbTxStatus1.buffer) = InPacketSize)
    BY <1>1, <1>3 DEF HostTakes
  <2>3. ~(op = "flush" /\ result = "ok")
    BY <2>1 DEF SuccessInv, FlushInv
  <2>4. QED
    BY <1>1, <2>1, <2>2, <2>3 DEF TransferInv, HandInv
<1>4. CASE Begin
  <2>1. usbTxStatus1'.nak = TRUE /\ transferOpen' = FALSE /\ pc' = "idle"
    BY <1>0, <1>4 DEF Begin, HostRestarts, usbResetDataToggling, callVars
  <2>2. QED
    BY <2>1 DEF TransferInv
<1>5. CASE End \/ Calls \/ Tick \/ UNCHANGED vars
  <2>1. UNCHANGED <<usbTxStatus1, tmp, sendEmptyFrame>> /\ (transferOpen' => transferOpen)
    BY <1>5 DEF End, Calls, CallWrite, CallFlush, CallRefresh, Call, Tick, vars, bufferVars, hostVars
  <2>2. \/ UNCHANGED <<pc, op, result>>
        \/ pc = "idle" /\ pc' \in {"test", "poll"} /\ result' = "none"
    BY <1>5 DEF End, Calls, CallWrite, CallFlush, CallRefresh, Call, Tick, vars, callVars
  <2>3. QED
    BY <1>1, <2>1, <2>2 DEF TransferInv
<1>6. QED
  BY <1>2, <1>3, <1>4, <1>5 DEF Next

LEMMA FlushStep == SuccessInv /\ TypeOK' /\ [Next]_vars => FlushInv'
<1> SUFFICES ASSUME SuccessInv, TypeOK', [Next]_vars PROVE FlushInv'
  OBVIOUS
<1>0. FlushInv /\ usbTxStatus1 \in [nak : BOOLEAN, token : {0, 1}, buffer : Seq(Nat)]
  BY DEF SuccessInv, WaitInv, TypeOK, BufferType
<1>1. CASE Calls
  BY <1>1 DEF FlushInv, Calls, CallWrite, CallFlush, CallRefresh, Call
<1>2. CASE Test
  <2>1. pc = "test" /\ UNCHANGED <<op, usbTxStatus1, tmp>>
    BY <1>2 DEF Test
  <2>2. CASE MustWait \/ op # "flush"
    BY <1>0, <1>2, <2>1, <2>2 DEF FlushInv, Test
  <2>3. CASE ~MustWait /\ op = "flush"
    <3>1. ~(pending > 0) /\ usbTxStatus1.nak
      BY <2>3 DEF MustWait, IsReady
    <3>2. txPending <= pending /\ pending \in Nat /\ txPending \in Nat
      BY <2>1, Lengths, TransmitAssumption
         DEF SuccessInv, WaitInv, TypeOK, CallType, PendingInv, Waits
    <3>3. txPending = 0
      BY <3>1, <3>2
    <3>4. txBuf = <<>> /\ tmp = <<>>
      BY <3>3, Lengths DEF SuccessInv, WaitInv, TypeOK
    <3>5. pc' = "idle" /\ txBuf' = txBuf
      BY <1>2, <2>3 DEF Test
    <3>6. QED
      BY <2>1, <3>1, <3>4, <3>5 DEF FlushInv
  <2>4. QED
    BY <2>2, <2>3
<1>3. CASE Decide
  BY <1>0, <1>3 DEF FlushInv, Decide
<1>4. CASE Poll \/ Ready \/ Copy \/ Arm \/ Mark
  <2>1. pc # "idle" /\ UNCHANGED <<op, result>>
    BY <1>4 DEF Poll, Ready, Copy, Arm, Mark
  <2>2. QED
    BY <1>0, <2>1 DEF FlushInv
<1>5. CASE HostTakes
  <2>1. ~usbTxStatus1.nak /\ UNCHANGED <<op, result, pc>>
    BY <1>5 DEF HostTakes, callVars
  <2>2. QED
    BY <1>0, <2>1 DEF FlushInv
<1>6. CASE Begin
  <2>1. usbTxStatus1'.nak = TRUE
    BY <1>0, <1>6 DEF Begin, usbResetDataToggling
  <2>2. QED
    BY <1>0, <1>6, <2>1 DEF FlushInv, Begin, callVars
<1>7. CASE End \/ Tick \/ UNCHANGED vars
  BY <1>0, <1>7 DEF FlushInv, End, Tick, vars, bufferVars, callVars
<1>8. QED
  BY <1>1, <1>2, <1>3, <1>4, <1>5, <1>6, <1>7 DEF Next, Main

LEMMA SuccessCorrect == Spec => []SuccessInv
<1>1. SuccessInv /\ [Next]_vars => SuccessInv'
  <2> SUFFICES ASSUME SuccessInv, [Next]_vars PROVE SuccessInv'
    OBVIOUS
  <2>1. WaitInv'
    BY WaitStep DEF SuccessInv
  <2>2. TypeOK'
    BY <2>1 DEF WaitInv
  <2>3. FlushInv'
    BY <2>2, FlushStep
  <2>4. QED
    BY <2>1, <2>2, <2>3, TransferStep DEF SuccessInv
<1>2. QED
  BY SuccessInit, <1>1, PTL DEF Spec

\* FlushMeansTaken: when flush() has succeeded nothing that was written waits in
\* the device, and the host waits for nothing unless it has lost a packet, for
\* every buffer and packet size and whatever fails or starts over.
THEOREM FlushCorrect == Spec => []FlushMeansTaken
<1>1. SuccessInv => FlushMeansTaken
  <2> SUFFICES ASSUME SuccessInv, pc = "idle", op = "flush", result = "ok"
               PROVE  InTransit = <<>> /\ (transferOpen => failed + dropped > 0)
    BY DEF FlushMeansTaken
  <2>1. usbTxStatus1.nak /\ tmp = <<>> /\ txBuf = <<>>
    BY DEF SuccessInv, FlushInv
  <2>2. <<>> \o <<>> \o <<>> = <<>>
    BY EmptySeq, ConcatEmptySeq
  <2>3. InTransit = <<>>
    BY <2>1, <2>2 DEF InTransit
  <2>4. transferOpen => failed + dropped # 0
    BY DEF SuccessInv, TransferInv
  <2>5. failed \in Nat /\ dropped \in Nat
    BY DEF SuccessInv, WaitInv, TypeOK, HostType
  <2>6. QED
    BY <2>3, <2>4, <2>5
<1>2. QED
  BY <1>1, SuccessCorrect, PTL

-----------------------------------------------------------------------------

\* Only a request of the host and the host's taking a packet touch the tokens.
LEMMA DropMain ==
    ASSUME WaitInv, TypeOK', DropInv, Calls \/ Main \/ Tick \/ End \/ UNCHANGED vars
    PROVE  DropInv'
<1>0. /\ usbTxStatus1 \in [nak : BOOLEAN, token : {0, 1}, buffer : Seq(Nat)]
      /\ expected \in {0, 1} /\ {restarts, failed, dropped} \subseteq Nat
  BY DEF WaitInv, TypeOK, BufferType, HostType
<1>1. UNCHANGED <<failed, dropped>>
  BY DEF Calls, CallWrite, CallFlush, CallRefresh, Call, Main, Test, Decide, Poll, Ready, Copy,
     Arm, Mark, Tick, End, vars, hostVars
<1>2. CASE Calls \/ Test \/ Decide \/ Ready \/ Mark \/ Tick \/ End \/ UNCHANGED vars
  <2>1. UNCHANGED <<usbTxStatus1, expected, restarts>> /\ (pc' = "arm" <=> pc = "arm")
    BY <1>2 DEF Calls, CallWrite, CallFlush, CallRefresh, Call, Test, Decide, Ready, Mark, Tick,
       End, AfterPoll, vars, callVars, hostVars
  <2>2. QED
    BY <1>1, <2>1 DEF DropInv, InStep
<1>3. CASE Poll
  <2>1. pc = "poll" /\ pc' = "ready"
    BY <1>3 DEF Poll
  <2>2. CASE restarts' = restarts + 1
    BY <1>0, <1>1, <2>2 DEF DropInv
  <2>3. CASE UNCHANGED <<usbTxStatus1, expected, restarts>>
    BY <1>1, <2>1, <2>3 DEF DropInv, InStep
  <2>4. QED
    BY <1>3, <2>2, <2>3, RequestKeeps DEF WaitInv
<1>4. CASE Copy
  <2>1. /\ usbTxStatus1.nak /\ usbTxStatus1'.nak /\ usbTxStatus1'.token = 1 - usbTxStatus1.token
        /\ pc = "copy" /\ pc' = "arm" /\ UNCHANGED <<expected, restarts>>
    BY <1>0, <1>4 DEF Copy, NextToken, WaitInv, HandInv, hostVars
  <2>2. usbTxStatus1'.token = expected <=> usbTxStatus1.token # expected
    BY <1>0, <2>1
  <2>3. InStep' <=> InStep
    BY <2>1, <2>2 DEF InStep
  <2>4. QED
    BY <1>1, <2>1, <2>3 DEF DropInv
<1>5. CASE Arm
  <2>1. /\ usbTxStatus1.nak /\ ~usbTxStatus1'.nak /\ usbTxStatus1'.token = usbTxStatus1.token
        /\ pc = "arm" /\ pc' = "mark" /\ UNCHANGED <<expected, restarts>>
    BY <1>0, <1>5 DEF Arm, WaitInv, HandInv, hostVars
  <2>2. QED
    BY <1>1, <2>1 DEF DropInv, InStep
<1>6. QED
  BY <1>2, <1>3, <1>4, <1>5 DEF Main

LEMMA DropStep == WaitInv /\ TypeOK' /\ DropInv /\ [Next]_vars => DropInv'
<1> SUFFICES ASSUME WaitInv, TypeOK', DropInv, [Next]_vars PROVE DropInv'
  OBVIOUS
<1>0. /\ usbTxStatus1 \in [nak : BOOLEAN, token : {0, 1}, buffer : Seq(Nat)]
      /\ expected \in {0, 1} /\ {restarts, failed, dropped} \subseteq Nat
  BY DEF WaitInv, TypeOK, BufferType, HostType
<1>1. CASE Calls \/ Main \/ Tick \/ End \/ UNCHANGED vars
  BY <1>1, DropMain
<1>2. CASE HostTakes
  <2>1. /\ ~usbTxStatus1.nak /\ usbTxStatus1'.nak /\ usbTxStatus1'.token = usbTxStatus1.token
        /\ pc # "arm" /\ pc' = pc /\ restarts' = restarts
    BY <1>0, <1>2 DEF HostTakes, callVars, WaitInv, HandInv
  <2>2. CASE /\ usbTxStatus1.token = expected /\ expected' = 1 - expected
             /\ UNCHANGED <<failed, dropped>>
    <3>1. InStep /\ InStep'
      BY <1>0, <2>1, <2>2 DEF InStep
    <3>2. QED
      BY <2>1, <2>2, <3>1 DEF DropInv
  <2>3. CASE /\ usbTxStatus1.token # expected /\ dropped' = dropped + 1
             /\ UNCHANGED <<expected, failed>>
    <3>1. ~InStep /\ InStep'
      BY <2>1, <2>3 DEF InStep
    <3>2. QED
      BY <1>0, <2>1, <2>3, <3>1 DEF DropInv
  <2>4. CASE failed' = failed + 1 /\ dropped' = dropped
    BY <1>0, <2>1, <2>4 DEF DropInv
  <2>5. QED
    BY <1>2, <2>2, <2>3, <2>4 DEF HostTakes
<1>3. CASE Begin
  <2>1. /\ usbTxStatus1'.nak = TRUE /\ usbTxStatus1'.token = 1 /\ expected' = 0 /\ pc' = "idle"
        /\ UNCHANGED <<restarts, failed, dropped>>
    BY <1>0, <1>3 DEF Begin, HostRestarts, usbResetDataToggling, USB_INITIAL_DATATOKEN, callVars
  <2>2. InStep'
    BY <2>1 DEF InStep
  <2>3. QED
    BY <1>0, <2>1, <2>2 DEF DropInv
<1>4. QED
  BY <1>1, <1>2, <1>3 DEF Next

LEMMA DropCorrect == Spec => []DropInv
<1>1. Init => DropInv
  <2> SUFFICES ASSUME Init PROVE DropInv
    OBVIOUS
  <2>1. usbTxStatus1.nak /\ usbTxStatus1.token = 1 /\ expected = 0 /\ pc = "idle"
        /\ restarts = 0 /\ failed = 0 /\ dropped = 0
    BY DEF Init, USB_INITIAL_DATATOKEN
  <2>2. InStep
    BY <2>1 DEF InStep
  <2>3. QED
    BY <2>1, <2>2 DEF DropInv
<1>2. WaitInv => TypeOK
  BY DEF WaitInv
<1>3. QED
  BY <1>1, <1>2, DropStep, WaitCorrect, PTL DEF Spec

\* DropsBounded: each failure and each SET_CONFIGURATION or SET_INTERFACE puts
\* the tokens out of step once at most, and one dropped packet brings them back,
\* for every buffer and packet size, however these come in between.
THEOREM DropsCorrect == Spec => []DropsBounded
<1>1. WaitInv /\ DropInv => DropsBounded
  <2> SUFFICES ASSUME WaitInv, DropInv PROVE dropped <= failed + restarts
    BY DEF DropsBounded
  <2>1. {restarts, failed, dropped} \subseteq Nat
    BY DEF WaitInv, TypeOK, HostType
  <2>2. QED
    BY <2>1 DEF DropInv
<1>2. QED
  BY <1>1, WaitCorrect, DropCorrect, PTL
=============================================================================
