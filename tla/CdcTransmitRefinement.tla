----------------------- MODULE CdcTransmitRefinement -----------------------
(***************************************************************************)
(* The transmit path implements the abstract channel: whatever fails and   *)
(* whatever starts over, the host receives no byte twice and none out of   *)
(* order, and each failure loses at most two packets, each restart at most *)
(* one.  All for every buffer and packet size.                             *)
(***************************************************************************)
EXTENDS CdcTransmitProofs, StreamLemmas

-----------------------------------------------------------------------------
(* The mapping: what each action does to the bytes in transit.             *)

Offered == IF usbTxStatus1.nak THEN <<>> ELSE usbTxStatus1.buffer
Packet == IF pc = "mark" THEN <<>> ELSE tmp

LEMMA TransitType ==
    ASSUME TypeOK
    PROVE  /\ Offered \in Seq(Nat) /\ Packet \in Seq(Nat) /\ txBuf \in Seq(Nat)
           /\ Offered \o Packet \in Seq(Nat) /\ InTransit \in Seq(Nat)
           /\ InTransit = (Offered \o Packet) \o txBuf
           /\ received \in Seq(Nat) /\ received \o InTransit \in Seq(Nat)
<1>1. Offered \in Seq(Nat) /\ Packet \in Seq(Nat) /\ txBuf \in Seq(Nat) /\ received \in Seq(Nat)
  BY EmptySeq DEF TypeOK, BufferType, HostType, Offered, Packet
<1>2. InTransit = (Offered \o Packet) \o txBuf
  BY Zenon DEF InTransit, Offered, Packet
<1>3. Offered \o Packet \in Seq(Nat)
  BY <1>1, ConcatProperties
<1>4. InTransit \in Seq(Nat)
  BY <1>1, <1>2, <1>3, ConcatProperties
<1>5. QED
  BY <1>1, <1>2, <1>3, <1>4, ConcatProperties

\* The endpoint's buffer, the packet and the ring buffer together.
Fits == Len(InTransit) <= TxSize + 2 * InPacketSize

LEMMA TransitFits == TypeOK => Fits
<1> SUFFICES ASSUME TypeOK PROVE Len(InTransit) <= TxSize + 2 * InPacketSize
  BY DEF Fits
<1> DEFINE o == Len(Offered)
           p == Len(Packet)
           b == Len(txBuf)
<1>1. Len(InTransit) = (o + p) + b /\ o \in Nat /\ p \in Nat /\ b \in Nat
  BY TransitType, ConcatProperties, LenProperties
<1>2. Len(<<>>) = 0 /\ InPacketSize \in Nat /\ TxSize \in Nat /\ 0 <= InPacketSize
  BY EmptySeq, TransmitAssumption
<1>3. o <= InPacketSize /\ p <= InPacketSize /\ b <= TxSize
  BY <1>2 DEF TypeOK, BufferType, Offered, Packet
<1> HIDE DEF o, p, b
<1>4. QED
  BY <1>1, <1>2, <1>3

LEMMA TransitFitsNext == TypeOK' => Fits'
  BY TransitFits, PTL

\* usbPollWrapper() moves bytes from the ring buffer to the packet to the
\* endpoint's buffer: it loses none, and the host sees none before Arm.
LEMMA TransitKept ==
    ASSUME WaitInv, TypeOK',
           Calls \/ (Test /\ UNCHANGED txBuf) \/ Decide \/ Poll \/ Ready \/ Copy \/ Arm \/ Mark
           \/ Tick \/ UNCHANGED vars
    PROVE  UNCHANGED <<InTransit, received, session, failed, dropped>>
<1>0. TypeOK /\ usbTxStatus1 \in [nak : BOOLEAN, token : {0, 1}, buffer : Seq(Nat)]
  BY DEF WaitInv, TypeOK, BufferType
<1>1. UNCHANGED <<received, session, failed, dropped>>
  BY DEF Calls, CallWrite, CallFlush, CallRefresh, Call, Test, Decide, Poll, Ready, Copy, Arm,
     Mark, Tick, vars, hostVars, historyVars
<1>2. InTransit = (Offered \o Packet) \o txBuf /\ InTransit' = (Offered' \o Packet') \o txBuf'
  BY Zenon DEF InTransit, Offered, Packet
<1>3. CASE Calls \/ (Test /\ UNCHANGED txBuf) \/ Decide \/ Ready \/ Tick \/ UNCHANGED vars
  <2>1. UNCHANGED <<usbTxStatus1, tmp, txBuf>>
    BY <1>3 DEF Calls, CallWrite, CallFlush, CallRefresh, Call, Test, Decide, Ready, Tick, vars,
       bufferVars
  <2>2. pc' = "mark" <=> pc = "mark"
    BY <1>3 DEF Calls, CallWrite, CallFlush, CallRefresh, Call, Test, Decide, Ready, Tick, vars,
       AfterPoll, callVars
  <2>3. UNCHANGED <<Offered, Packet, txBuf>>
    BY <2>1, <2>2 DEF Offered, Packet
  <2>4. QED
    BY <1>1, <1>2, <2>3, Zenon
<1>4. CASE Poll
  <2>1. /\ Offered' = Offered /\ Packet = tmp /\ Packet' = tmp'
        /\ tmp' = tmp \o SubSeq(txBuf, 1, Refilled)
        /\ txBuf' = SubSeq(txBuf, Refilled + 1, Len(txBuf))
    <3>1. usbTxStatus1'.nak = usbTxStatus1.nak /\ usbTxStatus1'.buffer = usbTxStatus1.buffer
      BY <1>0, <1>4, RequestKeeps
    <3>2. QED
      BY <1>4, <3>1 DEF Poll, Offered, Packet
  <2>2. Refilled \in 0..Len(txBuf)
    BY <1>0, RefilledFits DEF TypeOK
  <2> DEFINE a == SubSeq(txBuf, 1, Refilled)
             b == SubSeq(txBuf, Refilled + 1, Len(txBuf))
  <2>3. a \in Seq(Nat) /\ b \in Seq(Nat)
        /\ ((Offered \o Packet) \o a) \o b = (Offered \o Packet) \o txBuf
    <3> DEFINE front == Offered \o Packet
    <3>1. front \in Seq(Nat) /\ txBuf \in Seq(Nat)
      BY <1>0, TransitType
    <3> HIDE DEF front
    <3>2. a \in Seq(Nat) /\ b \in Seq(Nat) /\ (front \o a) \o b = front \o txBuf
      BY <2>2, <3>1, MoveRun, ZenonT(60)
    <3>3. QED
      BY <3>2 DEF front
  <2> HIDE DEF a, b
  <2>4. Cat(Cat(Offered, Packet), a) = Cat(Offered, Cat(Packet, a))
    BY <1>0, <2>3, TransitType, Associative
  <2>5. Packet' = Cat(Packet, a) /\ txBuf' = b
    BY <2>1, Zenon DEF Cat, a, b
  <2>6. InTransit' = Cat(Cat(Offered, Cat(Packet, a)), b)
    BY <1>2, <2>1, <2>5, Zenon DEF Cat
  <2>7. InTransit' = InTransit
    BY <1>2, <2>3, <2>4, <2>6, Zenon DEF Cat
  <2>8. QED
    BY <1>1, <2>7
<1>5. CASE Copy
  <2>1. usbTxStatus1.nak /\ usbTxStatus1'.nak
    BY <1>0, <1>5 DEF Copy, WaitInv, HandInv
  <2>2. UNCHANGED <<Offered, Packet, txBuf>>
    BY <1>5, <2>1 DEF Copy, Offered, Packet, bufferVars
  <2>3. QED
    BY <1>1, <1>2, <2>2, Zenon
<1>6. CASE Arm
  <2>1. /\ usbTxStatus1.nak /\ usbTxStatus1.buffer = tmp
        /\ usbTxStatus1'.nak = FALSE /\ usbTxStatus1'.buffer = tmp
    BY <1>0, <1>6 DEF Arm, WaitInv, HandInv
  <2>2. /\ Offered = <<>> /\ Packet = tmp /\ txBuf' = txBuf
        /\ Offered' = tmp /\ Packet' = <<>>
    BY <1>6, <2>1 DEF Arm, Offered, Packet, bufferVars
  <2>3. <<>> \o tmp = tmp /\ tmp \o <<>> = tmp
    BY <1>0, ConcatEmptySeq DEF TypeOK, BufferType
  <2>4. QED
    BY <1>1, <1>2, <2>2, <2>3, Zenon
<1>7. CASE Mark
  <2>1. UNCHANGED <<Offered, txBuf>> /\ Packet = <<>> /\ Packet' = <<>>
    BY <1>7 DEF Mark, Offered, Packet, IndexReset
  <2>2. QED
    BY <1>1, <1>2, <2>1, Zenon
<1>8. QED
  BY <1>3, <1>4, <1>5, <1>6, <1>7

\* write() adds its byte behind all others.
LEMMA TransitWritten ==
    ASSUME TypeOK, Test, ~UNCHANGED txBuf
    PROVE  /\ InTransit' = InTransit \o <<written + 1>> /\ written' = written + 1
           /\ UNCHANGED <<received, session, failed, dropped>>
<1>1. /\ txBuf' = Append(txBuf, written + 1) /\ written' = written + 1 /\ pc = "test"
      /\ pc' # "mark" /\ UNCHANGED <<usbTxStatus1, tmp, received, session, failed, dropped>>
  BY DEF Test, hostVars
<1>2. txBuf \in Seq(Nat) /\ written + 1 \in Nat /\ Offered \o Packet \in Seq(Nat)
  BY TransitType DEF TypeOK, HistoryType
<1>3. <<written + 1>> \in Seq(Nat) /\ Append(txBuf, written + 1) = txBuf \o <<written + 1>>
  BY <1>2, AppendIsConcat
<1>4. Offered' = Offered /\ Packet' = Packet
  BY <1>1 DEF Offered, Packet
<1>5. InTransit = (Offered \o Packet) \o txBuf /\ InTransit' = (Offered' \o Packet') \o txBuf'
  BY Zenon DEF InTransit, Offered, Packet
<1> DEFINE front == Offered \o Packet
           last == <<written + 1>>
<1>6. front \in Seq(Nat) /\ last \in Seq(Nat) /\ txBuf' = Cat(txBuf, last)
  BY <1>1, <1>2, <1>3, Zenon DEF Cat
<1>7. InTransit = Cat(front, txBuf) /\ InTransit' = Cat(front, txBuf')
  BY <1>4, <1>5, Zenon DEF Cat
<1> HIDE DEF front, last
<1>8. Cat(Cat(front, txBuf), last) = Cat(front, Cat(txBuf, last))
  BY <1>2, <1>6, Associative
<1>9. InTransit' = InTransit \o last
  BY <1>6, <1>7, <1>8, Zenon DEF Cat
<1>10. QED
  BY <1>1, <1>9 DEF last

\* The interrupt takes the packet on offer away, whether the host gets it or not.
LEMMA TransitTaken ==
    ASSUME WaitInv, HostTakes
    PROVE  /\ InTransit = usbTxStatus1.buffer \o (Packet \o txBuf)
           /\ InTransit' = Packet \o txBuf
           /\ \/ received' = received \o usbTxStatus1.buffer /\ UNCHANGED <<failed, dropped>>
              \/ received' = received /\ failed' + dropped' = failed + dropped + 1
           /\ UNCHANGED <<session, written>>
<1>0. /\ usbTxStatus1 \in [nak : BOOLEAN, token : {0, 1}, buffer : Seq(Nat)]
      /\ Packet \in Seq(Nat) /\ txBuf \in Seq(Nat) /\ {failed, dropped} \subseteq Nat
  BY TransitType DEF WaitInv, TypeOK, BufferType, HostType
<1>1. /\ ~usbTxStatus1.nak /\ usbTxStatus1'.nak = TRUE
      /\ UNCHANGED <<pc, tmp, txBuf, session, written>>
      /\ \/ received' = received \o usbTxStatus1.buffer /\ UNCHANGED <<failed, dropped>>
         \/ received' = received /\ failed' + dropped' = failed + dropped + 1
  BY <1>0 DEF HostTakes, bufferVars, callVars, historyVars
<1>2. /\ InTransit = (usbTxStatus1.buffer \o Packet) \o txBuf
      /\ InTransit' = (<<>> \o Packet) \o txBuf
  BY <1>1, Zenon DEF InTransit, Packet
<1>3. <<>> \o Packet = Packet
  BY <1>0, ConcatEmptySeq
<1> DEFINE buffer == usbTxStatus1.buffer
<1>4. buffer \in Seq(Nat)
  BY <1>0
<1> HIDE DEF buffer
<1>5. Cat(Cat(buffer, Packet), txBuf) = Cat(buffer, Cat(Packet, txBuf))
  BY <1>0, <1>4, Associative
<1>6. (buffer \o Packet) \o txBuf = buffer \o (Packet \o txBuf)
  BY <1>5, Zenon DEF Cat
<1>7. QED
  BY <1>1, <1>2, <1>3, <1>6, Zenon DEF buffer

\* begin() drops what is on offer and what is in the ring buffer, but not the
\* packet; end() drops nothing.
LEMMA TransitSession ==
    ASSUME WaitInv, Begin \/ End
    PROVE  /\ UNCHANGED <<received, written, failed, dropped>> /\ session' = session + 1
           /\ InTransit' = InTransit \/ InTransit' = Packet
<1>0. /\ usbTxStatus1 \in [nak : BOOLEAN, token : {0, 1}, buffer : Seq(Nat)]
      /\ Packet \in Seq(Nat)
  BY TransitType DEF WaitInv, TypeOK, BufferType
<1>1. /\ UNCHANGED <<received, written, failed, dropped, pc, tmp>>
      /\ session' = session + 1 /\ pc = "idle"
  BY DEF Begin, End, callVars, bufferVars
<1>2. InTransit = (Offered \o Packet) \o txBuf /\ InTransit' = (Offered' \o Packet') \o txBuf'
  BY Zenon DEF InTransit, Offered, Packet
<1>3. Packet' = Packet
  BY <1>1 DEF Packet
<1>4. CASE Begin
  <2>1. usbTxStatus1'.nak = TRUE /\ txBuf' = <<>>
    BY <1>0, <1>4 DEF Begin, usbResetDataToggling
  <2>2. Offered' = <<>>
    BY <2>1 DEF Offered
  <2>3. <<>> \o Packet = Packet /\ Packet \o <<>> = Packet
    BY <1>0, ConcatEmptySeq
  <2>4. QED
    BY <1>1, <1>2, <1>3, <2>1, <2>2, <2>3, Zenon
<1>5. CASE End
  <2>1. UNCHANGED <<Offered, txBuf>>
    BY <1>5 DEF End, Offered, bufferVars
  <2>2. QED
    BY <1>1, <1>2, <1>3, <2>1, Zenon
<1>6. QED
  BY <1>4, <1>5

-----------------------------------------------------------------------------
(* The channel.                                                            *)

\* The host takes the packet on offer, or the packet is lost.
LEMMA ChannelTaken ==
    ASSUME WaitInv, HostTakes
    PROVE  [Channel!Next]_(Channel!vars)
<1> DEFINE buffer == usbTxStatus1.buffer
           rest == Packet \o txBuf
<1>0. TypeOK /\ {session, failed, dropped} \subseteq Nat
  BY DEF WaitInv, TypeOK, HostType, HistoryType
<1>1. /\ InTransit = buffer \o rest /\ InTransit' = rest /\ session' = session
      /\ \/ received' = received \o buffer /\ UNCHANGED <<failed, dropped>>
         \/ received' = received /\ failed' + dropped' = failed + dropped + 1
  BY TransitTaken
<1>2. buffer \in Seq(Nat) /\ rest \in Seq(Nat) /\ received \in Seq(Nat)
  BY <1>0, TransitType, ConcatProperties DEF TypeOK, BufferType
<1> HIDE DEF buffer, rest
<1>3. Len(InTransit) = Len(buffer) + Len(rest) /\ Len(buffer) \in Nat /\ Len(rest) \in Nat
  BY <1>1, <1>2, ConcatProperties, LenProperties
<1>4. CASE received' = received \o buffer /\ UNCHANGED <<failed, dropped>>
  <2>1. received' \o InTransit' = received \o InTransit
    <3>1. Cat(Cat(received, buffer), rest) = Cat(received, Cat(buffer, rest))
      BY <1>2, Associative
    <3>2. QED
      BY <1>1, <1>4, <3>1, Zenon DEF Cat
  <2>2. CASE buffer = <<>>
    BY <1>1, <1>2, <1>4, <2>2, ConcatEmptySeq, Zenon DEF Channel!vars
  <2>3. CASE buffer # <<>>
    <3>1. Len(buffer) # 0
      BY <1>2, <2>3, EmptySeq
    <3>2. Len(InTransit') < Len(InTransit)
      BY <1>1, <1>3, <3>1
    <3>3. QED
      BY <1>1, <1>4, <2>1, <3>2 DEF Channel!Next, Channel!Deliver
  <2>4. QED
    BY <2>2, <2>3
<1>5. CASE received' = received /\ failed' + dropped' = failed + dropped + 1
  <2>1. SubSeq(InTransit, Len(buffer) + 1, Len(InTransit)) = InTransit'
    BY <1>1, <1>2, SuffixOfConcat
  <2>2. Len(buffer) \in 0..Len(InTransit) /\ Len(InTransit) \in 0..Len(InTransit)
    BY <1>3
  <2>3. session' + failed' + dropped' = session + failed + dropped + 1
    <3>1. {failed', dropped'} \subseteq Nat
      BY <1>0 DEF HostTakes
    <3>2. session' = session
      BY <1>1
    <3>3. QED
      BY <1>0, <1>5, <3>1, <3>2
  <2>4. Channel!Break
    BY <1>5, <2>1, <2>2, <2>3 DEF Channel!Break
  <2>5. QED
    BY <2>4 DEF Channel!Next
<1>6. QED
  BY <1>1, <1>4, <1>5

LEMMA ChannelWritten ==
    ASSUME TypeOK, TypeOK', Test, ~UNCHANGED txBuf
    PROVE  Channel!Accept
<1> DEFINE last == <<written + 1>>
<1>1. InTransit' = InTransit \o last /\ UNCHANGED <<received, session, failed, dropped>>
  BY TransitWritten
<1>2. InTransit \in Seq(Nat) /\ last \in Seq(Nat) /\ Len(last) = 1
  BY TransitType DEF TypeOK, HistoryType
<1> HIDE DEF last
<1>3. Len(InTransit') = Len(InTransit) + 1 /\ Len(InTransit) \in Nat
  <2>1. Len(InTransit \o last) = Len(InTransit) + Len(last)
    BY <1>2, ConcatProperties
  <2>2. Len(InTransit) \in Nat
    BY <1>2, LenProperties
  <2>3. QED
    BY <1>1, <1>2, <2>1, <2>2
<1>4. SubSeq(InTransit', 1, Len(InTransit)) = InTransit
  BY <1>1, <1>2, PrefixOfConcat
<1>5. Len(InTransit') <= TxSize + 2 * InPacketSize
  BY TransitFitsNext DEF Fits
<1>6. Len(InTransit) < Len(InTransit')
  BY <1>3
<1>7. QED
  BY <1>1, <1>4, <1>5, <1>6 DEF Channel!Accept

LEMMA ChannelSession ==
    ASSUME WaitInv, Begin \/ End
    PROVE  Channel!Break
<1>1. TypeOK /\ {session, failed, dropped} \subseteq Nat
  BY DEF WaitInv, TypeOK, HostType, HistoryType
<1>2. /\ UNCHANGED received /\ session' + failed' + dropped' = session + failed + dropped + 1
      /\ InTransit' = InTransit \/ InTransit' = Packet
  BY <1>1, TransitSession
<1>3. Len(InTransit) \in Nat /\ InTransit \in Seq(Nat)
  BY <1>1, TransitType, LenProperties
<1>4. CASE InTransit' = InTransit
  <2>1. SubSeq(InTransit, 0 + 1, Len(InTransit)) = InTransit
    BY <1>3, SubSeqFull
  <2>2. 0 \in 0..Len(InTransit) /\ Len(InTransit) \in 0..Len(InTransit)
    BY <1>3
  <2>3. QED
    BY <1>2, <1>4, <2>1, <2>2 DEF Channel!Break
<1>5. CASE InTransit' = Packet
  <2> DEFINE front == Offered \o Packet
  <2>1. SubSeq(InTransit, Len(Offered) + 1, Len(front)) = Packet
    BY <1>1, TransitType, MiddleOfConcat
  <2>2. /\ Len(InTransit) = Len(front) + Len(txBuf) /\ Len(front) = Len(Offered) + Len(Packet)
        /\ Len(Offered) \in Nat /\ Len(Packet) \in Nat /\ Len(txBuf) \in Nat
    BY <1>1, TransitType, ConcatProperties, LenProperties
  <2> HIDE DEF front
  <2>3. Len(Offered) \in 0..Len(InTransit) /\ Len(front) \in 0..Len(InTransit)
    BY <2>2
  <2>4. QED
    BY <1>2, <1>5, <2>1, <2>3 DEF Channel!Break
<1>6. QED
  BY <1>2, <1>4, <1>5

\* The bytes write() accepted reach the host in their order, each once, for every
\* buffer and packet size, whatever requests the host makes; only begin(), a
\* transaction that fails and a packet the host takes for a repetition drop bytes.
THEOREM ChannelCorrect == Spec => ImplementsChannel
<1>1. Init => Channel!Init
  <2> SUFFICES ASSUME Init PROVE Channel!Init
    OBVIOUS
  <2>1. <<>> \o <<>> \o <<>> = <<>>
    BY EmptySeq, ConcatEmptySeq
  <2>2. QED
    BY <2>1 DEF Init, Channel!Init, InTransit
<1>2. WaitInv /\ WaitInv' /\ [Next]_vars => [Channel!Next]_(Channel!vars)
  <2> SUFFICES ASSUME WaitInv, WaitInv', [Next]_vars PROVE [Channel!Next]_(Channel!vars)
    OBVIOUS
  <2>1. TypeOK /\ TypeOK'
    BY DEF WaitInv
  <2>2. CASE Test /\ ~UNCHANGED txBuf
    BY <2>1, <2>2, ChannelWritten DEF Channel!Next
  <2>3. CASE HostTakes
    BY <2>3, ChannelTaken
  <2>4. CASE Begin \/ End
    BY <2>4, ChannelSession DEF Channel!Next
  <2>5. CASE Calls \/ (Test /\ UNCHANGED txBuf) \/ Decide \/ Poll \/ Ready \/ Copy \/ Arm \/ Mark
             \/ Tick \/ UNCHANGED vars
    <3>1. UNCHANGED <<InTransit, received, session, failed, dropped>>
      BY <2>1, <2>5, TransitKept
    <3>2. QED
      BY <3>1 DEF Channel!vars
  <2>6. QED
    BY <2>2, <2>3, <2>4, <2>5 DEF Next, Main
<1>3. QED
  BY <1>1, <1>2, WaitCorrect, PTL DEF Spec, ImplementsChannel, Channel!Spec

-----------------------------------------------------------------------------
(* The order, with failures.                                               *)

OrderInv == Ascends(received \o InTransit, written)

LEMMA OrderStep == WaitInv /\ TypeOK' /\ OrderInv /\ [Next]_vars => OrderInv'
<1> SUFFICES ASSUME WaitInv, TypeOK', OrderInv, [Next]_vars PROVE OrderInv'
  OBVIOUS
<1>0. TypeOK /\ written \in Nat /\ received \in Seq(Nat) /\ InTransit \in Seq(Nat)
      /\ received \o InTransit \in Seq(Nat)
  BY TransitType DEF WaitInv, TypeOK, HistoryType
<1>1. CASE Test /\ ~UNCHANGED txBuf
  <2> DEFINE last == <<written + 1>>
  <2>1. InTransit' = InTransit \o last /\ received' = received /\ written' = written + 1
    BY <1>0, <1>1, TransitWritten
  <2>2. last \in Seq(Nat) /\ Len(last) = 1 /\ \A i \in 1..Len(last) : last[i] = written + i
    BY <1>0
  <2> HIDE DEF last
  <2>3. Cat(Cat(received, InTransit), last) = Cat(received, Cat(InTransit, last))
    BY <1>0, <2>2, Associative
  <2>4. Ascends((received \o InTransit) \o last, written + Len(last))
    BY <1>0, <2>2, AscendsConcat DEF OrderInv
  <2>5. (received \o InTransit) \o last = received' \o InTransit'
    BY <2>1, <2>3, Zenon DEF Cat
  <2>6. written + Len(last) = written'
    BY <2>1, <2>2
  <2>7. QED
    BY <2>4, <2>5, <2>6, Zenon DEF OrderInv
<1>2. CASE HostTakes
  <2> DEFINE buffer == usbTxStatus1.buffer
             rest == Packet \o txBuf
  <2>1. /\ InTransit = buffer \o rest /\ InTransit' = rest /\ written' = written
        /\ received' = received \o buffer \/ received' = received
    BY <1>2, TransitTaken
  <2>2. buffer \in Seq(Nat) /\ rest \in Seq(Nat)
    BY <1>0, TransitType, ConcatProperties DEF TypeOK, BufferType
  <2> HIDE DEF buffer, rest
  <2>3. Cat(Cat(received, buffer), rest) = Cat(received, Cat(buffer, rest))
    BY <1>0, <2>2, Associative
  <2>4. Ascends((received \o buffer) \o rest, written)
    BY <2>1, <2>3, Zenon DEF Cat, OrderInv
  <2>5. Ascends(received \o rest, written)
    BY <1>0, <2>2, <2>4, AscendsDrop
  <2>6. QED
    BY <2>1, <2>4, <2>5, Zenon DEF OrderInv
<1>3. CASE Begin \/ End
  <2>1. /\ UNCHANGED <<received, written>>
        /\ InTransit' = InTransit \/ InTransit' = Packet
    BY <1>3, TransitSession
  <2>2. /\ Offered \in Seq(Nat) /\ Packet \in Seq(Nat) /\ txBuf \in Seq(Nat)
        /\ InTransit = (Offered \o Packet) \o txBuf
    BY <1>0, TransitType
  <2>3. /\ Cat(Cat(Offered, Packet), txBuf) = Cat(Offered, Cat(Packet, txBuf))
        /\ Cat(Packet, txBuf) \in Seq(Nat)
    <3>1. Cat(Cat(Offered, Packet), txBuf) = Cat(Offered, Cat(Packet, txBuf))
      BY <2>2, Associative
    <3>2. Cat(Packet, txBuf) \in Seq(Nat)
      BY <2>2, ConcatProperties DEF Cat
    <3>3. QED
      BY <3>1, <3>2
  <2>4. Cat(Cat(received, Offered), Cat(Packet, txBuf)) = Cat(received, Cat(Offered, Cat(Packet, txBuf)))
    <3> DEFINE rest == Cat(Packet, txBuf)
    <3>1. rest \in Seq(Nat)
      BY <2>3
    <3> HIDE DEF rest
    <3>2. Cat(Cat(received, Offered), rest) = Cat(received, Cat(Offered, rest))
      BY <1>0, <2>2, <3>1, Associative
    <3>3. QED
      BY <3>2 DEF rest
  <2>5. Ascends((received \o Offered) \o Cat(Packet, txBuf), written)
    BY <2>2, <2>3, <2>4, Zenon DEF Cat, OrderInv
  <2>6. Ascends(received \o Cat(Packet, txBuf), written)
    BY <1>0, <2>2, <2>3, <2>5, AscendsDrop
  <2>7. Cat(Cat(received, Packet), txBuf) = Cat(received, Cat(Packet, txBuf))
    BY <1>0, <2>2, Associative
  <2>8. received \o Packet \in Seq(Nat) /\ <<>> \in Seq(Nat)
        /\ (received \o Packet) \o <<>> = received \o Packet
        /\ ((received \o Packet) \o txBuf) \o <<>> = (received \o Packet) \o txBuf
    <3>1. received \o Packet \in Seq(Nat)
      BY <1>0, <2>2, ConcatProperties
    <3>2. (received \o Packet) \o txBuf \in Seq(Nat)
      BY <2>2, <3>1, ConcatProperties
    <3>3. QED
      BY <3>1, <3>2, EmptySeq, ConcatEmptySeq
  <2>9. Ascends(((received \o Packet) \o txBuf) \o <<>>, written)
    BY <2>6, <2>7, <2>8, Zenon DEF Cat
  <2>10. Ascends((received \o Packet) \o <<>>, written)
    BY <1>0, <2>2, <2>8, <2>9, AscendsDrop
  <2>11. Ascends(received \o Packet, written)
    BY <2>8, <2>10, Zenon
  <2>12. QED
    BY <2>1, <2>11, Zenon DEF OrderInv
<1>4. CASE Calls \/ (Test /\ UNCHANGED txBuf) \/ Decide \/ Poll \/ Ready \/ Copy \/ Arm \/ Mark
           \/ Tick \/ UNCHANGED vars
  <2>1. UNCHANGED <<InTransit, received>>
    BY <1>4, TransitKept
  <2>2. written' = written
    BY <1>4 DEF Calls, CallWrite, CallFlush, CallRefresh, Call, Test, Decide, Poll, Ready, Copy,
       Arm, Mark, Tick, vars, historyVars
  <2>3. QED
    BY <2>1, <2>2, Zenon DEF OrderInv
<1>5. QED
  BY <1>1, <1>2, <1>3, <1>4 DEF Next, Main

\* ReceivedOnceInOrder: however many transactions fail, the host receives no
\* byte twice and none out of order, for every buffer and packet size.
THEOREM OnceInOrderCorrect == Spec => []ReceivedOnceInOrder
<1>1. Init => OrderInv
  <2> SUFFICES ASSUME Init PROVE OrderInv
    OBVIOUS
  <2>1. received \o InTransit = <<>> /\ Len(<<>>) = 0
    BY EmptySeq, ConcatEmptySeq DEF Init, InTransit
  <2>2. QED
    BY <2>1 DEF OrderInv, Ascends
<1>2. WaitInv => TypeOK
  BY DEF WaitInv
<1>3. WaitInv /\ OrderInv => ReceivedOnceInOrder
  <2> SUFFICES ASSUME WaitInv, OrderInv, NEW i \in 1..(Len(received) - 1)
               PROVE  received[i] < received[i + 1]
    BY DEF ReceivedOnceInOrder
  <2> DEFINE whole == received \o InTransit
  <2>1. received \in Seq(Nat) /\ InTransit \in Seq(Nat)
    BY TransitType DEF WaitInv
  <2>2. /\ Len(whole) = Len(received) + Len(InTransit)
        /\ Len(received) \in Nat /\ Len(InTransit) \in Nat
        /\ \A j \in 1..(Len(received) + Len(InTransit)) :
               whole[j] = IF j <= Len(received) THEN received[j] ELSE InTransit[j - Len(received)]
    BY <2>1, ConcatProperties, LenProperties
  <2>3. \A j, k \in 1..Len(whole) : j < k => whole[j] < whole[k]
    BY DEF OrderInv, Ascends
  <2> HIDE DEF whole
  <2>4. /\ i \in 1..Len(whole) /\ i + 1 \in 1..Len(whole) /\ i < i + 1
        /\ whole[i] = received[i] /\ whole[i + 1] = received[i + 1]
    BY <2>2
  <2>5. QED
    BY <2>3, <2>4
<1>4. QED
  BY <1>1, <1>2, <1>3, OrderStep, WaitCorrect, PTL DEF Spec

-----------------------------------------------------------------------------
(* The loss, with failures.                                                *)

LossType ==
    /\ Lost = (1..written) \ Elements(received \o InTransit)
    /\ IsFiniteSet(Lost) /\ Cardinality(Lost) \in Nat

LEMMA LossTyped == TypeOK => LossType
<1> SUFFICES ASSUME TypeOK PROVE LossType
  OBVIOUS
<1>1. Lost = (1..written) \ Elements(received \o InTransit)
  BY DEF Lost, Elements
<1>2. written \in Nat
  BY DEF TypeOK, HistoryType
<1>3. IsFiniteSet(1..written)
  BY <1>2, FS_Interval
<1>4. IsFiniteSet(Lost)
  BY <1>1, <1>3, FS_Difference
<1>5. QED
  BY <1>1, <1>4, FS_CardinalityType DEF LossType

LEMMA LossTypedNext == TypeOK' => LossType'
  BY LossTyped, PTL

\* What write() accepts is in transit, and not lost.
LEMMA LostWritten ==
    ASSUME TypeOK, TypeOK', Test, ~UNCHANGED txBuf
    PROVE  Lost' = Lost
<1> DEFINE last == <<written + 1>>
           stream == received \o InTransit
<1>1. InTransit' = InTransit \o last /\ received' = received /\ written' = written + 1
  BY TransitWritten
<1>2. /\ written \in Nat /\ last \in Seq(Nat) /\ stream \in Seq(Nat)
      /\ received \in Seq(Nat) /\ InTransit \in Seq(Nat)
  BY TransitType DEF TypeOK, HistoryType
<1>3. Elements(last) = {written + 1}
  BY DEF Elements
<1> HIDE DEF last
<1>4. received \o (InTransit \o last) = stream \o last
  <2>1. Cat(Cat(received, InTransit), last) = Cat(received, Cat(InTransit, last))
    BY <1>2, Associative
  <2>2. QED
    BY <2>1, Zenon DEF Cat
<1>5. Elements(received' \o InTransit') = Elements(stream) \cup {written + 1}
  <2> HIDE DEF stream
  <2>1. Elements(stream \o last) = Elements(stream) \cup Elements(last)
    BY <1>2, ElementsOfConcat
  <2>2. QED
    BY <1>1, <1>3, <1>4, <2>1, Zenon
<1> DEFINE e == Elements(stream)
<1>6. Lost = (1..written) \ e /\ Lost' = (1..(written + 1)) \ (e \cup {written + 1})
  BY <1>1, <1>5, LossTyped, LossTypedNext, Zenon DEF LossType
<1> HIDE DEF e
<1>7. (1..(written + 1)) \ (e \cup {written + 1}) = (1..written) \ e
  BY <1>2
<1>8. QED
  BY <1>6, <1>7, Zenon

\* What the host is given arrives; otherwise its packet is lost, and no more.
LEMMA LostTaken ==
    ASSUME WaitInv, TypeOK', HostTakes
    PROVE  /\ received' = received \o usbTxStatus1.buffer => Lost' = Lost
           /\ Cardinality(Lost') <= Cardinality(Lost) + InPacketSize
<1> DEFINE buffer == usbTxStatus1.buffer
           rest == Packet \o txBuf
<1>0. TypeOK
  BY DEF WaitInv
<1>1. /\ InTransit = buffer \o rest /\ InTransit' = rest /\ written' = written
      /\ received' = received \o buffer \/ received' = received
  BY TransitTaken
<1>2. buffer \in Seq(Nat) /\ rest \in Seq(Nat) /\ received \in Seq(Nat) /\ Len(buffer) <= InPacketSize
  BY <1>0, TransitType, ConcatProperties DEF TypeOK, BufferType
<1> HIDE DEF buffer, rest
<1>3. /\ Lost = (1..written) \ Elements(received \o InTransit)
      /\ Lost' = (1..written) \ Elements(received' \o InTransit')
      /\ IsFiniteSet(Lost) /\ IsFiniteSet(Lost')
  BY <1>0, <1>1, LossTyped, LossTypedNext, Zenon DEF LossType
<1>4. ASSUME received' = received \o buffer PROVE Lost' = Lost
  <2>1. Cat(Cat(received, buffer), rest) = Cat(received, Cat(buffer, rest))
    BY <1>2, Associative
  <2>2. received' \o InTransit' = received \o InTransit
    BY <1>1, <1>4, <2>1, Zenon DEF Cat
  <2>3. QED
    BY <1>3, <2>2, Zenon
<1>5. ASSUME received' = received PROVE Lost' \subseteq Lost \cup Elements(buffer)
  <2>1. Elements(received \o InTransit) = Elements(received) \cup (Elements(buffer) \cup Elements(rest))
    <3>1. Elements(buffer \o rest) = Elements(buffer) \cup Elements(rest) /\ InTransit \in Seq(Nat)
      BY <1>0, <1>2, ElementsOfConcat, TransitType
    <3>2. Elements(received \o InTransit) = Elements(received) \cup Elements(InTransit)
      BY <1>2, <3>1, ElementsOfConcat
    <3>3. QED
      BY <1>1, <3>1, <3>2, Zenon
  <2>2. Elements(received' \o InTransit') = Elements(received) \cup Elements(rest)
    <3>1. Elements(received \o rest) = Elements(received) \cup Elements(rest)
      BY <1>2, ElementsOfConcat
    <3>2. QED
      BY <1>1, <1>5, <3>1, Zenon
  <2>3. QED
    BY <1>3, <2>1, <2>2, Zenon
<1>6. Lost' \subseteq Lost \cup Elements(buffer)
  BY <1>1, <1>4, <1>5, Zenon
<1>7. Cardinality(Lost') <= Cardinality(Lost) + InPacketSize
  <2> DEFINE lost == Lost
             next == Lost'
             sent == Elements(buffer)
  <2>1. /\ IsFiniteSet(lost) /\ IsFiniteSet(next) /\ IsFiniteSet(sent) /\ next \subseteq lost \cup sent
        /\ Cardinality(sent) <= Len(buffer) /\ Len(buffer) \in Nat
    BY <1>2, <1>3, <1>6, ElementsCount, LenProperties
  <2> HIDE DEF lost, next, sent
  <2>2. /\ IsFiniteSet(lost \cup sent)
        /\ Cardinality(lost \cup sent) = Cardinality(lost) + Cardinality(sent) - Cardinality(lost \cap sent)
    BY <2>1, FS_Union
  <2>3. Cardinality(next) <= Cardinality(lost \cup sent)
    BY <2>1, <2>2, FS_Subset
  <2>4. IsFiniteSet(lost \cap sent)
    BY <2>1, FS_Intersection
  <2>5. /\ Cardinality(lost) \in Nat /\ Cardinality(next) \in Nat /\ Cardinality(sent) \in Nat
        /\ Cardinality(lost \cap sent) \in Nat
    BY <2>1, <2>4, FS_CardinalityType
  <2>6. InPacketSize \in Nat
    BY TransmitAssumption
  <2>7. Cardinality(next) <= Cardinality(lost) + InPacketSize
    BY <1>2, <2>1, <2>2, <2>3, <2>5, <2>6
  <2>8. QED
    BY <2>7 DEF lost, next
<1>8. QED
  BY <1>4, <1>7 DEF buffer

\* Each packet the host does not get loses at most what one packet holds.
LossInv == session = 0 => Cardinality(Lost) <= InPacketSize * (failed + dropped)

LEMMA LossStep == WaitInv /\ TypeOK' /\ LossInv /\ [Next]_vars => LossInv'
<1> SUFFICES ASSUME WaitInv, TypeOK', LossInv, [Next]_vars, session' = 0
             PROVE  Cardinality(Lost)' <= InPacketSize * (failed' + dropped')
  BY DEF LossInv
<1> DEFINE c == Cardinality(Lost)
           d == Cardinality(Lost')
           n == failed + dropped
<1>0. /\ TypeOK /\ session \in Nat /\ n \in Nat /\ InPacketSize \in Nat /\ c \in Nat /\ d \in Nat
  <2>1. c \in Nat /\ d \in Nat
    BY LossTyped, LossTypedNext DEF LossType, WaitInv
  <2>2. TypeOK /\ session \in Nat /\ failed \in Nat /\ dropped \in Nat /\ InPacketSize \in Nat
    BY TransmitAssumption DEF WaitInv, TypeOK, HistoryType, HostType
  <2>3. QED
    BY <2>1, <2>2
<1>1. CASE Calls \/ Main \/ Tick \/ UNCHANGED vars
  <2>1. UNCHANGED <<session, failed, dropped>>
    BY <1>1 DEF Calls, CallWrite, CallFlush, CallRefresh, Call, Main, Test, Decide, Poll, Ready, Copy,
       Arm, Mark, Tick, vars, hostVars, historyVars
  <2>2. Lost' = Lost
    <3>1. CASE Test /\ ~UNCHANGED txBuf
      BY <1>0, <3>1, LostWritten
    <3>2. CASE ~(Test /\ ~UNCHANGED txBuf)
      <4>1. UNCHANGED <<InTransit, received>>
        BY <1>1, <3>2, TransitKept DEF Main
      <4>2. written' = written
        BY <1>1, <3>2 DEF Calls, CallWrite, CallFlush, CallRefresh, Call, Main, Test, Decide, Poll,
           Ready, Copy, Arm, Mark, Tick, vars, historyVars
      <4>3. QED
        BY <1>0, <4>1, <4>2, LossTyped, LossTypedNext, Zenon DEF LossType
    <3>3. QED
      BY <3>1, <3>2
  <2>3. QED
    BY <2>1, <2>2 DEF LossInv
<1>2. CASE HostTakes
  <2>1. /\ session' = session
        /\ \/ received' = received \o usbTxStatus1.buffer /\ UNCHANGED <<failed, dropped>>
           \/ failed' + dropped' = n + 1
    BY <1>2, TransitTaken
  <2>2. c <= InPacketSize * n
    BY <2>1 DEF LossInv
  <2>3. CASE received' = received \o usbTxStatus1.buffer /\ UNCHANGED <<failed, dropped>>
    <3>1. Lost' = Lost
      BY <1>2, <2>3, LostTaken
    <3>2. QED
      BY <2>2, <2>3, <3>1
  <2>4. CASE failed' + dropped' = n + 1
    <3>1. d <= c + InPacketSize
      BY <1>2, LostTaken
    <3> HIDE DEF c, d, n
    <3>2. InPacketSize * (n + 1) = InPacketSize * n + InPacketSize /\ InPacketSize * n \in Nat
      BY <1>0
    <3> DEFINE bound == InPacketSize * n
    <3> HIDE DEF bound
    <3>3. bound \in Nat /\ c <= bound
      BY <2>2, <3>2 DEF bound
    <3>4. d <= bound + InPacketSize
      BY <1>0, <3>1, <3>3
    <3>5. QED
      BY <2>4, <3>2, <3>4 DEF bound, d
  <2>5. QED
    BY <2>1, <2>3, <2>4
<1>3. CASE Begin \/ End
  BY <1>0, <1>3, TransitSession
<1>4. QED
  BY <1>1, <1>2, <1>3 DEF Next

\* LossBounded: a transaction that fails costs at most its own packet and one the
\* host then takes for a repetition, SET_CONFIGURATION and SET_INTERFACE at most
\* such a one, for every buffer and packet size and any number of them.
THEOREM LossCorrect == Spec => []LossBounded
<1>1. Init => LossInv
  <2> SUFFICES ASSUME Init PROVE LossInv
    OBVIOUS
  <2>1. written = 0 /\ failed = 0 /\ dropped = 0
    BY DEF Init
  <2>2. Lost = {}
    BY <2>1 DEF Lost
  <2>3. InPacketSize * (0 + 0) = 0
    BY TransmitAssumption
  <2>4. QED
    BY <2>1, <2>2, <2>3, FS_EmptySet DEF LossInv
<1>2. WaitInv => TypeOK
  BY DEF WaitInv
<1>3. WaitInv /\ LossInv /\ DropsBounded => LossBounded
  <2> SUFFICES ASSUME WaitInv, LossInv, DropsBounded, session = 0
               PROVE  Cardinality(Lost) <= InPacketSize * (2 * failed + restarts)
    BY DEF LossBounded
  <2> DEFINE lost == Cardinality(Lost)
             m == failed + dropped
             n == 2 * failed + restarts
  <2>1. lost \in Nat /\ failed \in Nat /\ dropped \in Nat /\ restarts \in Nat /\ InPacketSize \in Nat
    <3>1. lost \in Nat
      BY <1>2, LossTyped DEF LossType
    <3>2. QED
      BY <1>2, <3>1, TransmitAssumption DEF TypeOK, HostType
  <2>2. m \in Nat /\ n \in Nat /\ m <= n
    BY <2>1 DEF DropsBounded
  <2>3. lost <= InPacketSize * m
    BY DEF LossInv
  <2> HIDE DEF lost, m, n
  <2>4. InPacketSize * n = InPacketSize * m + InPacketSize * (n - m)
    BY <2>1, <2>2
  <2>5. InPacketSize * m \in Nat /\ n - m \in Nat /\ InPacketSize * (n - m) \in Nat
    BY <2>1, <2>2
  <2> DEFINE a == InPacketSize * m
             b == InPacketSize * (n - m)
  <2>6. lost <= a /\ a \in Nat /\ b \in Nat /\ InPacketSize * n = a + b
    BY <2>3, <2>4, <2>5
  <2> HIDE DEF a, b
  <2>7. lost <= InPacketSize * n
    BY <2>1, <2>6
  <2>8. QED
    BY <2>7 DEF lost, n
<1>4. QED
  BY <1>1, <1>2, <1>3, LossStep, WaitCorrect, DropsCorrect, PTL DEF Spec
=============================================================================
