-------------------------- MODULE CdcReceiveProofs --------------------------
(***************************************************************************)
(* Proofs about the receive path, for every buffer and packet size and     *)
(* without any bound on what the host sends: flow control, the refinement  *)
(* of the abstract channel, and that what that channel carries is the      *)
(* host's stream.                                                          *)
(***************************************************************************)
EXTENDS CdcReceive, StreamLemmas, TLAPS

(***************************************************************************)
(* The inductive invariant.  What makes flow control work is RoomInv:      *)
(* whenever the interrupt may accept a packet, or already has, a whole     *)
(* packet fits; while a packet is being stored, what is left of it does.   *)
(* To be preserved it needs to know where the main program is (PollInv),   *)
(* what the half that does not receive holds (BufferInv), and that a data  *)
(* packet follows the token that announced it (HostInv).                   *)
(***************************************************************************)
HostInv ==
    /\ hostPhase # "idle" => hostPacket.token # NoToken
    /\ hostPhase = "data" => usbCurrentTok = hostPacket.token

BufferInv ==
    usbRxLen > 0 =>
        /\ usbRxToken # NoToken
        /\ usbRxLen > 3
        /\ Len(usbRxBuf[OtherHalf]) = usbRxLen - 3
        /\ usbRxToken = CdcEndpoint => usbRxLen - 3 <= OutPacketSize

PollInv ==
    /\ pc \in {"process", "store"} => usbRxLen > 0 /\ len = usbRxLen - 3
    /\ pc = "store" => usbRxToken = CdcEndpoint /\ half = OtherHalf /\ qw <= len
    /\ pc = "release" => usbRxLen # 0

RoomInv ==
    /\ pc # "store" /\ usbRxLen >= 0 => OutPacketSize <= Free
    /\ pc = "store" => len - qw <= Free

IInv ==
    /\ SharedType /\ MainType /\ HostType /\ HistoryType
    /\ HostInv /\ BufferInv /\ PollInv /\ RoomInv

-----------------------------------------------------------------------------

LEMMA InvInit == Init => IInv
<1> SUFFICES ASSUME Init PROVE IInv
  OBVIOUS
<1> USE ReceiveAssumption
<1>1. <<>> \in Seq(Nat) /\ Len(<<>>) = 0
  OBVIOUS
<1>2. SharedType
  BY <1>1 DEF Init, SharedType, NoToken, Tokens, Halves
<1>3. MainType
  BY <1>1 DEF Init, MainType, Halves
<1>4. HostType
  <2>1. hostPacket \in [token : Tokens, data : Seq(Nat)] /\ Len(hostPacket.data) = 0
    BY <1>1 DEF Init, NoPacket, Tokens
  <2>2. connected \in BOOLEAN
    BY DEF Init
  <2>3. QED
    BY <2>1, <2>2 DEF Init, HostType
<1>5. HistoryType
  BY <1>1 DEF Init, HistoryType
<1>6. HostInv /\ BufferInv /\ PollInv /\ RoomInv
  BY DEF Init, HostInv, BufferInv, PollInv, RoomInv, Free
<1>7. QED
  BY <1>2, <1>3, <1>4, <1>5, <1>6 DEF IInv

\* What a step leaves alone keeps its type.
LEMMA Unchanged ==
    /\ SharedType /\ UNCHANGED sharedVars => SharedType'
    /\ MainType /\ UNCHANGED mainVars => MainType'
    /\ HostType /\ UNCHANGED hostVars => HostType'
    /\ HistoryType /\ UNCHANGED historyVars => HistoryType'
  BY DEF SharedType, MainType, HostType, HistoryType, sharedVars, mainVars, hostVars, historyVars

LEMMA InvHostStarts ==
    ASSUME IInv, NEW token \in Tokens \ {NoToken}, NEW data \in Seq(Nat),
           Len(data) <= 8, token = CdcEndpoint => Len(data) <= OutPacketSize,
           HostStartsPacket(token, data), other' \in Nat
    PROVE  IInv'
<1> USE DEF IInv, HostStartsPacket
<1>1. SharedType' /\ MainType' /\ HistoryType'
  BY Unchanged
<1>2. HostType'
  BY DEF HostType
<1>3. HostInv'
  BY DEF HostInv
<1>4. BufferInv' /\ PollInv' /\ RoomInv'
  BY DEF BufferInv, PollInv, RoomInv, Free, OtherHalf, sharedVars, mainVars
<1>5. QED
  BY <1>1, <1>2, <1>3, <1>4

LEMMA InvHost == IInv /\ Host => IInv'
<1> SUFFICES ASSUME IInv, Host PROVE IInv'
  OBVIOUS
<1>1. ASSUME NEW n \in 1..OutPacketSize, HostStartsPacket(CdcEndpoint, Stream(n)), UNCHANGED other
      PROVE  IInv'
  <2>1. Stream(n) \in Seq(Nat) /\ Len(Stream(n)) <= OutPacketSize /\ Len(Stream(n)) <= 8
    BY ReceiveAssumption DEF Stream, IInv, HostType
  <2>2. CdcEndpoint \in Tokens \ {NoToken} /\ other' \in Nat
    BY <1>1 DEF Tokens, CdcEndpoint, NoToken, IInv, HostType
  <2>3. QED
    BY <1>1, <2>1, <2>2, InvHostStarts
<1>2. ASSUME other' = other + 1, HostStartsPacket(CdcEndpoint, <<>>)
      PROVE  IInv'
  <2>1. <<>> \in Seq(Nat) /\ Len(<<>>) <= 8 /\ Len(<<>>) <= OutPacketSize
    BY ReceiveAssumption
  <2>2. CdcEndpoint \in Tokens \ {NoToken} /\ other' \in Nat
    BY <1>2 DEF Tokens, CdcEndpoint, NoToken, IInv, HostType
  <2>3. QED
    BY <1>2, <2>1, <2>2, InvHostStarts
<1>3. ASSUME other' = other + 1, NEW token \in {SETUP, OUT}, HostStartsPacket(token, ControlData)
      PROVE  IInv'
  <2>1. ControlData \in Seq(Nat) /\ Len(ControlData) <= 8
    BY DEF ControlData
  <2>2. token \in Tokens \ {NoToken} /\ token # CdcEndpoint /\ other' \in Nat
    BY <1>3 DEF Tokens, CdcEndpoint, NoToken, SETUP, OUT, IInv, HostType
  <2>3. QED
    BY <1>3, <2>1, <2>2, InvHostStarts
<1>4. QED
  BY <1>1, <1>2, <1>3 DEF Host, HostSendsBytes, HostSendsOther

LEMMA InvToken == IInv /\ Token => IInv'
<1> SUFFICES ASSUME IInv, Token PROVE IInv'
  OBVIOUS
<1> USE DEF IInv, Token
<1>1. OtherHalf # usbInputBufOffset /\ OtherHalf \in Halves
  BY DEF OtherHalf, SharedType, Halves, USB_BUFSIZE
<1>2. SharedType'
  <2>1. <<>> \in Seq(Nat)
    OBVIOUS
  <2>2. hostPacket.token \in Tokens
    BY DEF HostType
  <2>3. QED
    BY <2>1, <2>2 DEF SharedType
<1>3. MainType' /\ HistoryType'
  BY Unchanged
<1>4. HostType' /\ HostInv'
  BY DEF HostType, HostInv
<1>5. OtherHalf' = OtherHalf /\ usbRxBuf'[OtherHalf] = usbRxBuf[OtherHalf]
  BY <1>1 DEF OtherHalf, SharedType
<1>6. BufferInv' /\ PollInv' /\ RoomInv'
  BY <1>5 DEF BufferInv, PollInv, RoomInv, Free, mainVars
<1>7. QED
  BY <1>2, <1>3, <1>4, <1>6

\* The interrupt accepts a packet only while the other half is free, and then
\* swaps the halves; room for it was kept.
LEMMA InvData == IInv /\ Data => IInv'
<1> SUFFICES ASSUME IInv, Data PROVE IInv'
  OBVIOUS
<1> USE ReceiveAssumption DEF IInv
<1> DEFINE cnt == Len(hostPacket.data) + 3
           stored == [usbRxBuf EXCEPT ![usbInputBufOffset] = hostPacket.data]
           refused == UNCHANGED <<usbRxLen, usbRxToken, usbInputBufOffset, usbCurrentTok>>
           accepted == /\ usbRxLen = 0 /\ cnt >= 4 /\ usbRxLen' = cnt
                       /\ usbRxToken' = usbCurrentTok /\ UNCHANGED usbCurrentTok
                       /\ usbInputBufOffset' = OtherHalf
<1>1. /\ OtherHalf # usbInputBufOffset /\ OtherHalf \in Halves
      /\ USB_BUFSIZE - OtherHalf = usbInputBufOffset
  BY DEF OtherHalf, SharedType, Halves, USB_BUFSIZE
<1>2. hostPacket.data \in Seq(Nat) /\ hostPacket.token \in Tokens /\ cnt \in 3..11
  <2>1. hostPacket.data \in Seq(Nat) /\ hostPacket.token \in Tokens /\ Len(hostPacket.data) <= 8
    BY DEF HostType
  <2>2. Len(hostPacket.data) \in Nat
    BY <2>1
  <2>3. cnt \in 3..11
    <3> DEFINE l == Len(hostPacket.data)
    <3>1. l \in Nat /\ l <= 8
      BY <2>1, <2>2
    <3> HIDE DEF l
    <3>2. l + 3 \in 3..11
      BY <3>1
    <3>3. QED
      BY <3>2 DEF l
  <2>4. QED
    BY <2>1, <2>3
<1>3. stored \in [Halves -> Seq(Nat)]
  BY <1>2 DEF SharedType
<1>4. MainType' /\ HistoryType'
  BY Unchanged DEF Data
<1>5. HostType'
  <2>1. NoPacket \in [token : Tokens, data : Seq(Nat)] /\ Len(NoPacket.data) = 0
    BY DEF NoPacket, Tokens
  <2>2. /\ hostPacket' \in [token : Tokens, data : Seq(Nat)]
        /\ hostPacket' = hostPacket \/ hostPacket' = NoPacket
    BY <2>1 DEF HostType, Data, Answer
  <2>3. Len(hostPacket'.data) <= 8
        /\ (hostPacket'.token = CdcEndpoint => Len(hostPacket'.data) <= OutPacketSize)
    BY <2>1, <2>2 DEF HostType
  <2>4. hostAcked' \in Nat /\ lostAcks' \in Nat /\ other' \in Nat
    BY <1>2 DEF HostType, Data, Answer
  <2>5. connected' \in BOOLEAN /\ hostPhase' \in {"idle", "token", "data"}
    BY DEF HostType, Data, Answer
  <2>6. QED
    BY <2>2, <2>3, <2>4, <2>5 DEF HostType
<1>6. HostInv'
  BY DEF Data, Answer, HostInv
<1>7. CASE refused
  <2>1. UNCHANGED <<usbRxLen, usbRxToken, usbInputBufOffset, usbCurrentTok>> /\ usbRxBuf' = stored
    BY <1>7 DEF Data
  <2>2. SharedType'
    BY <1>3, <2>1 DEF SharedType
  <2>3. OtherHalf' = OtherHalf /\ usbRxBuf'[OtherHalf] = usbRxBuf[OtherHalf]
    BY <1>1, <2>1 DEF OtherHalf, SharedType
  <2>4. BufferInv' /\ PollInv' /\ RoomInv'
    BY <2>1, <2>3 DEF BufferInv, PollInv, RoomInv, Free, Data, mainVars
  <2>5. QED
    BY <1>4, <1>5, <1>6, <2>2, <2>4
<1>8. CASE accepted
  <2>1. /\ usbRxLen = 0 /\ cnt >= 4 /\ usbRxLen' = cnt /\ usbRxToken' = usbCurrentTok
        /\ usbInputBufOffset' = OtherHalf /\ UNCHANGED usbCurrentTok /\ usbRxBuf' = stored
    BY <1>8 DEF Data
  <2>2. usbCurrentTok = hostPacket.token /\ hostPacket.token # NoToken
    BY DEF HostInv, Data
  <2>3. SharedType'
    BY <1>1, <1>2, <1>3, <2>1 DEF SharedType
  <2>4. OtherHalf' = usbInputBufOffset /\ usbRxBuf'[usbInputBufOffset] = hostPacket.data
    BY <1>1, <2>1 DEF OtherHalf, SharedType
  <2>5. BufferInv'
    BY <1>2, <2>1, <2>2, <2>4 DEF BufferInv, HostType
  <2>6. pc \notin {"process", "store", "release"} /\ pc' = pc
    BY <2>1 DEF PollInv, Data, mainVars
  <2>7. PollInv' /\ RoomInv'
    BY <2>1, <2>6 DEF PollInv, RoomInv, Free, Data, mainVars
  <2>8. QED
    BY <1>4, <1>5, <1>6, <2>3, <2>5, <2>7
<1>9. refused \/ accepted
  BY DEF Data
<1>10. QED
  BY <1>7, <1>8, <1>9

LEMMA InvCall == IInv /\ Call => IInv'
<1> SUFFICES ASSUME IInv, Call PROVE IInv'
  OBVIOUS
<1> USE DEF IInv, Call
<1>1. SharedType' /\ HostType' /\ HistoryType'
  BY Unchanged
<1>2. MainType'
  BY DEF MainType
<1>3. HostInv' /\ BufferInv' /\ PollInv' /\ RoomInv'
  BY DEF HostInv, BufferInv, PollInv, RoomInv, Free, OtherHalf, sharedVars, hostVars
<1>4. QED
  BY <1>1, <1>2, <1>3

LEMMA InvPoll == IInv /\ Poll => IInv'
<1> SUFFICES ASSUME IInv, Poll PROVE IInv'
  OBVIOUS
<1> USE DEF IInv, Poll
<1>1. SharedType' /\ HostType' /\ HistoryType'
  BY Unchanged
<1>2. MainType'
  BY DEF MainType, SharedType
<1>3. HostInv' /\ BufferInv' /\ RoomInv'
  BY DEF HostInv, BufferInv, RoomInv, Free, OtherHalf, sharedVars, hostVars
<1>4. PollInv'
  BY DEF SharedType, PollInv, sharedVars
<1>5. QED
  BY <1>1, <1>2, <1>3, <1>4

LEMMA InvProcess == IInv /\ Process => IInv'
<1> SUFFICES ASSUME IInv, Process PROVE IInv'
  OBVIOUS
<1> USE ReceiveAssumption DEF IInv, Process
<1>1. SharedType' /\ HostType' /\ HistoryType'
  BY Unchanged
<1>2. usbRxLen > 0 /\ len = usbRxLen - 3 /\ usbRxLen > 3 /\ usbRxToken # NoToken
  BY DEF PollInv, BufferInv
<1>3. MainType'
  BY DEF MainType, SharedType, OtherHalf, Halves, USB_BUFSIZE
<1>4. HostInv' /\ BufferInv'
  BY DEF HostInv, BufferInv, OtherHalf, sharedVars, hostVars
<1>5. usbRxToken < 16 => usbRxToken = CdcEndpoint
  BY <1>2 DEF SharedType, Tokens, NoToken, CdcEndpoint, SETUP, OUT
<1>6. half' = OtherHalf' /\ qw' = 0 /\ len' = len /\ rxBuf' = rxBuf
      /\ usbRxLen' = usbRxLen /\ usbRxToken' = usbRxToken
  BY DEF OtherHalf, sharedVars
<1>7. PollInv'
  BY <1>2, <1>5, <1>6 DEF PollInv, SharedType
<1>8. RoomInv'
  <2>1. OutPacketSize <= Free /\ len <= 8
    BY <1>2 DEF RoomInv, SharedType
  <2>2. usbRxToken = CdcEndpoint => len <= OutPacketSize
    BY <1>2 DEF BufferInv
  <2>3. Free' = Free /\ Free \in Int
    BY <1>6 DEF Free, MainType
  <2>4. QED
    BY <1>2, <1>5, <1>6, <2>1, <2>2, <2>3 DEF RoomInv, MainType
<1>9. QED
  BY <1>1, <1>3, <1>4, <1>7, <1>8

LEMMA InvStore == IInv /\ Store => IInv'
<1> SUFFICES ASSUME IInv, Store PROVE IInv'
  OBVIOUS
<1> USE ReceiveAssumption DEF IInv, Store
<1>1. SharedType' /\ HostType' /\ HistoryType'
  BY Unchanged
<1>2. /\ usbRxLen > 0 /\ len = usbRxLen - 3 /\ half = OtherHalf
      /\ qw < len /\ qw \in Nat /\ len \in Int /\ len <= 8
  BY DEF PollInv, SharedType, MainType
<1>3. usbRxBuf[half] \in Seq(Nat) /\ Len(usbRxBuf[half]) = len
  BY <1>2 DEF BufferInv, SharedType, MainType
<1>4. usbRxBuf[half][qw + 1] \in Nat
  <2> DEFINE packet == usbRxBuf[half]
  <2>1. packet \in Seq(Nat) /\ qw + 1 \in 1..Len(packet)
    BY <1>2, <1>3
  <2> HIDE DEF packet
  <2>2. packet[qw + 1] \in Nat
    BY <2>1
  <2>3. QED
    BY <2>2 DEF packet
<1>5. rxBuf \in Seq(Nat) /\ Len(rxBuf) \in Nat /\ Len(rxBuf) <= RxSize /\ RxSize \in Nat
  BY DEF MainType
<1>6. /\ rxBuf' \in Seq(Nat) /\ Len(rxBuf') <= RxSize
      /\ Len(rxBuf') <= Len(rxBuf) + 1 /\ Len(rxBuf') \in Nat
  <2>1. CASE Free = 0
    BY <1>5, <2>1
  <2>2. CASE Free # 0
    <3>1. rxBuf' = Append(rxBuf, usbRxBuf[half][qw + 1])
      BY <2>2
    <3>2. rxBuf' \in Seq(Nat) /\ Len(rxBuf') = Len(rxBuf) + 1
      BY <1>4, <1>5, <3>1
    <3>3. QED
      BY <1>5, <2>2, <3>2 DEF Free
  <2>3. QED
    BY <2>1, <2>2
<1>7. MainType'
  BY <1>2, <1>6 DEF MainType
<1>8. HostInv' /\ BufferInv'
  BY DEF HostInv, BufferInv, OtherHalf, sharedVars, hostVars
<1>9. PollInv'
  BY <1>2 DEF PollInv, OtherHalf, sharedVars
<1>10. RoomInv'
  <2> DEFINE b == Len(rxBuf)
             c == Len(rxBuf')
  <2>1. len - qw <= RxSize - b
    BY DEF RoomInv, Free
  <2>2. pc' = "store" /\ qw' = qw + 1 /\ len' = len /\ c \in Nat /\ c <= b + 1 /\ b \in Nat
    BY <1>5, <1>6
  <2>3. len \in Int /\ qw \in Nat /\ RxSize \in Nat
    BY <1>2, <1>5
  <2> HIDE ReceiveAssumption DEF IInv, Store, b, c
  <2>4. len - (qw + 1) <= RxSize - c
    BY <2>1, <2>2, <2>3
  <2>5. QED
    BY <2>2, <2>4 DEF RoomInv, Free, c
<1>11. QED
  BY <1>1, <1>7, <1>8, <1>9, <1>10

LEMMA InvPause == IInv /\ Pause => IInv'
<1> SUFFICES ASSUME IInv, Pause PROVE IInv'
  OBVIOUS
<1> USE ReceiveAssumption DEF IInv, Pause
<1>1. HostType' /\ HistoryType'
  BY Unchanged
<1>2. SharedType'
  BY DEF SharedType
<1>3. MainType'
  BY DEF MainType
<1>4. HostInv' /\ BufferInv'
  BY DEF HostInv, BufferInv, OtherHalf, hostVars
<1>5. PollInv' /\ RoomInv'
  <2>1. usbRxLen > 0 /\ Free' = Free /\ Free \in Int
    BY DEF PollInv, Free, MainType
  <2>2. QED
    BY <2>1 DEF PollInv, RoomInv, MustPause
<1>6. QED
  BY <1>1, <1>2, <1>3, <1>4, <1>5

LEMMA InvRelease == IInv /\ Release => IInv'
<1> SUFFICES ASSUME IInv, Release PROVE IInv'
  OBVIOUS
<1> USE ReceiveAssumption DEF IInv, Release, Released
<1>1. HostType' /\ HistoryType'
  BY Unchanged
<1>2. SharedType'
  BY DEF SharedType
<1>3. MainType'
  BY DEF MainType
<1>4. HostInv' /\ BufferInv' /\ PollInv'
  BY DEF HostInv, BufferInv, PollInv, hostVars, SharedType
<1>5. RoomInv'
  BY DEF RoomInv, SharedType, Free
<1>6. QED
  BY <1>1, <1>2, <1>3, <1>4, <1>5

LEMMA InvResume == IInv /\ Resume => IInv'
<1> SUFFICES ASSUME IInv, Resume PROVE IInv'
  OBVIOUS
<1> USE ReceiveAssumption DEF IInv, Resume, MayResume
<1>1. HostType' /\ HistoryType'
  BY Unchanged
<1>2. SharedType'
  BY DEF SharedType
<1>3. MainType'
  BY DEF MainType
<1>4. HostInv' /\ BufferInv' /\ PollInv'
  BY DEF HostInv, BufferInv, PollInv, hostVars, SharedType, OtherHalf
<1>5. RoomInv'
  BY DEF RoomInv, SharedType, Free
<1>6. QED
  BY <1>1, <1>2, <1>3, <1>4, <1>5

LEMMA InvReturn == IInv /\ Return => IInv'
<1> SUFFICES ASSUME IInv, Return PROVE IInv'
  OBVIOUS
<1> USE ReceiveAssumption DEF IInv, Return
<1>1. SharedType' /\ HostType'
  BY Unchanged
<1>2. rxBuf \in Seq(Nat) /\ Len(rxBuf) <= RxSize /\ consumed \in Seq(Nat) /\ RxSize \in Nat
  BY DEF MainType, HistoryType
<1>3. rxBuf' \in Seq(Nat) /\ consumed' \in Seq(Nat) /\ Len(rxBuf') <= Len(rxBuf)
  <2>1. CASE rxBuf # <<>> /\ op = "read"
    <3>1. Tail(rxBuf) \in Seq(Nat) /\ Len(Tail(rxBuf)) <= Len(rxBuf) /\ Head(rxBuf) \in Nat
      BY <1>2, <2>1
    <3>2. Append(consumed, Head(rxBuf)) \in Seq(Nat)
      BY <1>2, <3>1
    <3>3. rxBuf' = Tail(rxBuf) /\ consumed' = Append(consumed, Head(rxBuf))
      BY <2>1
    <3>4. QED
      BY <3>1, <3>2, <3>3
  <2>2. CASE UNCHANGED <<rxBuf, consumed>>
    BY <1>2, <2>2
  <2>3. QED
    BY <2>1, <2>2
<1>4. Len(rxBuf) \in Nat /\ Len(rxBuf') \in Nat
  <2> HIDE ReceiveAssumption DEF IInv, Return
  <2>1. QED
    BY <1>2, <1>3
<1>5. MainType' /\ HistoryType'
  <2>1. Len(rxBuf') <= RxSize
    BY <1>2, <1>3, <1>4
  <2>2. QED
    BY <1>3, <2>1 DEF MainType, HistoryType
<1>6. HostInv' /\ BufferInv' /\ PollInv'
  BY DEF HostInv, BufferInv, PollInv, OtherHalf, sharedVars, hostVars
<1>7. RoomInv'
  <2>1. Free \in Int /\ Free' \in Int /\ Free <= Free'
    <3> DEFINE before == Len(rxBuf)
               after == Len(rxBuf')
    <3>1. Free = RxSize - before /\ Free' = RxSize - after
      BY DEF Free
    <3>2. before \in Nat /\ after \in Nat /\ after <= before /\ RxSize \in Nat
      BY <1>2, <1>3, <1>4
    <3> HIDE DEF before, after
    <3>3. QED
      BY <3>1, <3>2
  <2>2. QED
    BY <2>1 DEF RoomInv, sharedVars
<1>8. QED
  BY <1>1, <1>5, <1>6, <1>7

LEMMA InvReconnect == IInv /\ (Begin \/ End) => IInv'
<1> SUFFICES ASSUME IInv, NEW up \in BOOLEAN, Reconnect(up) PROVE IInv'
  BY DEF Begin, End
<1> USE ReceiveAssumption DEF IInv, Reconnect
<1>1. SharedType'
  BY Unchanged
<1>2. <<>> \in Seq(Nat) /\ Len(<<>>) = 0
  OBVIOUS
<1>3. MainType'
  BY <1>2 DEF MainType
<1>4. HostType'
  <2>1. hostPacket' \in [token : Tokens, data : Seq(Nat)] /\ Len(hostPacket'.data) = 0
    BY <1>2 DEF NoPacket, Tokens
  <2>2. connected' \in BOOLEAN
    OBVIOUS
  <2>3. QED
    BY <2>1, <2>2 DEF HostType
<1>5. HistoryType'
  <2>1. rxBuf \in Seq(Nat) /\ discarded \subseteq Nat /\ consumed \in Seq(Nat) /\ session \in Nat
    BY DEF MainType, HistoryType
  <2>2. {rxBuf[i] : i \in 1..Len(rxBuf)} \subseteq Nat
    BY <2>1
  <2>3. discarded' \subseteq Nat
    BY <2>1, <2>2
  <2>4. consumed' = consumed /\ session' = session + 1
    BY DEF Reconnect
  <2>5. consumed' \in Seq(Nat)
    BY <2>1, <2>4
  <2>6. session' \in Nat
    BY <2>1, <2>4
  <2>7. QED
    BY <2>3, <2>5, <2>6 DEF HistoryType
<1>6. HostInv' /\ BufferInv' /\ PollInv'
  BY DEF HostInv, BufferInv, PollInv, OtherHalf, sharedVars
<1>7. RoomInv'
  BY <1>2 DEF RoomInv, Free
<1>8. QED
  BY <1>1, <1>3, <1>4, <1>5, <1>6, <1>7

LEMMA InvStep == IInv /\ [Next]_vars => IInv'
<1> SUFFICES ASSUME IInv, [Next]_vars PROVE IInv'
  OBVIOUS
<1>1. CASE UNCHANGED vars
  <2>1. SharedType' /\ MainType' /\ HostType' /\ HistoryType'
    BY <1>1, Unchanged DEF vars, IInv
  <2>2. QED
    BY <1>1, <2>1 DEF vars, sharedVars, mainVars, hostVars, IInv,
       HostInv, BufferInv, PollInv, RoomInv, Free, OtherHalf
<1>2. CASE Next
  BY <1>2, InvHost, InvToken, InvData, InvCall, InvPoll, InvProcess, InvStore, InvPause,
     InvRelease, InvResume, InvReturn, InvReconnect DEF Next, Interrupt, Main
<1>3. QED
  BY <1>1, <1>2

LEMMA Inductive == Spec => []IInv
<1>1. QED
  BY InvInit, InvStep, PTL DEF Spec

\* For every buffer and packet size the variables keep their types: usbRxLen
\* fits a packet, and the receive buffer never overflows.
THEOREM TypeCorrect == Spec => []TypeOK
<1>1. IInv => TypeOK
  BY DEF IInv, TypeOK
<1>2. QED
  BY <1>1, Inductive, PTL

-----------------------------------------------------------------------------

\* What a received packet adds to the bytes in transit.
LEMMA WaitingType ==
    ASSUME IInv
    PROVE  /\ Waiting \in Seq(Nat)
           /\ DataWaiting /\ pc = "store" =>
                 Waiting = SubSeq(usbRxBuf[OtherHalf], qw + 1, len) /\ Len(Waiting) = len - qw
           /\ DataWaiting /\ pc \notin {"store", "release"} =>
                 Waiting = usbRxBuf[OtherHalf] /\ Len(Waiting) = usbRxLen - 3
           /\ ~DataWaiting \/ pc = "release" => Waiting = <<>>
<1> USE ReceiveAssumption DEF IInv
<1> DEFINE packet == usbRxBuf[OtherHalf]
<1>1. packet \in Seq(Nat)
  BY DEF SharedType, OtherHalf, Halves, USB_BUFSIZE
<1>2. CASE DataWaiting /\ pc = "store"
  <2>1. Len(packet) = len /\ qw \in Nat /\ qw <= len /\ len \in Int
    BY <1>2 DEF PollInv, BufferInv, MainType, DataWaiting
  <2>2. Waiting = SubSeq(packet, qw + 1, len)
    BY <1>2, <2>1 DEF Waiting
  <2>3. SubSeq(packet, qw + 1, len) \in Seq(Nat) /\ Len(SubSeq(packet, qw + 1, len)) = len - qw
    <3> HIDE DEF packet
    <3>1. QED
      BY <1>1, <2>1
  <2>4. QED
    BY <1>2, <2>2, <2>3
<1>3. CASE DataWaiting /\ pc \notin {"store", "release"}
  <2>1. Waiting = packet /\ Len(packet) = usbRxLen - 3
    BY <1>3 DEF Waiting, BufferInv, DataWaiting
  <2>2. QED
    BY <1>1, <1>3, <2>1
<1>4. CASE ~DataWaiting \/ pc = "release"
  <2>1. Waiting = <<>>
    BY <1>4 DEF Waiting
  <2>2. <<>> \in Seq(Nat)
    OBVIOUS
  <2>3. QED
    BY <1>4, <2>1, <2>2
<1>5. QED
  BY <1>2, <1>3, <1>4

LEMMA Fits == IInv => WaitingPacketFits
<1> SUFFICES ASSUME IInv PROVE Len(rxBuf) + Len(Waiting) <= RxSize /\ rxBuf \in Seq(Nat)
                               /\ Waiting \in Seq(Nat)
  BY DEF WaitingPacketFits, InTransit
<1> USE ReceiveAssumption
<1>1. rxBuf \in Seq(Nat) /\ Len(rxBuf) \in Nat /\ Len(rxBuf) <= RxSize /\ RxSize \in Nat
  BY DEF IInv, MainType
<1>2. Waiting \in Seq(Nat)
  BY WaitingType
<1>3. CASE DataWaiting /\ pc = "store"
  <2>1. Len(Waiting) = len - qw
    BY <1>3, WaitingType
  <2>2. len - qw <= Free /\ len \in Int /\ qw \in Int
    BY <1>3 DEF IInv, RoomInv, MainType
  <2>3. QED
    BY <1>1, <1>2, <2>1, <2>2 DEF Free
<1>4. CASE DataWaiting /\ pc \notin {"store", "release"}
  <2>1. Len(Waiting) = usbRxLen - 3
    BY <1>4, WaitingType
  <2>2. usbRxLen - 3 <= OutPacketSize /\ OutPacketSize <= Free /\ usbRxLen \in Int
    BY <1>4 DEF IInv, RoomInv, BufferInv, DataWaiting, SharedType
  <2>3. OutPacketSize \in Int
    BY ReceiveAssumption
  <2> DEFINE w == Len(Waiting)
             b == Len(rxBuf)
  <2>4. /\ w = usbRxLen - 3 /\ usbRxLen - 3 <= OutPacketSize /\ OutPacketSize <= RxSize - b
        /\ b \in Int /\ usbRxLen \in Int /\ RxSize \in Int
    BY <1>1, <2>1, <2>2 DEF Free
  <2> HIDE DEF w, b
  <2>5. b + w <= RxSize
    BY <2>3, <2>4
  <2>6. QED
    BY <1>1, <1>2, <2>5 DEF w, b
<1>5. CASE ~DataWaiting \/ pc = "release"
  <2>1. Waiting = <<>>
    BY <1>5, WaitingType
  <2>2. QED
    BY <1>1, <1>2, <2>1
<1>6. QED
  BY <1>3, <1>4, <1>5

\* A packet that was given an ACK fits into the receive buffer, however large
\* that is and however the interrupt and the main program interleave: flow
\* control pauses input in time.
THEOREM PacketFits == Spec => []WaitingPacketFits
  BY Fits, Inductive, PTL

-----------------------------------------------------------------------------
(* The mapping: what each action does to the bytes in transit.             *)

LEMMA FitsNext == IInv' => WaitingPacketFits'
  BY Fits, PTL

\* What the host and the sketch do, a token included, moves no byte.
LEMMA StepHost == IInv /\ (Host \/ Token \/ Call \/ UNCHANGED vars) => UNCHANGED Channel!vars
<1> SUFFICES ASSUME IInv, Host \/ Token \/ Call \/ UNCHANGED vars PROVE UNCHANGED Channel!vars
  OBVIOUS
<1>1. UNCHANGED <<usbRxLen, usbRxToken, usbInputBufOffset, qw, rxBuf, consumed, session>>
  BY DEF Host, HostSendsBytes, HostSendsOther, HostStartsPacket, Token, Call,
     vars, sharedVars, mainVars, historyVars
<1>2. usbRxBuf'[OtherHalf] = usbRxBuf[OtherHalf]
  BY DEF Host, HostSendsBytes, HostSendsOther, HostStartsPacket, Token, Call, vars, sharedVars,
     IInv, SharedType, OtherHalf, Halves, USB_BUFSIZE
<1>3. pc' = pc \/ (pc = "idle" /\ pc' = "poll")
  BY DEF Host, HostSendsBytes, HostSendsOther, HostStartsPacket, Token, Call, vars, mainVars
<1>4. Waiting' = Waiting
  BY <1>1, <1>2, <1>3 DEF Waiting, DataWaiting, OtherHalf
<1>5. QED
  BY <1>1, <1>4 DEF Channel!vars, InTransit

\* An accepted packet enters the channel as a whole.
LEMMA StepData == IInv /\ IInv' /\ Data => Channel!Accept \/ UNCHANGED Channel!vars
<1> SUFFICES ASSUME IInv, IInv', Data PROVE Channel!Accept \/ UNCHANGED Channel!vars
  OBVIOUS
<1> DEFINE data == hostPacket.data
<1>1. UNCHANGED <<pc, qw, rxBuf, consumed, session>>
  BY DEF Data, mainVars, historyVars
<1>2. data \in Seq(Nat) /\ Len(data) \in Nat /\ rxBuf \in Seq(Nat)
  BY DEF IInv, HostType, MainType
<1>3. /\ OtherHalf # usbInputBufOffset /\ OtherHalf \in Halves /\ usbInputBufOffset \in Halves
      /\ USB_BUFSIZE - OtherHalf = usbInputBufOffset /\ usbRxBuf \in [Halves -> Seq(Nat)]
  BY DEF IInv, OtherHalf, SharedType, Halves, USB_BUFSIZE
<1>4. usbRxBuf' = [usbRxBuf EXCEPT ![usbInputBufOffset] = data]
  BY DEF Data
<1>5. CASE UNCHANGED <<usbRxLen, usbRxToken, usbInputBufOffset>>
  <2>1. usbRxBuf'[OtherHalf] = usbRxBuf[OtherHalf]
    BY <1>3, <1>4
  <2>2. Waiting' = Waiting
    BY <1>1, <1>5, <2>1 DEF Waiting, DataWaiting, OtherHalf
  <2>3. QED
    BY <1>1, <2>2 DEF Channel!vars, InTransit
<1>6. CASE /\ usbRxLen = 0 /\ Len(data) + 3 >= 4 /\ usbRxLen' = Len(data) + 3
           /\ usbRxToken' = usbCurrentTok /\ usbInputBufOffset' = OtherHalf
  <2>1. Waiting = <<>> /\ InTransit = rxBuf
    BY <1>2, <1>6, ConcatEmptySeq DEF Waiting, DataWaiting, InTransit
  <2>2. pc' \notin {"process", "store", "release"}
    BY <1>1, <1>6 DEF IInv, PollInv
  <2>3. OtherHalf' = usbInputBufOffset /\ usbRxBuf'[usbInputBufOffset] = data
    BY <1>3, <1>4, <1>6 DEF OtherHalf
  <2>4. CASE DataWaiting'
    <3>1. Waiting' = data /\ InTransit' = rxBuf \o data
      BY <1>1, <2>2, <2>3, <2>4 DEF Waiting, InTransit
    <3>2. Len(rxBuf \o data) = Len(rxBuf) + Len(data) /\ Len(rxBuf) \in Nat
      BY <1>2, ConcatProperties
    <3>3. Len(rxBuf) < Len(rxBuf \o data)
      BY <1>2, <1>6, <3>2
    <3>4. SubSeq(rxBuf \o data, 1, Len(rxBuf)) = rxBuf
      BY <1>2, PrefixOfConcat
    <3>5. Len(InTransit') <= RxSize
      BY FitsNext DEF WaitingPacketFits
    <3>6. QED
      BY <1>1, <2>1, <3>1, <3>3, <3>4, <3>5 DEF Channel!Accept
  <2>5. CASE ~DataWaiting'
    <3>1. Waiting' = <<>>
      BY <2>5 DEF Waiting
    <3>2. QED
      BY <1>1, <2>1, <3>1 DEF Channel!vars, InTransit
  <2>6. QED
    BY <2>4, <2>5
<1>7. QED
  BY <1>5, <1>6 DEF Data

\* usbPoll() moves bytes from the packet to the ring buffer: none is lost on the way.
LEMMA StepMain ==
    IInv /\ IInv' /\ (Poll \/ Process \/ Pause \/ Release \/ Resume) => UNCHANGED Channel!vars
<1> SUFFICES ASSUME IInv, IInv', Poll \/ Process \/ Pause \/ Release \/ Resume
             PROVE  UNCHANGED Channel!vars
  OBVIOUS
<1>1. UNCHANGED <<usbRxToken, usbRxBuf, usbInputBufOffset, OtherHalf, rxBuf, consumed, session>>
  BY DEF Poll, Process, Pause, Release, Resume, sharedVars, historyVars, OtherHalf
<1>2. CASE Poll
  <2>1. UNCHANGED usbRxLen /\ pc = "poll" /\ pc' \in {"process", "resume"}
    BY <1>2 DEF Poll, sharedVars
  <2>2. Waiting' = Waiting
    BY <1>1, <2>1 DEF Waiting, DataWaiting
  <2>3. QED
    BY <1>1, <2>2 DEF Channel!vars, InTransit
<1>3. CASE Process
  <2>1. UNCHANGED <<usbRxLen, len>> /\ pc = "process" /\ qw' = 0
    BY <1>3 DEF Process, sharedVars
  <2>2. CASE DataWaiting
    <3>1. Waiting = usbRxBuf[OtherHalf] /\ Waiting \in Seq(Nat)
      BY <2>1, <2>2, WaitingType
    <3>2. DataWaiting' /\ pc' = "store"
      BY <1>1, <1>3, <2>1, <2>2 DEF DataWaiting, Process, CdcEndpoint
    <3>3. Waiting' = SubSeq(usbRxBuf[OtherHalf], 1, Len(usbRxBuf[OtherHalf]))
      BY <1>1, <2>1, <3>2 DEF Waiting
    <3>4. Waiting' = Waiting
      BY <3>1, <3>3, SubSeqFull
    <3>5. QED
      BY <1>1, <3>4 DEF Channel!vars, InTransit
  <2>3. CASE ~DataWaiting
    <3>1. Waiting = <<>> /\ Waiting' = <<>>
      BY <1>1, <2>1, <2>3 DEF Waiting, DataWaiting
    <3>2. QED
      BY <1>1, <3>1 DEF Channel!vars, InTransit
  <2>4. QED
    BY <2>2, <2>3
<1>4. CASE Pause
  <2>1. usbRxLen > 0 /\ usbRxToken = CdcEndpoint /\ qw = len /\ len = usbRxLen - 3
    BY <1>4 DEF IInv, PollInv, Pause
  <2>2. Waiting = SubSeq(usbRxBuf[OtherHalf], qw + 1, qw)
    BY <1>4, <2>1, WaitingType DEF DataWaiting, Pause
  <2>3. qw \in Int /\ qw + 1 \in Int /\ qw < qw + 1
    BY DEF IInv, MainType
  <2>4. Waiting = <<>>
    BY <2>2, <2>3, SubSeqEmpty
  <2>5. Waiting' = <<>>
    BY <1>4 DEF Pause, Waiting
  <2>6. QED
    BY <1>1, <2>4, <2>5 DEF Channel!vars, InTransit
<1>5. CASE Release
  <2>1. Waiting = <<>>
    BY <1>5, WaitingType DEF Release
  <2>2. ~DataWaiting'
    BY <1>5 DEF Release, Released, DataWaiting, IInv, SharedType
  <2>3. Waiting' = <<>>
    BY <2>2 DEF Waiting
  <2>4. QED
    BY <1>1, <2>1, <2>3 DEF Channel!vars, InTransit
<1>6. CASE Resume
  <2>1. pc = "resume" /\ pc' = "return" /\ (usbRxLen' = usbRxLen \/ (usbRxLen < 0 /\ usbRxLen' = 0))
    BY <1>6 DEF Resume, MayResume
  <2>2. Waiting' = Waiting
    BY <1>1, <2>1 DEF Waiting, DataWaiting, IInv, SharedType
  <2>3. QED
    BY <1>1, <2>2 DEF Channel!vars, InTransit
<1>7. QED
  BY <1>2, <1>3, <1>4, <1>5, <1>6

LEMMA StepStore == IInv /\ Store => UNCHANGED Channel!vars
<1> SUFFICES ASSUME IInv, Store PROVE UNCHANGED Channel!vars
  OBVIOUS
<1> DEFINE packet == usbRxBuf[OtherHalf]
<1>1. /\ UNCHANGED <<usbRxLen, usbRxToken, usbRxBuf, usbInputBufOffset, OtherHalf>>
      /\ UNCHANGED <<pc, len, half, consumed, session>>
      /\ pc = "store" /\ qw < len /\ qw' = qw + 1
  BY DEF Store, sharedVars, historyVars, OtherHalf
<1>2. DataWaiting /\ DataWaiting' /\ half = OtherHalf /\ len = usbRxLen - 3
  BY <1>1 DEF DataWaiting, IInv, PollInv
<1>3. packet \in Seq(Nat) /\ Len(packet) = len /\ rxBuf \in Seq(Nat) /\ qw + 1 \in 1..len
  <2>1. packet \in Seq(Nat)
    BY DEF IInv, SharedType, OtherHalf, Halves, USB_BUFSIZE
  <2>2. Len(packet) = len
    BY <1>2 DEF IInv, BufferInv, DataWaiting
  <2>3. qw + 1 \in 1..len
    BY <1>1 DEF IInv, MainType
  <2>4. QED
    BY <2>1, <2>2, <2>3 DEF IInv, MainType
<1>4. rxBuf' = Append(rxBuf, packet[qw + 1])
  <2>1. Free # 0
    BY <1>1, ReceiveAssumption DEF IInv, RoomInv, MainType
  <2>2. QED
    BY <1>2, <2>1 DEF Store
<1>5. Waiting = SubSeq(packet, qw + 1, Len(packet)) /\ Waiting' = SubSeq(packet, qw + 1 + 1, Len(packet))
  BY <1>1, <1>2 DEF Waiting
<1>6. Append(rxBuf, packet[qw + 1]) \o SubSeq(packet, qw + 1 + 1, Len(packet))
        = rxBuf \o SubSeq(packet, qw + 1, Len(packet))
  <2> HIDE DEF packet
  <2>1. QED
    BY <1>3, MoveFirst
<1>7. QED
  BY <1>1, <1>4, <1>5, <1>6 DEF Channel!vars, InTransit

LEMMA StepReturn == IInv /\ Return => Channel!Deliver \/ UNCHANGED Channel!vars
<1> SUFFICES ASSUME IInv, Return PROVE Channel!Deliver \/ UNCHANGED Channel!vars
  OBVIOUS
<1>1. /\ UNCHANGED <<usbRxLen, usbRxToken, usbRxBuf, usbInputBufOffset, session>>
      /\ pc = "return" /\ pc' = "idle"
  BY DEF Return, sharedVars
<1>2. Waiting' = Waiting
  BY <1>1 DEF Waiting, DataWaiting, OtherHalf
<1>3. rxBuf \in Seq(Nat) /\ consumed \in Seq(Nat) /\ Waiting \in Seq(Nat)
  BY WaitingType DEF IInv, MainType, HistoryType
<1>4. CASE UNCHANGED <<rxBuf, consumed>>
  BY <1>1, <1>2, <1>4 DEF Channel!vars, InTransit
<1>5. CASE rxBuf # <<>> /\ rxBuf' = Tail(rxBuf) /\ consumed' = Append(consumed, Head(rxBuf))
  <2>1. /\ Tail(rxBuf) \in Seq(Nat) /\ Len(Tail(rxBuf)) = Len(rxBuf) - 1 /\ Head(rxBuf) = rxBuf[1]
        /\ 1 \in 1..Len(rxBuf) /\ rxBuf[1] \in Nat
    BY <1>3, <1>5, HeadTailProperties, EmptySeq
  <2>2. Tail(rxBuf) = SubSeq(rxBuf, 2, Len(rxBuf)) /\ rxBuf = SubSeq(rxBuf, 1, Len(rxBuf))
    BY <1>3, <1>5, TailIsSubSeq, SubSeqFull
  <2>3. Append(consumed, rxBuf[1]) \o SubSeq(rxBuf, 1 + 1, Len(rxBuf))
          = consumed \o SubSeq(rxBuf, 1, Len(rxBuf))
    BY <1>3, <2>1, MoveFirst
  <2>4. consumed' \o rxBuf' = consumed \o rxBuf
    <3>1. consumed' = Append(consumed, rxBuf[1]) /\ rxBuf' = SubSeq(rxBuf, 1 + 1, Len(rxBuf))
      BY <1>5, <2>1, <2>2
    <3>2. QED
      BY <2>2, <2>3, <3>1, Zenon
  <2>5. consumed' \in Seq(Nat) /\ rxBuf' \in Seq(Nat)
    BY <1>3, <1>5, <2>1, AppendProperties
  <2>6. /\ (consumed' \o rxBuf') \o Waiting = consumed' \o (rxBuf' \o Waiting)
        /\ (consumed \o rxBuf) \o Waiting = consumed \o (rxBuf \o Waiting)
    <3> DEFINE c == consumed'
               r == rxBuf'
               w == Waiting
    <3>0. c \in Seq(Nat) /\ r \in Seq(Nat) /\ w \in Seq(Nat)
      BY <1>3, <2>5
    <3> HIDE DEF c, r, w
    <3>1. Cat(Cat(c, r), w) = Cat(c, Cat(r, w))
      BY <3>0, Associative
    <3>2. Cat(Cat(consumed, rxBuf), w) = Cat(consumed, Cat(rxBuf, w))
      BY <1>3, <3>0, Associative
    <3>3. QED
      BY <3>1, <3>2, Zenon DEF c, r, w, Cat
  <2>7. consumed' \o InTransit' = consumed \o InTransit
    BY <1>2, <2>4, <2>6, Zenon DEF InTransit
  <2>8. Len(InTransit') < Len(InTransit)
    <3>1. Len(InTransit') = Len(rxBuf') + Len(Waiting) /\ Len(InTransit) = Len(rxBuf) + Len(Waiting)
      BY <1>2, <1>3, <2>5, ConcatProperties DEF InTransit
    <3>2. Len(rxBuf') = Len(rxBuf) - 1 /\ Len(rxBuf) \in Nat /\ Len(Waiting) \in Nat
      BY <1>3, <1>5, <2>1, LenProperties
    <3>3. QED
      BY <3>1, <3>2
  <2>9. QED
    BY <1>1, <2>7, <2>8 DEF Channel!Deliver
<1>6. QED
  BY <1>4, <1>5 DEF Return

\* begin() and end() drop what read() could have returned, and nothing else.
LEMMA StepReconnect == IInv /\ (Begin \/ End) => Channel!Break
<1> SUFFICES ASSUME IInv, NEW up, Reconnect(up) PROVE Channel!Break
  BY DEF Begin, End
<1>1. /\ UNCHANGED <<usbRxLen, usbRxToken, usbRxBuf, usbInputBufOffset, pc, qw, consumed>>
      /\ session' = session + 1 /\ rxBuf' = <<>>
  BY DEF Reconnect, sharedVars
<1>2. Waiting' = Waiting
  BY <1>1 DEF Waiting, DataWaiting, OtherHalf
<1>3. rxBuf \in Seq(Nat) /\ Waiting \in Seq(Nat)
  BY WaitingType DEF IInv, MainType
<1>4. InTransit' = Waiting
  BY <1>1, <1>2, <1>3, ConcatEmptySeq DEF InTransit
<1>5. SubSeq(InTransit, Len(rxBuf) + 1, Len(InTransit)) = Waiting
  BY <1>3, SuffixOfConcat DEF InTransit
<1>6. Len(rxBuf) \in 0..Len(InTransit) /\ Len(InTransit) \in 0..Len(InTransit)
  <2>1. Len(InTransit) = Len(rxBuf) + Len(Waiting) /\ Len(rxBuf) \in Nat /\ Len(Waiting) \in Nat
    BY <1>3, ConcatProperties, LenProperties DEF InTransit
  <2>2. QED
    BY <2>1
<1>7. QED
  BY <1>1, <1>4, <1>5, <1>6 DEF Channel!Break

\* For every buffer and packet size, and whatever the host sends, the bytes
\* read() returns are those of the packets the interrupt accepted, in their
\* order, each once; only begin() and end() drop bytes.
THEOREM ChannelCorrect == Spec => ImplementsChannel
<1>1. Init => Channel!Init
  <2> SUFFICES ASSUME Init PROVE Channel!Init
    OBVIOUS
  <2>1. Waiting = <<>> /\ rxBuf = <<>>
    BY DEF Init, Waiting, DataWaiting
  <2>2. <<>> \o <<>> = <<>>
    BY EmptySeq, ConcatEmptySeq
  <2>3. QED
    BY <2>1, <2>2 DEF Init, Channel!Init, InTransit
<1>2. IInv /\ IInv' /\ [Next]_vars => [Channel!Next]_(Channel!vars)
  <2> SUFFICES ASSUME IInv, IInv', [Next]_vars PROVE [Channel!Next]_(Channel!vars)
    OBVIOUS
  <2>1. CASE Host \/ Token \/ Call \/ UNCHANGED vars
    BY <2>1, StepHost
  <2>2. CASE Data
    BY <2>2, StepData DEF Channel!Next
  <2>3. CASE Poll \/ Process \/ Pause \/ Release \/ Resume
    BY <2>3, StepMain
  <2>4. CASE Store
    BY <2>4, StepStore
  <2>5. CASE Return
    BY <2>5, StepReturn DEF Channel!Next
  <2>6. CASE Begin \/ End
    BY <2>6, StepReconnect DEF Channel!Next
  <2>7. QED
    BY <2>1, <2>2, <2>3, <2>4, <2>5, <2>6 DEF Next, Interrupt, Main
<1>3. QED
  BY <1>1, <1>2, Inductive, PTL DEF Spec, ImplementsChannel, Channel!Spec

-----------------------------------------------------------------------------
(* The stream.                                                             *)

\* All bytes that were accepted and not discarded, oldest first.
Received == consumed \o InTransit

(***************************************************************************)
(* The invariant: the transaction under way carries the next bytes of the  *)
(* stream, so that those of a repeated one are no others.                  *)
(***************************************************************************)
StreamInv ==
    hostPacket.token = CdcEndpoint =>
        \A i \in 1..Len(hostPacket.data) : hostPacket.data[i] = hostAcked + i

KeptInv == 1..hostAcked \subseteq Elements(Received) \cup discarded

OrderInv == lostAcks = 0 => Ascends(Received, hostAcked)

SInv == IInv /\ StreamInv /\ KeptInv /\ OrderInv

-----------------------------------------------------------------------------
(* The steps.                                                              *)

LEMMA ReceivedType ==
    ASSUME IInv
    PROVE  /\ consumed \in Seq(Nat) /\ rxBuf \in Seq(Nat) /\ Waiting \in Seq(Nat)
           /\ InTransit \in Seq(Nat) /\ Received \in Seq(Nat)
<1>1. consumed \in Seq(Nat) /\ rxBuf \in Seq(Nat) /\ Waiting \in Seq(Nat)
  BY WaitingType DEF IInv, MainType, HistoryType
<1>2. InTransit \in Seq(Nat)
  BY <1>1, ConcatProperties DEF InTransit
<1>3. Received \in Seq(Nat)
  BY <1>1, <1>2, ConcatProperties DEF Received
<1>4. QED
  BY <1>1, <1>2, <1>3

\* The interrupt appends a packet as a whole, or it changes nothing; the host
\* advances at most by what was appended.
LEMMA DataAppends ==
    ASSUME IInv, Data
    PROVE  /\ UNCHANGED <<consumed, discarded>> /\ lostAcks' \in {lostAcks, lostAcks + 1}
           /\ \/ InTransit' = InTransit /\ hostAcked' = hostAcked
              \/ /\ InTransit' = InTransit \o hostPacket.data
                 /\ hostPacket.token = CdcEndpoint
                 /\ \/ hostAcked' = hostAcked + Len(hostPacket.data)
                    \/ hostAcked' = hostAcked /\ lostAcks' = lostAcks + 1
<1> DEFINE data == hostPacket.data
           acked == IF hostPacket.token = CdcEndpoint THEN Len(data) ELSE 0
<1>1. UNCHANGED <<pc, qw, rxBuf, consumed, discarded>>
  BY DEF Data, mainVars, historyVars
<1>2. /\ data \in Seq(Nat) /\ Len(data) \in Nat /\ rxBuf \in Seq(Nat)
      /\ hostAcked \in Nat /\ lostAcks \in Nat
  BY DEF IInv, HostType, MainType
<1>3. /\ OtherHalf # usbInputBufOffset /\ OtherHalf \in Halves /\ usbInputBufOffset \in Halves
      /\ USB_BUFSIZE - OtherHalf = usbInputBufOffset /\ usbRxBuf \in [Halves -> Seq(Nat)]
  BY DEF IInv, OtherHalf, SharedType, Halves, USB_BUFSIZE
<1>4. usbRxBuf' = [usbRxBuf EXCEPT ![usbInputBufOffset] = data]
  BY DEF Data
<1>5. ASSUME UNCHANGED <<usbRxLen, usbRxToken, usbInputBufOffset>>
      PROVE  InTransit' = InTransit
  <2>1. usbRxBuf'[OtherHalf] = usbRxBuf[OtherHalf]
    BY <1>3, <1>4
  <2>2. Waiting' = Waiting
    BY <1>1, <1>5, <2>1 DEF Waiting, DataWaiting, OtherHalf
  <2>3. QED
    BY <1>1, <2>2 DEF InTransit
<1>6. ASSUME Answer(TRUE)
      PROVE  \/ hostAcked' = hostAcked + acked /\ lostAcks' = lostAcks
             \/ hostAcked' = hostAcked /\ lostAcks' = lostAcks + 1
  BY <1>6 DEF Answer
<1>7. CASE Answer(FALSE) /\ UNCHANGED <<usbRxLen, usbRxToken, usbInputBufOffset>>
  BY <1>1, <1>5, <1>7 DEF Answer
<1>8. CASE /\ Answer(TRUE) /\ Len(data) + 3 < 4
           /\ UNCHANGED <<usbRxLen, usbRxToken, usbInputBufOffset>>
  <2>1. Len(data) = 0
    BY <1>2, <1>8
  <2>2. acked = 0
    BY <2>1
  <2> HIDE DEF acked
  <2>3. hostAcked' = hostAcked
    BY <1>2, <1>6, <1>8, <2>2
  <2>4. QED
    BY <1>1, <1>5, <1>6, <1>8, <2>3
<1>9. CASE /\ Answer(TRUE) /\ usbRxLen = 0 /\ Len(data) + 3 >= 4 /\ usbRxLen' = Len(data) + 3
           /\ usbRxToken' = usbCurrentTok /\ usbInputBufOffset' = OtherHalf
  <2>1. Waiting = <<>> /\ InTransit = rxBuf
    BY <1>2, <1>9, ConcatEmptySeq DEF Waiting, DataWaiting, InTransit
  <2>2. pc' \notin {"process", "store", "release"}
    BY <1>1, <1>9 DEF IInv, PollInv
  <2>3. usbRxToken' = hostPacket.token
    BY <1>9 DEF Data, IInv, HostInv
  <2>4. CASE hostPacket.token = CdcEndpoint
    <3>1. DataWaiting'
      BY <1>2, <1>9, <2>3, <2>4 DEF DataWaiting
    <3>2. OtherHalf' = usbInputBufOffset /\ usbRxBuf'[usbInputBufOffset] = data
      BY <1>3, <1>4, <1>9 DEF OtherHalf
    <3>3. Waiting' = data
      BY <2>2, <3>1, <3>2 DEF Waiting
    <3>4. InTransit' = InTransit \o data
      BY <1>1, <2>1, <3>3 DEF InTransit
    <3>5. QED
      BY <1>1, <1>6, <1>9, <2>4, <3>4
  <2>5. CASE hostPacket.token # CdcEndpoint
    <3>1. Waiting' = <<>>
      BY <2>3, <2>5 DEF Waiting, DataWaiting
    <3>2. InTransit' = InTransit
      BY <1>1, <2>1, <3>1 DEF InTransit
    <3>3. hostAcked' = hostAcked
      BY <1>2, <1>6, <1>9, <2>5
    <3>4. QED
      BY <1>1, <1>6, <1>9, <3>2, <3>3
  <2>6. QED
    BY <2>4, <2>5
<1>10. QED
  BY <1>7, <1>8, <1>9 DEF Data

LEMMA StreamStep == IInv /\ StreamInv /\ [Next]_vars => StreamInv'
<1> SUFFICES ASSUME IInv, StreamInv, [Next]_vars PROVE StreamInv'
  OBVIOUS
<1> USE DEF StreamInv
<1>0. hostAcked \in Nat
  BY DEF IInv, HostType
<1>1. CASE HostSendsBytes
  <2> PICK n \in 1..OutPacketSize : HostStartsPacket(CdcEndpoint, Stream(n))
    BY <1>1 DEF HostSendsBytes
  <2>1. n \in Nat
    BY ReceiveAssumption
  <2>2. Stream(n) \in Seq(Nat) /\ Len(Stream(n)) = n /\ \A i \in 1..n : Stream(n)[i] = hostAcked + i
    BY <1>0, <2>1 DEF Stream
  <2>3. hostPacket'.data = Stream(n) /\ hostAcked' = hostAcked
    BY DEF HostStartsPacket
  <2>4. QED
    BY <2>2, <2>3
<1>2. CASE HostSendsOther
  <2>1. CASE HostStartsPacket(CdcEndpoint, <<>>)
    BY <2>1, EmptySeq DEF HostStartsPacket
  <2>2. CASE \E token \in {SETUP, OUT} : HostStartsPacket(token, ControlData)
    BY <2>2 DEF HostStartsPacket, SETUP, OUT, CdcEndpoint
  <2>3. QED
    BY <1>2, <2>1, <2>2 DEF HostSendsOther
<1>3. CASE Data
  <2>1. hostPacket' = NoPacket \/ UNCHANGED <<hostPacket, hostAcked>>
    BY <1>3 DEF Data, Answer
  <2>2. QED
    BY <2>1 DEF NoPacket, NoToken, CdcEndpoint
<1>4. CASE Begin \/ End
  BY <1>4 DEF Begin, End, Reconnect, NoPacket, NoToken, CdcEndpoint
<1>5. CASE Token \/ Main \/ Call \/ UNCHANGED vars
  BY <1>5 DEF Token, Main, Call, Poll, Process, Store, Pause, Release, Resume, Return, vars, hostVars
<1>6. QED
  BY <1>1, <1>2, <1>3, <1>4, <1>5 DEF Next, Host, Interrupt

\* All steps but the interrupt's, begin() and end() keep what was received, and
\* what the host believes of it.
LEMMA ReceivedKept ==
    ASSUME IInv, IInv', Host \/ Token \/ Call \/ Main \/ UNCHANGED vars
    PROVE  Received' = Received /\ UNCHANGED <<hostAcked, lostAcks, discarded>>
<1>1. UNCHANGED <<hostAcked, lostAcks, discarded>>
  BY DEF Host, HostSendsBytes, HostSendsOther, HostStartsPacket, Token, Call, Main, Poll, Process,
     Store, Pause, Release, Resume, Return, vars, hostVars, historyVars
<1>2. CASE Return
  <2>1. Channel!Deliver \/ UNCHANGED Channel!vars
    BY <1>2, StepReturn
  <2>2. QED
    BY <1>1, <2>1 DEF Channel!Deliver, Channel!vars, Received
<1>3. CASE Host \/ Token \/ Call \/ UNCHANGED vars \/ Poll \/ Process \/ Pause \/ Release \/ Resume
  <2>1. UNCHANGED Channel!vars
    BY <1>3, StepHost, StepMain
  <2>2. QED
    BY <1>1, <2>1 DEF Channel!vars, Received
<1>4. CASE Store
  <2>1. UNCHANGED Channel!vars
    BY <1>4, StepStore
  <2>2. QED
    BY <1>1, <2>1 DEF Channel!vars, Received
<1>5. QED
  BY <1>2, <1>3, <1>4 DEF Main

\* What a packet adds.
LEMMA ReceivedGrows ==
    ASSUME IInv, StreamInv, KeptInv, OrderInv, Data
    PROVE  KeptInv' /\ OrderInv'
<1> DEFINE data == hostPacket.data
<1>1. /\ Received \in Seq(Nat) /\ data \in Seq(Nat) /\ Len(data) \in Nat
      /\ hostAcked \in Nat /\ lostAcks \in Nat /\ consumed \in Seq(Nat) /\ InTransit \in Seq(Nat)
  BY ReceivedType DEF IInv, HostType
<1>2. UNCHANGED <<consumed, discarded>> /\ lostAcks' \in {lostAcks, lostAcks + 1}
  BY DataAppends
<1>3. lostAcks' = 0 => lostAcks = 0
  BY <1>1, <1>2
<1>4. CASE InTransit' = InTransit /\ hostAcked' = hostAcked
  <2>1. Received' = Received
    BY <1>2, <1>4 DEF Received
  <2>2. QED
    BY <1>2, <1>3, <1>4, <2>1 DEF KeptInv, OrderInv
<1>5. CASE /\ InTransit' = InTransit \o data /\ hostPacket.token = CdcEndpoint
           /\ \/ hostAcked' = hostAcked + Len(data)
              \/ hostAcked' = hostAcked /\ lostAcks' = lostAcks + 1
  <2>1. Received' = Received \o data
    <3>1. Cat(Cat(consumed, InTransit), data) = Cat(consumed, Cat(InTransit, data))
      <4> HIDE DEF data
      <4>1. QED
        BY <1>1, Associative
    <3>2. Received' = consumed \o (InTransit \o data)
      BY <1>2, <1>5 DEF Received
    <3>3. QED
      BY <3>1, <3>2, Zenon DEF Received, Cat
  <2>2. \A i \in 1..Len(data) : data[i] = hostAcked + i
    BY <1>5 DEF StreamInv
  <2> HIDE DEF data
  <2>3. Elements(Received') = Elements(Received) \cup Elements(data)
    BY <1>1, <2>1, ElementsOfConcat
  <2>4. KeptInv'
    <3> SUFFICES ASSUME NEW b \in 1..hostAcked' PROVE b \in Elements(Received') \/ b \in discarded
      BY <1>2 DEF KeptInv
    <3>1. hostAcked' \in Nat /\ hostAcked' <= hostAcked + Len(data)
      BY <1>1, <1>5
    <3>2. CASE b <= hostAcked
      <4>1. b \in 1..hostAcked
        BY <1>1, <3>1, <3>2
      <4>2. QED
        BY <2>3, <4>1 DEF KeptInv
    <3>3. CASE b > hostAcked
      <4>1. b - hostAcked \in 1..Len(data) /\ hostAcked + (b - hostAcked) = b
        BY <1>1, <3>1, <3>3
      <4>2. data[b - hostAcked] = b
        BY <2>2, <4>1
      <4>3. b \in Elements(data)
        BY <4>1, <4>2 DEF Elements
      <4>4. QED
        BY <2>3, <4>3
    <3>4. QED
      BY <1>1, <3>1, <3>2, <3>3
  <2>5. OrderInv'
    <3> SUFFICES ASSUME lostAcks' = 0 PROVE Ascends(Received', hostAcked')
      BY DEF OrderInv
    <3>1. Ascends(Received, hostAcked) /\ hostAcked' = hostAcked + Len(data)
      BY <1>1, <1>3, <1>5 DEF OrderInv
    <3>2. Ascends(Received \o data, hostAcked + Len(data))
      BY <1>1, <2>2, <3>1, AscendsConcat
    <3>3. QED
      BY <2>1, <3>1, <3>2, Zenon
  <2>6. QED
    BY <2>4, <2>5
<1>6. QED
  BY <1>4, <1>5, DataAppends

\* begin() and end() discard what is in the ring buffer, and account for it.
LEMMA ReceivedDropped ==
    ASSUME IInv, KeptInv, OrderInv, NEW up, Reconnect(up)
    PROVE  KeptInv' /\ OrderInv'
<1>1. /\ consumed \in Seq(Nat) /\ rxBuf \in Seq(Nat) /\ Waiting \in Seq(Nat)
      /\ InTransit \in Seq(Nat) /\ hostAcked \in Nat
  BY ReceivedType DEF IInv, HostType
<1>2. /\ UNCHANGED <<usbRxLen, usbRxToken, usbRxBuf, usbInputBufOffset, pc, qw, consumed,
                     hostAcked, lostAcks>>
      /\ rxBuf' = <<>> /\ discarded' = discarded \cup Elements(rxBuf)
  BY DEF Reconnect, sharedVars, Elements
<1>3. Waiting' = Waiting
  BY <1>2 DEF Waiting, DataWaiting, OtherHalf
<1>4. Received' = consumed \o Waiting
  BY <1>1, <1>2, <1>3, ConcatEmptySeq DEF Received, InTransit
<1>5. Received = (consumed \o rxBuf) \o Waiting
  <2>1. Cat(Cat(consumed, rxBuf), Waiting) = Cat(consumed, Cat(rxBuf, Waiting))
    BY <1>1, Associative
  <2>2. QED
    BY <2>1, Zenon DEF Cat, Received, InTransit
<1>6. KeptInv'
  <2>1. Elements(Received) = Elements(consumed) \cup Elements(InTransit)
    BY <1>1, ElementsOfConcat DEF Received
  <2>2. Elements(InTransit) = Elements(rxBuf) \cup Elements(Waiting)
    BY <1>1, ElementsOfConcat DEF InTransit
  <2>3. Elements(Received') = Elements(consumed) \cup Elements(Waiting)
    BY <1>1, <1>4, ElementsOfConcat
  <2>4. QED
    BY <1>2, <2>1, <2>2, <2>3 DEF KeptInv
<1>7. OrderInv'
  <2> SUFFICES ASSUME lostAcks = 0 PROVE Ascends(consumed \o Waiting, hostAcked)
    BY <1>2, <1>4, Zenon DEF OrderInv
  <2>1. Ascends((consumed \o rxBuf) \o Waiting, hostAcked)
    BY <1>5, Zenon DEF OrderInv
  <2>2. QED
    BY <1>1, <2>1, AscendsDrop
<1>8. QED
  BY <1>6, <1>7

LEMMA StreamCorrect == Spec => []SInv
<1>1. Init => SInv
  <2> SUFFICES ASSUME Init PROVE SInv
    OBVIOUS
  <2>1. IInv
    BY InvInit
  <2>2. Waiting = <<>> /\ rxBuf = <<>> /\ consumed = <<>>
    BY DEF Init, Waiting, DataWaiting
  <2>3. Received = <<>> /\ Len(Received) = 0
    BY <2>2, EmptySeq, ConcatEmptySeq DEF Received, InTransit
  <2>4. 1..0 = {}
    OBVIOUS
  <2>5. StreamInv
    BY DEF Init, StreamInv, NoPacket, NoToken, CdcEndpoint
  <2>6. KeptInv
    BY <2>4 DEF Init, KeptInv
  <2>7. Ascends(Received, hostAcked)
    BY <2>3 DEF Ascends
  <2>8. QED
    BY <2>1, <2>5, <2>6, <2>7 DEF SInv, OrderInv
<1>2. SInv /\ [Next]_vars => SInv'
  <2> SUFFICES ASSUME SInv, [Next]_vars PROVE SInv'
    OBVIOUS
  <2>1. IInv' /\ StreamInv'
    BY InvStep, StreamStep DEF SInv
  <2>2. CASE Host \/ Token \/ Call \/ Main \/ UNCHANGED vars
    <3>1. Received' = Received /\ UNCHANGED <<hostAcked, lostAcks, discarded>>
      BY <2>1, <2>2, ReceivedKept DEF SInv
    <3>2. QED
      BY <2>1, <3>1 DEF SInv, KeptInv, OrderInv
  <2>3. CASE Data
    BY <2>1, <2>3, ReceivedGrows DEF SInv
  <2>4. CASE Begin \/ End
    BY <2>1, <2>4, ReceivedDropped DEF SInv, Begin, End
  <2>5. QED
    BY <2>2, <2>3, <2>4 DEF Next, Interrupt
<1>3. QED
  BY <1>1, <1>2, PTL DEF Spec

\* AckedBytesKept: however the interrupt preempts the main program, however
\* often ACKs are lost and the port is opened and closed, a byte the host was
\* given an ACK for is returned by read(), waits for it or was discarded.
THEOREM KeptCorrect == Spec => []AckedBytesKept
<1>1. SInv => AckedBytesKept
  BY DEF SInv, KeptInv, AckedBytesKept, Kept, Elements, Received
<1>2. QED
  BY <1>1, StreamCorrect, PTL

\* ReceivedOnceInOrder: as long as no ACK is lost, each byte is received at
\* most once and in its order, whatever was answered with NAK and repeated.
THEOREM OnceInOrderCorrect == Spec => []ReceivedOnceInOrder
<1>1. SInv => ReceivedOnceInOrder
  <2> SUFFICES ASSUME SInv, lostAcks = 0, NEW i \in 1..(Len(Received) - 1)
               PROVE  Received[i] < Received[i + 1]
    BY DEF ReceivedOnceInOrder, Received
  <2>1. Len(Received) \in Nat
    BY ReceivedType, LenProperties DEF SInv
  <2>2. i \in 1..Len(Received) /\ i + 1 \in 1..Len(Received) /\ i < i + 1
    BY <2>1
  <2>3. QED
    BY <2>2 DEF SInv, OrderInv, Ascends
<1>2. QED
  BY <1>1, StreamCorrect, PTL
=============================================================================
