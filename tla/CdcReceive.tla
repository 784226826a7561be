---------------------------- MODULE CdcReceive ----------------------------
(***************************************************************************)
(* The receive path: OUT packets from the host to the sketch.              *)
(*                                                                         *)
(* Three actors share its state.  The host sends a token and then a data   *)
(* packet, and repeats both until it is given an ACK.  The USB interrupt   *)
(* handles each of them in one go (asmcommon.inc), at any point of the     *)
(* main program, which it preempts and which cannot preempt it.  The main  *)
(* program is the sketch, calling read() and the other methods, which all  *)
(* run usbPollWrapper(): pc steps through it one access to the shared      *)
(* variables at a time.                                                    *)
(*                                                                         *)
(* Bytes are numbered in the order in which the host sends them.  The ring *)
(* buffer is the queue that module RingBuffer is shown to implement.       *)
(***************************************************************************)
EXTENDS Integers, Sequences

CONSTANTS
    RxSize,         \* bytes of the receive buffer: digiCdcBufferSizes[1]
    OutPacketSize,  \* wMaxPacketSize of the bulk OUT endpoint
    HostBytes,      \* bound: bytes the host ever sends to the port
    MaxOther,       \* bound: zero-length and endpoint 0 packets it ever sends
    MaxLostAcks,    \* bound: ACKs lost on the bus
    MaxSessions     \* bound: calls to begin() and end()

\* DigiCDCDescriptor.h: the receive buffer must hold at least one USB packet.
\* Up to 128 bytes the ring buffer is a queue: see RingBuffer!NoWrap.
ASSUME ReceiveAssumption ==
    /\ OutPacketSize \in 1..8
    /\ RxSize \in OutPacketSize..128
    /\ {HostBytes, MaxOther, MaxLostAcks, MaxSessions} \subseteq Nat

VARIABLES
    \* Shared by the interrupt and the main program.
    usbRxLen,           \* 0: buffer free, -1: paused, else PID + data + CRC
    usbRxToken,         \* what the packet in usbRxBuf answers: an endpoint or a PID
    usbRxBuf,           \* two halves: one receives, the other is processed
    usbInputBufOffset,  \* the half that receives
    usbCurrentTok,      \* the last token addressed to the device
    \* The main program.
    pc,
    op,                 \* the method the sketch called
    len,                \* usbPoll: bytes of data in the packet
    half,               \* usbPoll: the half it processes
    qw,                 \* usbFunctionWriteOut: bytes of it already stored
    rxBuf,              \* the receive ring buffer
    \* The host.
    connected,
    hostPhase,          \* where its current transaction is
    hostPacket,         \* what that transaction carries
    hostAcked,          \* bytes of its stream it was given an ACK for
    other, lostAcks,
    \* History.
    consumed,           \* the bytes read() has returned
    discarded,          \* the bytes begin() and end() have dropped
    session             \* calls to begin() and end()

sharedVars == <<usbRxLen, usbRxToken, usbRxBuf, usbInputBufOffset, usbCurrentTok>>
mainVars == <<pc, op, len, half, qw, rxBuf>>
hostVars == <<connected, hostPhase, hostPacket, hostAcked, other, lostAcks>>
historyVars == <<consumed, discarded, session>>
vars == <<sharedVars, mainVars, hostVars, historyVars>>

SETUP == 45            \* USBPID_SETUP
OUT == 225             \* USBPID_OUT, for endpoint 0
NoToken == 0
CdcEndpoint == 1       \* the bulk OUT endpoint's number, as usbCurrentTok holds it
USB_BUFSIZE == 11
Halves == {0, USB_BUFSIZE}

-----------------------------------------------------------------------------
\* Variants of the definitions below: mistakes this code could contain, or, in
\* the case of MayResumeAlways and MayResumeNever, did in DigisparkCDC.
OtherHalfMissed == USB_BUFSIZE + usbInputBufOffset
MustPauseWhenFull == Len(rxBuf) = RxSize
MayResumeAlways == OutPacketSize <= RxSize - Len(rxBuf)
MayResumeNever == FALSE
ReleasedTooLate == usbRxLen
-----------------------------------------------------------------------------

Free == RxSize - Len(rxBuf)

\* The half that does not receive holds the packet to process.
OtherHalf == USB_BUFSIZE - usbInputBufOffset

\* When usbFunctionWriteOut() pauses input, when usbPollWrapper() resumes it,
\* and what usbPoll() leaves in usbRxLen once a packet is processed.
MustPause == Free < OutPacketSize
MayResume == usbRxLen < 0 /\ Free >= OutPacketSize
Released == IF usbRxLen > 0 THEN 0 ELSE usbRxLen

Stream(n) == [i \in 1..n |-> hostAcked + i]

\* An endpoint 0 packet: eight bytes that are no part of the stream.
ControlData == [i \in 1..8 |-> 0]

NoPacket == [token |-> NoToken, data |-> <<>>]

Init ==
    /\ usbRxLen = 0
    /\ usbRxToken = NoToken
    /\ usbRxBuf = [h \in Halves |-> <<>>]
    /\ usbInputBufOffset = 0
    /\ usbCurrentTok = NoToken
    /\ pc = "idle" /\ op = "refresh" /\ len = 0 /\ half = 0 /\ qw = 0
    /\ rxBuf = <<>>
    /\ connected = FALSE
    /\ hostPhase = "idle" /\ hostPacket = NoPacket /\ hostAcked = 0
    /\ other = 0 /\ lostAcks = 0
    /\ consumed = <<>> /\ discarded = {} /\ session = 0

-----------------------------------------------------------------------------
(* The host, and the interrupt that answers it.                            *)

HostStartsPacket(token, data) ==
    /\ connected
    /\ hostPhase = "idle"
    /\ hostPhase' = "token"
    /\ hostPacket' = [token |-> token, data |-> data]
    /\ UNCHANGED <<sharedVars, mainVars, historyVars, connected, hostAcked, lostAcks>>

HostSendsBytes ==
    \E n \in 1..OutPacketSize :
        /\ hostAcked + n <= HostBytes
        /\ HostStartsPacket(CdcEndpoint, Stream(n))
        /\ UNCHANGED other

HostSendsOther ==
    /\ other < MaxOther
    /\ other' = other + 1
    /\ \/ HostStartsPacket(CdcEndpoint, <<>>)
       \/ \E token \in {SETUP, OUT} : HostStartsPacket(token, ControlData)

\* handleSetupOrOut: the token overwrites the receiving half and is remembered.
Token ==
    /\ hostPhase = "token"
    /\ hostPhase' = "data"
    /\ usbCurrentTok' = hostPacket.token
    /\ usbRxBuf' = [usbRxBuf EXCEPT ![usbInputBufOffset] = <<>>]
    /\ UNCHANGED <<mainVars, historyVars, usbRxLen, usbRxToken, usbInputBufOffset,
                   connected, hostPacket, hostAcked, other, lostAcks>>

\* The handshake reaches the host: an ACK ends the packet, a NAK makes the
\* host send it again.  A lost ACK looks to the host like no answer at all.
Answer(ack) ==
    \/ /\ ack
       /\ hostPhase' = "idle"
       /\ hostPacket' = NoPacket
       /\ hostAcked' = hostAcked + (IF hostPacket.token = CdcEndpoint
                                    THEN Len(hostPacket.data) ELSE 0)
       /\ UNCHANGED lostAcks
    \/ /\ ~ack
       /\ hostPhase' = "token"
       /\ UNCHANGED <<hostPacket, hostAcked, lostAcks>>
    \/ /\ ack
       /\ lostAcks < MaxLostAcks
       /\ lostAcks' = lostAcks + 1
       /\ hostPhase' = "token"
       /\ UNCHANGED <<hostPacket, hostAcked>>

Data ==
    LET cnt == Len(hostPacket.data) + 3 IN
    /\ hostPhase = "data"
    /\ usbRxBuf' = [usbRxBuf EXCEPT ![usbInputBufOffset] = hostPacket.data]
    /\ \/ /\ usbRxLen # 0
          /\ Answer(FALSE)
          /\ UNCHANGED <<usbRxLen, usbRxToken, usbInputBufOffset>>
       \/ /\ usbRxLen = 0 /\ cnt < 4
          /\ Answer(TRUE)
          /\ UNCHANGED <<usbRxLen, usbRxToken, usbInputBufOffset>>
       \/ /\ usbRxLen = 0 /\ cnt >= 4
          /\ usbRxLen' = cnt
          /\ usbRxToken' = usbCurrentTok
          /\ usbInputBufOffset' = OtherHalf
          /\ Answer(TRUE)
    /\ UNCHANGED <<mainVars, historyVars, usbCurrentTok, connected, other>>

-----------------------------------------------------------------------------
(* The main program: usbPollWrapper().                                     *)

\* The sketch calls read(), or a method that does no more than poll.
Call ==
    /\ pc = "idle"
    /\ pc' = "poll"
    /\ op' \in {"read", "refresh"}
    /\ UNCHANGED <<sharedVars, hostVars, historyVars, len, half, qw, rxBuf>>

CallRead == Call /\ op' = "read"

\* usbPoll: "len = usbRxLen - 3; if(len >= 0)".
Poll ==
    /\ pc = "poll"
    /\ len' = usbRxLen - 3
    /\ pc' = IF usbRxLen - 3 >= 0 THEN "process" ELSE "resume"
    /\ UNCHANGED <<sharedVars, hostVars, historyVars, op, half, qw, rxBuf>>

\* usbProcessRx: endpoint 0 packets are the control pipe's, and leave the
\* receive buffer alone.
Process ==
    /\ pc = "process"
    /\ half' = OtherHalf
    /\ qw' = 0
    /\ pc' = IF usbRxToken < 16 THEN "store" ELSE "release"
    /\ UNCHANGED <<sharedVars, hostVars, historyVars, op, len, rxBuf>>

\* usbFunctionWriteOut: one byte, skipped when the buffer is full.
Store ==
    /\ pc = "store" /\ qw < len
    /\ rxBuf' = IF Free = 0 THEN rxBuf ELSE Append(rxBuf, usbRxBuf[half][qw + 1])
    /\ qw' = qw + 1
    /\ UNCHANGED <<sharedVars, hostVars, historyVars, pc, op, len, half>>

\* The end of usbFunctionWriteOut: usbDisableAllRequests().
Pause ==
    /\ pc = "store" /\ qw = len
    /\ usbRxLen' = IF MustPause THEN -1 ELSE usbRxLen
    /\ pc' = "release"
    /\ UNCHANGED <<hostVars, historyVars, usbRxToken, usbRxBuf, usbInputBufOffset,
                   usbCurrentTok, op, len, half, qw, rxBuf>>

\* usbPoll: the buffer is available again, unless requests are disabled.
Release ==
    /\ pc = "release"
    /\ usbRxLen' = Released
    /\ pc' = "resume"
    /\ UNCHANGED <<hostVars, historyVars, usbRxToken, usbRxBuf, usbInputBufOffset,
                   usbCurrentTok, op, len, half, qw, rxBuf>>

\* usbPollWrapper: usbEnableAllRequests(), once a full packet fits.
Resume ==
    /\ pc = "resume"
    /\ usbRxLen' = IF MayResume THEN 0 ELSE usbRxLen
    /\ pc' = "return"
    /\ UNCHANGED <<hostVars, historyVars, usbRxToken, usbRxBuf, usbInputBufOffset,
                   usbCurrentTok, op, len, half, qw, rxBuf>>

\* read() returns the oldest byte, or -1; the other methods change nothing.
Return ==
    /\ pc = "return"
    /\ pc' = "idle"
    /\ IF op = "read" /\ rxBuf # <<>>
       THEN rxBuf' = Tail(rxBuf) /\ consumed' = Append(consumed, Head(rxBuf))
       ELSE UNCHANGED <<rxBuf, consumed>>
    /\ UNCHANGED <<sharedVars, hostVars, discarded, session, op, len, half, qw>>

\* Both empty the buffer and take the device off the bus, begin() for 250 ms;
\* the host gives up its transaction.  Neither touches what the interrupt and
\* usbPoll() share.
Reconnect(up) ==
    /\ pc = "idle"
    /\ session < MaxSessions
    /\ session' = session + 1
    /\ discarded' = discarded \cup {rxBuf[i] : i \in 1..Len(rxBuf)}
    /\ rxBuf' = <<>>
    /\ connected' = up
    /\ hostPhase' = "idle"
    /\ hostPacket' = NoPacket
    /\ UNCHANGED <<sharedVars, pc, op, len, half, qw, hostAcked, other, lostAcks, consumed>>

Begin == Reconnect(TRUE)
End == Reconnect(FALSE)

-----------------------------------------------------------------------------

Host == HostSendsBytes \/ HostSendsOther
Interrupt == Token \/ Data
Main == Poll \/ Process \/ Store \/ Pause \/ Release \/ Resume \/ Return
Next == Host \/ Interrupt \/ Call \/ Main \/ Begin \/ End

Spec == Init /\ [][Next]_vars

\* The bus keeps moving, the main program keeps running (the interrupt returns
\* to it), and the sketch never stops calling read().
Fairness ==
    /\ WF_vars(Interrupt)
    /\ WF_vars(Main)
    /\ SF_vars(CallRead)

FairSpec == Spec /\ Fairness

-----------------------------------------------------------------------------
(* Properties.                                                             *)

Tokens == {NoToken, CdcEndpoint, SETUP, OUT}

SharedType ==
    /\ usbRxLen \in -1..11
    /\ usbRxToken \in Tokens
    /\ usbRxBuf \in [Halves -> Seq(Nat)]
    /\ usbInputBufOffset \in Halves
    /\ usbCurrentTok \in Tokens

MainType ==
    /\ pc \in {"idle", "poll", "process", "store", "release", "resume", "return"}
    /\ op \in {"read", "refresh"}
    /\ len \in -4..8
    /\ half \in Halves
    /\ qw \in 0..8
    /\ rxBuf \in Seq(Nat)
    /\ Len(rxBuf) <= RxSize

HostType ==
    /\ connected \in BOOLEAN
    /\ hostPhase \in {"idle", "token", "data"}
    /\ hostPacket \in [token : Tokens, data : Seq(Nat)]
    /\ Len(hostPacket.data) <= 8
    /\ hostPacket.token = CdcEndpoint => Len(hostPacket.data) <= OutPacketSize
    /\ hostAcked \in Nat
    /\ other \in Nat
    /\ lostAcks \in Nat

HistoryType ==
    /\ consumed \in Seq(Nat)
    /\ discarded \subseteq Nat
    /\ session \in Nat

\* The variables keep their types; in particular usbRxLen fits a packet and the
\* receive buffer never holds more than RxSize bytes.
TypeOK == SharedType /\ MainType /\ HostType /\ HistoryType

\* The bytes of a received packet that are not in the ring buffer yet.
DataWaiting == usbRxLen > 0 /\ usbRxToken = CdcEndpoint
Waiting ==
    IF ~DataWaiting THEN <<>>
    ELSE LET packet == usbRxBuf[OtherHalf]
         IN  IF pc = "store" THEN SubSeq(packet, qw + 1, Len(packet))
             ELSE IF pc = "release" THEN <<>>
             ELSE packet

InTransit == rxBuf \o Waiting

\* Flow control: a packet that was given an ACK always finds room, so
\* usbFunctionWriteOut() never meets a full buffer and skips a byte.
WaitingPacketFits == Len(InTransit) <= RxSize

\* The bytes read() returns are those of the packets the interrupt accepted,
\* in that order, each once, whatever the interleaving; the buffer's size
\* bounds what is accepted but not read.  Only begin() and end() drop bytes.
Channel == INSTANCE ByteChannel
    WITH Capacity <- RxSize, transit <- InTransit, delivered <- consumed, breaks <- session

ImplementsChannel == Channel!Spec

Kept == {(consumed \o InTransit)[i] : i \in 1..Len(consumed \o InTransit)}

\* A byte the host was given an ACK for is not lost: read() has returned it or
\* will, or begin() or end() has dropped it.
AckedBytesKept == 1..hostAcked \subseteq Kept \cup discarded

\* On a bus that loses nothing each byte of the host's stream is received at
\* most once, in its order, although the host repeats what is given a NAK.
ReceivedOnceInOrder ==
    LET received == consumed \o InTransit
    IN  lostAcks = 0 => \A i \in 1..(Len(received) - 1) : received[i] < received[i + 1]

\* If the sketch keeps reading, a packet the host has for the device, a control
\* request included, is accepted in the end: paused input always resumes.
PacketsAccepted == hostPhase # "idle" ~> hostPhase = "idle"

\* If the sketch keeps reading, it gets what the host was given an ACK for: the
\* stream is finite, so it catches up again and again.
AckedBytesRead ==
    []<>(1..hostAcked \subseteq {consumed[i] : i \in 1..Len(consumed)} \cup discarded)
=============================================================================
