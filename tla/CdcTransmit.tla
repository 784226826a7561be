---------------------------- MODULE CdcTransmit ----------------------------
(***************************************************************************)
(* The transmit path: bytes from the sketch to the host.                   *)
(*                                                                         *)
(* write() queues a byte in the ring buffer txBuf.  Every run of           *)
(* usbPollWrapper() fills the packet tmp from it and, when the endpoint's  *)
(* buffer usbTxStatus1 is free, hands the packet over.  The USB interrupt  *)
(* sends it when the host polls the endpoint, and frees the buffer at      *)
(* once, without waiting for the host's ACK.  write() and flush() wait for *)
(* the host, but not for ever: time passes in Tick.                        *)
(*                                                                         *)
(* The interrupt may run between any two accesses of the main program to   *)
(* usbTxStatus1, the only variable they share; pc steps through these.     *)
(* Bytes are numbered in the order in which write() accepts them.          *)
(*                                                                         *)
(* Packets carry DATA0 and DATA1 in turn, and the host takes one with the  *)
(* token of the one before for a repetition.  A standard request can put   *)
(* the tokens of the two sides out of step: SET_CONFIGURATION, with which  *)
(* an enumeration after a bus reset ends, and SET_INTERFACE make the host  *)
(* start over with DATA0, and only the second makes the device start over. *)
(***************************************************************************)
EXTENDS Integers, Sequences, FiniteSets

CONSTANTS
    TxSize,         \* bytes of the transmit buffer: digiCdcBufferSizes[0]
    InPacketSize,   \* wMaxPacketSize of the bulk IN endpoint
    HostTimeout,    \* HOST_TIMEOUT_MS, in ticks
    MaxBytes,       \* bound: bytes write() ever accepts
    MaxRequests,    \* bound: class requests of the host
    MaxRestarts,    \* bound: its SET_CONFIGURATION and SET_INTERFACE requests
    MaxFailed,      \* bound: IN transactions that fail on the bus
    MaxSessions     \* bound: calls to begin() and end()

\* The sizes for which the ring buffer is a queue: see RingBuffer!NoWrap.
ASSUME TransmitAssumption ==
    /\ InPacketSize \in 1..8
    /\ TxSize \in 1..128
    /\ {HostTimeout, MaxBytes, MaxRequests, MaxRestarts, MaxFailed, MaxSessions} \subseteq Nat

VARIABLES
    \* Shared by the interrupt and the main program.
    usbTxStatus1,       \* token, buffer and whether usbTxLen1 says "NAK"
    \* The main program.
    txBuf,              \* the transmit ring buffer
    tmp,                \* the next packet: tmp[0] .. tmp[index - 1]
    sendEmptyFrame,
    hostStalled,
    pc,
    op,                 \* the method the sketch called
    result,             \* what it has returned, if anything
    pending,            \* waitForHost: txPending() when it last went down
    elapsed,            \* waitForHost: time since start
    \* The host.
    connected,
    expected,           \* data token of the next new packet
    received,           \* the bytes it has received
    transferOpen,       \* its last packet was full, so that it waits for more
    requests, restarts, failed,
    dropped,            \* packets it took for a repetition
    \* History.
    written,            \* bytes write() has accepted
    age,                \* how long the packet in usbTxStatus1 has been on offer
    session             \* calls to begin() and end()

bufferVars == <<txBuf, tmp, sendEmptyFrame, hostStalled>>
callVars == <<pc, op, result, pending, elapsed>>
hostVars == <<connected, expected, received, transferOpen, requests, restarts, failed, dropped>>
historyVars == <<written, age, session>>
vars == <<usbTxStatus1, bufferVars, callVars, hostVars, historyVars>>

-----------------------------------------------------------------------------
\* Variants of the definitions below: mistakes this code could contain.
AlwaysReady == TRUE
MustWaitForBytes ==
    IF op = "flush" THEN pending > 0 ELSE Len(txBuf) = TxSize
RefilledWithoutLimit == Len(txBuf)
AlwaysEndsTransfer == TRUE
SameToken == usbTxStatus1.token
TimedOutEarly == hostStalled \/ elapsed >= HostTimeout
TimedOutNever == hostStalled
IndexKept == tmp
-----------------------------------------------------------------------------

\* usbInterruptIsReady(): the packet handed over last has been sent.
IsReady == usbTxStatus1.nak

txPending == Len(txBuf) + Len(tmp)

\* waitForHost(all), for flush(); waitForHost(false), for write().
MustWait ==
    IF op = "flush" THEN pending > 0 \/ sendEmptyFrame \/ ~IsReady
                    ELSE Len(txBuf) = TxSize

\* What usbPollWrapper() moves from the ring buffer to the packet.
Refilled ==
    LET room == InPacketSize - Len(tmp)
    IN  IF Len(txBuf) < room THEN Len(txBuf) ELSE room

\* After a packet the host waits for more if it is full.
EndsTransfer == Len(tmp) # InPacketSize

\* usbGenericSetInterrupt() toggles between DATA0 and DATA1, unless it writes
\* over a packet the host has not taken.
NextToken == IF usbTxStatus1.nak THEN 1 - usbTxStatus1.token ELSE usbTxStatus1.token

USB_INITIAL_DATATOKEN == 1

\* usbResetDataToggling() writes the token of the packet handed over last, on
\* offer or not; the next packet carries the other one.
usbResetDataToggling == [usbTxStatus1 EXCEPT !.token = USB_INITIAL_DATATOKEN]

\* What tmp[0] .. tmp[index - 1] holds after "index = 0".
IndexReset == <<>>

\* waitForHost(): the host has taken nothing since start.
MadeProgress == txPending < pending
TimedOut == hostStalled \/ elapsed > HostTimeout

\* In waitForHost(), as opposed to in refresh() or at the end of write().
InWait == op \in {"write", "flush"} /\ result = "none"

AfterPoll == IF InWait THEN "decide" ELSE "idle"

\* The state usbBegin() leaves the first time.
Init ==
    /\ usbTxStatus1 = [nak |-> TRUE, token |-> USB_INITIAL_DATATOKEN, buffer |-> <<>>]
    /\ txBuf = <<>> /\ tmp = <<>> /\ sendEmptyFrame = FALSE /\ hostStalled = FALSE
    /\ pc = "idle" /\ op = "refresh" /\ result = "none" /\ pending = 0 /\ elapsed = 0
    /\ connected = TRUE /\ expected = 0 /\ received = <<>> /\ transferOpen = FALSE
    /\ requests = 0 /\ restarts = 0 /\ failed = 0 /\ dropped = 0
    /\ written = 0 /\ age = 0 /\ session = 0

-----------------------------------------------------------------------------
(* The sketch calls a method.                                              *)

Call(method, start) ==
    /\ pc = "idle"
    /\ pc' = start
    /\ op' = method
    /\ result' = "none"
    /\ elapsed' = 0
    /\ UNCHANGED <<usbTxStatus1, bufferVars, hostVars, historyVars>>

CallWrite == written < MaxBytes /\ Call("write", "test") /\ pending' = txPending
CallFlush == Call("flush", "test") /\ pending' = txPending

\* refresh(), read() and every other method that only runs usbPollWrapper().
CallRefresh == Call("refresh", "poll") /\ UNCHANGED pending

\* The condition of waitForHost()'s loop.  When write() leaves it, it queues
\* the byte and runs usbPollWrapper() once.
Test ==
    /\ pc = "test"
    /\ IF MustWait
       THEN pc' = "poll" /\ UNCHANGED <<result, hostStalled, txBuf, written>>
       ELSE /\ result' = "ok"
            /\ IF op = "flush"
               THEN pc' = "idle" /\ UNCHANGED <<hostStalled, txBuf, written>>
               ELSE /\ pc' = "poll"
                    /\ hostStalled' = FALSE
                    /\ written' = written + 1
                    /\ txBuf' = Append(txBuf, written + 1)
    /\ UNCHANGED <<usbTxStatus1, hostVars, tmp, sendEmptyFrame, op, pending, elapsed,
                   age, session>>

\* waitForHost() after refresh(): progress, timeout, or another round.
Decide ==
    /\ pc = "decide"
    /\ \/ /\ MadeProgress
          /\ pending' = txPending /\ elapsed' = 0 /\ hostStalled' = FALSE
          /\ pc' = "test" /\ UNCHANGED result
       \/ /\ ~MadeProgress /\ TimedOut
          /\ hostStalled' = TRUE
          /\ pc' = "idle" /\ result' = "failed" /\ UNCHANGED <<pending, elapsed>>
       \/ /\ ~MadeProgress /\ ~TimedOut
          /\ pc' = "test" /\ UNCHANGED <<hostStalled, result, pending, elapsed>>
    /\ UNCHANGED <<usbTxStatus1, hostVars, historyVars, txBuf, tmp, sendEmptyFrame, op>>

-----------------------------------------------------------------------------
(* usbPollWrapper().                                                       *)

\* The host starts over with DATA0 and gives up the transfer it waits for.
HostRestarts == expected' = 0 /\ transferOpen' = FALSE

NoRequest == UNCHANGED <<usbTxStatus1, sendEmptyFrame, expected, transferOpen, requests, restarts>>

\* usbFunctionSetup(): a class request such as SET_CONTROL_LINE_STATE asks for
\* an empty packet.
ClassRequest ==
    /\ requests < MaxRequests
    /\ requests' = requests + 1
    /\ sendEmptyFrame' = TRUE
    /\ UNCHANGED <<usbTxStatus1, expected, transferOpen, restarts>>

\* SET_CONFIGURATION, after a bus reset or without one: neither changes
\* anything of this endpoint in the device.
SetConfiguration ==
    /\ restarts < MaxRestarts
    /\ restarts' = restarts + 1
    /\ HostRestarts
    /\ UNCHANGED <<usbTxStatus1, sendEmptyFrame, requests>>

\* SET_INTERFACE: the device starts over whatever the interface is, the host
\* only if it is this endpoint's, and the request succeeds.
SetInterface ==
    /\ restarts < MaxRestarts
    /\ restarts' = restarts + 1
    /\ usbTxStatus1' = usbResetDataToggling
    /\ HostRestarts \/ UNCHANGED <<expected, transferOpen>>
    /\ UNCHANGED <<sendEmptyFrame, requests>>

\* usbPoll(), which processes at most one request, and then the packet is
\* filled.  From the request to its end, of which the device sees nothing,
\* the host does not poll the endpoint it starts over with.
Poll ==
    /\ pc = "poll"
    /\ pc' = "ready"
    /\ \/ NoRequest
       \/ connected /\ (ClassRequest \/ SetConfiguration \/ SetInterface)
    /\ tmp' = tmp \o SubSeq(txBuf, 1, Refilled)
    /\ txBuf' = SubSeq(txBuf, Refilled + 1, Len(txBuf))
    /\ UNCHANGED <<historyVars, hostStalled, op, result, pending, elapsed, connected,
                   received, failed, dropped>>

\* "if(usbInterruptIsReady())": an empty packet is sent only if no byte waits.
Ready ==
    /\ pc = "ready"
    /\ pc' = IF IsReady /\ (tmp # <<>> \/ sendEmptyFrame) THEN "copy" ELSE AfterPoll
    /\ UNCHANGED <<usbTxStatus1, bufferVars, hostVars, historyVars, op, result, pending, elapsed>>

\* usbGenericSetInterrupt(): a packet still on offer is withdrawn; the token and
\* the bytes, and only then the length.
Copy ==
    /\ pc = "copy"
    /\ pc' = "arm"
    /\ usbTxStatus1' = [nak |-> TRUE, token |-> NextToken, buffer |-> tmp]
    /\ UNCHANGED <<bufferVars, hostVars, historyVars, op, result, pending, elapsed>>

Arm ==
    /\ pc = "arm"
    /\ pc' = "mark"
    /\ usbTxStatus1' = [usbTxStatus1 EXCEPT !.nak = FALSE]
    /\ age' = 0
    /\ UNCHANGED <<bufferVars, hostVars, op, result, pending, elapsed, written, session>>

\* Only a full packet asks for an empty one after it; index = 0.
Mark ==
    /\ pc = "mark"
    /\ pc' = AfterPoll
    /\ sendEmptyFrame' = ~EndsTransfer
    /\ tmp' = IndexReset
    /\ UNCHANGED <<usbTxStatus1, hostVars, historyVars, txBuf, hostStalled, op, result,
                   pending, elapsed>>

-----------------------------------------------------------------------------
(* The interrupt, the host and time.                                       *)

\* handleIn1: the host polls the endpoint while a packet is on offer, and the
\* buffer is free from then on.  The host takes a packet with the token of the
\* one before for a repetition.  If the transaction fails it gets nothing.
HostTakes ==
    /\ connected /\ ~usbTxStatus1.nak
    /\ usbTxStatus1' = [usbTxStatus1 EXCEPT !.nak = TRUE]
    /\ \/ /\ usbTxStatus1.token = expected
          /\ expected' = 1 - expected
          /\ received' = received \o usbTxStatus1.buffer
          /\ transferOpen' = (Len(usbTxStatus1.buffer) = InPacketSize)
          /\ UNCHANGED <<failed, dropped>>
       \/ /\ usbTxStatus1.token # expected
          /\ dropped' = dropped + 1
          /\ UNCHANGED <<expected, received, transferOpen, failed>>
       \/ /\ failed < MaxFailed
          /\ failed' = failed + 1
          /\ UNCHANGED <<expected, received, transferOpen, dropped>>
    /\ UNCHANGED <<bufferVars, callVars, historyVars, connected, requests, restarts>>

\* A tick; neither clock is read once it has passed HostTimeout.
Later(clock) == IF clock <= HostTimeout THEN clock + 1 ELSE clock

Tick ==
    /\ elapsed' = IF pc # "idle" /\ InWait THEN Later(elapsed) ELSE elapsed
    /\ age' = IF usbTxStatus1.nak THEN age ELSE Later(age)
    /\ <<elapsed, age>>' # <<elapsed, age>>
    /\ UNCHANGED <<usbTxStatus1, bufferVars, hostVars, pc, op, result, pending, written, session>>

\* usbBegin(): off the bus and on again; the host starts over with DATA0.  tmp
\* and index are left alone, and what they hold goes out first.
Begin ==
    /\ pc = "idle" /\ session < MaxSessions
    /\ session' = session + 1
    /\ usbTxStatus1' = [usbResetDataToggling EXCEPT !.nak = TRUE]
    /\ txBuf' = <<>> /\ sendEmptyFrame' = FALSE /\ hostStalled' = FALSE
    /\ connected' = TRUE /\ HostRestarts
    /\ UNCHANGED <<callVars, tmp, received, requests, restarts, failed, dropped, written, age>>

\* end() only disconnects: of the buffers it empties the other one.
End ==
    /\ pc = "idle" /\ session < MaxSessions
    /\ session' = session + 1
    /\ connected' = FALSE /\ transferOpen' = FALSE
    /\ UNCHANGED <<usbTxStatus1, bufferVars, callVars, expected, received, requests, restarts,
                   failed, dropped, written, age>>

-----------------------------------------------------------------------------

Calls == CallWrite \/ CallFlush \/ CallRefresh
Main == Test \/ Decide \/ Poll \/ Ready \/ Copy \/ Arm \/ Mark
Next == Calls \/ Main \/ HostTakes \/ Tick \/ Begin \/ End

Spec == Init /\ [][Next]_vars

\* The main program runs, its clock advances and the sketch keeps calling.
\* Nothing is assumed of the host, which may never take a packet.
Fairness == WF_vars(Main) /\ WF_vars(Tick) /\ WF_vars(Calls)

FairSpec == Spec /\ Fairness

-----------------------------------------------------------------------------
(* Properties.                                                             *)

BufferType ==
    /\ usbTxStatus1 \in [nak : BOOLEAN, token : {0, 1}, buffer : Seq(Nat)]
    /\ Len(usbTxStatus1.buffer) <= InPacketSize
    /\ txBuf \in Seq(Nat) /\ Len(txBuf) <= TxSize
    /\ tmp \in Seq(Nat) /\ Len(tmp) <= InPacketSize
    /\ sendEmptyFrame \in BOOLEAN
    /\ hostStalled \in BOOLEAN

CallType ==
    /\ pc \in {"idle", "test", "poll", "ready", "copy", "arm", "mark", "decide"}
    /\ op \in {"write", "flush", "refresh"}
    /\ result \in {"none", "ok", "failed"}
    /\ pending \in 0..(TxSize + InPacketSize)
    /\ elapsed \in 0..(HostTimeout + 1)

HostType ==
    /\ connected \in BOOLEAN
    /\ expected \in {0, 1}
    /\ received \in Seq(Nat)
    /\ transferOpen \in BOOLEAN
    /\ {requests, restarts, failed, dropped} \subseteq Nat

HistoryType ==
    /\ written \in Nat
    /\ age \in 0..(HostTimeout + 1)
    /\ session \in Nat

\* The variables keep their types: no packet is larger than the endpoint's,
\* whatever fills tmp, and write() never overflows the ring buffer.
TypeOK == BufferType /\ CallType /\ HostType /\ HistoryType

\* The bytes write() accepted that are still on their way, oldest first.
InTransit ==
    (IF usbTxStatus1.nak THEN <<>> ELSE usbTxStatus1.buffer)
    \o (IF pc = "mark" THEN <<>> ELSE tmp)
    \o txBuf

\* Bytes reach the host in the order write() accepted them, each once,
\* however the interrupt and the main program interleave and whatever requests
\* the host makes.  Only three things drop bytes: begin(), a transaction that
\* fails, and a packet the host takes for a repetition.
Channel == INSTANCE ByteChannel
    WITH Capacity <- TxSize + 2 * InPacketSize, transit <- InTransit, delivered <- received,
         breaks <- session + failed + dropped

ImplementsChannel == Channel!Spec

\* The host takes a packet for a repetition at most once for every transaction
\* that failed and every request that made a side start over: one packet later
\* the tokens agree again.
DropsBounded == dropped <= failed + restarts

\* The main program leaves a packet on offer alone: usbGenericSetInterrupt()
\* never writes over one that the interrupt may be sending, though it tests for
\* the buffer long before it writes.  Only SET_INTERFACE changes its token.
OfferStays ==
    [][~usbTxStatus1.nak /\ pc' # pc =>
           \/ usbTxStatus1' = usbTxStatus1
           \/ (usbTxStatus1' = usbResetDataToggling /\ restarts' > restarts)]_vars

\* When flush() has succeeded, no byte that was written waits in the device any
\* more, and if the host still waits for the rest of a transfer then because a
\* packet was lost on the way.
FlushMeansTaken ==
    pc = "idle" /\ op = "flush" /\ result = "ok" =>
        InTransit = <<>> /\ (transferOpen => failed + dropped > 0)

\* write() and flush() find the host stalled only when the packet on offer,
\* unless the host has just taken it, has not been taken for HOST_TIMEOUT_MS: as
\* long as the host takes packets in time, no byte is rejected.  Only when no
\* byte waits any more does flush() not see progress: the last packet and the
\* empty one after it must be taken within that time together.
StalledOnlyAfterTimeout ==
    [][~hostStalled /\ hostStalled' =>
           \/ IsReady \/ age > HostTimeout
           \/ op = "flush" /\ txPending = 0 /\ elapsed > HostTimeout]_vars

\* "bytes are rejected immediately until there is room again": if write()
\* returns 0 without waiting for HOST_TIMEOUT_MS, the buffer is full.
RejectsOnlyWhenFull ==
    pc = "idle" /\ op = "write" /\ result = "failed" /\ elapsed <= HostTimeout /\ session = 0
        => Len(txBuf) = TxSize

\* "A zero-length packet is sent only after a full packet": an empty packet is
\* handed over only if the packet before it was full.
EmptyOnlyAfterFull ==
    [][pc = "copy" /\ pc' = "arm" /\ tmp = <<>> => Len(usbTxStatus1.buffer) = InPacketSize]_vars

\* Even if transactions fail, the host receives no byte twice, and those it
\* receives are in order.
ReceivedOnceInOrder ==
    \A i \in 1..(Len(received) - 1) : received[i] < received[i + 1]

Lost ==
    {b \in 1..written : \A i \in 1..Len(received \o InTransit) : (received \o InTransit)[i] # b}

\* A transaction that fails costs its packet and at most one more, which the
\* host takes for a repetition; a request that makes a side start over costs at
\* most the one packet it then takes for a repetition.
LossBounded == session = 0 => Cardinality(Lost) <= InPacketSize * (2 * failed + restarts)

\* write(), flush() and the other methods return, even if the host never
\* takes a packet.
CallsReturn == pc # "idle" ~> pc = "idle"

HostPolls == WF_vars(HostTakes)

Arrived(b) == \E i \in 1..Len(received) : received[i] = b

\* If the host polls the endpoint, every byte write() has accepted reaches it,
\* although the sketch need not call flush(), unless it was lost because a
\* transaction failed or a side started over.
WrittenArrives ==
    HostPolls => \A b \in 1..MaxBytes :
        b <= written ~> Arrived(b) \/ (b \in Lost /\ failed + restarts > 0)

\* If the host polls the endpoint, it is never left waiting for the rest of a
\* transfer: a full packet is followed by another packet, an empty one if
\* need be.  Only a packet lost on the way can cost it that one.
TransfersEnd == HostPolls => (transferOpen ~> ~transferOpen \/ failed + dropped > 0)
=============================================================================
