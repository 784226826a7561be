# DigiCDCFast: specifications, model checking and proofs

DigiCDCFast is a USB serial port (CDC-ACM) for AVR controllers without USB
hardware: V-USB bit-bangs a low-speed device in an interrupt, and a C++ class
offers the sketch `read()`, `write()`, `flush()` and the like. This directory
holds TLA+ modules translated from that code, the configurations under which
TLC checks them, and proofs checked by TLAPS. File names below are relative to
`src/src/` unless they begin with `README.md`, which is the library's own.

1. [The system](#1-the-system): components, state, operations, interactions
2. [The modules](#2-the-modules): what each models and how it corresponds to the code
3. [The runs](#3-the-runs): what each checks, bounds, fairness
4. [The proofs](#4-the-proofs)
5. [What the runs found](#5-what-the-runs-found)
6. [What is not modelled](#6-what-is-not-modelled), and [the plan](#7-plan)

## 1. The system

### Who runs

Three actors. The **host** starts every transaction. The **interrupt** handles
one packet of the bus from its sync pattern to its handshake, with interrupts
disabled, and may come between any two instructions of the main program; the
main program can never come between two of its own. The **main program** is the
sketch, and the library inside its calls: every method runs
`usbPollWrapper()`, directly or through `refresh()`, and that is where V-USB's
`usbPoll()` runs. Nothing is processed between calls. A fourth party is the
clock, `millis()`, read only by `waitForHost()` and `delay()`.

What the interrupt and the main program share decides what can interleave:

| variable | interrupt | main program |
|---|---|---|
| `usbRxLen` | sets it when it accepts a packet; tests it for 0 | 0: buffer free; -1: requests disabled |
| `usbRxToken`, `usbRxBuf`, `usbInputBufOffset` | writes; swaps the halves | reads the other half |
| `usbCurrentTok` | writes and reads | - |
| `usbTxStatus1`, `usbTxStatus3` (length, token, buffer) | reads; marks the length as NAK once sent | fills it when the length says NAK; SET_INTERFACE writes the token whatever it says |
| `usbTxLen`, `usbTxBuf` | the same for endpoint 0 | the same, but also when a SETUP overtakes |
| `usbNewDeviceAddr`, `usbDeviceAddr` | copies the first to the second after a status stage | writes the first |

### Components

| component | state | operations | what makes it correct |
|---|---|---|---|
| Ring buffer, `ringBuffer.h` | `Data`, `Size`, `Out`, `Count`, all 8 bits | init, insert, remove, peek, counts | it is a FIFO; an insertion writes a free slot |
| Receive path, `usbFunctionWriteOut`, `usbPoll`, `usbProcessRx`, `handleSetupOrOut`, `handleData` | `usbRx...`, `rxBuf` | token, data, poll, store, pause, resume, `read()` | no acknowledged byte is lost, repeated or reordered; a paused input resumes |
| Transmit path, `write`, `flush`, `waitForHost`, `usbPollWrapper`, `usbGenericSetInterrupt`, `handleIn1` | `txBuf`, `tmp`, `index`, `sendEmptyFrame`, `hostStalled`, `usbTxStatus1` | fill a packet, hand it over, send it, wait, give up | bytes arrive once and in order; transfers are ended; calls return; success means success |
| Session, `begin`, `end`, `usbBegin` | resets part of everything | connect, disconnect | what survives from an old session does not corrupt the new one |
| Control pipe, `usbdrv.c`, `usbFunctionSetup`, `usbFunctionWrite` | `usbMsgLen`, `usbMsgPtr`, `usbMsgFlags`, `usbTxLen`, `usbConfiguration`, `usbNewDeviceAddr`, `lineCoding` | SETUP, data stages, STALL, SET_ADDRESS | a reply answers the last SETUP only; the address changes after the status stage; requests end |
| Serial state notification | `intr3Status`, `usbTxStatus3` | two packets on endpoint 3 | both pieces by turns; the host hears of the carrier |
| Bus reset and configuration | data tokens, address, configuration | the end of `usbPoll`, SET_CONFIGURATION, SET_INTERFACE | host and device find each other again afterwards |
| Bit level, `usbdrvasm*.inc` | CPU registers, cycle counts | sync, unstuff, sample, stuff, drive | what is received is what was sent |
| CRC, `usbdrvasm.S` | - | `usbCrc16`, `usbCrc16Append` | what is sent passes the receiver's check |
| Calibration, `osccal.c`, `usbHandleResetHook` | `OSCCAL`, `wasReset` | binary and neighbourhood search after a reset | ends, at the best of the neighbouring values, once per reset |
| Descriptors and configuration | constants | - | what the host reads there is what the device does |
| `LatencyProbe.ino` | a timer, `hist`, `samples`, `late`, `maxTicks` | start, interrupt, stop, report | the report is consistent and its samples true |
| Debug output | - | - | - |

Interactions: the sketch calls the class; the class calls `usbPoll()`; V-USB
calls back into the class (`usbFunctionSetup`, `usbFunctionWrite`,
`usbFunctionWriteOut`); the class disables and enables requests through
`usbRxLen`, which also holds the length of a received packet; a control request
can change the transmit path's `sendEmptyFrame` and put its data token out of
step with the host's; a paused input blocks the control pipe too, since both
use `usbRxBuf`.

### What is hard here

* `usbRxLen` has three meanings, and the main program tests and then assigns
  it while the interrupt may do so too (`DigiCDCFast.cpp:223`, `usbdrv.c:586`).
* Flow control is decided in one place and lifted in another, in time for a
  whole packet (`DigiCDCFast.cpp:379`, `:223`).
* The endpoint's buffer is freed before the host has acknowledged the packet
  (`asmcommon.inc:209`), and data toggling is not checked on reception.
* `waitForHost()` measures the host's progress by a count that does not change
  when a byte moves from one buffer to the next (`DigiCDCFast.cpp:51-87`).
* `begin()`, `end()`, a bus reset, SET_CONFIGURATION and SET_INTERFACE each
  reset some variables and leave others. In particular the host starts over with
  DATA0 after either request, and the device only after the second, for both
  endpoints and even while a packet is on offer (`usbdrv.c:403`, `:199`). The host
  then takes a new packet for a repetition and drops it.
* The host may give a request up anywhere and start another one; what is left
  of the old one is in six variables (`usbdrv.c:448`).
* 8-bit arithmetic, in the ring buffer, the lengths of replies, `baud()` and the
  calibration.

`PROJECT.json` lists these, line by line, under "hazards", each with the
property that covers it.

## 2. The modules

### `RingBuffer` and `BoundedFifo`

`RingBuffer` is `ringBuffer.h`: `data`, `out`, `count` are the fields, `Insert`,
`Remove` and `InitBuffer` the functions, with the insertion index truncated to
`Byte` values, as the `uint8_t` does, before it is compared with `Size`. `port`
records what the last operation put in or took out. `BoundedFifo` promises a
queue of `Capacity` values with that same port; `ImplementsFifo` says that the
ring buffer keeps the promise. Callers test for full and empty, so the guards
are theirs. The path modules then use a queue of bounded length for the ring
buffer, for the sizes up to 128 that the proof covers.

### `ByteChannel`

What each direction of the port promises: bytes enter at one end (`Accept`),
leave at the other (`Deliver`), in order, each once, at most `Capacity` inside;
only a break, which `breaks` counts, drops some, and even then what stays is an
unbroken run of what was there. Breaks are `begin()` and `end()` in both paths and,
in the transmit path, a packet that is lost on the bus or that the host takes for
a repetition. Both path modules are shown to implement it.

### `CdcReceive`

| module | code |
|---|---|
| `HostSendsBytes`, `HostSendsOther`, `Answer` | the host (external): it repeats token and data until it sees an ACK |
| `Token` | `handleSetupOrOut`: remembers the token, which overwrites the receiving half |
| `Data` | `handleData`: NAK while `usbRxLen` is not 0, ACK and nothing else for a packet without data, else ACK and swap the halves |
| `Call`, `Return` | `available()`, `read()`, `peek()`, `refresh()`: poll, then perhaps take a byte |
| `Poll`, `Process`, `Release` | `usbPoll()` and the dispatch in `usbProcessRx()` |
| `Store`, `Pause` | `usbFunctionWriteOut()`: its loop, a byte per step, and `usbDisableAllRequests()` |
| `Resume` | `usbEnableAllRequests()` in `usbPollWrapper()` |
| `Begin`, `End` | `begin()`, `end()`: the ring buffer is emptied, what usbPoll() shares with the interrupt is not |

An action of the main program makes at most one access to what the interrupt
writes, or it is atomic for another reason: `Resume` tests `usbRxLen < 0` and
assigns 0 in one step, because the interrupt never writes `usbRxLen` while it
is not 0. For the same reason `Release` may test and assign: it runs with
`usbRxLen # 0`, which `PollInv` of the proofs states. `MayResumeAlways` is the
code without the test for `< 0`, which DigisparkCDC had; for it that argument
fails, and TLC shows the bytes it loses.

Bytes are numbered as the host sends them. Endpoint 0's packets occupy the
buffer like any other and leave it as they came; what they do is for the
control pipe's module. `usbRxLen` counts PID, data and CRC as the code does,
so -1, 0 and 3 keep their meanings.

### `CdcTransmit`

| module | code |
|---|---|
| `CallWrite`, `CallFlush`, `CallRefresh` | the sketch's calls; `write(buffer, size)` is a sequence of `CallWrite` |
| `Test`, `Decide` | the loop of `waitForHost()`: its condition, and what it does after `refresh()`; `Test` goes on to the rest of `write()` |
| `Poll` | the beginning of `usbPollWrapper()`: `usbPoll()`, which may process a request, and the loop that fills `tmp` |
| `ClassRequest`, `SetConfiguration`, `SetInterface` | what a request changes here: `sendEmptyFrame`; the host's token; `usbResetDataToggling()`, and the host's token if the interface is this endpoint's |
| `Ready`, `Copy`, `Arm`, `Mark` | the hand-over: `usbInterruptIsReady()`, token and data, length, and only then `sendEmptyFrame` and `index` |
| `HostTakes` | `handleIn1` when a packet is on offer, and the host's reaction |
| `Tick` | `millis()`; `elapsed` is the wait, `age` how long the packet has been on offer |
| `Begin`, `End` | `usbBegin()`, `end()` |

`usbTxStatus1.nak` stands for bit 4 of the length, which is what
`usbInterruptIsReady()` tests. `tmp` is the array's first `index` bytes. `Copy`
begins, as `usbGenericSetInterrupt()` does, by toggling the token of a free
buffer or withdrawing the packet that is on offer (`NextToken`). The second
never happens, as `OfferStays` says, but it is what the code would do.

Of what `usbPoll()` does, the three kinds of request matter here; the receive path
shares nothing with this one, and a bus reset changes nothing of the endpoint. The
enumeration that follows it ends with SET_CONFIGURATION, which may come at any
`Poll`, and after which the host expects DATA0 and does not wait for the rest of a
transfer (`HostRestarts`), whatever token the device has. A request and the host's
reaction to its end are one action, as the host does not poll an endpoint between
them that it is starting over with. SET_INTERFACE is for this endpoint's
interface, or for the other one, when only the device starts over.

`HostTakes` has three outcomes: the token is the one the host expects and it
takes the bytes; the token is the one of the packet before and the host drops
the packet as a repetition (`dropped`); the transaction fails (`failed`). In all
three the device goes on, as the code does.

### `ControlPipe`

| module | code |
|---|---|
| `HostStarts`, `HostSetup`, `HostWrites`, `HostReads`, `HostReadsStatus`, `HostWritesStatus`, `HostStalled` | the stages of a control transfer (the host is external; the interrupt's part is `handleData` in `Store` and `handleIn` in `Sends`) |
| `HostMisses`, `Loses` | a packet that is lost, or that the host takes for a repetition |
| `ProcessSetup`, `ProcessData`, `NoPacket` | `usbProcessRx()` and the release of the buffer; `SetupReply` is what it makes of a request: `usbDriverSetup()`, `usbDriverDescriptor()`, `usbFunctionDescriptor()`, `usbFunctionSetup()`, then the limit to `wLength` |
| `Build`, `Byte` | `usbBuildTxBlock()`, `usbDeviceRead()` |
| `Line` | the end of `usbPoll()`: what a reset takes away |
| `Notify` | the end of `usbPollWrapper()`: the notification's packets |
| `HostPolls3` | `handleIn3` and the host's reaction |
| `HostResets`, `Begin`, `ResetEnds` | a bus reset; `begin()`, which the host sees as one and which runs `usbInit()` |
| `SetDtrPin`, `Refuses`, `Stored`, `baud` | `setDtrPin()`, `usbFunctionWrite()` with a sketch's `digiCdcAcceptLineCoding()`, `baud()` |
| `ConfigDescriptor`, `Flash`, `USB_CFG_...` | the descriptors, byte by byte |

`pc` steps through one `usbPollWrapper()`. What the host and the interrupt do
comes between any two steps. `ProcessSetup` is one action although it makes
many assignments: while a packet waits in `usbRxBuf`, the interrupt answers
endpoint 0 with NAK and looks at none of them. `Build` is one because the
interrupt reads nothing of `usbTxBuf` before `usbTxLen`, assigned last, says so.

`usbMsg` holds `usbMsgPtr` as an object and an offset into it, so that a flash
address read as RAM, or a byte behind the end of an object, shows: `Byte` gives
`Garbage` then. `usbTx.answer` is what `usbTxLen` says: NAK, STALL, or that a
packet is on offer.

The host enumerates as hosts do: it assigns an address before it configures,
and configures before it uses the interfaces. It may give a request up for
another one at any stage, except SET_ADDRESS, after whose failure it resets. It
does not poll endpoint 3 while it sets the configuration or the interface that
the endpoint belongs to (`Restarting`); with SET_INTERFACE of the other one it
does, and the device's token may change at any time. `restarts` counts these
requests, for `DroppedBounded`.

### `Calibration`

`Poll` is `usbHandleResetHook()` with the `USB_RESET_HOOK` of `osccal.h`;
`Search`, `Neighbours` and `Finish` are `calibrateOscillator()`, one measurement
per action. `length` is what `usbMeasureFrameLength()` gives for each value of
`OSCCAL`: chosen in `Init` among all functions that rise up to `Rises` times and
fall, by up to `Fall`, in the middle of the range, as the oscillators of version
5 do that `osccal.h` speaks of. `InRange` says that `F_CPU` is reached well
inside the range; `Gradual` that one step of `OSCCAL` changes the frequency by
less than `F_CPU` itself. Without the second, the raw frame length with which the
neighbourhood search starts as its `optimumDev` would not be "far away from
optimum", as the comment in `osccal.c` has it, and the search could miss the best
value. Neither is asked of a crystal. A reset may begin and end in the middle of
the calibration; the measurements it overlaps are then any of three values.
`disturbed` records that for the properties, and `due` that the last reset has
not led to a calibration yet; one that begins and ends within a calibration
owes none, as the code cannot have seen it.

### `LatencyProbe`

The one program of the repository, beside the library, with an interrupt of its
own. `Tick` and `EnterInterrupt` are the hardware: the timer in CTC mode, and
the entry into an interrupt, which clears the flag. `UsbInterrupt` is V-USB,
which keeps interrupts disabled at any time for any time. `Isr` is
`ISR(PROBE_VECTOR)`; the pseudo-random period is any of its values. `Loop`,
`Stop`, `PrintCounts` and `PrintBins` are the sketch. `delay`, `missed` and
`matches` say what really happened, for the properties.

## 3. The runs

| run | states | what it shows |
|---|---|---|
| `RingBuffer` | 528 | the FIFO, at a size whose index sum fits the byte |
| `RingBufferLarge` | violation | a size the documents allow and the arithmetic does not (section 5) |
| `CdcReceive` | 962 thousand | types, flow control, acknowledged bytes, order, the channel; paused input resumes, acknowledged bytes are read; all with a lost ACK |
| `CdcTransmit` | 3.7 million | types, `flush()`, the channel and the tokens over three sessions, requests and a failed transaction, packets on offer, time-outs |
| `CdcTransmitFair` | 244 thousand | order and bounded loss when a transaction fails or a side starts over; calls return, bytes arrive, transfers end |
| `TransmitRejects` | violation | a byte rejected although there is room (section 5) |
| `TransmitEmpty` | violation | an empty packet after no full one (section 5) |
| `ControlPipe` | 417 thousand | replies, descriptors, address, line coding, notification; requests end |
| `Calibration` | 864 thousand | the best neighbouring value, once per reset and after the last one; it ends |
| `CalibrationHangs` | violation | it does not end (section 5) |
| `LatencyProbe` | 940 thousand | the report adds up and is of one run, samples are true |
| `LatencyLate` | violation | a late interrupt recorded as a short sample (section 5) |

### Properties

* `ImplementsFifo`: section 2. `InsertUsesFreeSlot` is proved for the sizes of
  `NoWrap`, and checked, and violated, at 129 (section 5).
* `WaitingPacketFits`: a packet that was given an ACK finds room in the ring
  buffer, so the byte-dropping branch of `usbFunctionWriteOut()` never runs.
* `AckedBytesKept`: what the host was told has arrived is in the ring buffer,
  waits in `usbRxBuf`, has been read, or was dropped by `begin()` or `end()`.
  It is checked with a lost ACK as well.
* `ReceivedOnceInOrder` (receive): with no ACK lost, no byte comes twice. With
  one lost it does: `USB_CFG_CHECK_DATA_TOGGLING` is 0, so the device cannot
  tell a repeated packet, and the property is checked only without.
* `ImplementsChannel` (both paths): the refinement of `ByteChannel`.
* `PacketsAccepted`, `AckedBytesRead`: no packet is refused for ever, control
  requests included; every acknowledged byte is read.
* `FlushMeansTaken`: when `flush()` has succeeded, nothing written waits in the
  device, and the host does not wait for more of the transfer unless a packet
  was lost or dropped. It depends on the order of `sendEmptyFrame` and
  `usbSetInterrupt()` and on `pending` lagging behind. The exception is needed, and
  not only for failing transactions: the empty packet at the end, or any other,
  may be dropped after SET_INTERFACE or SET_CONFIGURATION (section 5).
* `OfferStays`: the main program leaves a packet on offer on endpoint 1 alone, but
  for SET_INTERFACE, which changes its token and nothing else of it.
  `usbGenericSetInterrupt()` would withdraw the packet, and could not tell whether
  the interrupt has just sent it; that it never has to depends on
  `usbPollWrapper()`, which asks `usbInterruptIsReady()` several steps before it
  writes. For endpoint 3 it is `NotificationWhole` that breaks without the question.
* `DropsBounded`: the host takes at most one packet for a repetition for every
  transaction that failed and every SET_CONFIGURATION or SET_INTERFACE; one packet
  later the tokens agree again. `begin()` costs none.
* `StalledOnlyAfterTimeout`: `write()` and `flush()` find the host stalled only
  if the packet on offer has been there for longer than `HOST_TIMEOUT_MS`, or
  the host has only just taken it. The count of `txPending()` is not the host's
  progress, so this is not evident from the loop. `flush()` has one more case,
  and TLC shows that it is needed: once `txPending()` is 0 it cannot fall, so
  that the last packet and the empty one after it must be taken within
  `HOST_TIMEOUT_MS` together. A host that takes each in time can be found stalled.
* `ReceivedOnceInOrder` (transmit), `LossBounded`: a failed transaction loses
  its packet and, if the tokens have come apart, the next one, a request that
  makes a side start over one packet; never more, and nothing causes a repetition.
* `CallsReturn`, `WrittenArrives`, `TransfersEnd`: liveness. A written byte arrives
  unless it was lost in one of the ways of `LossBounded`, and a transfer ends unless
  a packet was lost or dropped.
* `ReplyRight`: a request that the host believes done has had its own reply,
  whatever it gave up before. If a packet was lost the reply may be short.
* `ReadsInside`: `usbMsgPtr`, `usbMsgFlags` and `usbMsgLen` always fit together.
* `PacketSizesAgree`: a host that has asked for all of the configuration and
  follows its descriptors by their lengths ends at its last byte, and finds on
  the way the sizes `usbBegin()` reads at fixed offsets.
* `AddressFollowsHost`: the device answers at the address the host uses. The code
  makes the new address its own after any data packet it sends, not only after
  the status stage as `usbdrv.c:27` says; that does no harm, as a host that sends
  SET_ADDRESS reads nothing else before that stage.
* `LineCodingSet`: `baud()` is the rate the host was told is set; after a refusal,
  no refused rate, except the 9600 of `begin()`, which
  `digiCdcAcceptLineCoding()` never sees.
* `NotificationWhole`, `DroppedBounded`: the two packets come by turns, and the
  host takes at most one packet for a repetition for every SET_CONFIGURATION or
  SET_INTERFACE and every lost packet. Other requests, such as the
  SET_CONTROL_LINE_STATE that the packets answer, `begin()` and a reset add nothing.
* `RequestsEnd`, `NotificationArrives`: liveness.
* `BestMatch`, `OncePerReset`, `CalibrationEnds`: the calibration. A calibration
  that a second reset disturbed is exempt from the first and the last.
* `LastResetAnswered`: when the hook has nothing left to do, the last reset has
  had its calibration, or lay within one. A reset that begins in a calibration
  and goes on is not forgotten, although `wasReset` is assigned only at its end.
* `CalibrationAdvances`: every step of a calibration lowers `StepsLeft`, a bound on
  the steps that are left, disturbed or not. Exempt are trial values of 254 and
  255 (`Byte - 2` and `Byte - 1`) on a crystal or after a disturbance: the case of
  `CalibrationHangs`.
* `ReportAddsUp`: the counts and the bins, printed one after the other, belong
  together. `ReportTrue`: the longest sample is in the last bin with any, and the
  samples and late interrupts are no more than the matches. `SamplesTrue`: a
  sample is the delay of its interrupt, also the first of a run; `LateCounted`
  says the same without an exception (section 5).

### Bounds and why they are enough

* `RingBuffer`: 4 slots, a byte of 8 values, 2 values per slot. Every pair of
  `out` and `count` occurs; the proof covers the other sizes.
* `CdcReceive`: a buffer of 3 bytes and packets of 1 or 2, so that a pause
  happens with 0 and with 1 byte free; 4 bytes from the host, so that it happens
  again after a resume; one packet of another kind; one lost ACK; two calls of
  `begin()` or `end()`, so that bytes of an old session meet a new one.
* `CdcTransmit`: a buffer of 1, packets of 2, so full and short ones both occur,
  and 4 bytes. While an empty packet is on offer, or the host is gone, `tmp` and
  the buffer fill up with 3, so that `write()` really waits with the fourth.
  `HostTimeout` is 1: a tick before it, at it and after it are told apart. One
  class request, one SET_CONFIGURATION or SET_INTERFACE and one failed transaction,
  each of which may come between the packets of a transfer or while one is on
  offer, so that they also meet each other; two calls of `begin()` or `end()`, so
  that `begin()` can follow `end()` and what `tmp` still holds.
* `CdcTransmitFair`: the same sizes, which keep the number of states small for
  liveness; 5 bytes: a short packet on offer, the next one and the
  buffer fill up with 4, so that `write()` waits for a host that polls; one
  failure and one request that makes a side start over, in either order, with
  packets that get through before, between and after.
* `TransmitRejects`, `TransmitEmpty`: no failures, no restarts and one session, which
  section 5's cases do not need; 9 bytes fill a buffer of 3 and two packets of 2.
* `ControlPipe`: from a fresh and from an enumerated device, two requests, so
  that one meets what is left of another; one reset or `begin()`; one lost
  packet. `Lengths` are 9, as hosts ask first, and 258, whose low byte is less
  than every descriptor's length. The descriptors are the longest one, the
  device's, and one that does not exist. `Rates` are 57600, whose second byte is
  above 127, and 115200, which needs the third, and which the sketch refuses. The
  endpoints have different packet sizes, so that one is not taken for the other.
* `Calibration`: 8 values of `OSCCAL`, every oscillator with 4 rises, a step back
  of 0 to 2, and two resets, the second of which may come at any measurement.
  `CalibrationHangs` takes the real 256 values and the real target of 16 MHz.
* `LatencyProbe`: periods of 3 to 5 ticks, a count of 8 values, 3 bins and up to 4
  matches in a run: enough for an interrupt held back over two of them and for
  one left over from the run before.
* The clocks stop one tick after `HostTimeout`: no guard tells later times
  apart. `MaxBytes`, `HostBytes`, `MaxOther`, `MaxRequests`, `MaxRestarts`, `MaxFailed`,
  `MaxLostAcks`, `MaxSessions`, `MaxSetups`, `MaxResets`, `MaxLost` and `MaxMatches`
  are guards in the modules and bound nothing else.

No configuration turns the deadlock check off: the sketch can always call
another method, and `LatencyProbe`'s V-USB always goes on.

### Fairness

* `CdcReceive`: `WF(Interrupt)`: a host that has started a transaction goes
  on with it, and the interrupt answers (`Token`, `Data`). `WF(Main)`: the
  interrupt returns to the main program. `SF(CallRead)`: the sketch does not
  stop calling `read()`. It needs strong fairness, as the sketch may be in
  another call whenever one looks; that the sketch reads is the premise of
  everything the library says of reception. Nothing forces the host to start
  a packet, and nothing forces `begin()`.
* `CdcTransmit`: `WF(Main)`, `WF(Tick)`, `WF(Calls)`: the program runs, time
  passes and the sketch keeps calling something, not necessarily `write()` or
  `flush()`. Nothing is assumed of the host. `HostPolls`, that it polls the
  endpoint, is the premise of `WrittenArrives` and `TransfersEnd` and not of
  `CallsReturn`.
* `ControlPipe`: `WF(Main)`: the sketch keeps calling the library.
  `WF(Continues)`: a host goes on with a request it has started, and a reset
  ends; `WF(HostPolls3)`: it polls endpoint 3, as it does once the device is
  configured. It need not ask anything.
* `Calibration`: `WF(Device)`, `WF(ResetEnds)`: the program runs, a reset ends.

### Mutants

Next to the definitions that model the code's decisions each module defines
variants of them: a dropped test, an off-by-one, a swapped order. `PROJECT.json`
names, for every property of every passing run, a variant with which TLC finds
that property violated under the same configuration. The module's behaviour
never refers to them.

## 4. The proofs

Checked by TLAPS with the SMT, Zenon and LS4 back ends, for every value of the
constants the named assumptions allow. They concern `Spec`, so they need no
bound on bytes, sessions or failures.

* `RingBufferProofs`. `TypeCorrect`: `Out` stays in the array and `Count` within
  `Size`, for any byte width, since insertion does not change `Out`.
  `InsertCorrect` and `FifoCorrect` assume `NoWrap`, `2 * Size - 2 < Byte`: the
  sum of the largest index and the largest count before an insertion fits. They
  are lemmas on the arithmetic of `Slot`, then one step per operation for the
  refinement.
* `CdcReceiveProofs`. `TypeCorrect` and `PacketFits` follow from the inductive
  invariant `IInv`. `WaitingPacketFits` is not inductive: that the interrupt
  finds room when it accepts a packet is the main program's doing, earlier.
  `RoomInv` says so: while `usbRxLen` is not negative and no packet is being
  stored, a whole packet fits, and during the storing loop what is left of it
  does. To keep it one must know where the main program is when `usbRxLen` has
  which value (`PollInv`), what the half that does not receive holds
  (`BufferInv`), and that a data packet follows its own token (`HostInv`).
  `ChannelCorrect`: every step of the receive path is a
  step of `ByteChannel` or leaves it alone: `Data` is `Accept`, `Return` is
  `Deliver`, `Begin` and `End` are `Break`, and `Store` moves a byte from
  one part of `InTransit` to the next, which changes nothing. It rests on
  `IInv`; in particular `Store` would lose a byte if the buffer were full.
  `KeptCorrect` and `OnceInOrderCorrect` are `AckedBytesKept` and
  `ReceivedOnceInOrder`, from `SInv`. Neither is inductive: `StreamInv` adds that
  the packet under way carries the bytes after the last one the host was given
  an ACK for. While no ACK is lost the bytes received so far are not above that
  one (`OrderInv`), so that what `Data` appends continues the order.
* `CdcTransmitProofs`. `TypeCorrect`: no packet exceeds the endpoint's size
  and the ring buffer never overflows; `TypeOK` is inductive.
  `StalledCorrect` is `StalledOnlyAfterTimeout`. It needs `AgeInv`: while
  `txPending()` is not below `pending`, the packet on offer is at least as old as
  the wait. A new packet would break that, but handing one over lowers
  `txPending()`, so that the clock is set back before `Decide` reads it; only the
  empty packet at the end of `flush()` lowers nothing, which is the exception in
  the property. `FlushCorrect` is `FlushMeansTaken`. Its first half is `FlushInv`,
  the end of the wait. For the second it needs `TransferInv`: a transfer the host has
  open is one this side knows to be open, by `sendEmptyFrame` or because `Mark`
  is about to set it. That is invariant until a packet is lost or dropped, for
  any requests in between; from then on the property promises no more.
  `OfferCorrect` is `OfferStays`, whatever fails and whatever the host asks: from
  `Ready` to `Arm` the buffer stays free (`HandInv`), as only the interrupt changes
  it there, and it only ever frees it. `DropsCorrect` is `DropsBounded`, by `DropInv`:
  while the tokens are out of step (not `InStep`) the next packet will be
  dropped, so that it is counted in advance. Each failure and each request may
  put them out of step, once; a dropped packet puts them in step again; the
  hand-over keeps them as they are; `begin()` puts both in step.
* `CdcTransmitRefinement`. `ChannelCorrect`: the path implements `ByteChannel`, on any
  bus and for any requests. `HostTakes` is `Deliver`, or `Break` if the packet is
  lost or dropped, an accepted `write()` is `Accept`, and `Poll`, `Copy`, `Arm` and
  `Mark` move bytes between the parts of `InTransit`; `HandInv`, that until `Mark`
  `tmp` still is what the endpoint's buffer holds, is what keeps a byte from
  being counted twice or not at all. `OnceInOrderCorrect` is
  `ReceivedOnceInOrder` with any number of failures: what was received and what
  is in transit, one after the other, ascend. `LossCorrect` is `LossBounded`: by
  `LossInv` every packet the host does not get costs what one packet holds, and
  `DropsCorrect` bounds their number.
* `ControlPipeProofs`. `AddressCorrect` and `NotificationCorrect`, each from an
  inductive invariant of its own. For the address it must know, at every stage
  of SET_ADDRESS, which of the packet, `usbNewDeviceAddr` and `usbDeviceAddr`
  holds the new one, and that nothing but the status packet is on offer then.
  For the notification it relates `intr3Status`, the packet on offer and the
  number of those taken: which of the two comes next is the same for all three.
  `TypeCorrect` and `ReadsCorrect` (`ReadsInside`) come from `TypeInv`: the object
  `usbMsgPtr` points to is in flash if and only if `usbMsgFlags` says so, and offset
  and `usbMsgLen` end within it (`Inside`). A request may be given up with any of
  the three left over, so that this must hold in every state and not only while a
  reply is under way. `Stages` says which packet can wait in `usbRxBuf` then.
  `ReplyCorrect` is `ReplyRight`. By `ReplyInv`, while a reply is sent, what the
  host has of it, what is on offer and what is left in the device are the reply
  due, one after the other (`Sending`); a packet that is lost leaves a gap, so
  that the host never has the full length.
  `LineCorrect` is `LineCodingSet`: by `LineInv` the line coding is the first one or
  one that was accepted, and the packet that ends the request says which, a
  STALL or an empty one, whatever was given up before.
  `DroppedCorrect` is `DroppedBounded`, by an account, `dropped3 + Debt <=
  restarts + lost`: `Debt` is what may still be dropped without a new occasion. It
  counts tokens that disagree now (`Wrong`), a request in `usbRxBuf` that will
  reset the device's (`RxDebt`), and one the host has begun, which may reset its
  own (`HostDebt`). That a request can change first one side's token and then the
  other's, and still costs one packet, is because the host does not poll
  the endpoint in between.
  `PacketSizesCorrect` is `PacketSizesAgree`. `StartsFrom`, the walk from one
  descriptor to the next, is a recursive function, and that its definition has a
  solution at all must be proved: usually by induction on the distance to the
  end, here without, as the least set of offsets that is closed under "the
  descriptor after this one" (`ReachedFrom`, an intersection) satisfies the
  equation (`Starts`). The walk is then unfolded over the ten descriptors
  (`ConfigStarts`), the packet sizes being anything that fits a byte, and
  `ReplyInv` says that what a host has read of the configuration is a beginning
  of it (`WholeConfig`).
* `CalibrationProofs`, for every oscillator, target and width of 3 to 8 bits.
  `TypeCorrect`. `OnceCorrect` is `OncePerReset`: a reset that goes on, or of
  which `usbPoll()` has only seen the beginning, is one that no calibration has
  answered yet (`ResetInv`). `AnsweredCorrect` is `LastResetAnswered`: a reset still
  due goes on, or `usbPoll()` has seen it begin (`DueInv`). `BestCorrect` is `BestMatch`. `SearchInv`, the binary search's
  invariant, is a `Bracket`: `F_CPU` is passed among the `2 * step` values from
  `trialValue` on, or the search is at an end of the range. No monotony is needed
  for it, as only values that were measured enter, so it holds of oscillators
  that fall back as well. `Found` is the invariant of the neighbourhood search;
  that it replaces the first `optimumDev`, a frame length, is where `Gradual`
  is used. Monotony comes in at the end, in `PassBest`, for the values that
  were not measured. A crystal's search ends at one end of the range
  (`AtOneEnd`): from 0 the neighbourhood search is skipped, from the other it
  never returns (section 5), so that the theorem does not say that it does.
  `AdvancesCorrect`, `CalibrationAdvances`, says what is true of that without
  fairness: `step` falls while the binary search runs, then `OSCCAL` rises to
  `trialValue + 1`, unless that is beyond a register's range, and an undisturbed
  search for an RC oscillator never gets there, by the `Bracket`.
* `LatencyProbeProofs`, for every period, number of bins and width of the
  timer's count, and runs of any length. `TypeCorrect` needs `CountInv`: while
  a match waits the period is not changed, so the count stays within it;
  otherwise it may run on to the end of its range, when the new period is below
  it. `SamplesCorrect` (`SamplesTrue`): while one match waits alone, the count is
  the time since then (`DelayInv`). `ReportCorrect` (`ReportTrue`): outside of a
  run the interrupt is masked and not being served (`IdleInv`), so that the
  counts printed stay those of the run (`ReportInv`); a match that waits, or is
  being served, is not counted yet (`MatchInv`); the longest sample is in the
  last bin with any (`HistInv`). `AddsUpCorrect` (`ReportAddsUp`): the sum of the bins is
  stated without recursion, as the last of some sequence of partial sums
  (`SumInv`); an interrupt that adds to a bin adds to every partial sum from there
  on, and between the two prints the interrupt is masked.
* `StreamLemmas`: the facts about sequences the paths' proofs rest on: moving the
  end of one to the beginning of the next, what stays ascending, and that a
  sequence has no more elements than its length.

Assumptions: `SizeAssumption`, `ReceiveAssumption` (at least one packet fits
the buffer, as `DigiCDCDescriptor.h` demands; at most 128 bytes, the sizes of
`NoWrap`), `TransmitAssumption`, `ControlAssumption`, `RatesAssumption` (bit rates
are numbers of four bytes), `CalibrationAssumption`, `ProbeAssumption`.

Model-checked only: all liveness, as TLAPS cannot reason about `ENABLED`, and so
about fairness. `ImplementsFifo` is proved for sizes up to `NoWrap`, beyond which it
is false. Every other invariant and action property of the passing runs is
proved as the runs check it.

## 5. What the runs found

* `RingBufferLarge`: the library offers buffers of 1 to 255 bytes; from 129 on,
  `Out + Count` overflows its byte and `RingBuffer_Insert` overwrites a stored
  byte. 128 is the largest size that works, and `FifoCorrect` proves it does.
* `TransmitRejects`: "bytes are rejected immediately until there is room again".
  After a stall, `write()` can return 0 without waiting although there is room
  by then and the host takes packets again. `txPending()` counts `txBuf` and
  `tmp` together, so that moving bytes between them is not progress, and
  `hostStalled` decides before the buffer is looked at again.
* `TransmitEmpty`: "a zero-length packet is sent only after a full 8-byte
  packet". SET_CONTROL_LINE_STATE asks for one too, whatever came before.
* Without a run of its own: "`flush()` waits until the host has taken everything
  written" (`DigiCDCFast.h:21-22`) needs the exceptions of `FlushMeansTaken`.
  SET_INTERFACE, of whatever interface, writes DATA1 into the token of endpoint 1
  (`usbdrv.c:199`, `:410`) although a packet with DATA0 may be on offer. The host drops
  it as a repetition, or the next one if none is on offer and the interface is
  the other one; `flush()` looks at `usbInterruptIsReady()` only, and succeeds. TLC
  shows it if `dropped` is taken out of the property. Hosts rarely set the
  interfaces of a port in use, as neither has another setting.
* `CalibrationHangs`: "it is guaranteed to find the best match among neighboring
  values". With a trial value of 254 or 255 the neighbourhood search never ends,
  as its bound cannot be exceeded by an 8-bit register, and interrupts are
  disabled. The binary search ends there if every measurement is too low: on a
  crystal, where `OSCCAL` has no effect and the hook runs all the same, with a
  host whose frame is a little short of nominal, or if measurements time out.
  The library's tests pass on such a board, so it is not the usual case.
* `LatencyLate`: "interrupts delayed by a whole period or more [...] are counted
  separately". Entering the interrupt clears the flag it tests, so that only a
  match between the two is counted; a longer delay is taken for a short one.
  V-USB's runs of transactions are shorter than a period; a sketch that blocks
  interrupts longer is what the count is there for.

## 6. What is not modelled

* Cycle timing, sampling, bit stuffing and the electrical state of the bus,
  interrupt latency and what is lost when interrupts stay disabled: nothing TLC
  can tell. A packet is received whole or lost. So a SETUP packet always has 8
  bytes (the code ignores others), and no token is damaged.
* `usbCrc16()`, a function of the packet's bytes that no other part looks at: the
  modules' packets have the right CRC.
* The check of received CRCs (`USB_CFG_CHECK_CRC`): it is not built, and the ACK has
  been sent by then (`usbdrv.c:578-581`).
* Debug output (compiled out), compiler differences, pins, the other examples and
  the hardware test. `osctune.h` and the hook for vendor requests are not built;
  the hook at the end of a transaction does nothing unless a sketch defines it.
* `delay()` and `task()`: calls to `refresh()`. `availableForWrite()`, `operator
  bool`: they read and change nothing.
* Paused input makes the interrupt refuse packets of endpoint 0 as well: that is
  in `CdcReceive`, with `PacketsAccepted`, and left out of `ControlPipe`.
* A host that goes on polling an endpoint while it sets its configuration or
  interface: USB's hosts stop its transfers first. What the device has on offer
  then stays on offer, and is in the modules.
* A line coding of other than 7 bytes, the size that CDC gives it: `Refuses` and
  `Stored` say what `usbFunctionWrite()` makes of fewer, but no host of the model
  sends them.
* A bus reset shorter than a whole `usbPoll()`: `usbdrv.h:189-195` asks for calls
  more often than hosts reset.
* What a calibration that a reset disturbs ends with.

## 7. Plan

Done: `RingBuffer`, `CdcReceive`, `CdcTransmit`, `ControlPipe` with the
notification, the bus reset and the configuration, `Calibration`,
`LatencyProbe`; the proofs of section 4. Left, in order:

1. One receive buffer for both paths: composing `CdcReceive` and `ControlPipe`, so
   that a paused input meets an enumeration.
2. `usbCrc16` in its fast and its small form, and bit stuffing, as algorithms over
   bounded inputs.
