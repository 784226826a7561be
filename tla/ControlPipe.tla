---------------------------- MODULE ControlPipe ----------------------------
(***************************************************************************)
(* Endpoint 0 and endpoint 3: how the host enumerates the device, sets the *)
(* line up and hears of the carrier.                                       *)
(*                                                                         *)
(* The USB interrupt stores what the host sends in usbRxBuf and sends what *)
(* it finds in usbTxBuf.  usbPoll(), called from usbPollWrapper(), takes a *)
(* packet out of the one (usbProcessRx()), fills the other                 *)
(* (usbBuildTxBlock()) and watches the bus for a reset; then               *)
(* usbPollWrapper() sends the serial state notification in two packets.    *)
(* While a packet waits in usbRxBuf the interrupt answers endpoint 0 with  *)
(* NAK, and it only reads usbTxBuf once usbTxLen, written last, says so:   *)
(* each of these steps is therefore one action, and transactions come      *)
(* between them.                                                           *)
(*                                                                         *)
(* The host may abandon a request for another one, loses packets, resets   *)
(* the bus.  sendEmptyFrame and endpoint 1 are CdcTransmit's, paused input *)
(* is CdcReceive's.                                                        *)
(***************************************************************************)
EXTENDS Integers, Sequences, FiniteSets

CONSTANTS
    OutPacketSize, InPacketSize,    \* of DIGICDC_CONFIG_DESCRIPTOR
    Rates,                          \* the bit rates the host sets
    Refused,                        \* those digiCdcAcceptLineCoding() refuses
    Addresses,                      \* those the host assigns
    Descriptors, Lengths,           \* the descriptors it asks for, the wLength it gives
    MaxSetups,                      \* bound: requests of the host
    MaxResets,                      \* bound: bus resets and calls of begin()
    MaxLost                         \* bound: packets lost on the bus

ASSUME ControlAssumption ==
    /\ OutPacketSize \in 1..8 /\ InPacketSize \in 1..8
    /\ Rates \subseteq Nat /\ Refused \subseteq Rates
    /\ Addresses \subseteq 1..127
    /\ Lengths \subseteq Nat \ {0} /\ \A n \in Lengths : n < 65536
    /\ {MaxSetups, MaxResets, MaxLost} \subseteq Nat

\* A bit rate has four bytes.
ASSUME RatesAssumption == \A rate \in Rates : rate \div 16777216 < 256

VARIABLES
    \* Shared by the interrupt and the main program.
    usbRx,              \* usbRxLen, usbRxToken and usbRxBuf; token "none": free
    usbTx,              \* usbTxLen and usbTxBuf
    usbDeviceAddr, usbNewDeviceAddr,
    usbTxStatus3,       \* endpoint 3: is its packet sent, its token and content
    \* The main program.
    pc,
    usbMsg,             \* usbMsgLen, usbMsgPtr (base and offset), usbMsgFlags
    usbConfiguration,
    lineCoding,
    intr3Status,        \* packets of the notification still to be sent
    dtr,                \* portB_dtr_bit and the level of that pin
    \* The host.
    phase, request,     \* the request and its stage
    got, toggle,        \* the reply so far; data token of the next packet
    outcome,            \* how the last request ended
    hostAddr, configured,
    expected3, got3,    \* endpoint 3: data token of the next packet; packets taken
    \* History.
    setups, resets, lost, dropped3,
    restarts            \* SET_CONFIGURATION and SET_INTERFACE among the setups

mainVars == <<usbMsg, usbConfiguration, lineCoding, intr3Status, dtr>>
addressVars == <<usbDeviceAddr, usbNewDeviceAddr>>
requestVars == <<phase, request, got, toggle, outcome, hostAddr, configured>>
notifiedVars == <<expected3, got3, dropped3>>
boundVars == <<setups, resets, lost, restarts>>
vars == <<usbRx, usbTx, addressVars, usbTxStatus3, pc, mainVars, requestVars, notifiedVars,
          boundVars>>

-----------------------------------------------------------------------------
\* Variants of the definitions below: mistakes this code could contain.
OffsetFromOne == 65
SignExtended ==
    lineCoding[1] + 256 * (IF lineCoding[2] < 128 THEN lineCoding[2] ELSE lineCoding[2] - 256)
    + 65536 * lineCoding[3]
ReplyKeepsFlags(base, len, flags) ==
    [base |-> base, at |-> 0, len |-> len,
     flags |-> IF flags = "RAM" THEN usbMsg.flags ELSE flags]
NotAborted == usbTx
AbortedKeepsToken == [usbTx EXCEPT !.answer = "NAK"]
NotifiedAgain == 2
NotifiedWithPin == IF dtr # "none" /\ intr3Status = 0 THEN 2 ELSE intr3Status
AddressAtOnce ==
    IF usbRx.request.bRequest = "SET_ADDRESS" THEN usbRx.request.value ELSE usbDeviceAddr
WantedUnlimited == usbMsg.len
SameToken3 == usbTxStatus3.token
-----------------------------------------------------------------------------
(* Descriptors and line codings, byte by byte.                             *)

USB_CFG_HAVE_INTRIN_ENDPOINT == 1           \* endpoints of interface 0
USB_CFG_EP3_NUMBER == 3
USB_CFG_IS_SELF_POWERED == 0
USB_CFG_VENDOR_ID == <<208, 22>>
USB_CFG_DEVICE_ID == <<126, 8>>
USB_CFG_DEVICE_VERSION == <<0, 1>>
USB_CFG_DEVICE_CLASS == <<2, 0>>
USB_CFG_INTERFACE_CLASS == <<2, 2, 1>>      \* class, subclass and protocol
USB_CFG_MAX_BUS_POWER == 100
USB_CFG_INTR_POLL_INTERVAL == 255
USB_CFG_VENDOR_NAME_LEN == 13
USB_CFG_DEVICE_NAME_LEN == 16

\* DIGICDC_CONFIG_DESCRIPTOR: the configuration; interface 0, what makes it a
\* CDC-ACM interface and its endpoint 3; interface 1 and its endpoints.
ConfigDescriptor ==
    <<9, 2, 67, 0, 2, 1, 0, 128 + 64 * USB_CFG_IS_SELF_POWERED, USB_CFG_MAX_BUS_POWER \div 2>>
    \o <<9, 4, 0, 0, USB_CFG_HAVE_INTRIN_ENDPOINT>> \o USB_CFG_INTERFACE_CLASS \o <<0>>
    \o <<5, 36, 0, 16, 1>> \o <<4, 36, 2, 2>> \o <<5, 36, 6, 0, 1>> \o <<5, 36, 1, 3, 1>>
    \o <<7, 5, 128 + USB_CFG_EP3_NUMBER, 3, 8, 0, USB_CFG_INTR_POLL_INTERVAL>>
    \o <<9, 4, 1, 0, 2, 10, 0, 0, 0>>
    \o <<7, 5, 1, 2, OutPacketSize, 0, 0>> \o <<7, 5, 129, 2, InPacketSize, 0, 0>>

DIGICDC_DESCRIPTOR_SIZE == 67
DIGICDC_OUT_PACKET_SIZE_AT == 57
DIGICDC_IN_PACKET_SIZE_AT == 64

\* USB_STRING_DESCRIPTOR_HEADER and n characters, each a word.
StringDescriptor(n) ==
    <<2 * n + 2, 3>> \o [i \in 1..(2 * n) |-> IF i % 2 = 1 THEN 64 + i ELSE 0]

usbDescriptorDevice ==
    <<18, 1, 16, 1>> \o USB_CFG_DEVICE_CLASS \o <<0, 8>> \o USB_CFG_VENDOR_ID \o USB_CFG_DEVICE_ID
    \o USB_CFG_DEVICE_VERSION \o <<1, 2, 0, 1>>

\* The descriptors in flash, with the string descriptors 0, vendor (1) and
\* device (2).
Flash ==
    [device |-> usbDescriptorDevice,
     config |-> ConfigDescriptor,
     language |-> <<4, 3, 9, 4>>,
     vendor |-> StringDescriptor(USB_CFG_VENDOR_NAME_LEN),
     product |-> StringDescriptor(USB_CFG_DEVICE_NAME_LEN)]

\* USB_PROP_IS_DYNAMIC: the descriptors that usbFunctionDescriptor() is asked for.
Dynamic == {"config"}

\* What usbMsgPtr can point to in RAM; "status" are the two bytes after usbTxBuf.
RAM ==
    [lineCoding |-> lineCoding,
     usbConfiguration |-> <<usbConfiguration>>,
     status |-> <<0, 0>>]

Contents(base) == IF base \in DOMAIN Flash THEN Flash[base] ELSE RAM[base]

\* What reading a flash address as RAM, or behind the end of an object, gives.
Garbage == 256

\* A line coding of the host: the bit rate, low byte first, 8N1.
Coding(rate) ==
    <<rate % 256, (rate \div 256) % 256, (rate \div 65536) % 256, (rate \div 16777216) % 256,
      0, 0, 8>>

\* baud(): each byte is widened before it is shifted.
baud == lineCoding[1] + 256 * lineCoding[2] + 65536 * lineCoding[3] + 16777216 * lineCoding[4]

-----------------------------------------------------------------------------
(* Requests.                                                               *)

\* usbRequest_t; the high byte of wValue is the descriptor's type.  The value of
\* SET_INTERFACE is the interface, its wIndex: each has one setting only.
Request(bRequest, descriptor, value, wLength) ==
    [bRequest |-> bRequest, descriptor |-> descriptor, value |-> value, wLength |-> wLength]

Plain(bRequest, value, wLength) == Request(bRequest, "none", value, wLength)

ClassRequests ==
    {"GET_LINE_CODING", "SET_LINE_CODING", "SET_CONTROL_LINE_STATE", "SEND_BREAK"}

\* The direction bit of bmRequestType.
DeviceToHost(r) ==
    r.bRequest \in {"GET_DESCRIPTOR", "GET_STATUS", "GET_CONFIGURATION", "GET_INTERFACE",
                    "GET_LINE_CODING"}

DescriptorRequests ==
    {Request("GET_DESCRIPTOR", d, 0, n) : d \in Descriptors, n \in Lengths}

AddressRequests == {Plain("SET_ADDRESS", a, 0) : a \in Addresses}

ConfigurationRequests ==
    {Plain("GET_STATUS", 0, 2), Plain("GET_CONFIGURATION", 0, 1)}
    \cup {Plain("SET_CONFIGURATION", c, 0) : c \in {0, 1}}

InterfaceRequests ==
    {Plain("GET_INTERFACE", 0, 1)} \cup {Plain("SET_INTERFACE", i, 0) : i \in {0, 1}}
    \cup {Plain("GET_LINE_CODING", 0, 7), Plain("SEND_BREAK", 0, 0)}
    \cup {Plain("SET_LINE_CODING", rate, 7) : rate \in Rates}
    \cup {Plain("SET_CONTROL_LINE_STATE", v, 0) : v \in {0, 1}}

Requests ==
    DescriptorRequests \cup AddressRequests \cup ConfigurationRequests \cup InterfaceRequests

\* After these a side, or both, start over with DATA0.
Restarts == {"SET_CONFIGURATION", "SET_INTERFACE"}

\* After these the host does so with endpoint 3, which is interface 0's.
Restarts3(r) ==
    r.bRequest = "SET_CONFIGURATION" \/ (r.bRequest = "SET_INTERFACE" /\ r.value = 0)

\* What a host asks of a device that it has not addressed, or not configured.
Allowed ==
    DescriptorRequests
    \cup (IF hostAddr = 0 THEN AddressRequests ELSE ConfigurationRequests)
    \cup (IF configured THEN InterfaceRequests ELSE {})

-----------------------------------------------------------------------------
(* The device: usbPollWrapper().                                           *)

USB_NO_MSG == 255

Reply(base, len, flags) == [base |-> base, at |-> 0, len |-> len, flags |-> flags]

\* A reply of "return 0", which leaves usbMsgPtr alone.
NoReply(flags) == [usbMsg EXCEPT !.len = 0, !.flags = flags]

\* The length usbFunctionDescriptor() returns.
usbFunctionDescriptor(d) == IF d = "device" THEN Flash[d][1] ELSE DIGICDC_DESCRIPTOR_SIZE

DescriptorLength(d) == IF d \in Dynamic THEN usbFunctionDescriptor(d) ELSE Len(Flash[d])

usbDriverDescriptor(r) ==
    IF r.descriptor \in DOMAIN Flash
    THEN Reply(r.descriptor, DescriptorLength(r.descriptor), "ROM")
    ELSE NoReply("ROM")

usbDriverSetup(r) ==
    CASE r.bRequest = "GET_DESCRIPTOR" -> usbDriverDescriptor(r)
      [] r.bRequest = "GET_CONFIGURATION" -> Reply("usbConfiguration", 1, "RAM")
      [] r.bRequest = "GET_STATUS" -> Reply("status", 2, "RAM")
      [] r.bRequest = "GET_INTERFACE" -> Reply("status", 1, "RAM")
      [] OTHER -> Reply("status", 0, "RAM")

\* A request whose data usbFunctionWrite() will get has no length yet.
usbFunctionSetup(r) ==
    CASE r.bRequest = "GET_LINE_CODING" -> Reply("lineCoding", 7, "RAM")
      [] r.bRequest = "SET_LINE_CODING" -> [NoReply("USER_RW") EXCEPT !.len = USB_NO_MSG]
      [] OTHER -> NoReply("RAM")

\* "limit length to max", with lengths of one byte.
Limited(reply, wLength) ==
    IF reply.flags # "USER_RW" /\ wLength \div 256 = 0 /\ reply.len > wLength % 256
    THEN [reply EXCEPT !.len = wLength % 256]
    ELSE reply

SetupReply(r) ==
    Limited(IF r.bRequest \in ClassRequests THEN usbFunctionSetup(r) ELSE usbDriverSetup(r),
            r.wLength)

\* A SETUP packet starts the data toggling anew and aborts what was to be sent.
Aborted == [usbTx EXCEPT !.answer = "NAK", !.token = 0]

\* usbFunctionSetup(): a notification under way is not started again.
Notified == IF intr3Status = 0 THEN 2 ELSE intr3Status

\* What usbDriverSetup() makes of SET_ADDRESS.
AddressNow == usbDeviceAddr

USB_INITIAL_DATATOKEN == 1

\* usbResetDataToggling() writes the token of the packet handed over last, on
\* offer or not, whatever interface is set.
usbResetDataToggling == [usbTxStatus3 EXCEPT !.token = USB_INITIAL_DATATOKEN]

RxFree == [token |-> "none", request |-> Plain("none", 0, 0), data |-> <<>>]

\* usbProcessRx() of a SETUP packet; then the receive buffer is free.
ProcessSetup ==
    /\ pc = "rx" /\ usbRx.token = "SETUP"
    /\ pc' = "build"
    /\ LET r == usbRx.request
       IN  /\ usbMsg' = SetupReply(r)
           /\ usbNewDeviceAddr' = IF r.bRequest = "SET_ADDRESS" THEN r.value
                                                                 ELSE usbNewDeviceAddr
           /\ usbDeviceAddr' = AddressNow
           /\ usbConfiguration' = IF r.bRequest = "SET_CONFIGURATION" THEN r.value
                                                                       ELSE usbConfiguration
           /\ usbTxStatus3' = IF r.bRequest = "SET_INTERFACE"
                              THEN usbResetDataToggling ELSE usbTxStatus3
           /\ IF r.bRequest = "SET_CONTROL_LINE_STATE"
              THEN /\ intr3Status' = Notified
                   /\ dtr' = IF dtr = "none" THEN "none" ELSE <<"low", "high">>[r.value + 1]
              ELSE UNCHANGED <<intr3Status, dtr>>
    /\ usbTx' = Aborted
    /\ usbRx' = RxFree
    /\ UNCHANGED <<lineCoding, requestVars, notifiedVars, boundVars>>

\* usbFunctionWrite(): only all of a line coding can be refused; fewer bytes
\* replace the first ones.
Refuses(data) ==
    /\ Len(data) >= Len(lineCoding)
    /\ \E rate \in Refused : SubSeq(data, 1, Len(lineCoding)) = Coding(rate)

Stored(data) ==
    [i \in 1..Len(lineCoding) |-> IF i <= Len(data) THEN data[i] ELSE lineCoding[i]]

\* usbProcessRx() of the data of a request: refused, or stored and answered with
\* an empty packet.
ProcessData ==
    /\ pc = "rx" /\ usbRx.token = "OUT"
    /\ pc' = "build"
    /\ IF usbMsg.flags # "USER_RW"
       THEN UNCHANGED <<usbTx, usbMsg, lineCoding>>
       ELSE IF Refuses(usbRx.data)
       THEN /\ usbTx' = [usbTx EXCEPT !.answer = "STALL"]
            /\ UNCHANGED <<usbMsg, lineCoding>>
       ELSE /\ lineCoding' = Stored(usbRx.data)
            /\ usbMsg' = [usbMsg EXCEPT !.len = 0]
            /\ UNCHANGED usbTx
    /\ usbRx' = RxFree
    /\ UNCHANGED <<addressVars, usbTxStatus3, usbConfiguration, intr3Status, dtr, requestVars,
                   notifiedVars, boundVars>>

NoPacket ==
    /\ pc = "rx" /\ usbRx.token = "none"
    /\ pc' = "build"
    /\ UNCHANGED <<usbRx, usbTx, addressVars, usbTxStatus3, mainVars, requestVars, notifiedVars,
                   boundVars>>

\* usbDeviceRead(): from flash or from RAM, as usbMsgFlags says.
Byte(offset) ==
    IF (usbMsg.flags = "ROM") = (usbMsg.base \in DOMAIN Flash)
       /\ offset \in DOMAIN Contents(usbMsg.base)
    THEN Contents(usbMsg.base)[offset]
    ELSE Garbage

wantLen == IF usbMsg.len > 8 THEN 8 ELSE usbMsg.len

\* usbBuildTxBlock(), if nothing is on offer and there is something to send: up
\* to 8 bytes; fewer than 8 end the message.
Build ==
    /\ pc = "build"
    /\ pc' = "line"
    /\ IF usbTx.answer = "data" \/ usbMsg.len = USB_NO_MSG
       THEN UNCHANGED <<usbTx, usbMsg>>
       ELSE /\ usbTx' = [answer |-> "data", token |-> 1 - usbTx.token,
                         data |-> [i \in 1..wantLen |-> Byte(usbMsg.at + i)]]
            /\ usbMsg' = [usbMsg EXCEPT !.at = @ + wantLen,
                                        !.len = IF wantLen < 8 THEN USB_NO_MSG ELSE @ - wantLen]
    /\ UNCHANGED <<usbRx, addressVars, usbTxStatus3, usbConfiguration, lineCoding, intr3Status,
                   dtr, requestVars, notifiedVars, boundVars>>

\* The end of usbPoll(): a bus reset takes the address away, nothing else.
Line ==
    /\ pc = "line"
    /\ pc' = "notify"
    /\ IF phase = "reset" THEN usbDeviceAddr' = 0 /\ usbNewDeviceAddr' = 0
                          ELSE UNCHANGED addressVars
    /\ UNCHANGED <<usbRx, usbTx, usbTxStatus3, mainVars, requestVars, notifiedVars, boundVars>>

\* usbGenericSetInterrupt() toggles between DATA0 and DATA1, unless it writes
\* over a packet the host has not taken.
NextToken3 == IF usbTxStatus3.nak THEN 1 - usbTxStatus3.token ELSE usbTxStatus3.token

usbSetInterrupt3(piece) == [nak |-> FALSE, token |-> NextToken3, piece |-> piece]

usbInterruptIsReady3 == usbTxStatus3.nak

\* usbPollWrapper() reports the carrier: the header, then the serial state.
Notify ==
    /\ pc = "notify"
    /\ pc' = "rx"
    /\ IF intr3Status # 0 /\ usbInterruptIsReady3
       THEN /\ usbTxStatus3' = usbSetInterrupt3(IF intr3Status = 2 THEN "header" ELSE "state")
            /\ intr3Status' = intr3Status - 1
       ELSE UNCHANGED <<usbTxStatus3, intr3Status>>
    /\ UNCHANGED <<usbRx, usbTx, addressVars, usbMsg, usbConfiguration, lineCoding, dtr,
                   requestVars, notifiedVars, boundVars>>

SetDtrPin ==
    /\ pc = "rx" /\ dtr = "none"
    /\ dtr' = "low"
    /\ UNCHANGED <<usbRx, usbTx, addressVars, usbTxStatus3, pc, usbMsg, usbConfiguration,
                   lineCoding, intr3Status, requestVars, notifiedVars, boundVars>>

-----------------------------------------------------------------------------
(* The host, and the interrupt that answers it.                            *)

\* The interrupt answers at the device's address.
Answers == phase # "reset" /\ usbDeviceAddr = hostAddr

\* The host asks something new.  It may give a request up, but resets the bus
\* when SET_ADDRESS has failed.
HostStarts ==
    /\ setups < MaxSetups
    /\ phase = "idle" \/ (phase # "reset" /\ request.bRequest # "SET_ADDRESS")
    /\ setups' = setups + 1
    /\ request' \in Allowed
    /\ restarts' = IF request'.bRequest \in Restarts THEN restarts + 1 ELSE restarts
    /\ phase' = "setup" /\ got' = <<>> /\ toggle' = 1 /\ outcome' = "none"
    /\ UNCHANGED <<usbRx, usbTx, addressVars, usbTxStatus3, pc, mainVars, hostAddr, configured,
                   notifiedVars, resets, lost>>

\* The packet is lost, or its ACK.
Loses == lost < MaxLost /\ lost' = lost + 1

\* handleData: a packet is stored if the buffer is free.
Store(packet, next) ==
    /\ Answers /\ usbRx.token = "none"
    /\ usbRx' = packet
    /\ \/ phase' = next /\ UNCHANGED lost
       \/ UNCHANGED phase /\ Loses
    /\ UNCHANGED <<usbTx, addressVars, usbTxStatus3, pc, mainVars, request, got, toggle, outcome,
                   hostAddr, configured, notifiedVars, setups, resets, restarts>>

HostSetup ==
    /\ phase = "setup"
    /\ Store([token |-> "SETUP", request |-> request, data |-> <<>>],
             IF request.wLength > 0 THEN "data" ELSE "status")

HostWrites ==
    /\ phase = "data" /\ ~DeviceToHost(request)
    /\ Store([token |-> "OUT", request |-> Plain("none", 0, 0), data |-> Coding(request.value)],
             "status")

\* What the host believes when a request has succeeded.  A new configuration or
\* interface setting starts with DATA0.
Completed ==
    /\ phase' = "idle" /\ outcome' = "done"
    /\ hostAddr' = IF request.bRequest = "SET_ADDRESS" THEN request.value ELSE hostAddr
    /\ configured' = IF request.bRequest = "SET_CONFIGURATION" THEN request.value = 1
                                                                ELSE configured
    /\ expected3' = IF Restarts3(request) THEN 0 ELSE expected3

\* usbSendAndReti: any data packet makes the new address the device's.
AddressAfterData == usbNewDeviceAddr

Offered == Answers /\ usbRx.token = "none" /\ usbTx.answer = "data"

\* handleIn: the packet in usbTxBuf is sent, and the buffer is free from then on.
Sends ==
    /\ Offered
    /\ usbTx' = [usbTx EXCEPT !.answer = "NAK"]
    /\ usbDeviceAddr' = AddressAfterData
    /\ UNCHANGED <<usbRx, usbNewDeviceAddr, usbTxStatus3, pc, mainVars, request, got3, dropped3,
                   setups, resets, restarts>>

\* The host takes a packet with the token of the one before for a repetition.
HostMisses ==
    /\ phase = (IF DeviceToHost(request) THEN "data" ELSE "status")
    /\ Sends
    /\ Loses \/ (usbTx.token # toggle /\ UNCHANGED lost)
    /\ UNCHANGED <<phase, got, toggle, outcome, hostAddr, configured, expected3>>

\* A short packet, or the last byte asked for, ends the data.
HostReads ==
    /\ phase = "data" /\ DeviceToHost(request)
    /\ Sends
    /\ usbTx.token = toggle
    /\ got' = got \o usbTx.data
    /\ toggle' = 1 - toggle
    /\ phase' = IF Len(usbTx.data) < 8 \/ Len(got') >= request.wLength THEN "status" ELSE "data"
    /\ UNCHANGED <<outcome, hostAddr, configured, expected3, lost>>

\* The status stage of a request to the device.
HostReadsStatus ==
    /\ phase = "status" /\ ~DeviceToHost(request)
    /\ Sends
    /\ usbTx.token = toggle
    /\ got' = usbTx.data
    /\ Completed
    /\ UNCHANGED <<toggle, lost>>

HostStalled ==
    /\ phase = "status" /\ ~DeviceToHost(request)
    /\ Answers /\ usbRx.token = "none" /\ usbTx.answer = "STALL"
    /\ phase' = "idle" /\ outcome' = "stalled"
    /\ UNCHANGED <<usbRx, usbTx, addressVars, usbTxStatus3, pc, mainVars, request, got, toggle,
                   hostAddr, configured, notifiedVars, boundVars>>

\* The status stage of a reply: an empty packet, which the interrupt only
\* acknowledges.
HostWritesStatus ==
    /\ phase = "status" /\ DeviceToHost(request)
    /\ Answers /\ usbRx.token = "none"
    /\ Completed
    /\ UNCHANGED <<usbRx, usbTx, addressVars, usbTxStatus3, pc, mainVars, request, got, toggle,
                   got3, dropped3, boundVars>>

\* The host uses no endpoint of what it is setting.
Restarting == phase \in {"setup", "status"} /\ Restarts3(request)

\* handleIn3: endpoint 3, polled once the device is configured.
HostPolls3 ==
    /\ configured /\ ~Restarting /\ Answers /\ ~usbTxStatus3.nak
    /\ usbTxStatus3' = [usbTxStatus3 EXCEPT !.nak = TRUE]
    /\ usbDeviceAddr' = AddressAfterData
    /\ \/ /\ usbTxStatus3.token = expected3
          /\ expected3' = 1 - expected3
          /\ got3' = Append(got3, usbTxStatus3.piece)
          /\ UNCHANGED <<dropped3, lost>>
       \/ /\ usbTxStatus3.token # expected3
          /\ dropped3' = dropped3 + 1
          /\ UNCHANGED <<expected3, got3, lost>>
       \/ Loses /\ UNCHANGED notifiedVars
    /\ UNCHANGED <<usbRx, usbTx, usbNewDeviceAddr, pc, mainVars, requestVars, setups, resets,
                   restarts>>

\* The host drives the bus to SE0 and forgets what it knew of the device.
BusReset ==
    /\ resets < MaxResets
    /\ resets' = resets + 1
    /\ phase' = "reset" /\ request' = Plain("none", 0, 0) /\ got' = <<>> /\ outcome' = "none"
    /\ hostAddr' = 0 /\ configured' = FALSE
    /\ UNCHANGED <<usbRx, usbTx, addressVars, pc, usbMsg, usbConfiguration, lineCoding, toggle,
                   expected3, dropped3, setups, lost, restarts>>

HostResets ==
    /\ phase # "reset"
    /\ BusReset
    /\ UNCHANGED <<usbTxStatus3, intr3Status, dtr, got3>>

\* begin(): usbBegin() disconnects for 250 ms; the host finds a new device.
Begin ==
    /\ pc = "rx"
    /\ BusReset
    /\ usbTxStatus3' = [usbResetDataToggling EXCEPT !.nak = TRUE]
    /\ intr3Status' = 0
    /\ dtr' = "none"
    /\ got3' = <<>>

\* A reset lasts long enough for a whole usbPoll(), see usbdrv.h.
ResetEnds ==
    /\ phase = "reset"
    /\ usbRx.token = "none" /\ usbDeviceAddr = 0 /\ usbNewDeviceAddr = 0
    /\ phase' = "idle"
    /\ UNCHANGED <<usbRx, usbTx, addressVars, usbTxStatus3, pc, mainVars, request, got, toggle,
                   outcome, hostAddr, configured, notifiedVars, boundVars>>

-----------------------------------------------------------------------------

\* Just after begin(), or enumerated already.
Init ==
    /\ hostAddr \in {0} \cup Addresses /\ configured = (hostAddr # 0)
    /\ usbDeviceAddr = hostAddr /\ usbNewDeviceAddr = hostAddr
    /\ usbConfiguration = IF configured THEN 1 ELSE 0
    /\ usbRx = RxFree
    /\ usbTx = [answer |-> "NAK", token |-> 0, data |-> <<>>]
    /\ usbMsg = [base |-> "status", at |-> 0, len |-> USB_NO_MSG, flags |-> "RAM"]
    /\ usbTxStatus3 = [nak |-> TRUE, token |-> 1, piece |-> "state"]
    /\ pc = "rx" /\ lineCoding = Coding(9600) /\ intr3Status = 0 /\ dtr = "none"
    /\ phase = "idle" /\ request = Plain("none", 0, 0) /\ got = <<>> /\ toggle = 1
    /\ outcome = "none" /\ expected3 = 0 /\ got3 = <<>>
    /\ setups = 0 /\ resets = 0 /\ lost = 0 /\ dropped3 = 0
    /\ restarts = 0

Main == ProcessSetup \/ ProcessData \/ NoPacket \/ Build \/ Line \/ Notify
Continues ==
    \/ HostSetup \/ HostWrites \/ HostMisses \/ HostReads \/ HostReadsStatus \/ HostStalled
    \/ HostWritesStatus \/ ResetEnds
Next == Main \/ Continues \/ HostStarts \/ HostPolls3 \/ HostResets \/ Begin \/ SetDtrPin

Spec == Init /\ [][Next]_vars

\* The sketch keeps calling usbPollWrapper(), the host goes on with a request
\* and polls endpoint 3.  It need not ask anything.
FairSpec == Spec /\ WF_vars(Main) /\ WF_vars(Continues) /\ WF_vars(HostPolls3)

-----------------------------------------------------------------------------
(* Properties.                                                             *)

Bytes == 0..255

\* The variables keep their types.  usbMsgLen stays in its byte.
TypeOK ==
    /\ usbRx \in [token : {"none", "SETUP", "OUT"}, request : Requests \cup {Plain("none", 0, 0)},
                  data : Seq(Bytes)]
    /\ usbTx \in [answer : {"NAK", "STALL", "data"}, token : {0, 1}, data : Seq(Bytes)]
    /\ Len(usbTx.data) <= 8
    /\ {usbDeviceAddr, usbNewDeviceAddr, hostAddr} \subseteq {0} \cup Addresses
    /\ usbTxStatus3 \in [nak : BOOLEAN, token : {0, 1}, piece : {"header", "state"}]
    /\ pc \in {"rx", "build", "line", "notify"}
    /\ usbMsg \in [base : DOMAIN Flash \cup DOMAIN RAM, at : Nat, len : Bytes,
                   flags : {"ROM", "RAM", "USER_RW"}]
    /\ usbConfiguration \in {0, 1}
    /\ lineCoding \in Seq(Bytes) /\ Len(lineCoding) = 7
    /\ intr3Status \in 0..2
    /\ dtr \in {"none", "low", "high"}
    /\ phase \in {"idle", "setup", "data", "status", "reset"}
    /\ request \in Requests \cup {Plain("none", 0, 0)}
    /\ got \in Seq(Bytes) /\ toggle \in {0, 1} /\ outcome \in {"none", "done", "stalled"}
    /\ configured \in BOOLEAN
    /\ expected3 \in {0, 1} /\ got3 \in Seq({"header", "state"})
    /\ {setups, resets, lost, dropped3, restarts} \subseteq Nat

\* usbMsgPtr and usbMsgFlags always fit together, and what is still to be sent
\* is inside the object usbMsgPtr points to, whatever request came before,
\* wherever it was given up.
ReadsInside ==
    usbMsg.len \notin {0, USB_NO_MSG} =>
        /\ (usbMsg.flags = "ROM") = (usbMsg.base \in DOMAIN Flash)
        /\ usbMsg.at + usbMsg.len <= Len(Contents(usbMsg.base))

Replied == phase = "idle" /\ outcome = "done"

\* What the host must get.
Expected ==
    LET all == CASE request.bRequest = "GET_DESCRIPTOR" ->
                        IF request.descriptor \in DOMAIN Flash THEN Flash[request.descriptor]
                                                               ELSE <<>>
                 [] request.bRequest = "GET_STATUS" -> <<0, 0>>
                 [] request.bRequest = "GET_CONFIGURATION" -> <<usbConfiguration>>
                 [] request.bRequest = "GET_INTERFACE" -> <<0>>
                 [] request.bRequest = "GET_LINE_CODING" -> lineCoding
                 [] OTHER -> <<>>
    IN  SubSeq(all, 1, IF request.wLength < Len(all) THEN request.wLength ELSE Len(all))

\* A request that the host believes done has had its own reply, never what was
\* left of one it gave up; if packets were lost the reply can be short, but it
\* is never of full length and wrong.
ReplyRight == Replied /\ (lost = 0 \/ Len(got) = Len(Expected)) => got = Expected

\* Where the descriptors start that follow one at i by their lengths, for each i.
StartsFrom(bytes) ==
    LET starts[i \in 1..(Len(bytes) + 255)] ==
            IF i > Len(bytes) \/ bytes[i] = 0 THEN {} ELSE {i} \cup starts[i + bytes[i]]
    IN  starts

PacketSizes(bytes, endpoint) ==
    {bytes[i + 4] : i \in {i \in StartsFrom(bytes)[1] :
                               bytes[i + 1] = 5 /\ bytes[i + 2] = endpoint}}

\* A host that asks for all of the configuration, whose length is in its first
\* bytes, finds there the packet sizes that usbBegin() reads from the same bytes
\* at fixed offsets.
PacketSizesAgree ==
    /\ Replied /\ request.descriptor = "config" /\ Len(got) = Len(Expected)
    /\ request.wLength >= 9 /\ request.wLength >= got[3] + 256 * got[4]
    =>  /\ Len(got) = got[3] + 256 * got[4]
        /\ PacketSizes(got, 1) = {ConfigDescriptor[DIGICDC_OUT_PACKET_SIZE_AT + 1]}
        /\ PacketSizes(got, 129) = {ConfigDescriptor[DIGICDC_IN_PACKET_SIZE_AT + 1]}

\* The device answers at the address the host uses for it.  Only if the status
\* packet of SET_ADDRESS is lost does it move before the host knows.
AddressFollowsHost ==
    phase # "reset" /\ usbDeviceAddr # hostAddr =>
        /\ lost > 0
        /\ request.bRequest = "SET_ADDRESS" /\ phase \in {"setup", "status"}
        /\ usbDeviceAddr = request.value

\* When the host is told that its line coding is set it is, and baud() says so;
\* when it is told that it is refused, one that was not refused is still there,
\* or the 9600 that digiCdcAcceptLineCoding() never saw.
LineCodingSet ==
    [][request.bRequest = "SET_LINE_CODING" /\ phase # "idle" /\ phase' = "idle" =>
           IF outcome' = "stalled" THEN request.value \in Refused /\ baud \notin Refused \ {9600}
                                   ELSE baud = request.value]_vars

\* Unless packets were lost or dropped, the host receives the notification's
\* packets by turns, although SET_CONTROL_LINE_STATE may come between the two.
NotificationWhole ==
    lost = 0 /\ dropped3 = 0 =>
        \A i \in 1..Len(got3) : got3[i] = IF i % 2 = 1 THEN "header" ELSE "state"

\* The tokens of endpoint 3 can be out of step with the host's after
\* SET_CONFIGURATION or SET_INTERFACE, which make one side start over, or both
\* at different times, and after a lost packet.  They recover by themselves: the
\* host takes at most one packet for a repetition after each, wherever it gives
\* the request up, and none because of another request, begin() or a bus reset.
DroppedBounded == dropped3 <= restarts + lost

\* A request ends, unless a packet is lost.
RequestsEnd == phase \in {"setup", "data", "status"} ~> phase \in {"idle", "reset"} \/ lost > 0

\* After SET_CONTROL_LINE_STATE the host hears of the carrier, unless a packet
\* is lost or dropped on the way or the host gives the configuration up.
NotificationArrives ==
    phase = "idle" /\ outcome = "done" /\ request.bRequest = "SET_CONTROL_LINE_STATE"
        ~> "state" \in {got3[i] : i \in 1..Len(got3)} \/ lost + dropped3 > 0 \/ ~configured
=============================================================================
