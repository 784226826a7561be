------------------------- MODULE ControlPipeProofs -------------------------
(***************************************************************************)
(* Proofs about ControlPipe, for every packet size, set of bit rates,      *)
(* addresses and descriptors, and any number of requests, resets and lost  *)
(* packets.                                                                *)
(***************************************************************************)
EXTENDS ControlPipe, TLAPS

-----------------------------------------------------------------------------
(* The address.                                                            *)

Assigning == request.bRequest = "SET_ADDRESS" /\ phase \in {"setup", "status"}

\* A SET_ADDRESS that waits in usbRxBuf is the one the host is waiting for.
Waiting == usbRx.token = "SETUP" /\ usbRx.request.bRequest = "SET_ADDRESS"

WaitingIsCurrent == Waiting => Assigning /\ usbRx.request = request

\* Once the SETUP packet has been processed only the empty packet is on offer,
\* with the token the host expects, until one has been lost.
StatusOffered ==
    /\ usbRx.token = "none" /\ usbTx.answer # "STALL"
    /\ usbNewDeviceAddr = request.value
    /\ lost = 0 => toggle = 1 /\ usbTx.token = IF usbTx.answer = "data" THEN 1 ELSE 0

\* Both addresses are the host's, or on the way to the one it assigns.
AddressesAgree ==
    /\ usbNewDeviceAddr = hostAddr \/ (Assigning /\ usbNewDeviceAddr = request.value)
    /\ usbDeviceAddr = hostAddr
       \/ (Assigning /\ usbDeviceAddr = request.value /\ usbNewDeviceAddr = request.value
           /\ lost > 0)
    /\ Assigning /\ phase = "status" /\ ~Waiting => StatusOffered

\* The host assigns an address to a device that has none, and configures one
\* that has: no other endpoint is polled while the address changes.
HostOrder ==
    /\ request.bRequest = "SET_ADDRESS" =>
           request.wLength = 0 /\ phase \in {"idle", "setup", "status", "reset"}
    /\ Assigning => hostAddr = 0 /\ toggle = 1
    /\ configured => hostAddr # 0
    /\ phase = "reset" => hostAddr = 0
    /\ request.bRequest = "SET_CONFIGURATION" => hostAddr # 0

AddressInv ==
    /\ lost \in Nat
    /\ HostOrder
    /\ phase # "reset" => WaitingIsCurrent /\ AddressesAgree

\* Which requests there are, when.
LEMMA AddressRequest ==
    ASSUME NEW r \in Allowed
    PROVE  /\ r.bRequest = "SET_ADDRESS" => r.wLength = 0 /\ hostAddr = 0
           /\ r.bRequest = "SET_CONFIGURATION" => hostAddr # 0
<1> USE DEF Plain, Request
<1>1. CASE r \in DescriptorRequests
    BY <1>1 DEF DescriptorRequests
<1>2. CASE hostAddr = 0 /\ r \in AddressRequests
    BY <1>2 DEF AddressRequests
<1>3. CASE hostAddr # 0 /\ r \in ConfigurationRequests
    BY <1>3 DEF ConfigurationRequests
<1>4. CASE r \in InterfaceRequests
    BY <1>4 DEF InterfaceRequests
<1> QED
    BY <1>1, <1>2, <1>3, <1>4 DEF Allowed

LEMMA AddressInit == Init => AddressInv
<1> SUFFICES ASSUME Init PROVE AddressInv
    OBVIOUS
<1>0. configured = (hostAddr # 0)
    BY DEF Init
<1>1. configured => hostAddr # 0
    BY <1>0, Zenon
<1>2. phase = "idle" /\ request.bRequest = "none" /\ usbRx.token = "none" /\ lost = 0
    BY DEF Init, RxFree, Plain, Request
<1>3. usbDeviceAddr = hostAddr /\ usbNewDeviceAddr = hostAddr
    BY DEF Init
<1> QED
    BY <1>1, <1>2, <1>3 DEF AddressInv, Waiting, WaitingIsCurrent, AddressesAgree, HostOrder, Assigning

\* Every step keeps it: the host gives SET_ADDRESS up only by a reset.
LEMMA AddressStep == AddressInv /\ [Next]_vars => AddressInv'
<1> SUFFICES ASSUME AddressInv, [Next]_vars PROVE AddressInv'
    OBVIOUS
<1> USE DEF AddressInv, Waiting, WaitingIsCurrent, AddressesAgree, StatusOffered, HostOrder, Assigning
<1>1. CASE ProcessSetup
    <2>1. /\ usbNewDeviceAddr' = IF usbRx.request.bRequest = "SET_ADDRESS"
                                  THEN usbRx.request.value ELSE usbNewDeviceAddr
          /\ usbDeviceAddr' = usbDeviceAddr
          /\ usbRx.token = "SETUP"
        BY <1>1 DEF ProcessSetup, AddressNow
    <2>2. usbRx'.token = "none"
        BY <1>1 DEF ProcessSetup, RxFree
    <2>3. usbTx'.answer = "NAK" /\ usbTx'.token = 0
        BY <1>1 DEF ProcessSetup, Aborted
    <2>4. UNCHANGED <<phase, request, toggle, hostAddr, configured, lost>>
        BY <1>1 DEF ProcessSetup, requestVars, boundVars
    <2> QED
        BY <2>1, <2>2, <2>3, <2>4
<1>2. CASE ProcessData
    BY <1>2 DEF ProcessData, requestVars, addressVars, boundVars, RxFree
<1>3. CASE NoPacket \/ Build \/ Notify \/ SetDtrPin
    BY <1>3 DEF NoPacket, Build, Notify, SetDtrPin, requestVars, addressVars, boundVars
<1>4. CASE Line
    BY <1>4 DEF Line, requestVars, addressVars, boundVars
<1>5. CASE HostStarts
    <2>1. request' \in Allowed
        BY <1>5 DEF HostStarts
    <2>2. /\ request'.bRequest = "SET_ADDRESS" => request'.wLength = 0 /\ hostAddr = 0
          /\ request'.bRequest = "SET_CONFIGURATION" => hostAddr # 0
        BY <2>1, AddressRequest
    <2> QED
        BY <1>5, <2>2 DEF HostStarts, addressVars
<1>6. CASE HostSetup
    BY <1>6 DEF HostSetup, Store, Loses, addressVars
<1>7. CASE HostWrites
    BY <1>7 DEF HostWrites, Store, Loses, addressVars
<1>8. CASE HostMisses
    BY <1>8 DEF HostMisses, Sends, Offered, Answers, AddressAfterData, Loses
<1>9. CASE HostReads
    BY <1>9 DEF HostReads, Sends, Offered, Answers, AddressAfterData, DeviceToHost
<1>10. CASE HostReadsStatus
    BY <1>10 DEF HostReadsStatus, Sends, Offered, Answers, AddressAfterData, Completed
<1>11. CASE HostStalled
    BY <1>11 DEF HostStalled, Answers, addressVars, boundVars
<1>12. CASE HostWritesStatus
    BY <1>12 DEF HostWritesStatus, Completed, DeviceToHost, addressVars, boundVars
<1>13. CASE ResetEnds
    BY <1>13 DEF ResetEnds, addressVars, boundVars
<1>14. CASE HostPolls3
    BY <1>14 DEF HostPolls3, Answers, AddressAfterData, Loses, requestVars, notifiedVars
<1>15. CASE HostResets \/ Begin
    BY <1>15 DEF HostResets, Begin, BusReset, Plain, Request, addressVars
<1>16. CASE UNCHANGED vars
    BY <1>16 DEF vars, requestVars, addressVars, boundVars
<1> QED
    BY <1>1, <1>2, <1>3, <1>4, <1>5, <1>6, <1>7, <1>8, <1>9, <1>10, <1>11, <1>12, <1>13, <1>14,
       <1>15, <1>16 DEF Next, Main, Continues

\* AddressFollowsHost: the device answers at the address the host uses, and
\* moves before the host knows only if the status packet is lost.
THEOREM AddressCorrect == Spec => []AddressFollowsHost
<1>1. AddressInv => AddressFollowsHost
    BY DEF AddressInv, AddressFollowsHost, AddressesAgree, Assigning
<1> QED
    BY AddressInit, AddressStep, <1>1, PTL DEF Spec

-----------------------------------------------------------------------------
(* The notification.                                                       *)

Turn(i) == IF i % 2 = 1 THEN "header" ELSE "state"

\* Packets of the notification handed over so far: those taken, and the one on
\* offer.
HandedOver == Len(got3) + (IF usbTxStatus3.nak THEN 0 ELSE 1)

\* Without losses the host has taken all that were handed over, and the next
\* one is the state if the header went last.
NotificationInv ==
    /\ lost \in Nat /\ dropped3 \in Nat
    /\ usbTxStatus3.nak \in BOOLEAN /\ usbTxStatus3.piece \in {"header", "state"}
    /\ intr3Status \in 0..2
    /\ got3 \in Seq({"header", "state"})
    /\ lost = 0 /\ dropped3 = 0 =>
           /\ \A i \in 1..Len(got3) : got3[i] = Turn(i)
           /\ ~usbTxStatus3.nak => usbTxStatus3.piece = Turn(HandedOver)
           /\ intr3Status = 1 <=> HandedOver % 2 = 1

LEMMA NotificationInit == Init => NotificationInv
BY DEF Init, NotificationInv, HandedOver, Turn

\* The packet of Turn(i + 1) follows that of Turn(i).
LEMMA Turns ==
    ASSUME NEW i \in Nat
    PROVE  /\ i % 2 = 1 => (i + 1) % 2 = 0 /\ Turn(i + 1) = "state"
           /\ i % 2 # 1 => (i + 1) % 2 = 1 /\ Turn(i + 1) = "header"
BY DEF Turn

\* Only Notify, HostPolls3, begin() and two requests touch endpoint 3.
LEMMA NotificationStep == NotificationInv /\ [Next]_vars => NotificationInv'
<1> SUFFICES ASSUME NotificationInv, [Next]_vars PROVE NotificationInv'
    OBVIOUS
<1>a. Len(got3) \in Nat /\ HandedOver \in Nat
    BY DEF NotificationInv, HandedOver
<1>b. ASSUME UNCHANGED <<usbTxStatus3, intr3Status, got3, dropped3>>, lost' = lost \/ lost' = lost + 1
      PROVE  NotificationInv'
    <2>1. HandedOver' = HandedOver
        BY <1>b DEF HandedOver
    <2>2. lost' \in Nat /\ (lost' = 0 => lost = 0)
        BY <1>b DEF NotificationInv
    <2> HIDE DEF HandedOver
    <2> QED
        BY <1>b, <2>1, <2>2 DEF NotificationInv
<1>1. CASE ProcessSetup
    <2>1. usbTxStatus3'.nak = usbTxStatus3.nak /\ usbTxStatus3'.piece = usbTxStatus3.piece
        BY <1>1 DEF ProcessSetup, usbResetDataToggling, NotificationInv
    <2>2. intr3Status' = intr3Status \/ (intr3Status = 0 /\ intr3Status' = 2)
        BY <1>1 DEF ProcessSetup, Notified
    <2>3. UNCHANGED <<got3, dropped3, lost>>
        BY <1>1 DEF ProcessSetup, notifiedVars, boundVars
    <2>4. HandedOver' = HandedOver
        BY <2>1, <2>3 DEF HandedOver
    <2> QED
        BY <2>1, <2>2, <2>3, <2>4 DEF NotificationInv
<1>2. CASE Notify
    <2>1. CASE intr3Status # 0 /\ usbTxStatus3.nak
        <3>1. /\ usbTxStatus3'.nak = FALSE
              /\ usbTxStatus3'.piece = IF intr3Status = 2 THEN "header" ELSE "state"
              /\ intr3Status' = intr3Status - 1
              /\ UNCHANGED <<got3, dropped3, lost>>
            BY <1>2, <2>1 DEF Notify, usbInterruptIsReady3, usbSetInterrupt3, notifiedVars, boundVars
        <3>2. HandedOver' = HandedOver + 1
            BY <1>a, <2>1, <3>1 DEF HandedOver
        <3>3. intr3Status = 2 \/ intr3Status = 1
            BY <2>1 DEF NotificationInv
        <3>4. lost = 0 /\ dropped3 = 0 => (intr3Status = 1 <=> HandedOver % 2 = 1)
            BY DEF NotificationInv
        <3>5. lost = 0 /\ dropped3 = 0 =>
                  /\ usbTxStatus3'.piece = Turn(HandedOver + 1)
                  /\ intr3Status' = 1 <=> (HandedOver + 1) % 2 = 1
            BY <1>a, <3>1, <3>3, <3>4, Turns
        <3> HIDE DEF HandedOver
        <3>6. HandedOver' = HandedOver + 1 /\ got3' = got3 /\ intr3Status' \in 0..2
            BY <3>1, <3>2, <3>3
        <3> QED
            BY <3>1, <3>5, <3>6 DEF NotificationInv
    <2>2. CASE ~(intr3Status # 0 /\ usbTxStatus3.nak)
        BY <1>2, <1>b, <2>2 DEF Notify, usbInterruptIsReady3, notifiedVars, boundVars
    <2> QED
        BY <2>1, <2>2
<1>3. CASE HostPolls3
    <2>1. usbTxStatus3.nak = FALSE /\ usbTxStatus3'.nak = TRUE
          /\ usbTxStatus3'.piece = usbTxStatus3.piece /\ intr3Status' = intr3Status
        BY <1>3 DEF HostPolls3, NotificationInv, mainVars
    <2>2. CASE got3' = Append(got3, usbTxStatus3.piece) /\ UNCHANGED <<dropped3, lost>>
        <3>1. got3' \in Seq({"header", "state"}) /\ Len(got3') = Len(got3) + 1
            BY <2>2 DEF NotificationInv
        <3>2. HandedOver = Len(got3) + 1 /\ HandedOver' = Len(got3) + 1
            BY <1>a, <2>1, <3>1 DEF HandedOver
        <3>3. \A i \in 1..Len(got3') : got3'[i] = IF i <= Len(got3) THEN got3[i]
                                                                   ELSE usbTxStatus3.piece
            BY <2>2, <3>1 DEF NotificationInv
        <3>4. lost = 0 /\ dropped3 = 0 => \A i \in 1..Len(got3') : got3'[i] = Turn(i)
            BY <1>a, <2>1, <3>1, <3>2, <3>3 DEF NotificationInv
        <3> QED
            BY <2>1, <2>2, <3>1, <3>2, <3>4 DEF NotificationInv
    <2>3. CASE ((dropped3' = dropped3 + 1 /\ lost' = lost)
                \/ (lost' = lost + 1 /\ dropped3' = dropped3)) /\ got3' = got3
        <3>1. lost' \in Nat /\ dropped3' \in Nat /\ ~(lost' = 0 /\ dropped3' = 0)
            BY <2>3 DEF NotificationInv
        <3>2. got3' \in Seq({"header", "state"}) /\ intr3Status' \in 0..2
            BY <2>1, <2>3 DEF NotificationInv
        <3>3. usbTxStatus3'.nak \in BOOLEAN /\ usbTxStatus3'.piece \in {"header", "state"}
            BY <2>1 DEF NotificationInv
        <3> QED
            BY <3>1, <3>2, <3>3 DEF NotificationInv
    <2>4. \/ got3' = Append(got3, usbTxStatus3.piece) /\ UNCHANGED <<dropped3, lost>>
          \/ dropped3' = dropped3 + 1 /\ UNCHANGED <<got3, lost>>
          \/ lost' = lost + 1 /\ UNCHANGED <<got3, dropped3>>
        BY <1>3 DEF HostPolls3, Loses, notifiedVars
    <2> QED
        BY <2>2, <2>3, <2>4
<1>4. CASE Begin
    <2>1. usbTxStatus3'.nak = TRUE /\ usbTxStatus3'.piece = usbTxStatus3.piece
        BY <1>4 DEF Begin, usbResetDataToggling, NotificationInv
    <2> QED
        BY <1>4, <2>1 DEF Begin, BusReset, NotificationInv, HandedOver
<1>5. CASE HostResets
    BY <1>5, <1>b DEF HostResets, BusReset
<1>6. CASE ProcessData \/ NoPacket \/ Build \/ Line \/ SetDtrPin
    BY <1>6, <1>b DEF ProcessData, NoPacket, Build, Line, SetDtrPin, mainVars, notifiedVars, boundVars
<1>7. CASE HostSetup \/ HostWrites
    BY <1>7, <1>b DEF HostSetup, HostWrites, Store, Loses, mainVars, notifiedVars
<1>8. CASE HostMisses \/ HostReads \/ HostReadsStatus
    BY <1>8, <1>b DEF HostMisses, HostReads, HostReadsStatus, Sends, Loses, mainVars
<1>9. CASE HostStalled \/ HostWritesStatus \/ ResetEnds \/ HostStarts
    BY <1>9, <1>b DEF HostStalled, HostWritesStatus, ResetEnds, HostStarts, mainVars, notifiedVars,
                      boundVars
<1>10. CASE UNCHANGED vars
    BY <1>10, <1>b DEF vars, mainVars, notifiedVars, boundVars
<1> QED
    BY <1>1, <1>2, <1>3, <1>4, <1>5, <1>6, <1>7, <1>8, <1>9, <1>10 DEF Next, Main, Continues

\* NotificationWhole: without losses the host receives header and state by
\* turns, whenever SET_CONTROL_LINE_STATE and begin() come.
THEOREM NotificationCorrect == Spec => []NotificationWhole
<1>1. NotificationInv => NotificationWhole
    BY DEF NotificationInv, NotificationWhole, Turn
<1> QED
    BY NotificationInit, NotificationStep, <1>1, PTL DEF Spec
-----------------------------------------------------------------------------
(* What the objects and the requests are.                                  *)

Sized(s, n) == s \in Seq(Bytes) /\ Len(s) = n

LEMMA Joined ==
    ASSUME NEW s, NEW t, NEW m \in Nat, NEW n \in Nat, Sized(s, m), Sized(t, n)
    PROVE  Sized(s \o t, m + n)
BY DEF Sized

Begins(whole, s, n) == \A i \in 1..n : whole[i] = s[i]
Contains(whole, s, m, n) == \A i \in 1..n : whole[m + i] = s[i]

\* Where the parts of a sequence are in it.
LEMMA Parts ==
    ASSUME NEW whole, NEW s, NEW t, NEW m \in Nat, NEW n \in Nat, NEW size, size = m + n,
           Sized(s, m), Sized(t, n), Begins(whole, s \o t, size)
    PROVE  Begins(whole, s, m) /\ Contains(whole, t, m, n)
<1>1. /\ \A i \in 1..m : (s \o t)[i] = s[i]
      /\ \A i \in 1..n : (s \o t)[m + i] = t[i]
    BY DEF Sized
<1>2. (\A i \in 1..m : i \in 1..size) /\ (\A i \in 1..n : m + i \in 1..size)
    OBVIOUS
<1> QED
    BY <1>1, <1>2 DEF Begins, Contains

LEMMA FlashNames == DOMAIN Flash = {"device", "config", "language", "vendor", "product"}
BY DEF Flash

LEMMA RamNames == DOMAIN RAM = {"lineCoding", "usbConfiguration", "status"}
BY DEF RAM

\* What the walk over the configuration and usbBegin() read of it: the lengths
\* and the types of the descriptors, the addresses and the packet sizes of the
\* endpoints.
ConfigLayout ==
    /\ ConfigDescriptor[1] = 9 /\ ConfigDescriptor[2] = 2
    /\ ConfigDescriptor[3] = 67 /\ ConfigDescriptor[4] = 0
    /\ ConfigDescriptor[10] = 9 /\ ConfigDescriptor[11] = 4
    /\ ConfigDescriptor[19] = 5 /\ ConfigDescriptor[20] = 36
    /\ ConfigDescriptor[24] = 4 /\ ConfigDescriptor[25] = 36
    /\ ConfigDescriptor[28] = 5 /\ ConfigDescriptor[29] = 36
    /\ ConfigDescriptor[33] = 5 /\ ConfigDescriptor[34] = 36
    /\ ConfigDescriptor[38] = 7 /\ ConfigDescriptor[39] = 5 /\ ConfigDescriptor[40] = 131
    /\ ConfigDescriptor[45] = 9 /\ ConfigDescriptor[46] = 4
    /\ ConfigDescriptor[54] = 7 /\ ConfigDescriptor[55] = 5 /\ ConfigDescriptor[56] = 1
    /\ ConfigDescriptor[58] = OutPacketSize
    /\ ConfigDescriptor[61] = 7 /\ ConfigDescriptor[62] = 5 /\ ConfigDescriptor[63] = 129
    /\ ConfigDescriptor[65] = InPacketSize

\* The configuration is as long as usbFunctionDescriptor() says.
LEMMA ConfigLength ==
    /\ ConfigDescriptor \in Seq(Bytes) /\ Len(ConfigDescriptor) = DIGICDC_DESCRIPTOR_SIZE
    /\ ConfigLayout
<1> DEFINE head == <<9, 2, 67, 0, 2, 1, 0, 128 + 64 * USB_CFG_IS_SELF_POWERED,
                    USB_CFG_MAX_BUS_POWER \div 2>>
           control == <<9, 4, 0, 0, USB_CFG_HAVE_INTRIN_ENDPOINT>>
           zero == <<0>>
           acm == <<5, 36, 0, 16, 1>>
           acm2 == <<4, 36, 2, 2>>
           acm3 == <<5, 36, 6, 0, 1>>
           acm4 == <<5, 36, 1, 3, 1>>
           notify == <<7, 5, 128 + USB_CFG_EP3_NUMBER, 3, 8, 0, USB_CFG_INTR_POLL_INTERVAL>>
           data == <<9, 4, 1, 0, 2, 10, 0, 0, 0>>
           out == <<7, 5, 1, 2, OutPacketSize, 0, 0>>
           in == <<7, 5, 129, 2, InPacketSize, 0, 0>>
<1> USE DEF Sized, Bytes
<1>1. Sized(head, 9)
    BY DEF USB_CFG_IS_SELF_POWERED, USB_CFG_MAX_BUS_POWER
<1>2. Sized(control, 5) /\ Sized(USB_CFG_INTERFACE_CLASS, 3) /\ Sized(zero, 1)
    BY DEF USB_CFG_HAVE_INTRIN_ENDPOINT, USB_CFG_INTERFACE_CLASS
<1>3. Sized(acm, 5) /\ Sized(acm2, 4) /\ Sized(acm3, 5) /\ Sized(acm4, 5)
    OBVIOUS
<1>4. Sized(notify, 7) /\ Sized(data, 9)
    BY DEF USB_CFG_EP3_NUMBER, USB_CFG_INTR_POLL_INTERVAL
<1>5. OutPacketSize \in Bytes /\ InPacketSize \in Bytes
    BY ControlAssumption
<1>6. Sized(out, 7) /\ Sized(in, 7)
    BY <1>5
<1>7. ConfigDescriptor =
           head \o control \o USB_CFG_INTERFACE_CLASS \o zero \o acm \o acm2 \o acm3 \o acm4
           \o notify \o data \o out \o in
    BY DEF ConfigDescriptor
<1> HIDE DEF head, control, zero, acm, acm2, acm3, acm4, notify, data, out, in, Sized, Bytes
<1> DEFINE a == head \o control
           b == a \o USB_CFG_INTERFACE_CLASS
           c == b \o zero
           d == c \o acm
           e == d \o acm2
           f == e \o acm3
           g == f \o acm4
           h == g \o notify
           i == h \o data
           j == i \o out
<1>8. Sized(a, 14)
    BY <1>1, <1>2, Joined
<1>9. Sized(b, 17)
    BY <1>2, <1>8, Joined
<1>10. Sized(c, 18)
    BY <1>2, <1>9, Joined
<1>11. Sized(d, 23)
    BY <1>3, <1>10, Joined
<1>12. Sized(e, 27)
    BY <1>3, <1>11, Joined
<1>13. Sized(f, 32)
    BY <1>3, <1>12, Joined
<1>14. Sized(g, 37)
    BY <1>3, <1>13, Joined
<1>15. Sized(h, 44)
    BY <1>4, <1>14, Joined
<1>16. Sized(i, 53)
    BY <1>4, <1>15, Joined
<1>17. Sized(j, 60)
    BY <1>6, <1>16, Joined
<1>18. Sized(ConfigDescriptor, 67)
    BY <1>6, <1>7, <1>17, Joined
<1>19. Begins(ConfigDescriptor, j \o in, 67)
    BY <1>7 DEF Begins
<1>20. Begins(ConfigDescriptor, j, 60) /\ Contains(ConfigDescriptor, in, 60, 7)
    BY <1>6, <1>17, <1>19, Parts
<1>21. Begins(ConfigDescriptor, i, 53) /\ Contains(ConfigDescriptor, out, 53, 7)
    BY <1>6, <1>16, <1>20, Parts
<1>22. Begins(ConfigDescriptor, h, 44) /\ Contains(ConfigDescriptor, data, 44, 9)
    BY <1>4, <1>15, <1>21, Parts
<1>23. Begins(ConfigDescriptor, g, 37) /\ Contains(ConfigDescriptor, notify, 37, 7)
    BY <1>4, <1>14, <1>22, Parts
<1>24. Begins(ConfigDescriptor, f, 32) /\ Contains(ConfigDescriptor, acm4, 32, 5)
    BY <1>3, <1>13, <1>23, Parts
<1>25. Begins(ConfigDescriptor, e, 27) /\ Contains(ConfigDescriptor, acm3, 27, 5)
    BY <1>3, <1>12, <1>24, Parts
<1>26. Begins(ConfigDescriptor, d, 23) /\ Contains(ConfigDescriptor, acm2, 23, 4)
    BY <1>3, <1>11, <1>25, Parts
<1>27. Begins(ConfigDescriptor, c, 18) /\ Contains(ConfigDescriptor, acm, 18, 5)
    BY <1>3, <1>10, <1>26, Parts
<1>28. Begins(ConfigDescriptor, b, 17) /\ Contains(ConfigDescriptor, zero, 17, 1)
    BY <1>2, <1>9, <1>27, Parts
<1>29. Begins(ConfigDescriptor, a, 14) /\ Contains(ConfigDescriptor, USB_CFG_INTERFACE_CLASS, 14, 3)
    BY <1>2, <1>8, <1>28, Parts
<1>30. Begins(ConfigDescriptor, head, 9) /\ Contains(ConfigDescriptor, control, 9, 5)
    BY <1>1, <1>2, <1>29, Parts
<1> HIDE DEF a, b, c, d, e, f, g, h, i, j
<1>31. ConfigLayout
    <2>1. /\ ConfigDescriptor[1] = 9 /\ ConfigDescriptor[2] = 2
          /\ ConfigDescriptor[3] = 67 /\ ConfigDescriptor[4] = 0
        BY <1>30 DEF Begins, Contains, head
    <2>2. ConfigDescriptor[9 + 1] = 9 /\ ConfigDescriptor[9 + 2] = 4
        BY <1>30 DEF Begins, Contains, control
    <2>3. ConfigDescriptor[18 + 1] = 5 /\ ConfigDescriptor[18 + 2] = 36
        BY <1>27 DEF Begins, Contains, acm
    <2>4. ConfigDescriptor[23 + 1] = 4 /\ ConfigDescriptor[23 + 2] = 36
        BY <1>26 DEF Begins, Contains, acm2
    <2>5. ConfigDescriptor[27 + 1] = 5 /\ ConfigDescriptor[27 + 2] = 36
        BY <1>25 DEF Begins, Contains, acm3
    <2>6. ConfigDescriptor[32 + 1] = 5 /\ ConfigDescriptor[32 + 2] = 36
        BY <1>24 DEF Begins, Contains, acm4
    <2>7. /\ ConfigDescriptor[37 + 1] = 7 /\ ConfigDescriptor[37 + 2] = 5
          /\ ConfigDescriptor[37 + 3] = 131
        BY <1>23 DEF Begins, Contains, notify, USB_CFG_EP3_NUMBER
    <2>8. ConfigDescriptor[44 + 1] = 9 /\ ConfigDescriptor[44 + 2] = 4
        BY <1>22 DEF Begins, Contains, data
    <2>9. /\ ConfigDescriptor[53 + 1] = 7 /\ ConfigDescriptor[53 + 2] = 5
          /\ ConfigDescriptor[53 + 3] = 1 /\ ConfigDescriptor[53 + 5] = OutPacketSize
        BY <1>21 DEF Begins, Contains, out
    <2>10. /\ ConfigDescriptor[60 + 1] = 7 /\ ConfigDescriptor[60 + 2] = 5
           /\ ConfigDescriptor[60 + 3] = 129 /\ ConfigDescriptor[60 + 5] = InPacketSize
        BY <1>20 DEF Begins, Contains, in
    <2> QED
        BY <2>1, <2>2, <2>3, <2>4, <2>5, <2>6, <2>7, <2>8, <2>9, <2>10 DEF ConfigLayout
<1> QED
    BY <1>18, <1>31 DEF Sized, DIGICDC_DESCRIPTOR_SIZE

\* A string descriptor.
LEMMA StringLength ==
    ASSUME NEW n \in 1..16
    PROVE  StringDescriptor(n) \in Seq(Bytes) /\ Len(StringDescriptor(n)) = 2 * n + 2
<1> DEFINE chars == [i \in 1..(2 * n) |-> IF i % 2 = 1 THEN 64 + i ELSE 0]
           header == <<2 * n + 2, 3>>
<1>1. Sized(chars, 2 * n) /\ Sized(header, 2)
    BY DEF Sized, Bytes
<1>2. StringDescriptor(n) = header \o chars
    BY DEF StringDescriptor
<1> HIDE DEF chars, header
<1>3. Sized(header \o chars, 2 + 2 * n)
    BY <1>1, Joined
<1> QED
    BY <1>2, <1>3 DEF Sized

LEMMA DeviceLength == Sized(usbDescriptorDevice, 18)
<1> DEFINE head == <<18, 1, 16, 1>>
           size == <<0, 8>>
           tail == <<1, 2, 0, 1>>
<1>1. Sized(head, 4) /\ Sized(size, 2) /\ Sized(tail, 4)
    BY DEF Sized, Bytes
<1>2. Sized(USB_CFG_DEVICE_CLASS, 2) /\ Sized(USB_CFG_VENDOR_ID, 2)
    BY DEF Sized, Bytes, USB_CFG_DEVICE_CLASS, USB_CFG_VENDOR_ID
<1>3. Sized(USB_CFG_DEVICE_ID, 2) /\ Sized(USB_CFG_DEVICE_VERSION, 2)
    BY DEF Sized, Bytes, USB_CFG_DEVICE_ID, USB_CFG_DEVICE_VERSION
<1>4. usbDescriptorDevice = head \o USB_CFG_DEVICE_CLASS \o size \o USB_CFG_VENDOR_ID
                            \o USB_CFG_DEVICE_ID \o USB_CFG_DEVICE_VERSION \o tail
    BY DEF usbDescriptorDevice
<1> HIDE DEF head, size, tail
<1>5. Sized(head \o USB_CFG_DEVICE_CLASS, 6)
    BY <1>1, <1>2, Joined
<1>6. Sized(head \o USB_CFG_DEVICE_CLASS \o size, 8)
    BY <1>1, <1>5, Joined
<1>7. Sized(head \o USB_CFG_DEVICE_CLASS \o size \o USB_CFG_VENDOR_ID, 10)
    BY <1>2, <1>6, Joined
<1>8. Sized(head \o USB_CFG_DEVICE_CLASS \o size \o USB_CFG_VENDOR_ID \o USB_CFG_DEVICE_ID, 12)
    BY <1>3, <1>7, Joined
<1>9. Sized(head \o USB_CFG_DEVICE_CLASS \o size \o USB_CFG_VENDOR_ID \o USB_CFG_DEVICE_ID
            \o USB_CFG_DEVICE_VERSION, 14)
    BY <1>3, <1>8, Joined
<1> QED
    BY <1>1, <1>4, <1>9, Joined

Objects == {"device", "config", "language", "vendor", "product", "lineCoding",
            "usbConfiguration", "status"}

\* The sizes of the objects in flash and in RAM.
Size == [device |-> 18, config |-> 67, language |-> 4, vendor |-> 28, product |-> 34,
         lineCoding |-> 7, usbConfiguration |-> 1, status |-> 2]

\* What usbDriverDescriptor() replies with is all of the descriptor and no more.
LEMMA FlashObjects ==
    ASSUME NEW d \in DOMAIN Flash
    PROVE  /\ Flash[d] \in Seq(Bytes) /\ Len(Flash[d]) = Size[d]
           /\ DescriptorLength(d) = Size[d]
<1>1. Flash.device = usbDescriptorDevice /\ Flash.config = ConfigDescriptor
    BY DEF Flash
<1>2. Sized(Flash.language, 4)
    BY DEF Flash, Sized, Bytes
<1>3. Sized(Flash.vendor, 28) /\ Sized(Flash.product, 34)
    <2>1. Flash.vendor = StringDescriptor(13) /\ Flash.product = StringDescriptor(16)
        BY DEF Flash, USB_CFG_VENDOR_NAME_LEN, USB_CFG_DEVICE_NAME_LEN
    <2>2. 13 \in 1..16 /\ 16 \in 1..16
        OBVIOUS
    <2>3. Sized(StringDescriptor(13), 28) /\ Sized(StringDescriptor(16), 34)
        BY <2>2, StringLength DEF Sized
    <2> QED
        BY <2>1, <2>3
<1>4. CASE d = "device"
    BY <1>1, <1>4, DeviceLength DEF Sized, Size, DescriptorLength, Dynamic
<1>5. CASE d = "config"
    BY <1>1, <1>5, ConfigLength
    DEF Size, DescriptorLength, Dynamic, usbFunctionDescriptor, DIGICDC_DESCRIPTOR_SIZE
<1>6. CASE d = "language"
    BY <1>2, <1>6 DEF Size, DescriptorLength, Dynamic, Sized
<1>7. CASE d = "vendor"
    BY <1>3, <1>7 DEF Size, DescriptorLength, Dynamic, Sized
<1>8. CASE d = "product"
    BY <1>3, <1>8 DEF Size, DescriptorLength, Dynamic, Sized
<1> QED
    BY <1>4, <1>5, <1>6, <1>7, <1>8, FlashNames

\* A line coding has seven bytes.
LEMMA CodingType ==
    ASSUME NEW rate \in Nat
    PROVE  Coding(rate) \in Seq(Bytes) /\ Len(Coding(rate)) = 7
BY SMT DEF Coding, Bytes

RequestNames ==
    {"GET_DESCRIPTOR", "SET_ADDRESS", "GET_STATUS", "GET_CONFIGURATION", "SET_CONFIGURATION",
     "GET_INTERFACE", "SET_INTERFACE", "GET_LINE_CODING", "SEND_BREAK", "SET_LINE_CODING",
     "SET_CONTROL_LINE_STATE"}

\* The requests of a host: those of the device have a data stage, of those to
\* the device only SET_LINE_CODING has one.
LEMMA RequestFacts ==
    ASSUME NEW r \in Requests
    PROVE  /\ r.bRequest \in RequestNames
           /\ r.wLength \in Nat
           /\ r.bRequest = "SET_ADDRESS" => r.value \in Addresses
           /\ r.bRequest \in {"SET_CONFIGURATION", "SET_CONTROL_LINE_STATE"} => r.value \in {0, 1}
           /\ r.bRequest = "SET_LINE_CODING" => r.value \in Rates /\ r.wLength = 7
           /\ DeviceToHost(r) => r.wLength > 0
           /\ ~DeviceToHost(r) /\ r.wLength > 0 => r.bRequest = "SET_LINE_CODING"
           /\ r = [bRequest |-> r.bRequest, descriptor |-> r.descriptor, value |-> r.value, wLength |-> r.wLength]
<1> USE DEF Plain, Request, RequestNames, DeviceToHost
<1>1. CASE r \in DescriptorRequests
    BY <1>1, ControlAssumption, SMT DEF DescriptorRequests
<1>2. CASE r \in AddressRequests
    BY <1>2, ControlAssumption, SMT DEF AddressRequests
<1>3. CASE r \in ConfigurationRequests
    BY <1>3, SMT DEF ConfigurationRequests
<1>4. CASE r \in InterfaceRequests
    BY <1>4, SMT DEF InterfaceRequests
<1> QED
    BY <1>1, <1>2, <1>3, <1>4, SMT DEF Requests

-----------------------------------------------------------------------------
(* Types, and what usbMsgPtr points to.                                    *)

Messages == [base : Objects, at : Nat, len : Bytes, flags : {"ROM", "RAM", "USER_RW"}]

\* The flags say where the object is, and what is to be sent is inside it.
Inside(message) ==
    message.len \notin {0, USB_NO_MSG} =>
        /\ (message.flags = "ROM") = (message.base \in DOMAIN Flash)
        /\ message.at + message.len <= Size[message.base]

ReceiveType ==
    usbRx \in [token : {"none", "SETUP", "OUT"}, request : Requests \cup {Plain("none", 0, 0)},
               data : Seq(Bytes)]

MessageType ==
    /\ usbTx \in [answer : {"NAK", "STALL", "data"}, token : {0, 1}, data : Seq(Bytes)]
    /\ Len(usbTx.data) <= 8
    /\ usbMsg \in Messages
    /\ Inside(usbMsg)

ObjectType ==
    /\ usbConfiguration \in {0, 1}
    /\ lineCoding \in Seq(Bytes) /\ Len(lineCoding) = 7

DeviceType ==
    /\ {usbDeviceAddr, usbNewDeviceAddr, hostAddr} \subseteq {0} \cup Addresses
    /\ usbTxStatus3 \in [nak : BOOLEAN, token : {0, 1}, piece : {"header", "state"}]
    /\ pc \in {"rx", "build", "line", "notify"}
    /\ intr3Status \in 0..2
    /\ dtr \in {"none", "low", "high"}

HostType ==
    /\ phase \in {"idle", "setup", "data", "status", "reset"}
    /\ request \in Requests \cup {Plain("none", 0, 0)}
    /\ got \in Seq(Bytes) /\ toggle \in {0, 1} /\ outcome \in {"none", "done", "stalled"}
    /\ configured \in BOOLEAN
    /\ expected3 \in {0, 1} /\ got3 \in Seq({"header", "state"})
    /\ {setups, resets, lost, dropped3, restarts} \subseteq Nat

\* Which packet can wait in usbRxBuf: the host waits for it, has given it up,
\* or sends it again because the ACK was lost.
Stages ==
    /\ phase \in {"setup", "data", "status"} => request \in Requests
    /\ phase = "data" => request.wLength > 0
    /\ phase = "reset" => request.bRequest = "none"
    /\ phase = "idle" => usbRx.token = "none"
    /\ usbRx.token = "SETUP" =>
           usbRx.request \in Requests /\ (phase \in {"data", "status"} => usbRx.request = request)
    /\ usbRx.token = "OUT" =>
           /\ \E rate \in Rates : usbRx.data = Coding(rate)
           /\ phase \in {"data", "status"} => request.bRequest = "SET_LINE_CODING"
                                              /\ usbRx.data = Coding(request.value)

TypeInv ==
    ReceiveType /\ MessageType /\ ObjectType /\ DeviceType /\ HostType /\ Stages

LEMMA ObjectNames == Objects = DOMAIN Flash \cup DOMAIN RAM /\ DOMAIN Size = Objects
BY FlashNames, RamNames DEF Objects, Size

\* Every object has its size, whatever the line coding and the configuration.
LEMMA ObjectSizes ==
    ASSUME ObjectType, NEW base \in Objects
    PROVE  Contents(base) \in Seq(Bytes) /\ Len(Contents(base)) = Size[base]
<1>1. CASE base \in DOMAIN Flash
    BY <1>1, FlashObjects DEF Contents
<1>2. CASE base \notin DOMAIN Flash
    <2>1. Contents(base) = RAM[base] /\ base \in {"lineCoding", "usbConfiguration", "status"}
        BY <1>2, FlashNames DEF Contents, Objects
    <2>2. CASE base = "lineCoding"
        BY <2>1, <2>2 DEF RAM, Size, ObjectType
    <2>3. CASE base = "usbConfiguration"
        <3>1. Contents(base) = <<usbConfiguration>>
            BY <2>1, <2>3 DEF RAM
        <3>2. usbConfiguration \in Bytes
            BY DEF ObjectType, Bytes
        <3>3. Contents(base) \in Seq(Bytes) /\ Len(Contents(base)) = 1
            BY <3>1, <3>2
        <3> QED
            BY <2>3, <3>3 DEF Size
    <2>4. CASE base = "status"
        <3>1. Contents(base) = <<0, 0>>
            BY <2>1, <2>4 DEF RAM
        <3>2. Contents(base) \in Seq(Bytes) /\ Len(Contents(base)) = 2
            BY <3>1 DEF Bytes
        <3> QED
            BY <2>4, <3>2 DEF Size
    <2> QED
        BY <2>1, <2>2, <2>3, <2>4
<1> QED
    BY <1>1, <1>2

-----------------------------------------------------------------------------
(* The reply to a request.                                                 *)

\* The object a reply is sent from, and how much of it there is to send.
Source(r) ==
    CASE r.bRequest = "GET_DESCRIPTOR" -> r.descriptor
      [] r.bRequest = "GET_CONFIGURATION" -> "usbConfiguration"
      [] r.bRequest = "GET_LINE_CODING" -> "lineCoding"
      [] OTHER -> "status"

ReplyLength(r) == IF r.bRequest = "GET_INTERFACE" THEN 1 ELSE Size[Source(r)]

\* A request for data that the device has.
Known(r) ==
    DeviceToHost(r) /\ (r.bRequest = "GET_DESCRIPTOR" => r.descriptor \in DOMAIN Flash)

Smaller(m, n) == IF m < n THEN m ELSE n

\* usbProcessRx() limits every reply to wLength, whether it fits a byte or not.
LEMMA LimitedToLength ==
    ASSUME NEW reply \in Messages, NEW n \in Nat, reply.flags # "USER_RW", reply.len <= 67
    PROVE  Limited(reply, n) = [reply EXCEPT !.len = Smaller(n, reply.len)]
<1>1. reply.len \in Nat /\ reply = [reply EXCEPT !.len = reply.len]
    BY DEF Messages, Bytes
<1>2. CASE n \div 256 = 0
    <2>1. n % 256 = n
        BY <1>2
    <2> QED
        BY <1>1, <1>2, <2>1 DEF Limited, Smaller
<1>3. CASE n \div 256 # 0
    <2>1. reply.len < n
        BY <1>1, <1>3
    <2> QED
        BY <1>1, <1>3, <2>1 DEF Limited, Smaller
<1> QED
    BY <1>2, <1>3

LEMMA KnownReply ==
    ASSUME NEW r \in Requests, Known(r)
    PROVE  /\ Source(r) \in Objects
           /\ ReplyLength(r) \in 1..Size[Source(r)] /\ Size[Source(r)] \in 1..67
           /\ SetupReply(r) = Reply(Source(r), Smaller(r.wLength, ReplyLength(r)),
                                    IF Source(r) \in DOMAIN Flash THEN "ROM" ELSE "RAM")
<1>1. r.bRequest \in RequestNames /\ r.wLength \in Nat
    BY RequestFacts
<1>2. Source(r) \in Objects /\ ReplyLength(r) \in 1..Size[Source(r)] /\ Size[Source(r)] \in 1..67
    BY <1>1, FlashNames DEF Known, DeviceToHost, Source, ReplyLength, Objects, Size
<1>3. Source(r) \in DOMAIN Flash <=> r.bRequest = "GET_DESCRIPTOR"
    BY FlashNames DEF Known, DeviceToHost, Source
<1> DEFINE flags == IF Source(r) \in DOMAIN Flash THEN "ROM" ELSE "RAM"
           whole == Reply(Source(r), ReplyLength(r), flags)
<1>4. (IF r.bRequest \in ClassRequests THEN usbFunctionSetup(r) ELSE usbDriverSetup(r)) = whole
    <2>1. CASE r.bRequest = "GET_DESCRIPTOR"
        <3>1. DescriptorLength(r.descriptor) = ReplyLength(r)
            BY <2>1, FlashObjects DEF Known, ReplyLength, Source
        <3> QED
            BY <1>3, <2>1, <3>1
            DEF Known, usbDriverSetup, usbDriverDescriptor, Source, ClassRequests
    <2>2. CASE r.bRequest = "GET_LINE_CODING"
        BY <1>3, <2>2 DEF usbFunctionSetup, Source, ReplyLength, Size, ClassRequests
    <2>3. CASE r.bRequest \in {"GET_STATUS", "GET_CONFIGURATION", "GET_INTERFACE"}
        BY <1>3, <2>3 DEF usbDriverSetup, Source, ReplyLength, Size, ClassRequests
    <2> QED
        BY <2>1, <2>2, <2>3 DEF Known, DeviceToHost
<1>5. whole \in Messages /\ whole.flags # "USER_RW" /\ whole.len <= 67
    <2>1. ReplyLength(r) \in Bytes /\ ReplyLength(r) <= 67
        <3>1. Size[Source(r)] \in 1..67
            BY <1>2
        <3> QED
            BY <1>2, <3>1 DEF Bytes
    <2> QED
        BY <1>2, <2>1 DEF Reply, Messages
<1>6. Limited(whole, r.wLength) = [whole EXCEPT !.len = Smaller(r.wLength, whole.len)]
    BY <1>1, <1>5, LimitedToLength
<1> QED
    BY <1>2, <1>4, <1>6 DEF SetupReply, Reply

\* "return 0", and what usbFunctionSetup() makes of SET_LINE_CODING.
LEMMA NoReplyMessage ==
    ASSUME usbMsg \in Messages, NEW flags \in {"ROM", "RAM", "USER_RW"}
    PROVE  /\ NoReply(flags) \in Messages /\ NoReply(flags).len = 0
           /\ [NoReply(flags) EXCEPT !.len = USB_NO_MSG] \in Messages
           /\ [NoReply(flags) EXCEPT !.len = USB_NO_MSG].len = USB_NO_MSG
           /\ [NoReply(flags) EXCEPT !.len = USB_NO_MSG].flags = flags
<1>1. 0 \in Bytes /\ USB_NO_MSG \in Bytes
    BY DEF Bytes, USB_NO_MSG
<1> QED
    BY <1>1 DEF NoReply, Messages

\* Every other request leaves usbMsgPtr alone or has nothing to send.
LEMMA OtherReply ==
    ASSUME NEW r \in Requests, ~Known(r), usbMsg \in Messages
    PROVE  /\ SetupReply(r) \in Messages
           /\ SetupReply(r).len = IF r.bRequest = "SET_LINE_CODING" THEN USB_NO_MSG ELSE 0
           /\ r.bRequest = "SET_LINE_CODING" => SetupReply(r).flags = "USER_RW"
<1>1. r.bRequest \in RequestNames /\ r.wLength \in Nat
    BY RequestFacts
<1> DEFINE whole == IF r.bRequest \in ClassRequests THEN usbFunctionSetup(r) ELSE usbDriverSetup(r)
<1>2. CASE r.bRequest = "SET_LINE_CODING"
    <2>1. whole = [NoReply("USER_RW") EXCEPT !.len = USB_NO_MSG]
        BY <1>2 DEF usbFunctionSetup, ClassRequests
    <2>2. whole \in Messages /\ whole.len = USB_NO_MSG /\ whole.flags = "USER_RW"
        BY <2>1, NoReplyMessage
    <2>3. SetupReply(r) = whole
        BY <2>2 DEF SetupReply, Limited
    <2> HIDE DEF whole
    <2> QED
        BY <1>2, <2>2, <2>3
<1>3. CASE r.bRequest # "SET_LINE_CODING"
    <2>1. whole \in Messages /\ whole.len = 0
        <3>1. CASE r.bRequest \in ClassRequests
            <4>1. whole = NoReply("RAM")
                BY <1>3, <3>1 DEF Known, DeviceToHost, usbFunctionSetup
            <4> QED
                BY <4>1, NoReplyMessage
        <3>2. CASE r.bRequest = "GET_DESCRIPTOR"
            <4>1. whole = NoReply("ROM")
                BY <3>2 DEF Known, DeviceToHost, usbDriverSetup, usbDriverDescriptor, ClassRequests
            <4> QED
                BY <4>1, NoReplyMessage
        <3>3. CASE r.bRequest \notin ClassRequests /\ r.bRequest # "GET_DESCRIPTOR"
            BY <1>1, <3>3 DEF Known, DeviceToHost, usbDriverSetup, Reply, Messages, Objects, Bytes
        <3> QED
            BY <3>1, <3>2, <3>3
    <2> HIDE DEF whole
    <2>2. SetupReply(r) = whole
        <3>1. ~(whole.len > r.wLength % 256)
            BY <1>1, <2>1
        <3> QED
            BY <3>1 DEF SetupReply, Limited, whole
    <2> QED
        BY <1>3, <2>1, <2>2
<1> QED
    BY <1>2, <1>3

LEMMA ReplyInside ==
    ASSUME NEW r \in Requests, usbMsg \in Messages
    PROVE  SetupReply(r) \in Messages /\ Inside(SetupReply(r))
<1>1. CASE Known(r)
    <2> DEFINE reply == SetupReply(r)
    <2> DEFINE len == Smaller(r.wLength, ReplyLength(r))
    <2>1. /\ len \in Bytes /\ len \in 0..Size[Source(r)] /\ Size[Source(r)] \in 0..67
        <3>1. r.wLength \in Nat
            BY RequestFacts
        <3>2. ReplyLength(r) \in Nat /\ ReplyLength(r) <= Size[Source(r)]
              /\ Size[Source(r)] \in 0..67
            BY <1>1, KnownReply
        <3> QED
            BY <3>1, <3>2 DEF Smaller, Bytes
    <2> HIDE DEF len
    <2>2. /\ reply.base = Source(r) /\ reply.at = 0
          /\ reply.len \in 0..Size[Source(r)] /\ Size[Source(r)] \in 0..67
          /\ reply.flags = (IF Source(r) \in DOMAIN Flash THEN "ROM" ELSE "RAM")
          /\ reply \in Messages
        <3>1. /\ reply = Reply(Source(r), len, IF Source(r) \in DOMAIN Flash THEN "ROM" ELSE "RAM")
              /\ Source(r) \in Objects
            BY <1>1, KnownReply DEF len
        <3> HIDE DEF reply
        <3> QED
            BY <2>1, <3>1 DEF Reply, Messages
    <2> HIDE DEF reply
    <2>3. reply.at + reply.len <= Size[reply.base]
        BY <2>2
    <2> QED
        BY <2>2, <2>3 DEF Inside, reply
<1>2. CASE ~Known(r)
    BY <1>2, OtherReply DEF Inside
<1> QED
    BY <1>1, <1>2

-----------------------------------------------------------------------------
(* Every step keeps the types.                                             *)

LEMMA TypeInit == Init => TypeInv
<1> SUFFICES ASSUME Init PROVE TypeInv
    OBVIOUS
<1>1. ReceiveType /\ Stages
    <2>1. usbRx = [token |-> "none", request |-> Plain("none", 0, 0), data |-> <<>>]
        BY DEF Init, RxFree
    <2>2. phase = "idle"
        BY DEF Init
    <2> QED
        BY <2>1, <2>2 DEF ReceiveType, Stages
<1>2. MessageType
    <2>1. 255 \in Bytes
        BY DEF Bytes
    <2> QED
        BY <2>1 DEF Init, MessageType, Messages, Objects, Inside, USB_NO_MSG
<1>3. ObjectType
    <2>1. Coding(9600) \in Seq(Bytes) /\ Len(Coding(9600)) = 7
        BY CodingType
    <2> QED
        BY <2>1 DEF Init, ObjectType
<1>4. DeviceType
    BY DEF Init, DeviceType
<1>5. HostType
    <2>1. configured \in BOOLEAN
        <3>1. configured = (hostAddr # 0)
            BY DEF Init
        <3> QED
            BY <3>1, Zenon
    <2> QED
        BY <2>1 DEF Init, HostType
<1> QED
    BY <1>1, <1>2, <1>3, <1>4, <1>5 DEF TypeInv

\* usbRxBuf is filled by the host and emptied by usbProcessRx().
LEMMA ReceiveStep == TypeInv /\ [Next]_vars => ReceiveType'
<1> SUFFICES ASSUME TypeInv, [Next]_vars PROVE ReceiveType'
    OBVIOUS
<1> USE DEF TypeInv, ReceiveType
<1>1. CASE ProcessSetup \/ ProcessData
    <2>1. usbRx' = RxFree
        BY <1>1 DEF ProcessSetup, ProcessData
    <2>2. <<>> \in Seq(Bytes)
        OBVIOUS
    <2> QED
        BY <2>1, <2>2 DEF RxFree
<1>2. CASE HostSetup
    <2>1. request \in Requests
        BY <1>2 DEF HostSetup, Stages
    <2> QED
        BY <1>2, <2>1 DEF HostSetup, Store
<1>3. CASE HostWrites
    <2>1. request \in Requests /\ request.wLength > 0 /\ ~DeviceToHost(request)
        BY <1>3 DEF HostWrites, Stages
    <2>2. request.value \in Nat
        BY <2>1, RequestFacts, ControlAssumption
    <2>3. Coding(request.value) \in Seq(Bytes)
        BY <2>2, CodingType
    <2> QED
        BY <1>3, <2>3 DEF HostWrites, Store
<1>4. CASE NoPacket \/ Build \/ Line \/ Notify \/ SetDtrPin
    BY <1>4 DEF NoPacket, Build, Line, Notify, SetDtrPin
<1>5. CASE HostMisses \/ HostReads \/ HostReadsStatus \/ HostStalled \/ HostWritesStatus
    BY <1>5 DEF HostMisses, HostReads, HostReadsStatus, Sends, HostStalled, HostWritesStatus
<1>6. CASE HostStarts \/ HostPolls3 \/ HostResets \/ Begin \/ ResetEnds
    BY <1>6 DEF HostStarts, HostPolls3, HostResets, Begin, BusReset, ResetEnds
<1>7. CASE UNCHANGED vars
    BY <1>7 DEF vars
<1> QED
    BY <1>1, <1>2, <1>3, <1>4, <1>5, <1>6, <1>7 DEF Next, Main, Continues

\* usbDeviceRead() reads bytes of the object.
LEMMA BytesOnOffer ==
    ASSUME TypeInv, usbMsg.len # USB_NO_MSG, NEW i \in 1..wantLen
    PROVE  /\ usbMsg.at + i \in 1..Len(Contents(usbMsg.base))
           /\ Byte(usbMsg.at + i) = Contents(usbMsg.base)[usbMsg.at + i]
           /\ Byte(usbMsg.at + i) \in Bytes
<1>1. usbMsg.len \in Nat /\ usbMsg.at \in Nat /\ usbMsg.base \in Objects
    <2>1. usbMsg.len \in Bytes /\ usbMsg.at \in Nat /\ usbMsg.base \in Objects
        BY DEF TypeInv, MessageType, Messages
    <2> QED
        BY <2>1 DEF Bytes
<1>2. usbMsg.len # 0 /\ i \in Nat /\ 1 <= i /\ i <= usbMsg.len
    BY <1>1 DEF wantLen
<1>3. /\ (usbMsg.flags = "ROM") = (usbMsg.base \in DOMAIN Flash)
      /\ usbMsg.at + usbMsg.len <= Size[usbMsg.base]
    BY <1>2 DEF TypeInv, MessageType, Inside
<1> DEFINE whole == Contents(usbMsg.base)
<1>4. whole \in Seq(Bytes) /\ Len(whole) = Size[usbMsg.base]
    BY <1>1, ObjectSizes DEF TypeInv
<1>5. Byte(usbMsg.at + i) = IF usbMsg.at + i \in DOMAIN whole THEN whole[usbMsg.at + i] ELSE Garbage
    BY <1>3 DEF Byte
<1> HIDE DEF whole
<1>6. usbMsg.at + i \in 1..Len(whole)
    BY <1>1, <1>2, <1>3, <1>4
<1>7. Byte(usbMsg.at + i) = whole[usbMsg.at + i] /\ whole[usbMsg.at + i] \in Bytes
    BY <1>4, <1>5, <1>6
<1> QED
    BY <1>6, <1>7 DEF whole

LEMMA MessageStep == TypeInv /\ [Next]_vars => MessageType'
<1> SUFFICES ASSUME TypeInv, [Next]_vars PROVE MessageType'
    OBVIOUS
<1>0. MessageType
    BY DEF TypeInv
<1>1. CASE ProcessSetup
    <2>1. usbMsg' = SetupReply(usbRx.request) /\ usbTx' = Aborted
        BY <1>1 DEF ProcessSetup
    <2>2. usbRx.request \in Requests
        BY <1>1 DEF ProcessSetup, TypeInv, Stages
    <2>3. usbMsg' \in Messages /\ Inside(usbMsg')
        BY <1>0, <2>1, <2>2, ReplyInside DEF MessageType
    <2> QED
        BY <1>0, <2>1, <2>3 DEF MessageType, Aborted
<1>2. CASE ProcessData
    <2>1. 0 \in Bytes
        BY DEF Bytes
    <2> QED
        BY <1>0, <1>2, <2>1 DEF ProcessData, MessageType, Messages, Inside
<1>3. CASE Build
    <2>1. CASE UNCHANGED <<usbTx, usbMsg>>
        BY <1>0, <2>1 DEF MessageType
    <2>2. CASE ~(usbTx.answer = "data" \/ usbMsg.len = USB_NO_MSG)
        <3> DEFINE block == [i \in 1..wantLen |-> Byte(usbMsg.at + i)]
        <3>1. /\ usbTx' = [answer |-> "data", token |-> 1 - usbTx.token, data |-> block]
              /\ usbMsg' = [usbMsg EXCEPT !.at = @ + wantLen,
                                          !.len = IF wantLen < 8 THEN USB_NO_MSG ELSE @ - wantLen]
            BY <1>3, <2>2 DEF Build
        <3>2. wantLen \in 0..8 /\ usbMsg.len \in Bytes /\ wantLen <= usbMsg.len
            <4>1. usbMsg.len \in Bytes
                BY <1>0 DEF MessageType, Messages
            <4> QED
                BY <4>1 DEF wantLen, Bytes
        <3>3. block \in Seq(Bytes) /\ Len(block) = wantLen
            <4>1. \A i \in 1..wantLen : Byte(usbMsg.at + i) \in Bytes
                BY <2>2, BytesOnOffer
            <4> QED
                BY <3>2, <4>1
        <3> HIDE DEF block
        <3>4. usbTx' \in [answer : {"NAK", "STALL", "data"}, token : {0, 1}, data : Seq(Bytes)]
              /\ Len(usbTx'.data) <= 8
            BY <1>0, <3>1, <3>2, <3>3 DEF MessageType
        <3>5. (IF wantLen < 8 THEN USB_NO_MSG ELSE usbMsg.len - wantLen) \in Bytes
              /\ usbMsg.at + wantLen \in Nat
            <4>1. usbMsg.at \in Nat
                BY <1>0 DEF MessageType, Messages
            <4> QED
                BY <3>2, <4>1 DEF Bytes, USB_NO_MSG
        <3>6. usbMsg' \in Messages
            BY <1>0, <3>1, <3>5 DEF MessageType, Messages
        <3>7. Inside(usbMsg')
            <4>1. /\ usbMsg'.base = usbMsg.base /\ usbMsg'.flags = usbMsg.flags
                  /\ usbMsg'.at = usbMsg.at + wantLen
                  /\ usbMsg'.len = IF wantLen < 8 THEN USB_NO_MSG ELSE usbMsg.len - wantLen
                BY <1>0, <3>1 DEF MessageType, Messages
            <4>2. CASE wantLen < 8
                BY <4>1, <4>2 DEF Inside
            <4>3. CASE wantLen = 8
                <5>1. /\ usbMsg.len # 0 /\ usbMsg.len # USB_NO_MSG /\ usbMsg.len \in Nat
                      /\ usbMsg.at \in Nat /\ wantLen <= usbMsg.len
                    <6>1. usbMsg.len \in Nat /\ usbMsg.at \in Nat
                        <7>1. usbMsg.at \in Nat
                            BY <1>0 DEF MessageType, Messages
                        <7> QED
                            BY <3>2, <7>1 DEF Bytes
                    <6> QED
                        BY <2>2, <3>2, <4>3, <6>1
                <5>2. /\ (usbMsg.flags = "ROM") = (usbMsg.base \in DOMAIN Flash)
                      /\ usbMsg.at + usbMsg.len <= Size[usbMsg.base]
                    BY <1>0, <5>1 DEF MessageType, Inside
                <5>3. usbMsg'.at + usbMsg'.len = usbMsg.at + usbMsg.len
                    BY <4>1, <4>3, <5>1
                <5> QED
                    BY <4>1, <5>2, <5>3 DEF Inside
            <4> QED
                BY <3>2, <4>2, <4>3
        <3> QED
            BY <3>4, <3>6, <3>7 DEF MessageType
    <2> QED
        BY <1>3, <2>1, <2>2 DEF Build
<1>4. CASE HostMisses \/ HostReads \/ HostReadsStatus
    BY <1>0, <1>4 DEF HostMisses, HostReads, HostReadsStatus, Sends, MessageType, mainVars
<1>5. CASE UNCHANGED <<usbTx, usbMsg>>
    BY <1>0, <1>5 DEF MessageType
<1> QED
    BY <1>1, <1>2, <1>3, <1>4, <1>5
    DEF Next, Main, Continues, NoPacket, Line, Notify, HostSetup, HostWrites, Store,
        HostStalled, HostWritesStatus, ResetEnds, HostStarts, HostPolls3, HostResets, Begin,
        SetDtrPin, BusReset, mainVars, vars

\* Hosts send whole line codings, which replace the one in use unless refused.
LEMMA CodingStored ==
    ASSUME ObjectType, NEW rate \in Rates, usbRx.data = Coding(rate)
    PROVE  /\ Refuses(usbRx.data) <=> \E r \in Refused : Coding(r) = Coding(rate)
           /\ Stored(usbRx.data) = Coding(rate)
<1>1. Coding(rate) \in Seq(Bytes) /\ Len(Coding(rate)) = 7 /\ Len(lineCoding) = 7
    BY CodingType, ControlAssumption DEF ObjectType
<1>2. SubSeq(Coding(rate), 1, 7) = Coding(rate)
    BY <1>1
<1>3. Stored(usbRx.data) = [i \in 1..7 |-> Coding(rate)[i]]
    BY <1>1 DEF Stored
<1>4. Coding(rate) = [i \in 1..7 |-> Coding(rate)[i]]
    BY <1>1
<1>5. Refuses(usbRx.data) <=> \E r \in Refused : Coding(r) = Coding(rate)
    <2> HIDE DEF Coding
    <2> QED
        BY <1>1, <1>2 DEF Refuses
<1> QED
    BY <1>3, <1>4, <1>5

\* Only requests change what usbMsgPtr can point to in RAM.
LEMMA ObjectStep == TypeInv /\ [Next]_vars => ObjectType'
<1> SUFFICES ASSUME TypeInv, [Next]_vars PROVE ObjectType'
    OBVIOUS
<1>0. ObjectType
    BY DEF TypeInv
<1>1. CASE ProcessSetup
    <2>1. usbRx.request \in Requests
        BY <1>1 DEF ProcessSetup, TypeInv, Stages
    <2>2. usbRx.request.bRequest = "SET_CONFIGURATION" => usbRx.request.value \in {0, 1}
        BY <2>1, RequestFacts
    <2> QED
        BY <1>0, <1>1, <2>2 DEF ProcessSetup, ObjectType
<1>2. CASE ProcessData
    <2>1. PICK rate \in Rates : usbRx.data = Coding(rate)
        BY <1>2 DEF ProcessData, TypeInv, Stages
    <2>2. Stored(usbRx.data) \in Seq(Bytes) /\ Len(Stored(usbRx.data)) = 7
        BY <1>0, <2>1, CodingStored, CodingType, ControlAssumption
    <2> QED
        BY <1>0, <1>2, <2>2 DEF ProcessData, ObjectType
<1>3. CASE UNCHANGED <<usbConfiguration, lineCoding>>
    BY <1>0, <1>3 DEF ObjectType
<1> QED
    BY <1>1, <1>2, <1>3
    DEF Next, Main, Continues, NoPacket, Build, Line, Notify, HostSetup, HostWrites, Store,
        HostMisses, HostReads, HostReadsStatus, Sends, HostStalled, HostWritesStatus, ResetEnds,
        HostStarts, HostPolls3, HostResets, Begin, SetDtrPin, BusReset, mainVars, vars

LEMMA DeviceStep == TypeInv /\ [Next]_vars => DeviceType'
<1> SUFFICES ASSUME TypeInv, [Next]_vars PROVE DeviceType'
    OBVIOUS
<1>0. DeviceType
    BY DEF TypeInv
<1> USE DEF DeviceType
<1>1. CASE ProcessSetup
    <2> DEFINE r == usbRx.request
    <2>1. r \in Requests
        BY <1>1 DEF ProcessSetup, TypeInv, Stages
    <2>2. /\ r.bRequest = "SET_ADDRESS" => r.value \in Addresses
          /\ r.bRequest = "SET_CONTROL_LINE_STATE" => r.value \in {0, 1}
        BY <2>1, RequestFacts
    <2>3. {usbDeviceAddr, usbNewDeviceAddr, hostAddr}' \subseteq {0} \cup Addresses
        BY <1>0, <1>1, <2>2 DEF ProcessSetup, AddressNow, requestVars
    <2>4. /\ usbTxStatus3' \in [nak : BOOLEAN, token : {0, 1}, piece : {"header", "state"}]
          /\ pc' = "build" /\ intr3Status' \in 0..2
        BY <1>0, <1>1 DEF ProcessSetup, usbResetDataToggling, USB_INITIAL_DATATOKEN, Notified
    <2>5. dtr' \in {"none", "low", "high"}
        BY <1>0, <1>1, <2>2 DEF ProcessSetup
    <2> QED
        BY <2>3, <2>4, <2>5
<1>2. CASE Notify
    <2>1. CASE intr3Status # 0 /\ usbInterruptIsReady3
        <3>1. usbTxStatus3.token \in {0, 1}
            BY <1>0
        <3>2. usbTxStatus3' \in [nak : BOOLEAN, token : {0, 1}, piece : {"header", "state"}]
            <4>1. usbTxStatus3' = usbSetInterrupt3(IF intr3Status = 2 THEN "header" ELSE "state")
                BY <1>2, <2>1 DEF Notify
            <4> QED
                BY <3>1, <4>1 DEF usbSetInterrupt3, NextToken3
        <3>3. intr3Status' \in 0..2
            BY <1>0, <1>2, <2>1 DEF Notify
        <3> QED
            BY <1>0, <1>2, <3>2, <3>3 DEF Notify, addressVars, requestVars
    <2>2. CASE ~(intr3Status # 0 /\ usbInterruptIsReady3)
        BY <1>0, <1>2, <2>2 DEF Notify, addressVars, requestVars
    <2> QED
        BY <2>1, <2>2
<1>3. CASE ProcessData \/ NoPacket \/ Build \/ SetDtrPin \/ Line
    BY <1>0, <1>3 DEF ProcessData, NoPacket, Build, SetDtrPin, Line, mainVars, addressVars, requestVars
<1>4. CASE HostPolls3
    BY <1>0, <1>4 DEF HostPolls3, AddressAfterData, mainVars, requestVars
<1>5. CASE HostMisses \/ HostReads
    BY <1>0, <1>5 DEF HostMisses, HostReads, Sends, AddressAfterData, mainVars
<1>6. CASE HostReadsStatus \/ HostWritesStatus
    <2>1. request \in Requests
        BY <1>6 DEF HostReadsStatus, HostWritesStatus, TypeInv, Stages
    <2>2. request.bRequest = "SET_ADDRESS" => request.value \in Addresses
        BY <2>1, RequestFacts
    <2> QED
        BY <1>0, <1>6, <2>2
        DEF HostReadsStatus, HostWritesStatus, Completed, Sends, AddressAfterData, mainVars, addressVars
<1>7. CASE HostSetup \/ HostWrites \/ HostStalled \/ ResetEnds \/ HostStarts
    BY <1>0, <1>7 DEF HostSetup, HostWrites, Store, HostStalled, ResetEnds, HostStarts, mainVars,
                      addressVars
<1>8. CASE HostResets \/ Begin
    <2>1. usbTxStatus3' \in [nak : BOOLEAN, token : {0, 1}, piece : {"header", "state"}]
        BY <1>0, <1>8 DEF HostResets, Begin, usbResetDataToggling, USB_INITIAL_DATATOKEN
    <2>2. intr3Status' \in 0..2 /\ dtr' \in {"none", "low", "high"}
        BY <1>0, <1>8 DEF HostResets, Begin
    <2>3. BusReset
        BY <1>8 DEF HostResets, Begin
    <2> QED
        BY <1>0, <2>1, <2>2, <2>3 DEF BusReset, addressVars
<1>9. CASE UNCHANGED vars
    BY <1>0, <1>9 DEF vars, mainVars, addressVars, requestVars
<1> QED
    BY <1>1, <1>2, <1>3, <1>4, <1>5, <1>6, <1>7, <1>8, <1>9 DEF Next, Main, Continues

LEMMA HostStep == TypeInv /\ [Next]_vars => HostType'
<1> SUFFICES ASSUME TypeInv, [Next]_vars PROVE HostType'
    OBVIOUS
<1>0. HostType
    BY DEF TypeInv
<1>a. got3 \in Seq({"header", "state"}) /\ <<>> \in Seq({"header", "state"})
    BY <1>0 DEF HostType
<1>b. expected3 \in {0, 1} /\ resets \in Nat
    BY <1>0 DEF HostType
<1> USE DEF HostType
<1>1. CASE Main \/ SetDtrPin
    BY <1>0, <1>1 DEF Main, ProcessSetup, ProcessData, NoPacket, Build, Line, Notify, SetDtrPin,
                      requestVars, notifiedVars, boundVars
<1>2. CASE HostStarts
    <2>1. request' \in Requests
        BY <1>2 DEF HostStarts, Allowed, Requests
    <2> QED
        BY <1>0, <1>2, <2>1 DEF HostStarts, notifiedVars
<1>3. CASE HostSetup
    BY <1>0, <1>3 DEF HostSetup, Store, Loses, notifiedVars
<1>4. CASE HostWrites
    BY <1>0, <1>4 DEF HostWrites, Store, Loses, notifiedVars
<1>5. CASE HostMisses
    BY <1>0, <1>5 DEF HostMisses, Sends, Loses
<1>6. CASE HostReads
    <2>1. usbTx.data \in Seq(Bytes)
        BY DEF TypeInv, MessageType
    <2>2. got' \in Seq(Bytes)
        BY <1>0, <1>6, <2>1 DEF HostReads
    <2> QED
        BY <1>0, <1>6, <2>2 DEF HostReads, Sends
<1>7. CASE HostReadsStatus
    <2>1. usbTx.data \in Seq(Bytes)
        BY DEF TypeInv, MessageType
    <2>2. configured' \in BOOLEAN
        BY <1>0, <1>7 DEF HostReadsStatus, Completed
    <2> QED
        BY <1>0, <1>7, <2>1, <2>2 DEF HostReadsStatus, Sends, Completed
<1>8. CASE HostStalled
    BY <1>0, <1>8 DEF HostStalled, notifiedVars, boundVars
<1>9. CASE HostWritesStatus
    <2>1. configured' \in BOOLEAN
        BY <1>0, <1>9 DEF HostWritesStatus, Completed
    <2> QED
        BY <1>0, <1>9, <2>1 DEF HostWritesStatus, Completed, boundVars
<1>10. CASE ResetEnds
    BY <1>0, <1>10 DEF ResetEnds, notifiedVars, boundVars
<1>11. CASE HostPolls3
    <2>1. usbTxStatus3.piece \in {"header", "state"}
        BY DEF TypeInv, DeviceType
    <2>2. Append(got3, usbTxStatus3.piece) \in Seq({"header", "state"})
        BY <1>0, <2>1
    <2> QED
        <3>1. got3' \in Seq({"header", "state"}) /\ expected3' \in {0, 1}
            <4>1. got3' = Append(got3, usbTxStatus3.piece) \/ got3' = got3
                BY <1>11 DEF HostPolls3, notifiedVars
            <4>2. expected3' = 1 - expected3 \/ expected3' = expected3
                BY <1>11 DEF HostPolls3, notifiedVars
            <4> QED
                BY <1>a, <1>b, <2>2, <4>1, <4>2
        <3>2. lost' \in Nat /\ dropped3' \in Nat /\ UNCHANGED <<setups, resets, restarts, requestVars>>
            BY <1>0, <1>11 DEF HostPolls3, Loses, notifiedVars
        <3> QED
            BY <1>0, <3>1, <3>2 DEF requestVars
<1>12. CASE HostResets \/ Begin
    <2>1. got3' = got3 \/ got3' = <<>>
        BY <1>12 DEF HostResets, Begin
    <2>2. got3' \in Seq({"header", "state"})
        BY <1>a, <2>1
    <2>3. /\ phase' = "reset" /\ request' = Plain("none", 0, 0) /\ got' = <<>> /\ outcome' = "none"
          /\ configured' = FALSE /\ resets' = resets + 1
          /\ UNCHANGED <<toggle, expected3, dropped3, setups, lost, restarts>>
        BY <1>12 DEF HostResets, Begin, BusReset
    <2>4. got' \in Seq(Bytes) /\ {setups, resets, lost, dropped3, restarts}' \subseteq Nat
        BY <1>0, <2>3
    <2> QED
        BY <1>0, <2>2, <2>3, <2>4
<1>13. CASE UNCHANGED vars
    BY <1>0, <1>13 DEF vars, requestVars, notifiedVars, boundVars
<1> QED
    BY <1>1, <1>2, <1>3, <1>4, <1>5, <1>6, <1>7, <1>8, <1>9, <1>10, <1>11, <1>12, <1>13
    DEF Next, Continues

LEMMA StagesStep == TypeInv /\ [Next]_vars => Stages'
<1> SUFFICES ASSUME TypeInv, [Next]_vars PROVE Stages'
    OBVIOUS
<1>0. Stages
    BY DEF TypeInv
<1> USE DEF Stages
<1>1. CASE ProcessSetup \/ ProcessData
    BY <1>0, <1>1 DEF ProcessSetup, ProcessData, RxFree, requestVars
<1>2. CASE NoPacket \/ Build \/ Line \/ Notify \/ SetDtrPin
    BY <1>0, <1>2 DEF NoPacket, Build, Line, Notify, SetDtrPin, requestVars
<1>3. CASE HostStarts
    <2>1. request' \in Requests
        BY <1>3 DEF HostStarts, Allowed, Requests
    <2> QED
        BY <1>0, <1>3, <2>1 DEF HostStarts
<1>4. CASE HostSetup
    BY <1>0, <1>4 DEF HostSetup, Store
<1>5. CASE HostWrites
    <2>1. request.bRequest = "SET_LINE_CODING" /\ request.value \in Rates
        BY <1>0, <1>5, RequestFacts DEF HostWrites
    <2> QED
        BY <1>0, <1>5, <2>1 DEF HostWrites, Store
<1>6. CASE HostMisses \/ HostReads \/ HostReadsStatus
    BY <1>0, <1>6 DEF HostMisses, HostReads, HostReadsStatus, Sends, Offered, Completed
<1>7. CASE HostStalled \/ HostWritesStatus \/ ResetEnds
    BY <1>0, <1>7 DEF HostStalled, HostWritesStatus, Completed, ResetEnds
<1>8. CASE HostPolls3
    BY <1>0, <1>8 DEF HostPolls3, requestVars
<1>9. CASE HostResets \/ Begin
    BY <1>0, <1>9 DEF HostResets, Begin, BusReset, Plain, Request
<1>10. CASE UNCHANGED vars
    BY <1>0, <1>10 DEF vars, requestVars
<1> QED
    BY <1>1, <1>2, <1>3, <1>4, <1>5, <1>6, <1>7, <1>8, <1>9, <1>10 DEF Next, Main, Continues

LEMMA TypeStep == TypeInv /\ [Next]_vars => TypeInv'
BY ReceiveStep, MessageStep, ObjectStep, DeviceStep, HostStep, StagesStep DEF TypeInv

\* TypeOK: the variables keep their types, the bytes sent among them are bytes
\* that usbDeviceRead() finds, and usbMsgLen is a byte.
THEOREM TypeCorrect == Spec => []TypeOK
<1>1. TypeInv => TypeOK
    BY ObjectNames DEF TypeInv, ReceiveType, MessageType, ObjectType, DeviceType, HostType, Messages, TypeOK
<1> QED
    BY TypeInit, TypeStep, <1>1, PTL DEF Spec

\* ReadsInside: usbMsgPtr and usbMsgFlags fit together and usbMsgLen bytes are
\* left in the object, whatever request was given up before.
THEOREM ReadsCorrect == Spec => []ReadsInside
<1>1. TypeInv => ReadsInside
    <2> SUFFICES ASSUME TypeInv PROVE ReadsInside
        OBVIOUS
    <2>1. Inside(usbMsg) /\ usbMsg.base \in Objects
        BY DEF TypeInv, MessageType, Messages
    <2>2. Len(Contents(usbMsg.base)) = Size[usbMsg.base]
        BY <2>1, ObjectSizes DEF TypeInv
    <2> QED
        BY <2>1, <2>2 DEF Inside, ReadsInside
<1> QED
    BY TypeInit, TypeStep, <1>1, PTL DEF Spec

-----------------------------------------------------------------------------
(* The reply the host gets.                                                *)

Object == Contents(Source(request))

\* How much of it the host must get.
Due == Smaller(request.wLength, ReplyLength(request))

\* What is on offer, and what is still to be put there.
Offer == IF usbTx.answer = "data" THEN usbTx.data ELSE <<>>
Left == IF usbMsg.len = USB_NO_MSG THEN 0 ELSE usbMsg.len

Matches(bytes, from) == \A i \in 1..Len(bytes) : bytes[i] = Object[from + i]

\* While the reply is sent all of it has been received, is on offer or is left;
\* a packet that is missed leaves a gap, so that the host has too little.
Sending ==
    /\ usbMsg.base = Source(request) /\ usbMsg.at + Left = Due
    /\ Len(got) + Len(Offer) <= usbMsg.at
    /\ Len(got) + Len(Offer) = usbMsg.at => Matches(got, 0) /\ Matches(Offer, Len(got))
    /\ lost = 0 => /\ Len(got) + Len(Offer) = usbMsg.at
                   /\ usbTx.token = IF usbTx.answer = "data" THEN toggle ELSE 1 - toggle
    /\ usbTx.answer = "data" /\ Len(usbTx.data) < 8 => usbMsg.len = USB_NO_MSG

\* The host has the reply, or less.
Complete ==
    /\ Len(got) <= Due
    /\ Len(got) = Due => Matches(got, 0)
    /\ lost = 0 => Len(got) = Due

\* Nothing but an empty packet is, or will be, on offer.
Nothing ==
    usbMsg.len \in {0, USB_NO_MSG} /\ (usbTx.answer = "data" => usbTx.data = <<>>)

DataRead == (phase = "status" /\ DeviceToHost(request)) \/ Replied

ReplyInv ==
    /\ phase = "setup" \/ (phase = "data" /\ usbRx.token = "SETUP") => got = <<>> /\ toggle = 1
    /\ phase = "status" /\ DeviceToHost(request) => usbRx.token = "none"
    /\ phase = "data" /\ Known(request) /\ usbRx.token = "none" => Sending
    /\ phase \in {"data", "status"} /\ ~Known(request) /\ usbRx.token # "SETUP" => Nothing
    /\ phase = "data" /\ ~Known(request) => got = <<>>
    /\ phase = "reset" => outcome # "done"
    /\ DataRead => IF Known(request) THEN Complete ELSE got = <<>>

LEMMA ReplyInit == Init => ReplyInv
BY DEF Init, ReplyInv, DataRead, Replied

\* What the invariant is about, if it is not touched.
Untouched == UNCHANGED <<usbTx, usbMsg, usbConfiguration, lineCoding, request, got, toggle>>

LEMMA SameReply ==
    ASSUME TypeInv, Untouched, lost' = lost \/ lost' = lost + 1
    PROVE  /\ Known(request)' = Known(request) /\ DeviceToHost(request)' = DeviceToHost(request)
           /\ Sending => Sending'
           /\ Nothing => Nothing'
           /\ Complete => Complete'
<1>1. Object' = Object /\ Due' = Due /\ Source(request)' = Source(request)
    BY DEF Untouched, Object, Contents, RAM, Source, Due, ReplyLength
<1>2. Offer' = Offer /\ Left' = Left
    BY DEF Untouched, Offer, Left
<1>3. lost \in Nat /\ (lost' = 0 => lost = 0)
    BY DEF TypeInv, HostType
<1>4. /\ Matches(got, 0)' = Matches(got, 0)
      /\ Matches(Offer, Len(got))' = Matches(Offer, Len(got))
    BY <1>1, <1>2 DEF Untouched, Matches
<1>5. Sending => Sending'
    BY <1>1, <1>2, <1>3, <1>4 DEF Untouched, Sending
<1>6. Complete => Complete'
    BY <1>1, <1>3, <1>4 DEF Untouched, Complete
<1> QED
    BY <1>5, <1>6 DEF Untouched, Nothing, Known, DeviceToHost

\* usbProcessRx() of the SETUP packet that the host is waiting for: the whole
\* reply is left to be sent.
LEMMA SetupSends ==
    ASSUME TypeInv, ReplyInv, ProcessSetup, phase \in {"data", "status"}
    PROVE  /\ Known(request) => phase = "data" /\ Sending'
           /\ ~Known(request) => Nothing'
<1>1. usbRx.token = "SETUP" /\ usbRx.request = request /\ request \in Requests
    BY DEF ProcessSetup, TypeInv, Stages
<1>2. /\ usbMsg' = SetupReply(request) /\ usbTx' = Aborted
      /\ UNCHANGED <<request, got, toggle>>
    BY <1>1 DEF ProcessSetup, requestVars
<1>3. /\ usbTx'.answer = "NAK" /\ usbTx'.token = 0
    BY <1>2 DEF Aborted, TypeInv, MessageType
<1>4. ASSUME Known(request) PROVE phase = "data" /\ Sending'
    <2>1. phase = "data" /\ got = <<>> /\ toggle = 1
        BY <1>1, <1>4 DEF ReplyInv, Known
    <2>2. usbMsg' = Reply(Source(request), Due, IF Source(request) \in DOMAIN Flash THEN "ROM" ELSE "RAM")
        BY <1>1, <1>2, <1>4, KnownReply DEF Due
    <2>3. Due \in 0..67
        <3>1. request.wLength \in Nat
            BY <1>1, RequestFacts
        <3>2. ReplyLength(request) \in 0..67
            BY <1>1, <1>4, KnownReply
        <3> QED
            BY <3>1, <3>2 DEF Due, Smaller
    <2>4. Due' = Due /\ Source(request)' = Source(request)
        BY <1>2 DEF Due, ReplyLength, Source
    <2>5. usbMsg'.base = Source(request) /\ usbMsg'.at = 0 /\ usbMsg'.len = Due
        BY <2>2 DEF Reply
    <2>6. Left' = Due
        BY <2>3, <2>5 DEF Left, USB_NO_MSG
    <2>7. Offer' = <<>> /\ got' = <<>>
        BY <1>2, <1>3, <2>1 DEF Offer
    <2>8. Matches(got, 0)' /\ Matches(Offer, Len(got))'
        BY <2>7 DEF Matches
    <2>9. Len(got') + Len(Offer') = 0
        BY <2>7
    <2> HIDE DEF Due
    <2> QED
        BY <1>2, <1>3, <2>1, <2>3, <2>4, <2>5, <2>6, <2>8, <2>9 DEF Sending
<1>5. ASSUME ~Known(request) PROVE Nothing'
    <2>1. usbMsg'.len \in {0, USB_NO_MSG}
        BY <1>1, <1>2, <1>5, OtherReply DEF TypeInv, MessageType
    <2> QED
        BY <1>3, <2>1 DEF Nothing
<1> QED
    BY <1>4, <1>5

\* usbBuildTxBlock() takes the next bytes of the reply.
LEMMA BuildSends ==
    ASSUME TypeInv, Build
    PROVE  /\ phase = "data" /\ Sending => Sending'
           /\ Nothing => Nothing'
<1>1. UNCHANGED <<usbConfiguration, lineCoding, request, got, toggle, lost>>
    BY DEF Build, requestVars, boundVars
<1>2. CASE UNCHANGED <<usbTx, usbMsg>>
    BY <1>1, <1>2, SameReply DEF Untouched
<1>3. CASE ~(usbTx.answer = "data" \/ usbMsg.len = USB_NO_MSG)
    <2> DEFINE block == [i \in 1..wantLen |-> Byte(usbMsg.at + i)]
               rest == IF wantLen < 8 THEN USB_NO_MSG ELSE usbMsg.len - wantLen
    <2>1. /\ usbTx' = [answer |-> "data", token |-> 1 - usbTx.token, data |-> block]
          /\ usbMsg' = [usbMsg EXCEPT !.at = @ + wantLen, !.len = rest]
        BY <1>3 DEF Build
    <2>2. usbMsg \in Messages /\ usbMsg.at \in Nat
        BY DEF TypeInv, MessageType, Messages
    <2>3. usbMsg.len \in 0..254
        <3>1. usbMsg.len \in Bytes
            BY <2>2 DEF Messages
        <3> QED
            BY <1>3, <3>1 DEF Bytes, USB_NO_MSG
    <2>4. wantLen \in 0..8 /\ wantLen <= usbMsg.len /\ (wantLen < 8 => wantLen = usbMsg.len)
        BY <2>3 DEF wantLen
    <2>5. /\ usbMsg'.base = usbMsg.base /\ usbMsg'.at = usbMsg.at + wantLen /\ usbMsg'.len = rest
          /\ usbTx'.answer = "data" /\ usbTx'.token = 1 - usbTx.token /\ usbTx'.data = block
        <3> HIDE DEF block, rest
        <3>1. usbTx'.answer = "data" /\ usbTx'.token = 1 - usbTx.token /\ usbTx'.data = block
            BY <2>1
        <3>2. /\ usbMsg'.base = usbMsg.base /\ usbMsg'.at = usbMsg.at + wantLen
              /\ usbMsg'.len = rest
            BY <2>1, <2>2 DEF Messages
        <3> QED
            BY <3>1, <3>2
    <2>6. Left' = usbMsg.len - wantLen /\ Left = usbMsg.len
        <3>1. usbMsg'.len = rest
            BY <2>5
        <3>2. Left' = IF rest = USB_NO_MSG THEN 0 ELSE rest
            BY <3>1 DEF Left
        <3>3. Left = usbMsg.len
            BY <1>3 DEF Left
        <3> QED
            BY <2>3, <2>4, <3>2, <3>3 DEF USB_NO_MSG
    <2>7. Len(block) = wantLen /\ (wantLen = 0 => block = <<>>)
        BY <2>4
    <2>8. \A i \in 1..wantLen : block[i] = Contents(usbMsg.base)[usbMsg.at + i]
        BY <1>3, BytesOnOffer
    <2>9. Offer = <<>> /\ Offer' = block
        BY <1>3, <2>5 DEF Offer
    <2> HIDE DEF block
    <2>10. ASSUME phase = "data", Sending PROVE Sending'
        <3>1. Due' = Due /\ Source(request)' = Source(request) /\ Object' = Object
            BY <1>1 DEF Due, ReplyLength, Source, Object, Contents, RAM
        <3>2. usbMsg.at + usbMsg.len = Due /\ usbMsg.base = Source(request)
            BY <2>6, <2>10 DEF Sending
        <3>3. usbMsg'.at + Left' = Due'
            BY <2>2, <2>3, <2>4, <2>5, <2>6, <3>1, <3>2
        <3>4. Len(got) \in Nat /\ Len(got) <= usbMsg.at /\ (lost = 0 => Len(got) = usbMsg.at)
              /\ (Len(got) = usbMsg.at => Matches(got, 0))
            <4>1. got \in Seq(Bytes) /\ Len(Offer) = 0
                BY <2>9 DEF TypeInv, HostType
            <4>2. Len(got) \in Nat /\ Len(got) + Len(Offer) = Len(got)
                BY <4>1
            <4> QED
                BY <2>10, <4>2 DEF Sending
        <3>5. Len(got') + Len(Offer') = Len(got) + wantLen
            BY <1>1, <2>7, <2>9
        <3>6. Len(got) = usbMsg.at => Matches(got, 0)' /\ Matches(Offer, Len(got))'
            <4>1. Matches(got, 0)' = Matches(got, 0)
                BY <1>1, <3>1 DEF Matches
            <4>2. Len(got) = usbMsg.at => \A i \in 1..Len(block) : block[i] = Object[Len(got) + i]
                BY <2>7, <2>8, <3>2 DEF Object
            <4> QED
                BY <1>1, <2>9, <3>1, <3>4, <4>1, <4>2 DEF Matches
        <3>7. lost = 0 => usbTx'.token = toggle'
            <4>1. toggle \in {0, 1}
                BY DEF TypeInv, HostType
            <4> QED
                BY <1>1, <1>3, <2>5, <2>10, <4>1 DEF Sending
        <3>8. Len(block) < 8 => usbMsg'.len = USB_NO_MSG
            BY <2>5, <2>7
        <3> QED
            BY <1>1, <2>2, <2>4, <2>5, <3>1, <3>2, <3>3, <3>4, <3>5, <3>6, <3>7, <3>8 DEF Sending
    <2>11. ASSUME Nothing PROVE Nothing'
        <3>1. usbMsg.len = 0
            BY <1>3, <2>11 DEF Nothing
        <3> QED
            BY <2>3, <2>4, <2>5, <2>7, <3>1 DEF Nothing
    <2> QED
        BY <2>10, <2>11
<1> QED
    BY <1>2, <1>3 DEF Build

\* A packet that is missed leaves a gap.
LEMMA MissSends ==
    ASSUME TypeInv, HostMisses
    PROVE  /\ Sending => Sending'
           /\ Nothing => Nothing'
<1>1. /\ usbTx.answer = "data" /\ usbTx'.answer = "NAK" /\ usbTx'.token = usbTx.token
      /\ usbTx.token \in {0, 1} /\ usbTx.data \in Seq(Bytes)
    BY DEF HostMisses, Sends, Offered, TypeInv, MessageType
<1>2. UNCHANGED <<usbMsg, usbConfiguration, lineCoding, request, got, toggle>>
    BY DEF HostMisses, Sends, mainVars
<1>3. lost' = lost + 1 \/ (usbTx.token # toggle /\ lost' = lost)
    BY DEF HostMisses, Loses
<1>4. lost \in Nat /\ got \in Seq(Bytes)
    BY DEF TypeInv, HostType
<1>5. Nothing => Nothing'
    BY <1>1, <1>2 DEF Nothing
<1>6. ASSUME Sending PROVE Sending'
    <2>1. Due' = Due /\ Source(request)' = Source(request) /\ Object' = Object /\ Left' = Left
        BY <1>2 DEF Due, ReplyLength, Source, Object, Contents, RAM, Left
    <2>2. lost' # 0
        BY <1>1, <1>3, <1>4, <1>6 DEF Sending
    <2>3. Offer = usbTx.data /\ Offer' = <<>>
        BY <1>1 DEF Offer
    <2>4. Len(Offer) \in Nat /\ Len(got) \in Nat /\ Len(Offer') = 0 /\ Len(got') = Len(got)
        BY <1>1, <1>2, <1>4, <2>3
    <2>5. Matches(Offer, Len(got))' /\ (Matches(got, 0) => Matches(got, 0)')
        BY <1>2, <2>1, <2>3 DEF Matches
    <2>6. usbMsg.at \in Nat
        BY DEF TypeInv, MessageType, Messages
    <2>7. Len(got') + Len(Offer') <= usbMsg.at
          /\ (Len(got') + Len(Offer') = usbMsg.at => Len(got) + Len(Offer) = usbMsg.at)
        BY <1>6, <2>4, <2>6 DEF Sending
    <2> QED
        BY <1>1, <1>2, <1>6, <2>1, <2>2, <2>5, <2>7 DEF Sending
<1> QED
    BY <1>5, <1>6

\* A packet that is taken is the next part of the reply; when the host stops
\* reading there is no more, or it has all it asked for.
LEMMA ReadSends ==
    ASSUME TypeInv, HostReads, Known(request), Sending
    PROVE  IF phase' = "data" THEN Sending' ELSE Complete'
<1>1. /\ usbTx.answer = "data" /\ usbTx'.answer = "NAK" /\ usbTx'.token = usbTx.token
      /\ usbTx.token = toggle /\ toggle \in {0, 1} /\ usbTx.data \in Seq(Bytes)
    BY DEF HostReads, Sends, Offered, TypeInv, MessageType, HostType
<1>2. /\ UNCHANGED <<usbMsg, usbConfiguration, lineCoding, request, lost>>
      /\ got' = got \o usbTx.data /\ toggle' = 1 - toggle
      /\ phase' = IF Len(usbTx.data) < 8 \/ Len(got') >= request.wLength THEN "status" ELSE "data"
    BY DEF HostReads, Sends, mainVars
<1>3. Due' = Due /\ Source(request)' = Source(request) /\ Object' = Object /\ Left' = Left
    BY <1>2 DEF Due, ReplyLength, Source, Object, Contents, RAM, Left
<1>4. got \in Seq(Bytes) /\ usbMsg.at \in Nat /\ request \in Requests
    BY DEF TypeInv, HostType, MessageType, Messages, Stages, HostReads
<1>5. Left \in Nat /\ (usbMsg.len = USB_NO_MSG => Left = 0)
    <2>1. usbMsg.len \in Bytes
        BY DEF TypeInv, MessageType, Messages
    <2> QED
        BY <2>1 DEF Left, Bytes
<1>6. request.wLength \in Nat /\ Due <= request.wLength /\ Due \in Nat
    <2>1. request.wLength \in Nat
        BY <1>4, RequestFacts
    <2>2. ReplyLength(request) \in Nat
        BY <1>4, KnownReply
    <2> QED
        BY <2>1, <2>2 DEF Due, Smaller
<1>7. Offer = usbTx.data /\ Offer' = <<>> /\ Len(Offer') = 0
    BY <1>1 DEF Offer
<1>8. /\ Len(got) \in Nat /\ Len(Offer) \in Nat
      /\ got' \in Seq(Bytes) /\ Len(got') = Len(got) + Len(Offer)
    BY <1>1, <1>2, <1>4, <1>7
<1>9. ASSUME Matches(got, 0), Matches(Offer, Len(got)) PROVE Matches(got, 0)'
    <2>1. \A i \in 1..Len(got') : got'[i] = IF i <= Len(got) THEN got[i] ELSE Offer[i - Len(got)]
        BY <1>1, <1>2, <1>4, <1>7
    <2>2. SUFFICES ASSUME NEW i \in 1..Len(got') PROVE got'[i] = Object[0 + i]
        BY <1>3 DEF Matches
    <2>3. CASE i <= Len(got)
        BY <1>8, <1>9, <2>1, <2>3 DEF Matches
    <2>4. CASE ~(i <= Len(got))
        <3>1. i - Len(got) \in 1..Len(Offer) /\ Len(got) + (i - Len(got)) = 0 + i
            BY <1>8, <2>4
        <3> QED
            BY <1>9, <2>1, <2>4, <3>1 DEF Matches
    <2> QED
        BY <2>3, <2>4
<1>10. Matches(Offer, Len(got))'
    BY <1>7 DEF Matches
<1>11. /\ usbMsg.at + Left = Due /\ Len(got') <= usbMsg.at
       /\ Len(got') = usbMsg.at => Matches(got, 0)'
       /\ lost = 0 => Len(got') = usbMsg.at
       /\ Len(usbTx.data) < 8 => Left = 0
    BY <1>1, <1>5, <1>8, <1>9 DEF Sending
<1>12. CASE phase' = "data"
    <2>1. Len(got') + Len(Offer') = Len(got')
        BY <1>7, <1>8
    <2> QED
        BY <1>1, <1>2, <1>3, <1>8, <1>10, <1>11, <1>12, <2>1 DEF Sending
<1>13. CASE phase' # "data"
    <2>1. Left = 0 \/ Len(got') >= request.wLength
        BY <1>2, <1>11, <1>13
    <2>2. Len(got') <= Due /\ (Len(got') = Due => Len(got') = usbMsg.at)
          /\ (Len(got') = usbMsg.at => Len(got') = Due)
        BY <1>4, <1>5, <1>6, <1>8, <1>11, <2>1
    <2> QED
        BY <1>2, <1>3, <1>11, <1>13, <2>2 DEF Complete
<1> QED
    BY <1>12, <1>13

LEMMA ReplyStep == TypeInv /\ ReplyInv /\ [Next]_vars => ReplyInv'
<1> SUFFICES ASSUME TypeInv, ReplyInv, [Next]_vars PROVE ReplyInv'
    OBVIOUS
<1> USE DEF ReplyInv, DataRead
<1>a. ASSUME Untouched, UNCHANGED <<phase, outcome, usbRx>>, lost' = lost \/ lost' = lost + 1
      PROVE  ReplyInv'
    BY <1>a, SameReply DEF Untouched, Replied
<1>b. /\ phase \in {"setup", "data", "status"} => request \in Requests
      /\ phase = "idle" => usbRx.token = "none"
    BY DEF TypeInv, Stages
<1>1. CASE ProcessSetup
    <2>1. usbRx.token = "SETUP" /\ usbRx'.token = "none" /\ UNCHANGED <<phase, request, got, toggle, outcome>>
        BY <1>1 DEF ProcessSetup, RxFree, requestVars
    <2>2. Known(request)' = Known(request) /\ DeviceToHost(request)' = DeviceToHost(request)
        BY <2>1 DEF Known, DeviceToHost
    <2>3. ~DataRead'
        BY <1>b, <2>1, <2>2 DEF Replied
    <2> QED
        BY <1>1, <2>1, <2>2, <2>3, SetupSends
<1>2. CASE ProcessData
    <2>1. usbRx.token = "OUT" /\ usbRx'.token = "none" /\ UNCHANGED <<phase, request, got, toggle, outcome>>
        BY <1>2 DEF ProcessData, RxFree, requestVars
    <2>2. Known(request)' = Known(request) /\ DeviceToHost(request)' = DeviceToHost(request)
        BY <2>1 DEF Known, DeviceToHost
    <2>3. phase \in {"data", "status"} => ~DeviceToHost(request)
        BY <2>1 DEF TypeInv, Stages, DeviceToHost
    <2>4. Nothing => Nothing'
        BY <1>2 DEF ProcessData, Nothing, TypeInv, MessageType, Messages
    <2>5. ~DataRead'
        BY <1>b, <2>1, <2>2, <2>3 DEF Replied
    <2> QED
        BY <2>1, <2>2, <2>3, <2>4, <2>5 DEF Known
<1>3. CASE Build
    <2>1. UNCHANGED <<usbRx, phase, request, got, toggle, outcome, lost, lineCoding, usbConfiguration>>
        BY <1>3 DEF Build, requestVars, boundVars
    <2>2. Known(request)' = Known(request) /\ DeviceToHost(request)' = DeviceToHost(request)
        BY <2>1 DEF Known, DeviceToHost
    <2>3. Complete => Complete'
        BY <2>1 DEF Complete, Matches, Due, ReplyLength, Source, Object, Contents, RAM
    <2> QED
        BY <1>3, <2>1, <2>2, <2>3, BuildSends DEF Replied
<1>4. CASE NoPacket \/ Line \/ Notify \/ SetDtrPin
    BY <1>4, <1>a DEF NoPacket, Line, Notify, SetDtrPin, Untouched, mainVars, requestVars, boundVars
<1>5. CASE HostStarts
    BY <1>5 DEF HostStarts, Replied
<1>6. CASE HostSetup
    <2>1. request \in Requests /\ usbRx'.token = "SETUP" /\ phase = "setup"
        BY <1>6, <1>b DEF HostSetup, Store
    <2>2. UNCHANGED <<request, got, toggle, outcome>>
        BY <1>6 DEF HostSetup, Store
    <2>3. phase' = "setup" \/ phase' = IF request.wLength > 0 THEN "data" ELSE "status"
        BY <1>6 DEF HostSetup, Store
    <2>4. DeviceToHost(request)' = DeviceToHost(request) /\ (DeviceToHost(request) => request.wLength > 0)
        BY <2>1, <2>2, RequestFacts DEF DeviceToHost
    <2> QED
        BY <2>1, <2>2, <2>3, <2>4 DEF Known, Replied
<1>7. CASE HostWrites
    <2>1. phase = "data" /\ ~DeviceToHost(request) /\ phase' \in {"data", "status"} /\ usbRx.token = "none"
        BY <1>7 DEF HostWrites, Store
    <2>2. UNCHANGED <<request, got, toggle, outcome, usbTx, usbMsg>> /\ usbRx'.token = "OUT"
        BY <1>7 DEF HostWrites, Store, mainVars
    <2>3. ~DeviceToHost(request)' /\ ~Known(request) /\ ~Known(request)'
        BY <2>1, <2>2 DEF DeviceToHost, Known
    <2>4. Nothing => Nothing'
        BY <2>2 DEF Nothing
    <2> QED
        BY <2>1, <2>2, <2>3, <2>4 DEF Replied
<1>8. CASE HostMisses
    <2>1. UNCHANGED <<usbRx, phase, request, got, toggle, outcome>>
        BY <1>8 DEF HostMisses, Sends
    <2>2. phase = (IF DeviceToHost(request) THEN "data" ELSE "status")
        BY <1>8 DEF HostMisses
    <2>3. Known(request)' = Known(request) /\ DeviceToHost(request)' = DeviceToHost(request)
        BY <2>1 DEF Known, DeviceToHost
    <2> QED
        BY <1>8, <2>1, <2>2, <2>3, MissSends DEF Replied
<1>9. CASE HostReads
    <2>1. /\ phase = "data" /\ DeviceToHost(request) /\ phase' \in {"data", "status"}
          /\ UNCHANGED <<usbRx, request, outcome>> /\ usbRx.token = "none"
        BY <1>9 DEF HostReads, Sends, Offered
    <2>2. Known(request)' = Known(request) /\ DeviceToHost(request)' = DeviceToHost(request)
        BY <2>1 DEF Known, DeviceToHost
    <2>3. CASE Known(request)
        BY <1>9, <2>1, <2>2, <2>3, ReadSends DEF Replied
    <2>4. CASE ~Known(request)
        <3>1. Nothing /\ got = <<>> /\ usbTx.data = <<>>
            BY <1>9, <2>1, <2>4 DEF HostReads, Sends, Offered, Nothing
        <3>2. got' = <<>>
            BY <1>9, <3>1 DEF HostReads
        <3>3. Nothing'
            BY <1>9, <3>1 DEF HostReads, Sends, Nothing, mainVars, TypeInv, MessageType
        <3> QED
            BY <2>1, <2>2, <2>4, <3>2, <3>3 DEF Replied
    <2> QED
        BY <2>3, <2>4
<1>10. CASE HostReadsStatus
    <2>1. phase = "status" /\ ~DeviceToHost(request) /\ usbRx.token = "none" /\ usbTx.answer = "data"
        BY <1>10 DEF HostReadsStatus, Sends, Offered
    <2>2. phase' = "idle" /\ got' = usbTx.data /\ request' = request
        BY <1>10 DEF HostReadsStatus, Sends, Completed
    <2>3. usbTx.data = <<>>
        BY <2>1 DEF Known, Nothing
    <2>4. ~Known(request)'
        BY <2>1, <2>2 DEF Known, DeviceToHost
    <2> QED
        BY <2>2, <2>3, <2>4
<1>11. CASE HostStalled
    BY <1>11 DEF HostStalled, Replied
<1>12. CASE HostWritesStatus
    <2>1. Untouched /\ lost' = lost /\ phase = "status" /\ DeviceToHost(request) /\ phase' = "idle"
        BY <1>12 DEF HostWritesStatus, Completed, Untouched, mainVars, boundVars
    <2>2. Known(request)' = Known(request) /\ (Complete => Complete')
        BY <2>1, SameReply
    <2> QED
        BY <2>1, <2>2 DEF Untouched
<1>13. CASE ResetEnds
    <2>1. phase = "reset" /\ outcome' = outcome /\ phase' = "idle"
        BY <1>13 DEF ResetEnds
    <2> QED
        BY <2>1 DEF Replied
<1>14. CASE HostPolls3
    BY <1>14, <1>a DEF HostPolls3, Loses, Untouched, mainVars, requestVars, notifiedVars
<1>15. CASE HostResets \/ Begin
    BY <1>15 DEF HostResets, Begin, BusReset, Replied
<1>16. CASE UNCHANGED vars
    BY <1>16, <1>a DEF vars, Untouched, mainVars, requestVars, boundVars
<1> QED
    BY <1>1, <1>2, <1>3, <1>4, <1>5, <1>6, <1>7, <1>8, <1>9, <1>10, <1>11, <1>12, <1>13, <1>14,
       <1>15, <1>16 DEF Next, Main, Continues

\* The whole reply, which is what Expected says.
LEMMA ExpectedReply ==
    ASSUME TypeInv, ReplyInv, Replied, lost = 0 \/ Len(got) = Len(Expected)
    PROVE  got = Expected
<1>1. request.wLength \in Nat /\ got \in Seq(Bytes)
    <2>1. CASE request \in Requests
        BY <2>1, RequestFacts DEF TypeInv, HostType
    <2>2. CASE request = Plain("none", 0, 0)
        BY <2>2 DEF Plain, Request, TypeInv, HostType
    <2> QED
        BY <2>1, <2>2 DEF TypeInv, HostType
<1>2. CASE Known(request)
    <2>1. request \in Requests
        BY <1>2 DEF TypeInv, HostType, Known, DeviceToHost, Plain, Request
    <2>2. Source(request) \in Objects /\ ReplyLength(request) \in 1..Size[Source(request)]
          /\ Size[Source(request)] \in 1..67
        BY <1>2, <2>1, KnownReply
    <2>3. Object \in Seq(Bytes) /\ Len(Object) = Size[Source(request)]
        BY <2>2, ObjectSizes DEF Object, TypeInv
    <2>4. Due \in 0..Len(Object) /\ Due <= request.wLength
        BY <1>1, <2>2, <2>3 DEF Due, Smaller
    <2>5. Expected = SubSeq(Object, 1, Due)
        <3>1. CASE request.bRequest = "GET_DESCRIPTOR"
            <4>1. request.descriptor \in DOMAIN Flash /\ Source(request) = request.descriptor
                BY <1>2, <3>1 DEF Known, Source
            <4>2. Object = Flash[request.descriptor] /\ ReplyLength(request) = Len(Object)
                BY <2>3, <3>1, <4>1 DEF Object, Contents, ReplyLength
            <4> QED
                BY <3>1, <4>1, <4>2 DEF Expected, Due, Smaller
        <3>2. CASE request.bRequest = "GET_LINE_CODING"
            <4>1. Object = lineCoding /\ ReplyLength(request) = Len(Object)
                BY <2>3, <3>2, FlashNames DEF Object, Contents, RAM, Source, ReplyLength
            <4> QED
                BY <3>2, <4>1 DEF Expected, Due, Smaller
        <3>3. CASE request.bRequest = "GET_CONFIGURATION"
            <4>1. Object = <<usbConfiguration>> /\ ReplyLength(request) = Len(Object)
                BY <2>3, <3>3, FlashNames DEF Object, Contents, RAM, Source, ReplyLength
            <4> QED
                BY <3>3, <4>1 DEF Expected, Due, Smaller
        <3>4. CASE request.bRequest = "GET_STATUS"
            <4>1. Object = <<0, 0>> /\ ReplyLength(request) = Len(Object)
                BY <2>3, <3>4, FlashNames DEF Object, Contents, RAM, Source, ReplyLength
            <4> QED
                BY <3>4, <4>1 DEF Expected, Due, Smaller
        <3>5. CASE request.bRequest = "GET_INTERFACE"
            <4>1. Object = <<0, 0>> /\ ReplyLength(request) = 1
                BY <3>5, FlashNames DEF Object, Contents, RAM, Source, ReplyLength
            <4>2. Due = (IF request.wLength < 1 THEN request.wLength ELSE 1)
                BY <4>1 DEF Due, Smaller
            <4>3. Expected = SubSeq(<<0>>, 1, Due)
                BY <3>5, <4>2 DEF Expected
            <4>4. Due = 1
                BY <1>1, <2>1, <3>5, <4>2, RequestFacts DEF DeviceToHost
            <4> DEFINE one == <<0>>
                       two == <<0, 0>>
            <4>5. /\ one \in Seq(Bytes) /\ Len(one) = 1 /\ two \in Seq(Bytes) /\ Len(two) = 2
                  /\ one[1] = two[1]
                BY DEF Bytes
            <4>6. Expected = SubSeq(one, 1, 1) /\ Object = two
                BY <4>1, <4>3, <4>4
            <4> HIDE DEF one, two, Expected
            <4>7. SubSeq(one, 1, 1) \in Seq(Bytes) /\ Len(SubSeq(one, 1, 1)) = 1
                  /\ SubSeq(one, 1, 1)[1] = one[1]
                BY <4>5
            <4>8. SubSeq(two, 1, 1) \in Seq(Bytes) /\ Len(SubSeq(two, 1, 1)) = 1
                  /\ SubSeq(two, 1, 1)[1] = two[1]
                BY <4>5
            <4>9. SubSeq(one, 1, 1) = SubSeq(two, 1, 1)
                BY <4>5, <4>7, <4>8
            <4> QED
                BY <4>4, <4>6, <4>9
        <3> QED
            BY <1>2, <3>1, <3>2, <3>3, <3>4, <3>5 DEF Known, DeviceToHost
    <2>6. Expected \in Seq(Bytes) /\ Len(Expected) = Due
          /\ \A i \in 1..Due : Expected[i] = Object[i]
        BY <2>3, <2>4, <2>5
    <2>7. Len(got) = Due /\ \A i \in 1..Due : got[i] = Object[0 + i]
        <3>1. Complete
            BY <1>2 DEF ReplyInv, DataRead
        <3>2. Len(got) = Due
            BY <2>6, <3>1 DEF Complete
        <3> QED
            BY <3>1, <3>2 DEF Complete, Matches
    <2>8. \A i \in 1..Due : got[i] = Expected[i]
        BY <2>4, <2>6, <2>7
    <2> HIDE DEF Due, Expected
    <2> QED
        BY <1>1, <2>6, <2>7, <2>8
<1>3. CASE ~Known(request)
    <2>1. got = <<>>
        BY <1>3 DEF ReplyInv, DataRead
    <2>2. Expected = SubSeq(<<>>, 1, IF request.wLength < 0 THEN request.wLength ELSE 0)
        BY <1>3 DEF Expected, Known, DeviceToHost
    <2>3. SubSeq(<<>>, 1, 0) = <<>>
        OBVIOUS
    <2> QED
        BY <1>1, <2>1, <2>2, <2>3
<1> QED
    BY <1>2, <1>3

\* ReplyRight: a request that the host believes done has had its own reply,
\* whichever it gave up before, and a full-length reply is right although
\* packets were lost.
THEOREM ReplyCorrect == Spec => []ReplyRight
<1>1. TypeInv /\ ReplyInv => ReplyRight
    BY ExpectedReply DEF ReplyRight
<1>2. Init => TypeInv /\ ReplyInv
    BY TypeInit, ReplyInit
<1>3. TypeInv /\ ReplyInv /\ [Next]_vars => (TypeInv /\ ReplyInv)'
    BY TypeStep, ReplyStep
<1> QED
    BY <1>1, <1>2, <1>3, PTL DEF Spec

-----------------------------------------------------------------------------
(* Where the descriptors of the configuration start.                       *)

\* The walk ends at i.
Stops(bytes, i) == i > Len(bytes) \/ bytes[i] = 0

Positions(bytes) == 1..(Len(bytes) + 255)

\* Sets of positions that a walk does not leave.
ClosedSets(bytes) ==
    {S \in SUBSET Positions(bytes) : \A j \in S : ~Stops(bytes, j) => j + bytes[j] \in S}

\* The smallest of those with i, but for its end.
Reached(bytes, i) ==
    {j \in Positions(bytes) : ~Stops(bytes, j) /\ \A S \in ClosedSets(bytes) : i \in S => j \in S}

LEMMA ReachedFrom ==
    ASSUME NEW bytes \in Seq(Bytes), NEW i \in Positions(bytes)
    PROVE  /\ ~Stops(bytes, i) => i + bytes[i] \in Positions(bytes)
           /\ Reached(bytes, i) = IF Stops(bytes, i) THEN {}
                                  ELSE {i} \cup Reached(bytes, i + bytes[i])
<1>1. CASE Stops(bytes, i)
    <2>1. {i} \in ClosedSets(bytes)
        BY <1>1 DEF ClosedSets
    <2> QED
        BY <1>1, <2>1 DEF Reached
<1>2. CASE ~Stops(bytes, i)
    <2>1. i \in 1..Len(bytes) /\ Len(bytes) \in Nat
        BY <1>2 DEF Stops, Positions
    <2>2. bytes[i] \in Bytes
        BY <2>1
    <2>3. PICK k \in Positions(bytes) : k = i + bytes[i]
        <3>1. PICK b \in 0..255 : b = bytes[i]
            BY <2>2 DEF Bytes
        <3>2. i + b \in Positions(bytes)
            BY <2>1 DEF Positions
        <3> QED
            BY <3>1, <3>2
    <2>4. i \in Reached(bytes, i)
        BY <1>2 DEF Reached
    <2>5. Reached(bytes, k) \subseteq Reached(bytes, i)
        BY <1>2, <2>3 DEF Reached, ClosedSets
    <2>6. ASSUME NEW j \in Reached(bytes, i), j # i
          PROVE  j \in Reached(bytes, k)
        <3>1. SUFFICES ASSUME NEW S \in ClosedSets(bytes), k \in S PROVE j \in S
            BY <2>6 DEF Reached
        <3>2. S \cup {i} \in ClosedSets(bytes)
            BY <2>3, <3>1 DEF ClosedSets
        <3> QED
            BY <2>6, <3>2 DEF Reached
    <2> QED
        BY <1>2, <2>3, <2>4, <2>5, <2>6
<1> QED
    BY <1>1, <1>2

\* The recursive definition has a solution.
LEMMA Starts ==
    ASSUME NEW bytes \in Seq(Bytes), NEW i \in Positions(bytes)
    PROVE  /\ Stops(bytes, i) => StartsFrom(bytes)[i] = {}
           /\ \A next : ~Stops(bytes, i) /\ next = i + bytes[i] =>
                  StartsFrom(bytes)[i] = {i} \cup StartsFrom(bytes)[next]
<1> DEFINE Solves(f) == f = [j \in Positions(bytes) |-> IF Stops(bytes, j) THEN {}
                                                        ELSE {j} \cup f[j + bytes[j]]]
           reached == [j \in Positions(bytes) |-> Reached(bytes, j)]
<1>1. Solves(reached)
    <2>1. ASSUME NEW j \in Positions(bytes)
          PROVE  Reached(bytes, j) = IF Stops(bytes, j) THEN {}
                                     ELSE {j} \cup reached[j + bytes[j]]
        BY <2>1, ReachedFrom
    <2> QED
        BY <2>1
<1>2. StartsFrom(bytes) = CHOOSE f : Solves(f)
    BY DEF StartsFrom, Stops, Positions
<1>3. Solves(StartsFrom(bytes))
    <2> HIDE DEF Solves
    <2> QED
        BY <1>1, <1>2
<1> QED
    BY <1>3

\* A descriptor of the configuration and the next one.
Follows(i, length, next) ==
    i \in 1..67 /\ length \in 1..255 /\ next = i + length /\ ConfigDescriptor[i] = length

ConfigFrom(i) == StartsFrom(ConfigDescriptor)[i]

LEMMA NextStart ==
    ASSUME NEW i, NEW length, NEW next, Follows(i, length, next)
    PROVE  ConfigFrom(i) = {i} \cup ConfigFrom(next)
<1>1. ConfigDescriptor \in Seq(Bytes) /\ Len(ConfigDescriptor) = 67
    BY ConfigLength DEF DIGICDC_DESCRIPTOR_SIZE
<1>2. i \in Positions(ConfigDescriptor)
    BY <1>1 DEF Positions, Follows
<1>3. ~Stops(ConfigDescriptor, i)
    <2>1. ConfigDescriptor[i] # 0
        BY DEF Follows
    <2>2. ~(i > 67)
        BY DEF Follows
    <2> QED
        BY <1>1, <2>1, <2>2 DEF Stops
<1>4. next = i + ConfigDescriptor[i]
    BY DEF Follows
<1> QED
    BY <1>1, <1>2, <1>3, <1>4, Starts, Zenon DEF ConfigFrom

LEMMA ConfigStarts == ConfigFrom(1) = {1, 10, 19, 24, 28, 33, 38, 45, 54, 61}
<1>1. ConfigLayout
    BY ConfigLength
<1>2. /\ Follows(1, 9, 10) /\ Follows(10, 9, 19) /\ Follows(19, 5, 24) /\ Follows(24, 4, 28)
      /\ Follows(28, 5, 33) /\ Follows(33, 5, 38) /\ Follows(38, 7, 45) /\ Follows(45, 9, 54)
      /\ Follows(54, 7, 61) /\ Follows(61, 7, 68)
    BY <1>1 DEF ConfigLayout, Follows
<1>3. /\ ConfigFrom(1) = {1} \cup ConfigFrom(10) /\ ConfigFrom(10) = {10} \cup ConfigFrom(19)
      /\ ConfigFrom(19) = {19} \cup ConfigFrom(24) /\ ConfigFrom(24) = {24} \cup ConfigFrom(28)
      /\ ConfigFrom(28) = {28} \cup ConfigFrom(33) /\ ConfigFrom(33) = {33} \cup ConfigFrom(38)
      /\ ConfigFrom(38) = {38} \cup ConfigFrom(45) /\ ConfigFrom(45) = {45} \cup ConfigFrom(54)
      /\ ConfigFrom(54) = {54} \cup ConfigFrom(61) /\ ConfigFrom(61) = {61} \cup ConfigFrom(68)
    BY <1>2, NextStart
<1>4. ConfigFrom(68) = {}
    <2>1. ConfigDescriptor \in Seq(Bytes) /\ Len(ConfigDescriptor) = 67
        BY ConfigLength DEF DIGICDC_DESCRIPTOR_SIZE
    <2>2. 68 \in Positions(ConfigDescriptor) /\ Stops(ConfigDescriptor, 68)
        BY <2>1 DEF Positions, Stops
    <2> QED
        BY <2>1, <2>2, Starts DEF ConfigFrom
<1> QED
    BY <1>3, <1>4

\* The walk meets each endpoint's descriptor once.
LEMMA ConfigPacketSizes ==
    /\ PacketSizes(ConfigDescriptor, 1) = {OutPacketSize}
    /\ PacketSizes(ConfigDescriptor, 129) = {InPacketSize}
<1>1. ConfigLayout
    BY ConfigLength
<1> DEFINE OfEndpoint(endpoint) == {i \in ConfigFrom(1) :
               ConfigDescriptor[i + 1] = 5 /\ ConfigDescriptor[i + 2] = endpoint}
           descriptor(i) == ConfigDescriptor[i + 1] = 5
<1>2. /\ ~descriptor(1) /\ ~descriptor(10) /\ ~descriptor(19) /\ ~descriptor(24)
      /\ ~descriptor(28) /\ ~descriptor(33) /\ ~descriptor(45)
    BY <1>1 DEF ConfigLayout
<1>3. /\ ConfigDescriptor[38 + 1] = 5 /\ ConfigDescriptor[38 + 2] = 131
      /\ ConfigDescriptor[54 + 1] = 5 /\ ConfigDescriptor[54 + 2] = 1
      /\ ConfigDescriptor[61 + 1] = 5 /\ ConfigDescriptor[61 + 2] = 129
    BY <1>1 DEF ConfigLayout
<1>4. ASSUME NEW i \in ConfigFrom(1), descriptor(i)
      PROVE  i \in {38, 54, 61}
    BY <1>2, <1>4, ConfigStarts
<1>5. OfEndpoint(1) = {54}
    BY <1>3, <1>4, ConfigStarts
<1>6. OfEndpoint(129) = {61}
    BY <1>3, <1>4, ConfigStarts
<1>7. ConfigDescriptor[54 + 4] = OutPacketSize /\ ConfigDescriptor[61 + 4] = InPacketSize
    BY <1>1 DEF ConfigLayout
<1> QED
    BY <1>5, <1>6, <1>7 DEF PacketSizes, ConfigFrom

\* A host that asked for as much as there is has the configuration.
LEMMA WholeConfig ==
    ASSUME TypeInv, got = Expected, Replied, request.descriptor = "config",
           request.wLength >= 9, request.wLength >= got[3] + 256 * got[4]
    PROVE  got = ConfigDescriptor
<1>1. request.bRequest = "GET_DESCRIPTOR" /\ request.wLength \in Nat
    <2>1. request \in Requests
        BY DEF TypeInv, HostType, Plain, Request
    <2>2. request \in DescriptorRequests
        BY <2>1 DEF Requests, AddressRequests, ConfigurationRequests, InterfaceRequests, Plain,
           Request
    <2> QED
        BY <2>1, <2>2, RequestFacts DEF DescriptorRequests, Request
<1>2. Flash["config"] = ConfigDescriptor /\ "config" \in DOMAIN Flash
    BY DEF Flash
<1>3. /\ ConfigDescriptor \in Seq(Bytes) /\ Len(ConfigDescriptor) = 67
      /\ ConfigDescriptor[3] = 67 /\ ConfigDescriptor[4] = 0
    BY ConfigLength DEF DIGICDC_DESCRIPTOR_SIZE, ConfigLayout
<1> DEFINE length == IF request.wLength < 67 THEN request.wLength ELSE 67
<1>4. got = SubSeq(ConfigDescriptor, 1, length)
    <2> DEFINE all == Flash["config"]
    <2>1. Expected = SubSeq(all, 1, IF request.wLength < Len(all) THEN request.wLength
                                                                  ELSE Len(all))
        BY <1>1, <1>2 DEF Expected
    <2>2. all = ConfigDescriptor /\ Len(all) = 67
        BY <1>2, <1>3
    <2> HIDE DEF all, Expected
    <2> QED
        BY <2>1, <2>2
<1>5. PICK n \in 9..67 : n = length
    BY <1>1
<1>6. Len(got) = n /\ \A i \in 1..n : got[i] = ConfigDescriptor[i]
    BY <1>3, <1>4, <1>5
<1>7. got[3] = 67 /\ got[4] = 0
    BY <1>3, <1>6
<1>8. n = 67
    BY <1>1, <1>5, <1>7
<1>9. got \in Seq(Bytes)
    BY DEF TypeInv, HostType
<1>10. Len(got) = Len(ConfigDescriptor) /\ \A i \in 1..Len(got) : got[i] = ConfigDescriptor[i]
    BY <1>3, <1>6, <1>8
<1>11. ConfigDescriptor \in Seq(Bytes)
    BY <1>3
<1> QED
    BY <1>9, <1>10, <1>11

\* PacketSizesAgree: who has read the whole configuration and follows the
\* descriptors by their lengths finds its length and the packet sizes that
\* usbBegin() reads at fixed offsets, whatever the sizes are.
THEOREM PacketSizesCorrect == Spec => []PacketSizesAgree
<1>1. TypeInv /\ ReplyInv => PacketSizesAgree
    <2> SUFFICES ASSUME TypeInv, ReplyInv, Replied, request.descriptor = "config",
                        Len(got) = Len(Expected), request.wLength >= 9,
                        request.wLength >= got[3] + 256 * got[4]
                 PROVE  /\ Len(got) = got[3] + 256 * got[4]
                        /\ PacketSizes(got, 1) = {ConfigDescriptor[DIGICDC_OUT_PACKET_SIZE_AT + 1]}
                        /\ PacketSizes(got, 129) = {ConfigDescriptor[DIGICDC_IN_PACKET_SIZE_AT + 1]}
        BY DEF PacketSizesAgree
    <2>1. got = ConfigDescriptor
        BY ExpectedReply, WholeConfig
    <2>2. Len(ConfigDescriptor) = 67 /\ ConfigLayout
        BY ConfigLength DEF DIGICDC_DESCRIPTOR_SIZE
    <2>3. Len(got) = got[3] + 256 * got[4]
        <3>1. ConfigDescriptor[3] = 67 /\ ConfigDescriptor[4] = 0
            BY <2>2 DEF ConfigLayout
        <3>2. Len(got) = 67 /\ got[3] = 67 /\ got[4] = 0
            BY <2>1, <2>2, <3>1
        <3> QED
            BY <3>2
    <2>4. /\ ConfigDescriptor[DIGICDC_OUT_PACKET_SIZE_AT + 1] = OutPacketSize
          /\ ConfigDescriptor[DIGICDC_IN_PACKET_SIZE_AT + 1] = InPacketSize
        BY <2>2 DEF ConfigLayout, DIGICDC_OUT_PACKET_SIZE_AT, DIGICDC_IN_PACKET_SIZE_AT
    <2> QED
        BY <2>1, <2>3, <2>4, ConfigPacketSizes
<1>2. Init => TypeInv /\ ReplyInv
    BY TypeInit, ReplyInit
<1>3. TypeInv /\ ReplyInv /\ [Next]_vars => (TypeInv /\ ReplyInv)'
    BY TypeStep, ReplyStep
<1> QED
    BY <1>1, <1>2, <1>3, PTL DEF Spec

-----------------------------------------------------------------------------
(* The line coding.                                                        *)

LEMMA LowByte ==
    ASSUME NEW n \in Nat
    PROVE  n = 256 * (n \div 256) + (n % 256)
BY SMT

LEMMA HighBytes ==
    ASSUME NEW n \in Nat
    PROVE  n \div 65536 = (n \div 256) \div 256
BY SMT

LEMMA HighestByte ==
    ASSUME NEW n \in Nat
    PROVE  n \div 16777216 = (n \div 65536) \div 256
BY SMT

LEMMA Quotients ==
    ASSUME NEW n \in Nat
    PROVE  n \div 256 \in Nat /\ n % 256 \in Nat
BY SMT

\* The value of a bit rate's bytes, as baud() computes it.
Value(bytes) == bytes[1] + 256 * bytes[2] + 65536 * bytes[3] + 16777216 * bytes[4]

\* The four bytes of a bit rate are the bit rate.
LEMMA RateOfBytes ==
    ASSUME NEW rate \in Nat, rate \div 16777216 < 256
    PROVE  Value(Coding(rate)) = rate
<1> DEFINE a == rate \div 256
           b == rate \div 65536
           c == rate \div 16777216
           low == rate % 256
<1>1. b = a \div 256 /\ c = b \div 256
    BY HighBytes, HighestByte
<1>2. rate = 256 * a + low /\ a \in Nat /\ low \in Nat
    BY LowByte, Quotients
<1>3. Coding(rate)[1] = low /\ Coding(rate)[2] = a % 256 /\ Coding(rate)[3] = b % 256
      /\ Coding(rate)[4] = c % 256
    BY SMT DEF Coding
<1>4. c < 256
    OBVIOUS
<1> HIDE DEF a, b, c, low
<1>5. a = 256 * b + (a % 256) /\ b \in Nat /\ a % 256 \in Nat
    BY <1>1, <1>2, LowByte, Quotients
<1>6. b = 256 * c + (b % 256) /\ c \in Nat /\ b % 256 \in Nat
    BY <1>1, <1>5, LowByte, Quotients
<1>7. c % 256 = c
    BY <1>4, <1>6, SMT
<1> DEFINE a1 == a % 256
           b1 == b % 256
<1>8. Value(Coding(rate)) = low + 256 * a1 + 65536 * b1 + 16777216 * c
    BY <1>3, <1>7, SMT DEF Value
<1>9. a = 256 * b + a1 /\ b = 256 * c + b1 /\ a1 \in Nat /\ b1 \in Nat
    BY <1>5, <1>6
<1> HIDE DEF a1, b1
<1> QED
    BY <1>2, <1>6, <1>8, <1>9, SMT

Fits(rate) == rate \in Nat /\ rate \div 16777216 < 256

LEMMA RatesFit ==
    /\ Fits(9600)
    /\ \A rate \in Rates : Fits(rate)
    /\ \A rate : Fits(rate) /\ lineCoding = Coding(rate) => baud = rate
    /\ \A r, s : Fits(r) /\ Fits(s) /\ Coding(r) = Coding(s) => r = s
<1>1. Fits(9600)
    BY SMT DEF Fits
<1>2. \A rate \in Rates : Fits(rate)
    BY ControlAssumption, RatesAssumption, SMT DEF Fits
<1>3. ASSUME NEW rate, Fits(rate), lineCoding = Coding(rate) PROVE baud = rate
    <2>1. Value(Coding(rate)) = rate
        BY <1>3, RateOfBytes DEF Fits
    <2> QED
        BY <1>3, <2>1 DEF baud, Value
<1>4. ASSUME NEW r, NEW s, Fits(r), Fits(s), Coding(r) = Coding(s) PROVE r = s
    <2>1. Value(Coding(r)) = r /\ Value(Coding(s)) = s
        BY <1>4, RateOfBytes DEF Fits
    <2> QED
        BY <1>4, <2>1
<1> QED
    BY <1>1, <1>2, <1>3, <1>4

\* SET_LINE_CODING has been taken out of usbRxBuf, its data perhaps not.
Setting ==
    /\ request.bRequest = "SET_LINE_CODING" /\ phase \in {"data", "status"}
    /\ usbRx.token # "SETUP"

\* Its data have been taken out as well.
ReadyToTell == phase = "status" /\ usbRx.token = "none"

\* The line coding is the first one or one that was accepted, and the end of the
\* request on offer says which: a STALL if it was refused, else an empty packet.
LineInv ==
    /\ \E rate \in {9600} \cup (Rates \ Refused) : lineCoding = Coding(rate)
    /\ request.bRequest = "SET_LINE_CODING" /\ phase = "status" => usbRx.token # "SETUP"
    /\ Setting => usbMsg.flags = "USER_RW"
    /\ Setting /\ request.value \in Refused => usbMsg.len = USB_NO_MSG /\ usbTx.answer # "data"
    /\ Setting /\ request.value \in Refused /\ ReadyToTell => usbTx.answer = "STALL"
    /\ Setting /\ request.value \notin Refused => usbTx.answer # "STALL"
    /\ Setting /\ request.value \notin Refused /\ ReadyToTell =>
           lineCoding = Coding(request.value)

LEMMA LineInit == Init => LineInv
<1> SUFFICES ASSUME Init PROVE LineInv
    OBVIOUS
<1>1. lineCoding = Coding(9600) /\ phase = "idle"
    BY DEF Init
<1> QED
    BY <1>1 DEF LineInv, Setting, ReadyToTell

LEMMA LineStep == TypeInv /\ LineInv /\ [Next]_vars => LineInv'
<1> SUFFICES ASSUME TypeInv, LineInv, [Next]_vars PROVE LineInv'
    OBVIOUS
<1>a. ASSUME UNCHANGED <<usbRx, usbTx, usbMsg, lineCoding, phase, request>> PROVE LineInv'
    BY <1>a DEF LineInv, Setting, ReadyToTell
<1>b. phase \in {"setup", "data", "status"} => request \in Requests
    BY DEF TypeInv, Stages
<1>c. usbMsg \in Messages
    BY DEF TypeInv, MessageType
<1>1. CASE ProcessSetup
    <2>1. usbRx.token = "SETUP" /\ usbRx.request \in Requests /\ usbTx'.answer = "NAK"
        BY <1>1 DEF ProcessSetup, Aborted, TypeInv, Stages, MessageType
    <2>2. usbMsg' = SetupReply(usbRx.request) /\ UNCHANGED <<lineCoding, phase, request>>
        BY <1>1 DEF ProcessSetup, requestVars
    <2>3. phase \in {"data", "status"} => usbRx.request = request
        BY <2>1 DEF TypeInv, Stages
    <2>4. request.bRequest = "SET_LINE_CODING" /\ phase \in {"data", "status"} =>
              usbMsg'.len = USB_NO_MSG /\ usbMsg'.flags = "USER_RW"
        BY <2>1, <2>2, <2>3, OtherReply DEF Known, DeviceToHost, TypeInv, MessageType
    <2> QED
        BY <2>1, <2>2, <2>4 DEF LineInv, Setting, ReadyToTell
<1>2. CASE ProcessData
    <2>1. /\ usbRx.token = "OUT" /\ usbRx'.token = "none" /\ UNCHANGED <<phase, request>>
          /\ IF usbMsg.flags # "USER_RW" THEN UNCHANGED <<usbTx, usbMsg, lineCoding>>
             ELSE IF Refuses(usbRx.data)
             THEN usbTx' = [usbTx EXCEPT !.answer = "STALL"] /\ UNCHANGED <<usbMsg, lineCoding>>
             ELSE /\ lineCoding' = Stored(usbRx.data)
                  /\ usbMsg' = [usbMsg EXCEPT !.len = 0] /\ usbTx' = usbTx
        BY <1>2 DEF ProcessData, RxFree, requestVars
    <2>2. PICK rate \in Rates : usbRx.data = Coding(rate)
        BY <2>1 DEF TypeInv, Stages
    <2>3. \A r \in Refused : r \in Rates
        BY ControlAssumption
    <2>4. /\ Refuses(usbRx.data) <=> rate \in Refused
          /\ Stored(usbRx.data) = usbRx.data
        <3>1. \A r \in Refused : Coding(r) = Coding(rate) => r = rate
            BY <2>3, RatesFit
        <3>2. /\ Refuses(usbRx.data) <=> \E r \in Refused : Coding(r) = Coding(rate)
              /\ Stored(usbRx.data) = Coding(rate)
            BY <2>2, CodingStored DEF TypeInv
        <3> QED
            BY <2>2, <3>1, <3>2
    <2>5. \E r \in {9600} \cup (Rates \ Refused) : lineCoding' = Coding(r)
        BY <2>1, <2>2, <2>4 DEF LineInv, Setting, ReadyToTell
    <2>6. CASE Setting
        <3>1. usbRx.data = Coding(request.value) /\ request.value \in Rates
            BY <1>b, <2>1, <2>6, RequestFacts DEF LineInv, Setting, ReadyToTell, TypeInv, Stages
        <3>2. rate = request.value
            <4>1. Fits(rate) /\ Fits(request.value) /\ Coding(rate) = Coding(request.value)
                BY <2>2, <3>1, RatesFit
            <4> QED
                BY <4>1, RatesFit
        <3>3. CASE request.value \in Refused
            <4>1. usbTx'.answer = "STALL" /\ usbMsg' = usbMsg /\ usbMsg.len = USB_NO_MSG
                BY <2>1, <2>4, <2>6, <3>2, <3>3 DEF LineInv, Setting, ReadyToTell, TypeInv, MessageType
            <4> QED
                BY <2>1, <2>5, <2>6, <3>3, <4>1 DEF LineInv, Setting, ReadyToTell
        <3>4. CASE request.value \notin Refused
            <4>1. lineCoding' = Coding(request.value) /\ usbTx' = usbTx
                  /\ usbMsg' = [usbMsg EXCEPT !.len = 0]
                BY <2>1, <2>4, <2>6, <3>1, <3>2, <3>4 DEF LineInv, Setting, ReadyToTell
            <4>2. usbMsg'.flags = "USER_RW"
                <5>1. usbMsg.flags = "USER_RW"
                    BY <2>6 DEF LineInv, Setting, ReadyToTell
                <5>2. usbMsg'.flags = usbMsg.flags
                    BY <1>c, <4>1 DEF Messages
                <5> QED
                    BY <5>1, <5>2
            <4>3. usbRx'.token = "none" /\ UNCHANGED <<phase, request>> /\ usbTx'.answer # "STALL"
                BY <2>1, <2>6, <3>4, <4>1 DEF LineInv, Setting, ReadyToTell
            <4>4. lineCoding' = Coding(request'.value) /\ request'.value \notin Refused
                BY <3>4, <4>1, <4>3
            <4> QED
                <5>1. (\E r \in {9600} \cup (Rates \ Refused) : lineCoding = Coding(r))'
                    BY <2>5
                <5>2. (request.bRequest = "SET_LINE_CODING" /\ phase = "status" => usbRx.token # "SETUP")'
                    BY <4>3
                <5>3. (Setting => usbMsg.flags = "USER_RW")'
                    BY <4>2
                <5>4. (Setting /\ request.value \in Refused => usbMsg.len = USB_NO_MSG /\ usbTx.answer # "data")'
                    BY <4>4
                <5>5. (Setting /\ request.value \in Refused /\ ReadyToTell => usbTx.answer = "STALL")'
                    BY <4>4
                <5>6. (Setting /\ request.value \notin Refused => usbTx.answer # "STALL")'
                    BY <4>3
                <5>7. (Setting /\ request.value \notin Refused /\ ReadyToTell =>
                       lineCoding = Coding(request.value))'
                    BY <4>4
                <5> QED
                    BY <5>1, <5>2, <5>3, <5>4, <5>5, <5>6, <5>7 DEF LineInv
        <3> QED
            BY <3>3, <3>4
    <2>7. CASE ~Setting
        BY <2>1, <2>5, <2>7 DEF LineInv, Setting, ReadyToTell
    <2> QED
        BY <2>6, <2>7
<1>3. CASE Build
    <2>1. UNCHANGED <<usbRx, lineCoding, phase, request>>
        BY <1>3 DEF Build, requestVars
    <2>2. usbMsg'.flags = usbMsg.flags
        <3> DEFINE rest == IF wantLen < 8 THEN USB_NO_MSG ELSE usbMsg.len - wantLen
                   next == usbMsg.at + wantLen
        <3>1. usbMsg' = usbMsg \/ usbMsg' = [usbMsg EXCEPT !.at = next, !.len = rest]
            BY <1>3 DEF Build
        <3> HIDE DEF rest, next
        <3> QED
            BY <1>c, <3>1 DEF Messages
    <2>3. usbMsg.len = USB_NO_MSG => UNCHANGED <<usbMsg, usbTx>>
        BY <1>3 DEF Build
    <2>4. usbTx' = usbTx \/ usbTx'.answer = "data"
        BY <1>3 DEF Build
    <2> QED
        BY <2>1, <2>2, <2>3, <2>4 DEF LineInv, Setting, ReadyToTell
<1>4. CASE NoPacket \/ Line \/ Notify \/ SetDtrPin \/ HostPolls3
    BY <1>4, <1>a DEF NoPacket, Line, Notify, SetDtrPin, HostPolls3, mainVars, requestVars
<1>5. CASE HostStarts
    BY <1>5 DEF LineInv, Setting, ReadyToTell, HostStarts, mainVars
<1>6. CASE HostSetup
    <2>1. usbRx'.token = "SETUP" /\ UNCHANGED <<lineCoding, request>>
        BY <1>6 DEF HostSetup, Store, mainVars
    <2>2. request.bRequest = "SET_LINE_CODING" => phase' # "status"
        BY <1>6, <1>b, RequestFacts DEF HostSetup, Store
    <2> QED
        BY <2>1, <2>2 DEF LineInv, Setting, ReadyToTell
<1>7. CASE HostWrites
    <2>1. usbRx'.token = "OUT" /\ usbRx.token = "none" /\ phase = "data" /\ phase' \in {"data", "status"}
        BY <1>7 DEF HostWrites, Store
    <2>2. UNCHANGED <<usbTx, usbMsg, lineCoding, request>>
        BY <1>7 DEF HostWrites, Store, mainVars
    <2> QED
        BY <2>1, <2>2 DEF LineInv, Setting, ReadyToTell
<1>8. CASE HostMisses
    <2>1. UNCHANGED <<usbRx, usbMsg, lineCoding, phase, request>> /\ usbTx.answer = "data"
          /\ usbTx'.answer = "NAK"
        BY <1>8 DEF HostMisses, Sends, Offered, mainVars, TypeInv, MessageType
    <2> QED
        BY <2>1 DEF LineInv, Setting, ReadyToTell
<1>9. CASE HostReads
    <2>1. DeviceToHost(request) /\ UNCHANGED <<request, lineCoding>>
        BY <1>9 DEF HostReads, Sends, mainVars
    <2> QED
        BY <2>1 DEF LineInv, Setting, ReadyToTell, DeviceToHost
<1>10. CASE HostReadsStatus \/ HostStalled \/ HostWritesStatus \/ ResetEnds
    BY <1>10 DEF LineInv, Setting, ReadyToTell, HostReadsStatus, HostStalled, HostWritesStatus,
                 ResetEnds, Completed, Sends, mainVars
<1>11. CASE HostResets \/ Begin
    BY <1>11 DEF LineInv, Setting, ReadyToTell, HostResets, Begin, BusReset
<1>12. CASE UNCHANGED vars
    BY <1>12, <1>a DEF vars, mainVars, requestVars
<1> QED
    BY <1>1, <1>2, <1>3, <1>4, <1>5, <1>6, <1>7, <1>8, <1>9, <1>10, <1>11, <1>12
    DEF Next, Main, Continues

\* What the host is told of the line coding it sets.
LineCodingStep ==
    request.bRequest = "SET_LINE_CODING" /\ phase # "idle" /\ phase' = "idle" =>
        IF outcome' = "stalled" THEN request.value \in Refused /\ baud \notin Refused \ {9600}
                                ELSE baud = request.value

LEMMA LineCodingTold == TypeInv /\ LineInv /\ [Next]_vars => [LineCodingStep]_vars
<1> SUFFICES ASSUME TypeInv, LineInv, Next,
                    request.bRequest = "SET_LINE_CODING", phase # "idle", phase' = "idle"
             PROVE  IF outcome' = "stalled"
                    THEN request.value \in Refused /\ baud \notin Refused \ {9600}
                    ELSE baud = request.value
    BY DEF LineCodingStep
<1>1. ~DeviceToHost(request) /\ phase # "reset"
    BY DEF DeviceToHost, TypeInv, Stages
<1>2. baud \notin Refused \ {9600}
    <2>1. PICK rate \in {9600} \cup (Rates \ Refused) : lineCoding = Coding(rate)
        BY DEF LineInv
    <2>2. baud = rate
        BY <2>1, RatesFit
    <2> QED
        BY <2>1, <2>2
<1>3. CASE HostStalled
    <2>1. phase = "status" /\ usbRx.token = "none" /\ usbTx.answer = "STALL" /\ outcome' = "stalled"
        BY <1>3 DEF HostStalled
    <2> QED
        BY <1>2, <2>1 DEF LineInv, Setting, ReadyToTell
<1>4. CASE HostReadsStatus
    <2>1. phase = "status" /\ usbRx.token = "none" /\ usbTx.answer = "data" /\ outcome' = "done"
        BY <1>4 DEF HostReadsStatus, Sends, Offered, Completed
    <2>2. lineCoding = Coding(request.value)
        BY <2>1 DEF LineInv, Setting, ReadyToTell
    <2>3. request \in Requests
        BY <2>1 DEF TypeInv, Stages
    <2>4. Fits(request.value)
        BY <2>3, RatesFit, RequestFacts
    <2> QED
        BY <2>1, <2>2, <2>4, RatesFit
<1>5. CASE HostWritesStatus \/ ResetEnds
    BY <1>1, <1>5 DEF HostWritesStatus, ResetEnds
<1>6. CASE Main \/ SetDtrPin \/ HostPolls3
    BY <1>6 DEF Main, ProcessSetup, ProcessData, NoPacket, Build, Line, Notify, SetDtrPin,
                HostPolls3, requestVars
<1>7. CASE HostSetup \/ HostWrites \/ HostMisses \/ HostReads
    BY <1>7 DEF HostSetup, HostWrites, Store, HostMisses, HostReads
<1>8. CASE HostStarts \/ HostResets \/ Begin
    BY <1>8 DEF HostStarts, HostResets, Begin, BusReset
<1> QED
    BY <1>3, <1>4, <1>5, <1>6, <1>7, <1>8 DEF Next, Continues

\* LineCodingSet: the host is told the truth about the line coding it set,
\* whichever requests it gave up and whichever packets were lost before.
THEOREM LineCorrect == Spec => LineCodingSet
<1>1. Init => TypeInv /\ LineInv
    BY TypeInit, LineInit
<1>2. TypeInv /\ LineInv /\ [Next]_vars => (TypeInv /\ LineInv)'
    BY TypeStep, LineStep
<1>3. Spec => [][LineCodingStep]_vars
    BY <1>1, <1>2, LineCodingTold, PTL DEF Spec
<1> QED
    BY <1>3 DEF LineCodingSet, LineCodingStep

-----------------------------------------------------------------------------
(* The tokens of endpoint 3.                                               *)

One(b) == IF b THEN 1 ELSE 0

\* The next packet will have the wrong token, or the one on offer has.
Mismatch ==
    IF usbTxStatus3.nak THEN usbTxStatus3.token = expected3 ELSE usbTxStatus3.token # expected3

\* The host drops a packet, and a second one only after another occasion.
Wrong == One(configured /\ Mismatch)

\* What a request that waits in usbRxBuf can still do: reset the device's token.
RxDebt == One(usbRx.token = "SETUP" /\ usbRx.request.bRequest \in Restarts)

\* What the host's request can still do: that, and reset the host's token.  The
\* host polls only when both are done, so that together they cost one packet.
HostDebt ==
    One(\/ phase = "setup" /\ request.bRequest \in Restarts
        \/ /\ phase = "status" /\ Restarts3(request) /\ usbRx.token # "SETUP"
           /\ ~(configured /\ Mismatch))

Debt == Wrong + RxDebt + HostDebt

DropInv == dropped3 + Debt <= restarts + lost

\* The parts of the debt are numbers.
LEMMA Debts ==
    TypeInv => /\ Wrong \in 0..1 /\ RxDebt \in 0..1 /\ HostDebt \in 0..1
               /\ dropped3 \in Nat /\ restarts \in Nat /\ lost \in Nat
BY DEF TypeInv, HostType, Wrong, One, RxDebt, HostDebt

LEMMA DropInit == Init => DropInv
<1> SUFFICES ASSUME Init PROVE DropInv
    OBVIOUS
<1>1. usbTxStatus3.nak = TRUE /\ usbTxStatus3.token = 1 /\ expected3 = 0
    BY DEF Init
<1>2. Wrong = 0
    BY <1>1 DEF Wrong, One, Mismatch
<1>3. RxDebt = 0 /\ HostDebt = 0
    BY DEF Init, RxFree, RxDebt, HostDebt, One
<1>4. dropped3 = 0 /\ restarts = 0 /\ lost = 0
    BY DEF Init
<1> QED
    BY <1>2, <1>3, <1>4 DEF DropInv, Debt

LEMMA DropStep == TypeInv /\ DropInv /\ [Next]_vars => DropInv'
<1> SUFFICES ASSUME TypeInv, DropInv, [Next]_vars PROVE DropInv'
    OBVIOUS
<1>a. /\ Wrong \in 0..1 /\ RxDebt \in 0..1 /\ HostDebt \in 0..1
      /\ dropped3 \in Nat /\ restarts \in Nat /\ lost \in Nat
    BY Debts
<1>b. Wrong' \in 0..1 /\ RxDebt' \in 0..1 /\ HostDebt' \in 0..1
    BY DEF Wrong, RxDebt, HostDebt, One
<1>i. PICK w \in 0..1, r \in 0..1, h \in 0..1 : Wrong' = w /\ RxDebt' = r /\ HostDebt' = h
    BY <1>b
<1>c. usbTxStatus3.token \in {0, 1} /\ expected3 \in {0, 1}
    BY DEF TypeInv, DeviceType, HostType
<1>d. dropped3 + Wrong + RxDebt + HostDebt <= restarts + lost
    BY <1>a DEF DropInv, Debt
\* A step that drops nothing, and owes no more than it adds.
<1>e. ASSUME dropped3' = dropped3, restarts' = restarts,
             \/ lost' = lost /\ Wrong' + RxDebt' + HostDebt' <= Wrong + RxDebt + HostDebt
             \/ lost' = lost + 1 /\ Wrong' + RxDebt' + HostDebt' <= Wrong + RxDebt + HostDebt + 1
      PROVE  DropInv'
    BY <1>a, <1>d, <1>e, <1>i DEF DropInv, Debt
<1>f. ASSUME UNCHANGED <<usbTxStatus3, expected3, configured>> PROVE Wrong' = Wrong
    BY <1>f DEF Wrong, One, Mismatch
<1>g. ASSUME usbRx' = usbRx PROVE RxDebt' = RxDebt
    BY <1>g DEF RxDebt, One
<1>h. ASSUME UNCHANGED <<usbRx, phase, request, usbTxStatus3, expected3, configured>>
      PROVE  HostDebt' = HostDebt
    BY <1>h DEF HostDebt, One, Mismatch
<1>1. CASE ProcessSetup
    <2> DEFINE b == usbRx.request.bRequest
    <2>1. /\ UNCHANGED <<phase, request, expected3, configured, dropped3, restarts, lost>>
          /\ usbRx.token = "SETUP" /\ usbRx'.token = "none"
          /\ b # "SET_INTERFACE" => usbTxStatus3' = usbTxStatus3
        BY <1>1 DEF ProcessSetup, RxFree, requestVars, notifiedVars, boundVars
    <2>2. RxDebt' = 0
        BY <2>1 DEF RxDebt, One
    <2>3. phase = "status" => usbRx.request = request
        BY <2>1 DEF TypeInv, Stages
    <2>4. CASE b \in Restarts
        <3>1. RxDebt = 1
            BY <2>1, <2>4 DEF RxDebt, One
        <3>2. Wrong' + HostDebt' <= Wrong + HostDebt + 1
            <4>1. CASE phase = "setup" /\ request.bRequest \in Restarts
                <5>1. HostDebt = 1
                    BY <4>1 DEF HostDebt, One
                <5> QED
                    BY <1>a, <1>i, <5>1
            <4>2. CASE ~(phase = "setup" /\ request.bRequest \in Restarts)
                <5>1. Wrong' = 1 => HostDebt' = 0
                    BY <2>1, <4>2 DEF Wrong, HostDebt, One, Mismatch
                <5> QED
                    BY <1>a, <1>i, <5>1
            <4> QED
                BY <4>1, <4>2
        <3> QED
            BY <1>a, <1>i, <1>e, <2>1, <2>2, <3>1, <3>2
    <2>5. CASE b \notin Restarts
        <3>1. Wrong' = Wrong
            BY <1>f, <2>1, <2>5 DEF Restarts
        <3>2. phase = "status" => ~Restarts3(request)
            BY <2>3, <2>5 DEF Restarts, Restarts3
        <3>3. HostDebt' = HostDebt
            BY <2>1, <3>2 DEF HostDebt, One
        <3> QED
            BY <1>a, <1>i, <1>e, <2>1, <2>2, <3>1, <3>3
    <2> QED
        BY <2>4, <2>5
<1>2. CASE ProcessData
    <2>1. /\ UNCHANGED <<phase, request, usbTxStatus3, expected3, configured, dropped3, restarts,
                         lost>>
          /\ usbRx.token = "OUT" /\ usbRx'.token = "none"
        BY <1>2 DEF ProcessData, RxFree, requestVars, notifiedVars, boundVars
    <2>2. HostDebt' = HostDebt /\ RxDebt' = 0 /\ Wrong' = Wrong
        BY <1>f, <2>1 DEF RxDebt, HostDebt, One, Mismatch
    <2> QED
        BY <1>a, <1>e, <2>1, <2>2
<1>3. CASE NoPacket \/ Build \/ Line \/ SetDtrPin \/ UNCHANGED vars
    <2>1. UNCHANGED <<usbRx, phase, request, usbTxStatus3, expected3, configured, dropped3, restarts,
                      lost>>
        BY <1>3 DEF NoPacket, Build, Line, SetDtrPin, mainVars, requestVars, notifiedVars, boundVars,
                    vars
    <2> QED
        BY <1>a, <1>e, <1>f, <1>g, <1>h, <2>1
<1>4. CASE Notify
    <2>1. UNCHANGED <<usbRx, phase, request, expected3, configured, dropped3, restarts, lost>>
        BY <1>4 DEF Notify, requestVars, notifiedVars, boundVars
    <2>2. Mismatch' <=> Mismatch
        <3>1. CASE usbTxStatus3.nak /\ ~usbTxStatus3'.nak
                   /\ usbTxStatus3'.token = 1 - usbTxStatus3.token
            BY <1>c, <2>1, <3>1 DEF Mismatch
        <3>2. CASE usbTxStatus3' = usbTxStatus3
            BY <2>1, <3>2 DEF Mismatch
        <3> QED
            BY <1>4, <3>1, <3>2 DEF Notify, usbInterruptIsReady3, usbSetInterrupt3, NextToken3
    <2>3. Wrong' = Wrong /\ HostDebt' = HostDebt
        BY <2>1, <2>2 DEF Wrong, HostDebt, One
    <2> QED
        BY <1>a, <1>e, <1>g, <2>1, <2>3
<1>5. CASE HostStarts
    <2>1. /\ UNCHANGED <<usbRx, usbTxStatus3, expected3, configured, dropped3, lost>>
          /\ phase' = "setup"
          /\ restarts' = IF request'.bRequest \in Restarts THEN restarts + 1 ELSE restarts
        BY <1>5 DEF HostStarts, mainVars, notifiedVars
    <2>2. Wrong' = Wrong /\ RxDebt' = RxDebt
        BY <1>f, <1>g, <2>1
    <2>3. CASE request'.bRequest \in Restarts
        BY <1>a, <1>d, <1>i, <2>1, <2>2, <2>3 DEF DropInv, Debt
    <2>4. CASE request'.bRequest \notin Restarts
        <3>1. HostDebt' = 0
            BY <2>1, <2>4 DEF HostDebt, One
        <3> QED
            BY <1>a, <1>d, <2>1, <2>2, <2>4, <3>1 DEF DropInv, Debt
    <2> QED
        BY <2>3, <2>4
<1>6. CASE HostSetup
    <2>1. /\ UNCHANGED <<request, usbTxStatus3, expected3, configured, dropped3, restarts>>
          /\ phase = "setup" /\ usbRx.token = "none"
          /\ usbRx'.token = "SETUP" /\ usbRx'.request = request
          /\ \/ phase' \in {"data", "status"} /\ lost' = lost
             \/ phase' = phase /\ lost' = lost + 1
        BY <1>6 DEF HostSetup, Store, Loses, mainVars, notifiedVars
    <2>2. RxDebt = 0 /\ Wrong' = Wrong /\ RxDebt' = One(request.bRequest \in Restarts)
        BY <1>f, <2>1 DEF RxDebt, One
    <2>3. HostDebt = One(request.bRequest \in Restarts)
        BY <2>1 DEF HostDebt, One
    <2>4. CASE phase' \in {"data", "status"} /\ lost' = lost
        <3>1. HostDebt' = 0
            BY <2>1, <2>4 DEF HostDebt, One
        <3> QED
            BY <1>a, <1>i, <1>e, <2>1, <2>2, <2>3, <2>4, <3>1
    <2>5. CASE phase' = phase /\ lost' = lost + 1
        <3>1. HostDebt' = HostDebt
            BY <2>1, <2>5 DEF HostDebt, One
        <3> QED
            BY <1>a, <1>i, <1>e, <2>1, <2>2, <2>5, <3>1
    <2> QED
        BY <2>1, <2>4, <2>5
<1>7. CASE HostWrites
    <2>1. /\ UNCHANGED <<request, usbTxStatus3, expected3, configured, dropped3, restarts>>
          /\ phase = "data" /\ phase' \in {"data", "status"} /\ ~DeviceToHost(request)
          /\ usbRx'.token = "OUT" /\ (lost' = lost \/ lost' = lost + 1)
        BY <1>7 DEF HostWrites, Store, Loses, mainVars, notifiedVars
    <2>2. request.bRequest = "SET_LINE_CODING"
        BY <2>1, RequestFacts DEF TypeInv, Stages
    <2>3. RxDebt' = 0 /\ HostDebt' = 0 /\ Wrong' = Wrong
        BY <1>f, <2>1, <2>2 DEF RxDebt, HostDebt, One, Restarts3
    <2> QED
        BY <1>a, <1>e, <2>1, <2>3
<1>8. CASE HostMisses \/ HostReads
    <2>1. /\ UNCHANGED <<usbRx, request, usbTxStatus3, expected3, configured, dropped3, restarts>>
          /\ phase' = phase \/ (phase = "data" /\ phase' = "status" /\ DeviceToHost(request))
             \/ (phase = "data" /\ phase' = "data")
          /\ lost' = lost \/ lost' = lost + 1
        BY <1>8 DEF HostMisses, HostReads, Sends, Loses, mainVars
    <2>2. HostDebt' = HostDebt
        BY <2>1 DEF HostDebt, One, Mismatch, DeviceToHost, Restarts3
    <2> QED
        BY <1>a, <1>e, <1>f, <1>g, <2>1, <2>2
<1>9. CASE HostReadsStatus \/ HostWritesStatus
    <2>1. /\ UNCHANGED <<usbRx, usbTxStatus3, dropped3, restarts, lost>>
          /\ phase = "status" /\ phase' = "idle" /\ usbRx.token = "none"
          /\ ~Restarts3(request) => UNCHANGED <<expected3, configured>>
        BY <1>9 DEF HostReadsStatus, HostWritesStatus, Completed, Sends, Offered, Restarts3,
                    mainVars, boundVars
    <2>2. RxDebt' = RxDebt /\ HostDebt' = 0
        BY <1>g, <2>1 DEF HostDebt, One
    <2>3. CASE Restarts3(request)
        <3>1. Wrong + HostDebt = 1
            BY <2>1, <2>3 DEF Wrong, HostDebt, One
        <3> QED
            BY <1>a, <1>i, <1>e, <2>1, <2>2, <3>1
    <2>4. CASE ~Restarts3(request)
        BY <1>a, <1>e, <1>f, <2>1, <2>2, <2>4
    <2> QED
        BY <2>3, <2>4
<1>10. CASE HostStalled \/ ResetEnds
    <2>1. /\ UNCHANGED <<usbRx, usbTxStatus3, expected3, configured, dropped3, restarts, lost>>
          /\ phase' = "idle"
        BY <1>10 DEF HostStalled, ResetEnds, mainVars, notifiedVars, boundVars
    <2>2. HostDebt' = 0
        BY <2>1 DEF HostDebt, One
    <2> QED
        BY <1>a, <1>e, <1>f, <1>g, <2>1, <2>2
<1>11. CASE HostPolls3
    <2>1. /\ UNCHANGED <<usbRx, phase, request, configured, restarts>>
          /\ configured /\ ~Restarting
          /\ usbTxStatus3.nak = FALSE /\ usbTxStatus3'.nak = TRUE
          /\ usbTxStatus3'.token = usbTxStatus3.token
        BY <1>11 DEF HostPolls3, mainVars, requestVars, TypeInv, DeviceType
    <2>2. HostDebt' = HostDebt /\ RxDebt' = RxDebt
        BY <1>g, <2>1 DEF HostDebt, One, Restarting
    <2>3. CASE usbTxStatus3.token = expected3 /\ expected3' = 1 - expected3
               /\ dropped3' = dropped3 /\ lost' = lost
        <3>1. Wrong' = 0
            BY <1>c, <2>1, <2>3 DEF Wrong, One, Mismatch
        <3> QED
            BY <1>a, <1>e, <2>1, <2>2, <2>3, <3>1
    <2>4. CASE usbTxStatus3.token # expected3 /\ expected3' = expected3
               /\ dropped3' = dropped3 + 1 /\ lost' = lost
        <3>1. Wrong = 1 /\ Wrong' = 0
            BY <1>c, <2>1, <2>4 DEF Wrong, One, Mismatch
        <3> QED
            BY <1>a, <1>d, <2>1, <2>2, <2>4, <3>1 DEF DropInv, Debt
    <2>5. CASE lost' = lost + 1 /\ dropped3' = dropped3
        BY <1>a, <1>i, <1>e, <2>1, <2>2, <2>5
    <2> QED
        BY <1>11, <2>3, <2>4, <2>5 DEF HostPolls3, Loses, notifiedVars
<1>12. CASE HostResets \/ Begin
    <2>1. /\ UNCHANGED <<usbRx, dropped3, restarts, lost>>
          /\ phase' = "reset" /\ configured' = FALSE
        BY <1>12 DEF HostResets, Begin, BusReset
    <2>2. HostDebt' = 0 /\ Wrong' = 0 /\ RxDebt' = RxDebt
        BY <1>g, <2>1 DEF HostDebt, Wrong, One
    <2> QED
        BY <1>a, <1>e, <2>1, <2>2
<1> QED
    BY <1>1, <1>2, <1>3, <1>4, <1>5, <1>6, <1>7, <1>8, <1>9, <1>10, <1>11, <1>12
    DEF Next, Main, Continues

\* DroppedBounded: the tokens of endpoint 3 recover by themselves; no more
\* packets are dropped than SET_CONFIGURATION, SET_INTERFACE and losses put them
\* out of step.
THEOREM DroppedCorrect == Spec => []DroppedBounded
<1>1. TypeInv /\ DropInv => DroppedBounded
    <2> SUFFICES ASSUME TypeInv, DropInv PROVE DroppedBounded
        OBVIOUS
    <2>1. /\ Wrong \in 0..1 /\ RxDebt \in 0..1 /\ HostDebt \in 0..1
          /\ dropped3 \in Nat /\ restarts \in Nat /\ lost \in Nat
        BY Debts
    <2> QED
        BY <2>1 DEF DropInv, Debt, DroppedBounded
<1>2. Init => TypeInv /\ DropInv
    BY TypeInit, DropInit
<1>3. TypeInv /\ DropInv /\ [Next]_vars => (TypeInv /\ DropInv)'
    BY TypeStep, DropStep
<1> QED
    BY <1>1, <1>2, <1>3, PTL DEF Spec
=============================================================================
