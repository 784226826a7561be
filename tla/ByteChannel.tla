---------------------------- MODULE ByteChannel ----------------------------
(***************************************************************************)
(* What each direction of the serial port promises: a channel that holds   *)
(* at most Capacity bytes, delivers them in the order they were accepted,  *)
(* and neither loses, repeats nor invents any.  transit is what the        *)
(* channel holds, oldest byte first, and delivered everything it has       *)
(* handed over.  Only a break, which breaks counts, may drop bytes: it     *)
(* keeps a run of those in transit.                                        *)
(***************************************************************************)
EXTENDS Naturals, Sequences

CONSTANT Capacity

VARIABLES transit, delivered, breaks

vars == <<transit, delivered, breaks>>

Init == transit = <<>> /\ delivered = <<>> /\ breaks = 0

\* Bytes enter at the end of those in transit.
Accept ==
    /\ Len(transit) < Len(transit')
    /\ Len(transit') <= Capacity
    /\ SubSeq(transit', 1, Len(transit)) = transit
    /\ UNCHANGED <<delivered, breaks>>

\* Bytes move from the front of those in transit to the end of the delivered.
Deliver ==
    /\ Len(transit') < Len(transit)
    /\ delivered' \o transit' = delivered \o transit
    /\ UNCHANGED breaks

\* The port is opened or closed, or a packet is lost on the bus.
Break ==
    /\ breaks' = breaks + 1
    /\ \E m, n \in 0..Len(transit) : transit' = SubSeq(transit, m + 1, n)
    /\ UNCHANGED delivered

Next == Accept \/ Deliver \/ Break

Spec == Init /\ [][Next]_vars
=============================================================================
