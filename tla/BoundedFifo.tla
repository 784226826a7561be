---------------------------- MODULE BoundedFifo ----------------------------
(***************************************************************************)
(* What a byte buffer promises its user, with no trace of how it stores    *)
(* the bytes: a queue of at most Capacity values, and a port that shows    *)
(* the last operation together with the value that went in or came out.    *)
(***************************************************************************)
EXTENDS Naturals, Sequences

CONSTANTS Capacity, Value

VARIABLES queue, port

vars == <<queue, port>>

Idle == <<"idle">>

Init == queue = <<>> /\ port = Idle

Put(v) ==
    /\ Len(queue) < Capacity
    /\ queue' = Append(queue, v)
    /\ port' = <<"put", v>>

Take ==
    /\ queue # <<>>
    /\ port' = <<"take", Head(queue)>>
    /\ queue' = Tail(queue)

Clear == queue' = <<>> /\ port' = Idle

Next == (\E v \in Value : Put(v)) \/ Take \/ Clear

Spec == Init /\ [][Next]_vars
=============================================================================
