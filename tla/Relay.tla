------------------------------- MODULE Relay -------------------------------
(***************************************************************************)
(* What a relay between two peers promises: what one sends reaches the     *)
(* other in order, nothing twice and nothing in between left out, until    *)
(* the relay gives up both connections.                                    *)
(***************************************************************************)
EXTENDS Sequences, Naturals

CONSTANTS Side, Byte

VARIABLES
    queue,      \* queue[s]: what s has sent and the other side has not received
    got,        \* got[s]: what the other side has received from s
    closed

Init == queue = [s \in Side |-> <<>>] /\ got = queue /\ closed = FALSE

Send(s) ==
    /\ \E b \in Byte : queue' = [queue EXCEPT ![s] = Append(@, b)]
    /\ UNCHANGED <<got, closed>>

Deliver(s, n) ==
    /\ got' = [got EXCEPT ![s] = @ \o SubSeq(queue[s], 1, n)]
    /\ queue' = [queue EXCEPT ![s] = SubSeq(@, n + 1, Len(@))]
    /\ closed' \in {closed, TRUE}

Close == closed' = TRUE /\ UNCHANGED <<queue, got>>

Next ==
    /\ ~ closed
    /\ \/ Close
       \/ \E s \in Side : Send(s) \/ \E n \in 1..Len(queue[s]) : Deliver(s, n)

Spec == Init /\ [][Next]_<<queue, got, closed>>
=============================================================================
