------------------------------ MODULE RxBuffer ------------------------------
(***************************************************************************)
(* The bounded receive queue of a GoveeConnection (transport/connection.py *)
(* _enqueue, _drain, _next_rx) as operators on sequences: the notify pump  *)
(* appends frames, the disconnect callback appends the link-lost sentinel, *)
(* an operation takes from the front.  An item is a record; the sentinel   *)
(* None of the code is Lost.                                               *)
(***************************************************************************)
EXTENDS Naturals, Sequences

CONSTANT RxMax      \* _RX_QUEUE_MAX: frames are evicted from this length on

ASSUME RxMaxAssumption == RxMax \in Nat \ {0}

Lost == [kind |-> "lost", link |-> 0]

Without(q, i) == SubSeq(q, 1, i - 1) \o SubSeq(q, i + 1, Len(q))

\* The first queued frame, if there is one: the eviction skips the sentinel.
IsOldestFrame(q, i) ==
    /\ i \in 1 .. Len(q)
    /\ q[i] # Lost
    /\ \A j \in 1 .. (i - 1) : q[j] = Lost

DropOldestFrame(q) ==
    IF \E i \in 1 .. Len(q) : q[i] # Lost
    THEN Without(q, CHOOSE i \in 1 .. Len(q) : IsOldestFrame(q, i))
    ELSE q

\* Fault: the queue grows with the notifications.
EnqueuedUnbounded(q, item) == Append(q, item)

\* _enqueue: a frame that finds the queue full evicts the oldest frame; the
\* sentinel is appended whatever the length.
Enqueued(q, item) ==
    Append(IF item # Lost /\ Len(q) >= RxMax THEN DropOldestFrame(q) ELSE q, item)

Sentinels(q) == {i \in 1 .. Len(q) : q[i] = Lost}
=============================================================================
