----------------------------- MODULE StatusRead -----------------------------
(***************************************************************************)
(* The 0xAC status read of a device whose link is up: status_burst         *)
(* (devices/_readback.py) polls through the query of the connection        *)
(* (transport/connection.py), which drains the receive queue, sends the    *)
(* request and feeds what arrives to a BurstAssembler until the burst is   *)
(* whole, has failed, or nothing comes any more.  The device answers with  *)
(* a burst that travels behind everything it sent before; the radio may    *)
(* lose a chunk, deliver one twice and be as slow as it likes, so chunks   *)
(* of an earlier reply arrive in the middle of a later read.               *)
(*                                                                         *)
(* Time is left out: a read may give up whenever the queue is empty, which *)
(* is what both the idle gap and the timeout of the query do.              *)
(***************************************************************************)
EXTENDS BurstAssembler, RxBuffer, FiniteSets

CONSTANTS
    MaxQueries,     \* bound: requests sent
    MaxPackets      \* the packets of a reply

ASSUME StatusReadAssumption ==
    /\ MaxQueries \in Nat
    /\ MaxPackets \in 1 .. EndTag

VARIABLES
    phase,      \* the poll: "idle", "reading" (in query), "ended" (query returned)
    attempt,    \* status_burst's query: 1, or 2 for the retry
    queries,    \* requests sent; also the number of the reply asked for
    air,        \* what the device has sent and the radio not delivered, in order
    rx,         \* _rx of the connection
    heard,      \* frames: the chunks this query has received
    damaged,    \* history: the replies of which the radio or the queue lost a chunk
    lateHeads   \* history: first chunks in the air when the request went out

history == <<damaged, lateHeads>>
vars == <<assembler, phase, attempt, queries, air, rx, heard, history>>

Reply == 0 .. MaxQueries
Chunk == [index : 0 .. EndTag, packets : Nat, fits : BOOLEAN, asked : BOOLEAN, reply : Reply]

\* A reply of n packets; "tagged" devices end it with the end tag.
Burst(n, fits, asked, tagged, r) ==
    [i \in 1 .. n |->
        [index   |-> IF i = n /\ i > 1 /\ tagged THEN EndTag ELSE i - 1,
         packets |-> n, fits |-> fits, asked |-> asked, reply |-> r]]

Init ==
    /\ Empty
    /\ phase = "idle" /\ attempt = 1 /\ queries = 0
    /\ air = <<>> /\ rx = <<>>
    /\ heard = {} /\ damaged = {} /\ lateHeads = {}

\* The device's answer: a burst, a packet whose lastLen does not fit or that echoes
\* another command, or nothing.
Answers(r) ==
    \/ UNCHANGED air
    \/ \E n \in 1 .. MaxPackets, tagged \in BOOLEAN :
          air' = air \o Burst(n, TRUE, TRUE, tagged, r)
    \/ \E fits, asked \in BOOLEAN :
          /\ ~(fits /\ asked)
          /\ air' = air \o Burst(1, fits, asked, FALSE, r)

\* Fault: what is queued is kept.
DrainNothing == UNCHANGED rx

\* _drain.
Drain == rx' = <<>>

\* query: drain, then send the request.
Ask ==
    /\ queries < MaxQueries
    /\ phase' = "reading"
    /\ queries' = queries + 1
    /\ Renew
    /\ Drain
    /\ heard' = {}
    /\ lateHeads' = {air[i] : i \in {j \in 1 .. Len(air) : air[j].index = 0}}
    /\ Answers(queries')
    /\ UNCHANGED damaged

Poll == phase = "idle" /\ attempt' = 1 /\ Ask

\* The reply gave no power state: one more query.
Retry == phase = "ended" /\ attempt = 1 /\ attempt' = 2 /\ Ask

\* A complete reply may be usable; anything else needs the retry first.  The
\* assembler and the frames are gone with the call.
PollEnds ==
    /\ phase = "ended"
    /\ status = "complete" \/ attempt = 2
    /\ phase' = "idle"
    /\ Renew /\ heard' = {} /\ lateHeads' = {}
    /\ UNCHANGED <<attempt, queries, air, rx, damaged>>

\* The loop of query: one frame is fed; the read ends with the burst.
Receive ==
    /\ phase = "reading" /\ rx # <<>>
    /\ Feed(Head(rx))
    /\ rx' = Tail(rx)
    /\ heard' = heard \cup {Head(rx)}
    /\ phase' = IF status' = "waiting" THEN phase ELSE "ended"
    /\ UNCHANGED <<attempt, queries, air, history>>

\* A queued frame is still collected when the time is up.
GiveUp ==
    /\ phase = "reading" /\ rx = <<>>
    /\ phase' = "ended"
    /\ UNCHANGED <<assembler, attempt, queries, air, rx, heard, history>>

-----------------------------------------------------------------------------
(* The radio.                                                              *)

readerVars == <<assembler, phase, attempt, queries, heard, lateHeads>>

\* What the full queue evicts when a chunk is queued.
Evicted ==
    {rx[i].reply : i \in {j \in 1 .. Len(rx) : Len(rx) >= RxMax /\ IsOldestFrame(rx, j)}}

Queues(c) ==
    /\ rx' = Enqueued(rx, c)
    /\ damaged' = damaged \cup Evicted
    /\ UNCHANGED readerVars

Arrive == air # <<>> /\ air' = Tail(air) /\ Queues(Head(air))

ArriveTwice == air # <<>> /\ UNCHANGED air /\ Queues(Head(air))

Lose ==
    /\ air # <<>>
    /\ air' = Tail(air)
    /\ damaged' = damaged \cup {Head(air).reply}
    /\ UNCHANGED <<readerVars, rx>>

Next ==
    \/ Poll \/ Retry \/ PollEnds \/ Receive \/ GiveUp
    \/ Arrive \/ ArriveTwice \/ Lose

Spec == Init /\ [][Next]_vars

-----------------------------------------------------------------------------
(* What the read guarantees.                                               *)

AssemblerTyped ==
    /\ status \in {"waiting", "complete", "failed"}
    /\ backPos \in Nat
    /\ total \in Nat \cup {-1}
    /\ chunks \in Seq(Chunk)

ReadTyped ==
    /\ phase \in {"idle", "reading", "ended"}
    /\ attempt \in {1, 2}
    /\ queries \in Reply
    /\ air \in Seq(Chunk)
    /\ rx \in Seq(Chunk) /\ Len(rx) <= RxMax
    /\ heard \subseteq Chunk
    /\ damaged \subseteq Reply /\ lateHeads \subseteq Chunk

\* Every variable keeps its kind of value, and the queue its bound (_enqueue).
TypeOK == AssemblerTyped /\ ReadTyped

\* This query received a first chunk that was on its way when the request went
\* out: the start of an earlier reply.
LateHead == heard \cap lateHeads # {}

\* Whatever is lost, repeated, late or left in the queue: unless the start of an
\* earlier reply was still in the air at the request and is received, a complete
\* burst is the reply to this very request, all of it (_drain in query, the
\* in-order rule of feed).
OwnUnlessLateHead ==
    status = "complete" /\ ~LateHead =>
        \A i \in 1 .. Len(chunks) : chunks[i].reply = queries

\* A burst spliced from two replies needs a lost chunk of the one it began with:
\* lateness and repetition alone never mix them.
SpliceNeedsLoss ==
    \A i \in 1 .. Len(chunks) :
        chunks[i].reply # chunks[1].reply => chunks[1].reply \in damaged

\* The whole of a good reply to the request in hand was received.
OwnReplyHeard ==
    \E n \in 1 .. MaxPackets, tagged \in BOOLEAN :
        \A i \in 1 .. n : Burst(n, TRUE, TRUE, tagged, queries)[i] \in heard

\* The retry's promise (status_burst: "a new burst is independent"): a read that
\* heard all of its own reply does not come back empty because of what was left
\* over from before, short of a late first chunk.
OwnReplySuffices ==
    phase = "ended" /\ OwnReplyHeard /\ ~LateHead => status = "complete"

\* What parse_status decodes of the burst.
Handed == IF status = "complete" THEN chunks ELSE <<>>

InOrder == INSTANCE InOrderBurst WITH outcome <- status, reply <- Handed

\* The assembler hands over whole replies in order, or nothing.
AssemblesWholeReplies == InOrder!Spec
=============================================================================
