-------------------------- MODULE Connection_proofs --------------------------
(***************************************************************************)
(* Connection for every number of callers, links, attempts and every queue *)
(* bound: its types, the invariants that keep links and teardowns from     *)
(* leaking and waiters from sleeping on a dead link, and, on top of those, *)
(* what an operation gets: replies from its own link, a bounded number of  *)
(* copies, a session that was set up for the link it is used on.           *)
(***************************************************************************)
EXTENDS Connection, FiniteSetTheorems, SequenceTheorems, WellFoundedInduction, TLAPS

-----------------------------------------------------------------------------
(* What _enqueue does to the receive queue, for every queue and length: it *)
(* stays a sequence, it evicts one frame when it is full and never the     *)
(* link-lost sentinel, and the sentinel is always taken in.                *)

\* Removing one item leaves the others, in their order.
LEMMA WithoutProperties ==
    ASSUME NEW S, NEW q \in Seq(S), NEW i \in 1 .. Len(q)
    PROVE  /\ Without(q, i) \in Seq(S)
           /\ Len(Without(q, i)) = Len(q) - 1
           /\ \A j \in 1 .. (i - 1) : Without(q, i)[j] = q[j]
           /\ \A j \in i .. (Len(q) - 1) : Without(q, i)[j] = q[j + 1]
<1> DEFINE front == SubSeq(q, 1, i - 1)
           back == SubSeq(q, i + 1, Len(q))
<1>1. /\ front \in Seq(S) /\ Len(front) = i - 1
      /\ \A j \in 1 .. (i - 1) : front[j] = q[j]
  OBVIOUS
<1>2. /\ back \in Seq(S) /\ Len(back) = Len(q) - i
      /\ \A j \in 1 .. (Len(q) - i) : back[j] = q[i + j]
  OBVIOUS
<1> HIDE DEF front, back
<1>3. /\ front \o back \in Seq(S) /\ Len(front \o back) = Len(q) - 1
      /\ \A j \in 1 .. (Len(q) - 1) :
            (front \o back)[j] = IF j <= i - 1 THEN front[j] ELSE back[j - (i - 1)]
  BY <1>1, <1>2, ConcatProperties
<1>4. \A j \in 1 .. (i - 1) : (front \o back)[j] = q[j]
  BY <1>1, <1>3
<1>5. \A j \in i .. (Len(q) - 1) : (front \o back)[j] = q[j + 1]
  <2> TAKE j \in i .. (Len(q) - 1)
  <2>1. (front \o back)[j] = back[j - (i - 1)]
    BY <1>3
  <2>2. j - (i - 1) \in 1 .. (Len(q) - i) /\ i + (j - (i - 1)) = j + 1
    OBVIOUS
  <2> QED
    BY <1>2, <2>1, <2>2
<1> QED
  BY <1>3, <1>4, <1>5 DEF Without, front, back

\* A queue with a frame has an oldest one.
LEMMA OldestFrameExists ==
    ASSUME NEW S, NEW q \in Seq(S), \E i \in 1 .. Len(q) : q[i] # Lost
    PROVE  \E i \in 1 .. Len(q) : IsOldestFrame(q, i)
<1> DEFINE T == {i \in 1 .. Len(q) : q[i] # Lost}
<1>1. T \subseteq Nat /\ T # {}
  OBVIOUS
<1>2. PICK i \in T : \A j \in T : <<j, i>> \notin OpToRel(<, Nat)
  BY <1>1, NatLessThanWellFounded, WFMin
<1>3. \A j \in T : ~(j < i)
  BY <1>1, <1>2 DEF OpToRel
<1> QED
  BY <1>3 DEF IsOldestFrame

\* Eviction takes one frame and leaves every sentinel.
LEMMA DropOldestFrameProperties ==
    ASSUME NEW S, NEW q \in Seq(S)
    PROVE  /\ DropOldestFrame(q) \in Seq(S)
           /\ (\E i \in 1 .. Len(q) : q[i] # Lost) => Len(DropOldestFrame(q)) = Len(q) - 1
           /\ Len(DropOldestFrame(q)) <= Len(q)
           /\ (\E i \in 1 .. Len(q) : q[i] = Lost)
                => \E i \in 1 .. Len(DropOldestFrame(q)) : DropOldestFrame(q)[i] = Lost
           /\ \A i \in 1 .. Len(DropOldestFrame(q)) :
                 \E j \in 1 .. Len(q) : DropOldestFrame(q)[i] = q[j]
<1>1. CASE \A i \in 1 .. Len(q) : q[i] = Lost
  <2>1. DropOldestFrame(q) = q
    BY <1>1 DEF DropOldestFrame
  <2> QED
    BY <1>1, <2>1
<1>2. CASE \E i \in 1 .. Len(q) : q[i] # Lost
  <2> DEFINE k == CHOOSE i \in 1 .. Len(q) : IsOldestFrame(q, i)
  <2>1. k \in 1 .. Len(q) /\ q[k] # Lost
    BY <1>2, OldestFrameExists DEF IsOldestFrame
  <2>2. DropOldestFrame(q) = Without(q, k)
    BY <1>2 DEF DropOldestFrame
  <2> HIDE DEF k
  <2> DEFINE w == Without(q, k)
  <2>3. /\ w \in Seq(S) /\ Len(w) = Len(q) - 1
        /\ \A j \in 1 .. (k - 1) : w[j] = q[j]
        /\ \A j \in k .. (Len(q) - 1) : w[j] = q[j + 1]
    BY <2>1, WithoutProperties
  <2> HIDE DEF w
  <2>4. ASSUME NEW i \in 1 .. Len(q), q[i] = Lost
        PROVE  \E j \in 1 .. Len(w) : w[j] = Lost
    <3>1. CASE i < k
      BY <2>1, <2>3, <2>4, <3>1
    <3>2. CASE i > k
      <4>1. i - 1 \in k .. (Len(q) - 1) /\ (i - 1) + 1 = i
        BY <2>1, <2>4, <3>2
      <4>2. w[i - 1] = Lost
        BY <2>3, <2>4, <4>1
      <4>3. i - 1 \in 1 .. Len(w)
        BY <2>1, <2>3, <2>4, <3>2
      <4> QED
        BY <4>2, <4>3
    <3> QED
      BY <2>1, <2>4, <3>1, <3>2
  <2>5. ASSUME NEW i \in 1 .. Len(w)
        PROVE  \E j \in 1 .. Len(q) : w[i] = q[j]
    <3>1. CASE i < k
      BY <2>1, <2>3, <3>1
    <3>2. CASE i >= k
      BY <2>1, <2>3, <3>2
    <3> QED
      BY <2>1, <2>3, <3>1, <3>2
  <2> QED
    BY <1>2, <2>2, <2>3, <2>4, <2>5 DEF w
<1> QED
  BY <1>1, <1>2

\* _enqueue keeps a waiter's wake-up: the sentinel goes in whatever the
\* length, and one that is queued is never evicted.
THEOREM EnqueueKeepsSentinel ==
    ASSUME NEW S, Lost \in S, NEW q \in Seq(S), NEW item \in S,
           item = Lost \/ \E i \in 1 .. Len(q) : q[i] = Lost
    PROVE  \E i \in 1 .. Len(Enqueued(q, item)) : Enqueued(q, item)[i] = Lost
<1> DEFINE p == IF item # Lost /\ Len(q) >= RxMax THEN DropOldestFrame(q) ELSE q
<1>1. p \in Seq(S)
  BY DropOldestFrameProperties
<1>2. (\E i \in 1 .. Len(q) : q[i] = Lost) => \E i \in 1 .. Len(p) : p[i] = Lost
  BY DropOldestFrameProperties
<1>3. Enqueued(q, item) = Append(p, item)
  BY DEF Enqueued
<1> HIDE DEF p
<1> QED
  BY <1>1, <1>2, <1>3, AppendProperties

\* _enqueue bounds the queue: a queue of frames never outgrows _RX_QUEUE_MAX,
\* and the sentinel adds one item at most.
THEOREM EnqueueBounded ==
    ASSUME NEW S, NEW q \in Seq(S), NEW item \in S,
           Len(q) <= RxMax, \A i \in 1 .. Len(q) : q[i] # Lost
    PROVE  /\ Enqueued(q, item) \in Seq(S)
           /\ Len(Enqueued(q, item)) <= RxMax + 1
           /\ item # Lost => /\ Len(Enqueued(q, item)) <= RxMax
                             /\ \A i \in 1 .. Len(Enqueued(q, item)) : Enqueued(q, item)[i] # Lost
<1> DEFINE p == IF item # Lost /\ Len(q) >= RxMax THEN DropOldestFrame(q) ELSE q
<1>1. p \in Seq(S) /\ Len(p) <= RxMax
  BY DropOldestFrameProperties, RxMaxAssumption
<1>2. item # Lost => Len(p) <= RxMax - 1
  <2>1. CASE item # Lost /\ Len(q) >= RxMax
    <3>1. Len(q) = RxMax /\ 1 \in 1 .. Len(q) /\ q[1] # Lost
      BY <2>1, RxMaxAssumption
    <3>2. Len(DropOldestFrame(q)) = Len(q) - 1
      BY <3>1, DropOldestFrameProperties
    <3> QED
      BY <2>1, <3>1, <3>2, RxMaxAssumption
  <2>2. CASE item # Lost /\ ~(Len(q) >= RxMax)
    BY <2>2, RxMaxAssumption
  <2> QED
    BY <2>1, <2>2
<1>3. \A i \in 1 .. Len(p) : p[i] # Lost
  BY DropOldestFrameProperties
<1>4. Enqueued(q, item) = Append(p, item)
  BY DEF Enqueued
<1> HIDE DEF p
<1> DEFINE a == Append(p, item)
<1>5. /\ a \in Seq(S) /\ Len(a) = Len(p) + 1
      /\ \A i \in 1 .. Len(p) : a[i] = p[i]
      /\ a[Len(p) + 1] = item
  BY <1>1, AppendProperties
<1> HIDE DEF a
<1>6. item # Lost => \A i \in 1 .. Len(a) : a[i] # Lost
  BY <1>1, <1>3, <1>5
<1> QED
  BY <1>1, <1>2, <1>4, <1>5, <1>6, RxMaxAssumption DEF a

-----------------------------------------------------------------------------
(* The connection.                                                         *)

\* The lock's holder heads its queue and is the one running.
HolderRuns == at # "free" => lockQ # <<>> /\ status[Holder] = "running"

\* Links are numbered as they come up; one whose callback is due is down.
LinksNumbered == \A l \in LinkNo : l > links => phys[l] # "up" /\ l \notin due
DueAreDown == \A l \in due : phys[l] = "down"

\* The client is only replaced when its link is down.
NoLinkAtEstablish == at = "establish" => ~Connected(client)

TeardownHasLink == at = "teardown" => op.waits # 0

\* The sentinel is only queued while there is no client.
SentinelMeansNoClient ==
    client # 0 => Len(rx) <= RxMax /\ \A i \in 1 .. Len(rx) : rx[i] # Lost

\* The inductive invariant, by the state its parts are about: the calls and
\* the lock, what the holder's blocks write, the radio, the receive queue.
CallsInv == CallsTyped /\ HolderRuns
BlockInv == HolderTyped /\ NoLinkAtEstablish /\ TeardownHasLink /\ NoOrphanLink /\ TeardownsBounded
RadioInv == RadioTyped /\ LinksNumbered /\ DueAreDown
QueueInv == QueueTyped /\ SentinelMeansNoClient /\ LostLinkWakesWaiter

IInv == CallsInv /\ BlockInv /\ RadioInv /\ SessionTyped /\ QueueInv

\* A block may start a teardown: the one it leaves behind must be recorded.
BlockMayRun ==
    /\ BlockInv
    /\ phys' = phys /\ recorded \subseteq recorded'
    /\ at = "teardown" => op.waits \in recorded' \/ td[op.waits] # "running"

\* Where a block ends, and what none of them touches.
BlockEnds ==
    /\ at' \in Afters \cup {"teardown", "finish"} /\ client' \in {0, client}
    /\ op'.sent = op.sent /\ op'.heard = op.heard

-----------------------------------------------------------------------------
(* The blocks of the holder's synchronous code.                            *)

LEMMA TearDownBlock ==
    ASSUME BlockMayRun, NEW next \in Afters, NEW e \in Exceptions, TearDown(next, e)
    PROVE  BlockInv' /\ BlockEnds
<1> USE DEF BlockMayRun, BlockInv
<1>1. op' \in OpType /\ op'.sent = op.sent /\ op'.heard = op.heard /\ op'.waits = client
  BY DEF TearDown, OpType, HolderTyped
<1>2. at' \in Afters \cup {"teardown"} /\ (at' = "teardown" => client # 0)
  BY DEF TearDown, Afters
<1>3. client' = 0 /\ key' = 0 /\ ready' = FALSE
  BY DEF TearDown
<1>4. td' = IF client = 0 THEN td ELSE [td EXCEPT ![client] = "running"]
  BY DEF TearDown
<1>5. HolderTyped'
  BY <1>1, <1>2, <1>3, <1>4 DEF HolderTyped, Awaits, Running, Afters, LinkNo
<1>6. NoLinkAtEstablish' /\ TeardownHasLink'
  BY <1>1, <1>2 DEF NoLinkAtEstablish, TeardownHasLink, Afters
<1>7. NoOrphanLink'
  BY <1>3, <1>4 DEF NoOrphanLink, HolderTyped
<1>8. TeardownsBounded'
  <2> SUFFICES ASSUME NEW l \in LinkNo, td'[l] = "running"
               PROVE  l \in recorded' \/ (at' = "teardown" /\ op'.waits = l)
    BY DEF TeardownsBounded
  <2>1. CASE l = client
    BY <1>1, <2>1 DEF TearDown, LinkNo
  <2>2. CASE l # client
    BY <1>4, <2>2 DEF TeardownsBounded, HolderTyped
  <2> QED
    BY <2>1, <2>2
<1> QED
  BY <1>1, <1>2, <1>3, <1>5, <1>6, <1>7, <1>8 DEF BlockEnds

LEMMA HandleBlock ==
    ASSUME BlockMayRun, NEW e \in Exceptions, Handle(e)
    PROVE  BlockInv' /\ BlockEnds
<1>1. CASE e \in {"deadline", "io"}
  BY <1>1, TearDownBlock DEF Handle, Afters
<1>2. CASE e \notin {"deadline", "io"}
  <2> USE DEF BlockMayRun, BlockInv
  <2>1. /\ op' \in OpType /\ op'.sent = op.sent /\ op'.heard = op.heard
        /\ at' = "end" /\ UNCHANGED <<client, ready, key, td>>
    BY <1>2 DEF Handle, OpType, HolderTyped, linkVars
  <2>2. HolderTyped' /\ NoLinkAtEstablish' /\ TeardownHasLink' /\ NoOrphanLink'
    BY <2>1 DEF HolderTyped, NoLinkAtEstablish, TeardownHasLink, NoOrphanLink, Running
  <2>3. TeardownsBounded'
    BY <2>1 DEF TeardownsBounded
  <2> QED
    BY <2>1, <2>2, <2>3 DEF BlockEnds, Afters
<1> QED
  BY <1>1, <1>2

LEMMA LeaveBlock ==
    ASSUME BlockMayRun, NEW e \in Exceptions, Leave(e)
    PROVE  BlockInv' /\ BlockEnds
  BY TearDownBlock, HandleBlock DEF Leave, Afters

LEMMA ConnectFailsBlock ==
    ASSUME BlockMayRun, NEW e \in Exceptions, ConnectFails(e)
    PROVE  BlockInv' /\ BlockEnds
  BY TearDownBlock DEF ConnectFails, Afters, Exceptions

LEMMA TalkFailsBlock ==
    ASSUME BlockMayRun, NEW e \in Exceptions, TalkFails(e)
    PROVE  BlockInv' /\ BlockEnds
  BY TearDownBlock, LeaveBlock DEF TalkFails, Afters

LEMMA LeaveConnectBlock ==
    ASSUME BlockMayRun, NEW e \in Exceptions, LeaveConnect(e)
    PROVE  BlockInv' /\ BlockEnds
<1>1. CASE e = "limit"
  <2> USE DEF BlockMayRun, BlockInv
  <2>1. /\ op' \in OpType /\ op'.sent = op.sent /\ op'.heard = op.heard
        /\ at' = "finish" /\ UNCHANGED <<client, ready, key, td>>
    BY <1>1 DEF LeaveConnect, OpType, HolderTyped, linkVars
  <2>2. HolderTyped' /\ NoLinkAtEstablish' /\ TeardownHasLink' /\ NoOrphanLink'
    BY <2>1 DEF HolderTyped, NoLinkAtEstablish, TeardownHasLink, NoOrphanLink, Awaits
  <2>3. TeardownsBounded'
    BY <2>1 DEF TeardownsBounded
  <2> QED
    BY <2>1, <2>2, <2>3 DEF BlockEnds, Afters
<1>2. CASE e # "limit"
  BY <1>2, LeaveBlock DEF LeaveConnect
<1> QED
  BY <1>1, <1>2

-----------------------------------------------------------------------------
(* What a step of the holder leaves alone.                                 *)

Places == Awaits \cup Running \cup {"free"}

\* A step of the holder that ends no call and leaves the radio alone.
LEMMA HolderFrame ==
    ASSUME IInv, at # "free",
           UNCHANGED <<taskVars, fired, links, phys, due>>, recorded' \subseteq LinkNo
    PROVE  CallsInv' /\ RadioInv'
<1>1. CallsInv'
  BY DEF IInv, CallsInv, CallsTyped, HolderRuns, Holder, taskVars
<1>2. RadioInv'
  BY DEF IInv, RadioInv, RadioTyped, LinksNumbered, DueAreDown
<1> QED
  BY <1>1, <1>2

\* A step of the holder that leaves the links alone.
LEMMA PlainMove ==
    ASSUME IInv, at # "teardown", at' \in Places \ {"teardown", "establish"}, op' \in OpType,
           key' \in LinkNo \cup {0}, ready' \in BOOLEAN,
           UNCHANGED <<client, td, phys, recorded>>
    PROVE  BlockInv'
<1> USE DEF IInv, BlockInv
<1>1. HolderTyped'
  BY DEF HolderTyped, Places
<1>2. NoLinkAtEstablish' /\ TeardownHasLink' /\ NoOrphanLink'
  BY DEF NoLinkAtEstablish, TeardownHasLink, NoOrphanLink
<1>3. TeardownsBounded'
  BY DEF TeardownsBounded
<1> QED
  BY <1>1, <1>2, <1>3

\* Taking from the queue, or draining it, brings nothing new.
LEMMA QueueShrinks ==
    ASSUME rx \in Seq(Frames \cup {Lost}),
           rx' = rx \/ rx' = <<>> \/ (rx # <<>> /\ rx' = Tail(rx))
    PROVE  /\ rx' \in Seq(Frames \cup {Lost}) /\ Len(rx') <= Len(rx)
           /\ \A i \in 1 .. Len(rx') : \E j \in 1 .. Len(rx) : rx'[i] = rx[j]
<1>1. CASE rx' = rx
  BY <1>1
<1>2. CASE rx' = <<>>
  BY <1>2
<1>3. CASE rx # <<>> /\ rx' = Tail(rx)
  BY <1>3
<1> QED
  BY <1>1, <1>2, <1>3

\* Outside the waits for a frame a queue may be taken from, or drained.
LEMMA QueueMove ==
    ASSUME IInv, client' \in {0, client},
           at' \notin {"key", "confirm", "setupAck", "ack", "collect"},
           rx' = rx \/ rx' = <<>> \/ (rx # <<>> /\ rx' = Tail(rx))
    PROVE  QueueInv'
<1> USE DEF IInv, QueueInv
<1>1. /\ rx' \in Seq(Frames \cup {Lost}) /\ Len(rx') <= Len(rx)
      /\ \A i \in 1 .. Len(rx') : \E j \in 1 .. Len(rx) : rx'[i] = rx[j]
  BY QueueShrinks DEF QueueTyped
<1>2. QueueTyped'
  BY <1>1, RxMaxAssumption DEF QueueTyped
<1>3. SentinelMeansNoClient'
  BY <1>1, RxMaxAssumption DEF SentinelMeansNoClient, QueueTyped
<1>4. LostLinkWakesWaiter'
  BY DEF LostLinkWakesWaiter
<1> QED
  BY <1>2, <1>3, <1>4

\* A block, whichever it is.
AnyBlock ==
    \/ \E next \in Afters, e \in Exceptions : TearDown(next, e)
    \/ \E e \in Exceptions : \/ Handle(e) \/ Leave(e) \/ ConnectFails(e)
                             \/ TalkFails(e) \/ LeaveConnect(e)

\* A step of the holder made of a block.
LEMMA BlockStep ==
    ASSUME IInv, at \notin {"free", "teardown"}, AnyBlock,
           UNCHANGED <<taskVars, fired, setupVars, links, phys, due, recorded, closed>>,
           released' \in BOOLEAN,
           rx' = rx \/ rx' = <<>> \/ (rx # <<>> /\ rx' = Tail(rx))
    PROVE  IInv'
<1>1. BlockMayRun
  BY DEF BlockMayRun, IInv
<1>2. BlockInv' /\ BlockEnds
  BY <1>1, TearDownBlock, HandleBlock, LeaveBlock, ConnectFailsBlock, TalkFailsBlock,
     LeaveConnectBlock DEF AnyBlock
<1>3. CallsInv' /\ RadioInv'
  BY HolderFrame DEF IInv, RadioInv, RadioTyped
<1>4. QueueInv'
  BY <1>2, QueueMove DEF BlockEnds, Afters
<1>5. SessionTyped'
  BY DEF IInv, SessionTyped, setupVars
<1> QED
  BY <1>2, <1>3, <1>4, <1>5 DEF IInv

\* A step of the holder that moves on, its links left alone.
LEMMA MoveStep ==
    ASSUME IInv, at \notin {"free", "teardown"},
           at' \in Places \ {"teardown", "establish", "key", "confirm", "setupAck", "ack", "collect"},
           op' \in OpType, key' \in LinkNo \cup {0}, ready' \in BOOLEAN,
           UNCHANGED <<taskVars, fired, client, td, links, phys, due, recorded>>,
           SessionTyped',
           rx' = rx \/ rx' = <<>> \/ (rx # <<>> /\ rx' = Tail(rx))
    PROVE  IInv'
<1>1. CallsInv' /\ RadioInv'
  BY HolderFrame DEF IInv, RadioInv, RadioTyped
<1>2. BlockInv'
  BY PlainMove
<1>3. QueueInv'
  BY QueueMove
<1> QED
  BY <1>1, <1>2, <1>3 DEF IInv

LEMMA ExcTyped ==
    ASSUME IInv PROVE op.exc \in Exceptions /\ op.after \in Afters
  BY DEF IInv, BlockInv, HolderTyped, OpType

-----------------------------------------------------------------------------
(* Callers.                                                                *)

LEMMA CallStep ==
    ASSUME IInv, NEW t \in Tasks, Call(t) PROVE IInv'
<1>1. CallsInv'
  <2>1. CallsTyped'
    BY DEF IInv, CallsInv, CallsTyped, Call
  <2>2. at # "free" => lockQ' # <<>> /\ Head(lockQ') = Head(lockQ) /\ Head(lockQ) # t
    BY DEF IInv, CallsInv, CallsTyped, HolderRuns, Holder, Call
  <2>3. HolderRuns'
    BY <2>2 DEF IInv, CallsInv, CallsTyped, HolderRuns, Holder, Call
  <2> QED
    BY <2>1, <2>3 DEF CallsInv
<1>2. BlockInv' /\ RadioInv' /\ QueueInv'
  BY DEF IInv, Call, BlockInv, HolderTyped, NoLinkAtEstablish, Connected, TeardownHasLink, NoOrphanLink,
         TeardownsBounded, RadioInv, RadioTyped, LinksNumbered, DueAreDown,
         QueueInv, QueueTyped, SentinelMeansNoClient, LostLinkWakesWaiter, linkVars, radioVars
<1>3. SessionTyped'
  BY DEF IInv, Call, SessionTyped, setupVars
<1> QED
  BY <1>1, <1>2, <1>3 DEF IInv

LEMMA CancelWaitingStep ==
    ASSUME IInv, NEW t \in Tasks, CancelWaiting(t) PROVE IInv'
<1>1. CallsInv'
  <2>1. PICK i \in 1 .. Len(lockQ) : lockQ[i] = t /\ lockQ' = Without(lockQ, i)
    BY DEF CancelWaiting, IInv, CallsInv, CallsTyped
  <2>2. /\ lockQ' \in Seq(Tasks) /\ Len(lockQ') = Len(lockQ) - 1
        /\ \A j \in 1 .. (i - 1) : lockQ'[j] = lockQ[j]
    BY <2>1, WithoutProperties DEF IInv, CallsInv, CallsTyped
  <2>3. CallsTyped'
    BY <2>2 DEF IInv, CallsInv, CallsTyped, CancelWaiting
  <2>4. at # "free" => i # 1 /\ Head(lockQ) # t /\ Head(lockQ) = lockQ[1]
    BY <2>1 DEF IInv, CallsInv, CallsTyped, HolderRuns, Holder, CancelWaiting
  <2>5. at # "free" => lockQ' # <<>> /\ Head(lockQ') = Head(lockQ)
    BY <2>1, <2>2, <2>4 DEF IInv, CallsInv, CallsTyped
  <2>6. HolderRuns'
    BY <2>4, <2>5 DEF IInv, CallsInv, CallsTyped, HolderRuns, Holder, CancelWaiting
  <2> QED
    BY <2>3, <2>6 DEF CallsInv
<1>2. BlockInv' /\ RadioInv' /\ QueueInv'
  BY DEF IInv, CancelWaiting, BlockInv, HolderTyped, NoLinkAtEstablish, Connected, TeardownHasLink,
         NoOrphanLink, TeardownsBounded, RadioInv, RadioTyped, LinksNumbered, DueAreDown,
         QueueInv, QueueTyped, SentinelMeansNoClient, LostLinkWakesWaiter, linkVars, radioVars,
         miscVars
<1>3. SessionTyped'
  BY DEF IInv, CancelWaiting, SessionTyped, setupVars, miscVars
<1> QED
  BY <1>1, <1>2, <1>3 DEF IInv

LEMMA AcquireStep ==
    ASSUME IInv, Acquire PROVE IInv'
<1>1. at' # "free" /\ lockQ # <<>> /\ Holder \in Tasks
  BY DEF Acquire, TearDown, IInv, CallsInv, CallsTyped, Holder
<1>2. CallsInv'
  BY <1>1 DEF IInv, CallsInv, CallsTyped, HolderRuns, Holder, Acquire
<1>3. BlockInv' /\ at' \in Afters \cup {"teardown", "finish", "gap", "fresh"} /\ client' \in {0, client}
  <2>1. BlockMayRun
    BY DEF BlockMayRun, IInv, Acquire, radioVars, miscVars
  <2>2. CASE TearDown("end", "ok")
    BY <2>1, <2>2, TearDownBlock DEF Exceptions, Afters, BlockEnds
  <2>3. CASE at' \in {"end", "gap", "fresh", "ensure"} /\ UNCHANGED <<op, linkVars>>
    BY <2>3, PlainMove DEF Acquire, Places, Awaits, Running, Afters, IInv, BlockInv, HolderTyped,
       linkVars, radioVars, miscVars
  <2> QED
    BY <2>2, <2>3 DEF Acquire
<1>4. RadioInv' /\ SessionTyped'
  BY DEF IInv, RadioInv, RadioTyped, LinksNumbered, DueAreDown, SessionTyped, Acquire, radioVars,
         setupVars, miscVars
<1>5. QueueInv'
  BY <1>3, QueueMove DEF Acquire, Afters
<1> QED
  BY <1>2, <1>3, <1>4, <1>5 DEF IInv

LEMMA EndStep ==
    ASSUME IInv, End PROVE IInv'
<1>1. CallsInv'
  <2>1. status' = [status EXCEPT ![Holder] = "returned"] \/ status' = [status EXCEPT ![Holder] = "raised"]
    BY DEF End
  <2>2. lockQ' \in Seq(Tasks)
    BY DEF IInv, CallsInv, CallsTyped, HolderRuns, End
  <2> QED
    BY <2>1, <2>2 DEF IInv, CallsInv, CallsTyped, HolderRuns, End
<1>2. NoOp \in OpType
  BY DEF NoOp, OpType, Exceptions, Afters
<1>3. BlockInv'
  BY <1>2, PlainMove DEF End, Places, IInv, BlockInv, HolderTyped, linkVars, radioVars, miscVars
<1>4. RadioInv' /\ SessionTyped'
  BY DEF IInv, RadioInv, RadioTyped, LinksNumbered, DueAreDown, SessionTyped, End, radioVars,
         setupVars, miscVars
<1>5. QueueInv'
  BY QueueMove DEF End, linkVars
<1> QED
  BY <1>1, <1>3, <1>4, <1>5 DEF IInv

-----------------------------------------------------------------------------
(* send_once's own session.                                                *)

LEMMA GapEndsStep ==
    ASSUME IInv, GapEnds PROVE IInv'
<1>1. op' \in OpType
  BY DEF GapEnds, linkVars, IInv, BlockInv, HolderTyped, OpType, RadioInv, RadioTyped
<1>2. SessionTyped'
  BY DEF GapEnds, linkVars, IInv, SessionTyped, BlockInv, HolderTyped, setupVars, miscVars
<1> QED
  BY <1>1, <1>2, MoveStep DEF GapEnds, linkVars, IInv, BlockInv, HolderTyped, Places, Awaits,
     ConnectAwaits, TalkAwaits, Running, linkVars, radioVars, miscVars

LEMMA FreshStep ==
    ASSUME IInv, Fresh PROVE IInv'
<1>1. CASE AnyBlock
  BY <1>1, BlockStep DEF Fresh, radioVars, miscVars, IInv, SessionTyped
<1>2. CASE ~AnyBlock
  <2>1. at' = "ensure" /\ op' = op /\ UNCHANGED linkVars
    BY <1>2 DEF AnyBlock, Fresh, Exceptions, Cancellations, Afters
  <2>2. op' \in OpType
    BY <2>1 DEF IInv, BlockInv, HolderTyped, OpType, RadioInv, RadioTyped
  <2>3. SessionTyped'
    BY DEF Fresh, IInv, SessionTyped, setupVars, miscVars
  <2>4. at \notin {"free", "teardown"} /\ UNCHANGED <<taskVars, fired, setupVars, rx, radioVars, miscVars>>
    BY DEF Fresh
  <2> QED
    BY <2>1, <2>2, <2>3, <2>4, MoveStep DEF IInv, BlockInv, HolderTyped, Places, Awaits,
       ConnectAwaits, TalkAwaits, Running, linkVars, radioVars, miscVars
<1> QED
  BY <1>1, <1>2

LEMMA ReleasedStep ==
    ASSUME IInv, Released PROVE IInv'
<1>1. at \notin {"free", "teardown"} /\ AnyBlock
  BY ExcTyped DEF AnyBlock, Released, Exceptions, Cancellations, Afters
<1> QED
  BY <1>1, BlockStep DEF Released, taskVars, radioVars, miscVars, IInv, SessionTyped

-----------------------------------------------------------------------------
(* The connect phase.                                                      *)

LEMMA EnsureStep ==
    ASSUME IInv, Ensure PROVE IInv'
<1>1. CASE AnyBlock
  BY <1>1, BlockStep DEF Ensure, radioVars, miscVars, IInv, SessionTyped
<1>2. CASE ~AnyBlock
  <2>1. /\ at' \in {"attempt", "connect"} /\ UNCHANGED linkVars
        /\ op' \in {op, [op EXCEPT !.sess = 1]}
    BY <1>2 DEF AnyBlock, Ensure, Exceptions, Cancellations, Afters
  <2>2. op' \in OpType
    BY <2>1 DEF IInv, BlockInv, HolderTyped, OpType, RadioInv, RadioTyped
  <2>3. SessionTyped'
    BY DEF Ensure, IInv, SessionTyped, setupVars, miscVars
  <2>4. at \notin {"free", "teardown"} /\ UNCHANGED <<taskVars, fired, setupVars, rx, radioVars, miscVars>>
    BY DEF Ensure
  <2> QED
    BY <2>1, <2>2, <2>3, <2>4, MoveStep DEF IInv, BlockInv, HolderTyped, Places, Awaits,
       ConnectAwaits, TalkAwaits, Running, linkVars, radioVars, miscVars
<1> QED
  BY <1>1, <1>2

LEMMA ConnectStepFailsStep ==
    ASSUME IInv, ConnectStepFails PROVE IInv'
<1>1. at \notin {"free", "teardown"} /\ AnyBlock
  BY DEF AnyBlock, ConnectStepFails, Exceptions, Cancellations, Afters
<1> QED
  BY <1>1, BlockStep DEF ConnectStepFails, taskVars, radioVars, miscVars, IInv, SessionTyped

LEMMA SessionNextStep ==
    ASSUME IInv, SessionNext PROVE IInv'
<1>1. CASE AnyBlock
  BY <1>1, BlockStep DEF SessionNext, radioVars, miscVars, IInv, SessionTyped
<1>2. CASE ~AnyBlock
  <2>1. at' = "connect" /\ op' = [op EXCEPT !.sess = @ + 1] /\ UNCHANGED linkVars
    BY <1>2, ExcTyped DEF AnyBlock, SessionNext, Exceptions, Cancellations, Afters
  <2>2. op' \in OpType
    BY <2>1 DEF IInv, BlockInv, HolderTyped, OpType, RadioInv, RadioTyped
  <2>3. SessionTyped'
    BY DEF SessionNext, IInv, SessionTyped, setupVars, miscVars
  <2>4. at \notin {"free", "teardown"} /\ UNCHANGED <<taskVars, fired, setupVars, rx, radioVars, miscVars>>
    BY DEF SessionNext
  <2> QED
    BY <2>1, <2>2, <2>3, <2>4, MoveStep DEF IInv, BlockInv, HolderTyped, Places, Awaits,
       ConnectAwaits, TalkAwaits, Running, linkVars, radioVars, miscVars
<1> QED
  BY <1>1, <1>2

LEMMA UnwindStep ==
    ASSUME IInv, Unwind PROVE IInv'
<1>1. at \notin {"free", "teardown"} /\ AnyBlock
  BY ExcTyped DEF AnyBlock, Unwind, Exceptions, Cancellations, Afters
<1> QED
  BY <1>1, BlockStep DEF Unwind, taskVars, radioVars, miscVars, IInv, SessionTyped

LEMMA FinishedStep ==
    ASSUME IInv, Finished PROVE IInv'
<1>1. at \notin {"free", "teardown"} /\ AnyBlock
  BY DEF AnyBlock, Finished, Exceptions, Cancellations, Afters
<1> QED
  BY <1>1, BlockStep DEF Finished, taskVars, radioVars, miscVars, IInv, SessionTyped

LEMMA SubscribedStep ==
    ASSUME IInv, Subscribed PROVE IInv'
<1>1. op' \in OpType
  BY DEF Subscribed, linkVars, IInv, BlockInv, HolderTyped, OpType, RadioInv, RadioTyped
<1>2. SessionTyped'
  BY DEF Subscribed, linkVars, IInv, SessionTyped, BlockInv, HolderTyped, setupVars, miscVars
<1> QED
  BY <1>1, <1>2, MoveStep DEF Subscribed, linkVars, IInv, BlockInv, HolderTyped, Places, Awaits,
     ConnectAwaits, TalkAwaits, Running, linkVars, radioVars, miscVars

-----------------------------------------------------------------------------
(* Session setup: _prepare_session, _handshake.                            *)

LEMMA BgcReadStep ==
    ASSUME IInv, BgcRead PROVE IInv'
<1>1. op' \in OpType
  BY DEF BgcRead, linkVars, IInv, BlockInv, HolderTyped, OpType, RadioInv, RadioTyped
<1>2. SessionTyped'
  BY DEF BgcRead, linkVars, IInv, SessionTyped, BlockInv, HolderTyped, setupVars, miscVars
<1> QED
  BY <1>1, <1>2, MoveStep DEF BgcRead, linkVars, IInv, BlockInv, HolderTyped, Places, Awaits,
     ConnectAwaits, TalkAwaits, Running, linkVars, radioVars, miscVars

LEMMA SetupWriteFailsStep ==
    ASSUME IInv, SetupWriteFails PROVE IInv'
<1>1. at \notin {"free", "teardown"} /\ AnyBlock
  BY DEF AnyBlock, SetupWriteFails, Exceptions, Cancellations, Afters
<1> QED
  BY <1>1, BlockStep DEF SetupWriteFails, taskVars, radioVars, miscVars, IInv, SessionTyped

LEMMA SetupDoneStep ==
    ASSUME IInv, SetupDone PROVE IInv'
<1>1. op' \in OpType
  BY DEF SetupDone, linkVars, IInv, BlockInv, HolderTyped, OpType, RadioInv, RadioTyped
<1>2. SessionTyped'
  BY DEF SetupDone, linkVars, IInv, SessionTyped, BlockInv, HolderTyped, setupVars, miscVars
<1> QED
  BY <1>1, <1>2, MoveStep DEF SetupDone, linkVars, IInv, BlockInv, HolderTyped, Places, Awaits,
     ConnectAwaits, TalkAwaits, Running, linkVars, radioVars, miscVars

LEMMA SessionReadyStep ==
    ASSUME IInv, SessionReady PROVE IInv'
<1>1. op' \in OpType
  BY DEF SessionReady, IInv, BlockInv, HolderTyped, OpType, RadioInv, RadioTyped
<1>2. SessionTyped'
  BY DEF SessionReady, IInv, SessionTyped, BlockInv, HolderTyped, setupVars, miscVars
<1> QED
  BY <1>1, <1>2, MoveStep DEF SessionReady, IInv, BlockInv, HolderTyped, Places, Awaits,
     ConnectAwaits, TalkAwaits, Running, linkVars, radioVars, miscVars

-----------------------------------------------------------------------------
(* The waits for a frame.                                                  *)

Waits == {"key", "confirm", "setupAck", "ack", "collect"}

\* A step into a wait for a frame, while there is a client.
LEMMA WaitStep ==
    ASSUME IInv, at \notin {"free", "teardown"}, at' \in Waits \cup {"paced"}, op' \in OpType,
           UNCHANGED <<taskVars, fired, linkVars, setupVars, radioVars, miscVars>>,
           client # 0,
           rx' = rx \/ rx' = <<>> \/ (rx # <<>> /\ rx' = Tail(rx))
    PROVE  IInv'
<1>1. CallsInv' /\ RadioInv'
  BY HolderFrame DEF IInv, RadioInv, RadioTyped, radioVars, miscVars
<1>2. BlockInv'
  BY PlainMove DEF IInv, BlockInv, HolderTyped, Waits, Places, Awaits, ConnectAwaits, TalkAwaits,
     linkVars, radioVars, miscVars
<1>3. SessionTyped'
  BY DEF IInv, SessionTyped, setupVars, miscVars
<1>4. QueueInv'
  <2> USE DEF IInv, QueueInv
  <2>1. /\ rx' \in Seq(Frames \cup {Lost}) /\ Len(rx') <= Len(rx)
        /\ \A i \in 1 .. Len(rx') : \E j \in 1 .. Len(rx) : rx'[i] = rx[j]
    BY QueueShrinks DEF QueueTyped
  <2>2. QueueTyped' /\ SentinelMeansNoClient'
    <3>1. client' = client /\ Len(rx) <= RxMax /\ \A i \in 1 .. Len(rx) : rx[i] # Lost
      BY DEF SentinelMeansNoClient, linkVars
    <3>2. Len(rx') <= RxMax /\ \A i \in 1 .. Len(rx') : rx'[i] # Lost
      <4> rx \in Seq(Frames \cup {Lost})
        BY DEF QueueTyped
      <4>1. Len(rx') <= RxMax
        BY <2>1, <3>1, RxMaxAssumption
      <4>2. ASSUME NEW i \in 1 .. Len(rx') PROVE rx'[i] # Lost
        <5>1. PICK j \in 1 .. Len(rx) : rx'[i] = rx[j]
          BY <2>1
        <5> QED
          BY <3>1, <5>1
      <4> QED
        BY <4>1, <4>2
    <3> QED
      BY <2>1, <3>1, <3>2, RxMaxAssumption DEF QueueTyped, SentinelMeansNoClient
  <2>3. LostLinkWakesWaiter'
    BY DEF LostLinkWakesWaiter, linkVars
  <2> QED
    BY <2>2, <2>3
<1> QED
  BY <1>1, <1>2, <1>3, <1>4 DEF IInv

\* A frame that is skipped leaves the sentinel behind it in the queue.
LEMMA SkipStep ==
    ASSUME IInv, at \in Waits, Receives(at), Item # Lost, Skip,
           UNCHANGED <<taskVars, fired, setupVars, radioVars, miscVars>>
    PROVE  IInv'
<1>1. CASE client # 0
  BY <1>1, WaitStep DEF Receives, Skip, Waits, IInv, BlockInv, HolderTyped, linkVars
<1>2. CASE client = 0
  <2>1. CallsInv' /\ RadioInv'
    BY HolderFrame DEF Waits, IInv, RadioInv, RadioTyped, radioVars, miscVars
  <2>2. BlockInv'
    BY PlainMove DEF IInv, BlockInv, HolderTyped, Waits, Places, Awaits, ConnectAwaits, TalkAwaits,
       Skip, linkVars, radioVars, miscVars
  <2>3. SessionTyped'
    BY DEF IInv, SessionTyped, setupVars, miscVars
  <2>4. /\ rx \in Seq(Frames \cup {Lost}) /\ rx # <<>> /\ rx' = Tail(rx) /\ rx[1] # Lost
        /\ Len(rx) <= RxMax + 1
    BY DEF Receives, Item, IInv, QueueInv, QueueTyped
  <2>5. PICK i \in 1 .. Len(rx) : rx[i] = Lost
    BY <1>2 DEF IInv, QueueInv, LostLinkWakesWaiter, Waits
  <2>6. i - 1 \in 1 .. Len(rx') /\ rx'[i - 1] = Lost
    BY <2>4, <2>5
  <2>7. QueueTyped' /\ SentinelMeansNoClient'
    BY <1>2, <2>4, RxMaxAssumption DEF QueueTyped, SentinelMeansNoClient, Skip, linkVars
  <2>8. rx' \in Seq(Frames \cup {Lost})
    BY <2>7 DEF QueueTyped
  <2>9. LostLinkWakesWaiter'
    BY <2>6, <2>8 DEF LostLinkWakesWaiter
  <2> QED
    BY <2>1, <2>2, <2>3, <2>7, <2>9 DEF IInv, QueueInv
<1> QED
  BY <1>1, <1>2

LEMMA ItemTyped ==
    ASSUME IInv, rx # <<>>
    PROVE  Item = Lost \/ (Item \in Frames /\ Item.link \in LinkNo)
<1>1. Item \in Frames \cup {Lost}
  BY DEF Item, IInv, QueueInv, QueueTyped
<1> QED
  BY <1>1 DEF Frames

LEMMA CanSendHasClient ==
    ASSUME CanSend PROVE client # 0
  BY DEF CanSend

-----------------------------------------------------------------------------
(* Session setup, its waits.                                               *)

LEMMA KeyReplyStep ==
    ASSUME IInv, KeyReply PROVE IInv'
<1>1. /\ at = "key" /\ Receives(at) /\ rx # <<>> /\ rx' = Tail(rx)
      /\ UNCHANGED <<taskVars, fired, setupVars, radioVars, miscVars>>
  BY DEF KeyReply, Receives
<1>2. CASE AnyBlock
  BY <1>1, <1>2, BlockStep DEF radioVars, miscVars, IInv, SessionTyped
<1>3. CASE Item # Lost /\ Skip
  BY <1>1, <1>3, SkipStep DEF Waits
<1>4. CASE /\ Item # Lost /\ client # 0 /\ at' = "confirm"
          /\ op' = [op EXCEPT !.hsKey = Item.link] /\ UNCHANGED linkVars
  <2>1. op' \in OpType
    BY <1>1, <1>4, ItemTyped DEF IInv, BlockInv, HolderTyped, OpType
  <2> QED
    BY <1>1, <1>4, <2>1, WaitStep DEF Waits
<1> QED
  BY <1>1, <1>2, <1>3, <1>4 DEF KeyReply, AnyBlock, Exceptions, Cancellations, Afters, Lost

LEMMA KeepKeyStep ==
    ASSUME IInv, at = "confirm", KeepKey,
           UNCHANGED <<taskVars, fired, setupVars, radioVars, miscVars>>,
           rx' = rx \/ (rx # <<>> /\ rx' = Tail(rx))
    PROVE  IInv'
<1>1. op' \in OpType /\ key' \in LinkNo \cup {0}
  BY DEF KeepKey, IInv, BlockInv, HolderTyped, OpType
<1>2. SessionTyped'
  BY DEF IInv, SessionTyped, setupVars, miscVars
<1> QED
  BY <1>1, <1>2, MoveStep DEF KeepKey, IInv, BlockInv, HolderTyped, Places, Running, radioVars, miscVars

LEMMA ConfirmReplyStep ==
    ASSUME IInv, ConfirmReply PROVE IInv'
<1>1. /\ at = "confirm" /\ Receives(at) /\ rx # <<>> /\ rx' = Tail(rx)
      /\ UNCHANGED <<taskVars, fired, setupVars, radioVars, miscVars>>
  BY DEF ConfirmReply, Receives
<1>2. CASE AnyBlock
  BY <1>1, <1>2, BlockStep DEF radioVars, miscVars, IInv, SessionTyped
<1>3. CASE Item # Lost /\ Skip
  BY <1>1, <1>3, SkipStep DEF Waits
<1>4. CASE Item # Lost /\ KeepKey
  BY <1>1, <1>4, KeepKeyStep
<1> QED
  BY <1>1, <1>2, <1>3, <1>4 DEF ConfirmReply, AnyBlock, Exceptions, Cancellations, Afters, Lost

LEMMA HandshakeTimeoutStep ==
    ASSUME IInv, HandshakeTimeout PROVE IInv'
<1>1. /\ at \in {"key", "confirm"}
      /\ UNCHANGED <<taskVars, fired, setupVars, rx, radioVars, miscVars>>
  BY DEF HandshakeTimeout
<1>2. CASE AnyBlock
  BY <1>1, <1>2, BlockStep DEF radioVars, miscVars, IInv, SessionTyped
<1>3. CASE at = "confirm" /\ KeepKey
  BY <1>1, <1>3, KeepKeyStep
<1> QED
  BY <1>2, <1>3 DEF HandshakeTimeout, AnyBlock, Exceptions

LEMMA NextStageStep ==
    ASSUME IInv, at \in {"setupAck", "setupSent"}, NextStage,
           UNCHANGED <<taskVars, fired, setupVars, radioVars, miscVars>>,
           rx' = rx \/ (rx # <<>> /\ rx' = Tail(rx))
    PROVE  IInv'
<1> DEFINE stage == IF op.stage = "unlock" /\ HasSessionFrame THEN "session" ELSE "done"
<1>1. stage \in {"session", "done"} /\ op' = [op EXCEPT !.try = 1, !.stage = stage]
  BY DEF NextStage, IInv, BlockInv, HolderTyped, OpType
<1> HIDE DEF stage
<1>2. op' \in OpType
  BY <1>1 DEF IInv, BlockInv, HolderTyped, OpType
<1>3. SessionTyped'
  BY DEF IInv, SessionTyped, setupVars, miscVars
<1> QED
  BY <1>2, <1>3, MoveStep DEF NextStage, IInv, BlockInv, HolderTyped, Places, Running, linkVars,
     radioVars, miscVars

LEMMA SetupReplyStep ==
    ASSUME IInv, SetupReply PROVE IInv'
<1>1. /\ at = "setupAck" /\ Receives(at) /\ rx # <<>> /\ rx' = Tail(rx)
      /\ UNCHANGED <<taskVars, fired, setupVars, radioVars, miscVars>>
  BY DEF SetupReply, Receives
<1>2. CASE AnyBlock
  BY <1>1, <1>2, BlockStep DEF radioVars, miscVars, IInv, SessionTyped
<1>3. CASE Item # Lost /\ Skip
  BY <1>1, <1>3, SkipStep DEF Waits
<1>4. CASE Item # Lost /\ NextStage
  BY <1>1, <1>4, NextStageStep
<1> QED
  BY <1>1, <1>2, <1>3, <1>4 DEF SetupReply, AnyBlock, Exceptions, Cancellations, Afters, Lost

LEMMA SetupSendStep ==
    ASSUME IInv, SetupSend PROVE IInv'
<1>1. CASE AnyBlock
  BY <1>1, BlockStep DEF SetupSend, radioVars, miscVars, IInv, SessionTyped
<1>2. CASE CanSend /\ at' = "setupAck" /\ UNCHANGED <<op, linkVars>>
  BY <1>2, WaitStep, CanSendHasClient DEF SetupSend, Waits, IInv, BlockInv, HolderTyped
<1>3. CASE CanSend /\ at' = "setupSent" /\ UNCHANGED <<op, linkVars>>
  BY <1>3, MoveStep DEF SetupSend, linkVars, IInv, BlockInv, HolderTyped, Places, Awaits,
     ConnectAwaits, TalkAwaits, Running, radioVars, miscVars, SessionTyped, setupVars
<1> QED
  BY <1>1, <1>2, <1>3 DEF SetupSend, AnyBlock, Exceptions

LEMMA SetupSentStep ==
    ASSUME IInv, SetupSent PROVE IInv'
BY NextStageStep DEF SetupSent

LEMMA SetupTimeoutStep ==
    ASSUME IInv, SetupTimeout PROVE IInv'
<1>1. CASE NextStage
  BY <1>1, NextStageStep DEF SetupTimeout
<1>2. CASE at' = "setup" /\ op' = [op EXCEPT !.try = @ + 1] /\ UNCHANGED linkVars
  <2>1. op' \in OpType
    BY <1>2 DEF IInv, BlockInv, HolderTyped, OpType
  <2>2. SessionTyped'
    BY DEF SetupTimeout, IInv, SessionTyped, setupVars, miscVars
  <2> QED
    BY <1>2, <2>1, <2>2, MoveStep DEF SetupTimeout, IInv, BlockInv, HolderTyped, Places, Running,
       linkVars, radioVars, miscVars
<1> QED
  BY <1>1, <1>2 DEF SetupTimeout

-----------------------------------------------------------------------------
(* The connect phase, its links.                                           *)

LEMMA ConnectStep ==
    ASSUME IInv, Connect PROVE IInv'
<1>1. /\ UNCHANGED <<taskVars, fired, linkVars, setupVars, rx, radioVars, miscVars>>
      /\ at = "connect" /\ at' \in {"prepare", "establish"}
      /\ at' = "establish" => ~Connected(client)
  BY DEF Connect
<1>2. op' \in OpType
  BY DEF Connect, IInv, BlockInv, HolderTyped, RadioInv, RadioTyped, OpType, Exceptions
<1>3. CallsInv' /\ RadioInv'
  BY <1>1, HolderFrame DEF IInv, RadioInv, RadioTyped, radioVars, miscVars
<1>4. BlockInv'
  <2>1. HolderTyped'
    BY <1>1, <1>2 DEF IInv, BlockInv, HolderTyped, Awaits, ConnectAwaits, Running, linkVars
  <2>2. NoLinkAtEstablish' /\ TeardownHasLink' /\ NoOrphanLink'
    BY <1>1 DEF IInv, BlockInv, NoLinkAtEstablish, Connected, TeardownHasLink, NoOrphanLink, linkVars,
       radioVars
  <2>3. TeardownsBounded'
    BY <1>1 DEF IInv, BlockInv, TeardownsBounded, linkVars, miscVars
  <2> QED
    BY <2>1, <2>2, <2>3 DEF BlockInv
<1>5. QueueInv' /\ SessionTyped'
  BY <1>1, QueueMove DEF IInv, SessionTyped, linkVars, setupVars, miscVars
<1> QED
  BY <1>3, <1>4, <1>5 DEF IInv

LEMMA EstablishedStep ==
    ASSUME IInv, Established PROVE IInv'
<1> DEFINE n == links + 1
<1>1. /\ at = "establish" /\ at' = "notify" /\ n \in LinkNo
      /\ links' = n /\ client' = n /\ phys' = [phys EXCEPT ![n] = "up"] /\ rx' = <<>>
      /\ UNCHANGED <<taskVars, op, fired, ready, key, td, setupVars, due, miscVars>>
  BY ConnectionAssumption DEF Established, IInv, RadioInv, RadioTyped, LinkNo
<1>2. n \notin due /\ links < n /\ links \in Nat
  BY <1>1 DEF IInv, RadioInv, LinksNumbered, RadioTyped, LinkNo
<1> HIDE DEF n
<1>3. CallsInv'
  BY <1>1 DEF IInv, CallsInv, CallsTyped, HolderRuns, Holder, taskVars
<1>4. BlockInv'
  <2>1. HolderTyped'
    BY <1>1 DEF IInv, BlockInv, HolderTyped, Awaits, ConnectAwaits
  <2>2. NoLinkAtEstablish' /\ TeardownHasLink' /\ TeardownsBounded'
    BY <1>1 DEF IInv, BlockInv, NoLinkAtEstablish, TeardownHasLink, TeardownsBounded, miscVars
  <2>3. NoOrphanLink'
    BY <1>1 DEF IInv, BlockInv, NoOrphanLink, NoLinkAtEstablish, Connected, RadioInv, RadioTyped, LinkNo
  <2> QED
    BY <2>1, <2>2, <2>3 DEF BlockInv
<1>5. RadioInv'
  <2>1. RadioTyped'
    BY <1>1 DEF IInv, RadioInv, RadioTyped, miscVars
  <2>2. LinksNumbered'
    BY <1>1, <1>2 DEF IInv, RadioInv, LinksNumbered, RadioTyped, LinkNo
  <2>3. DueAreDown'
    BY <1>1, <1>2 DEF IInv, RadioInv, DueAreDown, RadioTyped
  <2> QED
    BY <2>1, <2>2, <2>3 DEF RadioInv
<1>6. QueueInv'
  BY <1>1, RxMaxAssumption DEF QueueInv, QueueTyped, SentinelMeansNoClient, LostLinkWakesWaiter
<1>7. SessionTyped'
  BY <1>1 DEF IInv, SessionTyped, setupVars, miscVars
<1> QED
  BY <1>3, <1>4, <1>5, <1>6, <1>7 DEF IInv

\* What _session_mode makes of an advertised mode.
LEMMA SessionModeTyped ==
    ASSUME NEW adv \in {"NONE", "AES_RC4_PSK"}
    PROVE  SessionMode(adv) \in Modes
  BY DEF SessionMode, Modes

\* A block of a step that settles the mode.
LEMMA ModeBlockStep ==
    ASSUME IInv, at \in {"prepare", "mode"}, AnyBlock,
           UNCHANGED <<taskVars, fired, advert, bgc, vetted, radioVars, miscVars>>,
           mode' \in Modes, rx' = rx \/ rx' = <<>>
    PROVE  IInv'
<1>1. BlockMayRun
  BY DEF BlockMayRun, IInv, radioVars, miscVars
<1>2. BlockInv' /\ BlockEnds
  BY <1>1, TearDownBlock, HandleBlock, LeaveBlock, ConnectFailsBlock, TalkFailsBlock,
     LeaveConnectBlock DEF AnyBlock
<1>3. CallsInv' /\ RadioInv'
  BY HolderFrame DEF IInv, RadioInv, RadioTyped, radioVars, miscVars
<1>4. QueueInv'
  BY <1>2, QueueMove DEF BlockEnds, Afters
<1>5. SessionTyped'
  BY DEF IInv, SessionTyped, miscVars
<1> QED
  BY <1>2, <1>3, <1>4, <1>5 DEF IInv

LEMMA PrepareStep ==
    ASSUME IInv, Prepare PROVE IInv'
<1>1. /\ at = "prepare" /\ rx' = <<>>
      /\ UNCHANGED <<taskVars, fired, advert, bgc, vetted, radioVars, miscVars>>
  BY DEF Prepare
<1>2. CASE client = 0
  BY <1>1, <1>2, ModeBlockStep DEF Prepare, AnyBlock, Exceptions, IInv, SessionTyped
<1>3. CASE client # 0
  <2>1. /\ ready' = FALSE /\ key' = 0 /\ mode' = SessionMode(advert)
        /\ op' = [op EXCEPT !.adv = advert] /\ at' \in {"bgc", "mode"}
        /\ UNCHANGED <<client, td>>
    BY <1>3 DEF Prepare
  <2>2. op' \in OpType
    BY <2>1 DEF IInv, SessionTyped, BlockInv, HolderTyped, OpType
  <2>3. SessionTyped'
    BY <1>1, <2>1, SessionModeTyped DEF IInv, SessionTyped, miscVars
  <2> QED
    BY <1>1, <2>1, <2>2, <2>3, MoveStep DEF Places, Awaits, ConnectAwaits, Running, radioVars, miscVars
<1> QED
  BY <1>2, <1>3

LEMMA SettleModeStep ==
    ASSUME IInv, SettleMode PROVE IInv'
<1>1. /\ at = "mode" /\ mode' = SessionMode(op.adv)
      /\ UNCHANGED <<taskVars, fired, advert, bgc, vetted, rx, radioVars, miscVars>>
  BY DEF SettleMode
<1>2. mode' \in Modes
  BY <1>1, SessionModeTyped DEF IInv, BlockInv, HolderTyped, OpType
<1>3. CASE AnyBlock
  BY <1>1, <1>2, <1>3, ModeBlockStep
<1>4. CASE at' = "ready" /\ UNCHANGED <<op, linkVars>>
  <2>1. SessionTyped'
    BY <1>1, <1>2 DEF IInv, SessionTyped, miscVars
  <2> QED
    BY <1>1, <1>4, <2>1, MoveStep DEF IInv, BlockInv, HolderTyped, Places, Running, linkVars,
       radioVars, miscVars
<1>5. CASE client # 0 /\ at' = "key" /\ UNCHANGED <<op, linkVars>>
  <2>1. CallsInv' /\ RadioInv'
    BY <1>1, HolderFrame DEF IInv, RadioInv, RadioTyped, radioVars, miscVars
  <2>2. BlockInv'
    BY <1>1, <1>5, PlainMove DEF IInv, BlockInv, HolderTyped, Places, Awaits, ConnectAwaits, linkVars,
       radioVars, miscVars
  <2>3. SessionTyped'
    BY <1>1, <1>2 DEF IInv, SessionTyped, miscVars
  <2>4. QueueInv'
    BY <1>1, <1>5 DEF IInv, QueueInv, QueueTyped, SentinelMeansNoClient, LostLinkWakesWaiter, linkVars
  <2> QED
    BY <2>1, <2>2, <2>3, <2>4 DEF IInv
<1> QED
  BY <1>3, <1>4, <1>5 DEF SettleMode, AnyBlock, Exceptions

-----------------------------------------------------------------------------
(* The operations' own traffic.                                            *)

\* One more user frame is written.
LEMMA SendsStep ==
    ASSUME IInv, at \notin {"free", "teardown"}, NEW pc \in TalkAwaits, CanSend, Sends(pc),
           UNCHANGED <<taskVars, fired, setupVars, radioVars, miscVars>>,
           rx' = rx \/ rx' = <<>>
    PROVE  IInv'
<1> DEFINE sent == Append(op.sent, client)
<1>1. op \in OpType /\ client \in LinkNo /\ op' = [op EXCEPT !.sent = sent]
  BY CanSendHasClient DEF Sends, IInv, BlockInv, HolderTyped
<1>2. sent \in Seq(LinkNo)
  BY <1>1 DEF OpType
<1> HIDE DEF sent
<1>3. op' \in OpType
  BY <1>1, <1>2 DEF OpType
<1> QED
  BY <1>3, CanSendHasClient, WaitStep DEF Sends, TalkAwaits, Waits

LEMMA TalkStep ==
    ASSUME IInv, Talk PROVE IInv'
<1>1. /\ at = "attempt" /\ rx' \in {rx, <<>>}
      /\ UNCHANGED <<taskVars, fired, setupVars, radioVars, miscVars>>
  BY DEF Talk
<1>2. CASE AnyBlock
  BY <1>1, <1>2, BlockStep DEF radioVars, miscVars, IInv, SessionTyped
<1>3. CASE CanSend /\ Sends(Reading)
  BY <1>1, <1>3, SendsStep DEF Reading, TalkAwaits
<1> QED
  BY <1>2, <1>3 DEF Talk, AnyBlock, Exceptions

\* The reply ends the operation.
LEMMA HeardStep ==
    ASSUME IInv, at \in {"ack", "collect"}, NEW e \in Exceptions, Heard(e), Item # Lost,
           rx # <<>>, rx' = Tail(rx),
           UNCHANGED <<taskVars, fired, setupVars, radioVars, miscVars>>
    PROVE  IInv'
<1>1. op' \in OpType
  BY ItemTyped DEF Heard, IInv, BlockInv, HolderTyped, OpType
<1>2. SessionTyped'
  BY DEF IInv, SessionTyped, setupVars, miscVars
<1> QED
  BY <1>1, <1>2, MoveStep DEF Heard, IInv, BlockInv, HolderTyped, Places, Running, linkVars,
     radioVars, miscVars

LEMMA AckReplyStep ==
    ASSUME IInv, AckReply PROVE IInv'
<1>1. /\ at = "ack" /\ Receives(at) /\ rx # <<>> /\ rx' = Tail(rx)
      /\ UNCHANGED <<taskVars, fired, setupVars, radioVars, miscVars>>
  BY DEF AckReply, Receives
<1>2. CASE AnyBlock
  BY <1>1, <1>2, BlockStep DEF radioVars, miscVars, IInv, SessionTyped
<1>3. CASE Item # Lost /\ Skip
  BY <1>1, <1>3, SkipStep DEF Waits
<1>4. CASE Item # Lost /\ (Heard("ok") \/ Heard("rejected"))
  BY <1>1, <1>4, HeardStep DEF Exceptions
<1> QED
  BY <1>2, <1>3, <1>4 DEF AckReply, AnyBlock, Exceptions, Cancellations, Afters, Lost

LEMMA CollectReplyStep ==
    ASSUME IInv, CollectReply PROVE IInv'
<1>1. /\ at = "collect" /\ Receives(at) /\ rx # <<>> /\ rx' = Tail(rx)
      /\ UNCHANGED <<taskVars, fired, setupVars, radioVars, miscVars>>
  BY DEF CollectReply, Receives
<1>2. CASE AnyBlock
  BY <1>1, <1>2, BlockStep DEF radioVars, miscVars, IInv, SessionTyped
<1>3. CASE Item # Lost /\ Skip
  BY <1>1, <1>3, SkipStep DEF Waits
<1>4. CASE Item # Lost /\ (Heard("ok") \/ Heard("rejected"))
  BY <1>1, <1>4, HeardStep DEF Exceptions
<1> QED
  BY <1>2, <1>3, <1>4 DEF CollectReply, AnyBlock, Exceptions, Cancellations, Afters, Lost

LEMMA AckTimeoutStep ==
    ASSUME IInv, AckTimeout PROVE IInv'
<1>1. /\ at = "ack"
      /\ UNCHANGED <<taskVars, fired, setupVars, rx, radioVars, miscVars>>
  BY DEF AckTimeout
<1>2. CASE AnyBlock
  BY <1>1, <1>2, BlockStep DEF radioVars, miscVars, IInv, SessionTyped
<1>3. CASE at' = "attempt" /\ op' = [op EXCEPT !.try = @ + 1] /\ UNCHANGED linkVars
  <2>1. op' \in OpType
    BY <1>3 DEF IInv, BlockInv, HolderTyped, OpType
  <2>2. SessionTyped'
    BY <1>1 DEF IInv, SessionTyped, setupVars, miscVars
  <2> QED
    BY <1>1, <1>3, <2>1, <2>2, MoveStep DEF IInv, BlockInv, HolderTyped, Places, Running, linkVars,
       radioVars, miscVars
<1> QED
  BY <1>2, <1>3 DEF AckTimeout, AnyBlock, Exceptions

LEMMA RetryStep ==
    ASSUME IInv, Retry PROVE IInv'
<1>1. op' \in OpType
  BY DEF Retry, IInv, BlockInv, HolderTyped, OpType
<1>2. SessionTyped'
  BY DEF Retry, IInv, SessionTyped, setupVars, miscVars
<1> QED
  BY <1>1, <1>2, MoveStep DEF Retry, IInv, BlockInv, HolderTyped, Places, Running, linkVars,
     radioVars, miscVars

LEMMA CollectTimeoutStep ==
    ASSUME IInv, CollectTimeout PROVE IInv'
<1>1. AnyBlock
  BY DEF CollectTimeout, AnyBlock, Exceptions
<1> QED
  BY <1>1, BlockStep DEF CollectTimeout, radioVars, miscVars, IInv, SessionTyped

LEMMA StreamNextStep ==
    ASSUME IInv, StreamNext PROVE IInv'
<1>1. /\ at = "paced"
      /\ UNCHANGED <<taskVars, fired, setupVars, rx, radioVars, miscVars>>
  BY DEF StreamNext
<1>2. CASE AnyBlock
  BY <1>1, <1>2, BlockStep DEF radioVars, miscVars, IInv, SessionTyped
<1>3. CASE CanSend /\ Sends("paced")
  BY <1>1, <1>3, SendsStep DEF TalkAwaits
<1> QED
  BY <1>2, <1>3 DEF StreamNext, AnyBlock, Exceptions

LEMMA WriteFailsStep ==
    ASSUME IInv, WriteFails PROVE IInv'
<1>1. AnyBlock
  BY DEF WriteFails, AnyBlock, Exceptions
<1> QED
  BY <1>1, BlockStep DEF WriteFails, TalkAwaits, radioVars, miscVars, IInv, SessionTyped

-----------------------------------------------------------------------------
(* The end of a teardown's wait, and cancellations.                        *)

LEMMA TeardownWaitedStep ==
    ASSUME IInv, TeardownWaited PROVE IInv'
<1>1. /\ at = "teardown" /\ td[op.waits] # "running" /\ at' = op.after
      /\ op' = [op EXCEPT !.waits = 0]
      /\ UNCHANGED <<taskVars, fired, linkVars, setupVars, rx, radioVars, miscVars>>
  BY DEF TeardownWaited
<1>2. op' \in OpType /\ at' \in Afters
  BY <1>1 DEF IInv, BlockInv, HolderTyped, OpType
<1>3. CallsInv' /\ RadioInv'
  BY <1>1, HolderFrame DEF IInv, RadioInv, RadioTyped, radioVars, miscVars
<1>4. BlockInv'
  <2>1. HolderTyped' /\ NoLinkAtEstablish' /\ TeardownHasLink' /\ NoOrphanLink'
    BY <1>1, <1>2 DEF IInv, BlockInv, HolderTyped, NoLinkAtEstablish, TeardownHasLink, NoOrphanLink,
       Running, Afters, linkVars, radioVars
  <2>2. TeardownsBounded'
    BY <1>1 DEF IInv, BlockInv, TeardownsBounded, linkVars, miscVars
  <2> QED
    BY <2>1, <2>2 DEF BlockInv
<1>5. QueueInv' /\ SessionTyped'
  BY <1>1, <1>2, QueueMove DEF Afters, IInv, SessionTyped, linkVars, setupVars, miscVars
<1> QED
  BY <1>3, <1>4, <1>5 DEF IInv

LEMMA TeardownBoundStep ==
    ASSUME IInv, TeardownBound PROVE IInv'
<1>1. /\ at = "teardown" /\ at' = op.after /\ op' = [op EXCEPT !.waits = 0]
      /\ td' = [td EXCEPT ![op.waits] = "abandoned"]
      /\ UNCHANGED <<taskVars, fired, client, ready, key, setupVars, rx, radioVars, miscVars>>
  BY DEF TeardownBound
<1>2. op' \in OpType /\ at' \in Afters
  BY <1>1 DEF IInv, BlockInv, HolderTyped, OpType
<1>3. CallsInv' /\ RadioInv'
  BY <1>1, HolderFrame DEF IInv, RadioInv, RadioTyped, radioVars, miscVars
<1>4. BlockInv'
  <2>1. HolderTyped' /\ NoLinkAtEstablish' /\ TeardownHasLink'
    BY <1>1, <1>2 DEF IInv, BlockInv, HolderTyped, NoLinkAtEstablish, TeardownHasLink, Running, Afters
  <2>2. NoOrphanLink'
    BY <1>1 DEF IInv, BlockInv, HolderTyped, NoOrphanLink, radioVars
  <2>3. TeardownsBounded'
    BY <1>1 DEF IInv, BlockInv, HolderTyped, TeardownsBounded, miscVars
  <2> QED
    BY <2>1, <2>2, <2>3 DEF BlockInv
<1>5. QueueInv' /\ SessionTyped'
  BY <1>1, <1>2, QueueMove DEF Afters, IInv, SessionTyped, setupVars, miscVars
<1> QED
  BY <1>3, <1>4, <1>5 DEF IInv

LEMMA CancelStep ==
    ASSUME IInv, NEW c \in Cancellations, Cancel(c) PROVE IInv'
<1>1. /\ fired' = fired \cup {c} /\ at \in Awaits
      /\ UNCHANGED <<taskVars, setupVars, rx, radioVars, closed>>
  BY DEF Cancel, CanFire
<1>2. c \in Exceptions /\ Stronger(c) \in Exceptions
  BY ExcTyped DEF Stronger, Exceptions
<1>3. /\ recorded \subseteq recorded' /\ recorded' \subseteq LinkNo
      /\ at = "teardown" => op.waits \in recorded' \/ td[op.waits] # "running"
      /\ released' \in BOOLEAN
  <2>1. CASE at = "teardown"
    <3>1. op.waits \in LinkNo
      BY <2>1 DEF IInv, BlockInv, TeardownHasLink, HolderTyped, OpType
    <3>2. recorded' = recorded \cup {l \in {op.waits} : td[l] = "running"}
      BY <2>1 DEF Cancel, CutTeardown
    <3>3. released' \in BOOLEAN
      BY <2>1 DEF Cancel, CutTeardown, IInv, SessionTyped
    <3> QED
      BY <3>1, <3>2, <3>3 DEF IInv, RadioInv, RadioTyped
  <2>2. CASE at # "teardown"
    BY <2>2 DEF Cancel, IInv, RadioInv, RadioTyped, SessionTyped
  <2> QED
    BY <2>1, <2>2
<1>4. AnyBlock
  <2>1. CASE at = "teardown"
    BY <1>2, <2>1 DEF Cancel, CutTeardown, AnyBlock
  <2>2. CASE at # "teardown"
    BY <1>1, <1>2, <2>2 DEF Cancel, AnyBlock, Awaits, Afters
  <2> QED
    BY <2>1, <2>2
<1>5. BlockMayRun
  BY <1>1, <1>3 DEF BlockMayRun, IInv, radioVars
<1>6. BlockInv' /\ BlockEnds
  BY <1>4, <1>5, TearDownBlock, HandleBlock, LeaveBlock, ConnectFailsBlock, TalkFailsBlock,
     LeaveConnectBlock DEF AnyBlock
<1>7. CallsInv'
  <2>1. at # "free"
    BY <1>1 DEF Awaits, ConnectAwaits, TalkAwaits
  <2> QED
    BY <1>1, <2>1 DEF IInv, CallsInv, CallsTyped, HolderRuns, Holder, taskVars
<1>8. RadioInv'
  BY <1>1, <1>3 DEF IInv, RadioInv, RadioTyped, LinksNumbered, DueAreDown, radioVars
<1>9. QueueInv' /\ SessionTyped'
  BY <1>1, <1>3, <1>6, QueueMove DEF BlockEnds, Afters, IInv, SessionTyped, setupVars
<1> QED
  BY <1>6, <1>7, <1>8, <1>9 DEF IInv

-----------------------------------------------------------------------------
(* The BLE stack and the device.                                           *)

LEMMA EnvironmentFrame ==
    ASSUME IInv, UNCHANGED <<taskVars, at, fired>> PROVE CallsInv'
  BY DEF IInv, CallsInv, CallsTyped, HolderRuns, Holder, taskVars

LEMMA TeardownEndsStep ==
    ASSUME IInv, NEW l \in LinkNo, TeardownEnds(l) PROVE IInv'
<1>1. /\ td[l] = "running" /\ recorded' = recorded \ {l}
      /\ UNCHANGED <<taskVars, at, op, fired, client, ready, key, setupVars, rx, links, closed, released>>
  BY DEF TeardownEnds
<1>2. CallsInv' /\ QueueInv' /\ SessionTyped'
  BY <1>1, EnvironmentFrame DEF IInv, QueueInv, QueueTyped, SentinelMeansNoClient,
     LostLinkWakesWaiter, SessionTyped, setupVars
<1>3. CASE /\ td' = [td EXCEPT ![l] = "done"] /\ phys' = [phys EXCEPT ![l] = "down"]
           /\ due' = IF phys[l] = "up" THEN due \cup {l} ELSE due
  <2>1. HolderTyped' /\ NoLinkAtEstablish' /\ TeardownHasLink'
    BY <1>1, <1>3 DEF IInv, BlockInv, HolderTyped, NoLinkAtEstablish, Connected, TeardownHasLink,
       RadioInv, RadioTyped
  <2>2. NoOrphanLink' /\ TeardownsBounded'
    BY <1>1, <1>3 DEF IInv, BlockInv, HolderTyped, NoOrphanLink, TeardownsBounded, RadioInv, RadioTyped
  <2>3. RadioInv'
    BY <1>1, <1>3 DEF IInv, RadioInv, RadioTyped, LinksNumbered, DueAreDown
  <2> QED
    BY <1>2, <2>1, <2>2, <2>3 DEF IInv, BlockInv
<1>4. CASE td' = [td EXCEPT ![l] = "failed"] /\ UNCHANGED <<phys, due>>
  <2>1. HolderTyped' /\ NoLinkAtEstablish' /\ TeardownHasLink'
    BY <1>1, <1>4 DEF IInv, BlockInv, HolderTyped, NoLinkAtEstablish, Connected, TeardownHasLink
  <2>2. NoOrphanLink' /\ TeardownsBounded'
    BY <1>1, <1>4 DEF IInv, BlockInv, HolderTyped, NoOrphanLink, TeardownsBounded
  <2>3. RadioInv'
    BY <1>1, <1>4 DEF IInv, RadioInv, RadioTyped, LinksNumbered, DueAreDown
  <2> QED
    BY <1>2, <2>1, <2>2, <2>3 DEF IInv, BlockInv
<1> QED
  BY <1>3, <1>4 DEF TeardownEnds

LEMMA AbandonStep ==
    ASSUME IInv, NEW l \in LinkNo, Abandon(l) PROVE IInv'
<1>1. /\ td' = [td EXCEPT ![l] = "abandoned"] /\ recorded' = recorded \ {l}
      /\ UNCHANGED <<taskVars, at, op, fired, client, ready, key, setupVars, rx, radioVars, closed, released>>
  BY DEF Abandon
<1>2. CallsInv' /\ QueueInv' /\ SessionTyped' /\ RadioInv'
  BY <1>1, EnvironmentFrame DEF IInv, QueueInv, QueueTyped, SentinelMeansNoClient,
     LostLinkWakesWaiter, SessionTyped, setupVars, RadioInv, RadioTyped, LinksNumbered, DueAreDown,
     radioVars
<1>3. HolderTyped' /\ NoLinkAtEstablish' /\ TeardownHasLink'
  BY <1>1 DEF IInv, BlockInv, HolderTyped, NoLinkAtEstablish, Connected, TeardownHasLink, radioVars
<1>4. NoOrphanLink' /\ TeardownsBounded'
  BY <1>1 DEF IInv, BlockInv, HolderTyped, NoOrphanLink, TeardownsBounded, radioVars
<1> QED
  BY <1>2, <1>3, <1>4 DEF IInv, BlockInv

LEMMA LinkDropsStep ==
    ASSUME IInv, NEW l \in LinkNo, LinkDrops(l) PROVE IInv'
<1>1. /\ phys[l] = "up" /\ phys' = [phys EXCEPT ![l] = "down"] /\ due' = due \cup {l}
      /\ UNCHANGED <<taskVars, at, op, fired, linkVars, setupVars, rx, links, miscVars>>
  BY DEF LinkDrops
<1>2. CallsInv' /\ QueueInv' /\ SessionTyped'
  BY <1>1, EnvironmentFrame DEF IInv, QueueInv, QueueTyped, SentinelMeansNoClient,
     LostLinkWakesWaiter, SessionTyped, setupVars, linkVars, miscVars
<1>3. RadioInv'
  BY <1>1 DEF IInv, RadioInv, RadioTyped, LinksNumbered, DueAreDown, miscVars
<1>4. HolderTyped' /\ NoLinkAtEstablish' /\ TeardownHasLink'
  BY <1>1 DEF IInv, BlockInv, HolderTyped, NoLinkAtEstablish, Connected, TeardownHasLink, RadioInv,
     RadioTyped, linkVars
<1>5. NoOrphanLink' /\ TeardownsBounded'
  BY <1>1 DEF IInv, BlockInv, NoOrphanLink, TeardownsBounded, RadioInv, RadioTyped, linkVars, miscVars
<1> QED
  BY <1>2, <1>3, <1>4, <1>5 DEF IInv, BlockInv

LEMMA OnDisconnectStep ==
    ASSUME IInv, NEW l \in LinkNo, OnDisconnect(l) PROVE IInv'
<1>1. /\ l \in due /\ due' = due \ {l}
      /\ UNCHANGED <<taskVars, at, op, fired, td, setupVars, links, phys, miscVars>>
  BY DEF OnDisconnect
<1>2. CallsInv' /\ SessionTyped' /\ RadioInv'
  BY <1>1, EnvironmentFrame DEF IInv, SessionTyped, setupVars, RadioInv, RadioTyped, LinksNumbered,
     DueAreDown, miscVars
<1>3. CASE l = client
  <2>1. ready' = FALSE /\ key' = 0 /\ client' = 0 /\ rx' = Enqueued(rx, Lost)
    BY <1>3 DEF OnDisconnect, IsCurrent
  <2>2. HolderTyped' /\ NoLinkAtEstablish' /\ TeardownHasLink'
    BY <1>1, <2>1 DEF IInv, BlockInv, HolderTyped, NoLinkAtEstablish, Connected, TeardownHasLink
  <2>3. phys[l] = "down"
    BY <1>1 DEF IInv, RadioInv, DueAreDown
  <2>4. NoOrphanLink' /\ TeardownsBounded'
    BY <1>1, <1>3, <2>1, <2>3 DEF IInv, BlockInv, NoOrphanLink, TeardownsBounded, miscVars
  <2>5. /\ rx \in Seq(Frames \cup {Lost}) /\ Len(rx) <= RxMax
        /\ \A i \in 1 .. Len(rx) : rx[i] # Lost
    BY <1>3 DEF IInv, QueueInv, QueueTyped, SentinelMeansNoClient, LinkNo
  <2>6. /\ rx' \in Seq(Frames \cup {Lost}) /\ Len(rx') <= RxMax + 1
        /\ \E i \in 1 .. Len(rx') : rx'[i] = Lost
    <3> DEFINE S == Frames \cup {Lost}
    <3>1. Lost \in S /\ rx \in Seq(S)
      BY <2>5
    <3> HIDE DEF S
    <3>2. /\ rx' \in Seq(S) /\ Len(rx') <= RxMax + 1
          /\ \E i \in 1 .. Len(rx') : rx'[i] = Lost
      BY <2>1, <2>5, <3>1, EnqueueBounded, EnqueueKeepsSentinel
    <3> QED
      BY <3>2 DEF S
  <2>7. QueueInv'
    BY <2>1, <2>6 DEF QueueInv, QueueTyped, SentinelMeansNoClient, LostLinkWakesWaiter
  <2> QED
    BY <1>2, <2>2, <2>4, <2>7 DEF IInv, BlockInv
<1>4. CASE l # client
  <2>1. UNCHANGED <<ready, key, client, rx>>
    BY <1>4 DEF OnDisconnect, IsCurrent
  <2>2. HolderTyped' /\ NoLinkAtEstablish' /\ TeardownHasLink'
    BY <1>1, <2>1 DEF IInv, BlockInv, HolderTyped, NoLinkAtEstablish, Connected, TeardownHasLink
  <2>3. NoOrphanLink' /\ TeardownsBounded'
    BY <1>1, <2>1 DEF IInv, BlockInv, NoOrphanLink, TeardownsBounded, miscVars
  <2>4. QueueInv'
    BY <1>1, <2>1 DEF IInv, QueueInv, QueueTyped, SentinelMeansNoClient, LostLinkWakesWaiter
  <2> QED
    BY <1>2, <2>2, <2>3, <2>4 DEF IInv, BlockInv
<1> QED
  BY <1>3, <1>4

LEMMA NotifiedStep ==
    ASSUME IInv, NEW l \in LinkNo, Notified(l) PROVE IInv'
<1>1. PICK d \in FrameKinds : rx' = Enqueued(rx, [kind |-> d, link |-> l])
  BY DEF Notified, Decoded, FrameKinds
<1>2. /\ l = client
      /\ UNCHANGED <<taskVars, at, op, fired, linkVars, setupVars, radioVars, miscVars>>
  BY DEF Notified, IsCurrent
<1> DEFINE f == [kind |-> d, link |-> l]
<1>3. f \in Frames /\ f # Lost
  BY DEF Frames, FrameKinds, Lost
<1> HIDE DEF f
<1>4. CallsInv' /\ SessionTyped' /\ RadioInv'
  BY <1>2, EnvironmentFrame DEF IInv, SessionTyped, setupVars, RadioInv, RadioTyped, LinksNumbered,
     DueAreDown, radioVars, miscVars
<1>5. BlockInv'
  BY <1>2 DEF IInv, BlockInv, HolderTyped, NoLinkAtEstablish, Connected, TeardownHasLink,
     NoOrphanLink, TeardownsBounded, linkVars, radioVars, miscVars
<1>6. client # 0
  BY <1>2 DEF LinkNo
<1>7. /\ rx \in Seq(Frames \cup {Lost}) /\ Len(rx) <= RxMax
      /\ \A i \in 1 .. Len(rx) : rx[i] # Lost
  BY <1>6 DEF IInv, QueueInv, QueueTyped, SentinelMeansNoClient
<1>8. rx' = Enqueued(rx, f)
  BY <1>1 DEF f
<1>9. /\ rx' \in Seq(Frames \cup {Lost}) /\ Len(rx') <= RxMax
      /\ \A i \in 1 .. Len(rx') : rx'[i] # Lost
  BY <1>3, <1>7, <1>8, EnqueueBounded
<1>10. QueueInv'
  <2>1. client' = client
    BY <1>2 DEF linkVars
  <2>2. QueueTyped'
    BY <1>9, RxMaxAssumption DEF QueueTyped
  <2> QED
    BY <1>6, <1>9, <2>1, <2>2 DEF QueueInv, SentinelMeansNoClient, LostLinkWakesWaiter
<1> QED
  BY <1>4, <1>5, <1>10 DEF IInv

LEMMA SetAdvertisedStep ==
    ASSUME IInv, SetAdvertised PROVE IInv'
<1>1. /\ advert' \in {"NONE", "AES_RC4_PSK"}
      /\ UNCHANGED <<taskVars, at, op, fired, linkVars, mode, bgc, vetted, rx, radioVars, miscVars>>
  BY ConnectionAssumption DEF SetAdvertised
<1>2. CallsInv' /\ SessionTyped' /\ RadioInv' /\ QueueInv'
  BY <1>1, EnvironmentFrame DEF IInv, SessionTyped, RadioInv, RadioTyped, LinksNumbered, DueAreDown,
     radioVars, miscVars, linkVars, QueueInv, QueueTyped, SentinelMeansNoClient, LostLinkWakesWaiter
<1>3. BlockInv'
  BY <1>1 DEF IInv, BlockInv, HolderTyped, NoLinkAtEstablish, Connected, TeardownHasLink,
     NoOrphanLink, TeardownsBounded, linkVars, radioVars, miscVars
<1> QED
  BY <1>2, <1>3 DEF IInv

LEMMA StutterStep ==
    ASSUME IInv, UNCHANGED vars PROVE IInv'
<1>1. CallsInv' /\ SessionTyped' /\ RadioInv'
  BY EnvironmentFrame DEF vars, IInv, SessionTyped, RadioInv, RadioTyped, LinksNumbered, DueAreDown,
     radioVars, miscVars, setupVars
<1>2. QueueInv'
  BY DEF vars, linkVars, IInv, QueueInv, QueueTyped, SentinelMeansNoClient, LostLinkWakesWaiter
<1>3. BlockInv'
  BY DEF vars, IInv, BlockInv, HolderTyped, NoLinkAtEstablish, Connected, TeardownHasLink,
     NoOrphanLink, TeardownsBounded, linkVars, radioVars, miscVars
<1> QED
  BY <1>1, <1>2, <1>3 DEF IInv

-----------------------------------------------------------------------------
(* The theorems.                                                           *)

LEMMA InitInductive ==
    ASSUME Init PROVE IInv
<1>1. CallsInv
  BY ConnectionAssumption DEF Init, CallsInv, CallsTyped, HolderRuns
<1>2. NoOp \in OpType
  BY DEF NoOp, OpType, Exceptions, Afters
<1>3. BlockInv
  BY <1>2 DEF Init, BlockInv, HolderTyped, NoLinkAtEstablish, TeardownHasLink, NoOrphanLink,
     TeardownsBounded
<1>4. RadioInv
  BY DEF Init, RadioInv, RadioTyped, LinksNumbered, DueAreDown
<1>5. SessionTyped
  BY ConnectionAssumption DEF Init, SessionTyped, Modes
<1>6. QueueInv
  BY RxMaxAssumption DEF Init, QueueInv, QueueTyped, SentinelMeansNoClient, LostLinkWakesWaiter
<1> QED
  BY <1>1, <1>3, <1>4, <1>5, <1>6 DEF IInv

LEMMA ProceedInductive ==
    ASSUME IInv, Proceed PROVE IInv'
<1>1. CASE \/ Acquire \/ End \/ GapEnds \/ Fresh \/ Released
           \/ Ensure \/ Connect \/ Established \/ Subscribed \/ ConnectStepFails
           \/ SessionNext \/ Unwind \/ Finished
  BY <1>1, AcquireStep, EndStep, GapEndsStep, FreshStep, ReleasedStep, EnsureStep, ConnectStep,
     EstablishedStep, SubscribedStep, ConnectStepFailsStep, SessionNextStep, UnwindStep, FinishedStep
<1>2. CASE \/ Prepare \/ BgcRead \/ SettleMode \/ KeyReply \/ ConfirmReply \/ HandshakeTimeout
           \/ SessionReady \/ SetupSend \/ SetupSent \/ SetupReply \/ SetupTimeout \/ SetupDone \/ SetupWriteFails
  BY <1>2, PrepareStep, BgcReadStep, SettleModeStep, KeyReplyStep, ConfirmReplyStep,
     HandshakeTimeoutStep, SessionReadyStep, SetupSendStep, SetupSentStep, SetupReplyStep, SetupTimeoutStep,
     SetupDoneStep, SetupWriteFailsStep
<1>3. CASE \/ Talk \/ AckReply \/ AckTimeout \/ Retry \/ CollectReply \/ CollectTimeout
           \/ StreamNext \/ WriteFails \/ TeardownWaited \/ TeardownBound
  BY <1>3, TalkStep, AckReplyStep, AckTimeoutStep, RetryStep, CollectReplyStep, CollectTimeoutStep,
     StreamNextStep, WriteFailsStep, TeardownWaitedStep, TeardownBoundStep
<1> QED
  BY <1>1, <1>2, <1>3 DEF Proceed

LEMMA NextInductive ==
    ASSUME IInv, [Next]_vars PROVE IInv'
<1>1. CASE \E t \in Tasks : Call(t) \/ CancelWaiting(t)
  BY <1>1, CallStep, CancelWaitingStep
<1>2. CASE Proceed
  BY <1>2, ProceedInductive
<1>3. CASE \E c \in Cancellations : Cancel(c)
  BY <1>3, CancelStep
<1>4. CASE Environment
  BY <1>4, TeardownEndsStep, AbandonStep, LinkDropsStep, OnDisconnectStep, NotifiedStep,
     SetAdvertisedStep DEF Environment
<1>5. CASE AllDone \/ UNCHANGED vars
  BY <1>5, StutterStep DEF AllDone
<1> QED
  BY <1>1, <1>2, <1>3, <1>4, <1>5 DEF Next

\* Whatever the callers, the links and the device do, the invariant holds.
THEOREM Inductive == Spec => []IInv
<1>1. Init => IInv
  BY InitInductive
<1>2. IInv /\ [Next]_vars => IInv'
  BY NextInductive
<1> QED
  BY <1>1, <1>2, PTL DEF Spec

\* Every variable keeps its values: the receive queue stays within
\* _RX_QUEUE_MAX frames and one sentinel, whatever the device floods.
THEOREM TypeCorrect == Spec => []TypeOK
<1>1. IInv => TypeOK
  BY DEF IInv, TypeOK, CallsInv, BlockInv, RadioInv, QueueInv
<1> QED
  BY <1>1, Inductive, PTL

\* GoveeConnection never leaks a link: one that is up is the current client,
\* or is being torn down, or its teardown was abandoned or failed.
THEOREM LinksNeverLeak == Spec => []NoOrphanLink
<1>1. IInv => NoOrphanLink
  BY DEF IInv, BlockInv
<1> QED
  BY <1>1, Inductive, PTL

\* _disconnect_locked's detached teardown always has somebody to end it: the
\* operation that waits for it, or the abandon scheduled at its bound.
THEOREM TeardownsAreBounded == Spec => []TeardownsBounded
<1>1. IInv => TeardownsBounded
  BY DEF IInv, BlockInv
<1> QED
  BY <1>1, Inductive, PTL

\* _on_disconnect wakes whoever waits: no wait of _next_rx outlives the link
\* it reads from with nothing in its queue to end it.
THEOREM WaitersWake == Spec => []LostLinkWakesWaiter
<1>1. IInv => LostLinkWakesWaiter
  BY DEF IInv, QueueInv
<1> QED
  BY <1>1, Inductive, PTL

-----------------------------------------------------------------------------
(* The steps of the holder once more, by their shape: a block somewhere, a    *)
(* move that leaves the links alone, and the few that do more.             *)

\* The step of the holder from at to pc that writes op as o and leaves the links.
Goes(from, pc, o) == at \in from /\ at' = pc /\ op' = o /\ UNCHANGED linkVars

Taken == rx # <<>> /\ rx' = Tail(rx) /\ Item # Lost

\* The blocks of the holder's steps, each where it may run.
BlockAt(e) ==
    \/ at = "fresh" /\ e = "ok" /\ TearDown("ensure", e)
    \/ at = "released" /\ e = op.exc /\ Handle(e)
    \/ at = "ensure" /\ e # "limit" /\ Leave(e)
    \/ at \in ConnectAwaits \cup {"prepare", "mode", "setup"} /\ e # "limit" /\ ConnectFails(e)
    \/ at \in ConnectAwaits /\ TearDown("unwind", e)
    \/ at = "sessionNext" /\ e = op.exc /\ Leave(e)
    \/ at = "unwind" /\ e = op.exc /\ LeaveConnect(e)
    \/ at = "finish" /\ e = "limit" /\ (\A l \in recorded : td[l] # "running") /\ Leave(e)
    \/ at \in {"finish", "attempt"} \cup TalkAwaits /\ e # "limit" /\ Leave(e)
    \/ at \in {"attempt"} \cup TalkAwaits /\ e # "limit" /\ TalkFails(e)
    \/ at = "gap" /\ e # "limit" /\ Handle(e)
    \/ at = "teardown" /\ op.after \in {"sessionNext", "unwind"} /\ LeaveConnect(e)
    \/ at = "teardown" /\ op.after \in {"retry", "ensure"} /\ e # "limit" /\ Leave(e)
    \/ at = "teardown" /\ op.after \in {"end", "released"} /\ e # "limit" /\ Handle(e)

BlockStepped ==
    /\ \E e \in Exceptions : BlockAt(e)
    /\ rx' = rx \/ rx' = <<>> \/ (rx # <<>> /\ rx' = Tail(rx))
    /\ mode' = mode \/ client' = 0
    /\ UNCHANGED <<taskVars, advert, vetted, radioVars, closed>>

\* The moves of the holder before it talks, and after.
ConnectMove ==
    \/ Goes({"gap"}, "fresh", op) /\ rx' = rx
    \/ Goes({"fresh"}, "ensure", op) /\ client = 0 /\ rx' = rx
    \/ Goes({"ensure"}, "attempt", op) /\ ~closed /\ IsConnected /\ rx' = rx
    \/ Goes({"ensure"}, "connect", [op EXCEPT !.sess = 1]) /\ ~closed /\ ~IsConnected /\ rx' = rx
    \/ Goes({"sessionNext"}, "connect", [op EXCEPT !.sess = @ + 1]) /\ rx' = rx
    \/ Goes({"connect"}, "prepare", [op EXCEPT !.links0 = links, !.exc = "ok"]) /\ rx' = rx
    \/ Goes({"connect"}, "establish", [op EXCEPT !.links0 = links, !.exc = "ok"]) /\ rx' = rx
    \/ Goes({"notify"}, "prepare", op) /\ rx' = rx
    \/ Goes({"bgc"}, "mode", op) /\ rx' = rx
    \/ Goes({"key"}, "confirm", [op EXCEPT !.hsKey = Item.link]) /\ client # 0 /\ Taken
    \/ Goes({"setup"}, "setupAck", op) /\ CanSend /\ rx' = <<>>
    \/ Goes({"setup"}, "setupSent", op) /\ CanSend /\ rx' = rx
    \/ Goes({"key", "confirm", "setupAck"}, at, op) /\ Taken
    \/ /\ at \in {"setupAck", "setupSent"} /\ at' = "setup" /\ UNCHANGED linkVars
       /\ op' \in OpType /\ op' = [op EXCEPT !.try = op'.try, !.stage = op'.stage]
       /\ rx' = rx \/ Taken

TalkMove ==
    \/ Goes({"attempt"}, Reading, [op EXCEPT !.sent = Append(@, client)]) /\ CanSend /\ rx' = <<>>
    \/ Goes({"paced"}, "paced", [op EXCEPT !.sent = Append(@, client)]) /\ CanSend /\ rx' = rx
    \/ /\ \E e \in {"ok", "rejected"} : Goes({"ack", "collect"}, "end", [op EXCEPT !.exc = e, !.heard = Item.link])
       /\ Taken
    \/ Goes({"ack", "collect"}, at, op) /\ Taken
    \/ /\ Goes({"ack"}, "attempt", [op EXCEPT !.try = @ + 1])
       /\ kind[Holder] # "once" /\ op.try < WriteAttempts /\ rx' = rx
    \/ Goes({"retry"}, "ensure", [op EXCEPT !.pass = 2, !.try = 1]) /\ rx' = rx

Moved ==
    /\ ConnectMove \/ TalkMove
    /\ UNCHANGED <<taskVars, closed, radioVars, mode, advert, vetted, recorded>>

\* The handshake's key is kept, confirmed or not.
KeyKept ==
    /\ at = "confirm" /\ KeepKey /\ (rx' = rx \/ Taken)
    /\ UNCHANGED <<taskVars, fired, setupVars, radioVars, miscVars>>

\* The steps that write what the others leave alone, and all others.
HolderStepped ==
    \/ Acquire \/ End \/ Established \/ Prepare \/ SettleMode \/ KeyKept
    \/ SessionReady \/ SetupDone \/ TeardownWaited \/ TeardownBound \/ BlockStepped \/ Moved

LEMMA Blocked ==
    ASSUME NEW e \in Exceptions, BlockAt(e),
           rx' = rx \/ rx' = <<>> \/ (rx # <<>> /\ rx' = Tail(rx)), mode' = mode \/ client' = 0,
           UNCHANGED <<taskVars, advert, vetted, radioVars, closed>>
    PROVE  BlockStepped
  BY DEF BlockStepped

LEMMA HolderSteps ==
    ASSUME IInv, Proceed \/ \E c \in Cancellations : Cancel(c)
    PROVE  HolderStepped
<1> USE DEF HolderStepped
<1>0. op \in OpType /\ op.exc \in Exceptions
  BY ExcTyped DEF IInv, BlockInv, HolderTyped
<1>1. CASE GapEnds \/ Subscribed \/ BgcRead \/ Connect \/ Retry
  BY <1>1 DEF GapEnds, Subscribed, BgcRead, Connect, Retry, ConnectMove, TalkMove, Moved, Goes,
     radioVars, setupVars, miscVars
<1>2. CASE Fresh
  BY <1>2 DEF Fresh, ConnectMove, Moved, Goes, BlockStepped, BlockAt, Exceptions, radioVars,
     setupVars, miscVars
<1>3. CASE Released
  BY <1>0, <1>3 DEF Released, BlockStepped, BlockAt, radioVars, setupVars, miscVars
<1>4. CASE Ensure
  BY <1>4 DEF Ensure, ConnectMove, Moved, Goes, BlockStepped, BlockAt, Exceptions, radioVars,
     setupVars, miscVars
<1>5. CASE ConnectStepFails
  BY <1>5 DEF ConnectStepFails, BlockStepped, BlockAt, Exceptions, ConnectAwaits, radioVars,
     setupVars, miscVars
<1>6. CASE SessionNext \/ Unwind \/ Finished
  BY <1>0, <1>6 DEF SessionNext, Unwind, Finished, ConnectMove, Moved, Goes, BlockStepped, BlockAt,
     Exceptions, Cancellations,
     radioVars, setupVars, miscVars
<1>7. CASE KeyReply
  <2>1. /\ at = "key" /\ rx # <<>> /\ rx' = Tail(rx) /\ at \in ConnectAwaits
        /\ UNCHANGED <<taskVars, fired, setupVars, radioVars, miscVars>>
    BY <1>7 DEF KeyReply, Receives, ConnectAwaits
  <2>2. CASE ConnectFails("conn")
    <3>1. "conn" \in Exceptions /\ BlockAt("conn")
      BY <2>1, <2>2 DEF BlockAt, Exceptions
    <3> QED
      BY <2>1, <3>1, Blocked DEF radioVars, setupVars, miscVars
  <2>3. CASE ~ConnectFails("conn")
    <3>1. \/ Item # Lost /\ Skip
          \/ Item # Lost /\ client # 0 /\ Goes({"key"}, "confirm", [op EXCEPT !.hsKey = Item.link])
      BY <1>7, <2>1, <2>3 DEF KeyReply, Goes, Lost
    <3> QED
      BY <2>1, <3>1 DEF Taken, Skip, ConnectMove, Moved, Goes, radioVars, setupVars, miscVars
  <2> QED
    BY <2>2, <2>3
<1>8. CASE ConfirmReply \/ HandshakeTimeout
  <2>1. /\ at \in {"key", "confirm"} /\ at \in ConnectAwaits /\ (rx' = rx \/ (rx # <<>> /\ rx' = Tail(rx)))
        /\ UNCHANGED <<taskVars, fired, setupVars, radioVars, miscVars>>
    BY <1>8 DEF ConfirmReply, HandshakeTimeout, Receives, ConnectAwaits
  <2>2. CASE \E e \in {"conn", "timeout"} : ConnectFails(e)
    <3>1. PICK e \in {"conn", "timeout"} : ConnectFails(e)
      BY <2>2
    <3>2. e \in Exceptions /\ BlockAt(e)
      BY <2>1, <3>1 DEF BlockAt, Exceptions
    <3> QED
      BY <2>1, <3>2, Blocked DEF radioVars, setupVars, miscVars
  <2>3. CASE KeepKey /\ at = "confirm" /\ (rx' = rx \/ Taken)
    BY <2>1, <2>3 DEF KeyKept
  <2>4. CASE Skip /\ Taken
    BY <2>1, <2>4 DEF Taken, Skip, ConnectMove, Moved, Goes, radioVars, setupVars, miscVars
  <2> QED
    BY <1>8, <2>2, <2>3, <2>4 DEF ConfirmReply, HandshakeTimeout, Receives, Taken, Lost
<1>9. CASE SetupSend \/ SetupWriteFails
  BY <1>9 DEF SetupSend, SetupWriteFails, ConnectMove, Moved, Goes, BlockStepped, BlockAt, Exceptions,
     ConnectAwaits, radioVars, setupVars, miscVars
<1>10. CASE SetupReply \/ SetupTimeout \/ SetupSent
  <2>1. ASSUME at \in {"setupAck", "setupSent"}, at' = "setup", UNCHANGED linkVars,
               NEW n \in Nat, NEW s \in {"unlock", "session", "done"},
               op' = [op EXCEPT !.try = n, !.stage = s], rx' = rx \/ Taken
        PROVE  ConnectMove
    <3>1. op' \in OpType /\ op'.try = n /\ op'.stage = s
      BY <1>0, <2>1 DEF OpType
    <3> QED
      BY <2>1, <3>1 DEF ConnectMove
  <2>2. op.try + 1 \in Nat /\ op.stage \in {"unlock", "session", "done"} /\ op = [op EXCEPT !.stage = op.stage]
    BY <1>0 DEF OpType
  <2>3. ASSUME NextStage, at \in {"setupAck", "setupSent"}, rx' = rx \/ Taken PROVE ConnectMove
    <3> DEFINE st == IF op.stage = "unlock" /\ HasSessionFrame THEN "session" ELSE "done"
    <3>1. st \in {"unlock", "session", "done"} /\ 1 \in Nat
      OBVIOUS
    <3>2. at' = "setup" /\ op' = [op EXCEPT !.try = 1, !.stage = st] /\ UNCHANGED linkVars
      BY <2>3 DEF NextStage
    <3> HIDE DEF st
    <3> QED
      BY <2>1, <2>3, <3>1, <3>2
  <2>4. CASE SetupReply
    <3>1. /\ at = "setupAck" /\ rx # <<>> /\ rx' = Tail(rx) /\ at \in ConnectAwaits
          /\ UNCHANGED <<taskVars, fired, setupVars, radioVars, miscVars>>
      BY <2>4 DEF SetupReply, Receives, ConnectAwaits
    <3>2. CASE \E e \in {"conn", "auth"} : ConnectFails(e)
      <4>1. PICK e \in {"conn", "auth"} : ConnectFails(e)
        BY <3>2
      <4>2. e \in Exceptions /\ BlockAt(e)
        BY <3>1, <4>1 DEF BlockAt, Exceptions
      <4> QED
        BY <3>1, <4>2, Blocked DEF radioVars, setupVars, miscVars
    <3>3. CASE NextStage /\ Item # Lost
      BY <2>3, <3>1, <3>3 DEF Taken, Moved, setupVars, radioVars, miscVars
    <3>4. CASE Skip /\ Item # Lost
      BY <3>1, <3>4 DEF Taken, Skip, ConnectMove, Moved, Goes, radioVars, setupVars, miscVars
    <3> QED
      BY <2>4, <3>2, <3>3, <3>4 DEF SetupReply, Lost
  <2>5. CASE SetupTimeout
    <3>1. CASE NextStage
      BY <2>3, <2>5, <3>1 DEF SetupTimeout, Moved, radioVars, setupVars, miscVars
    <3>2. CASE ~NextStage
      <4>1. op' = [op EXCEPT !.try = op.try + 1, !.stage = op.stage]
        BY <1>0, <2>5, <3>2 DEF SetupTimeout, OpType
      <4> QED
        BY <2>1, <2>2, <2>5, <3>2, <4>1 DEF SetupTimeout, Moved, radioVars, setupVars, miscVars
    <3> QED
      BY <3>1, <3>2
  <2>6. CASE SetupSent
    BY <2>3, <2>6 DEF SetupSent, Moved, radioVars, setupVars, miscVars
  <2> QED
    BY <1>10, <2>4, <2>5, <2>6
<1>11. CASE Talk
  BY <1>11 DEF Talk, Sends, TalkMove, Moved, Goes, BlockStepped, BlockAt, Exceptions, radioVars,
     setupVars, miscVars
<1>12. CASE AckReply
  <2>1. /\ at = "ack" /\ rx # <<>> /\ rx' = Tail(rx) /\ at \in TalkAwaits
        /\ UNCHANGED <<taskVars, fired, setupVars, radioVars, miscVars>>
    BY <1>12 DEF AckReply, Receives, TalkAwaits
  <2>2. CASE \E e \in {"ok", "lost", "rejected"} : Leave(e) \/ TalkFails(e)
    <3>1. PICK e \in {"ok", "lost", "rejected"} : Leave(e) \/ TalkFails(e)
      BY <2>2
    <3>2. e \in Exceptions /\ BlockAt(e)
      BY <2>1, <3>1 DEF BlockAt, Exceptions
    <3> QED
      BY <2>1, <3>2, Blocked DEF radioVars, setupVars, miscVars
  <2>3. CASE Item # Lost /\ \E e \in {"ok", "rejected"} : Heard(e)
    BY <2>1, <2>3 DEF Taken, Heard, TalkMove, Moved, Goes, radioVars, setupVars, miscVars
  <2>4. CASE Skip /\ Item # Lost
    BY <2>1, <2>4 DEF Taken, Skip, TalkMove, Moved, Goes, radioVars, setupVars, miscVars
  <2> QED
    BY <1>12, <2>2, <2>3, <2>4 DEF AckReply, Lost
<1>13. CASE AckTimeout
  BY <1>13 DEF AckTimeout, TalkMove, Moved, Goes, BlockStepped, BlockAt, Exceptions, TalkAwaits,
     radioVars, setupVars, miscVars
<1>14. CASE CollectReply \/ CollectTimeout
  <2>1. /\ at = "collect" /\ at \in TalkAwaits /\ (rx' = rx \/ (rx # <<>> /\ rx' = Tail(rx)))
        /\ UNCHANGED <<taskVars, fired, setupVars, radioVars, miscVars>>
    BY <1>14 DEF CollectReply, CollectTimeout, Receives, TalkAwaits
  <2>2. CASE \E e \in {"ok", "lost"} : Leave(e)
    <3>1. PICK e \in {"ok", "lost"} : Leave(e)
      BY <2>2
    <3>2. e \in Exceptions /\ BlockAt(e)
      BY <2>1, <3>1 DEF BlockAt, Exceptions
    <3> QED
      BY <2>1, <3>2, Blocked DEF radioVars, setupVars, miscVars
  <2>3. CASE Item # Lost /\ rx # <<>> /\ rx' = Tail(rx) /\ Heard("ok")
    BY <2>1, <2>3 DEF Taken, Heard, TalkMove, Moved, Goes, radioVars, setupVars, miscVars
  <2>4. CASE Skip /\ Item # Lost /\ rx # <<>> /\ rx' = Tail(rx)
    BY <2>1, <2>4 DEF Taken, Skip, TalkMove, Moved, Goes, radioVars, setupVars, miscVars
  <2> QED
    BY <1>14, <2>2, <2>3, <2>4 DEF CollectReply, CollectTimeout, Receives, Lost
<1>15. CASE StreamNext \/ WriteFails
  BY <1>15 DEF StreamNext, WriteFails, Sends, TalkMove, Moved, Goes, BlockStepped, BlockAt, Exceptions,
     TalkAwaits, radioVars, setupVars, miscVars
<1>16. ASSUME NEW c \in Cancellations, Cancel(c) PROVE BlockStepped
  <2>1. /\ at \in Awaits /\ c \in Exceptions /\ Stronger(c) \in Exceptions
        /\ rx' = rx /\ mode' = mode /\ UNCHANGED <<taskVars, advert, vetted, radioVars, closed>>
    BY <1>0, <1>16 DEF Cancel, CanFire, Exceptions, Stronger, setupVars
  <2>2. c = "limit" => at \in ConnectAwaits \/ (at = "teardown" /\ op.after \in {"sessionNext", "unwind"})
    BY <1>16 DEF Cancel, CanFire
  <2>3. c # "limit" => Stronger(c) # "limit"
    BY DEF Stronger
  <2>4. CASE at = "teardown"
    <3>1. op.after \in Afters
      BY ExcTyped
    <3>2. \/ op.after \in {"sessionNext", "unwind"} /\ LeaveConnect(Stronger(c))
          \/ op.after \in {"retry", "ensure"} /\ Leave(c)
          \/ op.after \in {"end", "released"} /\ Handle(Stronger(c))
      BY <1>16, <2>4, <3>1 DEF Cancel, CutTeardown, Afters
    <3> QED
      BY <2>1, <2>2, <2>3, <2>4, <3>2 DEF BlockStepped, BlockAt, ConnectAwaits
  <2>5. CASE at # "teardown"
    <3>1. \/ at \in ConnectAwaits /\ TearDown("unwind", c)
          \/ at \in TalkAwaits \cup {"finish"} /\ Leave(c)
          \/ at = "gap" /\ Handle(c)
      BY <1>16, <2>1, <2>5 DEF Cancel, Awaits
    <3> QED
      BY <2>1, <2>2, <2>5, <3>1 DEF BlockStepped, BlockAt, ConnectAwaits, TalkAwaits
  <2> QED
    BY <2>4, <2>5
<1> QED
  BY <1>1, <1>2, <1>3, <1>4, <1>5, <1>6, <1>7, <1>8, <1>9, <1>10, <1>11, <1>12, <1>13, <1>14, <1>15,
     <1>16 DEF Proceed

-----------------------------------------------------------------------------
(* The steps of everybody else, and where the queued frames come from.      *)

\* What a step beside the holder's does to the session.
Quiet == UNCHANGED <<client, key, ready, rx>>
LinkLost == client' = 0 /\ key' = 0 /\ ready' = FALSE /\ rx' = Enqueued(rx, Lost)
FrameCame ==
    /\ UNCHANGED <<client, key, ready>> /\ client # 0
    /\ \E f \in Frames : f.link = client /\ rx' = Enqueued(rx, f)

\* Whoever is in the lock's queue has called.
QueueCalled == \A i \in 1 .. Len(lockQ) : status[lockQ[i]] # "new"

\* The steps of waiting callers, the BLE stack and the device.
Elsewhere ==
    /\ UNCHANGED <<at, op, vetted, links, mode, kind, budget>>
    /\ at # "free" => Holder' = Holder
    /\ closed => closed'
    /\ QueueCalled => QueueCalled'
    /\ \A t \in Tasks : /\ status'[t] = "returned" => status[t] = "returned"
                        /\ status[t] = "new" /\ status'[t] # "new" /\ kind[t] = "close" => closed'
    /\ \A l \in LinkNo : td'[l] = "running" => td[l] = "running"
    /\ Quiet \/ LinkLost \/ FrameCame

LEMMA StepsElsewhere ==
    ASSUME IInv, \/ \E t \in Tasks : Call(t) \/ CancelWaiting(t)
                 \/ Environment \/ AllDone \/ UNCHANGED vars
    PROVE  Elsewhere
<1>1. ASSUME NEW t \in Tasks, Call(t) PROVE Elsewhere
  <2>1. at # "free" => Head(lockQ') = Head(lockQ)
    BY <1>1 DEF IInv, CallsInv, CallsTyped, HolderRuns, Call
  <2>2. QueueCalled => QueueCalled'
    BY <1>1 DEF IInv, CallsInv, CallsTyped, QueueCalled, Call
  <2> QED
    BY <1>1, <2>1, <2>2 DEF IInv, CallsInv, CallsTyped, Call, Elsewhere, Quiet, Holder, linkVars,
       radioVars, setupVars
<1>2. ASSUME NEW t \in Tasks, CancelWaiting(t) PROVE Elsewhere
  <2>1. PICK i \in 1 .. Len(lockQ) : lockQ[i] = t /\ lockQ' = Without(lockQ, i)
    BY <1>2 DEF CancelWaiting, IInv, CallsInv, CallsTyped
  <2>2. /\ lockQ' \in Seq(Tasks) /\ Len(lockQ') = Len(lockQ) - 1
        /\ \A j \in 1 .. (i - 1) : lockQ'[j] = lockQ[j]
        /\ \A j \in i .. (Len(lockQ) - 1) : lockQ'[j] = lockQ[j + 1]
    BY <2>1, WithoutProperties DEF IInv, CallsInv, CallsTyped
  <2>3. at # "free" => i # 1
    BY <1>2, <2>1 DEF IInv, CallsInv, CallsTyped, HolderRuns, Holder, CancelWaiting
  <2>4. at # "free" => Holder' = Holder
    BY <2>1, <2>2, <2>3 DEF IInv, CallsInv, CallsTyped, Holder
  <2>5. ASSUME QueueCalled, NEW j \in 1 .. Len(lockQ') PROVE status'[lockQ'[j]] # "new"
    <3>1. PICK k \in 1 .. Len(lockQ) : lockQ'[j] = lockQ[k]
      <4>1. lockQ \in Seq(Tasks) /\ Len(lockQ) \in Nat
        BY DEF IInv, CallsInv, CallsTyped
      <4>2. CASE j < i
        BY <2>2, <4>1, <4>2
      <4>3. CASE j >= i
        <5>1. j \in i .. (Len(lockQ) - 1) /\ j + 1 \in 1 .. Len(lockQ)
          BY <2>2, <2>5, <4>1, <4>3
        <5> QED
          BY <2>2, <5>1
      <4> QED
        BY <2>2, <2>5, <4>1, <4>2, <4>3
    <3>2. lockQ[k] \in Tasks /\ status[lockQ[k]] # "new"
      BY <2>5 DEF QueueCalled, IInv, CallsInv, CallsTyped
    <3> QED
      BY <1>2, <3>1, <3>2 DEF CancelWaiting, IInv, CallsInv, CallsTyped
  <2>6. QueueCalled => QueueCalled'
    BY <2>5 DEF QueueCalled
  <2> QED
    BY <1>2, <2>4, <2>6 DEF IInv, CallsInv, CallsTyped, CancelWaiting, Elsewhere, Quiet, linkVars,
       radioVars, setupVars, miscVars
<1>3. ASSUME NEW l \in LinkNo, TeardownEnds(l) \/ Abandon(l) \/ LinkDrops(l) PROVE Elsewhere
  BY <1>3 DEF QueueCalled, TeardownEnds, Abandon, LinkDrops, Elsewhere, Quiet, Holder, IInv,
     BlockInv, HolderTyped,
     taskVars, linkVars, radioVars, setupVars, miscVars
<1>4. ASSUME NEW l \in LinkNo, OnDisconnect(l) PROVE Elsewhere
  BY <1>4 DEF QueueCalled, OnDisconnect, Elsewhere, Quiet, LinkLost, Holder, taskVars, setupVars,
     miscVars
<1>5. ASSUME NEW l \in LinkNo, Notified(l) PROVE Elsewhere
  <2>1. PICK d \in FrameKinds : rx' = Enqueued(rx, [kind |-> d, link |-> l])
    BY <1>5 DEF Notified, Decoded, FrameKinds
  <2>2. l = client /\ l # 0 /\ UNCHANGED <<taskVars, at, op, fired, linkVars, setupVars, radioVars, miscVars>>
    BY <1>5 DEF Notified, IsCurrent, LinkNo
  <2>3. \E f \in Frames : f.link = client /\ rx' = Enqueued(rx, f)
    <3>1. [kind |-> d, link |-> l] \in Frames
      BY DEF Frames
    <3>2. [kind |-> d, link |-> l].link = client
      BY <2>2
    <3> QED
      BY <2>1, <3>1, <3>2
  <2>4. FrameCame
    BY <2>2, <2>3 DEF FrameCame, linkVars
  <2> QED
    BY <2>2, <2>4 DEF QueueCalled, Elsewhere, Holder, taskVars, linkVars, radioVars, setupVars, miscVars
<1>6. CASE SetAdvertised \/ UNCHANGED vars
  BY <1>6 DEF QueueCalled, SetAdvertised, Elsewhere, Quiet, Holder, vars, taskVars, linkVars,
     radioVars, setupVars, miscVars
<1> QED
  BY <1>1, <1>2, <1>3, <1>4, <1>5, <1>6 DEF Environment, AllDone

LEMMA EveryStep ==
    ASSUME IInv, [Next]_vars PROVE HolderStepped \/ Elsewhere
  BY HolderSteps, StepsElsewhere DEF Next

\* The frames of the queue come from link l.
FramesFrom(l, q) == \A i \in 1 .. Len(q) : q[i] # Lost => q[i].link = l

LEMMA EnqueuedFrom ==
    ASSUME NEW S, NEW q \in Seq(S), NEW item \in S, NEW l, FramesFrom(l, q),
           item = Lost \/ item.link = l
    PROVE  FramesFrom(l, Enqueued(q, item))
<1> DEFINE p == IF item # Lost /\ Len(q) >= RxMax THEN DropOldestFrame(q) ELSE q
<1>1. p \in Seq(S) /\ \A i \in 1 .. Len(p) : \E j \in 1 .. Len(q) : p[i] = q[j]
  BY DropOldestFrameProperties
<1>2. Enqueued(q, item) = Append(p, item)
  BY DEF Enqueued
<1> HIDE DEF p
<1>3. FramesFrom(l, p)
  BY <1>1 DEF FramesFrom
<1> QED
  BY <1>1, <1>2, <1>3 DEF FramesFrom

LEMMA ShrunkFrom ==
    ASSUME IInv, NEW l, FramesFrom(l, rx),
           rx' = rx \/ rx' = <<>> \/ (rx # <<>> /\ rx' = Tail(rx))
    PROVE  FramesFrom(l, rx')
<1>1. \A i \in 1 .. Len(rx') : \E j \in 1 .. Len(rx) : rx'[i] = rx[j]
  BY QueueShrinks DEF IInv, QueueInv, QueueTyped
<1> QED
  BY <1>1 DEF FramesFrom

LEMMA EmptyFrom == ASSUME NEW l PROVE FramesFrom(l, <<>>)
  BY DEF FramesFrom

LEMMA ItemFrom ==
    ASSUME IInv, NEW l, FramesFrom(l, rx), rx # <<>>, Item # Lost PROVE Item.link = l
<1>1. 1 \in 1 .. Len(rx) /\ rx[1] = Item
  BY DEF IInv, QueueInv, QueueTyped, Item
<1> QED
  BY <1>1 DEF FramesFrom

LEMMA ElsewhereFrom ==
    ASSUME IInv, NEW l, FramesFrom(l, rx), Quiet \/ LinkLost \/ (FrameCame /\ client = l)
    PROVE  FramesFrom(l, rx')
<1>1. CASE Quiet
  BY <1>1 DEF Quiet
<1> DEFINE S == Frames \cup {Lost}
<1>2. rx \in Seq(S) /\ Lost \in S /\ Frames \subseteq S
  BY DEF IInv, QueueInv, QueueTyped
<1> HIDE DEF S
<1>3. CASE LinkLost
  BY <1>2, <1>3, EnqueuedFrom DEF LinkLost
<1>4. CASE FrameCame /\ client = l
  <2>1. PICK f \in Frames : f.link = client /\ rx' = Enqueued(rx, f)
    BY <1>4 DEF FrameCame
  <2> QED
    BY <1>2, <1>4, <2>1, EnqueuedFrom
<1> QED
  BY <1>1, <1>3, <1>4

-----------------------------------------------------------------------------
(* What a block leaves behind.                                             *)

\* What every block leaves behind.
BlockLeaves ==
    /\ at' \in Afters \cup {"teardown", "finish"} /\ (at' = "teardown" => client # 0 /\ client' = 0)
    /\ UNCHANGED <<client, key, ready>> \/ (client' = 0 /\ key' = 0 /\ ~ready')
    /\ op'.sent = op.sent /\ op'.heard = op.heard /\ op'.pass = op.pass /\ op'.try = op.try

LEMMA TearDownLeaves ==
    ASSUME op \in OpType, NEW next \in Afters, NEW e \in Exceptions, TearDown(next, e)
    PROVE  BlockLeaves /\ op'.exc = e /\ op'.after = next /\ at' \in {next, "teardown"} /\ client' = 0
<1>1. op'.sent = op.sent /\ op'.heard = op.heard /\ op'.pass = op.pass /\ op'.try = op.try
      /\ op'.exc = e /\ op'.after = next
  BY DEF TearDown, OpType
<1>2. at' \in {next, "teardown"} /\ client' = 0 /\ key' = 0 /\ ~ready' /\ (at' = "teardown" => client # 0)
  BY DEF TearDown, Afters
<1> QED
  BY <1>1, <1>2 DEF BlockLeaves

LEMMA HandleLeaves ==
    ASSUME op \in OpType, NEW e \in Exceptions, Handle(e)
    PROVE  BlockLeaves /\ op'.exc = e /\ at' \in {"end", "teardown"} /\ (at' = "teardown" => op'.after = "end")
<1>1. CASE e \in {"deadline", "io"}
  BY <1>1, TearDownLeaves DEF Handle, Afters
<1>2. CASE e \notin {"deadline", "io"}
  <2>1. op'.sent = op.sent /\ op'.heard = op.heard /\ op'.pass = op.pass /\ op'.try = op.try /\ op'.exc = e
    BY <1>2 DEF Handle, OpType
  <2> QED
    BY <1>2, <2>1 DEF Handle, BlockLeaves, linkVars, Afters
<1> QED
  BY <1>1, <1>2

LEMMA LeaveLeaves ==
    ASSUME op \in OpType, NEW e \in Exceptions, Leave(e)
    PROVE  BlockLeaves /\ op'.exc = e /\ at' \in {"end", "released", "teardown"}
           /\ (at' = "teardown" => op'.after \in {"end", "released"})
<1>1. CASE kind[Holder] = "once"
  BY <1>1, TearDownLeaves DEF Leave, Afters
<1>2. CASE kind[Holder] # "once"
  BY <1>2, HandleLeaves DEF Leave
<1> QED
  BY <1>1, <1>2

LEMMA LeaveConnectLeaves ==
    ASSUME op \in OpType, NEW e \in Exceptions, LeaveConnect(e)
    PROVE  BlockLeaves /\ op'.exc = e /\ at' \in {"end", "released", "teardown", "finish"}
           /\ (at' = "teardown" => op'.after \in {"end", "released"})
<1>1. CASE e = "limit"
  <2>1. op'.sent = op.sent /\ op'.heard = op.heard /\ op'.pass = op.pass /\ op'.try = op.try /\ op'.exc = e
    BY <1>1 DEF LeaveConnect, OpType
  <2> QED
    BY <1>1, <2>1 DEF LeaveConnect, BlockLeaves, linkVars
<1>2. CASE e # "limit"
  BY <1>2, LeaveLeaves DEF LeaveConnect
<1> QED
  BY <1>1, <1>2

LEMMA ConnectFailsLeaves ==
    ASSUME op \in OpType, NEW e \in Exceptions, ConnectFails(e)
    PROVE  BlockLeaves /\ op'.exc \in {e, "conn"} /\ at' \in {"sessionNext", "teardown"}
           /\ op'.after = "sessionNext" /\ client' = 0
<1>1. TearDown("sessionNext", IF e = "io" THEN "conn" ELSE e)
  BY DEF ConnectFails
<1>2. (IF e = "io" THEN "conn" ELSE e) \in Exceptions /\ "sessionNext" \in Afters
  BY DEF Exceptions, Afters
<1> QED
  BY <1>1, <1>2, TearDownLeaves

LEMMA TalkFailsLeaves ==
    ASSUME op \in OpType, NEW e \in Exceptions, TalkFails(e)
    PROVE  /\ BlockLeaves /\ op'.exc = e /\ at' \in {"end", "released", "retry", "teardown"}
           /\ at' = "teardown" => op'.after \in {"end", "released", "retry"}
           /\ (at' = "retry" \/ (at' = "teardown" /\ op'.after = "retry"))
                => kind[Holder] = "write" /\ op.pass = 1 /\ client' = 0
<1>1. CASE kind[Holder] = "write" /\ op.pass = 1
  BY <1>1, TearDownLeaves DEF TalkFails, Afters
<1>2. CASE ~(kind[Holder] = "write" /\ op.pass = 1)
  BY <1>2, LeaveLeaves DEF TalkFails
<1> QED
  BY <1>1, <1>2

\* The holder's blocks, wherever they run.
LEMMA BlockAtLeaves ==
    ASSUME op \in OpType, NEW e \in Exceptions, BlockAt(e)
    PROVE  BlockLeaves /\ at \notin {"free", "end"}
<1>1. at \notin {"free", "end"}
  BY DEF BlockAt, ConnectAwaits, TalkAwaits
<1>2. \/ \E next \in Afters : TearDown(next, e)
      \/ Handle(e) \/ Leave(e) \/ ConnectFails(e) \/ TalkFails(e) \/ LeaveConnect(e)
  BY DEF BlockAt, Afters
<1> QED
  BY <1>1, <1>2, TearDownLeaves, HandleLeaves, LeaveLeaves, LeaveConnectLeaves, ConnectFailsLeaves,
     TalkFailsLeaves

-----------------------------------------------------------------------------
(* The reply of an operation.                                              *)

\* The link of the operation's last frame.
LastSent == op.sent[Len(op.sent)]

ReplyInv ==
    /\ at \in {"ack", "collect"} =>
          op.sent # <<>> /\ client \in {0, LastSent} /\ FramesFrom(LastSent, rx)
    /\ op.heard # 0 => at = "end" /\ ReplyFromOwnLink

LEMMA ReplyElsewhere ==
    ASSUME IInv, ReplyInv, Elsewhere PROVE ReplyInv'
<1>1. at' = at /\ op' = op
  BY DEF Elsewhere
<1>2. ASSUME at \in {"ack", "collect"} PROVE client' \in {0, LastSent} /\ FramesFrom(LastSent, rx')
  <2>1. client \in {0, LastSent} /\ FramesFrom(LastSent, rx)
    BY <1>2 DEF ReplyInv
  <2>2. client' \in {0, client} /\ (Quiet \/ LinkLost \/ (FrameCame /\ client = LastSent))
    BY <2>1 DEF Elsewhere, Quiet, LinkLost, FrameCame
  <2>3. FramesFrom(LastSent, rx')
    BY <2>1, <2>2, ElsewhereFrom
  <2> QED
    BY <2>1, <2>2, <2>3
<1> QED
  BY <1>1, <1>2 DEF ReplyInv, ReplyFromOwnLink, LastSent

\* A step that hears no reply and ends in no wait for one.
LEMMA ReplyAside ==
    ASSUME ReplyInv, at # "end", at' \notin {"ack", "collect"}, op'.heard = op.heard PROVE ReplyInv'
  BY DEF ReplyInv

LEMMA ReplyMoved ==
    ASSUME IInv, ReplyInv, Moved PROVE ReplyInv'
<1>0. op \in OpType /\ op.sent \in Seq(LinkNo) /\ client \in LinkNo \cup {0}
  BY DEF IInv, BlockInv, HolderTyped, OpType
<1>1. CASE ConnectMove
  <2>1. at # "end" /\ at' \notin {"ack", "collect"}
    BY <1>1 DEF ConnectMove, Goes
  <2>2. op'.heard = op.heard
    BY <1>0, <1>1 DEF ConnectMove, Goes, OpType
  <2> QED
    BY <2>1, <2>2, ReplyAside
<1>2. CASE \/ Goes({"attempt"}, Reading, [op EXCEPT !.sent = Append(@, client)]) /\ CanSend /\ rx' = <<>>
           \/ Goes({"paced"}, "paced", [op EXCEPT !.sent = Append(@, client)]) /\ CanSend /\ rx' = rx
  <2>1. at # "end" /\ op'.sent = Append(op.sent, client) /\ op'.heard = op.heard /\ client # 0
          /\ client' = client
    BY <1>0, <1>2 DEF Goes, CanSend, OpType, linkVars
  <2>2. op'.sent # <<>> /\ LastSent' = client
    BY <1>0, <2>1 DEF LastSent
  <2>3. at' \in {"ack", "collect"} => rx' = <<>>
    BY <1>2 DEF Goes
  <2> QED
    BY <2>1, <2>2, <2>3, EmptyFrom DEF ReplyInv
<1>3. CASE /\ \E e \in {"ok", "rejected"} : Goes({"ack", "collect"}, "end", [op EXCEPT !.exc = e, !.heard = Item.link])
           /\ Taken
  <2>1. op.sent # <<>> /\ FramesFrom(LastSent, rx) /\ rx # <<>> /\ Item # Lost
    BY <1>3 DEF ReplyInv, Goes, Taken
  <2>2. Item.link = LastSent
    BY <2>1, ItemFrom
  <2>3. at' = "end" /\ op'.heard = Item.link /\ op'.sent = op.sent
    BY <1>0, <1>3 DEF Goes, OpType
  <2> QED
    BY <2>1, <2>2, <2>3 DEF ReplyInv, ReplyFromOwnLink, LastSent
<1>4. CASE Goes({"ack", "collect"}, at, op) /\ Taken
  <2>1. at' = at /\ op' = op /\ client' = client /\ rx # <<>> /\ rx' = Tail(rx)
    BY <1>4 DEF Goes, Taken, linkVars
  <2>2. at \in {"ack", "collect"} => FramesFrom(LastSent, rx')
    BY <2>1, ShrunkFrom DEF ReplyInv
  <2> QED
    BY <2>1, <2>2 DEF ReplyInv, ReplyFromOwnLink, LastSent
<1>5. CASE \/ Goes({"ack"}, "attempt", [op EXCEPT !.try = @ + 1])
           \/ Goes({"retry"}, "ensure", [op EXCEPT !.pass = 2, !.try = 1])
  <2>1. at # "end" /\ at' \notin {"ack", "collect"} /\ op'.heard = op.heard
    BY <1>0, <1>5 DEF Goes, OpType
  <2> QED
    BY <2>1, ReplyAside
<1> QED
  BY <1>1, <1>2, <1>3, <1>4, <1>5 DEF Moved, TalkMove

LEMMA ReplyHolder ==
    ASSUME IInv, ReplyInv, HolderStepped PROVE ReplyInv'
<1>0. op \in OpType /\ op.after \in Afters
  BY ExcTyped DEF IInv, BlockInv, HolderTyped
<1>1. CASE Moved
  BY <1>1, ReplyMoved
<1>2. CASE BlockStepped
  <2>1. PICK e \in Exceptions : BlockAt(e)
    BY <1>2 DEF BlockStepped
  <2>2. BlockLeaves /\ at # "end"
    BY <1>0, <2>1, BlockAtLeaves
  <2> QED
    BY <2>2, ReplyAside DEF BlockLeaves, Afters
<1>3. CASE Acquire
  <2>1. \/ TearDown("end", "ok")
        \/ at' \in {"end", "gap", "fresh", "ensure"} /\ op' = op
    BY <1>3 DEF Acquire
  <2>2. at' \notin {"ack", "collect"} /\ op'.heard = op.heard
    BY <1>0, <2>1, TearDownLeaves DEF BlockLeaves, Afters, Exceptions
  <2> QED
    BY <1>3, <2>2, ReplyAside DEF Acquire
<1>4. CASE End
  BY <1>4 DEF End, NoOp, ReplyInv
<1>5. CASE Established \/ SessionReady \/ SetupDone \/ KeyKept
  <2>1. at # "end" /\ at' \notin {"ack", "collect"} /\ op'.heard = op.heard
    BY <1>0, <1>5 DEF Established, SessionReady, SetupDone, KeyKept, KeepKey, OpType
  <2> QED
    BY <2>1, ReplyAside
<1>6. CASE Prepare \/ SettleMode
  <2>1. \/ \E e \in {"conn", "notSupported"} : ConnectFails(e)
        \/ at' \in {"bgc", "mode", "key", "ready"} /\ op' \in {op, [op EXCEPT !.adv = advert]}
    BY <1>6 DEF Prepare, SettleMode
  <2>2. at' \notin {"ack", "collect"} /\ op'.heard = op.heard
    <3>1. CASE \E e \in {"conn", "notSupported"} : ConnectFails(e)
      BY <1>0, <3>1, ConnectFailsLeaves DEF BlockLeaves, Afters, Exceptions
    <3>2. CASE at' \in {"bgc", "mode", "key", "ready"} /\ op' \in {op, [op EXCEPT !.adv = advert]}
      BY <1>0, <3>2 DEF OpType
    <3> QED
      BY <2>1, <3>1, <3>2
  <2> QED
    BY <1>6, <2>2, ReplyAside DEF Prepare, SettleMode
<1>7. CASE TeardownWaited \/ TeardownBound
  <2>1. at # "end" /\ at' = op.after /\ op'.heard = op.heard
    BY <1>0, <1>7 DEF TeardownWaited, TeardownBound, OpType
  <2> QED
    BY <1>0, <2>1, ReplyAside DEF Afters
<1> QED
  BY <1>1, <1>2, <1>3, <1>4, <1>5, <1>6, <1>7 DEF HolderStepped

\* "A superseded client never reaches the current session" (_on_notify's check
\* of the client, and the drain before each write): whatever links come and
\* go, the reply that ends an operation came over the link its last frame went
\* out on.
THEOREM RepliesAreOwn == Spec => []ReplyFromOwnLink
<1>1. Init => ReplyInv
  BY DEF Init, NoOp, ReplyInv
<1>2. IInv /\ ReplyInv /\ [Next]_vars => ReplyInv'
  BY EveryStep, ReplyElsewhere, ReplyHolder
<1>3. ReplyInv => ReplyFromOwnLink
  BY DEF ReplyInv, ReplyFromOwnLink
<1> QED
  BY <1>1, <1>2, <1>3, Inductive, PTL DEF Spec

-----------------------------------------------------------------------------
(* close().                                                                *)

\* Between its start and its end an operation keeps the lock and the calls.
LEMMA HolderKeepsCalls ==
    ASSUME HolderStepped, ~Acquire, ~End
    PROVE  UNCHANGED <<taskVars, closed>> /\ at # "end"
<1>1. CASE BlockStepped
  <2>1. PICK e \in Exceptions : BlockAt(e)
    BY <1>1 DEF BlockStepped
  <2>2. at # "end"
    BY <2>1 DEF BlockAt, ConnectAwaits, TalkAwaits
  <2> QED
    BY <1>1, <2>2 DEF BlockStepped
<1>2. CASE Moved
  BY <1>2 DEF Moved, ConnectMove, TalkMove, Goes
<1>3. CASE Established \/ Prepare \/ SettleMode \/ KeyKept \/ SessionReady \/ SetupDone
             \/ TeardownWaited \/ TeardownBound
  BY <1>3 DEF Established, Prepare, SettleMode, KeyKept, SessionReady, SetupDone, TeardownWaited,
     TeardownBound, miscVars
<1> QED
  BY <1>1, <1>2, <1>3 DEF HolderStepped

CloseCalled == \A t \in Tasks : kind[t] = "close" /\ status[t] # "new" => closed

CloseHolds ==
    at # "free" /\ kind[Holder] = "close" =>
        client = 0 /\ at \in {"teardown", "end"} /\ (at = "teardown" => op.after = "end")

CloseReturned == \E t \in Tasks : kind[t] = "close" /\ status[t] = "returned"

ClosedInv ==
    /\ QueueCalled /\ CloseCalled /\ CloseHolds
    /\ CloseReturned => client = 0 /\ at \in {"free", "end", "gap", "fresh", "ensure", "released"}

LEMMA ClosedElsewhere ==
    ASSUME IInv, ClosedInv, Elsewhere PROVE ClosedInv'
<1>1. at' = at /\ op' = op /\ kind' = kind
  BY DEF Elsewhere
<1>2. client = 0 => client' = 0
  BY DEF Elsewhere, Quiet, LinkLost, FrameCame
<1>3. QueueCalled'
  BY DEF Elsewhere, ClosedInv
<1>4. CloseCalled'
  BY <1>1 DEF Elsewhere, ClosedInv, CloseCalled
<1>5. CloseHolds'
  BY <1>1, <1>2 DEF Elsewhere, ClosedInv, CloseHolds
<1>6. CloseReturned' => CloseReturned
  BY <1>1 DEF Elsewhere, CloseReturned
<1> QED
  BY <1>1, <1>2, <1>3, <1>4, <1>5, <1>6 DEF ClosedInv

LEMMA ClosedAcquire ==
    ASSUME IInv, ClosedInv, Acquire PROVE ClosedInv'
<1>0. op \in OpType /\ lockQ \in Seq(Tasks) /\ lockQ # <<>>
        /\ status \in [Tasks -> {"new", "waiting", "running", "returned", "raised"}]
  BY DEF Acquire, IInv, CallsInv, CallsTyped, BlockInv, HolderTyped
<1>1. /\ Holder \in Tasks /\ Holder' = Holder /\ status[Holder] # "new"
      /\ lockQ' = lockQ /\ kind' = kind /\ closed' = closed /\ at = "free"
      /\ status' = [status EXCEPT ![Holder] = "running"]
  BY <1>0 DEF Acquire, Holder, ClosedInv, QueueCalled, miscVars
<1>2. QueueCalled' /\ CloseCalled'
  BY <1>0, <1>1 DEF ClosedInv, QueueCalled, CloseCalled
<1>3. \/ kind[Holder] \in {"disconnect", "close"} /\ TearDown("end", "ok")
      \/ kind[Holder] # "close" /\ at' \in {"end", "gap", "fresh", "ensure"} /\ client' = client
  BY DEF Acquire, linkVars
<1>4. CloseHolds'
  BY <1>0, <1>1, <1>3, TearDownLeaves DEF CloseHolds, Afters, Exceptions
<1>5. CloseReturned' => CloseReturned
  BY <1>0, <1>1 DEF CloseReturned
<1>6. client = 0 => client' = 0 /\ at' \in {"end", "gap", "fresh", "ensure"}
  BY <1>3 DEF TearDown
<1> QED
  BY <1>2, <1>4, <1>5, <1>6 DEF ClosedInv

LEMMA ClosedEnd ==
    ASSUME IInv, ClosedInv, End PROVE ClosedInv'
<1>0. /\ lockQ \in Seq(Tasks) /\ lockQ # <<>>
           /\ status \in [Tasks -> {"new", "waiting", "running", "returned", "raised"}]
      /\ at = "end" /\ at' = "free" /\ lockQ' = Tail(lockQ) /\ kind' = kind /\ closed' = closed
           /\ client' = client
  BY DEF End, IInv, CallsInv, CallsTyped, HolderRuns, linkVars, miscVars
<1>1. /\ Holder \in Tasks /\ status[Holder] = "running"
      /\ \/ status' = [status EXCEPT ![Holder] = "returned"]
         \/ status' = [status EXCEPT ![Holder] = "raised"]
  <2>1. Holder \in Tasks /\ status[Holder] = "running"
    BY <1>0 DEF Holder, IInv, CallsInv, HolderRuns
  <2>2. status' = [status EXCEPT ![Holder] = IF op.exc = "ok" THEN "returned" ELSE "raised"]
    BY DEF End
  <2> QED
    BY <2>1, <2>2
<1>2. QueueCalled'
  BY <1>0, <1>1 DEF ClosedInv, QueueCalled
<1>3. CloseCalled' /\ CloseHolds'
  BY <1>0, <1>1 DEF ClosedInv, CloseCalled, CloseHolds
<1>4. CloseReturned' => CloseReturned \/ kind[Holder] = "close"
  BY <1>0, <1>1 DEF CloseReturned
<1>5. CloseReturned' => client = 0
  BY <1>0, <1>4 DEF ClosedInv, CloseHolds
<1> QED
  BY <1>0, <1>2, <1>3, <1>5 DEF ClosedInv

\* Where a block may lead that runs without a client after a close.
LEMMA ClosedBlock ==
    ASSUME IInv, ClosedInv, BlockStepped PROVE CloseHolds' /\ (CloseReturned => client' = 0
             /\ at' \in {"end", "ensure", "released"})
<1>0. op \in OpType
  BY DEF IInv, BlockInv, HolderTyped
<1>1. PICK e \in Exceptions : BlockAt(e)
  BY DEF BlockStepped
<1>2. BlockLeaves /\ at # "free" /\ Holder' = Holder /\ kind' = kind
  BY <1>0, <1>1, BlockAtLeaves DEF BlockStepped, taskVars, Holder
<1>3. ASSUME kind[Holder] = "close" PROVE CloseHolds'
  <2>1. client = 0 /\ at = "teardown" /\ op.after = "end"
    BY <1>0, <1>1, <1>2, <1>3, BlockAtLeaves DEF ClosedInv, CloseHolds
  <2>2. Handle(e)
    BY <1>1, <2>1 DEF BlockAt, ConnectAwaits, TalkAwaits
  <2> QED
    BY <1>0, <1>2, <2>1, <2>2, HandleLeaves DEF CloseHolds, BlockLeaves
<1>4. ASSUME CloseReturned PROVE client' = 0 /\ at' \in {"end", "ensure", "released"}
  <2>1. client = 0 /\ at \in {"free", "end", "gap", "fresh", "ensure", "released"}
    BY <1>4 DEF ClosedInv
  <2>2. client' = 0 /\ at' # "teardown"
    BY <1>2, <2>1 DEF BlockLeaves
  <2>3. TearDown("ensure", e) \/ Handle(e) \/ Leave(e)
    BY <1>1, <2>1 DEF BlockAt, ConnectAwaits, TalkAwaits
  <2>4. at' \in {"end", "ensure", "released", "teardown"}
    BY <1>0, <2>3, TearDownLeaves, HandleLeaves, LeaveLeaves DEF Afters
  <2> QED
    BY <2>2, <2>4
<1> QED
  BY <1>2, <1>3, <1>4 DEF CloseHolds

LEMMA ClosedHolder ==
    ASSUME IInv, ClosedInv, HolderStepped PROVE ClosedInv'
<1>1. CASE Acquire
  BY <1>1, ClosedAcquire
<1>2. CASE End
  BY <1>2, ClosedEnd
<1>3. CASE ~Acquire /\ ~End
  <2>1. UNCHANGED <<taskVars, closed>>
    BY <1>3, HolderKeepsCalls
  <2>2. /\ QueueCalled' /\ CloseCalled' /\ (CloseReturned' <=> CloseReturned)
        /\ Holder' = Holder /\ kind' = kind
    BY <2>1 DEF taskVars, ClosedInv, QueueCalled, CloseCalled, CloseReturned, Holder
  <2>3. CloseReturned => closed
    BY DEF ClosedInv, CloseReturned, CloseCalled
  <2>4. CASE BlockStepped
    BY <2>2, <2>4, ClosedBlock DEF ClosedInv
  <2>5. CASE Moved
    <3>1. client' = client /\ at \notin {"free", "teardown", "end"}
      BY <2>5 DEF Moved, ConnectMove, TalkMove, Goes, linkVars
    <3>2. at \in {"gap", "fresh", "ensure", "released"} /\ closed => at' \in {"fresh", "ensure"}
      BY <2>5 DEF Moved, ConnectMove, TalkMove, Goes
    <3>3. CloseHolds'
      BY <2>2, <3>1 DEF ClosedInv, CloseHolds
    <3> QED
      BY <2>2, <2>3, <3>1, <3>2, <3>3 DEF ClosedInv
  <2>6. CASE TeardownWaited \/ TeardownBound
    <3>1. client' = client /\ at = "teardown" /\ at' = op.after
      BY <2>6 DEF TeardownWaited, TeardownBound, linkVars
    <3>2. CloseHolds'
      BY <2>2, <3>1 DEF ClosedInv, CloseHolds
    <3> QED
      BY <2>2, <3>1, <3>2 DEF ClosedInv
  <2>7. CASE Established \/ Prepare \/ SettleMode \/ KeyKept \/ SessionReady \/ SetupDone
    <3>1. at \notin {"free", "teardown", "end", "gap", "fresh", "ensure", "released"}
      BY <2>7 DEF Established, Prepare, SettleMode, KeyKept, SessionReady, SetupDone
    <3>2. CloseHolds'
      BY <2>2, <3>1 DEF ClosedInv, CloseHolds
    <3> QED
      BY <2>2, <3>1, <3>2 DEF ClosedInv
  <2> QED
    BY <1>3, <2>4, <2>5, <2>6, <2>7 DEF HolderStepped
<1> QED
  BY <1>1, <1>2, <1>3

\* close(): _closed is set before it waits for the lock, every connect checks
\* it under the lock, so once it has returned there is no link and no connect
\* phase on its way to one.
THEOREM StaysClosed == Spec => []ClosedForGood
<1>1. Init => ClosedInv
  BY DEF Init, ClosedInv, QueueCalled, CloseCalled, CloseHolds, CloseReturned
<1>2. IInv /\ ClosedInv /\ [Next]_vars => ClosedInv'
  BY EveryStep, ClosedElsewhere, ClosedHolder
<1>3. ClosedInv => ClosedForGood
  BY DEF ClosedInv, ClosedForGood, CloseReturned, ConnectAwaits
<1> QED
  BY <1>1, <1>2, <1>3, Inductive, PTL DEF Spec

-----------------------------------------------------------------------------
(* The connect limit.                                                      *)

NoneRunning == \A l \in LinkNo : td[l] # "running"

LimitInv ==
    /\ at \in {"teardown", "unwind", "finish"} => client = 0
    /\ op.exc = "limit" =>
          /\ at \in {"teardown", "unwind", "finish", "released", "end"}
          /\ at = "teardown" => op.after = "unwind"
          /\ at \in {"released", "end"} => client = 0 /\ NoneRunning

LEMMA LimitElsewhere ==
    ASSUME IInv, LimitInv, Elsewhere PROVE LimitInv'
<1>1. client = 0 => client' = 0
  BY DEF Elsewhere, Quiet, LinkLost, FrameCame
<1>2. NoneRunning => NoneRunning'
  BY DEF Elsewhere, NoneRunning
<1> QED
  BY <1>1, <1>2 DEF Elsewhere, LimitInv

\* A step that ends in no unwinding, with no connect limit.
LEMMA LimitAside ==
    ASSUME op'.exc # "limit", at' \notin {"teardown", "unwind", "finish"} PROVE LimitInv'
  BY DEF LimitInv

LEMMA LimitBlock ==
    ASSUME IInv, LimitInv, NEW e \in Exceptions, BlockAt(e) PROVE LimitInv'
<1>0. op \in OpType /\ op.exc \in Exceptions
  BY ExcTyped DEF IInv, BlockInv, HolderTyped
<1>1. BlockLeaves
  BY <1>0, BlockAtLeaves
<1>2. at' = "teardown" => client' = 0
  BY <1>1 DEF BlockLeaves
<1>3. ASSUME e # "limit" PROVE LimitInv'
  <2>1. \/ \E next \in Afters \ {"unwind"} : TearDown(next, e)
        \/ TearDown("unwind", e)
        \/ Handle(e) \/ Leave(e) \/ ConnectFails(e) \/ TalkFails(e) \/ LeaveConnect(e)
    BY DEF BlockAt, Afters
  <2>2. op'.exc # "limit" /\ (at' = "unwind" => client' = 0)
    <3>1. CASE \E next \in Afters \ {"unwind"} : TearDown(next, e)
      BY <1>0, <1>3, <3>1, TearDownLeaves DEF Afters
    <3>2. CASE TearDown("unwind", e)
      BY <1>0, <1>3, <3>2, TearDownLeaves DEF Afters
    <3>3. CASE Handle(e) \/ Leave(e)
      BY <1>0, <1>3, <3>3, HandleLeaves, LeaveLeaves
    <3>4. CASE ConnectFails(e)
      BY <1>0, <1>3, <3>4, ConnectFailsLeaves
    <3>5. CASE TalkFails(e) \/ LeaveConnect(e)
      BY <1>0, <1>3, <3>5, TalkFailsLeaves, LeaveConnectLeaves
    <3> QED
      BY <2>1, <3>1, <3>2, <3>3, <3>4, <3>5
  <2>3. at' # "finish"
    <3>1. CASE LeaveConnect(e)
      <4>1. Leave(e)
        BY <1>3, <3>1 DEF LeaveConnect
      <4> QED
        BY <1>0, <4>1, LeaveLeaves
    <3>2. CASE ~LeaveConnect(e)
      BY <1>0, <2>1, <3>2, TearDownLeaves, HandleLeaves, LeaveLeaves, ConnectFailsLeaves,
         TalkFailsLeaves DEF Afters
    <3> QED
      BY <3>1, <3>2
  <2> QED
    BY <1>2, <2>2, <2>3 DEF LimitInv
<1>4. ASSUME e = "limit" PROVE LimitInv'
  <2>1. \/ at = "released" /\ op.exc = "limit" /\ Handle(e)
        \/ TearDown("unwind", e)
        \/ at = "unwind" /\ LeaveConnect(e)
        \/ at = "finish" /\ (\A l \in recorded : td[l] # "running") /\ Leave(e)
        \/ at = "teardown" /\ LeaveConnect(e)
        \/ at = "sessionNext" /\ op.exc = "limit"
    BY <1>4 DEF BlockAt
  <2>2. CASE at = "released" /\ op.exc = "limit" /\ Handle(e)
    <3>1. at' = "end" /\ UNCHANGED linkVars
      BY <1>4, <2>2 DEF Handle
    <3>2. client = 0 /\ NoneRunning
      BY <2>2 DEF LimitInv
    <3> QED
      BY <3>1, <3>2 DEF LimitInv, linkVars, NoneRunning
  <2>3. CASE TearDown("unwind", e)
    <3>1. op'.exc = e /\ op'.after = "unwind" /\ at' \in {"unwind", "teardown"} /\ client' = 0
      BY <1>0, <2>3, TearDownLeaves DEF Afters
    <3> QED
      BY <1>4, <3>1 DEF LimitInv
  <2>4. CASE at \in {"unwind", "teardown"} /\ LeaveConnect(e)
    <3>1. at' = "finish" /\ UNCHANGED linkVars /\ client = 0
      BY <1>4, <2>4 DEF LeaveConnect, LimitInv
    <3> QED
      BY <3>1 DEF LimitInv, linkVars
  <2>5. CASE at = "finish" /\ (\A l \in recorded : td[l] # "running") /\ Leave(e)
    <3>1. client = 0 /\ NoneRunning
      BY <2>5 DEF LimitInv, NoneRunning, IInv, BlockInv, TeardownsBounded
    <3>2. at' \in {"end", "released", "teardown"} /\ BlockLeaves
      BY <1>0, <1>1, <2>5, LeaveLeaves
    <3>3. at' \in {"end", "released"} /\ client' = 0
      BY <3>1, <3>2 DEF BlockLeaves
    <3>4. td' = td
      BY <3>1, <2>5 DEF Leave, Handle, TearDown, linkVars
    <3> QED
      BY <3>1, <3>3, <3>4 DEF LimitInv, NoneRunning
  <2>6. CASE at = "sessionNext" /\ op.exc = "limit"
    BY <2>6 DEF LimitInv
  <2> QED
    BY <2>1, <2>2, <2>3, <2>4, <2>5, <2>6
<1> QED
  BY <1>3, <1>4

LEMMA LimitHolder ==
    ASSUME IInv, LimitInv, HolderStepped PROVE LimitInv'
<1>0. op \in OpType /\ op.after \in Afters /\ client \in LinkNo \cup {0}
  BY ExcTyped DEF IInv, BlockInv, HolderTyped
<1>1. CASE BlockStepped
  BY <1>1, LimitBlock DEF BlockStepped
<1>2. CASE Moved
  <2>1. at \notin {"teardown", "unwind", "finish", "released", "end"}
          /\ at' \notin {"teardown", "unwind", "finish"}
    BY <1>2 DEF Moved, ConnectMove, TalkMove, Goes, Reading
  <2>2. op.exc # "limit"
    BY <2>1 DEF LimitInv
  <2>3. op'.exc \in {op.exc, "ok", "rejected"}
    BY <1>0, <1>2 DEF Moved, ConnectMove, TalkMove, Goes, OpType
  <2> QED
    BY <2>1, <2>2, <2>3, LimitAside
<1>3. CASE Acquire
  <2>1. op.exc # "limit"
    BY <1>3 DEF LimitInv, Acquire
  <2>2. \/ TearDown("end", "ok")
        \/ at' \in {"end", "gap", "fresh", "ensure"} /\ op' = op
    BY <1>3 DEF Acquire
  <2>3. CASE TearDown("end", "ok")
    BY <1>0, <2>3, TearDownLeaves DEF LimitInv, Afters, Exceptions
  <2>4. CASE at' \in {"end", "gap", "fresh", "ensure"} /\ op' = op
    BY <2>1, <2>4, LimitAside
  <2> QED
    BY <2>2, <2>3, <2>4
<1>4. CASE End
  BY <1>4, LimitAside DEF End, NoOp
<1>5. CASE Established \/ SessionReady \/ SetupDone \/ KeyKept
  <2>1. at \notin {"teardown", "unwind", "finish", "released", "end"}
          /\ at' \notin {"teardown", "unwind", "finish"}
    BY <1>5 DEF Established, SessionReady, SetupDone, KeyKept, KeepKey
  <2>2. op'.exc = op.exc
    BY <1>0, <1>5 DEF Established, SessionReady, SetupDone, KeyKept, KeepKey, OpType
  <2> QED
    BY <2>1, <2>2, LimitAside DEF LimitInv
<1>6. CASE Prepare \/ SettleMode
  <2>0. op.exc # "limit"
    BY <1>6 DEF LimitInv, Prepare, SettleMode
  <2>1. \/ \E e \in {"conn", "notSupported"} : ConnectFails(e)
        \/ at' \in {"bgc", "mode", "key", "ready"} /\ op' \in {op, [op EXCEPT !.adv = advert]}
    BY <1>6 DEF Prepare, SettleMode
  <2>2. CASE \E e \in {"conn", "notSupported"} : ConnectFails(e)
    BY <1>0, <2>2, ConnectFailsLeaves DEF LimitInv, Exceptions
  <2>3. CASE at' \in {"bgc", "mode", "key", "ready"} /\ op' \in {op, [op EXCEPT !.adv = advert]}
    BY <1>0, <2>0, <2>3, LimitAside DEF OpType
  <2> QED
    BY <2>1, <2>2, <2>3
<1>7. CASE TeardownWaited \/ TeardownBound
  <2>1. at = "teardown" /\ at' = op.after /\ op'.exc = op.exc /\ client' = client /\ client = 0
    BY <1>0, <1>7 DEF TeardownWaited, TeardownBound, OpType, linkVars, LimitInv
  <2>2. op.exc = "limit" => op.after = "unwind"
    BY <2>1 DEF LimitInv
  <2> QED
    BY <1>0, <2>1, <2>2 DEF LimitInv, Afters
<1> QED
  BY <1>1, <1>2, <1>3, <1>4, <1>5, <1>6, <1>7 DEF HolderStepped

\* _finish_teardown: a connect that ran into its own limit waits for every
\* teardown a cancellation cut short before it gives the lock up.
THEOREM LimitFinishesTeardowns == Spec => []LimitLeavesNoTeardown
<1>1. Init => LimitInv
  BY DEF Init, NoOp, LimitInv
<1>2. IInv /\ LimitInv /\ [Next]_vars => LimitInv'
  BY EveryStep, LimitElsewhere, LimitHolder
<1>3. LimitInv => LimitLeavesNoTeardown
  BY DEF LimitInv, LimitLeavesNoTeardown, NoneRunning
<1> QED
  BY <1>1, <1>2, <1>3, Inductive, PTL DEF Spec

-----------------------------------------------------------------------------
(* The session of the current link.                                        *)

\* Where the current link's session is not set up yet, being set up, in use.
Opening == {"notify", "prepare"}
Securing == {"bgc", "mode", "key", "confirm", "ready"}
Settling == {"setup", "setupAck", "setupSent"}
Talking == {"attempt", "ack", "collect", "paced"}

SessionInv ==
    client # 0 =>
        /\ FramesFrom(client, rx)
        /\ at = "confirm" => op.hsKey = client
        /\ at \in {"key", "confirm"} => mode = "AES_RC4_PSK"
        /\ at = "ready" => mode # "AES_GCM"
        /\ at \in Securing => ~ready
        /\ at \in Settling \cup Talking => ready
        /\ at \notin Opening => /\ key \in {0, client}
                                /\ ready => mode # "AES_GCM"
                                /\ ready /\ at \notin Settling => vetted = client

\* A step that leaves the session as it is, between operations or in one.
LEMMA SessionAside ==
    ASSUME IInv, SessionInv, at \notin Opening \cup Settling, at' \notin Securing \cup Settling \cup Talking,
           UNCHANGED <<client, key, ready, mode, vetted>>,
           rx' = rx \/ rx' = <<>> \/ (rx # <<>> /\ rx' = Tail(rx))
    PROVE  SessionInv'
<1>1. client # 0 => FramesFrom(client, rx')
  BY ShrunkFrom DEF SessionInv
<1> QED
  BY <1>1 DEF SessionInv, Securing

LEMMA SessionElsewhere ==
    ASSUME IInv, SessionInv, Elsewhere PROVE SessionInv'
<1>1. UNCHANGED <<at, op, mode, vetted>> /\ (Quiet \/ LinkLost \/ FrameCame)
  BY DEF Elsewhere
<1>2. CASE LinkLost
  BY <1>2 DEF LinkLost, SessionInv
<1>3. CASE Quiet \/ FrameCame
  <2>1. UNCHANGED <<client, key, ready>>
    BY <1>3 DEF Quiet, FrameCame
  <2>2. client # 0 => FramesFrom(client, rx')
    BY <1>3, ElsewhereFrom DEF SessionInv
  <2> QED
    BY <1>1, <2>1, <2>2 DEF SessionInv
<1> QED
  BY <1>1, <1>2, <1>3

LEMMA SessionBlock ==
    ASSUME IInv, SessionInv, BlockStepped PROVE SessionInv'
<1>0. op \in OpType
  BY DEF IInv, BlockInv, HolderTyped
<1>1. PICK e \in Exceptions : BlockAt(e)
  BY DEF BlockStepped
<1>2. BlockLeaves
  BY <1>0, <1>1, BlockAtLeaves
<1>3. CASE client' = 0
  BY <1>3 DEF SessionInv
<1>4. CASE client' # 0
  <2>1. ~\E next \in Afters : TearDown(next, e)
    BY <1>4 DEF TearDown
  <2>2. ~ConnectFails(e)
    BY <1>0, <1>4, ConnectFailsLeaves
  <2>3. at \notin ConnectAwaits \cup {"prepare", "setup"}
    BY <1>1, <2>1, <2>2 DEF BlockAt, ConnectAwaits, TalkAwaits, Afters
  <2>4. at \notin Opening \cup Settling /\ at' \notin Securing \cup Settling \cup Talking
    BY <1>2, <2>3 DEF ConnectAwaits, Opening, Securing, Settling, Talking, BlockLeaves, Afters
  <2>5. UNCHANGED <<client, key, ready, mode, vetted>>
    BY <1>2, <1>4 DEF BlockLeaves, BlockStepped
  <2> QED
    BY <2>4, <2>5, SessionAside DEF BlockStepped
<1> QED
  BY <1>3, <1>4

LEMMA SessionMoved ==
    ASSUME IInv, SessionInv, Moved PROVE SessionInv'
<1>0. op \in OpType
  BY DEF IInv, BlockInv, HolderTyped
<1>1. UNCHANGED <<client, key, ready, mode, vetted>> /\ (rx' = rx \/ rx' = <<>> \/ (rx # <<>>
        /\ rx' = Tail(rx)))
  BY DEF Moved, ConnectMove, TalkMove, Goes, Taken, linkVars
<1>2. client # 0 => FramesFrom(client, rx')
  BY <1>1, ShrunkFrom DEF SessionInv
<1>3. CASE \/ at \in {"gap", "fresh", "sessionNext", "retry"} /\ at' \in {"fresh", "ensure", "connect"}
           \/ at = "ensure" /\ at' = "connect"
           \/ at = "connect" /\ at' \in {"prepare", "establish"}
           \/ at \in Talking /\ at' = "end"
  BY <1>1, <1>3, SessionAside DEF Opening, Securing, Settling, Talking
<1>4. CASE \/ at = "ensure" /\ at' = "attempt" /\ IsConnected
           \/ at \in Talking /\ at' \in Talking
  BY <1>1, <1>2, <1>4 DEF IsConnected, SessionInv, Opening, Securing, Settling, Talking
<1>5. CASE \/ at = "notify" /\ at' = "prepare"
           \/ at = "bgc" /\ at' = "mode"
           \/ at \in Settling /\ at' \in Settling
           \/ at = "key" /\ at' = "key"
  BY <1>1, <1>2, <1>5 DEF SessionInv, Opening, Securing, Settling, Talking
<1>6. CASE at = "key" /\ at' = "confirm" /\ op' = [op EXCEPT !.hsKey = Item.link] /\ client # 0 /\ Taken
  <2>1. Item.link = client
    BY <1>6, ItemFrom DEF SessionInv, Taken
  <2>2. op'.hsKey = client
    BY <1>0, <1>6, <2>1 DEF OpType
  <2> QED
    BY <1>1, <1>2, <1>6, <2>2 DEF SessionInv, Opening, Securing, Settling, Talking
<1>7. CASE at = "confirm" /\ at' = "confirm" /\ op' = op
  BY <1>1, <1>2, <1>7 DEF SessionInv, Opening, Securing, Settling, Talking
<1>8. CASE TalkMove
  <2>1. at \in Talking \cup {"retry"} /\ at' \in Talking \cup {"ensure", "end"}
          /\ (at' = "ensure" => at = "retry")
        /\ (at = "retry" => at' = "ensure")
    BY <1>8 DEF TalkMove, Goes, Reading, Talking
  <2> QED
    BY <1>3, <1>4, <2>1
<1>9. CASE ConnectMove
  BY <1>3, <1>4, <1>5, <1>6, <1>7, <1>9 DEF ConnectMove, Goes, Settling
<1> QED
  BY <1>8, <1>9 DEF Moved

LEMMA SessionHolder ==
    ASSUME IInv, SessionInv, HolderStepped PROVE SessionInv'
<1>0. op \in OpType /\ op.after \in Afters /\ op.adv \in {"NONE", "AES_RC4_PSK"}
  BY ExcTyped DEF IInv, BlockInv, HolderTyped, OpType
<1>1. CASE BlockStepped
  BY <1>1, SessionBlock
<1>2. CASE Moved
  BY <1>2, SessionMoved
<1>3. CASE Acquire
  <2>1. \/ TearDown("end", "ok")
        \/ at' \in {"end", "gap", "fresh", "ensure"} /\ UNCHANGED <<client, key, ready>>
    BY <1>3 DEF Acquire, linkVars
  <2>2. CASE TearDown("end", "ok")
    BY <2>2 DEF TearDown, SessionInv
  <2>3. CASE at' \in {"end", "gap", "fresh", "ensure"} /\ UNCHANGED <<client, key, ready>>
    BY <1>3, <2>3, SessionAside DEF Acquire, setupVars, Opening, Securing, Settling, Talking
  <2> QED
    BY <2>1, <2>2, <2>3
<1>4. CASE End \/ TeardownWaited \/ TeardownBound
  <2>1. at \in {"end", "teardown"} /\ at' \in Afters \cup {"free"}
          /\ UNCHANGED <<client, key, ready, mode, vetted, rx>>
    BY <1>0, <1>4 DEF End, TeardownWaited, TeardownBound, linkVars, setupVars
  <2> QED
    BY <2>1, SessionAside DEF Afters, Opening, Securing, Settling, Talking
<1>5. CASE Established
  <2>1. at' = "notify" /\ rx' = <<>>
    BY <1>5 DEF Established
  <2> QED
    BY <2>1, EmptyFrom DEF SessionInv, Opening, Securing, Settling, Talking
<1>6. CASE Prepare
  <2>1. CASE client = 0
    <3>1. ConnectFails("conn")
      BY <1>6, <2>1 DEF Prepare
    <3> QED
      BY <3>1 DEF ConnectFails, TearDown, SessionInv
  <2>2. CASE client # 0
    <3>1. rx' = <<>> /\ ready' = FALSE /\ key' = 0 /\ at' \in {"bgc", "mode"}
      BY <1>6, <2>2 DEF Prepare
    <3> QED
      BY <3>1, EmptyFrom DEF SessionInv, Opening, Securing, Settling, Talking
  <2> QED
    BY <2>1, <2>2
<1>7. CASE SettleMode
  <2>1. CASE \E e \in {"conn", "notSupported"} : ConnectFails(e)
    BY <2>1 DEF ConnectFails, TearDown, SessionInv
  <2>2. CASE ~\E e \in {"conn", "notSupported"} : ConnectFails(e)
    <3>1. /\ at = "mode" /\ UNCHANGED <<client, key, ready, vetted, rx>>
          /\ \/ mode' = "NONE" /\ at' = "ready"
             \/ mode' = "AES_RC4_PSK" /\ at' = "key"
      BY <1>0, <1>7, <2>2, SessionModeTyped DEF SettleMode, linkVars, Modes
    <3> QED
      BY <3>1 DEF SessionInv, Opening, Securing, Settling, Talking
  <2> QED
    BY <2>1, <2>2
<1>8. CASE KeyKept
  <2>1. /\ at = "confirm" /\ at' = "ready" /\ key' = op.hsKey /\ UNCHANGED <<client, ready, mode, vetted>>
        /\ (rx' = rx \/ (rx # <<>> /\ rx' = Tail(rx)))
    BY <1>8 DEF KeyKept, KeepKey, Taken, setupVars
  <2>2. client # 0 => FramesFrom(client, rx')
    BY <2>1, ShrunkFrom DEF SessionInv
  <2> QED
    BY <2>1, <2>2 DEF SessionInv, Opening, Securing, Settling, Talking
<1>9. CASE SessionReady
  <2>1. /\ at = "ready" /\ at' = "setup" /\ ready' = TRUE /\ UNCHANGED <<client, key, mode, vetted>>
             /\ rx' = <<>>
    BY <1>9 DEF SessionReady, setupVars
  <2> QED
    BY <2>1, EmptyFrom DEF SessionInv, Opening, Securing, Settling, Talking
<1>10. CASE SetupDone
  <2>1. /\ at = "setup" /\ at' = "attempt" /\ vetted' = client /\ UNCHANGED <<client, key, ready, mode, rx>>
    BY <1>10 DEF SetupDone, linkVars
  <2> QED
    BY <2>1 DEF SessionInv, Opening, Securing, Settling, Talking
<1> QED
  BY <1>1, <1>2, <1>3, <1>4, <1>5, <1>6, <1>7, <1>8, <1>9, <1>10 DEF HolderStepped

LEMMA SessionInductive == Spec => [](IInv /\ SessionInv)
<1>1. Init => SessionInv
  BY DEF Init, SessionInv
<1>2. IInv /\ SessionInv /\ [Next]_vars => SessionInv'
  BY EveryStep, SessionElsewhere, SessionHolder
<1> QED
  BY <1>1, <1>2, Inductive, PTL DEF Spec

VettedStep ==
    at' \in TalkAwaits /\ op'.sent # op.sent =>
        /\ client # 0 /\ vetted = client
        /\ \/ mode = "NONE"
           \/ mode = "AES_RC4_PSK" /\ key = client

\* Nothing but Talk and StreamNext sends a user's frame.
LEMMA SendersSend ==
    ASSUME IInv, HolderStepped \/ Elsewhere, at' \in TalkAwaits, op'.sent # op.sent
    PROVE  at \in {"attempt", "paced"} /\ CanSend
<1>0. op \in OpType
  BY DEF IInv, BlockInv, HolderTyped
<1>1. CASE Elsewhere
  BY <1>1 DEF Elsewhere
<1>2. CASE BlockStepped
  <2>1. BlockLeaves
    BY <1>0, <1>2, BlockAtLeaves DEF BlockStepped
  <2> QED
    BY <2>1 DEF BlockLeaves, TalkAwaits, Afters
<1>3. CASE Moved
  <2>1. CASE ConnectMove
    BY <1>0, <2>1 DEF ConnectMove, Goes, TalkAwaits
  <2>2. CASE TalkMove
    BY <1>0, <2>2 DEF TalkMove, Goes, TalkAwaits
  <2> QED
    BY <1>3, <2>1, <2>2 DEF Moved
<1>4. CASE Acquire \/ End \/ Established \/ Prepare \/ SettleMode \/ KeyKept \/ SessionReady \/ SetupDone
  <2>1. \/ \E next \in Afters, e \in Exceptions : TearDown(next, e)
        \/ \E e \in {"conn", "notSupported"} : ConnectFails(e)
        \/ at' \notin TalkAwaits
    BY <1>4 DEF Acquire, End, Established, Prepare, SettleMode, KeyKept, KeepKey, SessionReady,
       SetupDone,
       TalkAwaits, Afters, Exceptions
  <2>2. at' \notin TalkAwaits
    BY <1>0, <2>1, TearDownLeaves, ConnectFailsLeaves DEF TalkAwaits, Afters, Exceptions
  <2> QED
    BY <2>2
<1>5. CASE TeardownWaited \/ TeardownBound
  <2>1. at' \in Afters
    BY <1>5, ExcTyped DEF TeardownWaited, TeardownBound
  <2> QED
    BY <2>1 DEF Afters, TalkAwaits
<1> QED
  BY <1>1, <1>2, <1>3, <1>4, <1>5 DEF HolderStepped

\* _require_client and _encrypt check only that there is a client and a key:
\* that a user's frame nevertheless only goes out on a link whose own setup ran
\* to its end, under that link's own key, is what the connect phase brings about.
THEOREM SentOnlyOnVettedLinks == Spec => SentOnVettedLink
<1>1. IInv /\ SessionInv /\ [Next]_vars => [VettedStep]_vars
  <2> SUFFICES ASSUME IInv, SessionInv, [Next]_vars, at' \in TalkAwaits, op'.sent # op.sent
               PROVE  /\ client # 0 /\ vetted = client
                      /\ \/ mode = "NONE"
                         \/ mode = "AES_RC4_PSK" /\ key = client
    BY DEF VettedStep
  <2>1. at \in {"attempt", "paced"} /\ CanSend
    BY EveryStep, SendersSend
  <2>2. mode \in Modes
    BY DEF IInv, SessionTyped
  <2> QED
    BY <2>1, <2>2 DEF SessionInv, CanSend, Modes, Opening, Settling, Talking
<1> QED
  BY <1>1, SessionInductive, PTL DEF Spec, SentOnVettedLink, VettedStep

ModeStep == IsConnected /\ client' = client /\ ready' => mode' = mode

\* set_advertised_encryption and a late BGC verdict wait for the next session.
THEOREM SessionsKeepTheirMode == Spec => ModeKept
<1>1. IInv /\ SessionInv /\ [Next]_vars => [ModeStep]_vars
  <2> SUFFICES ASSUME IInv, SessionInv, [Next]_vars, IsConnected, client' = client, ready' PROVE mode' = mode
    BY DEF ModeStep
  <2>1. client # 0 /\ ready
    BY DEF IsConnected, Connected
  <2>2. CASE Elsewhere
    BY <2>2 DEF Elsewhere
  <2>3. CASE BlockStepped \/ Moved
    BY <2>1, <2>3 DEF BlockStepped, Moved
  <2>4. CASE Prepare
    BY <2>1, <2>4 DEF Prepare
  <2>5. CASE SettleMode
    BY <2>1, <2>5 DEF SettleMode, SessionInv, Securing
  <2>6. CASE \/ Acquire \/ End \/ Established \/ KeyKept \/ SessionReady \/ SetupDone \/ TeardownWaited
                  \/ TeardownBound
    BY <2>6 DEF Acquire, End, Established, KeyKept, SessionReady, SetupDone, TeardownWaited,
       TeardownBound, setupVars
  <2> QED
    BY <2>2, <2>3, <2>4, <2>5, <2>6, EveryStep DEF HolderStepped
<1> QED
  BY <1>1, SessionInductive, PTL DEF Spec, ModeKept, ModeStep

-----------------------------------------------------------------------------
(* The copies of a command.                                                *)

\* How often an operation's frames went out on a link, and on which links.
Copies(s, l) == Cardinality({i \in DOMAIN s : s[i] = l})
On(s) == {s[i] : i \in DOMAIN s}

LEMMA CopiesAppended ==
    ASSUME NEW s \in Seq(LinkNo), NEW x \in LinkNo, NEW l \in LinkNo
    PROVE  /\ Copies(s, l) \in Nat
           /\ Copies(Append(s, x), l) = IF x = l THEN Copies(s, l) + 1 ELSE Copies(s, l)
<1> DEFINE C == {i \in DOMAIN s : s[i] = l}
           D == {i \in DOMAIN Append(s, x) : Append(s, x)[i] = l}
           n == Len(s) + 1
<1>1. C \in SUBSET (1 .. Len(s)) /\ Len(s) \in Nat /\ n \notin C
  OBVIOUS
<1>2. IsFiniteSet(C)
  BY <1>1, FS_Interval, FS_Subset
<1>3. Cardinality(C) \in Nat
  BY <1>2, FS_CardinalityType
<1>4. D = IF x = l THEN C \cup {n} ELSE C
  <2>1. DOMAIN Append(s, x) = 1 .. n /\ DOMAIN s = 1 .. Len(s)
    OBVIOUS
  <2>2. \A i \in 1 .. n : Append(s, x)[i] = IF i = n THEN x ELSE s[i]
    OBVIOUS
  <2> QED
    BY <2>1, <2>2
<1>5. Cardinality(D) = IF x = l THEN Cardinality(C) + 1 ELSE Cardinality(C)
  <2>1. CASE x = l
    <3>1. D = C \cup {n}
      BY <1>4, <2>1
    <3> HIDE DEF C, D, n
    <3> QED
      BY <1>1, <1>2, <2>1, <3>1, FS_AddElement
  <2>2. CASE x # l
    BY <1>4, <2>2
  <2> QED
    BY <2>1, <2>2
<1> QED
  BY <1>3, <1>5 DEF Copies

LEMMA OnLinks ==
    ASSUME NEW s \in Seq(LinkNo)
    PROVE  On(s) \subseteq LinkNo /\ IsFiniteSet(On(s)) /\ Cardinality(On(s)) \in Nat
<1>1. On(s) \in SUBSET LinkNo
  BY DEF On
<1>2. IsFiniteSet(LinkNo)
  BY ConnectionAssumption, FS_Interval DEF LinkNo
<1>3. IsFiniteSet(On(s))
  BY <1>1, <1>2, FS_Subset
<1> QED
  BY <1>1, <1>3, FS_CardinalityType

LEMMA OnAppended ==
    ASSUME NEW s \in Seq(LinkNo), NEW x \in LinkNo
    PROVE  /\ On(Append(s, x)) = On(s) \cup {x}
           /\ Cardinality(On(s) \cup {x}) \in Nat
           /\ Cardinality(On(s)) <= Cardinality(On(s) \cup {x})
           /\ Cardinality(On(s) \cup {x}) <= Cardinality(On(s)) + 1
<1>1. On(Append(s, x)) = On(s) \cup {x}
  <2>1. DOMAIN Append(s, x) = 1 .. Len(s) + 1 /\ DOMAIN s = 1 .. Len(s) /\ Len(s) \in Nat
    OBVIOUS
  <2>2. \A i \in 1 .. Len(s) + 1 : Append(s, x)[i] = IF i = Len(s) + 1 THEN x ELSE s[i]
    OBVIOUS
  <2>3. Append(s, x)[Len(s) + 1] = x
    OBVIOUS
  <2>4. \A y \in On(Append(s, x)) : y \in On(s) \cup {x}
    BY <2>1, <2>2 DEF On
  <2>5. \A y \in On(s) \cup {x} : y \in On(Append(s, x))
    BY <2>1, <2>2, <2>3 DEF On
  <2> QED
    BY <2>4, <2>5
<1>2. IsFiniteSet(On(s)) /\ Cardinality(On(s)) \in Nat
  BY OnLinks
<1>3. Cardinality(On(s) \cup {x}) = IF x \in On(s) THEN Cardinality(On(s)) ELSE Cardinality(On(s)) + 1
  BY <1>2, FS_AddElement
<1> QED
  BY <1>1, <1>2, <1>3

LEMMA NewLinkUnused ==
    ASSUME NEW s \in Seq(LinkNo), NEW l \in LinkNo, l \notin On(s) PROVE Copies(s, l) = 0
<1>1. {i \in DOMAIN s : s[i] = l} = {}
  BY DEF On
<1> QED
  BY <1>1, FS_EmptySet DEF Copies

LEMMA NothingSent == Copies(<<>>, 0) = 0 /\ On(<<>>) = {} /\ Cardinality(On(<<>>)) = 0
  /\ \A l \in LinkNo : Copies(<<>>, l) = 0
<1>1. DOMAIN << >> = {}
  OBVIOUS
<1>2. On(<<>>) = {}
  BY <1>1 DEF On
<1>3. \A l : {i \in DOMAIN <<>> : <<>>[i] = l} = {}
  BY <1>1
<1> QED
  BY <1>2, <1>3, FS_EmptySet DEF Copies

-----------------------------------------------------------------------------
Tearing(next) == at = "teardown" /\ op.after = next

\* Where a link is being brought up for the operation.
Connecting == ConnectAwaits \cup {"ensure", "connect", "sessionNext", "prepare", "mode", "ready", "setup"}

\* What the operations' traffic has in common.
SentInv ==
    /\ client <= links /\ \A i \in DOMAIN op.sent : op.sent[i] <= links
    /\ at = "free" => op = NoOp
    /\ at = "ack" => kind[Holder] \in {"write", "once"}
    /\ at = "paced" => kind[Holder] \notin {"write", "once", "query"}
    /\ at = "retry" \/ Tearing("retry") => kind[Holder] = "write" /\ op.pass = 1 /\ client = 0

\* A write's frames, so far.
WriteInv ==
    at # "free" /\ kind[Holder] = "write" =>
        /\ at \notin {"gap", "fresh", "released", "collect"} /\ ~Tearing("ensure") /\ ~Tearing("released")
        /\ \A l \in LinkNo : Copies(op.sent, l) <= WriteAttempts
        /\ Cardinality(On(op.sent)) <= op.pass
        /\ at = "ensure" => op.try = 1
        /\ at \in Connecting \/ Tearing("sessionNext") => Cardinality(On(op.sent)) < op.pass
        /\ at \in Connecting => client \notin On(op.sent)
        /\ Tearing("sessionNext") => client = 0
        /\ at \in {"attempt", "ack"} => op.try <= WriteAttempts
        /\ at \in {"attempt", "ack"} /\ client # 0 =>
              /\ Cardinality(On(op.sent) \cup {client}) <= op.pass
              /\ Copies(op.sent, client) <= IF at = "attempt" THEN op.try - 1 ELSE op.try

\* The one frame of a query or of send_once.
OneInv ==
    at # "free" /\ kind[Holder] \in {"once", "query"} =>
        /\ Len(op.sent) <= 1
        /\ op.sent # <<>> => at \in {"ack", "collect", "end", "released"} \/ Tearing("end")
             \/ Tearing("released")

CopiesInv == SentInv /\ WriteInv /\ OneInv

LEMMA OpTyped ==
    ASSUME IInv
    PROVE  /\ op \in OpType /\ op.sent \in Seq(LinkNo) /\ op.pass \in {1, 2} /\ op.try \in Nat
                /\ op.after \in Afters
           /\ client \in LinkNo \cup {0} /\ links \in LinkNo \cup {0} /\ LinkNo \subseteq Nat /\ 0 \notin LinkNo
           /\ On(op.sent) \subseteq LinkNo /\ Cardinality(On(op.sent)) \in Nat
<1>1. /\ op \in OpType /\ op.sent \in Seq(LinkNo) /\ op.pass \in {1, 2} /\ op.try \in Nat /\ op.after \in Afters
      /\ client \in LinkNo \cup {0} /\ links \in LinkNo \cup {0} /\ LinkNo \subseteq Nat /\ 0 \notin LinkNo
  BY DEF IInv, BlockInv, HolderTyped, OpType, RadioInv, RadioTyped, LinkNo
<1> QED
  BY <1>1, OnLinks

LEMMA CopiesElsewhere ==
    ASSUME IInv, CopiesInv, Elsewhere PROVE CopiesInv'
<1>1. UNCHANGED <<at, op, links, kind>> /\ (at # "free" => Holder' = Holder) /\ client' \in {0, client}
  BY DEF Elsewhere, Quiet, LinkLost, FrameCame
<1>2. SentInv'
  BY <1>1, OpTyped DEF CopiesInv, SentInv, Tearing
<1>3. WriteInv'
  BY <1>1, OpTyped DEF CopiesInv, WriteInv, Tearing
<1>4. OneInv'
  BY <1>1 DEF CopiesInv, OneInv, Tearing
<1> QED
  BY <1>2, <1>3, <1>4 DEF CopiesInv

LEMMA CopiesAcquire ==
    ASSUME IInv, CopiesInv, Acquire PROVE CopiesInv'
<1>1. op = NoOp /\ op.sent = <<>> /\ op.pass = 1 /\ op.try = 1 /\ at = "free"
  BY DEF CopiesInv, SentInv, Acquire, NoOp
<1>2. kind' = kind /\ Holder' = Holder /\ links' = links
  BY DEF Acquire, radioVars, Holder
<1>3. \/ kind[Holder] \in {"disconnect", "close"} /\ TearDown("end", "ok")
      \/ kind[Holder] \in {"disconnect", "close"} /\ at' = "end" /\ op' = op /\ client' = client
      \/ kind[Holder] = "once" /\ at' \in {"gap", "fresh"} /\ op' = op /\ client' = client
      \/ kind[Holder] \notin {"disconnect", "close", "once"} /\ at' = "ensure" /\ op' = op /\ client' = client
  BY DEF Acquire, linkVars
<1>4. CASE kind[Holder] \in {"disconnect", "close"} /\ TearDown("end", "ok")
  <2>1. op'.sent = <<>> /\ client' = 0 /\ at' \in {"end", "teardown"} /\ op'.after = "end"
    BY <1>1, <1>4, OpTyped, TearDownLeaves DEF BlockLeaves, Exceptions, Afters
  <2> QED
    BY <1>2, <1>4, <2>1, OpTyped DEF CopiesInv, SentInv, WriteInv, OneInv, Tearing
<1>5. CASE op' = op /\ client' = client /\ at' \in {"end", "gap", "fresh", "ensure"}
             /\ (at' \in {"gap", "fresh"} => kind[Holder] = "once")
  <2>1. SentInv'
    BY <1>2, <1>5 DEF CopiesInv, SentInv, Tearing
  <2>2. WriteInv'
    <3>1. Cardinality(On(op.sent)) = 0 /\ On(op.sent) = {} /\ \A l \in LinkNo : Copies(op.sent, l) = 0
      BY <1>1, NothingSent
    <3> QED
      BY <1>1, <1>2, <1>5, <3>1, ConnectionAssumption DEF WriteInv, Tearing
  <2>3. OneInv'
    BY <1>1, <1>5 DEF OneInv
  <2> QED
    BY <2>1, <2>2, <2>3 DEF CopiesInv
<1> QED
  BY <1>3, <1>4, <1>5

LEMMA CopiesEnd ==
    ASSUME IInv, CopiesInv, End PROVE CopiesInv'
<1>1. at' = "free" /\ op' = NoOp /\ op'.sent = <<>> /\ links' = links /\ client' = client
  BY DEF End, NoOp, linkVars, radioVars
<1> QED
  BY <1>1 DEF CopiesInv, SentInv, WriteInv, OneInv, Tearing

\* A block that goes on at next, by way of a teardown or not.
LeadsTo(next) == at' = next \/ (at' = "teardown" /\ op'.after = next)

LEMMA LeaveGoes ==
    ASSUME op \in OpType, NEW e \in Exceptions, Leave(e)
    PROVE  LeadsTo("end") \/ (LeadsTo("released") /\ kind[Holder] = "once")
<1>1. CASE kind[Holder] = "once"
  <2>1. TearDown("released", e)
    BY <1>1 DEF Leave
  <2> QED
    BY <1>1, <2>1, TearDownLeaves DEF LeadsTo, Afters
<1>2. CASE kind[Holder] # "once"
  <2>1. Handle(e)
    BY <1>2 DEF Leave
  <2> QED
    BY <2>1, HandleLeaves DEF LeadsTo
<1> QED
  BY <1>1, <1>2

\* Where each place's blocks go on.
BlockGoes ==
    \/ at = "fresh" /\ LeadsTo("ensure")
    \/ at \in ConnectAwaits \cup {"prepare", "mode", "setup"} /\ LeadsTo("sessionNext") /\ client' = 0
    \/ at \in ConnectAwaits /\ LeadsTo("unwind")
    \/ LeadsTo("retry") /\ kind[Holder] = "write" /\ op.pass = 1 /\ client' = 0
    \/ at' = "finish" /\ (at = "unwind" \/ Tearing("sessionNext") \/ Tearing("unwind"))
    \/ LeadsTo("end")
    \/ LeadsTo("released") /\ kind[Holder] = "once"

LEMMA BlockAtGoes ==
    ASSUME op \in OpType, NEW e \in Exceptions, BlockAt(e) PROVE BlockGoes
<1> USE DEF BlockGoes
<1>1. CASE at = "fresh" /\ TearDown("ensure", e)
  BY <1>1, TearDownLeaves DEF LeadsTo, Afters
<1>2. CASE at \in ConnectAwaits \cup {"prepare", "mode", "setup"} /\ ConnectFails(e)
  <2>1. LeadsTo("sessionNext") /\ client' = 0
    BY <1>2, ConnectFailsLeaves DEF LeadsTo
  <2> QED
    BY <1>2, <2>1
<1>3. CASE at \in ConnectAwaits /\ TearDown("unwind", e)
  <2>1. LeadsTo("unwind")
    BY <1>3, TearDownLeaves DEF LeadsTo, Afters
  <2> QED
    BY <1>3, <2>1
<1>4. CASE TalkFails(e)
  <2>1. CASE kind[Holder] = "write" /\ op.pass = 1
    <3>1. TearDown("retry", e)
      BY <1>4, <2>1 DEF TalkFails
    <3>2. LeadsTo("retry") /\ client' = 0
      BY <3>1, TearDownLeaves DEF LeadsTo, Afters
    <3> QED
      BY <2>1, <3>2
  <2>2. CASE ~(kind[Holder] = "write" /\ op.pass = 1)
    BY <1>4, <2>2, LeaveGoes DEF TalkFails
  <2> QED
    BY <2>1, <2>2
<1>5. CASE LeaveConnect(e) /\ (at = "unwind" \/ Tearing("sessionNext") \/ Tearing("unwind"))
  <2>1. CASE e = "limit"
    BY <1>5, <2>1 DEF LeaveConnect
  <2>2. CASE e # "limit"
    BY <1>5, <2>2, LeaveGoes DEF LeaveConnect
  <2> QED
    BY <2>1, <2>2
<1>6. CASE Leave(e)
  BY <1>6, LeaveGoes
<1>7. CASE Handle(e)
  BY <1>7, HandleLeaves DEF LeadsTo
<1> QED
  BY <1>1, <1>2, <1>3, <1>4, <1>5, <1>6, <1>7 DEF BlockAt, Tearing

LEMMA CopiesBlock ==
    ASSUME IInv, CopiesInv, BlockStepped PROVE CopiesInv'
<1>1. PICK e \in Exceptions : BlockAt(e)
  BY DEF BlockStepped
<1>2. BlockGoes
  BY <1>1, OpTyped, BlockAtGoes
<1>3. BlockLeaves /\ at \notin {"free", "end"}
  BY <1>1, OpTyped, BlockAtLeaves
<1>4. /\ op'.sent = op.sent /\ op'.pass = op.pass /\ client' \in {0, client} /\ kind' = kind
           /\ Holder' = Holder /\ links' = links
      /\ at' \in Afters \cup {"teardown", "finish"}
  BY <1>3 DEF BlockLeaves, BlockStepped, taskVars, radioVars, Holder
<1>5. SentInv'
  <2>1. at' \notin {"free", "ack", "paced"} /\ client' <= links'
    BY <1>4, OpTyped DEF Afters, CopiesInv, SentInv
  <2>2. at' = "retry" \/ Tearing("retry")' => kind[Holder] = "write" /\ op.pass = 1 /\ client' = 0
    BY <1>2 DEF BlockGoes, LeadsTo, Tearing
  <2> QED
    BY <1>4, <2>1, <2>2 DEF CopiesInv, SentInv
<1>6. WriteInv'
  <2> SUFFICES ASSUME kind[Holder] = "write" PROVE WriteInv'
    BY <1>4 DEF WriteInv
  <2>0. /\ at \notin {"gap", "fresh", "released", "collect"}
             /\ (\A l \in LinkNo : Copies(op.sent, l) <= WriteAttempts)
        /\ Cardinality(On(op.sent)) <= op.pass /\ (at \in Connecting => Cardinality(On(op.sent)) < op.pass)
    BY <1>3 DEF CopiesInv, WriteInv
  <2>1. at' \notin {"gap", "fresh", "released", "collect", "attempt", "ack", "ensure"}
          /\ ~Tearing("ensure")' /\ ~Tearing("released")'
    BY <1>2, <1>4, <2>0 DEF BlockGoes, LeadsTo, Tearing, Afters
  <2>2. at' \in Connecting \/ Tearing("sessionNext")' => Cardinality(On(op.sent)) < op.pass /\ client' = 0
    BY <1>2, <1>4, <2>0 DEF BlockGoes, LeadsTo, Tearing, Afters, Connecting, ConnectAwaits
  <2>3. 0 \notin On(op.sent)
    BY OpTyped
  <2> QED
    BY <1>4, <2>0, <2>1, <2>2, <2>3 DEF WriteInv, Tearing
<1>7. OneInv'
  <2> SUFFICES ASSUME kind[Holder] \in {"once", "query"} PROVE OneInv'
    BY <1>4 DEF OneInv
  <2>1. Len(op.sent) <= 1 /\ (op.sent # <<>> => at \in {"ack", "collect", "end", "released"}
          \/ Tearing("end") \/ Tearing("released"))
    BY <1>3 DEF CopiesInv, OneInv
  <2>2. op.sent # <<>> => LeadsTo("end") \/ LeadsTo("released")
    BY <1>2, <2>1 DEF BlockGoes, Tearing, ConnectAwaits
  <2> QED
    BY <1>4, <2>1, <2>2 DEF OneInv, LeadsTo, Tearing
<1> QED
  BY <1>5, <1>6, <1>7 DEF CopiesInv

\* A step of the connect phase that sends nothing.
LEMMA CopiesConnects ==
    ASSUME IInv, CopiesInv, at \in Connecting \cup {"gap", "fresh"}, at' \in (Connecting \cup {"fresh"}) \ {"ensure"},
           at = "gap" <=> at' = "fresh", at # "fresh",
           UNCHANGED <<client, links, taskVars>>, op'.sent = op.sent, op'.pass = op.pass
    PROVE  CopiesInv'
<1>1. kind' = kind /\ Holder' = Holder
  BY DEF taskVars, Holder
<1>2. at \notin {"free", "ack", "collect", "end", "released", "teardown"}
        /\ at' \notin {"free", "ack", "paced", "retry", "teardown", "gap", "released", "collect", "attempt", "ensure"}
  BY DEF Connecting, ConnectAwaits
<1>3. SentInv'
  BY <1>2 DEF CopiesInv, SentInv, Tearing
<1>4. WriteInv'
  BY <1>1, <1>2 DEF CopiesInv, WriteInv, Tearing, Connecting, ConnectAwaits
<1>5. OneInv'
  BY <1>1, <1>2 DEF CopiesInv, OneInv, Tearing
<1> QED
  BY <1>3, <1>4, <1>5 DEF CopiesInv

\* The first attempt on a link.
LEMMA CopiesFirst ==
    ASSUME IInv, CopiesInv, at \in {"ensure", "setup"}, at' = "attempt",
           UNCHANGED <<client, links, taskVars>>, op'.sent = op.sent, op'.pass = op.pass,
           kind[Holder] = "write" => op'.try = 1
    PROVE  CopiesInv'
<1>1. kind' = kind /\ Holder' = Holder
  BY DEF taskVars, Holder
<1>2. SentInv'
  BY DEF CopiesInv, SentInv, Tearing
<1>3. WriteInv'
  <2> SUFFICES ASSUME kind[Holder] = "write" PROVE WriteInv'
    BY <1>1 DEF WriteInv
  <2>1. /\ \A l \in LinkNo : Copies(op.sent, l) <= WriteAttempts
        /\ Cardinality(On(op.sent)) < op.pass /\ client \notin On(op.sent)
    BY DEF CopiesInv, WriteInv, Connecting
  <2>2. client # 0 => Cardinality(On(op.sent) \cup {client}) <= op.pass /\ Copies(op.sent, client) = 0
    <3>1. client # 0 => client \in LinkNo
      BY OpTyped
    <3>2. client # 0 => Cardinality(On(op.sent) \cup {client}) <= Cardinality(On(op.sent)) + 1
            /\ Cardinality(On(op.sent) \cup {client}) \in Nat
      BY <3>1, OpTyped, OnAppended
    <3>3. client # 0 => Copies(op.sent, client) = 0
      BY <2>1, <3>1, OpTyped, NewLinkUnused
    <3> QED
      BY <2>1, <3>2, <3>3, OpTyped
  <2>3. op'.try = 1 /\ 1 <= WriteAttempts /\ Cardinality(On(op.sent)) <= op.pass
    BY <2>1, OpTyped, ConnectionAssumption
  <2>4. at' \notin {"gap", "fresh", "released", "collect", "ensure", "teardown"} /\ at' \notin Connecting
    BY DEF Connecting, ConnectAwaits
  <2> QED
    BY <2>1, <2>2, <2>3, <2>4 DEF WriteInv, Tearing
<1>4. OneInv'
  BY <1>1 DEF CopiesInv, OneInv, Tearing
<1> QED
  BY <1>2, <1>3, <1>4 DEF CopiesInv

LEMMA CopiesConnectMove ==
    ASSUME IInv, CopiesInv, ConnectMove, UNCHANGED <<links, taskVars>> PROVE CopiesInv'
<1>1. op'.sent = op.sent /\ op'.pass = op.pass /\ client' = client /\ kind' = kind /\ Holder' = Holder
  BY OpTyped DEF ConnectMove, Goes, OpType, linkVars, taskVars, Holder
<1>2. CASE at = "ensure" /\ at' = "attempt" /\ op' = op
  <2>1. kind[Holder] = "write" => op'.try = 1
    BY <1>2 DEF CopiesInv, WriteInv
  <2> QED
    BY <1>1, <1>2, <2>1, CopiesFirst
<1>3. CASE at = "fresh" /\ at' = "ensure" /\ op' = op
  <2>1. SentInv'
    BY <1>1, <1>3 DEF CopiesInv, SentInv, Tearing
  <2>2. WriteInv'
    BY <1>1, <1>3 DEF CopiesInv, WriteInv
  <2>3. OneInv'
    BY <1>1, <1>3 DEF CopiesInv, OneInv, Tearing
  <2> QED
    BY <2>1, <2>2, <2>3 DEF CopiesInv
<1>4. CASE ~(at = "ensure" /\ at' = "attempt" /\ op' = op) /\ ~(at = "fresh" /\ at' = "ensure" /\ op' = op)
  <2>1. at \in Connecting \cup {"gap", "fresh"} /\ at' \in (Connecting \cup {"fresh"}) \ {"ensure"}
          /\ (at = "gap" <=> at' = "fresh")
        /\ at # "fresh"
    BY <1>4 DEF ConnectMove, Goes, Connecting, ConnectAwaits
  <2> QED
    BY <1>1, <2>1, CopiesConnects
<1> QED
  BY <1>2, <1>3, <1>4

LEMMA CopiesSend ==
    ASSUME IInv, CopiesInv, UNCHANGED <<links, taskVars, client>>, client # 0,
           op'.sent = Append(op.sent, client), op'.pass = op.pass, op'.try = op.try,
           (at = "attempt" /\ at' = Reading) \/ (at = "paced" /\ at' = "paced")
    PROVE  CopiesInv'
<1>1. kind' = kind /\ Holder' = Holder /\ client \in LinkNo
  BY OpTyped DEF taskVars, Holder
<1>2. at' \in {"ack", "collect", "paced"} /\ (at' = "ack" => kind[Holder] \in {"write", "once"})
      /\ (at' = "paced" => kind[Holder] \notin {"write", "once", "query"})
           /\ (at' = "collect" => kind[Holder] = "query")
  BY DEF Reading, CopiesInv, SentInv
<1>3. /\ On(op'.sent) = On(op.sent) \cup {client}
      /\ \A l \in LinkNo : /\ Copies(op.sent, l) \in Nat
                           /\ Copies(op'.sent, l) = IF client = l THEN Copies(op.sent, l) + 1 ELSE Copies(op.sent, l)
  <2>1. client \in LinkNo /\ op.sent \in Seq(LinkNo)
    BY <1>1, OpTyped
  <2>2. On(op'.sent) = On(op.sent) \cup {client}
    BY <2>1, OnAppended
  <2>3. ASSUME NEW l \in LinkNo
        PROVE  /\ Copies(op.sent, l) \in Nat
               /\ Copies(op'.sent, l) = IF client = l THEN Copies(op.sent, l) + 1 ELSE Copies(op.sent, l)
    BY <2>1, CopiesAppended
  <2> QED
    BY <2>2, <2>3
<1>4. SentInv'
  <2>1. \A i \in DOMAIN op'.sent : op'.sent[i] <= links
    <3>1. DOMAIN op'.sent = 1 .. Len(op.sent) + 1
            /\ \A i \in 1 .. Len(op.sent) + 1 : op'.sent[i] = IF i = Len(op.sent) + 1 THEN client ELSE op.sent[i]
      BY <1>1, OpTyped
    <3> QED
      BY <3>1, OpTyped DEF CopiesInv, SentInv
  <2> QED
    BY <1>1, <1>2, <2>1 DEF CopiesInv, SentInv, Tearing
<1>5. WriteInv'
  <2> SUFFICES ASSUME kind[Holder] = "write" PROVE WriteInv'
    BY <1>1 DEF WriteInv
  <2>1. at = "attempt" /\ at' = "ack"
    BY <1>2 DEF CopiesInv, SentInv
  <2>2. /\ \A l \in LinkNo : Copies(op.sent, l) <= WriteAttempts
        /\ op.try <= WriteAttempts /\ Cardinality(On(op.sent) \cup {client}) <= op.pass
        /\ Copies(op.sent, client) <= op.try - 1
    BY <2>1 DEF CopiesInv, WriteInv
  <2>3. Copies(op'.sent, client) <= op.try
    BY <1>1, <1>3, <2>2, OpTyped
  <2>4. \A l \in LinkNo : Copies(op'.sent, l) <= WriteAttempts
    <3> SUFFICES ASSUME NEW l \in LinkNo PROVE Copies(op'.sent, l) <= WriteAttempts
      OBVIOUS
    <3>1. CASE l = client
      <4>1. Copies(op'.sent, client) \in Nat /\ op.try \in Nat /\ WriteAttempts \in Nat
        BY <1>1, <1>3, OpTyped, ConnectionAssumption
      <4> QED
        BY <2>2, <2>3, <3>1, <4>1
    <3>2. CASE l # client
      BY <1>3, <2>2, <3>2
    <3> QED
      BY <3>1, <3>2
  <2>5. Cardinality(On(op'.sent)) <= op.pass /\ On(op'.sent) \cup {client} = On(op'.sent)
    BY <1>3, <2>2
  <2>6. at' \notin Connecting /\ at' \notin {"gap", "fresh", "released", "collect", "ensure", "teardown"}
    BY <2>1 DEF Connecting, ConnectAwaits
  <2> QED
    BY <2>1, <2>2, <2>3, <2>4, <2>5, <2>6 DEF WriteInv, Tearing
<1>6. OneInv'
  <2> SUFFICES ASSUME kind[Holder] \in {"once", "query"} PROVE OneInv'
    BY <1>1 DEF OneInv
  <2>1. at = "attempt"
    BY DEF CopiesInv, SentInv
  <2>2. op.sent = <<>>
    BY <2>1 DEF CopiesInv, OneInv, Tearing
  <2>3. Len(op'.sent) = 1
    BY <2>2
  <2>4. at' \in {"ack", "collect"}
    BY <1>2
  <2> QED
    BY <2>3, <2>4 DEF OneInv
<1> QED
  BY <1>4, <1>5, <1>6 DEF CopiesInv

LEMMA CopiesTalkMove ==
    ASSUME IInv, CopiesInv, TalkMove, UNCHANGED <<links, taskVars>> PROVE CopiesInv'
<1>1. kind' = kind /\ Holder' = Holder /\ client' = client
  BY DEF taskVars, Holder, TalkMove, Goes, linkVars
<1>2. CASE \/ Goes({"attempt"}, Reading, [op EXCEPT !.sent = Append(@, client)]) /\ CanSend
           \/ Goes({"paced"}, "paced", [op EXCEPT !.sent = Append(@, client)]) /\ CanSend
  <2>1. op'.sent = Append(op.sent, client) /\ op'.pass = op.pass /\ op'.try = op.try /\ client # 0
    BY <1>2, OpTyped DEF Goes, OpType, CanSend
  <2>2. (at = "attempt" /\ at' = Reading) \/ (at = "paced" /\ at' = "paced")
    BY <1>2 DEF Goes
  <2> QED
    BY <1>1, <2>1, <2>2, CopiesSend
<1>3. CASE \E e \in {"ok", "rejected"} : Goes({"ack", "collect"}, "end", [op EXCEPT !.exc = e, !.heard = Item.link])
  <2>1. at \in {"ack", "collect"} /\ at' = "end" /\ op'.sent = op.sent /\ op'.pass = op.pass
    BY <1>3, OpTyped DEF Goes, OpType
  <2>2. SentInv'
    BY <1>1, <2>1 DEF CopiesInv, SentInv, Tearing
  <2>3. WriteInv'
    BY <1>1, <2>1 DEF CopiesInv, WriteInv, Tearing, Connecting, ConnectAwaits
  <2>4. OneInv'
    BY <1>1, <2>1 DEF CopiesInv, OneInv, Tearing
  <2> QED
    BY <2>2, <2>3, <2>4 DEF CopiesInv
<1>4. CASE Goes({"ack", "collect"}, at, op)
  <2>1. at' = at /\ op' = op
    BY <1>4 DEF Goes
  <2> QED
    BY <1>1, <2>1 DEF CopiesInv, SentInv, WriteInv, OneInv, Tearing
<1>5. CASE Goes({"ack"}, "attempt", [op EXCEPT !.try = @ + 1]) /\ kind[Holder] # "once"
             /\ op.try < WriteAttempts
  <2>1. at = "ack" /\ at' = "attempt" /\ op'.sent = op.sent /\ op'.pass = op.pass
          /\ op'.try = op.try + 1 /\ kind[Holder] = "write"
    BY <1>5, OpTyped DEF Goes, OpType, CopiesInv, SentInv
  <2>2. SentInv' /\ OneInv'
    BY <1>1, <2>1 DEF CopiesInv, SentInv, OneInv, Tearing
  <2>3. WriteInv'
    <3>0. op.try \in Nat /\ WriteAttempts \in Nat
      BY OpTyped, ConnectionAssumption
    <3>1. op'.try <= WriteAttempts /\ op'.try - 1 = op.try
      BY <1>5, <2>1, <3>0
    <3>2. at' \notin Connecting
      BY <2>1 DEF Connecting, ConnectAwaits
    <3> QED
      BY <1>1, <2>1, <3>1, <3>2 DEF CopiesInv, WriteInv, Tearing
  <2> QED
    BY <2>2, <2>3 DEF CopiesInv
<1>6. CASE Goes({"retry"}, "ensure", [op EXCEPT !.pass = 2, !.try = 1])
  <2>1. at = "retry" /\ at' = "ensure" /\ op'.sent = op.sent /\ op'.pass = 2 /\ op'.try = 1
    BY <1>6, OpTyped DEF Goes, OpType
  <2>2. kind[Holder] = "write" /\ op.pass = 1 /\ client = 0
    BY <2>1 DEF CopiesInv, SentInv
  <2>3. SentInv' /\ OneInv'
    BY <1>1, <2>1, <2>2 DEF CopiesInv, SentInv, OneInv, Tearing
  <2>4. WriteInv'
    <3>1. (\A l \in LinkNo : Copies(op.sent, l) <= WriteAttempts) /\ Cardinality(On(op.sent)) <= 1
      BY <2>1, <2>2 DEF CopiesInv, WriteInv
    <3>2. 0 \notin On(op.sent) /\ Cardinality(On(op.sent)) \in Nat
      BY OpTyped
    <3> QED
      BY <1>1, <2>1, <2>2, <3>1, <3>2 DEF WriteInv, Tearing
  <2> QED
    BY <2>3, <2>4 DEF CopiesInv
<1> QED
  BY <1>2, <1>3, <1>4, <1>5, <1>6 DEF TalkMove

\* A connect step that fails outside the blocks of BlockAt.
LEMMA CopiesFails ==
    ASSUME IInv, CopiesInv, at \in {"prepare", "mode"}, NEW e \in Exceptions, ConnectFails(e), UNCHANGED <<links, taskVars>>
    PROVE  CopiesInv'
<1>1. BlockLeaves /\ LeadsTo("sessionNext") /\ client' = 0
  BY OpTyped, ConnectFailsLeaves DEF LeadsTo
<1>2. op'.sent = op.sent /\ op'.pass = op.pass /\ kind' = kind /\ Holder' = Holder
  BY <1>1 DEF BlockLeaves, taskVars, Holder
<1>3. at' \in {"sessionNext", "teardown"} /\ (at' = "teardown" => op'.after = "sessionNext")
  BY <1>1 DEF LeadsTo
<1>4. SentInv'
  BY <1>1, <1>2, <1>3, OpTyped DEF CopiesInv, SentInv, Tearing
<1>5. WriteInv'
  BY <1>1, <1>2, <1>3, OpTyped DEF CopiesInv, WriteInv, Tearing, Connecting, ConnectAwaits
<1>6. OneInv'
  BY <1>1, <1>2, <1>3 DEF CopiesInv, OneInv, Tearing
<1> QED
  BY <1>4, <1>5, <1>6 DEF CopiesInv

LEMMA CopiesHolder ==
    ASSUME IInv, CopiesInv, HolderStepped PROVE CopiesInv'
<1>1. CASE BlockStepped
  BY <1>1, CopiesBlock
<1>2. CASE Moved
  BY <1>2, CopiesConnectMove, CopiesTalkMove DEF Moved, radioVars
<1>3. CASE Acquire \/ End
  BY <1>3, CopiesAcquire, CopiesEnd
<1>4. CASE Established
  <2>1. /\ at = "establish" /\ at' = "notify" /\ op' = op /\ links' = links + 1 /\ client' = links + 1
        /\ UNCHANGED taskVars /\ kind' = kind /\ Holder' = Holder
    BY <1>4 DEF Established, taskVars, Holder
  <2>2. \A l \in On(op.sent) : l <= links
    BY DEF CopiesInv, SentInv, On
  <2>3. links + 1 \notin On(op.sent) /\ links \in Nat
    BY <2>2, OpTyped
  <2>4. SentInv'
    <3>1. \A i \in DOMAIN op.sent : op.sent[i] \in LinkNo /\ op.sent[i] <= links
      BY OpTyped DEF CopiesInv, SentInv
    <3>2. \A i \in DOMAIN op.sent : op.sent[i] <= links + 1
      BY <2>3, <3>1, OpTyped
    <3> QED
      BY <2>1, <2>3, <3>2 DEF CopiesInv, SentInv, Tearing
  <2>5. WriteInv'
    BY <2>1, <2>3 DEF CopiesInv, WriteInv, Tearing, Connecting, ConnectAwaits
  <2>6. OneInv'
    BY <2>1 DEF CopiesInv, OneInv, Tearing
  <2> QED
    BY <2>4, <2>5, <2>6 DEF CopiesInv
<1>5. CASE SetupDone
  <2>1. /\ at = "setup" /\ at' = "attempt" /\ UNCHANGED <<client, links, taskVars>>
        /\ op'.sent = op.sent /\ op'.pass = op.pass /\ op'.try = 1
    BY <1>5, OpTyped DEF SetupDone, OpType, linkVars, radioVars
  <2> QED
    BY <2>1, CopiesFirst
<1>6. CASE Prepare
  <2>1. UNCHANGED taskVars /\ links' = links /\ at = "prepare" /\ Holder' = Holder /\ kind' = kind
    BY <1>6 DEF Prepare, radioVars, taskVars, Holder
  <2>2. CASE client = 0
    BY <1>6, <2>1, <2>2, CopiesFails DEF Prepare, Exceptions
  <2>3. CASE client # 0
    <3>1. at' \in {"bgc", "mode"} /\ op'.sent = op.sent /\ op'.pass = op.pass /\ client' = client
      BY <1>6, <2>3, OpTyped DEF Prepare, OpType
    <3>2. at' \in (Connecting \cup {"fresh"}) \ {"ensure"} /\ at \in Connecting
      BY <2>1, <3>1 DEF Connecting, ConnectAwaits
    <3> QED
      BY <2>1, <3>1, <3>2, CopiesConnects
  <2> QED
    BY <2>2, <2>3
<1>7. CASE SettleMode
  <2>1. UNCHANGED taskVars /\ links' = links /\ at = "mode" /\ Holder' = Holder /\ kind' = kind
    BY <1>7 DEF SettleMode, radioVars, taskVars, Holder
  <2>2. CASE \E e \in {"conn", "notSupported"} : ConnectFails(e)
    BY <2>1, <2>2, CopiesFails DEF Exceptions
  <2>3. CASE ~\E e \in {"conn", "notSupported"} : ConnectFails(e)
    <3>1. at' \in {"key", "ready"} /\ op' = op /\ client' = client
      BY <1>7, <2>3 DEF SettleMode, linkVars
    <3>2. at' \in (Connecting \cup {"fresh"}) \ {"ensure"} /\ at \in Connecting
      BY <2>1, <3>1 DEF Connecting, ConnectAwaits
    <3> QED
      BY <2>1, <3>1, <3>2, CopiesConnects
  <2> QED
    BY <2>2, <2>3
<1>8. CASE KeyKept \/ SessionReady
  <2>1. /\ at \in {"confirm", "ready"} /\ at' \in {"ready", "setup"} /\ UNCHANGED <<client, links, taskVars>>
        /\ op'.sent = op.sent /\ op'.pass = op.pass
    BY <1>8, OpTyped DEF KeyKept, KeepKey, SessionReady, OpType, radioVars
  <2>2. at' \in (Connecting \cup {"fresh"}) \ {"ensure"} /\ at \in Connecting
    BY <2>1 DEF Connecting, ConnectAwaits
  <2> QED
    BY <2>1, <2>2, CopiesConnects
<1>9. CASE TeardownWaited \/ TeardownBound
  <2>1. /\ at = "teardown" /\ at' = op.after /\ UNCHANGED <<client, links, taskVars>>
        /\ op'.sent = op.sent /\ op'.pass = op.pass /\ op'.try = op.try /\ kind' = kind /\ Holder' = Holder
    BY <1>9, OpTyped DEF TeardownWaited, TeardownBound, OpType, linkVars, radioVars, taskVars, Holder
  <2>2. SentInv'
    BY <2>1, OpTyped DEF CopiesInv, SentInv, Tearing, Afters
  <2>3. WriteInv'
    <3>1. 0 \notin On(op.sent)
      BY OpTyped
    <3> QED
      BY <2>1, <3>1, OpTyped DEF CopiesInv, WriteInv, Tearing, Afters, Connecting, ConnectAwaits
  <2>4. OneInv'
    BY <2>1 DEF CopiesInv, OneInv, Tearing
  <2> QED
    BY <2>2, <2>3, <2>4 DEF CopiesInv
<1> QED
  BY <1>1, <1>2, <1>3, <1>4, <1>5, <1>6, <1>7, <1>8, <1>9 DEF HolderStepped

\* _send_write_verified and _write_locked: no command goes out more often than
\* WRITE_ATTEMPTS times on a link, nor on a third link, and a query or a
\* send_once goes out once, wherever links drop and whoever cancels.
THEOREM CopiesAreBounded == Spec => []CopiesBounded
<1>1. Init => CopiesInv
  BY DEF Init, NoOp, CopiesInv, SentInv, WriteInv, OneInv, Tearing
<1>2. IInv /\ CopiesInv /\ [Next]_vars => CopiesInv'
  BY EveryStep, CopiesElsewhere, CopiesHolder
<1>3. IInv /\ CopiesInv => CopiesBounded
  <2> SUFFICES ASSUME IInv, CopiesInv, at # "free" PROVE
        /\ kind[Holder] = "write" =>
              /\ Cardinality({op.sent[i] : i \in DOMAIN op.sent}) <= 2
              /\ \A l \in LinkNo : Cardinality({i \in DOMAIN op.sent : op.sent[i] = l}) <= WriteAttempts
        /\ kind[Holder] \in {"once", "query"} => Len(op.sent) <= 1
    BY DEF CopiesBounded
  <2>1. kind[Holder] = "write" => Cardinality(On(op.sent)) <= 2
          /\ \A l \in LinkNo : Copies(op.sent, l) <= WriteAttempts
    BY OpTyped DEF CopiesInv, WriteInv
  <2> QED
    BY <2>1 DEF On, Copies, CopiesInv, OneInv
<1> QED
  BY <1>1, <1>2, <1>3, Inductive, PTL DEF Spec
=============================================================================
