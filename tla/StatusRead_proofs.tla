-------------------------- MODULE StatusRead_proofs --------------------------
(***************************************************************************)
(* StatusRead for any number of requests and packets and any queue bound:  *)
(* its types, that the assembler hands over whole replies or nothing, that *)
(* a complete burst is the reply to the request in hand, that one of two   *)
(* replies needs a lost chunk, and that a reply heard in full is enough.   *)
(***************************************************************************)
EXTENDS StatusRead, SequenceTheorems, TLAPS

LEMMA Constants ==
    /\ EndTag \in Nat /\ EndTag > 0 /\ RxMax \in Nat /\ RxMax > 0
    /\ MaxQueries \in Nat /\ MaxPackets \in Nat /\ MaxPackets > 0 /\ MaxPackets <= EndTag
BY EndTagAssumption, RxMaxAssumption, StatusReadAssumption

LEMMA ChunkFacts ==
    ASSUME NEW c \in Chunk
    PROVE  /\ c # Lost
           /\ c.index \in Nat /\ c.packets \in Nat /\ c.reply \in Reply
           /\ c.fits \in BOOLEAN /\ c.asked \in BOOLEAN
BY Constants DEF Chunk, Lost

\* A full queue of chunks loses its front, and nothing else, to the next one.
LEMMA FullQueueLosesItsFront ==
    ASSUME NEW q \in Seq(Chunk), Len(q) >= RxMax
    PROVE  /\ 1 \in 1 .. Len(q) /\ IsOldestFrame(q, 1)
           /\ DropOldestFrame(q) \in Seq(Chunk)
           /\ Len(DropOldestFrame(q)) = Len(q) - 1
           /\ \A j \in 1 .. (Len(q) - 1) : DropOldestFrame(q)[j] = q[j + 1]
<1> DEFINE k == CHOOSE i \in 1 .. Len(q) : IsOldestFrame(q, i)
           back == SubSeq(q, 2, Len(q))
<1>1. \A i \in 1 .. Len(q) : q[i] # Lost
  BY ChunkFacts
<1>2. 1 \in 1 .. Len(q) /\ IsOldestFrame(q, 1)
  BY <1>1, Constants DEF IsOldestFrame
<1>3. \A i \in 1 .. Len(q) : IsOldestFrame(q, i) => i = 1
  BY <1>1, <1>2 DEF IsOldestFrame
<1>4. k = 1
  BY <1>2, <1>3
<1>5. DropOldestFrame(q) = Without(q, 1)
  BY <1>1, <1>2, <1>4 DEF DropOldestFrame
<1>6. /\ back \in Seq(Chunk) /\ Len(back) = Len(q) - 1
      /\ \A j \in 1 .. (Len(q) - 1) : back[j] = q[j + 1]
  <2>1. \A j \in 2 .. Len(q) : q[j] \in Chunk
    OBVIOUS
  <2>2. Len(q) \in Nat /\ 2 \in Int /\ Len(q) \in Int /\ Len(q) >= 1
    BY <1>2
  <2>3. /\ back \in Seq(Chunk)
        /\ Len(back) = IF 2 <= Len(q) THEN Len(q) - 2 + 1 ELSE 0
        /\ \A j \in 1 .. Len(q) - 2 + 1 : back[j] = q[2 + j - 1]
    BY <2>1, <2>2, SubSeqProperties
  <2>4. \A j \in 1 .. (Len(q) - 1) : j \in 1 .. Len(q) - 2 + 1 /\ 2 + j - 1 = j + 1
    BY <2>2
  <2> HIDE DEF back
  <2> DEFINE n == Len(q)
             m == Len(back)
  <2>5. m = n - 1
    <3>1. n \in Nat /\ n >= 1 /\ m = IF 2 <= n THEN n - 2 + 1 ELSE 0
      BY <2>2, <2>3
    <3> HIDE DEF n, m
    <3> QED
      BY <3>1
  <2>6. ASSUME NEW j \in 1 .. (Len(q) - 1) PROVE back[j] = q[j + 1]
    BY <2>3, <2>4
  <2> QED
    BY <2>3, <2>5, <2>6
<1>7. Without(q, 1) = back
  <2> DEFINE front == SubSeq(q, 1, 0)
  <2>1. front = <<>>
    OBVIOUS
  <2> HIDE DEF front, back
  <2>2. front \o back = back
    BY <2>1, <1>6, ConcatEmptySeq
  <2>3. 1 - 1 = 0 /\ 1 + 1 = 2
    OBVIOUS
  <2> QED
    BY <2>2, <2>3 DEF Without, front, back
<1> QED
  BY <1>2, <1>5, <1>6, <1>7

\* A queue of chunks stays one, within its bound.
LEMMA EnqueuedBounded ==
    ASSUME NEW q \in Seq(Chunk), NEW c \in Chunk, Len(q) <= RxMax
    PROVE  Enqueued(q, c) \in Seq(Chunk) /\ Len(Enqueued(q, c)) <= RxMax
<1> DEFINE p == IF c # Lost /\ Len(q) >= RxMax THEN DropOldestFrame(q) ELSE q
<1>1. c # Lost
  BY ChunkFacts
<1>2. p \in Seq(Chunk) /\ Len(p) <= RxMax - 1
  <2>1. CASE Len(q) >= RxMax
    <3>1. p = DropOldestFrame(q)
      BY <1>1, <2>1
    <3>2. /\ DropOldestFrame(q) \in Seq(Chunk)
          /\ Len(DropOldestFrame(q)) = Len(q) - 1
      BY <2>1, FullQueueLosesItsFront
    <3> QED
      BY <2>1, <3>1, <3>2, Constants
  <2>2. CASE ~(Len(q) >= RxMax)
    <3>1. p = q
      BY <2>2
    <3>2. Len(q) \in Nat
      OBVIOUS
    <3> QED
      BY <2>2, <3>1, <3>2, Constants
  <2> QED
    BY <2>1, <2>2
<1>3. Enqueued(q, c) = Append(p, c)
  BY DEF Enqueued
<1> HIDE DEF p
<1> QED
  BY <1>2, <1>3, AppendProperties, Constants

\* A device's burst is a sequence of chunks of its reply.
LEMMA BurstIsChunks ==
    ASSUME NEW n \in 1 .. MaxPackets, NEW r \in Reply,
           NEW fits \in BOOLEAN, NEW asked \in BOOLEAN, NEW tagged \in BOOLEAN
    PROVE  /\ Burst(n, fits, asked, tagged, r) \in Seq(Chunk)
           /\ Len(Burst(n, fits, asked, tagged, r)) = n
           /\ \A i \in 1 .. n : Burst(n, fits, asked, tagged, r)[i].reply = r
<1> DEFINE B == Burst(n, fits, asked, tagged, r)
<1>1. \A i \in 1 .. n : B[i] \in Chunk /\ B[i].reply = r
  BY Constants DEF Burst, Chunk
<1>2. n \in Nat /\ DOMAIN B = 1 .. n /\ B = [i \in 1 .. n |-> B[i]]
  BY Constants DEF Burst
<1> HIDE DEF B
<1>3. B \in [1 .. n -> Chunk]
  BY <1>1, <1>2
<1>4. B \in Seq(Chunk)
  BY <1>2, <1>3, IsASeq
<1>5. Len(B) = n
  BY <1>2, <1>4, LenProperties
<1> QED
  BY <1>1, <1>4, <1>5 DEF B

-----------------------------------------------------------------------------
(* The queue and the air, in the order the device sent.                    *)

Ascending(q) ==
    \A i, j \in 1 .. Len(q) : i < j => q[i].reply <= q[j].reply

\* What arrives goes behind what is queued; an eviction takes the front.
LEMMA EnqueuedInOrder ==
    ASSUME NEW q \in Seq(Chunk), NEW c \in Chunk, Len(q) <= RxMax, Ascending(q),
           \A i \in 1 .. Len(q) : q[i].reply <= c.reply
    PROVE  /\ Enqueued(q, c) \in Seq(Chunk) /\ Len(Enqueued(q, c)) <= RxMax
           /\ Ascending(Enqueued(q, c))
           /\ \A i \in 1 .. Len(Enqueued(q, c)) :
                 Enqueued(q, c)[i] = c \/ \E j \in 1 .. Len(q) : Enqueued(q, c)[i] = q[j]
<1> DEFINE p == IF c # Lost /\ Len(q) >= RxMax THEN DropOldestFrame(q) ELSE q
           e == Append(p, c)
<1>1. c # Lost /\ \A i \in 1 .. Len(q) : q[i] \in Chunk /\ q[i] # Lost
  BY ChunkFacts
<1>2. Enqueued(q, c) = e
  BY DEF Enqueued
<1>3. e \in Seq(Chunk) /\ Len(e) <= RxMax
  BY <1>2, EnqueuedBounded
<1>4. /\ p \in Seq(Chunk)
      /\ \A i \in 1 .. Len(p) : \E j \in 1 .. Len(q) : p[i] = q[j]
      /\ Ascending(p)
  <2>1. CASE Len(q) >= RxMax
    <3>1. 1 \in 1 .. Len(q) /\ IsOldestFrame(q, 1)
      BY <2>1, FullQueueLosesItsFront
    <3>4. p = DropOldestFrame(q)
      BY <1>1, <2>1
    <3> HIDE DEF p
    <3>5. /\ p \in Seq(Chunk) /\ Len(p) = Len(q) - 1
          /\ \A j \in 1 .. (Len(q) - 1) : p[j] = q[j + 1]
      BY <2>1, <3>4, FullQueueLosesItsFront
    <3>6. \A i \in 1 .. Len(p) : i + 1 \in 1 .. Len(q) /\ p[i] = q[i + 1]
      BY <3>5
    <3>7. Ascending(p)
      <4> SUFFICES ASSUME NEW i \in 1 .. Len(p), NEW j \in 1 .. Len(p), i < j
                   PROVE  p[i].reply <= p[j].reply
        BY DEF Ascending
      <4> QED
        BY <3>6 DEF Ascending
    <3> QED
      BY <3>5, <3>6, <3>7
  <2>2. CASE ~(Len(q) >= RxMax)
    BY <2>2
  <2> QED
    BY <2>1, <2>2
<1> HIDE DEF p
<1>5. /\ Len(e) = Len(p) + 1
      /\ \A i \in 1 .. Len(p) : e[i] = p[i]
      /\ e[Len(p) + 1] = c
  BY <1>4, AppendProperties
<1> HIDE DEF e
<1>6. ASSUME NEW i \in 1 .. Len(e)
      PROVE  e[i] = c \/ \E j \in 1 .. Len(q) : e[i] = q[j]
  <2>1. i = Len(p) + 1 \/ i \in 1 .. Len(p)
    BY <1>4, <1>5
  <2>2. i \in 1 .. Len(p) => e[i] = p[i]
    BY <1>5
  <2> QED
    BY <1>4, <1>5, <2>1, <2>2
<1>7. Ascending(e)
  <2> SUFFICES ASSUME NEW i \in 1 .. Len(e), NEW j \in 1 .. Len(e), i < j
               PROVE  e[i].reply <= e[j].reply
    BY DEF Ascending
  <2>1. CASE j = Len(p) + 1
    <3>1. i \in 1 .. Len(p) /\ e[i] = p[i] /\ e[j] = c
      BY <1>4, <1>5, <2>1
    <3> QED
      BY <1>4, <3>1
  <2>2. CASE j # Len(p) + 1
    <3>1. i \in 1 .. Len(p) /\ j \in 1 .. Len(p) /\ e[i] = p[i] /\ e[j] = p[j]
      BY <1>4, <1>5, <2>2
    <3> QED
      BY <1>4, <3>1 DEF Ascending
  <2> QED
    BY <2>1, <2>2
<1> QED
  BY <1>2, <1>3, <1>6, <1>7

\* Taking the front off leaves the rest in order, behind it.
LEMMA TailInOrder ==
    ASSUME NEW q \in Seq(Chunk), q # <<>>
    PROVE  /\ Tail(q) \in Seq(Chunk) /\ Len(Tail(q)) = Len(q) - 1
           /\ Head(q) \in Chunk /\ 1 \in 1 .. Len(q) /\ Head(q) = q[1]
           /\ \A i \in 1 .. Len(Tail(q)) : i + 1 \in 1 .. Len(q) /\ Tail(q)[i] = q[i + 1]
           /\ Ascending(q) =>
                 /\ Ascending(Tail(q))
                 /\ \A i \in 1 .. Len(q) : Head(q).reply <= q[i].reply
<1>1. /\ Tail(q) \in Seq(Chunk) /\ Len(Tail(q)) = Len(q) - 1
      /\ Head(q) \in Chunk /\ 1 \in 1 .. Len(q) /\ Head(q) = q[1]
      /\ \A i \in 1 .. Len(Tail(q)) : i + 1 \in 1 .. Len(q) /\ Tail(q)[i] = q[i + 1]
  OBVIOUS
<1>2. ASSUME Ascending(q), NEW i \in 1 .. Len(Tail(q)), NEW j \in 1 .. Len(Tail(q)), i < j
      PROVE  Tail(q)[i].reply <= Tail(q)[j].reply
  BY <1>1, <1>2 DEF Ascending
<1>3. ASSUME Ascending(q), NEW i \in 1 .. Len(q)
      PROVE  Head(q).reply <= q[i].reply
  <2>1. CASE i = 1
    <3>1. Head(q).reply \in Reply
      BY <1>1, ChunkFacts
    <3> QED
      BY <1>1, <2>1, <3>1, Constants DEF Reply
  <2>2. CASE i > 1
    BY <1>1, <1>3, <2>2 DEF Ascending
  <2> QED
    BY <1>3, <2>1, <2>2
<1> QED
  BY <1>1, <1>2, <1>3 DEF Ascending

-----------------------------------------------------------------------------
(* Type correctness.                                                       *)

LEMMA InitTyped == Init => TypeOK
BY Constants DEF Init, Empty, TypeOK, AssemblerTyped, ReadTyped, Reply

LEMMA FeedTyped ==
    ASSUME AssemblerTyped, NEW c \in Chunk, Feed(c)
    PROVE  AssemblerTyped'
<1>1. CASE TakesFirst(c)
  BY <1>1, ChunkFacts DEF AssemblerTyped, TakesFirst
<1>2. CASE RejectsFirst(c)
  BY <1>2 DEF AssemblerTyped, RejectsFirst
<1>3. CASE TakesNext(c)
  BY <1>3 DEF AssemblerTyped, TakesNext
<1>4. CASE Ignores(c)
  BY <1>4 DEF AssemblerTyped, Ignores, assembler
<1> QED
  BY <1>1, <1>2, <1>3, <1>4 DEF Feed

\* What the device's answer adds is its own reply.
LEMMA AnswerIsOwn ==
    ASSUME air \in Seq(Chunk), NEW r \in Reply, Answers(r)
    PROVE  /\ air' \in Seq(Chunk)
           /\ Len(air) <= Len(air')
           /\ \A i \in 1 .. Len(air) : air'[i] = air[i]
           /\ \A i \in 1 .. Len(air') : i \in 1 .. Len(air) \/ air'[i].reply = r
<1>1. CASE UNCHANGED air
  BY <1>1
<1>2. ASSUME NEW n \in 1 .. MaxPackets, NEW fits \in BOOLEAN, NEW asked \in BOOLEAN,
             NEW tagged \in BOOLEAN, air' = air \o Burst(n, fits, asked, tagged, r)
      PROVE  /\ air' \in Seq(Chunk)
             /\ Len(air) <= Len(air')
             /\ \A i \in 1 .. Len(air) : air'[i] = air[i]
             /\ \A i \in 1 .. Len(air') : i \in 1 .. Len(air) \/ air'[i].reply = r
  <2> DEFINE B == Burst(n, fits, asked, tagged, r)
             A == air \o B
  <2>1. B \in Seq(Chunk) /\ Len(B) = n /\ \A i \in 1 .. n : B[i].reply = r
    BY BurstIsChunks
  <2> HIDE DEF B
  <2>2. /\ A \in Seq(Chunk) /\ Len(A) = Len(air) + Len(B)
        /\ \A i \in 1 .. (Len(air) + Len(B)) :
              A[i] = IF i <= Len(air) THEN air[i] ELSE B[i - Len(air)]
    BY <2>1, ConcatProperties
  <2> HIDE DEF A
  <2>3. \A i \in 1 .. Len(air) : A[i] = air[i]
    BY <2>1, <2>2
  <2>4. ASSUME NEW i \in 1 .. Len(A), i \notin 1 .. Len(air)
        PROVE  A[i].reply = r
    <3>1. i - Len(air) \in 1 .. n /\ A[i] = B[i - Len(air)]
      BY <2>1, <2>2, <2>4
    <3> QED
      BY <2>1, <3>1
  <2>5. air' = A
    BY <1>2 DEF A, B
  <2> QED
    BY <2>1, <2>2, <2>3, <2>4, <2>5
<1>3. 1 \in 1 .. MaxPackets /\ TRUE \in BOOLEAN /\ FALSE \in BOOLEAN
  BY Constants
<1> QED
  BY <1>1, <1>2, <1>3 DEF Answers

LEMMA AskTyped ==
    ASSUME TypeOK, Ask PROVE AssemblerTyped' /\ queries' \in Reply /\ air' \in Seq(Chunk)
           /\ rx' \in Seq(Chunk) /\ Len(rx') <= RxMax /\ heard' \subseteq Chunk
           /\ damaged' \subseteq Reply /\ lateHeads' \subseteq Chunk /\ phase' = "reading"
<1>1. AssemblerTyped'
  BY DEF Ask, Renew, AssemblerTyped
<1>2. queries' \in Reply
  BY Constants DEF Ask, TypeOK, ReadTyped, Reply
<1>3. air' \in Seq(Chunk)
  BY <1>2, AnswerIsOwn DEF Ask, TypeOK, ReadTyped
<1>4. rx' \in Seq(Chunk) /\ Len(rx') <= RxMax
  BY Constants DEF Ask, Drain
<1>5. \A i \in 1 .. Len(air) : air[i] \in Chunk
  BY DEF TypeOK, ReadTyped
<1>6. lateHeads' \subseteq Chunk
  BY <1>5 DEF Ask
<1> QED
  BY <1>1, <1>2, <1>3, <1>4, <1>6 DEF Ask, TypeOK, ReadTyped

LEMMA QueuesTyped ==
    ASSUME TypeOK, NEW c \in Chunk, Queues(c), air' \in Seq(Chunk)
    PROVE  TypeOK'
<1>1. rx' \in Seq(Chunk) /\ Len(rx') <= RxMax
  BY EnqueuedBounded DEF Queues, TypeOK, ReadTyped
<1>2. \A i \in 1 .. Len(rx) : rx[i].reply \in Reply
  BY ChunkFacts DEF TypeOK, ReadTyped
<1>3. damaged' \subseteq Reply
  BY <1>2 DEF Queues, Evicted, TypeOK, ReadTyped
<1>4. AssemblerTyped'
  BY DEF Queues, readerVars, assembler, TypeOK, AssemblerTyped
<1>5. ReadTyped'
  BY <1>1, <1>3 DEF Queues, readerVars, TypeOK, ReadTyped
<1> QED
  BY <1>4, <1>5 DEF TypeOK

LEMMA NextTyped == TypeOK /\ [Next]_vars => TypeOK'
<1> SUFFICES ASSUME TypeOK, [Next]_vars PROVE TypeOK'
  OBVIOUS
<1>1. ASSUME Ask, attempt' \in {1, 2} PROVE TypeOK'
  BY <1>1, AskTyped DEF TypeOK, ReadTyped
<1>2. CASE Poll
  BY <1>1, <1>2 DEF Poll
<1>3. CASE Retry
  BY <1>1, <1>3 DEF Retry
<1>4. CASE PollEnds
  BY <1>4 DEF PollEnds, Renew, TypeOK, AssemblerTyped, ReadTyped
<1>5. CASE Receive
  <2>1. rx # <<>> /\ Head(rx) \in Chunk /\ Tail(rx) \in Seq(Chunk) /\ Len(Tail(rx)) <= RxMax
    BY <1>5, TailInOrder, Constants DEF Receive, TypeOK, ReadTyped
  <2>2. AssemblerTyped'
    BY <1>5, <2>1, FeedTyped DEF Receive, TypeOK
  <2>3. ReadTyped'
    BY <1>5, <2>1 DEF Receive, history, TypeOK, ReadTyped
  <2> QED
    BY <2>2, <2>3 DEF TypeOK
<1>6. CASE GiveUp
  BY <1>6 DEF GiveUp, history, assembler, TypeOK, AssemblerTyped, ReadTyped
<1>7. CASE Arrive
  BY <1>7, TailInOrder, QueuesTyped DEF Arrive, TypeOK, ReadTyped
<1>8. CASE ArriveTwice
  BY <1>8, TailInOrder, QueuesTyped DEF ArriveTwice, TypeOK, ReadTyped
<1>9. CASE Lose
  <2>1. Tail(air) \in Seq(Chunk) /\ Head(air).reply \in Reply
    BY <1>9, TailInOrder, ChunkFacts DEF Lose, TypeOK, ReadTyped
  <2> QED
    BY <1>9, <2>1 DEF Lose, readerVars, assembler, TypeOK, AssemblerTyped, ReadTyped
<1>10. CASE UNCHANGED vars
  BY <1>10 DEF vars, history, assembler, TypeOK, AssemblerTyped, ReadTyped
<1> QED
  BY <1>2, <1>3, <1>4, <1>5, <1>6, <1>7, <1>8, <1>9, <1>10 DEF Next

\* Every variable keeps its kind of value and the receive queue its bound,
\* whatever the device sends and the radio does to it (_enqueue, _drain, feed).
THEOREM TypeCorrect == Spec => []TypeOK
<1>1. Init => TypeOK
  BY InitTyped
<1>2. TypeOK /\ [Next]_vars => TypeOK'
  BY NextTyped
<1> QED
  BY <1>1, <1>2, PTL DEF Spec

-----------------------------------------------------------------------------
(* Whole replies in order.                                                 *)

\* A burst that is being put together: the first packets of a good reply.
Begun ==
    /\ Len(chunks) = backPos
    /\ chunks[1].index = 0 /\ chunks[1].fits /\ chunks[1].asked
    /\ total = chunks[1].packets
    /\ \A i \in 2 .. Len(chunks) : chunks[i].index = i - 1

Assembly ==
    /\ backPos = 0 => chunks = <<>> /\ status # "complete"
    /\ backPos > 0 /\ status = "waiting" => Begun
    /\ status = "complete" => InOrder!IsWholeReply(chunks)

LEMMA TakesFirstAssembles ==
    ASSUME TypeOK, Assembly, status = "waiting", NEW c \in Chunk, TakesFirst(c)
    PROVE  Assembly' /\ (status' = "complete" => InOrder!IsWholeReply(chunks'))
<1>1. chunks = <<>> /\ backPos' = 1 /\ chunks' = Append(chunks, c)
      /\ c.index = 0 /\ c.fits /\ c.asked /\ total' = c.packets
  BY DEF TakesFirst, IsHead, Assembly
<1>2. chunks' = <<c>> /\ Len(chunks') = 1 /\ chunks'[1] = c
  BY <1>1
<1>3. Begun'
  BY <1>1, <1>2 DEF Begun
<1>4. status' = "complete" => c.packets = 1
  BY DEF TakesFirst
<1>5. status' = "complete" => InOrder!IsWholeReply(chunks')
  BY <1>1, <1>2, <1>4 DEF InOrder!IsWholeReply
<1> QED
  BY <1>1, <1>3, <1>5 DEF Assembly

LEMMA TakesNextAssembles ==
    ASSUME TypeOK, Assembly, status = "waiting", NEW c \in Chunk, TakesNext(c)
    PROVE  Assembly' /\ (status' = "complete" => InOrder!IsWholeReply(chunks'))
<1>1. /\ Begun /\ backPos > 0 /\ backPos \in Nat /\ chunks \in Seq(Chunk)
      /\ total \in Nat \cup {-1} /\ c.index \in Nat
  BY ChunkFacts DEF TakesNext, IsNext, Assembly, TypeOK, AssemblerTyped
<1>2. /\ chunks' = Append(chunks, c) /\ Len(chunks') = backPos + 1
      /\ \A i \in 1 .. backPos : chunks'[i] = chunks[i]
      /\ chunks'[backPos + 1] = c
  BY <1>1, AppendProperties DEF TakesNext, Begun
<1>3. /\ chunks'[1].index = 0 /\ chunks'[1].fits /\ chunks'[1].asked
      /\ total' = chunks'[1].packets /\ total' = total
  BY <1>1, <1>2 DEF TakesNext, Begun
<1>4. \A i \in 2 .. backPos : chunks'[i].index = i - 1
  BY <1>1, <1>2 DEF Begun
<1>5. c.index = backPos \/ (c.index = EndTag /\ AtLast)
  BY DEF TakesNext, IsNext
<1>6. CASE AtLast
  <2>1. status' = "complete" /\ backPos' = backPos
    BY <1>6 DEF TakesNext
  <2>2. total = backPos + 1
    BY <1>1, <1>6 DEF AtLast
  <2>3. InOrder!IsWholeReply(chunks')
    BY <1>1, <1>2, <1>3, <1>4, <1>5, <2>2 DEF InOrder!IsWholeReply
  <2> QED
    BY <1>1, <2>1, <2>3 DEF Assembly
<1>7. CASE ~AtLast
  <2>1. status' = "waiting" /\ backPos' = backPos + 1
    BY <1>7 DEF TakesNext
  <2>2. \A i \in 2 .. Len(chunks') : chunks'[i].index = i - 1
    BY <1>1, <1>2, <1>4, <1>5, <1>7
  <2>3. Begun'
    BY <1>2, <1>3, <2>1, <2>2 DEF Begun
  <2> QED
    BY <1>1, <2>1, <2>3 DEF Assembly
<1> QED
  BY <1>6, <1>7

\* The steps of InOrderBurst, and those it does not see.
LEMMA HandedOver ==
    /\ status = "waiting" /\ status' = "complete" /\ InOrder!IsWholeReply(chunks')
          => InOrder!Next
    /\ status = "waiting" /\ status' = "failed" => InOrder!Next
    /\ status' = "waiting" => InOrder!Next
    /\ UNCHANGED <<status, chunks>> => UNCHANGED <<status, Handed>>
    /\ status = "waiting" /\ status' = "waiting" => UNCHANGED <<status, Handed>>
<1>1. ASSUME status = "waiting", status' = "complete", InOrder!IsWholeReply(chunks')
      PROVE  InOrder!Next
  <2>1. Handed' = chunks'
    BY <1>1 DEF Handed
  <2>2. InOrder!IsWholeReply(Handed')
    BY <1>1, <2>1
  <2> QED
    BY <1>1, <2>2 DEF InOrder!Next, InOrder!Complete
<1>2. ASSUME status = "waiting", status' = "failed"
      PROVE  InOrder!Next
  <2>1. Handed' = <<>>
    BY <1>2 DEF Handed
  <2> QED
    BY <1>2, <2>1 DEF InOrder!Next, InOrder!Fail
<1>3. ASSUME status' = "waiting"
      PROVE  InOrder!Next
  <2>1. Handed' = <<>>
    BY <1>3 DEF Handed
  <2> QED
    BY <1>3, <2>1 DEF InOrder!Next, InOrder!Begin
<1>4. UNCHANGED <<status, chunks>> => UNCHANGED <<status, Handed>>
  BY DEF Handed
<1>5. status = "waiting" /\ status' = "waiting" => UNCHANGED <<status, Handed>>
  BY DEF Handed
<1> QED
  BY <1>1, <1>2, <1>3, <1>4, <1>5

LEMMA FeedAssembles ==
    ASSUME TypeOK, Assembly, NEW c \in Chunk, Feed(c)
    PROVE  Assembly' /\ [InOrder!Next]_<<status, Handed>>
<1>1. status = "waiting"
  BY DEF Feed
<1>2. ASSUME TakesFirst(c) \/ TakesNext(c)
      PROVE  Assembly' /\ [InOrder!Next]_<<status, Handed>>
  <2>1. status' = "waiting" \/ status' = "complete"
    BY <1>1, <1>2 DEF TakesFirst, TakesNext
  <2>2. Assembly' /\ (status' = "complete" => InOrder!IsWholeReply(chunks'))
    BY <1>1, <1>2, TakesFirstAssembles, TakesNextAssembles
  <2> QED
    BY <1>1, <2>1, <2>2, HandedOver
<1>3. CASE RejectsFirst(c)
  <2>1. status' = "failed" /\ backPos' = 0 /\ chunks' = <<>>
    BY <1>3 DEF RejectsFirst, IsMisfit, Assembly
  <2>2. Assembly'
    BY <2>1 DEF Assembly
  <2> QED
    BY <1>1, <2>1, <2>2, HandedOver
<1>4. CASE Ignores(c)
  <2>1. UNCHANGED <<status, chunks>>
    BY <1>4 DEF Ignores, assembler
  <2>2. Assembly'
    BY <1>4 DEF Ignores, assembler, Assembly, Begun
  <2> QED
    BY <2>1, <2>2, HandedOver
<1> QED
  BY <1>2, <1>3, <1>4 DEF Feed

LEMMA NextAssembles ==
    ASSUME TypeOK, Assembly, [Next]_vars
    PROVE  Assembly' /\ [InOrder!Next]_<<status, Handed>>
<1>1. ASSUME Renew
      PROVE  Assembly' /\ InOrder!Next
  BY <1>1, HandedOver DEF Renew, Assembly
<1>2. ASSUME UNCHANGED assembler
      PROVE  Assembly' /\ UNCHANGED <<status, Handed>>
  BY <1>2, HandedOver DEF assembler, Assembly, Begun
<1>3. CASE Poll \/ Retry
  BY <1>1, <1>3 DEF Poll, Retry, Ask
<1>4. CASE PollEnds
  BY <1>1, <1>4 DEF PollEnds
<1>5. CASE Receive
  BY <1>5, TailInOrder, FeedAssembles DEF Receive, TypeOK, ReadTyped
<1>6. CASE GiveUp
  BY <1>2, <1>6 DEF GiveUp
<1>7. CASE Arrive \/ ArriveTwice \/ Lose
  BY <1>2, <1>7 DEF Arrive, ArriveTwice, Queues, Lose, readerVars
<1>8. CASE UNCHANGED vars
  BY <1>2, <1>8 DEF vars
<1> QED
  BY <1>3, <1>4, <1>5, <1>6, <1>7, <1>8 DEF Next

\* The status read implements InOrderBurst: nothing of a burst is handed over
\* before all of it is there in order, and then the whole (BurstAssembler.feed).
THEOREM AssemblesWhole == Spec => AssemblesWholeReplies
<1>1. Init => InOrder!Init /\ Assembly
  BY DEF Init, Empty, Handed, InOrder!Init, Assembly
<1>2. TypeOK /\ Assembly /\ [Next]_vars
        => Assembly' /\ [InOrder!Next]_<<status, Handed>>
  BY NextAssembles
<1> QED
  BY <1>1, <1>2, TypeCorrect, PTL DEF Spec, AssemblesWholeReplies, InOrder!Spec

-----------------------------------------------------------------------------
(* A complete burst is the reply to the request in hand.                   *)

\* The queue, then the air, hold the replies in the order of the requests.
InSendingOrder ==
    /\ Ascending(rx) /\ Ascending(air)
    /\ \A i \in 1 .. Len(rx), j \in 1 .. Len(air) : rx[i].reply <= air[j].reply
    /\ \A i \in 1 .. Len(rx) : rx[i].reply <= queries
    /\ \A i \in 1 .. Len(air) : air[i].reply <= queries

\* A first chunk of an earlier reply that is still to come.
Late(c) == c.index = 0 /\ c.reply # queries

\* The drain has left none in the queue: it was in the air at the request.
LateHeadsKnown ==
    phase = "reading" =>
        /\ \A i \in 1 .. Len(rx) : Late(rx[i]) => rx[i] \in lateHeads
        /\ \A i \in 1 .. Len(air) : Late(air[i]) => air[i] \in lateHeads

\* A read that has begun with its own reply hears nothing else any more.
OwnFromHere ==
    backPos > 0 /\ ~LateHead =>
        /\ \A i \in 1 .. Len(chunks) : chunks[i].reply = queries
        /\ \A i \in 1 .. Len(rx) : rx[i].reply = queries
        /\ \A i \in 1 .. Len(air) : air[i].reply = queries

OwnInv == InSendingOrder /\ LateHeadsKnown /\ OwnFromHere

\* Numbers of replies compare as numbers.
LEMMA ReplyNumbers ==
    ASSUME TypeOK
    PROVE  /\ queries \in Nat
           /\ \A i \in 1 .. Len(rx) : rx[i] \in Chunk /\ rx[i].reply \in Nat
           /\ \A i \in 1 .. Len(air) : air[i] \in Chunk /\ air[i].reply \in Nat
BY ChunkFacts, Constants DEF TypeOK, ReadTyped, Reply

LEMMA AskOwn ==
    ASSUME TypeOK, OwnInv, Ask PROVE OwnInv'
<1> USE ReplyNumbers
<1>1. queries' \in Reply /\ queries' = queries + 1 /\ Answers(queries')
  BY AskTyped DEF Ask
<1>2. /\ air \in Seq(Chunk) /\ air' \in Seq(Chunk)
      /\ Len(air) <= Len(air')
      /\ \A i \in 1 .. Len(air) : air'[i] = air[i]
      /\ \A i \in 1 .. Len(air') : i \in 1 .. Len(air) \/ air'[i].reply = queries'
  BY <1>1, AnswerIsOwn DEF TypeOK, ReadTyped
<1>3. rx' = <<>> /\ backPos' = 0 /\ phase' = "reading"
      /\ lateHeads' = {air[i] : i \in {j \in 1 .. Len(air) : air[j].index = 0}}
  BY DEF Ask, Drain, Renew
<1>4. \A i \in 1 .. Len(air) : air'[i].reply = air[i].reply /\ air[i].reply < queries'
  BY <1>1, <1>2 DEF OwnInv, InSendingOrder
<1>5. Ascending(air')
  <2> SUFFICES ASSUME NEW i \in 1 .. Len(air'), NEW j \in 1 .. Len(air'), i < j
               PROVE  air'[i].reply <= air'[j].reply
    BY DEF Ascending
  <2>1. CASE j \in 1 .. Len(air)
    <3>1. i \in 1 .. Len(air)
      BY <2>1
    <3> QED
      BY <1>2, <2>1, <3>1 DEF OwnInv, InSendingOrder, Ascending
  <2>2. CASE air'[j].reply = queries'
    BY <1>1, <1>2, <1>4, <2>2
  <2> QED
    BY <1>2, <2>1, <2>2
<1>6. \A i \in 1 .. Len(air') : air'[i].reply <= queries'
  BY <1>1, <1>2, <1>4
<1>7. Ascending(rx') /\ InSendingOrder'
  BY <1>3, <1>5, <1>6 DEF InSendingOrder, Ascending
<1>8. ASSUME NEW i \in 1 .. Len(air'), Late(air[i])', air'[i].reply # queries'
      PROVE  air'[i] \in lateHeads'
  <2>1. i \in 1 .. Len(air) /\ air'[i] = air[i]
    BY <1>2, <1>8
  <2>2. air[i].index = 0
    BY <1>8, <2>1 DEF Late
  <2> QED
    BY <1>3, <2>1, <2>2
<1>9. LateHeadsKnown'
  BY <1>3, <1>8 DEF LateHeadsKnown, Late
<1>10. OwnFromHere'
  BY <1>3 DEF OwnFromHere
<1> QED
  BY <1>7, <1>9, <1>10 DEF OwnInv

\* Nothing but what was in the queue or the air is in either of them after.
LEMMA RadioOwn ==
    ASSUME TypeOK, OwnInv, UNCHANGED readerVars,
           InSendingOrder',
           \A i \in 1 .. Len(rx') : \/ \E j \in 1 .. Len(rx) : rx'[i] = rx[j]
                                    \/ \E j \in 1 .. Len(air) : rx'[i] = air[j],
           \A i \in 1 .. Len(air') : \E j \in 1 .. Len(air) : air'[i] = air[j]
    PROVE  OwnInv'
<1>1. UNCHANGED <<phase, queries, heard, lateHeads, backPos, chunks>>
  BY DEF readerVars, assembler
<1>2. LateHeadsKnown'
  <2> SUFFICES ASSUME phase = "reading"
               PROVE  /\ \A i \in 1 .. Len(rx') : Late(rx'[i]) => rx'[i] \in lateHeads
                      /\ \A i \in 1 .. Len(air') : Late(air'[i]) => air'[i] \in lateHeads
    BY <1>1 DEF LateHeadsKnown, Late
  <2> QED
    BY DEF OwnInv, LateHeadsKnown
<1>3. OwnFromHere'
  BY <1>1 DEF OwnInv, OwnFromHere, LateHead
<1> QED
  BY <1>2, <1>3 DEF OwnInv

LEMMA ArrivalInOrder ==
    ASSUME TypeOK, OwnInv, air # <<>>, Queues(Head(air)), air' \in {air, Tail(air)}
    PROVE  OwnInv'
<1> USE ReplyNumbers
<1> DEFINE c == Head(air)
<1>1. /\ air \in Seq(Chunk) /\ rx \in Seq(Chunk) /\ Len(rx) <= RxMax
      /\ Ascending(rx) /\ Ascending(air)
  BY DEF TypeOK, ReadTyped, OwnInv, InSendingOrder
<1>2. /\ Tail(air) \in Seq(Chunk) /\ Ascending(Tail(air))
      /\ c \in Chunk /\ 1 \in 1 .. Len(air) /\ c = air[1]
      /\ \A i \in 1 .. Len(Tail(air)) : i + 1 \in 1 .. Len(air) /\ Tail(air)[i] = air[i + 1]
      /\ \A i \in 1 .. Len(air) : c.reply <= air[i].reply
  BY <1>1, TailInOrder
<1> HIDE DEF c
<1>3. \A i \in 1 .. Len(rx) : rx[i].reply <= c.reply
  BY <1>2 DEF OwnInv, InSendingOrder
<1>4. rx' = Enqueued(rx, c) /\ UNCHANGED readerVars
  BY DEF Queues, c
<1>5. /\ Ascending(rx') /\ rx' \in Seq(Chunk)
      /\ \A i \in 1 .. Len(rx') : rx'[i] = c \/ \E j \in 1 .. Len(rx) : rx'[i] = rx[j]
  BY <1>1, <1>2, <1>3, <1>4, EnqueuedInOrder
<1>6. /\ Ascending(air') /\ air' \in Seq(Chunk)
      /\ \A i \in 1 .. Len(air') : \E j \in 1 .. Len(air) : air'[i] = air[j]
  BY <1>1, <1>2
<1>7. \A i \in 1 .. Len(rx') : rx'[i].reply \in Nat /\ rx'[i].reply <= c.reply
  <2>1. c.reply \in Nat /\ c.reply <= c.reply
    BY <1>2
  <2> QED
    BY <1>3, <1>5, <2>1
<1>8. \A i \in 1 .. Len(air') : c.reply <= air'[i].reply /\ air'[i].reply <= queries
  BY <1>2, <1>6 DEF OwnInv, InSendingOrder
<1>9. c.reply \in Nat /\ c.reply <= queries /\ queries' = queries
  BY <1>2, <1>4 DEF OwnInv, InSendingOrder, readerVars
<1>10. \A i \in 1 .. Len(air') : air'[i].reply \in Nat
  BY <1>6
<1>11. InSendingOrder'
  <2>1. \A i \in 1 .. Len(rx'), j \in 1 .. Len(air') : rx'[i].reply <= air'[j].reply
    BY <1>7, <1>8, <1>9, <1>10
  <2>2. \A i \in 1 .. Len(rx') : rx'[i].reply <= queries'
    BY <1>7, <1>9
  <2>3. \A i \in 1 .. Len(air') : air'[i].reply <= queries'
    BY <1>8, <1>9
  <2> QED
    BY <1>5, <1>6, <2>1, <2>2, <2>3 DEF InSendingOrder
<1>12. \A i \in 1 .. Len(rx') : \/ \E j \in 1 .. Len(rx) : rx'[i] = rx[j]
                                \/ \E j \in 1 .. Len(air) : rx'[i] = air[j]
  BY <1>2, <1>5
<1> QED
  BY <1>4, <1>6, <1>11, <1>12, RadioOwn

LEMMA ReceiveOwn ==
    ASSUME TypeOK, OwnInv, Assembly, Receive PROVE OwnInv'
<1> USE ReplyNumbers
<1> DEFINE c == Head(rx)
<1>1. /\ rx \in Seq(Chunk) /\ rx # <<>> /\ rx' = Tail(rx) /\ Ascending(rx)
      /\ UNCHANGED <<air, queries, lateHeads>> /\ heard' = heard \cup {c}
      /\ phase = "reading" /\ Feed(c)
  BY DEF Receive, history, TypeOK, ReadTyped, OwnInv, InSendingOrder
<1>2. /\ rx' \in Seq(Chunk) /\ Ascending(rx')
      /\ c \in Chunk /\ 1 \in 1 .. Len(rx) /\ c = rx[1]
      /\ \A i \in 1 .. Len(rx') : i + 1 \in 1 .. Len(rx) /\ rx'[i] = rx[i + 1]
      /\ \A i \in 1 .. Len(rx) : c.reply <= rx[i].reply
  BY <1>1, TailInOrder
<1> HIDE DEF c
<1>3. InSendingOrder'
  BY <1>1, <1>2 DEF OwnInv, InSendingOrder
<1>4. LateHeadsKnown'
  BY <1>1, <1>2 DEF OwnInv, LateHeadsKnown, Late
<1>5. LateHead => LateHead'
  BY <1>1 DEF LateHead
<1>6. Late(c) => LateHead'
  BY <1>1, <1>2 DEF OwnInv, LateHeadsKnown, LateHead
<1>7. OwnFromHere'
  <2> SUFFICES ASSUME backPos' > 0, ~LateHead'
               PROVE  /\ \A i \in 1 .. Len(chunks') : chunks'[i].reply = queries
                      /\ \A i \in 1 .. Len(rx') : rx'[i].reply = queries
                      /\ \A i \in 1 .. Len(air) : air[i].reply = queries
    BY <1>1 DEF OwnFromHere
  <2>1. CASE TakesFirst(c)
    <3>1. c.reply = queries /\ chunks' = <<c>>
      BY <1>6, <2>1 DEF TakesFirst, IsHead, Late, Assembly
    <3>2. \A i \in 1 .. Len(rx) : rx[i].reply = queries
      BY <1>2, <3>1 DEF OwnInv, InSendingOrder
    <3>3. \A i \in 1 .. Len(air) : air[i].reply = queries
      BY <1>2, <3>1 DEF OwnInv, InSendingOrder
    <3> QED
      BY <1>2, <3>1, <3>2, <3>3
  <2>2. ASSUME backPos > 0
        PROVE  /\ \A i \in 1 .. Len(chunks) : chunks[i].reply = queries
               /\ \A i \in 1 .. Len(rx) : rx[i].reply = queries
               /\ \A i \in 1 .. Len(air) : air[i].reply = queries
    BY <1>5, <2>2 DEF OwnInv, OwnFromHere
  <2>3. CASE TakesNext(c)
    <3>1. backPos > 0 /\ chunks' = Append(chunks, c) /\ chunks \in Seq(Chunk)
      BY <2>3 DEF TakesNext, IsNext, TypeOK, AssemblerTyped
    <3>2. c.reply = queries /\ \A i \in 1 .. Len(rx') : rx'[i].reply = queries
      BY <1>2, <2>2, <3>1
    <3>3. /\ Len(chunks') = Len(chunks) + 1
          /\ \A i \in 1 .. Len(chunks) : chunks'[i] = chunks[i]
          /\ chunks'[Len(chunks) + 1] = c
      BY <1>2, <3>1, AppendProperties
    <3>4. ASSUME NEW i \in 1 .. Len(chunks')
          PROVE  i \in 1 .. Len(chunks) \/ i = Len(chunks) + 1
      BY <3>1, <3>3
    <3>5. \A i \in 1 .. Len(chunks') : chunks'[i].reply = queries
      BY <2>2, <3>1, <3>2, <3>3, <3>4
    <3> QED
      BY <2>2, <3>1, <3>2, <3>5
  <2>4. CASE RejectsFirst(c)
    BY <2>4 DEF RejectsFirst, IsMisfit
  <2>5. CASE Ignores(c)
    BY <1>2, <2>2, <2>5 DEF Ignores, assembler
  <2> QED
    BY <1>1, <2>1, <2>3, <2>4, <2>5 DEF Feed
<1> QED
  BY <1>3, <1>4, <1>7 DEF OwnInv

LEMMA NextOwn == TypeOK /\ Assembly /\ OwnInv /\ [Next]_vars => OwnInv'
<1> SUFFICES ASSUME TypeOK, Assembly, OwnInv, [Next]_vars PROVE OwnInv'
  OBVIOUS
<1>1. CASE Poll \/ Retry
  BY <1>1, AskOwn DEF Poll, Retry
<1>2. CASE PollEnds
  BY <1>2 DEF PollEnds, Renew, OwnInv, InSendingOrder, LateHeadsKnown, OwnFromHere, Ascending
<1>3. CASE Receive
  BY <1>3, ReceiveOwn
<1>4. CASE GiveUp
  BY <1>4 DEF GiveUp, assembler, history, OwnInv, InSendingOrder, LateHeadsKnown, OwnFromHere, LateHead, Ascending
<1>5. CASE Arrive
  BY <1>5, ArrivalInOrder DEF Arrive
<1>6. CASE ArriveTwice
  BY <1>6, ArrivalInOrder DEF ArriveTwice
<1>7. CASE Lose
  <2>1. air \in Seq(Chunk) /\ air # <<>> /\ air' = Tail(air) /\ rx' = rx /\ UNCHANGED readerVars
    BY <1>7 DEF Lose, TypeOK, ReadTyped
  <2>2. /\ Ascending(air')
        /\ \A i \in 1 .. Len(air') : i + 1 \in 1 .. Len(air) /\ air'[i] = air[i + 1]
    BY <2>1, TailInOrder DEF OwnInv, InSendingOrder
  <2>3. queries' = queries
    BY <2>1 DEF readerVars
  <2>4. InSendingOrder'
    BY <2>1, <2>2, <2>3 DEF OwnInv, InSendingOrder
  <2> QED
    BY <2>1, <2>2, <2>4, RadioOwn
<1>8. CASE UNCHANGED vars
  BY <1>8 DEF vars, assembler, history, OwnInv, InSendingOrder, LateHeadsKnown, Late, OwnFromHere, LateHead, Ascending
<1> QED
  BY <1>1, <1>2, <1>3, <1>4, <1>5, <1>6, <1>7, <1>8 DEF Next

\* Unless the start of an earlier reply was still in the air at the request and
\* is received, a complete burst is the reply to the request in hand: the drain
\* of query, the order of the radio and the in-order rule of feed see to it,
\* whatever is lost, evicted or repeated.
THEOREM OwnReplies == Spec => []OwnUnlessLateHead
<1>1. Init => OwnInv /\ Assembly
  BY DEF Init, Empty, OwnInv, InSendingOrder, LateHeadsKnown, OwnFromHere, Ascending, Assembly
<1>2. TypeOK /\ Assembly /\ [Next]_vars => Assembly'
  BY NextAssembles
<1>3. TypeOK /\ Assembly /\ OwnInv /\ [Next]_vars => OwnInv'
  BY NextOwn
<1>4. TypeOK /\ Assembly /\ OwnInv => OwnUnlessLateHead
  <2>1. TypeOK /\ Assembly /\ status = "complete" => backPos > 0
    BY DEF TypeOK, AssemblerTyped, Assembly
  <2> QED
    BY <2>1 DEF OwnInv, OwnFromHere, OwnUnlessLateHead
<1> QED
  BY <1>1, <1>2, <1>3, <1>4, TypeCorrect, PTL DEF Spec

-----------------------------------------------------------------------------
(* The chunks on their way, in the order of each reply too.                *)

Among(q) == {q[i] : i \in 1 .. Len(q)}

Before(c, d) == c.reply < d.reply \/ (c.reply = d.reply /\ c.index <= d.index)

Sorted(q) == \A i, j \in 1 .. Len(q) : i < j => Before(q[i], q[j])

LEMMA ChunksInside ==
    ASSUME NEW q \in Seq(Chunk)
    PROVE  Among(q) \subseteq Chunk
BY DEF Among

LEMMA BeforeItself ==
    ASSUME NEW c \in Chunk PROVE Before(c, c) /\ c.reply \in Nat /\ c.index \in Nat
BY ChunkFacts, Constants DEF Before, Reply

LEMMA TailSorted ==
    ASSUME NEW q \in Seq(Chunk), q # <<>>, Sorted(q)
    PROVE  /\ Sorted(Tail(q)) /\ Among(Tail(q)) \subseteq Among(q) /\ Head(q) \in Among(q)
           /\ \A d \in Among(q) : d = Head(q) \/ d \in Among(Tail(q))
           /\ \A d \in Among(q) : Before(Head(q), d)
<1>1. /\ Tail(q) \in Seq(Chunk) /\ Len(Tail(q)) = Len(q) - 1
      /\ Head(q) \in Chunk /\ 1 \in 1 .. Len(q) /\ Head(q) = q[1]
      /\ \A i \in 1 .. Len(Tail(q)) : i + 1 \in 1 .. Len(q) /\ Tail(q)[i] = q[i + 1]
  BY TailInOrder
<1>2. ASSUME NEW i \in 1 .. Len(q), i # 1
      PROVE  i - 1 \in 1 .. Len(Tail(q)) /\ Tail(q)[i - 1] = q[i] /\ Before(Head(q), q[i])
  <2>1. i - 1 \in 1 .. Len(Tail(q)) /\ (i - 1) + 1 = i /\ 1 < i
    BY <1>1, <1>2
  <2>2. Tail(q)[i - 1] = q[i]
    BY <1>1, <2>1
  <2>3. Before(q[1], q[i])
    BY <1>1, <2>1 DEF Sorted
  <2> QED
    BY <1>1, <2>1, <2>2, <2>3
<1>3. Sorted(Tail(q))
  <2> SUFFICES ASSUME NEW i \in 1 .. Len(Tail(q)), NEW j \in 1 .. Len(Tail(q)), i < j
               PROVE  Before(Tail(q)[i], Tail(q)[j])
    BY DEF Sorted
  <2>1. i + 1 \in 1 .. Len(q) /\ j + 1 \in 1 .. Len(q) /\ i + 1 < j + 1
    BY <1>1
  <2>2. Before(q[i + 1], q[j + 1])
    BY <2>1 DEF Sorted
  <2> QED
    BY <1>1, <2>2
<1>4. Head(q) \in Among(q) /\ Among(Tail(q)) \subseteq Among(q)
  BY <1>1 DEF Among
<1>5. \A d \in Among(q) : d = Head(q) \/ d \in Among(Tail(q))
  BY <1>1, <1>2 DEF Among
<1>6. \A d \in Among(q) : Before(Head(q), d)
  BY <1>1, <1>2, BeforeItself DEF Among
<1> QED
  BY <1>3, <1>4, <1>5, <1>6

\* What a full queue loses for a chunk is its front.
LEMMA EnqueuedSorted ==
    ASSUME NEW q \in Seq(Chunk), NEW c \in Chunk, Len(q) <= RxMax, Sorted(q),
           \A d \in Among(q) : Before(d, c)
    PROVE  /\ Sorted(Enqueued(q, c)) /\ c \in Among(Enqueued(q, c))
           /\ Among(Enqueued(q, c)) \subseteq Among(q) \cup {c}
           /\ \A i \in 1 .. Len(q) : \/ q[i] \in Among(Enqueued(q, c))
                                     \/ Len(q) >= RxMax /\ IsOldestFrame(q, i)
<1> DEFINE p == IF c # Lost /\ Len(q) >= RxMax THEN DropOldestFrame(q) ELSE q
           e == Append(p, c)
<1>1. c # Lost /\ \A i \in 1 .. Len(q) : q[i] \in Chunk /\ q[i] # Lost
  BY ChunkFacts
<1>2. Enqueued(q, c) = e
  BY DEF Enqueued
<1>4. /\ p \in Seq(Chunk) /\ Sorted(p) /\ Among(p) \subseteq Among(q)
      /\ \A i \in 1 .. Len(q) : q[i] \in Among(p) \/ (Len(q) >= RxMax /\ IsOldestFrame(q, i))
  <2>1. CASE Len(q) >= RxMax
    <3>1. 1 \in 1 .. Len(q) /\ IsOldestFrame(q, 1)
      BY <2>1, FullQueueLosesItsFront
    <3>4. p = DropOldestFrame(q)
      BY <1>1, <2>1
    <3> HIDE DEF p
    <3>5. /\ p \in Seq(Chunk) /\ Len(p) = Len(q) - 1
          /\ \A j \in 1 .. (Len(q) - 1) : p[j] = q[j + 1]
      BY <2>1, <3>4, FullQueueLosesItsFront
    <3>6. \A i \in 1 .. Len(p) : i + 1 \in 1 .. Len(q) /\ p[i] = q[i + 1]
      BY <3>5
    <3>7. Sorted(p)
      <4> SUFFICES ASSUME NEW i \in 1 .. Len(p), NEW j \in 1 .. Len(p), i < j
                   PROVE  Before(p[i], p[j])
        BY DEF Sorted
      <4>1. i + 1 \in 1 .. Len(q) /\ j + 1 \in 1 .. Len(q) /\ i + 1 < j + 1
        BY <3>6
      <4>2. Before(q[i + 1], q[j + 1])
        BY <4>1 DEF Sorted
      <4> QED
        BY <3>6, <4>2
    <3>8. Among(p) \subseteq Among(q)
      BY <3>6 DEF Among
    <3>9. ASSUME NEW i \in 1 .. Len(q), i # 1 PROVE q[i] \in Among(p)
      <4>1. i - 1 \in 1 .. Len(p) /\ i - 1 \in 1 .. (Len(q) - 1) /\ (i - 1) + 1 = i
        BY <3>5, <3>9
      <4>2. p[i - 1] = q[i]
        BY <3>5, <4>1
      <4> QED
        BY <4>1, <4>2 DEF Among
    <3> QED
      BY <2>1, <3>1, <3>5, <3>7, <3>8, <3>9
  <2>2. CASE ~(Len(q) >= RxMax)
    <3>1. p = q
      BY <2>2
    <3> HIDE DEF p
    <3> QED
      BY <3>1 DEF Among
  <2> QED
    BY <2>1, <2>2
<1> HIDE DEF p
<1>5. /\ Len(e) = Len(p) + 1
      /\ \A i \in 1 .. Len(p) : i \in 1 .. Len(e) /\ e[i] = p[i]
      /\ e[Len(p) + 1] = c /\ Len(p) + 1 \in 1 .. Len(e)
      /\ \A i \in 1 .. Len(e) : i \in 1 .. Len(p) \/ i = Len(p) + 1
  BY <1>4, AppendProperties
<1> HIDE DEF e
<1>6. Among(p) \subseteq Among(e) /\ Among(e) \subseteq Among(p) \cup {c} /\ c \in Among(e)
  BY <1>5 DEF Among
<1>7. Sorted(e)
  <2> SUFFICES ASSUME NEW i \in 1 .. Len(e), NEW j \in 1 .. Len(e), i < j
               PROVE  Before(e[i], e[j])
    BY DEF Sorted
  <2>1. i \in 1 .. Len(p) /\ e[i] = p[i] /\ p[i] \in Among(p)
    BY <1>4, <1>5 DEF Among
  <2>2. CASE j = Len(p) + 1
    BY <1>4, <1>5, <2>1, <2>2
  <2>3. CASE j # Len(p) + 1
    <3>1. j \in 1 .. Len(p) /\ e[j] = p[j]
      BY <1>5, <2>3
    <3> QED
      BY <1>4, <2>1, <3>1 DEF Sorted
  <2> QED
    BY <2>2, <2>3
<1> QED
  BY <1>2, <1>4, <1>6, <1>7

\* A place of a reply of n packets: its index, or the end tag on the last.
IsAt(d, k, n) == d.index = k \/ (d.index = EndTag /\ k = n - 1)

\* What the device adds: nothing, or a reply, whole and in order.
NewReply(B, r) ==
    /\ B \in Seq(Chunk) /\ Sorted(B)
    /\ \A c \in Among(B) : c.reply = r /\ c.packets \in 1 .. MaxPackets
    /\ \A c, d \in Among(B) : c.packets = d.packets /\ c.fits = d.fits /\ c.asked = d.asked
    /\ \A c \in Among(B) : \A k \in c.index + 1 .. c.packets - 1 : \E d \in Among(B) : IsAt(d, k, c.packets)

LEMMA BurstIsReply ==
    ASSUME NEW n \in 1 .. MaxPackets, NEW r \in Reply,
           NEW fits \in BOOLEAN, NEW asked \in BOOLEAN, NEW tagged \in BOOLEAN
    PROVE  NewReply(Burst(n, fits, asked, tagged, r), r)
<1> DEFINE B == Burst(n, fits, asked, tagged, r)
<1>1. /\ B \in Seq(Chunk) /\ Len(B) = n
      /\ \A i \in 1 .. n : B[i].reply = r
  BY BurstIsChunks
<1>2. n \in Nat /\ n <= EndTag
  BY Constants
<1>3. \A i \in 1 .. n : /\ B[i].packets = n /\ B[i].fits = fits /\ B[i].asked = asked
                        /\ B[i].index = IF i = n /\ i > 1 /\ tagged THEN EndTag ELSE i - 1
  BY DEF Burst
<1> HIDE DEF B
<1>4. Sorted(B)
  <2> SUFFICES ASSUME NEW i \in 1 .. n, NEW j \in 1 .. n, i < j
               PROVE  Before(B[i], B[j])
    BY <1>1 DEF Sorted
  <2>1. B[i].index = i - 1 /\ (B[j].index = EndTag \/ B[j].index = j - 1)
    BY <1>2, <1>3
  <2>2. B[i].index <= B[j].index
    BY <1>2, <2>1, Constants
  <2>3. B[i].reply = B[j].reply
    BY <1>1
  <2> QED
    BY <2>2, <2>3 DEF Before
<1>5. \A c \in Among(B) : c.reply = r /\ c.packets = n /\ c.fits = fits /\ c.asked = asked
  BY <1>1, <1>3 DEF Among
<1>6. ASSUME NEW c \in Among(B), NEW k \in c.index + 1 .. c.packets - 1
      PROVE  \E d \in Among(B) : IsAt(d, k, c.packets)
  <2>1. c.packets = n /\ c.index \in Nat
    BY <1>1, <1>5, BeforeItself, ChunksInside
  <2>2. k \in Nat /\ k > 0 /\ k + 1 \in 1 .. n
    BY <1>2, <1>6, <2>1
  <2>3. B[k + 1].index = k \/ (B[k + 1].index = EndTag /\ k = n - 1)
    BY <1>2, <1>3, <2>2
  <2>4. B[k + 1] \in Among(B)
    BY <1>1, <2>2 DEF Among
  <2> QED
    BY <2>1, <2>3, <2>4 DEF IsAt
<1> QED
  BY <1>1, <1>4, <1>5, <1>6 DEF NewReply, B

LEMMA AnswerSorted ==
    ASSUME air \in Seq(Chunk), NEW r \in Reply, Answers(r), Sorted(air), \A d \in Among(air) : d.reply < r
    PROVE  \E B : NewReply(B, r) /\ Among(air') = Among(air) \cup Among(B) /\ Sorted(air')
<1>1. CASE UNCHANGED air
  <2>1. NewReply(<<>>, r) /\ Among(<<>>) = {}
    BY DEF NewReply, Among, Sorted
  <2> QED
    BY <1>1, <2>1
<1>2. ASSUME NEW n \in 1 .. MaxPackets, NEW fits \in BOOLEAN, NEW asked \in BOOLEAN,
             NEW tagged \in BOOLEAN, air' = air \o Burst(n, fits, asked, tagged, r)
      PROVE  \E B : NewReply(B, r) /\ Among(air') = Among(air) \cup Among(B) /\ Sorted(air')
  <2> DEFINE B == Burst(n, fits, asked, tagged, r)
             A == air \o B
  <2>1. NewReply(B, r)
    BY BurstIsReply
  <2> HIDE DEF B
  <2>2. /\ A \in Seq(Chunk) /\ Len(A) = Len(air) + Len(B) /\ B \in Seq(Chunk)
        /\ \A i \in 1 .. (Len(air) + Len(B)) :
              A[i] = IF i <= Len(air) THEN air[i] ELSE B[i - Len(air)]
    BY <2>1, ConcatProperties DEF NewReply
  <2> HIDE DEF A
  <2>3. \A i \in 1 .. Len(air) : i \in 1 .. Len(A) /\ A[i] = air[i]
    BY <2>2
  <2>4. ASSUME NEW i \in 1 .. Len(B) PROVE i + Len(air) \in 1 .. Len(A) /\ A[i + Len(air)] = B[i]
    BY <2>2, <2>4
  <2>5. ASSUME NEW i \in 1 .. Len(A), i \notin 1 .. Len(air)
        PROVE  i - Len(air) \in 1 .. Len(B) /\ A[i] = B[i - Len(air)]
    BY <2>2, <2>5
  <2>6. Among(A) = Among(air) \cup Among(B)
    <3>1. ASSUME NEW d \in Among(A) PROVE d \in Among(air) \cup Among(B)
      <4>1. PICK i \in 1 .. Len(A) : d = A[i]
        BY <3>1 DEF Among
      <4>2. CASE i \in 1 .. Len(air)
        BY <2>3, <4>1, <4>2 DEF Among
      <4>3. CASE i \notin 1 .. Len(air)
        BY <2>5, <4>1, <4>3 DEF Among
      <4> QED
        BY <4>2, <4>3
    <3>2. Among(air) \subseteq Among(A)
      BY <2>3 DEF Among
    <3>3. ASSUME NEW d \in Among(B) PROVE d \in Among(A)
      <4>1. PICK i \in 1 .. Len(B) : d = B[i]
        BY <3>3 DEF Among
      <4> QED
        BY <2>4, <4>1 DEF Among
    <3> QED
      BY <3>1, <3>2, <3>3
  <2>7. Sorted(A)
    <3> SUFFICES ASSUME NEW i \in 1 .. Len(A), NEW j \in 1 .. Len(A), i < j PROVE Before(A[i], A[j])
      BY DEF Sorted
    <3>1. CASE j \in 1 .. Len(air)
      <4>1. i \in 1 .. Len(air)
        BY <3>1
      <4> QED
        BY <2>3, <3>1, <4>1 DEF Sorted
    <3>2. CASE i \in 1 .. Len(air) /\ j \notin 1 .. Len(air)
      <4>1. A[i] \in Among(air) /\ A[j] \in Among(B)
        BY <2>3, <2>5, <3>2 DEF Among
      <4>2. A[i].reply < A[j].reply
        BY <2>1, <4>1 DEF NewReply
      <4> QED
        BY <4>2 DEF Before
    <3>3. CASE i \notin 1 .. Len(air) /\ j \notin 1 .. Len(air)
      <4>1. /\ A[i] = B[i - Len(air)] /\ A[j] = B[j - Len(air)] /\ i - Len(air) < j - Len(air)
            /\ i - Len(air) \in 1 .. Len(B) /\ j - Len(air) \in 1 .. Len(B)
        BY <2>5, <3>3
      <4> QED
        BY <2>1, <4>1 DEF NewReply, Sorted
    <3> QED
      BY <3>1, <3>2, <3>3
  <2>8. air' = A
    BY <1>2 DEF A, B
  <2> QED
    BY <2>1, <2>6, <2>7, <2>8
<1>3. 1 \in 1 .. MaxPackets /\ TRUE \in BOOLEAN /\ FALSE \in BOOLEAN
  BY Constants
<1> QED
  BY <1>1, <1>2, <1>3 DEF Answers

-----------------------------------------------------------------------------
(* What is still to come of a reply.                                       *)

Stream == Among(rx) \cup Among(air)

\* What was heard came before what is to come, and the queue before the air.
Ordered ==
    /\ Sorted(rx) /\ Sorted(air)
    /\ \A c \in Among(rx), d \in Among(air) : Before(c, d)
    /\ \A c \in heard, d \in Stream : Before(c, d)

\* The chunks of one reply agree on what its first chunk declares.
OneBurst ==
    \A c, d \in heard \cup Stream :
        c.reply = d.reply => c.packets = d.packets /\ c.fits = d.fits /\ c.asked = d.asked

Sized == \A c \in heard \cup Stream : c.packets \in 1 .. MaxPackets

Comes(r, k, n) == \E d \in Stream : d.reply = r /\ IsAt(d, k, n)

\* Behind a chunk of an undamaged reply the rest of the reply comes.
Whole ==
    \A c \in Stream : c.reply \notin damaged =>
        \A k \in c.index + 1 .. c.packets - 1 : Comes(c.reply, k, c.packets)

\* What the assembler waits for comes, unless the reply it began with is damaged.
RestToCome ==
    status = "waiting" /\ backPos > 0 /\ chunks[1].reply \notin damaged =>
        \A k \in backPos .. total - 1 : Comes(chunks[1].reply, k, total)

Taken == \A i \in 1 .. Len(chunks) : chunks[i] \in heard

\* A waiting assembler has a packet to wait for.
Short == status = "waiting" /\ backPos > 0 => backPos < total

\* Of its own reply it has let nothing pass that it could use.
NotPassed ==
    status = "waiting" /\ ~LateHead =>
        \A c \in heard : c.reply = queries => ~IsHead(c) /\ ~IsMisfit(c) /\ ~IsNext(c)

\* It fails on its own reply only.
FailedOwn ==
    status = "failed" /\ ~LateHead => \E c \in heard : c.reply = queries /\ ~c.fits

StreamInv == Ordered /\ OneBurst /\ Sized /\ Whole

BurstInv == RestToCome /\ Taken /\ Short /\ NotPassed /\ FailedOwn /\ SpliceNeedsLoss

LEMMA StreamTyped ==
    ASSUME TypeOK PROVE Stream \subseteq Chunk /\ heard \subseteq Chunk /\ queries \in Nat
BY ChunksInside, ReplyNumbers DEF Stream, TypeOK, ReadTyped

LEMMA BeforeChains ==
    ASSUME NEW c \in Chunk, NEW d \in Chunk, NEW e \in Chunk, Before(c, d), Before(d, e)
    PROVE  Before(c, e)
BY BeforeItself DEF Before

\* A chunk is not one of those that come behind it.
LEMMA NotBehind ==
    ASSUME NEW c \in Chunk, NEW d \in Chunk, c.packets \in 1 .. MaxPackets,
           d.reply = c.reply, Before(d, c), NEW k \in c.index + 1 .. c.packets - 1
    PROVE  ~IsAt(d, k, c.packets)
<1>1. /\ c.index \in Nat /\ d.index \in Nat /\ d.reply \in Nat
      /\ d.index <= c.index
  BY BeforeItself DEF Before
<1>2. k \in Int /\ k > c.index /\ k < EndTag
  BY <1>1, Constants
<1> QED
  BY <1>1, <1>2, Constants DEF IsAt

-----------------------------------------------------------------------------
(* The radio, whatever it does.                                            *)

RadioStep ==
    /\ UNCHANGED readerVars
    /\ Ordered'
    /\ Stream' \subseteq Stream /\ damaged \subseteq damaged'
    /\ \A d \in Stream : d \in Stream' \/ d.reply \in damaged'

LEMMA QueuesStep ==
    ASSUME TypeOK, Ordered, air # <<>>, Queues(Head(air)), air' \in {air, Tail(air)}
    PROVE  RadioStep
<1> DEFINE c == Head(air)
<1>1. air \in Seq(Chunk) /\ rx \in Seq(Chunk) /\ Len(rx) <= RxMax
  BY DEF TypeOK, ReadTyped
<1>2. /\ Sorted(Tail(air)) /\ Among(Tail(air)) \subseteq Among(air) /\ c \in Among(air)
      /\ \A d \in Among(air) : d = c \/ d \in Among(Tail(air))
      /\ \A d \in Among(air) : Before(c, d)
  BY <1>1, TailSorted DEF Ordered
<1>3. c \in Chunk
  BY <1>1, <1>2, ChunksInside
<1> HIDE DEF c
<1>4. Sorted(rx) /\ \A d \in Among(rx) : Before(d, c)
  BY <1>2 DEF Ordered
<1>5. /\ Sorted(Enqueued(rx, c)) /\ c \in Among(Enqueued(rx, c))
      /\ Among(Enqueued(rx, c)) \subseteq Among(rx) \cup {c}
      /\ \A i \in 1 .. Len(rx) : \/ rx[i] \in Among(Enqueued(rx, c))
                                 \/ Len(rx) >= RxMax /\ IsOldestFrame(rx, i)
  BY <1>1, <1>3, <1>4, EnqueuedSorted
<1>6. rx' = Enqueued(rx, c) /\ damaged' = damaged \cup Evicted /\ UNCHANGED readerVars
  BY DEF Queues, c
<1>7. /\ Sorted(rx') /\ c \in Among(rx') /\ Among(rx') \subseteq Among(rx) \cup {c}
  BY <1>5, <1>6 DEF Among
<1>8. ASSUME NEW d \in Among(rx) PROVE d \in Among(rx') \/ d.reply \in damaged'
  <2>1. PICK i \in 1 .. Len(rx) : d = rx[i]
    BY <1>8 DEF Among
  <2>2. CASE rx[i] \in Among(Enqueued(rx, c))
    BY <1>6, <2>1, <2>2 DEF Among
  <2>3. CASE Len(rx) >= RxMax /\ IsOldestFrame(rx, i)
    <3>1. rx[i].reply \in Evicted
      BY <2>3 DEF Evicted
    <3> QED
      BY <1>6, <2>1, <3>1
  <2> QED
    BY <1>5, <2>2, <2>3
<1>9. /\ Sorted(air') /\ Among(air') \subseteq Among(air)
      /\ \A d \in Among(air) : d = c \/ d \in Among(air')
  <2>1. CASE air' = air
    BY <2>1 DEF Ordered, Among, Sorted
  <2>2. CASE air' = Tail(air)
    BY <1>2, <2>2 DEF Among, Sorted
  <2> QED
    BY <2>1, <2>2
<1>10. \A d \in Among(rx'), e \in Among(air') : Before(d, e)
  BY <1>2, <1>7, <1>9 DEF Ordered
<1>11. Stream' \subseteq Stream
  BY <1>2, <1>7, <1>9 DEF Stream
<1>12. heard' = heard
  BY <1>6 DEF readerVars
<1>13. Ordered'
  BY <1>7, <1>9, <1>10, <1>11, <1>12 DEF Ordered
<1>14. \A d \in Stream : d \in Stream' \/ d.reply \in damaged'
  BY <1>7, <1>8, <1>9 DEF Stream
<1> QED
  BY <1>6, <1>11, <1>13, <1>14 DEF RadioStep

LEMMA LoseStep ==
    ASSUME TypeOK, Ordered, Lose PROVE RadioStep
<1> DEFINE c == Head(air)
<1>1. air \in Seq(Chunk) /\ air # <<>> /\ air' = Tail(air) /\ rx' = rx /\ UNCHANGED readerVars
      /\ damaged' = damaged \cup {c.reply}
  BY DEF Lose, TypeOK, ReadTyped
<1>2. /\ Sorted(Tail(air)) /\ Among(Tail(air)) \subseteq Among(air)
      /\ \A d \in Among(air) : d = c \/ d \in Among(Tail(air))
  BY <1>1, TailSorted DEF Ordered
<1> HIDE DEF c
<1>3. Sorted(air') /\ Among(air') = Among(Tail(air)) /\ Among(rx') = Among(rx) /\ Sorted(rx')
  BY <1>1, <1>2 DEF Among, Sorted, Ordered
<1>4. Stream' \subseteq Stream /\ heard' = heard
  BY <1>1, <1>2, <1>3 DEF Stream, readerVars
<1>5. \A d \in Stream : d \in Stream' \/ d.reply \in damaged'
  BY <1>1, <1>2, <1>3 DEF Stream
<1>6. Ordered'
  BY <1>2, <1>3, <1>4 DEF Ordered
<1> QED
  BY <1>1, <1>4, <1>5, <1>6 DEF RadioStep

LEMMA RadioKeeps ==
    ASSUME StreamInv, BurstInv, RadioStep
    PROVE  StreamInv' /\ BurstInv'
<1>1. UNCHANGED <<status, backPos, total, chunks, queries, heard, lateHeads>>
  BY DEF RadioStep, readerVars, assembler
<1>2. OneBurst' /\ Sized'
  BY <1>1 DEF RadioStep, StreamInv, OneBurst, Sized
<1>3. ASSUME NEW r, NEW k, NEW n, Comes(r, k, n), r \notin damaged'
      PROVE  Comes(r, k, n)'
  <2>1. PICK d \in Stream : d.reply = r /\ IsAt(d, k, n)
    BY <1>3 DEF Comes
  <2>2. d \in Stream'
    BY <1>3, <2>1 DEF RadioStep
  <2> QED
    BY <2>1, <2>2 DEF Comes, IsAt
<1>4. Whole'
  <2> SUFFICES ASSUME NEW c \in Stream', c.reply \notin damaged',
                      NEW k \in c.index + 1 .. c.packets - 1
               PROVE  Comes(c.reply, k, c.packets)'
    BY DEF Whole
  <2>1. c \in Stream /\ c.reply \notin damaged
    BY DEF RadioStep
  <2>2. Comes(c.reply, k, c.packets)
    BY <2>1 DEF StreamInv, Whole
  <2> QED
    BY <1>3, <2>2
<1>5. RestToCome'
  <2> SUFFICES ASSUME status' = "waiting", backPos' > 0, chunks'[1].reply \notin damaged',
                      NEW k \in backPos' .. total' - 1
               PROVE  \E d \in Stream' : d.reply = chunks'[1].reply /\ IsAt(d, k, total')
    BY DEF RestToCome, Comes, IsAt
  <2>1. Comes(chunks[1].reply, k, total)
    BY <1>1 DEF RadioStep, BurstInv, RestToCome
  <2>2. PICK d \in Stream : d.reply = chunks[1].reply /\ IsAt(d, k, total)
    BY <2>1 DEF Comes
  <2>3. d \in Stream'
    BY <1>1, <2>2 DEF RadioStep
  <2> QED
    BY <1>1, <2>2, <2>3 DEF IsAt
<1>6. Taken' /\ Short' /\ SpliceNeedsLoss'
  BY <1>1 DEF RadioStep, BurstInv, Taken, Short, SpliceNeedsLoss
<1>7. NotPassed'
  BY <1>1 DEF BurstInv, NotPassed, LateHead, IsHead, IsMisfit, IsNext, AtLast
<1>8. FailedOwn'
  BY <1>1 DEF BurstInv, FailedOwn, LateHead
<1> QED
  BY <1>2, <1>4, <1>5, <1>6, <1>7, <1>8 DEF StreamInv, BurstInv, RadioStep

-----------------------------------------------------------------------------
(* The reader takes a chunk.                                               *)

Takes(c) ==
    /\ c \in Chunk /\ c \in Stream /\ Feed(c) /\ status = "waiting" /\ phase = "reading"
    /\ heard' = heard \cup {c}
    /\ Ordered' /\ Stream' \subseteq Stream
    /\ \A d \in Stream : (d = c \/ d \in Stream') /\ Before(c, d)
    /\ UNCHANGED <<queries, damaged, lateHeads>>

LEMMA ReceiveTakes ==
    ASSUME TypeOK, Ordered, Receive PROVE Takes(Head(rx))
<1> DEFINE c == Head(rx)
<1>1. /\ rx \in Seq(Chunk) /\ rx # <<>> /\ rx' = Tail(rx) /\ air' = air
      /\ heard' = heard \cup {c} /\ UNCHANGED <<queries, damaged, lateHeads>>
      /\ Feed(c) /\ status = "waiting" /\ phase = "reading"
  BY DEF Receive, Feed, history, TypeOK, ReadTyped
<1>2. /\ Sorted(Tail(rx)) /\ Among(Tail(rx)) \subseteq Among(rx) /\ c \in Among(rx)
      /\ \A d \in Among(rx) : d = c \/ d \in Among(Tail(rx))
      /\ \A d \in Among(rx) : Before(c, d)
  BY <1>1, TailSorted DEF Ordered
<1> HIDE DEF c
<1>3. Sorted(rx') /\ Among(rx') = Among(Tail(rx)) /\ Among(air') = Among(air) /\ Sorted(air')
  BY <1>1, <1>2 DEF Among, Sorted, Ordered
<1>4. /\ c \in Stream /\ Stream' \subseteq Stream
      /\ \A d \in Stream : d = c \/ d \in Stream'
  BY <1>1, <1>2, <1>3 DEF Stream
<1>5. \A d \in Stream : Before(c, d)
  BY <1>2 DEF Stream, Ordered
<1>6. \A d \in Among(rx'), e \in Among(air') : Before(d, e)
  BY <1>2, <1>3 DEF Ordered
<1>7. \A d \in heard', e \in Stream' : Before(d, e)
  BY <1>1, <1>4, <1>5 DEF Ordered
<1>8. Ordered'
  BY <1>3, <1>6, <1>7 DEF Ordered
<1>9. c \in Chunk
  BY <1>4, StreamTyped
<1> QED
  BY <1>1, <1>4, <1>5, <1>8, <1>9 DEF Takes, c

LEMMA TakesKeepsStream ==
    ASSUME TypeOK, StreamInv, NEW c, Takes(c)
    PROVE  StreamInv'
<1>1. heard' \cup Stream' \subseteq heard \cup Stream
  BY DEF Takes
<1>2. OneBurst' /\ Sized'
  BY <1>1 DEF StreamInv, OneBurst, Sized
<1>3. Whole'
  <2> SUFFICES ASSUME NEW e \in Stream', e.reply \notin damaged',
                      NEW k \in e.index + 1 .. e.packets - 1
               PROVE  \E d \in Stream' : d.reply = e.reply /\ IsAt(d, k, e.packets)
    BY DEF Whole, Comes, IsAt
  <2>1. e \in Stream /\ e \in Chunk /\ c \in Chunk /\ e.reply \notin damaged
        /\ e.packets \in 1 .. MaxPackets /\ Before(c, e)
    BY StreamTyped DEF Takes, StreamInv, Sized
  <2>2. Comes(e.reply, k, e.packets)
    BY <2>1 DEF StreamInv, Whole
  <2>3. PICK d \in Stream : d.reply = e.reply /\ IsAt(d, k, e.packets)
    BY <2>2 DEF Comes
  <2>4. c.reply = e.reply => ~IsAt(c, k, e.packets)
    BY <2>1, NotBehind
  <2>5. d \in Stream'
    BY <2>3, <2>4 DEF Takes
  <2> QED
    BY <2>3, <2>5
<1> QED
  BY <1>2, <1>3 DEF StreamInv, Takes

\* The assembler's numbers, as far as a taken chunk needs them.
LEMMA AssemblerNumbers ==
    ASSUME TypeOK, StreamInv, BurstInv, Assembly, status = "waiting"
    PROVE  /\ backPos \in Nat /\ chunks \in Seq(Chunk)
           /\ backPos > 0 => /\ Len(chunks) = backPos /\ 1 \in 1 .. Len(chunks)
                             /\ chunks[1] \in Chunk /\ chunks[1] \in heard
                             /\ total = chunks[1].packets /\ total \in 1 .. MaxPackets
                             /\ total \in Int /\ total <= EndTag /\ backPos < total
<1>1. backPos \in Nat /\ chunks \in Seq(Chunk)
  BY DEF TypeOK, AssemblerTyped
<1>2. ASSUME backPos > 0
      PROVE  /\ Len(chunks) = backPos /\ 1 \in 1 .. Len(chunks)
             /\ chunks[1] \in Chunk /\ chunks[1] \in heard
             /\ total = chunks[1].packets /\ backPos < total
  BY <1>1, <1>2 DEF Assembly, Begun, BurstInv, Taken, Short
<1>3. ASSUME backPos > 0 PROVE total \in 1 .. MaxPackets
  BY <1>2, <1>3 DEF StreamInv, Sized
<1> QED
  BY <1>1, <1>2, <1>3, Constants

\* What an ignored chunk is not: the packet waited for, or one behind it.
LEMMA IgnoredIsPast ==
    ASSUME TypeOK, StreamInv, BurstInv, Assembly, NEW c, Takes(c), ~IsNext(c), backPos > 0,
           c.reply = chunks[1].reply, c.reply \notin damaged, NEW k \in backPos .. total - 1
    PROVE  ~IsAt(c, k, total)
<1> SUFFICES ASSUME IsAt(c, k, total) PROVE FALSE
  OBVIOUS
<1>1. /\ c \in Chunk /\ status = "waiting" /\ backPos \in Nat
      /\ total \in Int /\ total <= EndTag /\ backPos < total
  BY AssemblerNumbers DEF Takes
<1>2. c.index \in Nat /\ k \in Int /\ EndTag \in Nat
  BY <1>1, ChunkFacts, Constants
<1>3. CASE k = backPos
  BY <1>1, <1>2, <1>3 DEF IsAt, IsNext, AtLast
<1>4. CASE k # backPos
  <2>1. backPos \in backPos .. total - 1
    BY <1>1
  <2>2. Comes(c.reply, backPos, total)
    BY <1>1, <2>1 DEF BurstInv, RestToCome
  <2>3. PICK d \in Stream : d.reply = c.reply /\ IsAt(d, backPos, total)
    BY <2>2 DEF Comes
  <2>4. d.index = backPos
    BY <1>1, <1>2, <1>4, <2>3 DEF IsAt
  <2>5. c.index > backPos
    BY <1>1, <1>2, <1>4 DEF IsAt
  <2>6. Before(c, d) /\ c.reply \in Nat
    BY <1>1, BeforeItself DEF Takes
  <2> QED
    BY <1>1, <1>2, <2>3, <2>4, <2>5, <2>6 DEF Before
<1> QED
  BY <1>3, <1>4

\* What is behind the front of an undamaged stream is still to come.
LEMMA StillComes ==
    ASSUME NEW c, Takes(c), NEW r, NEW k, NEW n, Comes(r, k, n),
           c.reply = r => ~IsAt(c, k, n)
    PROVE  \E d \in Stream' : d.reply = r /\ IsAt(d, k, n)
<1>1. PICK d \in Stream : d.reply = r /\ IsAt(d, k, n)
  BY DEF Comes
<1>2. d \in Stream'
  BY <1>1 DEF Takes
<1> QED
  BY <1>1, <1>2

LEMMA FirstBegins ==
    ASSUME TypeOK, Assembly, StreamInv, BurstInv, NEW c, Takes(c), TakesFirst(c), OwnInv'
    PROVE  BurstInv'
<1>1. /\ chunks = <<>> /\ backPos' = 1 /\ chunks' = Append(chunks, c)
      /\ c.index = 0 /\ total' = c.packets /\ c \in Stream /\ c \in Chunk
      /\ status' = IF c.packets = 1 THEN "complete" ELSE "waiting"
  BY DEF Takes, TakesFirst, IsHead, Assembly
<1>2. /\ chunks' = <<c>> /\ Len(chunks') = 1 /\ chunks'[1] = c
      /\ \A i \in 1 .. Len(chunks') : chunks'[i] = c
  BY <1>1
<1>3. c.packets \in 1 .. MaxPackets /\ c.packets \in Int /\ c.packets >= 1
  BY <1>1, Constants DEF StreamInv, Sized
<1>4. Taken' /\ SpliceNeedsLoss'
  BY <1>2 DEF Taken, SpliceNeedsLoss, Takes
<1>5. Short'
  BY <1>1, <1>3 DEF Short
<1>6. RestToCome'
  <2> SUFFICES ASSUME chunks'[1].reply \notin damaged', NEW k \in backPos' .. total' - 1
               PROVE  \E d \in Stream' : d.reply = chunks'[1].reply /\ IsAt(d, k, total')
    BY DEF RestToCome, Comes, IsAt
  <2>1. k \in c.index + 1 .. c.packets - 1 /\ c.reply \notin damaged
    BY <1>1, <1>2 DEF Takes
  <2>2. Comes(c.reply, k, c.packets)
    BY <1>1, <2>1 DEF StreamInv, Whole
  <2>3. ~IsAt(c, k, c.packets)
    BY <1>1, <1>3, <2>1, NotBehind, BeforeItself
  <2>4. \E d \in Stream' : d.reply = c.reply /\ IsAt(d, k, c.packets)
    BY <2>2, <2>3, StillComes
  <2> QED
    BY <1>1, <1>2, <2>4
<1>7. NotPassed'
  <2> SUFFICES ASSUME ~LateHead', NEW e \in heard', e.reply = queries'
               PROVE  ~IsHead(e)' /\ ~IsMisfit(e)' /\ ~IsNext(e)'
    BY DEF NotPassed
  <2>1. 1 \in 1 .. Len(chunks') /\ backPos' > 0
    BY <1>1, <1>2
  <2>2. c.reply = queries'
    BY <1>2, <2>1 DEF OwnInv, OwnFromHere
  <2>3. e \in heard \/ e = c
    BY DEF Takes
  <2>4. e \in Chunk /\ Before(e, c)
    BY <1>1, <2>3, StreamTyped, BeforeItself DEF StreamInv, Ordered
  <2>5. e.index = 0
    BY <1>1, <2>2, <2>4, BeforeItself DEF Before
  <2> QED
    BY <1>1, <2>5 DEF IsHead, IsMisfit, IsNext
<1>8. FailedOwn'
  BY <1>1 DEF FailedOwn
<1> QED
  BY <1>4, <1>5, <1>6, <1>7, <1>8 DEF BurstInv

LEMMA NextJoins ==
    ASSUME TypeOK, Assembly, StreamInv, BurstInv, NEW c, Takes(c), TakesNext(c), OwnInv'
    PROVE  BurstInv'
<1>1. /\ backPos > 0 /\ c.index # 0 /\ chunks' = Append(chunks, c) /\ total' = total
      /\ c \in Stream /\ c \in Chunk /\ status = "waiting"
  BY DEF Takes, TakesNext, IsNext
<1>2. /\ backPos \in Nat /\ chunks \in Seq(Chunk)
      /\ Len(chunks) = backPos /\ 1 \in 1 .. Len(chunks) /\ chunks[1] \in Chunk /\ chunks[1] \in heard
      /\ total \in Int /\ total <= EndTag /\ backPos < total
  BY <1>1, AssemblerNumbers
<1>3. c.index \in Nat /\ EndTag \in Nat
  BY <1>1, ChunkFacts, Constants
<1>4. /\ Len(chunks') = Len(chunks) + 1 /\ chunks'[1] = chunks[1]
      /\ \A i \in 1 .. Len(chunks) : chunks'[i] = chunks[i]
      /\ chunks'[Len(chunks) + 1] = c
      /\ \A i \in 1 .. Len(chunks') : i \in 1 .. Len(chunks) \/ i = Len(chunks) + 1
  BY <1>1, <1>2, AppendProperties
<1>6. status' = "complete" \/ (~AtLast /\ backPos' = backPos + 1 /\ status' = "waiting")
  BY <1>1 DEF TakesNext
<1>7. ASSUME ~AtLast PROVE c.index = backPos /\ c.index # EndTag
  BY <1>7 DEF TakesNext, IsNext
<1>8. Taken'
  BY <1>4 DEF Takes, BurstInv, Taken
<1>9. ASSUME chunks[1].reply \notin damaged PROVE c.reply = chunks[1].reply
  <2>1. backPos \in backPos .. total - 1
    BY <1>2
  <2>2. Comes(chunks[1].reply, backPos, total)
    BY <1>1, <1>9, <2>1 DEF BurstInv, RestToCome
  <2>3. PICK d \in Stream : d.reply = chunks[1].reply
    BY <2>2 DEF Comes
  <2>4. Before(c, d) /\ Before(chunks[1], c)
    BY <1>1, <1>2 DEF Takes, StreamInv, Ordered
  <2>5. c.reply \in Nat /\ chunks[1].reply \in Nat
    BY <1>1, <1>2, BeforeItself
  <2> QED
    BY <2>3, <2>4, <2>5 DEF Before
<1>10. SpliceNeedsLoss'
  <2> SUFFICES ASSUME chunks[1].reply \notin damaged, NEW i \in 1 .. Len(chunks')
               PROVE  chunks'[i].reply = chunks[1].reply
    BY <1>4 DEF SpliceNeedsLoss, Takes
  <2>1. CASE i \in 1 .. Len(chunks)
    BY <1>4, <2>1 DEF BurstInv, SpliceNeedsLoss
  <2>2. CASE i = Len(chunks) + 1
    BY <1>4, <1>9, <2>2
  <2> QED
    BY <1>4, <2>1, <2>2
<1>11. Short'
  BY <1>1, <1>2, <1>6 DEF Short, AtLast
<1>12. RestToCome'
  <2> SUFFICES ASSUME status' = "waiting", chunks'[1].reply \notin damaged', NEW k \in backPos' .. total' - 1
               PROVE  \E d \in Stream' : d.reply = chunks'[1].reply /\ IsAt(d, k, total')
    BY DEF RestToCome, Comes, IsAt
  <2>1. /\ ~AtLast /\ backPos' = backPos + 1 /\ chunks[1].reply \notin damaged
        /\ c.index = backPos /\ c.index # EndTag /\ c.reply = chunks[1].reply
    BY <1>4, <1>6, <1>7, <1>9 DEF Takes
  <2>2. k \in backPos .. total - 1 /\ k > backPos /\ k \in Int
    BY <1>1, <1>2, <2>1
  <2>3. Comes(chunks[1].reply, k, total)
    BY <1>1, <2>1, <2>2 DEF BurstInv, RestToCome
  <2>4. PICK d \in Stream : d.reply = chunks[1].reply /\ IsAt(d, k, total)
    BY <2>3 DEF Comes
  <2>5. ~IsAt(c, k, total)
    BY <1>2, <1>3, <2>1, <2>2 DEF IsAt
  <2>6. d \in Stream'
    BY <2>4, <2>5 DEF Takes
  <2> QED
    BY <1>1, <1>4, <2>4, <2>6
<1>13. NotPassed'
  <2> SUFFICES ASSUME status' = "waiting", ~LateHead', NEW e \in heard', e.reply = queries'
               PROVE  ~IsHead(e)' /\ ~IsMisfit(e)' /\ ~IsNext(e)'
    BY DEF NotPassed
  <2>1. /\ ~AtLast /\ backPos' = backPos + 1 /\ c.index = backPos /\ c.index # EndTag
    BY <1>6, <1>7
  <2>2. backPos' > 0 /\ Len(chunks) + 1 \in 1 .. Len(chunks')
    BY <1>2, <1>4, <2>1
  <2>3. c.reply = queries'
    BY <1>4, <2>2 DEF OwnInv, OwnFromHere
  <2>4. e \in heard \/ e = c
    BY DEF Takes
  <2>5. e \in Chunk /\ Before(e, c)
    BY <1>1, <2>4, StreamTyped, BeforeItself DEF StreamInv, Ordered
  <2>6. e.index \in Nat /\ e.index <= backPos
    BY <2>1, <2>3, <2>5, BeforeItself DEF Before
  <2>7. e.index # backPos' /\ e.index # EndTag
    BY <1>2, <1>3, <2>1, <2>6
  <2> QED
    BY <1>2, <2>1, <2>7 DEF IsHead, IsMisfit, IsNext
<1>14. FailedOwn'
  BY <1>6 DEF FailedOwn
<1> QED
  BY <1>8, <1>10, <1>11, <1>12, <1>13, <1>14 DEF BurstInv

LEMMA MisfitFails ==
    ASSUME TypeOK, BurstInv, OwnInv, NEW c, Takes(c), RejectsFirst(c)
    PROVE  BurstInv'
<1>1. /\ status' = "failed" /\ UNCHANGED <<backPos, total, chunks>>
      /\ c.index = 0 /\ ~c.fits /\ c \in heard' /\ c \in Stream /\ phase = "reading"
  BY DEF Takes, RejectsFirst, IsMisfit
<1>2. Taken' /\ SpliceNeedsLoss'
  BY <1>1 DEF Takes, BurstInv, Taken, SpliceNeedsLoss
<1>3. FailedOwn'
  <2> SUFFICES ASSUME ~LateHead' PROVE c.reply = queries'
    BY <1>1 DEF FailedOwn
  <2>1. c \in Among(rx) \/ c \in Among(air)
    BY <1>1 DEF Stream
  <2>2. Late(c) => c \in lateHeads
    BY <1>1, <2>1 DEF OwnInv, LateHeadsKnown, Among
  <2>3. ~Late(c)
    BY <1>1, <2>2 DEF LateHead, Takes
  <2> QED
    BY <1>1, <2>3 DEF Late, Takes
<1> QED
  BY <1>1, <1>2, <1>3 DEF BurstInv, RestToCome, Short, NotPassed

LEMMA IgnoredPasses ==
    ASSUME TypeOK, Assembly, StreamInv, BurstInv, NEW c, Takes(c), Ignores(c)
    PROVE  BurstInv'
<1>1. /\ UNCHANGED <<status, backPos, total, chunks>> /\ status = "waiting"
      /\ ~IsHead(c) /\ ~IsMisfit(c) /\ ~IsNext(c)
      /\ heard' = heard \cup {c} /\ UNCHANGED <<queries, damaged, lateHeads>>
  BY DEF Takes, Ignores, assembler
<1>2. Taken' /\ SpliceNeedsLoss' /\ Short' /\ FailedOwn'
  BY <1>1 DEF BurstInv, Taken, SpliceNeedsLoss, Short, FailedOwn
<1>3. RestToCome'
  <2> SUFFICES ASSUME backPos > 0, chunks[1].reply \notin damaged, NEW k \in backPos .. total - 1
               PROVE  \E d \in Stream' : d.reply = chunks[1].reply /\ IsAt(d, k, total)
    BY <1>1 DEF RestToCome, Comes, IsAt
  <2>1. Comes(chunks[1].reply, k, total)
    BY <1>1 DEF BurstInv, RestToCome
  <2>2. PICK d \in Stream : d.reply = chunks[1].reply /\ IsAt(d, k, total)
    BY <2>1 DEF Comes
  <2>3. c.reply = chunks[1].reply => ~IsAt(c, k, total)
    BY <1>1, IgnoredIsPast
  <2>4. d \in Stream'
    BY <2>2, <2>3 DEF Takes
  <2> QED
    BY <2>2, <2>4
<1>4. NotPassed'
  <2>1. ~LateHead' => ~LateHead
    BY <1>1 DEF LateHead
  <2> QED
    BY <1>1, <2>1 DEF BurstInv, NotPassed, IsHead, IsMisfit, IsNext, AtLast
<1> QED
  BY <1>2, <1>3, <1>4 DEF BurstInv

LEMMA ReceiveKeeps ==
    ASSUME TypeOK, Assembly, OwnInv, StreamInv, BurstInv, Receive
    PROVE  StreamInv' /\ BurstInv'
<1> DEFINE c == Head(rx)
<1>1. Takes(c)
  BY ReceiveTakes DEF StreamInv
<1>2. OwnInv'
  BY ReceiveOwn
<1> HIDE DEF c
<1>3. StreamInv'
  BY <1>1, TakesKeepsStream
<1>4. CASE TakesFirst(c)
  BY <1>1, <1>2, <1>3, <1>4, FirstBegins
<1>5. CASE RejectsFirst(c)
  BY <1>1, <1>3, <1>5, MisfitFails
<1>6. CASE TakesNext(c)
  BY <1>1, <1>2, <1>3, <1>6, NextJoins
<1>7. CASE Ignores(c)
  BY <1>1, <1>3, <1>7, IgnoredPasses
<1> QED
  BY <1>1, <1>3, <1>4, <1>5, <1>6, <1>7 DEF Takes, Feed

-----------------------------------------------------------------------------
(* A new request.                                                          *)

LEMMA EmptyBegins ==
    ASSUME status' = "waiting", backPos' = 0, total' = -1, chunks' = <<>>, heard' = {}
    PROVE  BurstInv'
BY DEF BurstInv, RestToCome, Taken, Short, NotPassed, FailedOwn, SpliceNeedsLoss

LEMMA AskKeeps ==
    ASSUME TypeOK, OwnInv, StreamInv, Ask
    PROVE  StreamInv' /\ BurstInv'
<1>1. /\ BurstInv' /\ heard' = {} /\ rx' = <<>> /\ damaged' = damaged
      /\ queries' = queries + 1 /\ queries' \in Reply /\ Answers(queries')
  BY AskTyped, EmptyBegins DEF Ask, Renew, Drain
<1>2. air \in Seq(Chunk) /\ rx \in Seq(Chunk) /\ Sorted(air)
  BY DEF TypeOK, ReadTyped, StreamInv, Ordered
<1>3. \A d \in Among(air) : d \in Chunk /\ d.reply \in Nat /\ d.reply < queries'
  <2> SUFFICES ASSUME NEW i \in 1 .. Len(air)
               PROVE  air[i] \in Chunk /\ air[i].reply \in Nat /\ air[i].reply < queries'
    BY DEF Among
  <2> QED
    BY <1>1, ReplyNumbers DEF OwnInv, InSendingOrder
<1>4. \E B : NewReply(B, queries') /\ Among(air') = Among(air) \cup Among(B) /\ Sorted(air')
  BY <1>1, <1>2, <1>3, AnswerSorted
<1>5. PICK B : NewReply(B, queries') /\ Among(air') = Among(air) \cup Among(B) /\ Sorted(air')
  BY <1>4
<1>6. Sorted(rx') /\ Among(rx') = {}
  BY <1>1 DEF Sorted, Among
<1>7. Stream' = Among(air) \cup Among(B)
  BY <1>5, <1>6 DEF Stream
<1>8. Ordered'
  BY <1>1, <1>5, <1>6 DEF Ordered
<1>9. /\ \A d \in Among(B) : d.reply = queries' /\ d.packets \in 1 .. MaxPackets
      /\ \A d, e \in Among(B) : d.packets = e.packets /\ d.fits = e.fits /\ d.asked = e.asked
      /\ \A d \in Among(B) : \A k \in d.index + 1 .. d.packets - 1 : \E e \in Among(B) : IsAt(e, k, d.packets)
  BY <1>5 DEF NewReply
<1>10. Among(air) \subseteq Stream
  BY DEF Stream
<1>11. Sized'
  BY <1>1, <1>7, <1>9, <1>10 DEF StreamInv, Sized
<1>12. OneBurst'
  <2> SUFFICES ASSUME NEW d \in Stream', NEW e \in Stream', d.reply = e.reply
               PROVE  d.packets = e.packets /\ d.fits = e.fits /\ d.asked = e.asked
    BY <1>1 DEF OneBurst
  <2>1. CASE d \in Among(air) /\ e \in Among(air)
    BY <1>10, <2>1 DEF StreamInv, OneBurst
  <2>2. CASE d \in Among(B) /\ e \in Among(B)
    BY <1>9, <2>2
  <2>3. ASSUME NEW x \in Among(air), NEW y \in Among(B) PROVE x.reply # y.reply
    BY <1>1, <1>3, <1>9, ReplyNumbers
  <2> QED
    BY <1>7, <2>1, <2>2, <2>3
<1>13. Whole'
  <2> SUFFICES ASSUME NEW d \in Stream', d.reply \notin damaged',
                      NEW k \in d.index + 1 .. d.packets - 1
               PROVE  \E e \in Stream' : e.reply = d.reply /\ IsAt(e, k, d.packets)
    BY DEF Whole, Comes, IsAt
  <2>1. CASE d \in Among(B)
    <3>1. PICK e \in Among(B) : IsAt(e, k, d.packets)
      BY <1>9, <2>1
    <3> QED
      BY <1>7, <1>9, <2>1, <3>1
  <2>2. CASE d \in Among(air)
    <3>1. d \in Stream /\ d.reply \notin damaged
      BY <1>1, <1>10, <2>2
    <3>2. Comes(d.reply, k, d.packets)
      BY <3>1 DEF StreamInv, Whole
    <3>3. PICK e \in Stream : e.reply = d.reply /\ IsAt(e, k, d.packets)
      BY <3>2 DEF Comes
    <3>4. e \in Chunk /\ d \in Chunk /\ d.packets \in 1 .. MaxPackets
      BY <3>1, StreamTyped DEF StreamInv, Sized
    <3>5. ~Before(e, d)
      BY <3>3, <3>4, NotBehind
    <3>6. e \in Among(air)
      BY <2>2, <3>3, <3>5 DEF Stream, StreamInv, Ordered
    <3> QED
      BY <1>7, <3>3, <3>6
  <2> QED
    BY <1>7, <2>1, <2>2
<1> QED
  BY <1>1, <1>8, <1>11, <1>12, <1>13 DEF StreamInv

\* The call returns: the frames are gone, the stream stays.
LEMMA EndKeeps ==
    ASSUME StreamInv, PollEnds PROVE StreamInv' /\ BurstInv'
<1>1. /\ UNCHANGED <<air, rx, damaged>> /\ heard' = {} /\ BurstInv'
  BY EmptyBegins DEF PollEnds, Renew
<1>2. UNCHANGED <<Stream, Among(rx), Among(air)>>
  BY <1>1 DEF Stream, Among
<1>3. Ordered'
  BY <1>1, <1>2 DEF StreamInv, Ordered, Sorted
<1>4. OneBurst' /\ Sized'
  BY <1>1, <1>2 DEF StreamInv, OneBurst, Sized
<1>5. Whole'
  BY <1>1, <1>2 DEF StreamInv, Whole, Comes, IsAt
<1> QED
  BY <1>1, <1>3, <1>4, <1>5 DEF StreamInv

LEMMA RestKeeps ==
    ASSUME StreamInv, BurstInv,
           UNCHANGED <<assembler, queries, air, rx, heard, history>>
    PROVE  StreamInv' /\ BurstInv'
<1>1. UNCHANGED <<status, backPos, total, chunks, queries, air, rx, heard, damaged, lateHeads>>
  BY DEF assembler, history
<1>2. UNCHANGED <<Stream, Among(rx), Among(air)>>
  BY <1>1 DEF Stream, Among
<1>3. Ordered' /\ OneBurst' /\ Sized'
  BY <1>1, <1>2 DEF StreamInv, Ordered, Sorted, OneBurst, Sized
<1>4. Whole' /\ RestToCome'
  BY <1>1, <1>2 DEF StreamInv, BurstInv, Whole, RestToCome, Comes, IsAt
<1>5. Taken' /\ Short' /\ FailedOwn' /\ SpliceNeedsLoss'
  BY <1>1 DEF BurstInv, Taken, Short, FailedOwn, LateHead, SpliceNeedsLoss
<1>6. NotPassed'
  BY <1>1 DEF BurstInv, NotPassed, LateHead, IsHead, IsMisfit, IsNext, AtLast
<1> QED
  BY <1>3, <1>4, <1>5, <1>6 DEF StreamInv, BurstInv

LEMMA NextBurst ==
    ASSUME TypeOK, Assembly, OwnInv, StreamInv, BurstInv, [Next]_vars
    PROVE  StreamInv' /\ BurstInv'
<1>1. CASE Poll \/ Retry
  BY <1>1, AskKeeps DEF Poll, Retry
<1>2. CASE PollEnds
  BY <1>2, EndKeeps
<1>3. CASE Receive
  BY <1>3, ReceiveKeeps
<1>4. CASE GiveUp
  BY <1>4, RestKeeps DEF GiveUp
<1>5. CASE Arrive
  BY <1>5, QueuesStep, RadioKeeps DEF Arrive, StreamInv
<1>6. CASE ArriveTwice
  BY <1>6, QueuesStep, RadioKeeps DEF ArriveTwice, StreamInv
<1>7. CASE Lose
  BY <1>7, LoseStep, RadioKeeps DEF StreamInv
<1>8. CASE UNCHANGED vars
  BY <1>8, RestKeeps DEF vars
<1> QED
  BY <1>1, <1>2, <1>3, <1>4, <1>5, <1>6, <1>7, <1>8 DEF Next

\* What a read relies on, all of it.
ReadInv == Assembly /\ OwnInv /\ StreamInv /\ BurstInv

LEMMA ReadInvariant == Spec => [](TypeOK /\ ReadInv)
<1>1. Init => ReadInv
  BY DEF Init, Empty, ReadInv, Assembly, OwnInv, InSendingOrder, LateHeadsKnown, OwnFromHere, Ascending,
         StreamInv, Ordered, Sorted, Among, Stream, OneBurst, Sized, Whole,
         BurstInv, RestToCome, Taken, Short, NotPassed, FailedOwn, SpliceNeedsLoss
<1>2. TypeOK /\ ReadInv /\ [Next]_vars => ReadInv'
  BY NextAssembles, NextOwn, NextBurst DEF ReadInv
<1> QED
  BY <1>1, <1>2, TypeCorrect, PTL DEF Spec

\* A burst of two replies needs a lost chunk of the one it began with: short of
\* one, that reply is still to come from where the assembler stands, and a later
\* one only behind it (the order of the radio, _enqueue, feed).
THEOREM SpliceIsLoss == Spec => []SpliceNeedsLoss
<1>1. ReadInv => SpliceNeedsLoss
  BY DEF ReadInv, BurstInv
<1> QED
  BY <1>1, ReadInvariant, PTL

\* A read that has ended over all of its own reply, and no late first chunk, is
\* complete: a waiting assembler has let nothing pass that it could use, and it
\* fails on its own reply only (status_burst, feed).
THEOREM OwnReplyIsEnough == Spec => []OwnReplySuffices
<1>1. ASSUME TypeOK, ReadInv, OwnReplyHeard, ~LateHead PROVE status = "complete"
  <2>1. PICK n \in 1 .. MaxPackets, tagged \in BOOLEAN :
           \A i \in 1 .. n : Burst(n, TRUE, TRUE, tagged, queries)[i] \in heard
    BY <1>1 DEF OwnReplyHeard
  <2> DEFINE at(i) == Burst(n, TRUE, TRUE, tagged, queries)[i]
  <2>2. n \in Int /\ 1 <= n /\ n <= EndTag
    BY Constants
  <2>3. \A i \in 1 .. n :
           /\ at(i) \in heard /\ at(i).reply = queries /\ at(i).packets = n
           /\ at(i).fits /\ at(i).asked
           /\ at(i).index = IF i = n /\ i > 1 /\ tagged THEN EndTag ELSE i - 1
    BY <2>1 DEF Burst
  <2> HIDE DEF at
  <2>4. 1 \in 1 .. n /\ at(1) \in heard /\ at(1).index = 0
    BY <2>2, <2>3
  <2>5. status # "failed"
    <3> SUFFICES ASSUME status = "failed" PROVE FALSE
      OBVIOUS
    <3>1. PICK c \in heard : c.reply = queries /\ ~c.fits
      BY <1>1 DEF ReadInv, BurstInv, FailedOwn
    <3>2. c.fits = at(1).fits
      BY <1>1, <2>3, <2>4, <3>1 DEF ReadInv, StreamInv, OneBurst
    <3> QED
      BY <2>3, <2>4, <3>1, <3>2
  <2>6. status # "waiting"
    <3> SUFFICES ASSUME status = "waiting" PROVE FALSE
      OBVIOUS
    <3>1. \A c \in heard : c.reply = queries => ~IsHead(c) /\ ~IsNext(c)
      BY <1>1 DEF ReadInv, BurstInv, NotPassed
    <3>2. backPos # 0
      BY <2>3, <2>4, <3>1 DEF IsHead
    <3>3. /\ backPos \in Nat /\ backPos > 0 /\ 1 \in 1 .. Len(chunks) /\ chunks[1] \in heard
          /\ total = chunks[1].packets /\ backPos < total
      BY <1>1, <3>2, AssemblerNumbers DEF ReadInv
    <3>4. chunks[1].reply = queries
      BY <1>1, <3>3 DEF ReadInv, OwnInv, OwnFromHere
    <3>5. total = n
      BY <1>1, <2>3, <2>4, <3>3, <3>4 DEF ReadInv, StreamInv, OneBurst
    <3>6. backPos + 1 \in 1 .. n
      BY <2>2, <3>3, <3>5
    <3>7. at(backPos + 1).index = IF backPos = n - 1 /\ tagged THEN EndTag ELSE backPos
      BY <2>3, <3>3, <3>6
    <3>8. IsNext(at(backPos + 1))
      BY <2>2, <3>3, <3>5, <3>7, Constants DEF IsNext, AtLast
    <3> QED
      BY <2>3, <3>1, <3>6, <3>8
  <2> QED
    BY <1>1, <2>5, <2>6 DEF TypeOK, AssemblerTyped
<1>2. TypeOK /\ ReadInv => OwnReplySuffices
  BY <1>1 DEF OwnReplySuffices
<1> QED
  BY <1>2, ReadInvariant, PTL
=============================================================================
