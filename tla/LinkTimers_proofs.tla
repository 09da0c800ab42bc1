-------------------------- MODULE LinkTimers_proofs --------------------------
(***************************************************************************)
(* LinkTimers for every number of callers and links and every delay: its   *)
(* types, that the idle disconnect comes neither early nor late, that      *)
(* nobody waits for a beat, that a closed connection is silent, and that   *)
(* the beats of a link come after quiet and never stop.                    *)
(***************************************************************************)
EXTENDS LinkTimers, SequenceTheorems, TLAPS

Waiter == [who : Tasks \cup {"idle"}, gen : Nat]

\* What is left in a queue was in it before.
Thinned(r, q) == \A j \in DOMAIN r : \E i \in DOMAIN q : r[j] = q[i]

LEMMA DelayFacts ==
    /\ Idle \in Nat /\ Warm \in Nat /\ Interval \in Nat /\ WriteBound \in Nat
    /\ Idle > 0 /\ Interval > 0 /\ Idle <= Warm /\ Off = -1
    /\ Old = Warm + 1 /\ Due = Interval + 1 /\ Longer(Idle, Warm) = Warm
    /\ "idle" \notin Tasks /\ "beat" \notin Tasks /\ "free" \notin Tasks
BY LinkTimersAssumption DEF Off, Old, Due, Longer

\* An age grows by one, up to its cap.
LEMMA OlderGrows ==
    ASSUME NEW cap \in Nat, NEW age \in 0 .. cap
    PROVE  Older(age, cap) \in 0 .. cap /\ Older(age, cap) >= age
           /\ (Older(age, cap) = age + 1 \/ Older(age, cap) = cap)
BY DEF Older

\* A delay counted down by one beside an age that grows by one.
LEMMA SumHolds ==
    ASSUME NEW a \in Int, NEW b \in Int, NEW left \in Int, NEW cap \in Int, NEW n \in Int,
           a + left >= n, left >= 1, n <= cap, b = a + 1 \/ b = cap
    PROVE  b + (left - 1) >= n
OBVIOUS

\* Taking one item out, anywhere or at the front, adds nothing.
LEMMA RemovalThins ==
    ASSUME NEW S, NEW q \in Seq(S), NEW i \in 1 .. Len(q)
    PROVE  RemoveAt(q, i) \in Seq(S) /\ Thinned(RemoveAt(q, i), q)
<1> DEFINE front == SubSeq(q, 1, i - 1)
           back == SubSeq(q, i + 1, Len(q))
<1>1. /\ front \in Seq(S) /\ Len(front) = i - 1
      /\ \A j \in 1 .. (i - 1) : front[j] = q[j]
  OBVIOUS
<1>2. /\ back \in Seq(S) /\ Len(back) = Len(q) - i
      /\ \A j \in 1 .. (Len(q) - i) : back[j] = q[i + j]
  OBVIOUS
<1> HIDE DEF front, back
<1>3. /\ front \o back \in Seq(S) /\ Len(front \o back) = Len(q) - 1
      /\ \A j \in 1 .. (Len(q) - 1) :
            (front \o back)[j] = IF j <= i - 1 THEN front[j] ELSE back[j - (i - 1)]
  BY <1>1, <1>2, ConcatProperties
<1>4. ASSUME NEW j \in 1 .. (Len(q) - 1)
      PROVE  \E k \in 1 .. Len(q) : (front \o back)[j] = q[k]
  <2>1. CASE j <= i - 1
    BY <1>1, <1>3, <2>1
  <2>2. CASE ~(j <= i - 1)
    <3>1. j - (i - 1) \in 1 .. (Len(q) - i) /\ j + 1 \in 1 .. Len(q)
          /\ i + (j - (i - 1)) = j + 1
      BY <2>2
    <3>2. (front \o back)[j] = q[j + 1]
      BY <1>2, <1>3, <2>2, <3>1
    <3> QED
      BY <3>1, <3>2
  <2> QED
    BY <2>1, <2>2
<1>5. RemoveAt(q, i) = front \o back
  BY DEF RemoveAt, front, back
<1>6. DOMAIN (front \o back) = 1 .. (Len(q) - 1) /\ DOMAIN q = 1 .. Len(q)
  BY <1>3
<1> QED
  BY <1>3, <1>4, <1>5, <1>6 DEF Thinned

LEMMA TailThins ==
    ASSUME NEW S, NEW q \in Seq(S), q # <<>>
    PROVE  /\ Tail(q) \in Seq(S) /\ Thinned(Tail(q), q)
           /\ Head(q) \in S /\ 1 \in DOMAIN q /\ Head(q) = q[1]
<1>1. /\ Len(Tail(q)) = Len(q) - 1 /\ Tail(q) \in Seq(S)
      /\ \A j \in 1 .. Len(Tail(q)) : j + 1 \in 1 .. Len(q) /\ Tail(q)[j] = q[j + 1]
  OBVIOUS
<1>2. Thinned(Tail(q), q)
  BY <1>1 DEF Thinned
<1> QED
  BY <1>1, <1>2

-----------------------------------------------------------------------------
(* Type correctness.                                                       *)

LEMMA InitTyped == Init => TypeOK
<1> SUFFICES ASSUME Init PROVE TypeOK
  OBVIOUS
<1>1. CallsTyped
  BY DelayFacts, LinkTimersAssumption DEF Init, CallsTyped, Waiter
<1>2. FlagsTyped
  BY Zenon DEF Init, FlagsTyped
<1>3. LinkTyped
  BY DelayFacts, LinkTimersAssumption DEF Init, LinkTyped
<1>4. IdleTyped
  BY DelayFacts, LinkTimersAssumption DEF Init, IdleTyped, Counts
<1>5. BeatTyped
  BY DelayFacts, LinkTimersAssumption DEF Init, BeatTyped, Counts
<1>6. HistoryTyped
  BY DelayFacts, LinkTimersAssumption DEF Init, HistoryTyped
<1> QED
  BY <1>1, <1>2, <1>3, <1>4, <1>5, <1>6 DEF TypeOK

LEMMA OpEnsuresTyped ==
    ASSUME TypeOK, NEW t \in Tasks, OpEnsures(t) PROVE TypeOK'
<1>1. CallsTyped'
  BY DelayFacts, LinkTimersAssumption DEF TypeOK, CallsTyped, Waiter, OpEnsures, callVars, lockVars, opVars, linkVars, idleVars, chainVars, beatVars, history
<1>2. FlagsTyped'
  BY Zenon DEF TypeOK, FlagsTyped, OpEnsures, callVars, lockVars, opVars, linkVars, idleVars, chainVars, beatVars, history
<1>3. LinkTyped'
  BY DelayFacts, LinkTimersAssumption DEF TypeOK, LinkTyped, OpEnsures, callVars, lockVars, opVars, linkVars, idleVars, chainVars, beatVars, history
<1>4. IdleTyped'
  BY DelayFacts, LinkTimersAssumption DEF TypeOK, IdleTyped, Counts, OpEnsures, callVars, lockVars, opVars, linkVars, idleVars, chainVars, beatVars, history
<1>5. BeatTyped'
  BY DelayFacts, LinkTimersAssumption DEF TypeOK, BeatTyped, Counts, OpEnsures, callVars, lockVars, opVars, linkVars, idleVars, chainVars, beatVars, history
<1>6. HistoryTyped'
  BY DelayFacts, LinkTimersAssumption DEF TypeOK, HistoryTyped, OpEnsures, callVars, lockVars, opVars, linkVars, idleVars, chainVars, beatVars, history
<1> QED
  BY <1>1, <1>2, <1>3, <1>4, <1>5, <1>6 DEF TypeOK

LEMMA OpReadyTyped ==
    ASSUME TypeOK, NEW t \in Tasks, OpReady(t) PROVE TypeOK'
<1>1. CallsTyped'
  BY DelayFacts, LinkTimersAssumption DEF TypeOK, CallsTyped, Waiter, OpReady, callVars, lockVars, opVars, linkVars, idleVars, chainVars, beatVars, history
<1>2. FlagsTyped'
  BY Zenon DEF TypeOK, FlagsTyped, OpReady, callVars, lockVars, opVars, linkVars, idleVars, chainVars, beatVars, history
<1>3. LinkTyped'
  BY DelayFacts, LinkTimersAssumption DEF TypeOK, LinkTyped, OpReady, callVars, lockVars, opVars, linkVars, idleVars, chainVars, beatVars, history
<1>4. IdleTyped'
  BY DelayFacts, LinkTimersAssumption DEF TypeOK, IdleTyped, Counts, OpReady, callVars, lockVars, opVars, linkVars, idleVars, chainVars, beatVars, history
<1>5. BeatTyped'
  BY DelayFacts, LinkTimersAssumption DEF TypeOK, BeatTyped, Counts, OpReady, callVars, lockVars, opVars, linkVars, idleVars, chainVars, beatVars, history
<1>6. HistoryTyped'
  BY DelayFacts, LinkTimersAssumption DEF TypeOK, HistoryTyped, OpReady, callVars, lockVars, opVars, linkVars, idleVars, chainVars, beatVars, history
<1> QED
  BY <1>1, <1>2, <1>3, <1>4, <1>5, <1>6 DEF TypeOK

LEMMA OpSendsTyped ==
    ASSUME TypeOK, NEW t \in Tasks, OpSends(t) PROVE TypeOK'
<1>1. CallsTyped'
  BY DelayFacts, LinkTimersAssumption DEF TypeOK, CallsTyped, Waiter, OpSends, callVars, lockVars, opVars, linkVars, idleVars, chainVars, beatVars, history
<1>2. FlagsTyped'
  BY Zenon DEF TypeOK, FlagsTyped, OpSends, callVars, lockVars, opVars, linkVars, idleVars, chainVars, beatVars, history
<1>3. LinkTyped'
  BY DelayFacts, LinkTimersAssumption DEF TypeOK, LinkTyped, OpSends, callVars, lockVars, opVars, linkVars, idleVars, chainVars, beatVars, history
<1>4. IdleTyped'
  BY DelayFacts, LinkTimersAssumption DEF TypeOK, IdleTyped, Counts, OpSends, callVars, lockVars, opVars, linkVars, idleVars, chainVars, beatVars, history
<1>5. BeatTyped'
  BY DelayFacts, LinkTimersAssumption DEF TypeOK, BeatTyped, Counts, OpSends, callVars, lockVars, opVars, linkVars, idleVars, chainVars, beatVars, history
<1>6. HistoryTyped'
  BY DelayFacts, LinkTimersAssumption DEF TypeOK, HistoryTyped, OpSends, callVars, lockVars, opVars, linkVars, idleVars, chainVars, beatVars, history
<1> QED
  BY <1>1, <1>2, <1>3, <1>4, <1>5, <1>6 DEF TypeOK

LEMMA OpConnectsTyped ==
    ASSUME TypeOK, NEW t \in Tasks, OpConnects(t) PROVE TypeOK'
<1>1. CallsTyped'
  BY DelayFacts, LinkTimersAssumption DEF TypeOK, CallsTyped, Waiter, OpConnects, callVars, lockVars, opVars, linkVars, idleVars, chainVars, beatVars, history
<1>2. FlagsTyped'
  BY Zenon DEF TypeOK, FlagsTyped, OpConnects, callVars, lockVars, opVars, linkVars, idleVars, chainVars, beatVars, history
<1>3. LinkTyped'
  BY DelayFacts, LinkTimersAssumption DEF TypeOK, LinkTyped, OpConnects, callVars, lockVars, opVars, linkVars, idleVars, chainVars, beatVars, history
<1>4. IdleTyped'
  BY DelayFacts, LinkTimersAssumption DEF TypeOK, IdleTyped, Counts, OpConnects, callVars, lockVars, opVars, linkVars, idleVars, chainVars, beatVars, history
<1>5. BeatTyped'
  BY DelayFacts, LinkTimersAssumption DEF TypeOK, BeatTyped, Counts, OpConnects, callVars, lockVars, opVars, linkVars, idleVars, chainVars, beatVars, history
<1>6. HistoryTyped'
  BY DelayFacts, LinkTimersAssumption DEF TypeOK, HistoryTyped, OpConnects, callVars, lockVars, opVars, linkVars, idleVars, chainVars, beatVars, history
<1> QED
  BY <1>1, <1>2, <1>3, <1>4, <1>5, <1>6 DEF TypeOK

LEMMA OpSetUpTyped ==
    ASSUME TypeOK, NEW t \in Tasks, OpSetUp(t) PROVE TypeOK'
<1>1. CallsTyped'
  BY DelayFacts, LinkTimersAssumption DEF TypeOK, CallsTyped, Waiter, OpSetUp, Arm, callVars, lockVars, opVars, linkVars, idleVars, chainVars, beatVars, history
<1>2. FlagsTyped'
  BY Zenon DEF TypeOK, FlagsTyped, OpSetUp, Arm, callVars, lockVars, opVars, linkVars, idleVars, chainVars, beatVars, history
<1>3. LinkTyped'
  BY DelayFacts, LinkTimersAssumption DEF TypeOK, LinkTyped, OpSetUp, Arm, callVars, lockVars, opVars, linkVars, idleVars, chainVars, beatVars, history
<1>4. IdleTyped'
  BY DelayFacts, LinkTimersAssumption DEF TypeOK, IdleTyped, Counts, OpSetUp, Arm, callVars, lockVars, opVars, linkVars, idleVars, chainVars, beatVars, history
<1>5. BeatTyped'
  BY DelayFacts, LinkTimersAssumption DEF TypeOK, BeatTyped, Counts, OpSetUp, Arm, callVars, lockVars, opVars, linkVars, idleVars, chainVars, beatVars, history
<1>6. HistoryTyped'
  BY DelayFacts, LinkTimersAssumption DEF TypeOK, HistoryTyped, OpSetUp, Arm, callVars, lockVars, opVars, linkVars, idleVars, chainVars, beatVars, history
<1> QED
  BY <1>1, <1>2, <1>3, <1>4, <1>5, <1>6 DEF TypeOK

LEMMA OpTearsDownTyped ==
    ASSUME TypeOK, NEW t \in Tasks, OpTearsDown(t) PROVE TypeOK'
<1>1. CallsTyped'
  BY DelayFacts, LinkTimersAssumption DEF TypeOK, CallsTyped, Waiter, OpTearsDown, LinkEnds, callVars, lockVars, opVars, linkVars, idleVars, chainVars, beatVars, history
<1>2. FlagsTyped'
  BY Zenon DEF TypeOK, FlagsTyped, OpTearsDown, LinkEnds, callVars, lockVars, opVars, linkVars, idleVars, chainVars, beatVars, history
<1>3. LinkTyped'
  BY DelayFacts, LinkTimersAssumption DEF TypeOK, LinkTyped, OpTearsDown, LinkEnds, callVars, lockVars, opVars, linkVars, idleVars, chainVars, beatVars, history
<1>4. IdleTyped'
  BY DelayFacts, LinkTimersAssumption DEF TypeOK, IdleTyped, Counts, OpTearsDown, LinkEnds, callVars, lockVars, opVars, linkVars, idleVars, chainVars, beatVars, history
<1>5. BeatTyped'
  BY DelayFacts, LinkTimersAssumption DEF TypeOK, BeatTyped, Counts, OpTearsDown, LinkEnds, callVars, lockVars, opVars, linkVars, idleVars, chainVars, beatVars, history
<1>6. HistoryTyped'
  BY DelayFacts, LinkTimersAssumption DEF TypeOK, HistoryTyped, OpTearsDown, LinkEnds, callVars, lockVars, opVars, linkVars, idleVars, chainVars, beatVars, history
<1> QED
  BY <1>1, <1>2, <1>3, <1>4, <1>5, <1>6 DEF TypeOK

LEMMA OpEndsTyped ==
    ASSUME TypeOK, NEW t \in Tasks, OpEnds(t) PROVE TypeOK'
<1>1. CallsTyped'
  BY DelayFacts, LinkTimersAssumption DEF TypeOK, CallsTyped, Waiter, OpEnds, Arm, IdleDelay, Longer, RestartsChain, callVars, lockVars, opVars, linkVars, idleVars, chainVars, beatVars, history
<1>2. FlagsTyped'
  BY Zenon DEF TypeOK, FlagsTyped, OpEnds, Arm, IdleDelay, Longer, RestartsChain, callVars, lockVars, opVars, linkVars, idleVars, chainVars, beatVars, history
<1>3. LinkTyped'
  BY DelayFacts, LinkTimersAssumption DEF TypeOK, LinkTyped, OpEnds, Arm, IdleDelay, Longer, RestartsChain, callVars, lockVars, opVars, linkVars, idleVars, chainVars, beatVars, history
<1>4. IdleTyped'
  BY DelayFacts, LinkTimersAssumption DEF TypeOK, IdleTyped, CallsTyped, Counts, OpEnds, Arm, IdleDelay, Longer, RestartsChain, callVars, lockVars, opVars, linkVars, idleVars, chainVars, beatVars, history
<1>5. BeatTyped'
  BY DelayFacts, LinkTimersAssumption DEF TypeOK, BeatTyped, Counts, OpEnds, Arm, IdleDelay, Longer, RestartsChain, callVars, lockVars, opVars, linkVars, idleVars, chainVars, beatVars, history
<1>6. HistoryTyped'
  BY DelayFacts, LinkTimersAssumption DEF TypeOK, HistoryTyped, CallsTyped, OpEnds, Arm, IdleDelay, Longer, RestartsChain, callVars, lockVars, opVars, linkVars, idleVars, chainVars, beatVars, history
<1> QED
  BY <1>1, <1>2, <1>3, <1>4, <1>5, <1>6 DEF TypeOK

LEMMA IdleFiredTyped ==
    ASSUME TypeOK, IdleFired PROVE TypeOK'
<1>1. CallsTyped'
  BY DelayFacts, LinkTimersAssumption DEF TypeOK, CallsTyped, Waiter, IdleFired, callVars, lockVars, opVars, linkVars, idleVars, chainVars, beatVars, history
<1>2. FlagsTyped'
  BY Zenon DEF TypeOK, FlagsTyped, IdleFired, callVars, lockVars, opVars, linkVars, idleVars, chainVars, beatVars, history
<1>3. LinkTyped'
  BY DelayFacts, LinkTimersAssumption DEF TypeOK, LinkTyped, IdleFired, callVars, lockVars, opVars, linkVars, idleVars, chainVars, beatVars, history
<1>4. IdleTyped'
  BY DelayFacts, LinkTimersAssumption DEF TypeOK, IdleTyped, Counts, IdleFired, callVars, lockVars, opVars, linkVars, idleVars, chainVars, beatVars, history
<1>5. BeatTyped'
  BY DelayFacts, LinkTimersAssumption DEF TypeOK, BeatTyped, Counts, IdleFired, callVars, lockVars, opVars, linkVars, idleVars, chainVars, beatVars, history
<1>6. HistoryTyped'
  BY DelayFacts, LinkTimersAssumption DEF TypeOK, HistoryTyped, IdleFired, callVars, lockVars, opVars, linkVars, idleVars, chainVars, beatVars, history
<1> QED
  BY <1>1, <1>2, <1>3, <1>4, <1>5, <1>6 DEF TypeOK

LEMMA IdleEndsTyped ==
    ASSUME TypeOK, IdleEnds PROVE TypeOK'
<1>1. CallsTyped'
  BY DelayFacts, LinkTimersAssumption DEF TypeOK, CallsTyped, Waiter, IdleEnds, callVars, lockVars, opVars, linkVars, idleVars, chainVars, beatVars, history
<1>2. FlagsTyped'
  BY Zenon DEF TypeOK, FlagsTyped, IdleEnds, callVars, lockVars, opVars, linkVars, idleVars, chainVars, beatVars, history
<1>3. LinkTyped'
  BY DelayFacts, LinkTimersAssumption DEF TypeOK, LinkTyped, IdleEnds, callVars, lockVars, opVars, linkVars, idleVars, chainVars, beatVars, history
<1>4. IdleTyped'
  BY DelayFacts, LinkTimersAssumption DEF TypeOK, IdleTyped, Counts, IdleEnds, callVars, lockVars, opVars, linkVars, idleVars, chainVars, beatVars, history
<1>5. BeatTyped'
  BY DelayFacts, LinkTimersAssumption DEF TypeOK, BeatTyped, Counts, IdleEnds, callVars, lockVars, opVars, linkVars, idleVars, chainVars, beatVars, history
<1>6. HistoryTyped'
  BY DelayFacts, LinkTimersAssumption DEF TypeOK, HistoryTyped, IdleEnds, callVars, lockVars, opVars, linkVars, idleVars, chainVars, beatVars, history
<1> QED
  BY <1>1, <1>2, <1>3, <1>4, <1>5, <1>6 DEF TypeOK

LEMMA HoldHeartbeatTyped ==
    ASSUME TypeOK, HoldHeartbeat PROVE TypeOK'
<1>1. CallsTyped'
  BY DelayFacts, LinkTimersAssumption DEF TypeOK, CallsTyped, Waiter, HoldHeartbeat, callVars, lockVars, opVars, linkVars, idleVars, chainVars, beatVars, history
<1>2. FlagsTyped'
  BY Zenon DEF TypeOK, FlagsTyped, HoldHeartbeat, callVars, lockVars, opVars, linkVars, idleVars, chainVars, beatVars, history
<1>3. LinkTyped'
  BY DelayFacts, LinkTimersAssumption DEF TypeOK, LinkTyped, HoldHeartbeat, callVars, lockVars, opVars, linkVars, idleVars, chainVars, beatVars, history
<1>4. IdleTyped'
  BY DelayFacts, LinkTimersAssumption DEF TypeOK, IdleTyped, Counts, HoldHeartbeat, callVars, lockVars, opVars, linkVars, idleVars, chainVars, beatVars, history
<1>5. BeatTyped'
  BY DelayFacts, LinkTimersAssumption DEF TypeOK, BeatTyped, Counts, HoldHeartbeat, callVars, lockVars, opVars, linkVars, idleVars, chainVars, beatVars, history
<1>6. HistoryTyped'
  BY DelayFacts, LinkTimersAssumption DEF TypeOK, HistoryTyped, HoldHeartbeat, callVars, lockVars, opVars, linkVars, idleVars, chainVars, beatVars, history
<1> QED
  BY <1>1, <1>2, <1>3, <1>4, <1>5, <1>6 DEF TypeOK

LEMMA BeatStartsTyped ==
    ASSUME TypeOK, BeatStarts PROVE TypeOK'
<1>1. CallsTyped'
  BY DelayFacts, LinkTimersAssumption DEF TypeOK, CallsTyped, Waiter, BeatStarts, callVars, lockVars, opVars, linkVars, idleVars, chainVars, beatVars, history
<1>2. FlagsTyped'
  BY Zenon DEF TypeOK, FlagsTyped, BeatStarts, callVars, lockVars, opVars, linkVars, idleVars, chainVars, beatVars, history
<1>3. LinkTyped'
  BY DelayFacts, LinkTimersAssumption DEF TypeOK, LinkTyped, BeatStarts, callVars, lockVars, opVars, linkVars, idleVars, chainVars, beatVars, history
<1>4. IdleTyped'
  BY DelayFacts, LinkTimersAssumption DEF TypeOK, IdleTyped, Counts, BeatStarts, callVars, lockVars, opVars, linkVars, idleVars, chainVars, beatVars, history
<1>5. BeatTyped'
  BY DelayFacts, LinkTimersAssumption DEF TypeOK, BeatTyped, Counts, BeatStarts, callVars, lockVars, opVars, linkVars, idleVars, chainVars, beatVars, history
<1>6. HistoryTyped'
  BY DelayFacts, LinkTimersAssumption DEF TypeOK, HistoryTyped, BeatStarts, callVars, lockVars, opVars, linkVars, idleVars, chainVars, beatVars, history
<1> QED
  BY <1>1, <1>2, <1>3, <1>4, <1>5, <1>6 DEF TypeOK

LEMMA BeatEndsTyped ==
    ASSUME TypeOK, BeatEnds PROVE TypeOK'
<1>1. CallsTyped'
  BY DelayFacts, LinkTimersAssumption DEF TypeOK, CallsTyped, Waiter, BeatEnds, callVars, lockVars, opVars, linkVars, idleVars, chainVars, beatVars, history
<1>2. FlagsTyped'
  BY Zenon DEF TypeOK, FlagsTyped, BeatEnds, callVars, lockVars, opVars, linkVars, idleVars, chainVars, beatVars, history
<1>3. LinkTyped'
  BY DelayFacts, LinkTimersAssumption DEF TypeOK, LinkTyped, BeatEnds, callVars, lockVars, opVars, linkVars, idleVars, chainVars, beatVars, history
<1>4. IdleTyped'
  BY DelayFacts, LinkTimersAssumption DEF TypeOK, IdleTyped, Counts, BeatEnds, callVars, lockVars, opVars, linkVars, idleVars, chainVars, beatVars, history
<1>5. BeatTyped'
  BY DelayFacts, LinkTimersAssumption DEF TypeOK, BeatTyped, Counts, BeatEnds, callVars, lockVars, opVars, linkVars, idleVars, chainVars, beatVars, history
<1>6. HistoryTyped'
  BY DelayFacts, LinkTimersAssumption DEF TypeOK, HistoryTyped, BeatEnds, callVars, lockVars, opVars, linkVars, idleVars, chainVars, beatVars, history
<1> QED
  BY <1>1, <1>2, <1>3, <1>4, <1>5, <1>6 DEF TypeOK

LEMMA LinkDropsTyped ==
    ASSUME TypeOK, LinkDrops PROVE TypeOK'
<1>1. CallsTyped'
  BY DelayFacts, LinkTimersAssumption DEF TypeOK, CallsTyped, Waiter, LinkDrops, callVars, lockVars, opVars, linkVars, idleVars, chainVars, beatVars, history
<1>2. FlagsTyped'
  BY Zenon DEF TypeOK, FlagsTyped, LinkDrops, callVars, lockVars, opVars, linkVars, idleVars, chainVars, beatVars, history
<1>3. LinkTyped'
  BY DelayFacts, LinkTimersAssumption DEF TypeOK, LinkTyped, LinkDrops, callVars, lockVars, opVars, linkVars, idleVars, chainVars, beatVars, history
<1>4. IdleTyped'
  BY DelayFacts, LinkTimersAssumption DEF TypeOK, IdleTyped, Counts, LinkDrops, callVars, lockVars, opVars, linkVars, idleVars, chainVars, beatVars, history
<1>5. BeatTyped'
  BY DelayFacts, LinkTimersAssumption DEF TypeOK, BeatTyped, Counts, LinkDrops, callVars, lockVars, opVars, linkVars, idleVars, chainVars, beatVars, history
<1>6. HistoryTyped'
  BY DelayFacts, LinkTimersAssumption DEF TypeOK, HistoryTyped, LinkDrops, callVars, lockVars, opVars, linkVars, idleVars, chainVars, beatVars, history
<1> QED
  BY <1>1, <1>2, <1>3, <1>4, <1>5, <1>6 DEF TypeOK

LEMMA OnDisconnectTyped ==
    ASSUME TypeOK, OnDisconnect PROVE TypeOK'
<1>1. CallsTyped'
  BY DelayFacts, LinkTimersAssumption DEF TypeOK, CallsTyped, Waiter, OnDisconnect, LinkEnds, callVars, lockVars, opVars, linkVars, idleVars, chainVars, beatVars, history
<1>2. FlagsTyped'
  BY Zenon DEF TypeOK, FlagsTyped, OnDisconnect, LinkEnds, callVars, lockVars, opVars, linkVars, idleVars, chainVars, beatVars, history
<1>3. LinkTyped'
  BY DelayFacts, LinkTimersAssumption DEF TypeOK, LinkTyped, OnDisconnect, LinkEnds, callVars, lockVars, opVars, linkVars, idleVars, chainVars, beatVars, history
<1>4. IdleTyped'
  BY DelayFacts, LinkTimersAssumption DEF TypeOK, IdleTyped, Counts, OnDisconnect, LinkEnds, callVars, lockVars, opVars, linkVars, idleVars, chainVars, beatVars, history
<1>5. BeatTyped'
  BY DelayFacts, LinkTimersAssumption DEF TypeOK, BeatTyped, Counts, OnDisconnect, LinkEnds, callVars, lockVars, opVars, linkVars, idleVars, chainVars, beatVars, history
<1>6. HistoryTyped'
  BY DelayFacts, LinkTimersAssumption DEF TypeOK, HistoryTyped, OnDisconnect, LinkEnds, callVars, lockVars, opVars, linkVars, idleVars, chainVars, beatVars, history
<1> QED
  BY <1>1, <1>2, <1>3, <1>4, <1>5, <1>6 DEF TypeOK

LEMMA HeartbeatFiredTyped ==
    ASSUME TypeOK, HeartbeatFired PROVE TypeOK'
<1>1. CallsTyped'
  BY DelayFacts, LinkTimersAssumption DEF TypeOK, CallsTyped, Waiter, HeartbeatFired, callVars, lockVars, opVars, linkVars, idleVars, chainVars, beatVars, history
<1>2. FlagsTyped'
  BY Zenon DEF TypeOK, FlagsTyped, HeartbeatFired, callVars, lockVars, opVars, linkVars, idleVars, chainVars, beatVars, history
<1>3. LinkTyped'
  BY DelayFacts, LinkTimersAssumption DEF TypeOK, LinkTyped, HeartbeatFired, callVars, lockVars, opVars, linkVars, idleVars, chainVars, beatVars, history
<1>4. IdleTyped'
  BY DelayFacts, LinkTimersAssumption DEF TypeOK, IdleTyped, Counts, HeartbeatFired, callVars, lockVars, opVars, linkVars, idleVars, chainVars, beatVars, history
<1>5. BeatTyped'
  BY DelayFacts, LinkTimersAssumption DEF TypeOK, BeatTyped, Counts, HeartbeatFired, callVars, lockVars, opVars, linkVars, idleVars, chainVars, beatVars, history
<1>6. HistoryTyped'
  BY DelayFacts, LinkTimersAssumption DEF TypeOK, HistoryTyped, HeartbeatFired, callVars, lockVars, opVars, linkVars, idleVars, chainVars, beatVars, history
<1> QED
  BY <1>1, <1>2, <1>3, <1>4, <1>5, <1>6 DEF TypeOK

LEMMA TickTyped ==
    ASSUME TypeOK, Tick PROVE TypeOK'
<1>1. CallsTyped'
  BY DelayFacts, LinkTimersAssumption DEF TypeOK, CallsTyped, Waiter, Tick, NothingDue, Older, callVars, lockVars, opVars, linkVars, idleVars, chainVars, beatVars, history
<1>2. FlagsTyped'
  BY Zenon DEF TypeOK, FlagsTyped, Tick, NothingDue, Older, callVars, lockVars, opVars, linkVars, idleVars, chainVars, beatVars, history
<1>3. LinkTyped'
  BY DelayFacts, LinkTimersAssumption DEF TypeOK, LinkTyped, Tick, NothingDue, Older, callVars, lockVars, opVars, linkVars, idleVars, chainVars, beatVars, history
<1>4. IdleTyped'
  BY DelayFacts, LinkTimersAssumption DEF TypeOK, IdleTyped, Counts, Tick, NothingDue, Older, callVars, lockVars, opVars, linkVars, idleVars, chainVars, beatVars, history
<1>5. BeatTyped'
  BY DelayFacts, LinkTimersAssumption DEF TypeOK, BeatTyped, Counts, Tick, NothingDue, Older, callVars, lockVars, opVars, linkVars, idleVars, chainVars, beatVars, history
<1>6. HistoryTyped'
  BY DelayFacts, LinkTimersAssumption DEF TypeOK, HistoryTyped, Tick, NothingDue, Older, callVars, lockVars, opVars, linkVars, idleVars, chainVars, beatVars, history
<1> QED
  BY <1>1, <1>2, <1>3, <1>4, <1>5, <1>6 DEF TypeOK

\* What an operation that starts changes keeps its type.
LEMMA StartsTyped ==
    ASSUME TypeOK, NEW t \in Tasks, Starts(t)
    PROVE  /\ status' \in [Tasks -> {"new", "waiting", "running", "done"}]
           /\ holder' \in {t, "free"} /\ opAge' \in 0 .. Old
           /\ opConnecting' \in BOOLEAN /\ opSent' \in BOOLEAN /\ linkUp' \in BOOLEAN
           /\ session' \in {"none", "setup", "ready"} /\ link' \in 0 .. links /\ chainLink' \in 0 .. links
           /\ idleLeft' \in Counts(Longer(Idle, Warm)) /\ generation' \in Nat /\ warmLeft' \in 0 .. Warm
           /\ chainLeft' \in Counts(Interval) /\ warmth' \in 0 .. Old /\ silent' \in 0 .. Due
<1>1. /\ status' \in [Tasks -> {"new", "waiting", "running", "done"}]
      /\ holder' \in {t, "free"} /\ opAge' \in 0 .. Old
  BY DelayFacts DEF TypeOK, CallsTyped, Starts
<1>2. opConnecting' \in BOOLEAN /\ opSent' \in BOOLEAN /\ linkUp' \in BOOLEAN
  BY Zenon DEF TypeOK, FlagsTyped, Starts, LinkEnds
<1>3. /\ session' \in {"none", "setup", "ready"} /\ link' \in 0 .. links /\ chainLink' \in 0 .. links
  BY DEF TypeOK, LinkTyped, Starts, LinkEnds, chainVars
<1>4. idleLeft' \in Counts(Longer(Idle, Warm)) /\ generation' \in Nat /\ warmLeft' \in 0 .. Warm
  BY DelayFacts DEF TypeOK, IdleTyped, Counts, Starts, LinkEnds, CancelIdleTimer
<1>5. chainLeft' \in Counts(Interval) /\ warmth' \in 0 .. Old /\ silent' \in 0 .. Due
  BY DelayFacts DEF TypeOK, BeatTyped, HistoryTyped, Counts, Starts, LinkEnds, chainVars
<1> QED
  BY <1>1, <1>2, <1>3, <1>4, <1>5

\* ... and so does what the idle disconnect changes once it has the lock.
LEMMA IdleHasLockTyped ==
    ASSUME TypeOK, NEW g, IdleHasLock(g)
    PROVE  /\ holder' \in {"idle", "free"} /\ linkUp' \in BOOLEAN
           /\ session' \in {"none", "setup", "ready"} /\ link' \in 0 .. links /\ chainLink' \in 0 .. links
           /\ idleLeft' \in Counts(Longer(Idle, Warm)) /\ warmLeft' \in 0 .. Warm
           /\ chainLeft' \in Counts(Interval) /\ warmth' \in 0 .. Old
<1>1. linkUp' \in BOOLEAN
  BY Zenon DEF TypeOK, FlagsTyped, IdleHasLock, LinkEnds
<1>2. /\ holder' \in {"idle", "free"}
      /\ session' \in {"none", "setup", "ready"} /\ link' \in 0 .. links /\ chainLink' \in 0 .. links
  BY DEF TypeOK, LinkTyped, IdleHasLock, LinkEnds, chainVars
<1>3. idleLeft' \in Counts(Longer(Idle, Warm)) /\ warmLeft' \in 0 .. Warm
  BY DelayFacts DEF TypeOK, IdleTyped, Counts, IdleHasLock, LinkEnds
<1>4. chainLeft' \in Counts(Interval) /\ warmth' \in 0 .. Old
  BY DelayFacts DEF TypeOK, BeatTyped, HistoryTyped, Counts, IdleHasLock, LinkEnds, chainVars
<1> QED
  BY <1>1, <1>2, <1>3, <1>4

LEMMA CallTyped ==
    ASSUME TypeOK, NEW t \in Tasks, Call(t) PROVE TypeOK'
<1>1. beat' \in {"none", "created", "writing", "cancelled"}
  BY DEF TypeOK, BeatTyped, Call, CancelBeat
<1>2. closed' \in BOOLEAN
  BY Zenon DEF TypeOK, FlagsTyped, Call
<1>3. UNCHANGED <<kind, timing, links, idleTasks, beatLink, beatStale, beatLeft, holds, quiet, warmOn, talked>>
  BY DEF Call
<1>4. CASE Starts(t) /\ UNCHANGED waiters
  BY <1>1, <1>2, <1>3, <1>4, StartsTyped
  DEF TypeOK, CallsTyped, FlagsTyped, LinkTyped, IdleTyped, BeatTyped, HistoryTyped
<1>5. CASE /\ status' = [status EXCEPT ![t] = "waiting"]
           /\ waiters' = Append(waiters, [who |-> t, gen |-> 0])
           /\ chainLeft' = (IF kind[t] = "close" THEN Off ELSE chainLeft)
           /\ silent' = 0
           /\ UNCHANGED <<holder, opVars, link, session, linkUp, idleLeft, generation, warmLeft,
                          chainLink, warmth>>
  <2>1. waiters' \in Seq(Waiter)
    <3>1. [who |-> t, gen |-> 0] \in Waiter /\ waiters \in Seq(Waiter)
      BY DEF Waiter, TypeOK, CallsTyped
    <3> QED
      BY <1>5, <3>1, AppendProperties
  <2>2. CallsTyped'
    BY <1>3, <1>5, <2>1 DEF TypeOK, CallsTyped, Waiter, opVars
  <2>3. FlagsTyped'
    BY <1>2, <1>3, <1>5, Zenon DEF TypeOK, FlagsTyped, opVars
  <2>4. BeatTyped' /\ HistoryTyped'
    BY <1>1, <1>3, <1>5, DelayFacts DEF TypeOK, BeatTyped, HistoryTyped, Counts
  <2>5. LinkTyped' /\ IdleTyped'
    BY <1>3, <1>5 DEF TypeOK, LinkTyped, IdleTyped
  <2> QED
    BY <2>2, <2>3, <2>4, <2>5 DEF TypeOK
<1> QED
  BY <1>4, <1>5 DEF Call

LEMMA CancelWaitingTyped ==
    ASSUME TypeOK, NEW t \in Tasks, CancelWaiting(t) PROVE TypeOK'
<1>1. waiters' \in Seq(Waiter)
  <2>1. waiters \in Seq(Waiter)
    BY DEF TypeOK, CallsTyped, Waiter
  <2>2. PICK i \in 1 .. Len(waiters) : waiters' = RemoveAt(waiters, i)
    BY <2>1 DEF CancelWaiting
  <2> QED
    BY <2>1, <2>2, RemovalThins
<1>2. CallsTyped'
  BY <1>1 DEF TypeOK, CallsTyped, Waiter, CancelWaiting, opVars
<1>3. FlagsTyped'
  BY Zenon DEF TypeOK, FlagsTyped, CancelWaiting, opVars, linkVars, beatVars
<1>4. LinkTyped' /\ IdleTyped' /\ BeatTyped' /\ HistoryTyped'
  BY DEF TypeOK, LinkTyped, IdleTyped, BeatTyped, HistoryTyped, CancelWaiting, linkVars, idleVars,
     chainVars, beatVars, history
<1> QED
  BY <1>2, <1>3, <1>4 DEF TypeOK

LEMMA WakeTyped ==
    ASSUME TypeOK, Wake PROVE TypeOK'
<1>1. /\ waiters' \in Seq(Waiter) /\ Head(waiters).who \in Tasks \cup {"idle"}
  <2>1. waiters \in Seq(Waiter) /\ waiters # <<>> /\ waiters' = Tail(waiters)
    BY DEF TypeOK, CallsTyped, Waiter, Wake
  <2>2. Tail(waiters) \in Seq(Waiter) /\ Head(waiters) \in Waiter
    BY <2>1, TailThins
  <2> QED
    BY <2>1, <2>2 DEF Waiter
<1>2. UNCHANGED <<kind, timing, links, idleTasks, beatVars, holds, closed, quiet, warmOn, talked>>
  BY DEF Wake
<1>3. CASE Head(waiters).who = "idle"
  <2>1. IdleHasLock(Head(waiters).gen) /\ UNCHANGED <<status, opVars, generation, silent>>
    BY <1>3 DEF Wake
  <2> QED
    BY <1>1, <1>2, <2>1, IdleHasLockTyped
    DEF TypeOK, CallsTyped, FlagsTyped, LinkTyped, IdleTyped, BeatTyped, HistoryTyped, Waiter, opVars, beatVars
<1>4. CASE Head(waiters).who # "idle"
  <2>1. Starts(Head(waiters).who) /\ Head(waiters).who \in Tasks
    BY <1>1, <1>4 DEF Wake
  <2> QED
    BY <1>1, <1>2, <2>1, StartsTyped
    DEF TypeOK, CallsTyped, FlagsTyped, LinkTyped, IdleTyped, BeatTyped, HistoryTyped, Waiter, beatVars
<1> QED
  BY <1>3, <1>4

LEMMA IdleStartsTyped ==
    ASSUME TypeOK, NEW g \in idleTasks, IdleStarts(g) PROVE TypeOK'
<1>1. beat' \in {"none", "created", "writing", "cancelled"}
  BY DEF TypeOK, BeatTyped, IdleStarts, CancelBeat
<1>2. idleTasks' \subseteq Nat
  BY DEF TypeOK, IdleTyped, IdleStarts
<1>3. UNCHANGED <<callVars, opVars, links, generation, beatLink, beatStale, beatLeft, holds, closed, quiet,
                 warmOn, talked, silent>>
  BY DEF IdleStarts
<1>4. CASE IdleHasLock(g) /\ UNCHANGED waiters
  BY <1>1, <1>2, <1>3, <1>4, IdleHasLockTyped
  DEF TypeOK, CallsTyped, FlagsTyped, LinkTyped, IdleTyped, BeatTyped, HistoryTyped, callVars, opVars
<1>5. CASE /\ waiters' = Append(waiters, [who |-> "idle", gen |-> g])
           /\ UNCHANGED <<holder, idleLeft, link, session, linkUp, warmLeft, chainVars, warmth>>
  <2>1. waiters' \in Seq(Waiter)
    <3>1. [who |-> "idle", gen |-> g] \in Waiter /\ waiters \in Seq(Waiter)
      BY DEF Waiter, TypeOK, CallsTyped, IdleTyped
    <3> QED
      BY <1>5, <3>1, AppendProperties
  <2>2. FlagsTyped'
    BY <1>3, <1>5, Zenon DEF TypeOK, FlagsTyped, opVars
  <2> QED
    BY <1>1, <1>2, <1>3, <1>5, <2>1, <2>2
    DEF TypeOK, CallsTyped, LinkTyped, IdleTyped, BeatTyped, HistoryTyped, Waiter, callVars, opVars, chainVars
<1> QED
  BY <1>4, <1>5 DEF IdleStarts

LEMMA NextTyped ==
    ASSUME TypeOK, [Next]_vars PROVE TypeOK'
<1>1. CASE UNCHANGED vars
  BY <1>1 DEF TypeOK, CallsTyped, FlagsTyped, LinkTyped, IdleTyped, BeatTyped, HistoryTyped, vars, callVars, lockVars, opVars, linkVars, idleVars, chainVars, beatVars, history
<1> QED
  BY <1>1, CallTyped, CancelWaitingTyped, OpEnsuresTyped, OpConnectsTyped, OpReadyTyped, OpSetUpTyped,
     OpSendsTyped, OpTearsDownTyped, OpEndsTyped, WakeTyped, IdleFiredTyped, IdleStartsTyped,
     IdleEndsTyped, HoldHeartbeatTyped, HeartbeatFiredTyped, BeatStartsTyped, BeatEndsTyped,
     LinkDropsTyped, OnDisconnectTyped, TickTyped DEF Next

-----------------------------------------------------------------------------
(* The idle disconnect.                                                    *)

IdleDue == quiet >= Idle /\ warmth >= Warm

\* The warm window is open for what is left of ACTIVE_IDLE_DELAY.
WindowCounts == warmLeft + warmth >= Warm

\* The idle timer fires no earlier than both delays are up.
TimerCounts == idleLeft # Off => quiet + idleLeft >= Idle /\ warmth + idleLeft >= Warm

\* An idle task that is not stale was created by a timer that was due.
FiredInTime ==
    /\ \A g \in idleTasks : g <= generation /\ (g = generation => IdleDue)
    /\ \A i \in DOMAIN waiters :
          /\ waiters[i].gen <= generation
          /\ waiters[i].who = "idle" /\ waiters[i].gen = generation => IdleDue

IdleInv == TypeOK /\ WindowCounts /\ TimerCounts /\ FiredInTime

\* The tasks that have fired stay due ...
LEMMA SameGeneration ==
    ASSUME FiredInTime, generation' = generation, idleTasks' \subseteq idleTasks,
           Thinned(waiters', waiters), IdleDue => IdleDue'
    PROVE  FiredInTime'
BY DEF FiredInTime, Thinned

\* ... or are all stale once an operation has the lock, or has ended.
LEMMA NextGeneration ==
    ASSUME TypeOK, FiredInTime, generation' = generation + 1, idleTasks' \subseteq idleTasks,
           Thinned(waiters', waiters)
    PROVE  FiredInTime'
<1>1. generation \in Nat /\ \A g \in idleTasks : g \in Nat
  BY DEF TypeOK, IdleTyped
<1>2. \A i \in DOMAIN waiters : waiters[i].gen \in Nat
  <2>1. waiters \in Seq(Waiter)
    BY DEF TypeOK, CallsTyped, Waiter
  <2>2. \A i \in DOMAIN waiters : waiters[i] \in Waiter
    BY <2>1
  <2> QED
    BY <2>2 DEF Waiter
<1>3. \A g \in idleTasks' : g <= generation' /\ g # generation'
  BY <1>1 DEF FiredInTime
<1>4. \A j \in DOMAIN waiters' : waiters'[j].gen <= generation' /\ waiters'[j].gen # generation'
  BY <1>1, <1>2 DEF FiredInTime, Thinned
<1> QED
  BY <1>3, <1>4 DEF FiredInTime

LEMMA SameWaiters ==
    ASSUME UNCHANGED waiters PROVE Thinned(waiters', waiters)
BY DEF Thinned

\* A step that only ends the link, or nothing of the idle policy.
LEMMA LinkEndsCounts ==
    ASSUME IdleInv, UNCHANGED <<quiet, generation>>, idleLeft' \in {idleLeft, Off},
           (warmLeft' = 0 /\ warmth' = Old) \/ UNCHANGED <<warmLeft, warmth>>,
           idleTasks' \subseteq idleTasks, Thinned(waiters', waiters)
    PROVE  WindowCounts' /\ TimerCounts' /\ FiredInTime'
<1>1. warmth \in 0 .. Old /\ quiet \in 0 .. Old /\ idleLeft \in -1 .. Warm
  BY DelayFacts DEF IdleInv, TypeOK, HistoryTyped, IdleTyped, Counts
<1>2. warmth' >= warmth
  BY <1>1, DelayFacts
<1>3. IdleDue => IdleDue'
  BY <1>1, <1>2, DelayFacts DEF IdleDue
<1>4. FiredInTime'
  BY <1>3, SameGeneration DEF IdleInv
<1>5. WindowCounts'
  BY <1>1, DelayFacts DEF IdleInv, WindowCounts
<1>6. TimerCounts'
  <2> SUFFICES ASSUME idleLeft' # Off
               PROVE  quiet' + idleLeft' >= Idle /\ warmth' + idleLeft' >= Warm
    BY DEF TimerCounts
  <2>1. idleLeft' = idleLeft /\ idleLeft # Off /\ quiet' = quiet
    OBVIOUS
  <2>2. quiet + idleLeft >= Idle /\ warmth + idleLeft >= Warm
    BY <2>1 DEF IdleInv, TimerCounts
  <2>3. warmth' \in 0 .. Old
    BY <1>1, DelayFacts
  <2>4. warmth \in Int /\ warmth' \in Int /\ idleLeft \in Int /\ Warm \in Int /\ Old \in Int
    BY <1>1, <2>3, DelayFacts
  <2>5. warmth' + idleLeft >= Warm
    <3>1. warmth' >= warmth /\ warmth + idleLeft >= Warm
      BY <1>2, <2>2
    <3>2. \A a, b, c, n \in Int : b >= a /\ a + c >= n => b + c >= n
      OBVIOUS
    <3> QED
      BY <2>4, <3>1, <3>2, Zenon
  <2> QED
    BY <2>1, <2>2, <2>5
<1> QED
  BY <1>4, <1>5, <1>6

\* An operation that starts makes every idle task stale; a kept link leaves them.
LEMMA StartsCounts ==
    ASSUME IdleInv, NEW t \in Tasks, Starts(t), UNCHANGED <<quiet, idleTasks>>, Thinned(waiters', waiters)
    PROVE  WindowCounts' /\ TimerCounts' /\ FiredInTime'
<1>1. CASE CancelIdleTimer
  <2>1. FiredInTime'
    BY <1>1, NextGeneration DEF IdleInv, CancelIdleTimer
  <2>2. TimerCounts'
    BY <1>1 DEF TimerCounts, CancelIdleTimer
  <2>3. \/ warmLeft' = Warm /\ warmth' = 0
        \/ warmLeft' = 0 /\ warmth' = Old
        \/ UNCHANGED <<warmLeft, warmth>>
    BY DEF Starts, LinkEnds
  <2>4. WindowCounts'
    BY <2>3, DelayFacts DEF IdleInv, WindowCounts
  <2> QED
    BY <2>1, <2>2, <2>4
<1>2. CASE UNCHANGED <<idleLeft, generation, warmLeft, warmth>>
  BY <1>2, LinkEndsCounts
<1> QED
  BY <1>1, <1>2 DEF Starts

LEMMA IdleHasLockCounts ==
    ASSUME IdleInv, NEW g, IdleHasLock(g), UNCHANGED <<quiet, generation>>, idleTasks' \subseteq idleTasks,
           Thinned(waiters', waiters)
    PROVE  WindowCounts' /\ TimerCounts' /\ FiredInTime'
<1>1. idleLeft' \in {idleLeft, Off}
      /\ ((warmLeft' = 0 /\ warmth' = Old) \/ UNCHANGED <<warmLeft, warmth>>)
  BY DEF IdleHasLock, LinkEnds
<1> QED
  BY <1>1, LinkEndsCounts

LEMMA WaitCounts ==
    ASSUME IdleInv, UNCHANGED <<quiet, warmth, warmLeft, idleLeft, generation>>, idleTasks' \subseteq idleTasks,
           NEW w \in Waiter, waiters' = Append(waiters, w), w.gen <= generation,
           w.who = "idle" /\ w.gen = generation => IdleDue
    PROVE  WindowCounts' /\ TimerCounts' /\ FiredInTime'
<1>1. WindowCounts' /\ TimerCounts'
  BY DEF IdleInv, WindowCounts, TimerCounts
<1>2. waiters \in Seq(Waiter)
  BY DEF IdleInv, TypeOK, CallsTyped, Waiter
<1>3. \A j \in DOMAIN waiters' : waiters'[j] = w \/ \E i \in DOMAIN waiters : waiters'[j] = waiters[i]
  BY <1>2
<1>4. IdleDue' <=> IdleDue
  BY DEF IdleDue
<1>5. FiredInTime'
  BY <1>3, <1>4 DEF IdleInv, FiredInTime
<1> QED
  BY <1>1, <1>5

LEMMA OpEnsuresCounts ==
    ASSUME IdleInv, NEW t \in Tasks, OpEnsures(t) PROVE WindowCounts' /\ TimerCounts' /\ FiredInTime'
<1>1. /\ UNCHANGED <<quiet, generation, waiters, idleTasks>> /\ idleLeft' \in {idleLeft, Off}
      /\ ((warmLeft' = 0 /\ warmth' = Old) \/ UNCHANGED <<warmLeft, warmth>>)
  BY DEF OpEnsures, lockVars, linkVars, idleVars, history
<1> QED
  BY <1>1, LinkEndsCounts, SameWaiters

LEMMA OpConnectsCounts ==
    ASSUME IdleInv, NEW t \in Tasks, OpConnects(t) PROVE WindowCounts' /\ TimerCounts' /\ FiredInTime'
<1>1. /\ UNCHANGED <<quiet, generation, waiters, idleTasks>> /\ idleLeft' \in {idleLeft, Off}
      /\ ((warmLeft' = 0 /\ warmth' = Old) \/ UNCHANGED <<warmLeft, warmth>>)
  BY DEF OpConnects, lockVars, linkVars, idleVars, history
<1> QED
  BY <1>1, LinkEndsCounts, SameWaiters

LEMMA OpReadyCounts ==
    ASSUME IdleInv, NEW t \in Tasks, OpReady(t) PROVE WindowCounts' /\ TimerCounts' /\ FiredInTime'
<1>1. /\ UNCHANGED <<quiet, generation, waiters, idleTasks>> /\ idleLeft' \in {idleLeft, Off}
      /\ ((warmLeft' = 0 /\ warmth' = Old) \/ UNCHANGED <<warmLeft, warmth>>)
  BY DEF OpReady, lockVars, linkVars, idleVars, history
<1> QED
  BY <1>1, LinkEndsCounts, SameWaiters

LEMMA OpSetUpCounts ==
    ASSUME IdleInv, NEW t \in Tasks, OpSetUp(t) PROVE WindowCounts' /\ TimerCounts' /\ FiredInTime'
<1>1. /\ UNCHANGED <<quiet, generation, waiters, idleTasks>> /\ idleLeft' \in {idleLeft, Off}
      /\ ((warmLeft' = 0 /\ warmth' = Old) \/ UNCHANGED <<warmLeft, warmth>>)
  BY DEF OpSetUp, lockVars, linkVars, idleVars, history
<1> QED
  BY <1>1, LinkEndsCounts, SameWaiters

LEMMA OpSendsCounts ==
    ASSUME IdleInv, NEW t \in Tasks, OpSends(t) PROVE WindowCounts' /\ TimerCounts' /\ FiredInTime'
<1>1. /\ UNCHANGED <<quiet, generation, waiters, idleTasks>> /\ idleLeft' \in {idleLeft, Off}
      /\ ((warmLeft' = 0 /\ warmth' = Old) \/ UNCHANGED <<warmLeft, warmth>>)
  BY DEF OpSends, lockVars, linkVars, idleVars, history
<1> QED
  BY <1>1, LinkEndsCounts, SameWaiters

LEMMA OpTearsDownCounts ==
    ASSUME IdleInv, NEW t \in Tasks, OpTearsDown(t) PROVE WindowCounts' /\ TimerCounts' /\ FiredInTime'
<1>1. /\ UNCHANGED <<quiet, generation, waiters, idleTasks>> /\ idleLeft' \in {idleLeft, Off}
      /\ ((warmLeft' = 0 /\ warmth' = Old) \/ UNCHANGED <<warmLeft, warmth>>)
  BY DEF OpTearsDown, LinkEnds, lockVars, linkVars, idleVars, history
<1> QED
  BY <1>1, LinkEndsCounts, SameWaiters

LEMMA IdleEndsCounts ==
    ASSUME IdleInv, IdleEnds PROVE WindowCounts' /\ TimerCounts' /\ FiredInTime'
<1>1. /\ UNCHANGED <<quiet, generation, waiters, idleTasks>> /\ idleLeft' \in {idleLeft, Off}
      /\ ((warmLeft' = 0 /\ warmth' = Old) \/ UNCHANGED <<warmLeft, warmth>>)
  BY DEF IdleEnds, lockVars, linkVars, idleVars, history
<1> QED
  BY <1>1, LinkEndsCounts, SameWaiters

LEMMA HoldHeartbeatCounts ==
    ASSUME IdleInv, HoldHeartbeat PROVE WindowCounts' /\ TimerCounts' /\ FiredInTime'
<1>1. /\ UNCHANGED <<quiet, generation, waiters, idleTasks>> /\ idleLeft' \in {idleLeft, Off}
      /\ ((warmLeft' = 0 /\ warmth' = Old) \/ UNCHANGED <<warmLeft, warmth>>)
  BY DEF HoldHeartbeat, lockVars, linkVars, idleVars, history
<1> QED
  BY <1>1, LinkEndsCounts, SameWaiters

LEMMA HeartbeatFiredCounts ==
    ASSUME IdleInv, HeartbeatFired PROVE WindowCounts' /\ TimerCounts' /\ FiredInTime'
<1>1. /\ UNCHANGED <<quiet, generation, waiters, idleTasks>> /\ idleLeft' \in {idleLeft, Off}
      /\ ((warmLeft' = 0 /\ warmth' = Old) \/ UNCHANGED <<warmLeft, warmth>>)
  BY DEF HeartbeatFired, lockVars, linkVars, idleVars, history
<1> QED
  BY <1>1, LinkEndsCounts, SameWaiters

LEMMA BeatStartsCounts ==
    ASSUME IdleInv, BeatStarts PROVE WindowCounts' /\ TimerCounts' /\ FiredInTime'
<1>1. /\ UNCHANGED <<quiet, generation, waiters, idleTasks>> /\ idleLeft' \in {idleLeft, Off}
      /\ ((warmLeft' = 0 /\ warmth' = Old) \/ UNCHANGED <<warmLeft, warmth>>)
  BY DEF BeatStarts, lockVars, linkVars, idleVars, history
<1> QED
  BY <1>1, LinkEndsCounts, SameWaiters

LEMMA BeatEndsCounts ==
    ASSUME IdleInv, BeatEnds PROVE WindowCounts' /\ TimerCounts' /\ FiredInTime'
<1>1. /\ UNCHANGED <<quiet, generation, waiters, idleTasks>> /\ idleLeft' \in {idleLeft, Off}
      /\ ((warmLeft' = 0 /\ warmth' = Old) \/ UNCHANGED <<warmLeft, warmth>>)
  BY DEF BeatEnds, lockVars, linkVars, idleVars, history
<1> QED
  BY <1>1, LinkEndsCounts, SameWaiters

LEMMA LinkDropsCounts ==
    ASSUME IdleInv, LinkDrops PROVE WindowCounts' /\ TimerCounts' /\ FiredInTime'
<1>1. /\ UNCHANGED <<quiet, generation, waiters, idleTasks>> /\ idleLeft' \in {idleLeft, Off}
      /\ ((warmLeft' = 0 /\ warmth' = Old) \/ UNCHANGED <<warmLeft, warmth>>)
  BY DEF LinkDrops, lockVars, linkVars, idleVars, history
<1> QED
  BY <1>1, LinkEndsCounts, SameWaiters

LEMMA OnDisconnectCounts ==
    ASSUME IdleInv, OnDisconnect PROVE WindowCounts' /\ TimerCounts' /\ FiredInTime'
<1>1. /\ UNCHANGED <<quiet, generation, waiters, idleTasks>> /\ idleLeft' \in {idleLeft, Off}
      /\ ((warmLeft' = 0 /\ warmth' = Old) \/ UNCHANGED <<warmLeft, warmth>>)
  BY DEF OnDisconnect, LinkEnds, lockVars, linkVars, idleVars, history
<1> QED
  BY <1>1, LinkEndsCounts, SameWaiters

LEMMA CallCounts ==
    ASSUME IdleInv, NEW t \in Tasks, Call(t) PROVE WindowCounts' /\ TimerCounts' /\ FiredInTime'
<1>1. UNCHANGED <<quiet, idleTasks>>
  BY DEF Call
<1>2. CASE Starts(t) /\ UNCHANGED waiters
  BY <1>1, <1>2, StartsCounts, SameWaiters
<1>3. CASE /\ waiters' = Append(waiters, [who |-> t, gen |-> 0])
           /\ UNCHANGED <<idleLeft, generation, warmLeft, warmth>>
  <2>1. [who |-> t, gen |-> 0] \in Waiter /\ t # "idle" /\ 0 <= generation
    BY DelayFacts DEF Waiter, IdleInv, TypeOK, IdleTyped
  <2> QED
    BY <1>1, <1>3, <2>1, WaitCounts
<1> QED
  BY <1>2, <1>3 DEF Call

LEMMA CancelWaitingCounts ==
    ASSUME IdleInv, NEW t \in Tasks, CancelWaiting(t) PROVE WindowCounts' /\ TimerCounts' /\ FiredInTime'
<1>1. waiters \in Seq(Waiter)
  BY DEF IdleInv, TypeOK, CallsTyped, Waiter
<1>2. PICK i \in 1 .. Len(waiters) : waiters' = RemoveAt(waiters, i)
  BY <1>1 DEF CancelWaiting
<1>3. Thinned(waiters', waiters)
  BY <1>1, <1>2, RemovalThins
<1>4. UNCHANGED <<quiet, generation, idleTasks, idleLeft, warmLeft, warmth>>
  BY DEF CancelWaiting, idleVars, history
<1> QED
  BY <1>3, <1>4, LinkEndsCounts

LEMMA WakeCounts ==
    ASSUME IdleInv, Wake PROVE WindowCounts' /\ TimerCounts' /\ FiredInTime'
<1>1. waiters \in Seq(Waiter) /\ waiters # <<>> /\ waiters' = Tail(waiters)
  BY DEF IdleInv, TypeOK, CallsTyped, Waiter, Wake
<1>2. Thinned(waiters', waiters) /\ Head(waiters) \in Waiter
  BY <1>1, TailThins
<1>3. UNCHANGED <<quiet, idleTasks>>
  BY DEF Wake
<1>4. CASE Head(waiters).who = "idle"
  <2>1. IdleHasLock(Head(waiters).gen) /\ UNCHANGED generation
    BY <1>4 DEF Wake
  <2> QED
    BY <1>2, <1>3, <2>1, IdleHasLockCounts
<1>5. CASE Head(waiters).who # "idle"
  <2>1. Starts(Head(waiters).who) /\ Head(waiters).who \in Tasks
    BY <1>2, <1>5 DEF Wake, Waiter
  <2> QED
    BY <1>2, <1>3, <2>1, StartsCounts
<1> QED
  BY <1>4, <1>5

LEMMA OpEndsCounts ==
    ASSUME IdleInv, NEW t \in Tasks, OpEnds(t) PROVE WindowCounts' /\ TimerCounts' /\ FiredInTime'
<1>1. UNCHANGED <<waiters, idleTasks>>
  BY DEF OpEnds
<1>2. CASE UNCHANGED <<idleLeft, generation, warmLeft, quiet, warmth>>
  BY <1>1, <1>2, LinkEndsCounts, SameWaiters
<1>3. CASE kind[t] \notin {"release", "close"}
  <2> DEFINE stillWarm == IF Warm > opAge THEN Warm - opAge ELSE 0
  <2>1. /\ generation' = generation + 1 /\ quiet' = 0
        /\ idleLeft' = IF link = 0 THEN Off ELSE IdleDelay(warmLeft')
        /\ (warmLeft' = stillWarm /\ warmth' = opAge) \/ UNCHANGED <<warmLeft, warmth>>
    BY <1>3 DEF OpEnds
  <2>2. opAge \in 0 .. Old /\ warmth \in 0 .. Old /\ warmLeft \in 0 .. Warm
    BY DEF IdleInv, TypeOK, CallsTyped, HistoryTyped, IdleTyped
  <2>3. WindowCounts' /\ warmLeft' \in 0 .. Warm /\ warmth' \in 0 .. Old
    BY <2>1, <2>2, DelayFacts DEF IdleInv, WindowCounts
  <2>4. idleLeft' # Off => idleLeft' >= Idle /\ idleLeft' >= warmLeft' /\ idleLeft' \in Nat
    BY <2>1, <2>3, DelayFacts DEF IdleDelay, Longer
  <2>5. TimerCounts'
    <3> SUFFICES ASSUME idleLeft' # Off
                 PROVE  quiet' + idleLeft' >= Idle /\ warmth' + idleLeft' >= Warm
      BY DEF TimerCounts
    <3>1. idleLeft' >= Idle /\ idleLeft' >= warmLeft' /\ idleLeft' \in Int
      BY <2>4
    <3>2. warmLeft' \in Int /\ warmth' \in Int /\ Warm \in Int /\ Idle \in Int /\ Old \in Int
      BY <2>3, DelayFacts
    <3>3. warmLeft' + warmth' >= Warm
      BY <2>3 DEF WindowCounts
    <3>4. warmth' + warmLeft' >= Warm
      <4>1. \A a, b, n \in Int : a + b >= n => b + a >= n
        OBVIOUS
      <4> QED
        BY <3>2, <3>3, <4>1, Zenon
    <3>5. warmth' + idleLeft' >= Warm
      <4>1. \A a, c, d, n \in Int : d >= c /\ a + c >= n => a + d >= n
        OBVIOUS
      <4> QED
        BY <3>1, <3>2, <3>4, <4>1, Zenon
    <3>6. quiet' + idleLeft' >= Idle
      <4>1. \A d, n \in Int : d >= n => 0 + d >= n
        OBVIOUS
      <4> QED
        BY <2>1, <3>1, <3>2, <4>1, Zenon
    <3> QED
      BY <3>5, <3>6
  <2>6. FiredInTime'
    BY <1>1, <2>1, NextGeneration, SameWaiters DEF IdleInv
  <2> QED
    BY <2>3, <2>5, <2>6
<1> QED
  BY <1>2, <1>3 DEF OpEnds

\* The timer has fired: both delays are up.
LEMMA IdleFiredCounts ==
    ASSUME IdleInv, IdleFired PROVE WindowCounts' /\ TimerCounts' /\ FiredInTime'
<1>1. /\ UNCHANGED <<quiet, warmth, warmLeft, generation, waiters>>
      /\ idleLeft = 0 /\ idleLeft' = Off /\ idleTasks' = idleTasks \cup {generation}
  BY DEF IdleFired, lockVars, history
<1>2. quiet \in Nat /\ warmth \in Nat /\ generation \in Nat
  BY DelayFacts DEF IdleInv, TypeOK, HistoryTyped, IdleTyped
<1>3. IdleDue /\ IdleDue'
  BY <1>1, <1>2, DelayFacts DEF IdleInv, TimerCounts, IdleDue
<1>4. FiredInTime'
  BY <1>1, <1>2, <1>3 DEF IdleInv, FiredInTime
<1> QED
  BY <1>1, <1>4 DEF IdleInv, WindowCounts, TimerCounts

LEMMA IdleStartsCounts ==
    ASSUME IdleInv, NEW g \in idleTasks, IdleStarts(g) PROVE WindowCounts' /\ TimerCounts' /\ FiredInTime'
<1>1. UNCHANGED <<quiet, generation>> /\ idleTasks' \subseteq idleTasks
  BY DEF IdleStarts
<1>2. CASE IdleHasLock(g) /\ UNCHANGED waiters
  BY <1>1, <1>2, IdleHasLockCounts, SameWaiters
<1>3. CASE /\ waiters' = Append(waiters, [who |-> "idle", gen |-> g])
           /\ UNCHANGED <<idleLeft, warmLeft, warmth>>
  <2>1. [who |-> "idle", gen |-> g] \in Waiter
    BY DEF Waiter, IdleInv, TypeOK, IdleTyped
  <2>2. g <= generation /\ (g = generation => IdleDue)
    BY DEF IdleInv, FiredInTime
  <2> QED
    BY <1>1, <1>3, <2>1, <2>2, WaitCounts
<1> QED
  BY <1>2, <1>3 DEF IdleStarts

LEMMA TickCounts ==
    ASSUME IdleInv, Tick PROVE WindowCounts' /\ TimerCounts' /\ FiredInTime'
<1>1. /\ quiet' = Older(quiet, Old) /\ warmth' = Older(warmth, Old)
      /\ warmLeft' = (IF warmLeft = 0 THEN 0 ELSE warmLeft - 1)
      /\ idleLeft' = (IF idleLeft = Off THEN Off ELSE idleLeft - 1)
      /\ UNCHANGED <<generation, idleTasks, waiters>> /\ idleLeft # 0
  BY DEF Tick, NothingDue, lockVars
<1>2. /\ quiet \in 0 .. Old /\ warmth \in 0 .. Old /\ warmLeft \in 0 .. Warm /\ idleLeft \in -1 .. Warm
      /\ Old \in Nat
  BY DelayFacts DEF IdleInv, TypeOK, HistoryTyped, IdleTyped, Counts
<1>3. /\ quiet' \in 0 .. Old /\ quiet' >= quiet /\ (quiet' = quiet + 1 \/ quiet' = Old)
      /\ warmth' \in 0 .. Old /\ warmth' >= warmth /\ (warmth' = warmth + 1 \/ warmth' = Old)
  BY <1>1, <1>2, OlderGrows
<1>4. WindowCounts'
  BY <1>1, <1>2, <1>3, DelayFacts DEF IdleInv, WindowCounts
<1>5. TimerCounts'
  <2>1. CASE idleLeft = Off
    BY <1>1, <2>1 DEF TimerCounts
  <2>2. CASE idleLeft # Off
    <3>1. quiet + idleLeft >= Idle /\ warmth + idleLeft >= Warm
      BY <2>2 DEF IdleInv, TimerCounts
    <3>2. idleLeft \in 1 .. Warm /\ idleLeft' = idleLeft - 1
      BY <1>1, <1>2, <2>2, DelayFacts
    <3>3. /\ quiet \in Int /\ quiet' \in Int /\ warmth \in Int /\ warmth' \in Int /\ Old \in Int
          /\ idleLeft \in Int /\ idleLeft >= 1 /\ Idle \in Int /\ Warm \in Int /\ Idle <= Old /\ Warm <= Old
      BY <1>2, <1>3, <3>2, DelayFacts
    <3>4. quiet' + idleLeft' >= Idle
      BY <1>3, <3>1, <3>2, <3>3, SumHolds
    <3>5. warmth' + idleLeft' >= Warm
      BY <1>3, <3>1, <3>2, <3>3, SumHolds
    <3> QED
      BY <3>4, <3>5 DEF TimerCounts
  <2> QED
    BY <2>1, <2>2
<1>6. IdleDue => IdleDue'
  BY <1>2, <1>3, DelayFacts DEF IdleDue
<1>7. FiredInTime'
  BY <1>1, <1>6, SameGeneration, SameWaiters DEF IdleInv
<1> QED
  BY <1>4, <1>5, <1>7

LEMMA IdleInductive ==
    ASSUME IdleInv, [Next]_vars PROVE IdleInv'
<1>1. TypeOK'
  BY NextTyped DEF IdleInv
<1>2. CASE UNCHANGED vars
  <2>1. UNCHANGED <<quiet, generation, idleLeft, warmLeft, warmth, idleTasks, waiters>>
    BY <1>2 DEF vars, lockVars, idleVars, history
  <2> QED
    BY <1>1, <2>1, LinkEndsCounts, SameWaiters DEF IdleInv
<1>3. CASE Next
  <2>1. WindowCounts' /\ TimerCounts' /\ FiredInTime'
    BY <1>3, CallCounts, CancelWaitingCounts, OpEnsuresCounts, OpConnectsCounts, OpReadyCounts,
       OpSetUpCounts, OpSendsCounts, OpTearsDownCounts, OpEndsCounts, WakeCounts, IdleFiredCounts,
       IdleStartsCounts, IdleEndsCounts, HoldHeartbeatCounts, HeartbeatFiredCounts, BeatStartsCounts,
       BeatEndsCounts, LinkDropsCounts, OnDisconnectCounts, TickCounts DEF Next
  <2> QED
    BY <1>1, <2>1 DEF IdleInv
<1> QED
  BY <1>2, <1>3

-----------------------------------------------------------------------------
(* The heartbeat.                                                          *)

LEMMA BeatKept ==
    ASSUME NobodyWaitsForBeat, UNCHANGED <<holder, beat, generation>>, Thinned(waiters', waiters)
    PROVE  NobodyWaitsForBeat'
BY DEF NobodyWaitsForBeat, Thinned

LEMMA CallLetsNobodyWait ==
    ASSUME NobodyWaitsForBeat, NEW t \in Tasks, Call(t) PROVE NobodyWaitsForBeat'
<1>1. CASE holder = "free" /\ waiters = <<>>
  <2>1. holder' \in {t, "free"}
    BY <1>1 DEF Call, Starts
  <2> QED
    BY <2>1, DelayFacts DEF NobodyWaitsForBeat
<1>2. CASE ~(holder = "free" /\ waiters = <<>>)
  <2>1. holder' = holder
    BY <1>2 DEF Call
  <2>2. CASE holder = "beat"
    <3>1. beat' # "writing"
      BY <2>2 DEF Call, CallCancels, CancelBeat
    <3> QED
      BY <3>1 DEF NobodyWaitsForBeat
  <2>3. CASE holder # "beat"
    BY <2>1, <2>3 DEF NobodyWaitsForBeat
  <2> QED
    BY <2>2, <2>3
<1> QED
  BY <1>1, <1>2

LEMMA IdleStartsLetsNobodyWait ==
    ASSUME TypeOK, NobodyWaitsForBeat, NEW g \in idleTasks, IdleStarts(g) PROVE NobodyWaitsForBeat'
<1>1. CASE IdleHasLock(g)
  BY <1>1, DelayFacts DEF IdleHasLock, NobodyWaitsForBeat
<1>2. CASE waiters' = Append(waiters, [who |-> "idle", gen |-> g]) /\ UNCHANGED holder
  <2>1. waiters \in Seq(Waiter)
    BY DEF TypeOK, CallsTyped, Waiter
  <2>2. \A j \in DOMAIN waiters' :
            \/ waiters'[j] = [who |-> "idle", gen |-> g]
            \/ \E i \in DOMAIN waiters : waiters'[j] = waiters[i]
    BY <1>2, <2>1
  <2>3. CASE g = generation
    <3>1. beat' # "writing"
      BY <2>3 DEF IdleStarts, CancelBeat
    <3> QED
      BY <3>1 DEF NobodyWaitsForBeat
  <2>4. CASE g # generation
    <3>1. UNCHANGED <<beat, generation>>
      BY <2>4 DEF IdleStarts
    <3> QED
      BY <1>2, <2>2, <2>4, <3>1 DEF NobodyWaitsForBeat
  <2> QED
    BY <2>3, <2>4
<1> QED
  BY <1>1, <1>2 DEF IdleStarts

LEMMA BeatInductive ==
    ASSUME TypeOK, NobodyWaitsForBeat, [Next]_vars PROVE NobodyWaitsForBeat'
<1>1. CASE \E t \in Tasks : Call(t)
  BY <1>1, CallLetsNobodyWait
<1>2. CASE \E t \in Tasks : CancelWaiting(t)
  <2>1. PICK t \in Tasks : CancelWaiting(t)
    BY <1>2
  <2>2. waiters \in Seq(Waiter)
    BY DEF TypeOK, CallsTyped, Waiter
  <2>3. PICK i \in 1 .. Len(waiters) : waiters' = RemoveAt(waiters, i)
    BY <2>1, <2>2 DEF CancelWaiting
  <2>4. UNCHANGED <<holder, beat, generation>>
    BY <2>1 DEF CancelWaiting, idleVars, beatVars
  <2> QED
    BY <2>2, <2>3, <2>4, RemovalThins, BeatKept
<1>3. CASE \E t \in Tasks : \/ OpEnsures(t) \/ OpConnects(t) \/ OpReady(t) \/ OpSetUp(t) \/ OpSends(t)
                            \/ OpTearsDown(t)
  <2>1. holder' = holder /\ holder # "beat"
    BY <1>3, DelayFacts
    DEF OpEnsures, OpConnects, OpReady, OpSetUp, OpSends, OpTearsDown, Operates, lockVars
  <2> QED
    BY <2>1 DEF NobodyWaitsForBeat
<1>4. CASE (\E t \in Tasks : OpEnds(t)) \/ IdleEnds
  BY <1>4 DEF OpEnds, IdleEnds, NobodyWaitsForBeat
<1>5. CASE Wake
  <2>1. holder' # "beat"
    <3>1. waiters \in Seq(Waiter) /\ waiters # <<>>
      BY <1>5 DEF TypeOK, CallsTyped, Waiter, Wake
    <3>2. Head(waiters) \in Waiter
      BY <3>1, TailThins
    <3> QED
      BY <1>5, <3>2, DelayFacts DEF Wake, Starts, IdleHasLock, Waiter
  <2> QED
    BY <2>1 DEF NobodyWaitsForBeat
<1>6. CASE IdleFired \/ HoldHeartbeat \/ LinkDrops \/ OnDisconnect \/ Tick \/ UNCHANGED vars
  <2>1. UNCHANGED <<holder, beat, generation, waiters>>
    BY <1>6 DEF IdleFired, HoldHeartbeat, LinkDrops, OnDisconnect, Tick, vars, lockVars, idleVars, beatVars
  <2> QED
    BY <2>1, BeatKept, SameWaiters
<1>7. CASE \E g \in idleTasks : IdleStarts(g)
  BY <1>7, IdleStartsLetsNobodyWait
<1>8. CASE HeartbeatFired
  <2>1. UNCHANGED <<holder, generation, waiters>> /\ (beat' = beat \/ beat' # "writing")
    BY <1>8 DEF HeartbeatFired, lockVars, idleVars, beatVars
  <2> QED
    BY <2>1 DEF NobodyWaitsForBeat
<1>9. CASE BeatStarts
  <2>1. UNCHANGED waiters /\ (beat' # "writing" \/ waiters = <<>>)
    BY <1>9 DEF BeatStarts, BeatDropped, LinkBusy
  <2> QED
    BY <2>1 DEF NobodyWaitsForBeat
<1>10. CASE BeatEnds
  BY <1>10 DEF BeatEnds, NobodyWaitsForBeat
<1> QED
  BY <1>1, <1>2, <1>3, <1>4, <1>5, <1>6, <1>7, <1>8, <1>9, <1>10 DEF Next

Silent == chainLeft = Off /\ beat \notin {"created", "writing"}

LEMMA CallSilences ==
    ASSUME ClosedIsSilent, NEW t \in Tasks, Call(t) PROVE ClosedIsSilent'
<1>1. CASE kind[t] = "close"
  <2>1. beat' \notin {"created", "writing"}
    BY <1>1 DEF Call, CallCancels, CancelBeat
  <2>2. chainLeft' = Off
    BY <1>1 DEF Call, Starts, LinkEnds
  <2> QED
    BY <2>1, <2>2 DEF ClosedIsSilent
<1>2. CASE kind[t] # "close"
  <2>1. beat' = beat \/ beat' \notin {"created", "writing"}
    BY DEF Call, CancelBeat
  <2>2. chainLeft' \in {chainLeft, Off}
    BY <1>2 DEF Call, Starts, LinkEnds, chainVars
  <2>3. closed' <=> closed
    BY <1>2, Zenon DEF Call
  <2> QED
    BY <2>1, <2>2, <2>3 DEF ClosedIsSilent
<1> QED
  BY <1>1, <1>2

LEMMA SilenceInductive ==
    ASSUME TypeOK, ClosedIsSilent, [Next]_vars PROVE ClosedIsSilent'
<1>1. CASE \E t \in Tasks : Call(t)
  BY <1>1, CallSilences
<1>2. CASE ~\E t \in Tasks : Call(t)
  <2> SUFFICES ASSUME closed' PROVE Silent'
    BY DEF ClosedIsSilent, Silent
  <2>1. closed' = closed
    BY <1>2, Zenon
    DEF Next, CancelWaiting, OpEnsures, OpConnects, OpReady, OpSetUp, OpSends, OpTearsDown, OpEnds, Wake,
        IdleFired, IdleStarts, IdleEnds, HoldHeartbeat, HeartbeatFired, BeatStarts, BeatEnds, LinkDrops,
        OnDisconnect, Tick, vars
  <2>2. closed
    BY <2>1
  <2>3. chainLeft = Off /\ beat \notin {"created", "writing"}
    BY <2>2 DEF ClosedIsSilent
  <2>4. \A l : Arm(l) => chainLeft' = Off
    BY <2>2 DEF Arm
  <2>5. chainLeft # 0
    BY <2>3 DEF Off
  <2>6. chainLeft' = Off
    BY <1>2, <2>3, <2>4, <2>5
    DEF Next, CancelWaiting, OpEnsures, OpConnects, OpReady, OpSetUp, OpSends, OpTearsDown, OpEnds, Wake,
        IdleFired, IdleStarts, IdleEnds, HoldHeartbeat, HeartbeatFired, BeatStarts, BeatEnds, LinkDrops,
        OnDisconnect, Tick, vars, chainVars, Starts, IdleHasLock, LinkEnds
  <2>7. beat' \notin {"created", "writing"}
    BY <1>2, <2>3, <2>5
    DEF Next, CancelWaiting, OpEnsures, OpConnects, OpReady, OpSetUp, OpSends, OpTearsDown, OpEnds, Wake,
        IdleFired, IdleStarts, IdleEnds, HoldHeartbeat, HeartbeatFired, BeatStarts, BeatEnds, LinkDrops,
        OnDisconnect, Tick, vars, beatVars, CancelBeat
  <2> QED
    BY <2>6, <2>7 DEF Silent
<1> QED
  BY <1>1, <1>2

-----------------------------------------------------------------------------
(* The theorems.                                                           *)

IInv == IdleInv /\ NobodyWaitsForBeat /\ ClosedIsSilent

\* The timers' bookkeeping, the lock queue and the chain keep the invariant the
\* theorems below follow from, at every step of an operation, a timer or a beat.
THEOREM Inductive == Spec => []IInv
<1>1. Init => IInv
  <2> SUFFICES ASSUME Init PROVE IInv
    OBVIOUS
  <2>1. TypeOK
    BY InitTyped
  <2>2. WindowCounts /\ TimerCounts /\ FiredInTime
    BY DelayFacts DEF Init, WindowCounts, TimerCounts, FiredInTime
  <2>3. NobodyWaitsForBeat /\ ClosedIsSilent
    BY DEF Init, NobodyWaitsForBeat, ClosedIsSilent
  <2> QED
    BY <2>1, <2>2, <2>3 DEF IInv, IdleInv
<1>2. IInv /\ [Next]_vars => IInv'
  BY IdleInductive, BeatInductive, SilenceInductive DEF IInv, IdleInv
<1> QED
  BY <1>1, <1>2, PTL DEF Spec

\* Every variable keeps its values, whatever the delays are.
THEOREM TypeCorrect == Spec => []TypeOK
<1>1. IInv => TypeOK
  BY DEF IInv, IdleInv
<1> QED
  BY <1>1, Inductive, PTL

\* _idle_disconnect_task takes a link only when both delays are up: the timer
\* was due when it fired, and its generation shows that nothing ran since.
THEOREM IdleDisconnectIsDue == Spec => IdleNeverEarly
<1>1. IInv /\ [Next]_vars =>
        [holder' = "idle" /\ holder # "idle" /\ link # 0 => quiet >= Idle /\ warmth >= Warm]_vars
  <2> SUFFICES ASSUME IInv, Next, holder' = "idle", holder # "idle" PROVE IdleDue
    BY DEF IdleDue
  <2>1. CASE Wake
    <3>1. waiters \in Seq(Waiter) /\ waiters # <<>>
      BY <2>1 DEF IInv, IdleInv, TypeOK, CallsTyped, Waiter, Wake
    <3>2. 1 \in DOMAIN waiters /\ Head(waiters) = waiters[1] /\ Head(waiters) \in Waiter
      BY <3>1, TailThins
    <3>3. Head(waiters).who = "idle" /\ Head(waiters).gen = generation
      BY <2>1, <3>2, DelayFacts DEF Wake, Starts, IdleHasLock, Waiter
    <3> QED
      BY <3>2, <3>3 DEF IInv, IdleInv, FiredInTime
  <2>2. CASE \E g \in idleTasks : IdleStarts(g)
    <3>1. PICK g \in idleTasks : IdleStarts(g)
      BY <2>2
    <3>2. g = generation
      BY <3>1 DEF IdleStarts, IdleHasLock
    <3> QED
      BY <3>2 DEF IInv, IdleInv, FiredInTime
  <2>3. CASE ~(Wake \/ \E g \in idleTasks : IdleStarts(g))
    <3>1. holder' \in Tasks \cup {holder, "free", "beat"}
      BY <2>3
      DEF Next, Call, Starts, CancelWaiting, OpEnsures, OpConnects, OpReady, OpSetUp, OpSends, OpTearsDown,
          OpEnds, IdleFired, IdleEnds, HoldHeartbeat, HeartbeatFired, BeatStarts, BeatEnds, LinkDrops,
          OnDisconnect, Tick, lockVars
    <3> QED
      BY <3>1, DelayFacts
  <2> QED
    BY <2>1, <2>2, <2>3
<1> QED
  BY <1>1, Inductive, PTL DEF Spec, IdleNeverEarly

\* _cancel_beat and _link_busy: no operation and no disconnect that is due waits
\* for a heartbeat's write.
THEOREM NobodyWaits == Spec => []NobodyWaitsForBeat
<1>1. IInv => NobodyWaitsForBeat
  BY DEF IInv
<1> QED
  BY <1>1, Inductive, PTL

\* close() ends the chain for good, beside any operation that still runs.
THEOREM ClosedStaysSilent == Spec => []ClosedIsSilent
<1>1. IInv => ClosedIsSilent
  BY DEF IInv
<1> QED
  BY <1>1, Inductive, PTL

-----------------------------------------------------------------------------
(* Who holds the lock, and the link it holds it over.                      *)

\* Outside a connect phase the link is set up.
SessionDone == link # 0 /\ session # "ready" => holder \in Tasks /\ opConnecting

\* A beat holds the lock while it writes, or until it has noticed its cancellation.
BeatHolds == holder = "beat" => beat \in {"writing", "cancelled"}

Tears(t) == kind[t] \in {"release", "close"}

\* What tears down has no link left; what has no link has no chain.
TornDown ==
    /\ holder = "idle" \/ (holder \in Tasks /\ Tears(holder)) => link = 0
    /\ link = 0 => chainLeft = Off

HoldInv == SessionDone /\ BeatHolds /\ TornDown

\* The first in line.
LEMMA WakeHeads ==
    ASSUME TypeOK, Wake
    PROVE  /\ waiters' \in Seq(Waiter) /\ Thinned(waiters', waiters)
           /\ Head(waiters) \in Waiter /\ 1 \in DOMAIN waiters /\ Head(waiters) = waiters[1]
           /\ Head(waiters).who # "idle" => Head(waiters).who \in Tasks
<1>1. waiters \in Seq(Waiter) /\ waiters # <<>> /\ waiters' = Tail(waiters)
  BY DEF TypeOK, CallsTyped, Waiter, Wake
<1>2. /\ Tail(waiters) \in Seq(Waiter) /\ Thinned(Tail(waiters), waiters)
      /\ Head(waiters) \in Waiter /\ 1 \in DOMAIN waiters /\ Head(waiters) = waiters[1]
  BY <1>1, TailThins
<1> QED
  BY <1>1, <1>2 DEF Waiter

LEMMA StartsHeld ==
    ASSUME TypeOK, HoldInv, NEW t \in Tasks, Starts(t), holder = "free",
           UNCHANGED kind, beat' \in {beat, "cancelled"} \/ beat' = beat
    PROVE  HoldInv'
<1>1. CASE kind[t] \in {"command", "read"}
  <2>1. holder' = t /\ UNCHANGED <<link, session, linkUp, chainVars>>
    BY <1>1 DEF Starts
  <2> QED
    BY <1>1, <2>1, DelayFacts DEF HoldInv, SessionDone, BeatHolds, TornDown, Tears, chainVars
<1>2. CASE LinkEnds /\ holder' = t
  BY <1>2, DelayFacts DEF HoldInv, SessionDone, BeatHolds, TornDown, LinkEnds
<1>3. CASE holder' = "free" /\ UNCHANGED <<link, session, chainVars>>
  BY <1>3, DelayFacts DEF HoldInv, SessionDone, BeatHolds, TornDown, Tears, chainVars
<1> QED
  BY <1>1, <1>2, <1>3 DEF Starts

LEMMA IdleHasLockHeld ==
    ASSUME HoldInv, NEW g, IdleHasLock(g), holder = "free" PROVE HoldInv'
<1>1. CASE LinkEnds /\ holder' = "idle"
  BY <1>1, DelayFacts DEF HoldInv, SessionDone, BeatHolds, TornDown, LinkEnds
<1>2. CASE holder' = "free" /\ UNCHANGED <<link, session, chainVars>>
  BY <1>2, DelayFacts DEF HoldInv, SessionDone, BeatHolds, TornDown, Tears, chainVars
<1> QED
  BY <1>1, <1>2 DEF IdleHasLock

\* A step that leaves link, session, chain and lock alone.
LEMMA SameHeld ==
    ASSUME HoldInv, UNCHANGED <<holder, kind, link, session, chainLeft>>,
           opConnecting' \in {opConnecting, TRUE}, holder = "beat" => beat' \in {beat, "cancelled"}
    PROVE  HoldInv'
BY DEF HoldInv, SessionDone, BeatHolds, TornDown, Tears

LEMMA HoldInductive ==
    ASSUME TypeOK, HoldInv, [Next]_vars PROVE HoldInv'
<1>1. ASSUME NEW t \in Tasks, Call(t) PROVE HoldInv'
  <2>1. UNCHANGED kind /\ beat' \in {beat, "cancelled"}
    BY <1>1 DEF Call, CancelBeat
  <2>2. CASE Starts(t) /\ holder = "free"
    BY <2>1, <2>2, StartsHeld
  <2>3. CASE ~(holder = "free" /\ waiters = <<>>)
    <3>1. UNCHANGED <<holder, opVars, link, session>> /\ chainLeft' \in {Off, chainLeft}
      BY <1>1, <2>3 DEF Call
    <3> QED
      BY <2>1, <3>1 DEF HoldInv, SessionDone, BeatHolds, TornDown, Tears, opVars
  <2> QED
    BY <1>1, <2>2, <2>3 DEF Call
<1>2. CASE Wake
  <2>1. holder = "free" /\ UNCHANGED <<kind, beat>>
    BY <1>2 DEF Wake, beatVars
  <2>2. CASE Head(waiters).who = "idle"
    BY <1>2, <2>1, <2>2, IdleHasLockHeld DEF Wake
  <2>3. CASE Head(waiters).who # "idle"
    <3>1. Head(waiters).who \in Tasks /\ Starts(Head(waiters).who)
      BY <1>2, <2>3, WakeHeads DEF Wake
    <3> QED
      BY <2>1, <3>1, StartsHeld
  <2> QED
    BY <2>2, <2>3
<1>3. ASSUME NEW g \in idleTasks, IdleStarts(g) PROVE HoldInv'
  <2>1. CASE holder = "free" /\ IdleHasLock(g)
    BY <2>1, IdleHasLockHeld
  <2>2. CASE UNCHANGED <<holder, link, session, chainVars>>
    <3>1. UNCHANGED <<kind, opConnecting>> /\ beat' \in {beat, "cancelled"}
      BY <1>3 DEF IdleStarts, CancelBeat, callVars, opVars
    <3> QED
      BY <2>2, <3>1, SameHeld DEF chainVars
  <2> QED
    BY <1>3, <2>1, <2>2 DEF IdleStarts
<1>4. ASSUME NEW t \in Tasks, OpConnects(t) \/ OpReady(t) \/ OpSetUp(t) \/ OpTearsDown(t) PROVE HoldInv'
  <2>1. holder = t /\ ~Tears(t) /\ UNCHANGED <<holder, kind>>
    BY <1>4 DEF OpConnects, OpReady, OpSetUp, OpTearsDown, Operates, Tears, callVars, lockVars
  <2>2. CASE OpConnects(t)
    <3>1. opConnecting' /\ link' # 0
      BY <2>2 DEF OpConnects, opVars, TypeOK, LinkTyped
    <3> QED
      BY <2>1, <3>1, DelayFacts DEF HoldInv, SessionDone, BeatHolds, TornDown, Tears
  <2>3. CASE OpReady(t)
    BY <2>1, <2>3, DelayFacts DEF OpReady, HoldInv, SessionDone, BeatHolds, TornDown, Tears, opVars
  <2>4. CASE OpSetUp(t)
    BY <2>1, <2>4, DelayFacts DEF OpSetUp, HoldInv, SessionDone, BeatHolds, TornDown, Tears
  <2>5. CASE OpTearsDown(t)
    BY <2>1, <2>5, DelayFacts DEF OpTearsDown, LinkEnds, HoldInv, SessionDone, BeatHolds, TornDown, Tears
  <2> QED
    BY <1>4, <2>2, <2>3, <2>4, <2>5
<1>5. ASSUME NEW t \in Tasks, OpEnds(t) PROVE HoldInv'
  <2>1. holder = t /\ holder' = "free" /\ UNCHANGED <<kind, link, session, opConnecting>>
    BY <1>5 DEF OpEnds, opVars, linkVars
  <2>2. CASE Tears(t)
    <3>1. UNCHANGED chainVars
      BY <1>5, <2>2 DEF OpEnds, Tears
    <3> QED
      BY <2>1, <2>2, <3>1, DelayFacts DEF HoldInv, SessionDone, BeatHolds, TornDown, chainVars
  <2>3. CASE ~Tears(t)
    <3>1. ~opConnecting /\ (Arm(link) \/ UNCHANGED chainVars)
      BY <1>5, <2>3 DEF OpEnds, Tears
    <3> QED
      BY <2>1, <2>3, <3>1, DelayFacts DEF HoldInv, SessionDone, BeatHolds, TornDown, Arm, chainVars
  <2> QED
    BY <2>2, <2>3
<1>6. CASE IdleEnds
  <2>1. holder = "idle" /\ holder' = "free" /\ UNCHANGED <<kind, link, session, chainLeft>>
    BY <1>6 DEF IdleEnds, callVars, linkVars, chainVars
  <2> QED
    BY <2>1, DelayFacts DEF HoldInv, SessionDone, BeatHolds, TornDown
<1>7. CASE HeartbeatFired
  <2>1. UNCHANGED <<holder, kind, link, session, opConnecting>>
    BY <1>7 DEF HeartbeatFired, callVars, lockVars, opVars, linkVars
  <2>2. chainLeft' = Off \/ link # 0
    BY <1>7 DEF HeartbeatFired, IsConnected
  <2>3. holder = "beat" => beat' = beat
    BY <1>7 DEF HeartbeatFired, LinkBusy, beatVars
  <2> QED
    BY <2>1, <2>2, <2>3 DEF HoldInv, SessionDone, BeatHolds, TornDown, Tears
<1>8. CASE BeatStarts
  <2>1. UNCHANGED <<kind, link, session, opConnecting, chainLeft>>
    BY <1>8 DEF BeatStarts, callVars, opVars, linkVars, chainVars
  <2>2. holder # "beat"
    BY <1>8 DEF BeatStarts, HoldInv, BeatHolds
  <2>3. UNCHANGED holder \/ (holder = "free" /\ holder' = "beat" /\ beat' = "writing")
    BY <1>8 DEF BeatStarts, BeatDropped, LinkBusy
  <2> QED
    BY <2>1, <2>2, <2>3, DelayFacts DEF HoldInv, SessionDone, BeatHolds, TornDown, Tears
<1>9. CASE BeatEnds
  <2>1. UNCHANGED <<kind, link, session, opConnecting, chainLeft>>
    BY <1>9 DEF BeatEnds, callVars, opVars, linkVars, chainVars
  <2>2. (holder = "beat" /\ holder' = "free") \/ (holder # "beat" /\ holder' = holder)
    BY <1>9 DEF BeatEnds
  <2> QED
    BY <2>1, <2>2, DelayFacts DEF HoldInv, SessionDone, BeatHolds, TornDown, Tears
<1>10. CASE OnDisconnect
  BY <1>10, DelayFacts DEF OnDisconnect, LinkEnds, HoldInv, SessionDone, BeatHolds, TornDown, Tears, callVars, lockVars, opVars, beatVars
<1>11. CASE Tick
  <2>1. UNCHANGED <<holder, kind, link, session, opConnecting, beat>> /\ (chainLeft = Off => chainLeft' = Off)
    BY <1>11 DEF Tick, callVars, lockVars, linkVars
  <2> QED
    BY <2>1 DEF HoldInv, SessionDone, BeatHolds, TornDown, Tears
<1>12. CASE (\E t \in Tasks : CancelWaiting(t) \/ OpEnsures(t) \/ OpSends(t))
            \/ IdleFired \/ HoldHeartbeat \/ LinkDrops \/ UNCHANGED vars
  <2>1. UNCHANGED <<holder, kind, link, session, chainLeft, beat>> /\ opConnecting' \in {opConnecting, TRUE}
    BY <1>12, Zenon DEF CancelWaiting, OpEnsures, OpSends, IdleFired, HoldHeartbeat, LinkDrops, vars, callVars, lockVars, opVars,
       linkVars, idleVars, chainVars, beatVars
  <2> QED
    BY <2>1, SameHeld
<1> QED
  BY <1>1, <1>2, <1>3, <1>4, <1>5, <1>6, <1>7, <1>8, <1>9, <1>10, <1>11, <1>12 DEF Next

-----------------------------------------------------------------------------
(* The idle disconnect is on its way.                                      *)

\* One of the two delays is not over in d, or just.
Within(d) == quiet + d <= Idle \/ warmth + d <= Warm

\* An idle task that is not stale waits for the lock.
IdleQueued(r) == \E i \in DOMAIN r : r[i].who = "idle" /\ r[i].gen = generation

\* The timer is set for the longer delay at most, or has fired when it was over.
Watched ==
    \/ idleLeft # Off /\ Within(idleLeft)
    \/ Within(0) /\ (generation \in idleTasks \/ IdleQueued(waiters))

WindowOver == warmLeft # 0 => warmth + warmLeft <= Warm

KeepInv == WindowOver /\ (link # 0 /\ holder \notin Tasks => Watched)

\* What is not taken out of a queue stays in it.
LEMMA RemovalShifts ==
    ASSUME NEW S, NEW q \in Seq(S), NEW i \in 1 .. Len(q)
    PROVE  /\ DOMAIN RemoveAt(q, i) = 1 .. (Len(q) - 1)
           /\ \A j \in 1 .. (i - 1) : RemoveAt(q, i)[j] = q[j]
           /\ \A j \in i .. (Len(q) - 1) : RemoveAt(q, i)[j] = q[j + 1]
<1> DEFINE front == SubSeq(q, 1, i - 1)
           back == SubSeq(q, i + 1, Len(q))
<1>1. /\ front \in Seq(S) /\ Len(front) = i - 1
      /\ \A j \in 1 .. (i - 1) : front[j] = q[j]
  OBVIOUS
<1>2. /\ back \in Seq(S) /\ Len(back) = Len(q) - i
      /\ \A j \in 1 .. (Len(q) - i) : back[j] = q[i + j]
  OBVIOUS
<1> HIDE DEF front, back
<1>3. /\ front \o back \in Seq(S) /\ Len(front \o back) = Len(q) - 1
      /\ \A j \in 1 .. (Len(q) - 1) :
            (front \o back)[j] = IF j <= i - 1 THEN front[j] ELSE back[j - (i - 1)]
  BY <1>1, <1>2, ConcatProperties
<1>4. ASSUME NEW j \in i .. (Len(q) - 1) PROVE (front \o back)[j] = q[j + 1]
  <2>1. ~(j <= i - 1) /\ j \in 1 .. (Len(q) - 1) /\ j - (i - 1) \in 1 .. (Len(q) - i)
        /\ i + (j - (i - 1)) = j + 1
    OBVIOUS
  <2> QED
    BY <1>2, <1>3, <2>1
<1>5. ASSUME NEW j \in 1 .. (i - 1) PROVE (front \o back)[j] = q[j]
  <2>1. j <= i - 1 /\ j \in 1 .. (Len(q) - 1)
    OBVIOUS
  <2> QED
    BY <1>1, <1>3, <2>1
<1>6. RemoveAt(q, i) = front \o back
  BY DEF RemoveAt, front, back
<1>7. DOMAIN (front \o back) = 1 .. (Len(q) - 1)
  BY <1>3
<1> QED
  BY <1>4, <1>5, <1>6, <1>7

LEMMA RemovalKeeps ==
    ASSUME NEW S, NEW q \in Seq(S), NEW i \in 1 .. Len(q), NEW k \in 1 .. Len(q), k # i
    PROVE  \E j \in DOMAIN RemoveAt(q, i) : RemoveAt(q, i)[j] = q[k]
<1>1. Len(q) \in Nat /\ i \in Int /\ k \in Int
  OBVIOUS
<1>2. CASE k < i
  <2>1. k \in 1 .. (i - 1) /\ k \in 1 .. (Len(q) - 1)
    BY <1>1, <1>2
  <2> QED
    BY <2>1, RemovalShifts
<1>3. CASE k > i
  <2>1. k - 1 \in i .. (Len(q) - 1) /\ k - 1 \in 1 .. (Len(q) - 1) /\ (k - 1) + 1 = k
    BY <1>1, <1>3
  <2> QED
    BY <2>1, RemovalShifts
<1> QED
  BY <1>1, <1>2, <1>3

\* A step after which the timer and the tasks it fired are still there.
LEMMA StillWatched ==
    ASSUME KeepInv, UNCHANGED <<quiet, warmth, warmLeft, idleLeft, generation>>,
           link' # 0 /\ holder' \notin Tasks => link # 0 /\ holder \notin Tasks,
           idleTasks \subseteq idleTasks', IdleQueued(waiters) => IdleQueued(waiters')
    PROVE  KeepInv'
<1>1. Watched => Watched'
  BY DEF Watched, Within, IdleQueued
<1> QED
  BY <1>1 DEF KeepInv, WindowOver

\* A step that ends the link, or starts an operation on it.
LEMMA UsedOrGone ==
    ASSUME WindowOver, warmLeft' = 0 \/ (warmLeft' = Warm /\ warmth' = 0) \/ UNCHANGED <<warmLeft, warmth>>,
           link' = 0 \/ holder' \in Tasks
    PROVE  KeepInv'
BY DelayFacts DEF KeepInv, WindowOver

LEMMA StartsKept ==
    ASSUME KeepInv, NEW t \in Tasks, Starts(t), holder = "free", UNCHANGED <<quiet, idleTasks>>,
           IdleQueued(waiters) => IdleQueued(waiters')
    PROVE  KeepInv'
<1>1. CASE kind[t] \in {"command", "read"}
  <2>1. holder' = t /\ ((warmLeft' = Warm /\ warmth' = 0) \/ UNCHANGED <<warmLeft, warmth>>)
    BY <1>1 DEF Starts
  <2> QED
    BY <2>1, UsedOrGone DEF KeepInv
<1>2. CASE LinkEnds
  BY <1>2, UsedOrGone DEF KeepInv, LinkEnds
<1>3. CASE holder' = "free" /\ UNCHANGED <<idleLeft, generation, warmLeft, link, warmth>>
  BY <1>3, StillWatched, DelayFacts
<1> QED
  BY <1>1, <1>2, <1>3 DEF Starts

\* The idle task of this generation is not the one a step takes out.
LEMMA QueuedBehind ==
    ASSUME TypeOK, Wake, UNCHANGED generation, ~(Head(waiters).who = "idle" /\ Head(waiters).gen = generation)
    PROVE  IdleQueued(waiters) => IdleQueued(waiters')
<1> SUFFICES ASSUME NEW k \in DOMAIN waiters, waiters[k].who = "idle" /\ waiters[k].gen = generation
             PROVE  IdleQueued(waiters')
  BY DEF IdleQueued
<1>1. waiters \in Seq(Waiter) /\ waiters # <<>> /\ waiters' = Tail(waiters)
  BY DEF TypeOK, CallsTyped, Waiter, Wake
<1>2. Head(waiters) = waiters[1]
  BY WakeHeads
<1>3. k # 1
  BY <1>2
<1>4. k - 1 \in DOMAIN Tail(waiters) /\ Tail(waiters)[k - 1] = waiters[k]
  BY <1>1, <1>3
<1> QED
  BY <1>1, <1>4 DEF IdleQueued

LEMMA QueuedAppend ==
    ASSUME TypeOK, NEW w \in Waiter, waiters' = Append(waiters, w), UNCHANGED generation
    PROVE  /\ IdleQueued(waiters) => IdleQueued(waiters')
           /\ w.who = "idle" /\ w.gen = generation => IdleQueued(waiters')
<1>1. waiters \in Seq(Waiter)
  BY DEF TypeOK, CallsTyped, Waiter
<1>2. \A k \in DOMAIN waiters : k \in DOMAIN waiters' /\ waiters'[k] = waiters[k]
  BY <1>1
<1>3. Len(waiters) + 1 \in DOMAIN waiters' /\ waiters'[Len(waiters) + 1] = w
  BY <1>1
<1> QED
  BY <1>2, <1>3 DEF IdleQueued

LEMMA QueuedCancel ==
    ASSUME TypeOK, NEW t \in Tasks, CancelWaiting(t)
    PROVE  IdleQueued(waiters) => IdleQueued(waiters')
<1> SUFFICES ASSUME NEW k \in DOMAIN waiters, waiters[k].who = "idle" /\ waiters[k].gen = generation
             PROVE  IdleQueued(waiters')
  BY DEF IdleQueued
<1>1. waiters \in Seq(Waiter)
  BY DEF TypeOK, CallsTyped, Waiter
<1>2. PICK i \in DOMAIN waiters : waiters[i].who = t /\ waiters' = RemoveAt(waiters, i)
  BY DEF CancelWaiting
<1>3. k # i
  BY <1>2, DelayFacts
<1>4. i \in 1 .. Len(waiters) /\ k \in 1 .. Len(waiters)
  BY <1>1, <1>2
<1>5. \E j \in DOMAIN RemoveAt(waiters, i) : RemoveAt(waiters, i)[j] = waiters[k]
  BY <1>1, <1>3, <1>4, RemovalKeeps
<1>6. generation' = generation
  BY DEF CancelWaiting, idleVars
<1> QED
  BY <1>2, <1>5, <1>6 DEF IdleQueued

LEMMA WatchedStays ==
    ASSUME UNCHANGED <<quiet, warmth, idleLeft, generation>>, IdleQueued(waiters) => IdleQueued(waiters'),
           generation \in idleTasks => generation' \in idleTasks' \/ IdleQueued(waiters')
    PROVE  Watched => Watched'
<1>1. CASE idleLeft # Off /\ Within(idleLeft)
  BY <1>1 DEF Watched, Within
<1>2. CASE Within(0) /\ (generation \in idleTasks \/ IdleQueued(waiters))
  <2>1. Within(0)'
    BY <1>2 DEF Within
  <2>2. generation' \in idleTasks' \/ IdleQueued(waiters')
    BY <1>2
  <2>3. IdleQueued(waiters') <=> IdleQueued(waiters)'
    BY DEF IdleQueued
  <2> QED
    BY <2>1, <2>2, <2>3 DEF Watched
<1> QED
  BY <1>1, <1>2 DEF Watched

\* An age and a rest that add up to no more than a delay, a unit later.
LEMMA SumStays ==
    ASSUME NEW a \in Int, NEW b \in Int, NEW left \in Int, NEW n \in Int, a + left <= n, b <= a + 1
    PROVE  b + (left - 1) <= n
OBVIOUS

LEMMA CallKept ==
    ASSUME TypeOK, KeepInv, NEW t \in Tasks, Call(t) PROVE KeepInv'
<1>1. UNCHANGED <<quiet, idleTasks>>
  BY DEF Call
<1>2. CASE holder = "free" /\ Starts(t) /\ UNCHANGED waiters /\ UNCHANGED generation
  BY <1>1, <1>2, StartsKept DEF IdleQueued
<1>3. CASE holder = "free" /\ Starts(t) /\ UNCHANGED waiters /\ ~UNCHANGED generation
  <2>1. warmLeft' = 0 \/ (warmLeft' = Warm /\ warmth' = 0) \/ UNCHANGED <<warmLeft, warmth>>
    BY <1>3 DEF Starts, LinkEnds
  <2>2. link' = 0 \/ holder' \in Tasks
    BY <1>3 DEF Starts, LinkEnds
  <2> QED
    BY <2>1, <2>2, UsedOrGone DEF KeepInv
<1>4. CASE ~(holder = "free" /\ waiters = <<>>)
  <2>1. /\ UNCHANGED <<holder, link, idleLeft, generation, warmLeft, warmth>>
        /\ waiters' = Append(waiters, [who |-> t, gen |-> 0])
    BY <1>4 DEF Call
  <2>2. [who |-> t, gen |-> 0] \in Waiter
    BY DEF Waiter
  <2>3. IdleQueued(waiters) => IdleQueued(waiters')
    BY <2>1, <2>2, QueuedAppend
  <2> QED
    BY <1>1, <2>1, <2>3, StillWatched
<1> QED
  BY <1>2, <1>3, <1>4 DEF Call

LEMMA WakeKept ==
    ASSUME TypeOK, KeepInv, Wake PROVE KeepInv'
<1>1. UNCHANGED <<quiet, idleTasks>> /\ holder = "free"
  BY DEF Wake
<1>2. CASE Head(waiters).who = "idle"
  <2>1. IdleHasLock(Head(waiters).gen) /\ UNCHANGED generation
    BY <1>2 DEF Wake
  <2>2. CASE LinkEnds
    BY <2>2, UsedOrGone DEF KeepInv, LinkEnds
  <2>3. CASE ~LinkEnds
    <3>1. UNCHANGED <<idleLeft, link, warmLeft, warmth>> /\ holder' = "free" /\ Head(waiters).gen # generation
      BY <2>1, <2>3 DEF IdleHasLock
    <3>2. IdleQueued(waiters) => IdleQueued(waiters')
      BY <2>1, <3>1, QueuedBehind
    <3> QED
      BY <1>1, <2>1, <3>1, <3>2, StillWatched, DelayFacts
  <2> QED
    BY <2>2, <2>3
<1>3. CASE Head(waiters).who # "idle"
  <2>1. Starts(Head(waiters).who) /\ Head(waiters).who \in Tasks
    BY <1>3, WakeHeads DEF Wake
  <2>2. CASE UNCHANGED generation
    <3>1. IdleQueued(waiters) => IdleQueued(waiters')
      BY <1>3, <2>2, QueuedBehind
    <3> QED
      BY <1>1, <2>1, <3>1, StartsKept
  <2>3. CASE ~UNCHANGED generation
    <3>1. warmLeft' = 0 \/ (warmLeft' = Warm /\ warmth' = 0) \/ UNCHANGED <<warmLeft, warmth>>
      BY <2>1, <2>3 DEF Starts, LinkEnds
    <3>2. link' = 0 \/ holder' \in Tasks
      BY <2>1, <2>3 DEF Starts, LinkEnds
    <3> QED
      BY <3>1, <3>2, UsedOrGone DEF KeepInv
  <2> QED
    BY <2>2, <2>3
<1> QED
  BY <1>2, <1>3

LEMMA IdleStartsKept ==
    ASSUME TypeOK, KeepInv, NEW g \in idleTasks, IdleStarts(g) PROVE KeepInv'
<1>1. UNCHANGED <<quiet, generation>> /\ idleTasks' = idleTasks \ {g}
  BY DEF IdleStarts
<1>2. CASE LinkEnds
  BY <1>2, UsedOrGone DEF KeepInv, LinkEnds
<1>3. CASE holder = "free" /\ IdleHasLock(g) /\ UNCHANGED waiters /\ ~LinkEnds
  <2>1. UNCHANGED <<idleLeft, link, warmLeft, warmth>> /\ holder' = "free" /\ g # generation
    BY <1>3 DEF IdleHasLock
  <2>2. IdleQueued(waiters) => IdleQueued(waiters')
    BY <1>1, <1>3 DEF IdleQueued
  <2>3. Watched => Watched'
    BY <1>1, <2>1, <2>2, WatchedStays
  <2> QED
    BY <1>1, <1>3, <2>1, <2>3, DelayFacts DEF KeepInv, WindowOver
<1>4. CASE /\ waiters' = Append(waiters, [who |-> "idle", gen |-> g])
           /\ UNCHANGED <<holder, idleLeft, link, session, linkUp, warmLeft, chainVars, warmth>>
  <2>1. [who |-> "idle", gen |-> g] \in Waiter
    BY DEF Waiter, TypeOK, IdleTyped
  <2>2. IdleQueued(waiters) => IdleQueued(waiters')
    BY <1>1, <1>4, <2>1, QueuedAppend
  <2>3. g = generation => IdleQueued(waiters')
    BY <1>1, <1>4, <2>1, QueuedAppend
  <2>4. Watched => Watched'
    BY <1>1, <1>4, <2>2, <2>3, WatchedStays
  <2> QED
    BY <1>1, <1>4, <2>4 DEF KeepInv, WindowOver
<1> QED
  BY <1>2, <1>3, <1>4 DEF IdleStarts

LEMMA OpEndsKept ==
    ASSUME TypeOK, HoldInv, KeepInv, NEW t \in Tasks, OpEnds(t) PROVE KeepInv'
<1>1. holder = t /\ link' = link
  BY DEF OpEnds, linkVars
<1>2. CASE Tears(t)
  <2>1. link' = 0 /\ UNCHANGED <<warmLeft, warmth>>
    BY <1>1, <1>2 DEF OpEnds, Tears, HoldInv, TornDown
  <2> QED
    BY <2>1, UsedOrGone DEF KeepInv
<1>3. CASE ~Tears(t)
  <2> DEFINE stillWarm == IF Warm > opAge THEN Warm - opAge ELSE 0
             warm == IF kind[t] = "command" /\ link # 0 THEN stillWarm ELSE warmLeft
  <2>1. /\ warmLeft' = warm
        /\ idleLeft' = IF link = 0 THEN Off ELSE Longer(Idle, warm)
        /\ IF kind[t] = "command" /\ link # 0 THEN warmth' = opAge ELSE UNCHANGED warmth
        /\ quiet' = 0
    BY <1>3 DEF OpEnds, IdleDelay, Tears
  <2>2. opAge \in 0 .. Old /\ warmLeft \in 0 .. Warm /\ warmth \in 0 .. Old
    BY DEF TypeOK, CallsTyped, IdleTyped, HistoryTyped
  <2>3. warm \in 0 .. Warm /\ stillWarm \in 0 .. Warm /\ (stillWarm # 0 => opAge + stillWarm <= Warm)
    BY <2>2, DelayFacts
  <2>4. WindowOver'
    BY <2>1, <2>3 DEF WindowOver, KeepInv
  <2> HIDE DEF stillWarm, warm
  <2>5. ASSUME link # 0 PROVE Watched'
    <3>1. CASE warm > Idle
      <4>1. idleLeft' = warm /\ warmLeft' = warm /\ warm # 0 /\ warm # -1
        BY <2>1, <2>3, <2>5, <3>1, DelayFacts DEF Longer
      <4>2. warmth' + warm <= Warm
        BY <2>4, <4>1 DEF WindowOver
      <4> QED
        BY <4>1, <4>2, DelayFacts DEF Watched, Within
    <3>2. CASE ~(warm > Idle)
      <4>1. idleLeft' = Idle
        BY <2>1, <2>3, <2>5, <3>2, DelayFacts DEF Longer
      <4>2. quiet' + idleLeft' <= Idle /\ idleLeft' # Off
        BY <2>1, <4>1, DelayFacts
      <4> QED
        BY <4>2 DEF Watched, Within
    <3> QED
      BY <3>1, <3>2
  <2> QED
    BY <1>1, <2>4, <2>5 DEF KeepInv
<1> QED
  BY <1>2, <1>3

LEMMA TickKept ==
    ASSUME TypeOK, HoldInv, NobodyWaitsForBeat, KeepInv, Tick PROVE KeepInv'
<1>1. quiet \in 0 .. Old /\ warmth \in 0 .. Old /\ warmLeft \in 0 .. Warm /\ idleLeft \in -1 .. Warm
  BY DelayFacts DEF TypeOK, HistoryTyped, IdleTyped, Counts
<1>2. /\ quiet' \in 0 .. Old /\ warmth' \in 0 .. Old /\ quiet' <= quiet + 1 /\ warmth' <= warmth + 1
  BY <1>1, DelayFacts DEF Tick, Older
<1>3. WindowOver'
  <2>1. warmLeft' = IF warmLeft = 0 THEN 0 ELSE warmLeft - 1
    BY DEF Tick
  <2> QED
    <3> SUFFICES ASSUME warmLeft' # 0 PROVE warmth' + warmLeft' <= Warm
      BY DEF WindowOver
    <3>1. warmLeft # 0 /\ warmLeft' = warmLeft - 1
      BY <2>1
    <3>2. warmth + warmLeft <= Warm
      BY <3>1 DEF KeepInv, WindowOver
    <3>3. warmth \in Int /\ warmth' \in Int /\ warmLeft \in Int /\ Warm \in Int
      BY <1>1, <1>2, DelayFacts
    <3>4. warmth' + (warmLeft - 1) <= Warm
      BY <1>2, <3>2, <3>3, SumStays
    <3> QED
      BY <3>1, <3>4
<1>4. UNCHANGED <<holder, link, waiters, generation, idleTasks>>
  BY DEF Tick, lockVars, linkVars
<1>5. ASSUME link # 0, holder \notin Tasks PROVE Watched'
  <2>1. idleTasks = {} /\ ~IdleQueued(waiters)
    <3>1. idleTasks = {} /\ (holder = "free" => waiters = <<>>) /\ beat \notin {"created", "cancelled"}
      BY DEF Tick, NothingDue
    <3>2. holder \in {"free", "beat"}
      BY <1>5 DEF HoldInv, TornDown, TypeOK, CallsTyped
    <3>3. CASE holder = "free"
      BY <3>1, <3>3 DEF IdleQueued
    <3>4. CASE holder = "beat"
      BY <3>1, <3>4 DEF HoldInv, BeatHolds, NobodyWaitsForBeat, IdleQueued
    <3> QED
      BY <3>1, <3>2, <3>3, <3>4
  <2>2. idleLeft # Off /\ Within(idleLeft) /\ idleLeft # 0
    BY <1>5, <2>1 DEF KeepInv, Watched, Tick, NothingDue
  <2>3. idleLeft' = idleLeft - 1 /\ idleLeft >= 1
    BY <1>1, <2>2, DelayFacts DEF Tick
  <2>4. quiet \in Int /\ quiet' \in Int /\ warmth \in Int /\ warmth' \in Int /\ idleLeft \in Int
        /\ Warm \in Int /\ Idle \in Int
    BY <1>1, <1>2, DelayFacts
  <2>5. quiet + idleLeft <= Idle => quiet' + (idleLeft - 1) <= Idle
    BY <1>2, <2>4, SumStays
  <2>6. warmth + idleLeft <= Warm => warmth' + (idleLeft - 1) <= Warm
    BY <1>2, <2>4, SumStays
  <2>7. idleLeft' # Off
    BY <2>3, <2>4, DelayFacts
  <2> QED
    BY <2>2, <2>3, <2>5, <2>6, <2>7 DEF Watched, Within
<1> QED
  BY <1>3, <1>4, <1>5 DEF KeepInv

LEMMA KeepInductive ==
    ASSUME TypeOK, HoldInv, NobodyWaitsForBeat, KeepInv, [Next]_vars PROVE KeepInv'
<1>1. CASE \E t \in Tasks : Call(t)
  BY <1>1, CallKept
<1>2. CASE Wake
  BY <1>2, WakeKept
<1>3. CASE \E g \in idleTasks : IdleStarts(g)
  BY <1>3, IdleStartsKept
<1>4. CASE \E t \in Tasks : OpEnds(t)
  BY <1>4, OpEndsKept
<1>5. CASE Tick
  BY <1>5, TickKept
<1>6. CASE IdleFired
  <2>1. /\ UNCHANGED <<holder, waiters, link, generation, warmLeft, warmth, quiet>> /\ idleLeft = 0
        /\ generation \in idleTasks' /\ (generation \in idleTasks => generation' \in idleTasks')
    BY <1>6 DEF IdleFired, lockVars, linkVars, history
  <2>2. (IdleQueued(waiters) => IdleQueued(waiters')) /\ generation' \in idleTasks'
    BY <2>1 DEF IdleQueued
  <2>3. Watched => Within(0)'
    BY <2>1 DEF Watched, Within
  <2>4. Watched => Watched'
    BY <2>2, <2>3 DEF Watched
  <2> QED
    BY <2>1, <2>4 DEF KeepInv, WindowOver
<1>7. CASE IdleEnds
  <2>1. holder = "idle" /\ UNCHANGED <<link, warmLeft, warmth>>
    BY <1>7 DEF IdleEnds, linkVars, idleVars, history
  <2>2. link' = 0
    BY <2>1 DEF HoldInv, TornDown
  <2> QED
    BY <2>1, <2>2, UsedOrGone DEF KeepInv
<1>8. CASE OnDisconnect
  BY <1>8, UsedOrGone DEF OnDisconnect, LinkEnds, KeepInv
<1>9. CASE \E t \in Tasks : OpConnects(t) \/ OpReady(t) \/ OpSetUp(t) \/ OpTearsDown(t)
  <2>0. PICK t \in Tasks : OpConnects(t) \/ OpReady(t) \/ OpSetUp(t) \/ OpTearsDown(t)
    BY <1>9
  <2>1. holder' \in Tasks /\ (warmLeft' = 0 \/ UNCHANGED <<warmLeft, warmth>>)
    BY <2>0 DEF OpConnects, OpReady, OpSetUp, OpTearsDown, Operates, LinkEnds, lockVars, idleVars, history
  <2> QED
    BY <2>1, UsedOrGone DEF KeepInv
<1>10. CASE BeatStarts \/ BeatEnds
  <2>1. /\ UNCHANGED <<quiet, warmth, warmLeft, idleLeft, generation, idleTasks, waiters, link>>
        /\ holder' \notin Tasks => holder \notin Tasks
    BY <1>10, DelayFacts DEF BeatStarts, BeatEnds, BeatDropped, LinkBusy, linkVars, idleVars, history
  <2> QED
    BY <2>1, StillWatched DEF IdleQueued
<1>11. CASE \E t \in Tasks : CancelWaiting(t)
  <2>1. PICK t \in Tasks : CancelWaiting(t)
    BY <1>11
  <2>2. UNCHANGED <<quiet, warmth, warmLeft, idleLeft, generation, idleTasks, holder, link>>
    BY <2>1 DEF CancelWaiting, linkVars, idleVars, history
  <2>3. IdleQueued(waiters) => IdleQueued(waiters')
    BY <2>1, QueuedCancel
  <2> QED
    BY <2>2, <2>3, StillWatched
<1>12. CASE (\E t \in Tasks : OpEnsures(t) \/ OpSends(t)) \/ HoldHeartbeat \/ HeartbeatFired \/ LinkDrops
            \/ UNCHANGED vars
  <2>1. UNCHANGED <<quiet, warmth, warmLeft, idleLeft, generation, idleTasks, waiters, holder, link>>
    BY <1>12, Zenon DEF OpEnsures, OpSends, HoldHeartbeat, HeartbeatFired, LinkDrops, vars, lockVars, linkVars, idleVars, history
  <2> QED
    BY <2>1, StillWatched DEF IdleQueued
<1> QED
  BY <1>1, <1>2, <1>3, <1>4, <1>5, <1>6, <1>7, <1>8, <1>9, <1>10, <1>11, <1>12 DEF Next

-----------------------------------------------------------------------------
(* The beats of a link: quiet before each ...                              *)

\* A tick comes no earlier than one interval after what the beats count from;
\* a frame sent since the tick has made its beat stale, or gone out on another link.
QuietInv ==
    /\ chainLeft # Off => talked + chainLeft >= Interval
    /\ beat = "created" =>
          /\ holder \in Tasks /\ opSent => beatStale
          /\ link # 0 /\ beatLink = link =>
                session = "ready" /\ (talked >= Interval \/ (timing = "after_quiet" /\ beatStale))

\* A step that sends nothing and leaves the chain alone, or ends it.
LEMMA NothingSaid ==
    ASSUME QuietInv, UNCHANGED <<talked, timing, beatLink, beatStale>>, chainLeft' \in {Off, chainLeft},
           link' = 0 \/ UNCHANGED <<link, session>>, beat' # "created" \/ beat = "created",
           (holder' \in Tasks /\ opSent') => (holder \in Tasks /\ opSent)
    PROVE  QuietInv'
BY DEF QuietInv

\* A chain that starts over, or ends.
LEMMA StartsOver ==
    ASSUME NEW a \in Nat, NEW c, c = Off \/ c = Interval PROVE c # Off => a + c >= Interval
BY DelayFacts

LEMMA QuietInductive ==
    ASSUME TypeOK, HoldInv, QuietInv, [Next]_vars PROVE QuietInv'
<1> USE DelayFacts
<1>0. talked \in 0 .. Due /\ chainLeft \in -1 .. Interval
  BY DEF TypeOK, HistoryTyped, BeatTyped, Counts
<1>1. CASE \E t \in Tasks : Call(t)
  <2>1. PICK t \in Tasks : Call(t)
    BY <1>1
  <2>2. UNCHANGED <<talked, timing, beatLink, beatStale>> /\ (beat' # "created" \/ beat = "created")
    BY <2>1 DEF Call, CancelBeat
  <2>3. /\ chainLeft' \in {Off, chainLeft} /\ (link' = 0 \/ UNCHANGED <<link, session>>)
        /\ (holder' \in Tasks /\ opSent') => (holder \in Tasks /\ opSent)
    BY <2>1 DEF Call, Starts, LinkEnds, chainVars, opVars
  <2> QED
    BY <2>2, <2>3, NothingSaid
<1>2. CASE Wake
  <2>1. UNCHANGED <<talked, timing, beatLink, beatStale, beat>>
    BY <1>2 DEF Wake, beatVars
  <2>2. /\ chainLeft' \in {Off, chainLeft} /\ (link' = 0 \/ UNCHANGED <<link, session>>)
        /\ (holder' \in Tasks /\ opSent') => (holder \in Tasks /\ opSent)
    BY <1>2 DEF Wake, Starts, IdleHasLock, LinkEnds, chainVars, opVars
  <2> QED
    BY <2>1, <2>2, NothingSaid
<1>3. CASE \E g \in idleTasks : IdleStarts(g)
  <2>1. PICK g \in idleTasks : IdleStarts(g)
    BY <1>3
  <2>2. UNCHANGED <<talked, timing, beatLink, beatStale>> /\ (beat' # "created" \/ beat = "created")
    BY <2>1 DEF IdleStarts, CancelBeat, callVars
  <2>3. /\ chainLeft' \in {Off, chainLeft} /\ (link' = 0 \/ UNCHANGED <<link, session>>)
        /\ (holder' \in Tasks /\ opSent') => (holder \in Tasks /\ opSent)
    BY <2>1 DEF IdleStarts, IdleHasLock, LinkEnds, chainVars, opVars
  <2> QED
    BY <2>2, <2>3, NothingSaid
<1>4. CASE \E t \in Tasks : OpTearsDown(t)
  <2>1. PICK t \in Tasks : OpTearsDown(t)
    BY <1>4
  <2>2. /\ UNCHANGED <<talked, timing, beatLink, beatStale, beat, holder, opSent>>
        /\ link' = 0 /\ chainLeft' = Off
    BY <2>1 DEF OpTearsDown, LinkEnds, callVars, lockVars, beatVars
  <2> QED
    BY <2>2, NothingSaid
<1>5. CASE OnDisconnect
  <2>2. /\ UNCHANGED <<talked, timing, beatLink, beatStale, beat, holder, opSent>>
        /\ link' = 0 /\ chainLeft' = Off
    BY <1>5 DEF OnDisconnect, LinkEnds, callVars, lockVars, beatVars, opVars
  <2> QED
    BY <2>2, NothingSaid
<1>6. CASE \E t \in Tasks : CancelWaiting(t) \/ OpEnsures(t)
  <2>1. PICK t \in Tasks : CancelWaiting(t) \/ OpEnsures(t)
    BY <1>6
  <2>2. UNCHANGED <<talked, timing, beatLink, beatStale, beat, holder, opSent, link, session, chainLeft>>
    BY <2>1, Zenon DEF CancelWaiting, OpEnsures, callVars, lockVars, beatVars, opVars, linkVars, chainVars, history
  <2> QED
    BY <2>2, NothingSaid
<1>7. CASE IdleFired \/ IdleEnds \/ HoldHeartbeat \/ BeatEnds \/ LinkDrops \/ UNCHANGED vars
  <2>1. /\ UNCHANGED <<talked, timing, beatLink, beatStale, opSent, link, session, chainLeft>>
        /\ beat' # "created" \/ beat = "created"
        /\ holder' \in {holder, "free"}
    BY <1>7 DEF IdleFired, IdleEnds, HoldHeartbeat, BeatEnds, LinkDrops, vars,
       callVars, lockVars, beatVars, opVars, linkVars, chainVars, history
  <2> QED
    BY <2>1, NothingSaid
<1>8. CASE BeatStarts
  <2>1. /\ UNCHANGED <<talked, timing, beatLink, beatStale, opSent, link, session, chainLeft>>
        /\ beat' # "created" /\ holder' \in {holder, "beat"}
    BY <1>8 DEF BeatStarts, callVars, lockVars, opVars, linkVars, chainVars
  <2> QED
    BY <2>1, NothingSaid
<1>9. CASE \E t \in Tasks : OpConnects(t)
  <2>1. PICK t \in Tasks : OpConnects(t)
    BY <1>9
  <2>2. UNCHANGED <<talked, timing, beatLink, beatStale, beat, opSent, holder, chainLeft>> /\ link' = links + 1
    BY <2>1 DEF OpConnects, callVars, lockVars, opVars, beatVars, chainVars, history
  <2>3. beatLink' # link'
    BY <2>2 DEF TypeOK, LinkTyped
  <2> QED
    BY <2>2, <2>3 DEF QuietInv
<1>10. CASE \E t \in Tasks : OpReady(t)
  <2>1. PICK t \in Tasks : OpReady(t)
    BY <1>10
  <2>2. /\ UNCHANGED <<talked, timing, beatLink, beatStale, beat, opSent, holder, chainLeft, link>>
        /\ link # 0 /\ session # "ready"
    BY <2>1 DEF OpReady, callVars, lockVars, opVars, beatVars, chainVars, history
  <2> QED
    BY <2>2 DEF QuietInv
<1>11. CASE \E t \in Tasks : OpSetUp(t)
  <2>1. PICK t \in Tasks : OpSetUp(t)
    BY <1>11
  <2>2. /\ UNCHANGED <<beatLink, beat, link, timing>> /\ beatStale' /\ link # 0 /\ session # "ready"
        /\ talked' = 0
    BY <2>1 DEF OpSetUp, callVars
  <2>3. chainLeft' \in {Off, Interval}
    BY <2>1 DEF OpSetUp, Arm
  <2>4. chainLeft' # Off => talked' + chainLeft' >= Interval
    BY <2>2, <2>3, StartsOver
  <2>5. session' = "ready" /\ ~(link # 0 /\ beatLink = link /\ beat = "created")
    BY <2>1, <2>2 DEF QuietInv, OpSetUp
  <2> QED
    BY <2>2, <2>4, <2>5 DEF QuietInv
<1>12. CASE \E t \in Tasks : OpSends(t)
  <2>1. PICK t \in Tasks : OpSends(t)
    BY <1>12
  <2>2. UNCHANGED <<beatLink, beat, link, timing, session, talked, chainLeft>> /\ beatStale' = TRUE
    BY <2>1 DEF OpSends, callVars, linkVars, chainVars, history
  <2> QED
    BY <2>2 DEF QuietInv
<1>13. CASE \E t \in Tasks : OpEnds(t)
  <2>1. PICK t \in Tasks : OpEnds(t)
    BY <1>13
  <2>2. /\ UNCHANGED <<beatLink, beatStale, beat, link, timing, session, opSent>>
        /\ holder = t /\ holder' = "free"
    BY <2>1 DEF OpEnds, callVars, linkVars, beatVars, opVars
  <2>3. CASE timing = "after_quiet" /\ opSent /\ talked' = 0 /\ ~Tears(t)
    <3>0. (chainLeft' = chainLeft /\ chainLeft = Off) \/ Arm(link)
      BY <2>1, <2>3 DEF OpEnds, RestartsChain, chainVars, Tears
    <3>1. chainLeft' \in {Off, Interval}
      BY <3>0 DEF Arm
    <3>2. chainLeft' # Off => talked' + chainLeft' >= Interval
      BY <2>3, <3>1, StartsOver
    <3>3. beat = "created" => beatStale
      BY <2>2, <2>3 DEF QuietInv
    <3>4. beat = "created" /\ link # 0 /\ beatLink = link => session = "ready"
      BY DEF QuietInv
    <3> QED
      BY <2>2, <2>3, <3>2, <3>3, <3>4 DEF QuietInv
  <2>4. CASE UNCHANGED <<talked, chainLeft>>
    BY <2>2, <2>4, NothingSaid
  <2> QED
    BY <2>1, <2>3, <2>4 DEF OpEnds, RestartsChain, chainVars, Tears
<1>14. CASE HeartbeatFired
  <2>1. UNCHANGED <<holder, opSent, link, session, talked, timing>> /\ chainLeft = 0
    BY <1>14 DEF HeartbeatFired, callVars, lockVars, opVars, linkVars, history
  <2>2. talked >= Interval
    BY <1>0, <2>1 DEF QuietInv
  <2>3. chainLeft' \in {Off, Interval}
    BY <1>14 DEF HeartbeatFired
  <2>9. chainLeft' # Off => talked' + chainLeft' >= Interval
    <3>1. talked' \in Nat /\ (chainLeft' = Off \/ chainLeft' = Interval)
      BY <1>0, <2>1, <2>3
    <3> QED
      BY <3>1, StartsOver
  <2>4. CASE UNCHANGED beatVars
    BY <2>1, <2>9, <2>4 DEF QuietInv, beatVars
  <2>5. CASE ~UNCHANGED beatVars
    <3>1. IsConnected /\ holder = "free"
      BY <1>14, <2>5 DEF HeartbeatFired, LinkBusy
    <3>2. session = "ready"
      BY <3>1 DEF IsConnected, HoldInv, SessionDone
    <3> QED
      BY <2>1, <2>2, <2>9, <3>1, <3>2 DEF QuietInv
  <2> QED
    BY <2>4, <2>5
<1>15. CASE Tick
  <2>1. /\ UNCHANGED <<holder, opSent, link, session, timing, beat, beatLink, beatStale>>
        /\ chainLeft # 0 /\ chainLeft' = (IF chainLeft = Off THEN Off ELSE chainLeft - 1)
        /\ talked' = Older(talked, Due) /\ beat # "created"
    BY <1>15 DEF Tick, NothingDue, callVars, lockVars, linkVars
  <2>2. talked' \in 0 .. Due /\ (talked' = talked + 1 \/ talked' = Due)
    BY <1>0, <2>1, OlderGrows
  <2>3. ASSUME chainLeft' # Off PROVE talked' + chainLeft' >= Interval
    <3>1. chainLeft # Off /\ chainLeft >= 1 /\ chainLeft' = chainLeft - 1
      BY <1>0, <2>1, <2>3
    <3>2. talked + chainLeft >= Interval
      BY <3>1 DEF QuietInv
    <3>3. talked \in Int /\ talked' \in Int /\ chainLeft \in Int /\ Due \in Int /\ Interval \in Int /\ Interval <= Due
      BY <1>0, <2>2
    <3> QED
      BY <2>2, <3>1, <3>2, <3>3, SumHolds
  <2> QED
    BY <2>1, <2>3 DEF QuietInv
<1> QED
  BY <1>1, <1>2, <1>3, <1>4, <1>5, <1>6, <1>7, <1>8, <1>9, <1>10, <1>11, <1>12, <1>13, <1>14, <1>15 DEF Next

-----------------------------------------------------------------------------
(* ... and never a longer silence.                                         *)

\* A link that is busy is not silent.
HeldSilent == holder \in Tasks \/ holds => silent = 0

LEMMA HeldSilentInductive ==
    ASSUME TypeOK, HeldSilent, [Next]_vars PROVE HeldSilent'
<1> USE DelayFacts
<1>1. CASE UNCHANGED <<holder, holds, silent>>
  BY <1>1 DEF HeldSilent
<1>2. CASE silent' = 0
  BY <1>2 DEF HeldSilent
<1>3. CASE \E t \in Tasks : Call(t)
  <2>1. silent' = 0
    BY <1>3 DEF Call, Starts
  <2> QED
    BY <2>1 DEF HeldSilent
<1>4. CASE \E t \in Tasks : OpEnds(t)
  <2>1. silent' = 0
    BY <1>4 DEF OpEnds
  <2> QED
    BY <2>1 DEF HeldSilent
<1>5. CASE Wake
  <2>1. UNCHANGED holds /\ (silent' = 0 \/ (silent' = silent /\ holder' \in {"free", "idle"}))
    BY <1>5 DEF Wake, Starts, IdleHasLock
  <2> QED
    BY <2>1 DEF HeldSilent
<1>6. CASE \E g \in idleTasks : IdleStarts(g)
  <2>1. UNCHANGED <<holds, silent>> /\ holder' \in {"free", "idle", holder}
    BY <1>6 DEF IdleStarts, IdleHasLock
  <2> QED
    BY <2>1 DEF HeldSilent
<1>7. CASE BeatStarts \/ BeatEnds \/ IdleEnds
  <2>1. UNCHANGED holds /\ (silent' = 0 \/ (silent' = silent /\ holder' \in {"free", holder}))
    BY <1>7 DEF BeatStarts, BeatEnds, IdleEnds, history
  <2> QED
    BY <2>1 DEF HeldSilent
<1>8. CASE Tick
  <2>1. UNCHANGED <<holder, holds>> /\ (holds \/ holder \in Tasks => silent' = 0)
    BY <1>8 DEF Tick, lockVars
  <2> QED
    BY <2>1 DEF HeldSilent
<1>9. CASE (\E t \in Tasks : CancelWaiting(t) \/ OpEnsures(t) \/ OpConnects(t) \/ OpReady(t) \/ OpSetUp(t)
              \/ OpSends(t) \/ OpTearsDown(t))
           \/ IdleFired \/ HeartbeatFired \/ LinkDrops \/ OnDisconnect \/ UNCHANGED vars
  <2>1. UNCHANGED <<holder, holds, silent>>
    BY <1>9, Zenon DEF CancelWaiting, OpEnsures, OpConnects, OpReady, OpSetUp, OpSends, OpTearsDown, IdleFired,
       HeartbeatFired, LinkDrops, OnDisconnect, vars, lockVars, history
  <2> QED
    BY <2>1, <1>1
<1>10. CASE HoldHeartbeat
  BY <1>10, <1>2 DEF HoldHeartbeat
<1> QED
  BY <1>3, <1>4, <1>5, <1>6, <1>7, <1>8, <1>9, <1>10 DEF Next

\* A beat is over before the next tick.
ChainAhead ==
    beat # "none" /\ chainLeft # Off =>
        /\ chainLeft > 0
        /\ beat = "writing" => chainLeft > beatLeft
        /\ beat = "created" => chainLeft = Interval

\* The beat is none, or cancelled, or the one it was, and its chain is as it was, off or started over.
LEMMA ChainStays ==
    ASSUME TypeOK, ChainAhead, beat' \in {beat, "none", "cancelled"}, beat = "none" => beat' = "none",
           UNCHANGED beatLeft, chainLeft' = chainLeft \/ chainLeft' = Off \/ chainLeft' = Interval
    PROVE  ChainAhead'
<1>1. beatLeft \in 0 .. WriteBound /\ Interval > WriteBound /\ Interval > 0 /\ Interval \in Nat /\ WriteBound \in Nat
  BY LinkTimersAssumption DEF TypeOK, BeatTyped
<1>2. CASE chainLeft' = Off
  BY <1>2 DEF ChainAhead
<1>3. CASE chainLeft' = Interval
  BY <1>1, <1>3 DEF ChainAhead
<1>4. CASE chainLeft' = chainLeft
  BY <1>4, Zenon DEF ChainAhead
<1> QED
  BY <1>2, <1>3, <1>4

LEMMA ChainAheadInductive ==
    ASSUME TypeOK, ChainAhead, [Next]_vars PROVE ChainAhead'
<1> USE DelayFacts
<1>0. beatLeft \in 0 .. WriteBound /\ Interval > WriteBound /\ chainLeft \in -1 .. Interval
  BY LinkTimersAssumption DEF TypeOK, BeatTyped, Counts
<1>1. CASE \E t \in Tasks : Call(t)
  <2>1. PICK t \in Tasks : Call(t)
    BY <1>1
  <2>2. /\ beat' \in {beat, "cancelled"} /\ (beat = "none" => beat' = "none") /\ UNCHANGED beatLeft
    BY <2>1 DEF Call, CancelBeat
  <2>3. chainLeft' = chainLeft \/ chainLeft' = Off
    BY <2>1 DEF Call, Starts, LinkEnds, chainVars
  <2> QED
    BY <2>2, <2>3, ChainStays
<1>2. CASE Wake \/ \E t \in Tasks : OpTearsDown(t)
  <2>1. UNCHANGED <<beat, beatLeft>> /\ (chainLeft' = chainLeft \/ chainLeft' = Off)
    BY <1>2 DEF Wake, Starts, IdleHasLock, LinkEnds, OpTearsDown, chainVars, beatVars
  <2> QED
    BY <2>1, ChainStays
<1>3. CASE \E g \in idleTasks : IdleStarts(g)
  <2>1. PICK g \in idleTasks : IdleStarts(g)
    BY <1>3
  <2>2. beat' \in {beat, "cancelled"} /\ (beat = "none" => beat' = "none") /\ UNCHANGED beatLeft
    BY <2>1 DEF IdleStarts, CancelBeat
  <2>3. chainLeft' = chainLeft \/ chainLeft' = Off
    BY <2>1 DEF IdleStarts, IdleHasLock, LinkEnds, chainVars
  <2> QED
    BY <2>2, <2>3, ChainStays
<1>4. CASE \E t \in Tasks : OpSetUp(t) \/ OpEnds(t)
  <2>1. PICK t \in Tasks : OpSetUp(t) \/ OpEnds(t)
    BY <1>4
  <2>2. UNCHANGED <<beat, beatLeft>>
    BY <2>1 DEF OpSetUp, OpEnds, beatVars
  <2>3. Arm(link) \/ UNCHANGED chainVars
    BY <2>1 DEF OpSetUp, OpEnds
  <2>4. chainLeft' = chainLeft \/ chainLeft' = Off \/ chainLeft' = Interval
    BY <2>3 DEF Arm, chainVars
  <2> QED
    BY <2>2, <2>4, ChainStays
<1>5. CASE HeartbeatFired
  <2>1. chainLeft = 0 /\ (chainLeft' = Off \/ chainLeft' = Interval)
    BY <1>5 DEF HeartbeatFired
  <2>2. beat = "none"
    BY <2>1 DEF ChainAhead
  <2>3. beat' \in {"none", "created"}
    BY <1>5, <2>2 DEF HeartbeatFired, beatVars
  <2> QED
    BY <1>0, <2>1, <2>3 DEF ChainAhead
<1>6. CASE BeatStarts
  <2>1. beat = "created" /\ UNCHANGED chainLeft
    BY <1>6 DEF BeatStarts, chainVars
  <2>2. chainLeft \in {Off, Interval}
    BY <2>1 DEF ChainAhead
  <2>3. beat' = "none" \/ (beat' = "writing" /\ beatLeft' = WriteBound)
    BY <1>6 DEF BeatStarts
  <2> QED
    BY <1>0, <2>1, <2>2, <2>3 DEF ChainAhead
<1>7. CASE BeatEnds \/ OnDisconnect
  <2>1. beat' \in {beat, "none"} /\ UNCHANGED beatLeft /\ (chainLeft' = chainLeft \/ chainLeft' = Off)
    BY <1>7 DEF BeatEnds, OnDisconnect, LinkEnds, chainVars, beatVars
  <2> QED
    BY <2>1, ChainStays
<1>8. CASE Tick
  <2>1. /\ beat' = beat /\ beat \notin {"created", "cancelled"} /\ chainLeft # 0
        /\ chainLeft' = (IF chainLeft = Off THEN Off ELSE chainLeft - 1)
        /\ beat = "writing" => beatLeft > 0 /\ beatLeft' = beatLeft - 1
    BY <1>8 DEF Tick, NothingDue
  <2>2. beat \in {"none", "writing"}
    BY <2>1 DEF TypeOK, BeatTyped
  <2>3. ASSUME beat = "writing", chainLeft # Off PROVE chainLeft' > 0 /\ chainLeft' > beatLeft'
    <3>1. chainLeft > beatLeft
      BY <2>3 DEF ChainAhead
    <3>2. beatLeft > 0 /\ beatLeft' = beatLeft - 1 /\ chainLeft' = chainLeft - 1
      BY <2>1, <2>3
    <3> QED
      BY <1>0, <3>1, <3>2
  <2>4. chainLeft' # Off => chainLeft # Off
    BY <2>1
  <2> QED
    BY <2>1, <2>2, <2>3, <2>4 DEF ChainAhead
<1>9. CASE (\E t \in Tasks : CancelWaiting(t) \/ OpEnsures(t) \/ OpConnects(t) \/ OpReady(t) \/ OpSends(t))
           \/ IdleFired \/ IdleEnds \/ HoldHeartbeat \/ LinkDrops \/ UNCHANGED vars
  <2>1. UNCHANGED <<beat, beatLeft, chainLeft>>
    BY <1>9, Zenon DEF CancelWaiting, OpEnsures, OpConnects, OpReady, OpSends, IdleFired, IdleEnds,
       HoldHeartbeat, LinkDrops, vars, chainVars, beatVars
  <2> QED
    BY <2>1, Zenon DEF ChainAhead
<1> QED
  BY <1>1, <1>2, <1>3, <1>4, <1>5, <1>6, <1>7, <1>8, <1>9 DEF Next

\* Nobody waits for a free lock through a tick, unless he came with a call.
WaitSilent == holder = "free" /\ waiters # <<>> /\ chainLeft = 0 => silent = 0

LEMMA WaitSilentInductive ==
    ASSUME TypeOK, HoldInv, ChainAhead, WaitSilent, [Next]_vars PROVE WaitSilent'
<1> USE DelayFacts
<1>1. CASE \E t \in Tasks : Call(t) \/ OpEnds(t)
  <2>1. silent' = 0
    BY <1>1 DEF Call, Starts, OpEnds
  <2> QED
    BY <2>1 DEF WaitSilent
<1>2. CASE Wake
  <2>1. holder = "free" /\ waiters # <<>>
    BY <1>2 DEF Wake
  <2>2. silent' = 0 \/ (silent' = silent /\ (chainLeft' = chainLeft \/ chainLeft' = Off))
    BY <1>2 DEF Wake, Starts, IdleHasLock, LinkEnds, chainVars
  <2> QED
    BY <2>1, <2>2 DEF WaitSilent
<1>3. CASE \E g \in idleTasks : IdleStarts(g)
  <2>1. PICK g \in idleTasks : IdleStarts(g)
    BY <1>3
  <2>2. UNCHANGED silent
    BY <2>1 DEF IdleStarts
  <2>3. CASE holder = "free" /\ waiters = <<>> /\ UNCHANGED waiters
    BY <2>3 DEF WaitSilent
  <2>4. CASE ~(holder = "free" /\ waiters = <<>>)
    <3>1. UNCHANGED <<holder, chainVars>>
      BY <2>1, <2>4 DEF IdleStarts
    <3> QED
      BY <2>2, <2>4, <3>1 DEF WaitSilent, chainVars
  <2> QED
    BY <2>1, <2>3, <2>4 DEF IdleStarts
<1>4. CASE IdleEnds
  <2>1. chainLeft' = Off
    BY <1>4 DEF IdleEnds, chainVars, HoldInv, TornDown
  <2> QED
    BY <2>1 DEF WaitSilent
<1>5. CASE HeartbeatFired
  <2>1. chainLeft' # 0
    BY <1>5 DEF HeartbeatFired
  <2> QED
    BY <2>1 DEF WaitSilent
<1>6. CASE BeatStarts
  <2>1. silent' = 0 \/ UNCHANGED <<holder, waiters, chainLeft, silent>>
    BY <1>6 DEF BeatStarts, chainVars
  <2> QED
    BY <2>1 DEF WaitSilent
<1>7. CASE BeatEnds
  <2>1. beat # "none" /\ UNCHANGED chainLeft
    BY <1>7 DEF BeatEnds, chainVars
  <2>2. chainLeft' # 0
    BY <2>1 DEF ChainAhead
  <2> QED
    BY <2>2 DEF WaitSilent
<1>8. CASE Tick
  <2>1. UNCHANGED <<holder, waiters>> /\ (holder = "free" => waiters = <<>>)
    BY <1>8 DEF Tick, NothingDue, lockVars
  <2> QED
    BY <2>1 DEF WaitSilent
<1>9. CASE (\E t \in Tasks : OpTearsDown(t) \/ OpSetUp(t)) \/ OnDisconnect
  <2>1. /\ UNCHANGED <<holder, waiters, silent>>
        /\ (\E t \in Tasks : holder = t) \/ chainLeft' = Off
    BY <1>9 DEF OpTearsDown, OpSetUp, Operates, OnDisconnect, LinkEnds, lockVars
  <2> QED
    BY <2>1 DEF WaitSilent
<1>10. CASE \E t \in Tasks : CancelWaiting(t)
  <2>1. UNCHANGED <<holder, silent, chainLeft>>
    BY <1>10 DEF CancelWaiting, chainVars, history
  <2>2. waiters # <<>>
    BY <1>10 DEF CancelWaiting
  <2> QED
    BY <2>1, <2>2 DEF WaitSilent
<1>11. CASE (\E t \in Tasks : OpEnsures(t) \/ OpConnects(t) \/ OpReady(t) \/ OpSends(t))
           \/ IdleFired \/ LinkDrops \/ UNCHANGED vars
  <2>1. UNCHANGED <<holder, waiters, chainLeft, silent>>
    BY <1>11, Zenon DEF OpEnsures, OpConnects, OpReady, OpSends, IdleFired, LinkDrops, vars, lockVars,
       chainVars, history
  <2> QED
    BY <2>1 DEF WaitSilent
<1>12. CASE HoldHeartbeat
  BY <1>12 DEF HoldHeartbeat, WaitSilent
<1> QED
  BY <1>1, <1>2, <1>3, <1>4, <1>5, <1>6, <1>7, <1>8, <1>9, <1>10, <1>11, <1>12 DEF Next

Usable == link # 0 /\ linkUp /\ session = "ready" /\ ~closed

\* The tick has just come, and nothing has happened since.
Pending ==
    /\ beat = "created" /\ beatLink = link /\ ~beatStale /\ silent <= Interval
    /\ holder = "free" /\ waiters = <<>> /\ ~holds

Alive ==
    Usable => chainLink = link /\ chainLeft # Off /\ (silent + chainLeft <= Interval \/ Pending)

\* A step of a link that is in use.
LEMMA AliveBusy ==
    ASSUME TypeOK', Alive, Usable' => Usable, UNCHANGED <<link, chainVars>>, silent' = 0
    PROVE  Alive'
<1>1. chainLeft' \in -1 .. Interval /\ Interval \in Nat
  BY DelayFacts DEF TypeOK, BeatTyped, Counts
<1>2. ASSUME NEW c \in -1 .. Interval PROVE 0 + c <= Interval
  BY <1>1
<1>3. 0 + chainLeft' <= Interval
  BY <1>1, <1>2, Zenon
<1> QED
  BY <1>3 DEF Alive, chainVars

\* A step that does not concern a beat.
LEMMA AliveAside ==
    ASSUME Alive, Usable' => Usable, UNCHANGED <<link, chainVars, silent>>, Pending => Pending'
    PROVE  Alive'
BY Zenon DEF Alive, chainVars

LEMMA AliveOver ==
    ASSUME ~Usable' PROVE Alive'
BY DEF Alive

LEMMA AliveArmed ==
    ASSUME link' # 0, UNCHANGED link, ~closed, Arm(link), silent' = 0 PROVE Alive'
<1>1. chainLink' = link' /\ chainLeft' = Interval /\ Interval \in Nat
  BY DelayFacts DEF Arm
<1>2. silent' + chainLeft' <= Interval /\ chainLeft' # Off
  BY <1>1, DelayFacts
<1> QED
  BY <1>1, <1>2 DEF Alive

LEMMA StartsAlive ==
    ASSUME TypeOK', Alive, NEW t \in Tasks, Starts(t), closed => closed'
    PROVE  Alive'
<1>1. CASE LinkEnds
  BY <1>1, AliveOver DEF LinkEnds, Usable
<1>2. CASE UNCHANGED <<link, session, linkUp, chainVars>>
  <2>1. silent' = 0
    BY DEF Starts
  <2>2. Usable' => Usable
    BY <1>2 DEF Usable
  <2> QED
    BY <1>2, <2>1, <2>2, AliveBusy
<1> QED
  BY <1>1, <1>2 DEF Starts

LEMMA OpAlive ==
    ASSUME TypeOK, TypeOK', HeldSilent, Alive, NEW t \in Tasks,
           OpEnsures(t) \/ OpConnects(t) \/ OpReady(t) \/ OpSetUp(t) \/ OpSends(t) \/ OpTearsDown(t) \/ OpEnds(t)
    PROVE  Alive'
<1>1. holder = t /\ ~Pending /\ silent = 0 /\ UNCHANGED closed
  BY DelayFacts DEF OpEnsures, OpConnects, OpReady, OpSetUp, OpSends, OpTearsDown, OpEnds, Operates, Pending, HeldSilent
<1>2. CASE OpEnsures(t) \/ OpSends(t)
  <2>1. UNCHANGED <<link, linkUp, session, chainVars, silent>>
    BY <1>2, Zenon DEF OpEnsures, OpSends, linkVars, history
  <2>2. Usable' => Usable
    BY <1>1, <2>1 DEF Usable
  <2> QED
    BY <1>1, <2>1, <2>2, AliveAside
<1>3. CASE OpConnects(t) \/ OpReady(t) \/ OpTearsDown(t)
  <2>1. link' = 0 \/ session' # "ready"
    BY <1>3 DEF OpConnects, OpReady, OpTearsDown, LinkEnds
  <2> QED
    BY <2>1, AliveOver DEF Usable
<1>4. CASE OpSetUp(t)
  <2>1. link' # 0 /\ UNCHANGED <<link, silent>> /\ Arm(link)
    BY <1>4 DEF OpSetUp
  <2> QED
    BY <1>1, <2>1, AliveArmed, AliveOver DEF Usable
<1>5. CASE OpEnds(t)
  <2>1. UNCHANGED <<link, linkUp, session>> /\ silent' = 0 /\ (Arm(link) \/ UNCHANGED chainVars)
    BY <1>5 DEF OpEnds, linkVars
  <2>2. Usable' => Usable
    BY <1>1, <2>1 DEF Usable
  <2>3. CASE UNCHANGED chainVars
    BY <2>1, <2>2, <2>3, AliveBusy
  <2>4. CASE Arm(link) /\ Usable
    BY <2>1, <2>4, AliveArmed DEF Usable
  <2> QED
    BY <2>1, <2>2, <2>3, <2>4, AliveOver
<1> QED
  BY <1>2, <1>3, <1>4, <1>5

LEMMA WakeAlive ==
    ASSUME TypeOK, TypeOK', Alive, Wake PROVE Alive'
<1>1. ~Pending /\ UNCHANGED closed
  BY DEF Wake, Pending
<1>2. CASE Head(waiters).who # "idle"
  <2>1. Head(waiters).who \in Tasks /\ Starts(Head(waiters).who)
    BY <1>2, WakeHeads DEF Wake
  <2> QED
    BY <1>1, <2>1, StartsAlive
<1>3. CASE Head(waiters).who = "idle"
  <2>1. IdleHasLock(Head(waiters).gen) /\ UNCHANGED silent
    BY <1>3 DEF Wake
  <2>2. CASE LinkEnds
    BY <2>2, AliveOver DEF LinkEnds, Usable
  <2>3. CASE UNCHANGED <<link, session, linkUp, chainVars>>
    <3>1. Usable' => Usable
      BY <1>1, <2>3 DEF Usable
    <3> QED
      BY <1>1, <2>1, <2>3, <3>1, AliveAside
  <2> QED
    BY <2>1, <2>2, <2>3 DEF IdleHasLock
<1> QED
  BY <1>2, <1>3

LEMMA IdleStartsAlive ==
    ASSUME TypeOK, Alive, NEW g \in idleTasks, IdleStarts(g) PROVE Alive'
<1>1. UNCHANGED <<closed, silent, beatLink, beatStale, holds>>
  BY DEF IdleStarts
<1>2. CASE LinkEnds
  BY <1>2, AliveOver DEF LinkEnds, Usable
<1>3. CASE UNCHANGED <<link, session, linkUp, chainVars>> /\ ~LinkEnds
  <2>1. Usable' => Usable
    BY <1>1, <1>3 DEF Usable
  <2>2. Pending => Pending'
    <3> SUFFICES ASSUME Pending PROVE Pending'
      OBVIOUS
    <3>1. IdleHasLock(g) /\ UNCHANGED waiters
      BY DEF Pending, IdleStarts
    <3>2. holder' = "free" /\ g # generation
      BY <1>3, <3>1 DEF IdleHasLock
    <3>3. UNCHANGED beat
      BY <3>2 DEF IdleStarts
    <3> QED
      BY <1>1, <1>3, <3>1, <3>2, <3>3 DEF Pending
  <2> QED
    BY <1>1, <1>3, <2>1, <2>2, AliveAside
<1> QED
  BY <1>2, <1>3 DEF IdleStarts, IdleHasLock

\* A tick that is dropped finds a link that was busy just now.
LEMMA FiredAlive ==
    ASSUME TypeOK, HoldInv, HeldSilent, ChainAhead, WaitSilent, Alive, HeartbeatFired PROVE Alive'
<1>1. /\ UNCHANGED <<link, linkUp, session, closed, silent, holder, waiters, holds>> /\ chainLeft = 0
  BY DEF HeartbeatFired, lockVars, linkVars, history
<1>2. beat = "none"
  BY <1>1, DelayFacts DEF ChainAhead
<1> SUFFICES ASSUME Usable' PROVE Alive'
  BY AliveOver
<1>3. Usable /\ ~Pending /\ IsConnected /\ chainLink = link
  BY <1>1, <1>2 DEF Usable, Pending, IsConnected, Alive
<1>4. silent \in Nat /\ silent <= Interval
  <2>1. silent \in 0 .. Due
    BY DEF TypeOK, HistoryTyped
  <2>2. silent + chainLeft <= Interval
    BY <1>3 DEF Alive
  <2> QED
    BY <1>1, <2>1, <2>2, DelayFacts
<1>5. chainLeft' = Interval /\ chainLink' = link' /\ Interval # Off
  BY <1>1, <1>3, DelayFacts DEF HeartbeatFired, Usable
<1>6. CASE LinkBusy(FALSE)
  <2>1. silent = 0
    <3>1. CASE holds \/ holder \in Tasks
      BY <3>1 DEF HeldSilent
    <3>2. CASE holder = "free" /\ waiters # <<>>
      BY <1>1, <3>2 DEF WaitSilent
    <3>3. holder \notin {"idle", "beat"}
      BY <1>2, <1>3 DEF HoldInv, TornDown, BeatHolds, Usable
    <3> QED
      BY <1>6, <3>1, <3>2, <3>3 DEF LinkBusy, TypeOK, CallsTyped
  <2>2. silent' + chainLeft' <= Interval
    BY <1>1, <1>5, <2>1, DelayFacts
  <2> QED
    BY <1>5, <2>2 DEF Alive
<1>7. CASE ~LinkBusy(FALSE)
  <2>1. beat' = "created" /\ beatLink' = chainLink /\ beatStale' = FALSE
    BY <1>1, <1>2, <1>3, <1>7 DEF HeartbeatFired, LinkBusy, Usable
  <2>2. Pending'
    BY <1>1, <1>3, <1>4, <1>7, <2>1 DEF Pending, LinkBusy
  <2> QED
    BY <1>5, <2>2 DEF Alive
<1> QED
  BY <1>6, <1>7

LEMMA AliveInductive ==
    ASSUME TypeOK, TypeOK', HoldInv, HeldSilent, ChainAhead, WaitSilent, Alive, [Next]_vars PROVE Alive'
<1>1. CASE \E t \in Tasks : Call(t)
  <2>1. PICK t \in Tasks : Call(t)
    BY <1>1
  <2>2. closed => closed'
    BY <2>1 DEF Call
  <2>3. CASE Starts(t)
    BY <2>2, <2>3, StartsAlive
  <2>4. CASE ~Starts(t)
    <3>1. /\ silent' = 0 /\ UNCHANGED <<link, session, linkUp, chainLink>>
          /\ chainLeft' = (IF kind[t] = "close" THEN Off ELSE chainLeft)
      BY <2>1, <2>4 DEF Call
    <3>2. CASE kind[t] = "close"
      <4>1. closed'
        BY <2>1, <3>2 DEF Call
      <4> QED
        BY <4>1, AliveOver DEF Usable
    <3>3. CASE kind[t] # "close"
      <4>1. Usable' => Usable
        BY <2>2, <3>1 DEF Usable
      <4> QED
        BY <3>1, <3>3, <4>1, AliveBusy DEF chainVars
    <3> QED
      BY <3>2, <3>3
  <2> QED
    BY <2>3, <2>4
<1>2. CASE \E t \in Tasks : OpEnsures(t) \/ OpConnects(t) \/ OpReady(t) \/ OpSetUp(t) \/ OpSends(t)
              \/ OpTearsDown(t) \/ OpEnds(t)
  BY <1>2, OpAlive
<1>3. CASE Wake
  BY <1>3, WakeAlive
<1>4. CASE \E g \in idleTasks : IdleStarts(g)
  BY <1>4, IdleStartsAlive
<1>5. CASE HeartbeatFired
  BY <1>5, FiredAlive
<1>6. CASE (\E t \in Tasks : CancelWaiting(t)) \/ IdleFired \/ IdleEnds \/ BeatEnds \/ UNCHANGED vars
  <2>1. UNCHANGED <<link, session, linkUp, closed, chainVars, silent>>
    BY <1>6, Zenon DEF CancelWaiting, IdleFired, IdleEnds, BeatEnds, vars, linkVars, history
  <2>2. Usable' => Usable
    BY <2>1 DEF Usable
  <2>3. CASE IdleFired \/ UNCHANGED vars
    <3>1. UNCHANGED <<beatVars, silent, lockVars, holds>>
      BY <2>3, Zenon DEF IdleFired, vars, history
    <3>2. Pending => Pending'
      BY <2>1, <3>1 DEF Pending, beatVars, lockVars
    <3> QED
      BY <2>1, <2>2, <3>2, AliveAside
  <2>4. CASE (\E t \in Tasks : CancelWaiting(t)) \/ IdleEnds \/ BeatEnds
    <3>1. ~Pending
      BY <2>4 DEF CancelWaiting, IdleEnds, BeatEnds, Pending
    <3> QED
      BY <2>1, <2>2, <3>1, AliveAside
  <2> QED
    BY <1>6, <2>3, <2>4
<1>7. CASE HoldHeartbeat
  <2>1. UNCHANGED <<link, session, linkUp, closed, chainVars>> /\ silent' = 0
    BY <1>7 DEF HoldHeartbeat, linkVars
  <2>2. Usable' => Usable
    BY <2>1 DEF Usable
  <2> QED
    BY <2>1, <2>2, AliveBusy
<1>8. CASE BeatStarts
  <2>1. UNCHANGED <<link, session, linkUp, closed, chainVars>>
    BY <1>8 DEF BeatStarts, linkVars
  <2>2. Usable' => Usable
    BY <2>1 DEF Usable
  <2>3. CASE silent' = 0
    BY <2>1, <2>2, <2>3, AliveBusy
  <2>4. CASE silent' # 0 /\ Usable
    <3>1. BeatDropped /\ UNCHANGED silent
      BY <1>8, <2>4 DEF BeatStarts
    <3>2. ~Pending
      BY <2>4, <3>1 DEF Pending, BeatDropped, LinkBusy, IsConnected, Usable
    <3> QED
      BY <2>1, <2>2, <3>1, <3>2, AliveAside
  <2> QED
    BY <2>2, <2>3, <2>4, AliveOver
<1>9. CASE LinkDrops \/ OnDisconnect
  BY <1>9, AliveOver DEF LinkDrops, OnDisconnect, LinkEnds, Usable
<1>10. CASE Tick
  <2>1. /\ UNCHANGED <<link, session, linkUp, closed, chainLink>> /\ ~Pending /\ chainLeft # 0
        /\ silent' = 0 \/ silent' = Older(silent, Due)
    BY <1>10 DEF Tick, NothingDue, Pending, linkVars
  <2> SUFFICES ASSUME Usable' PROVE Alive'
    BY AliveOver
  <2>2. Usable
    BY <2>1 DEF Usable
  <2>3. chainLink = link /\ chainLeft # Off /\ silent + chainLeft <= Interval
    BY <2>1, <2>2 DEF Alive
  <2>4. silent \in 0 .. Due /\ chainLeft \in -1 .. Interval
    BY DelayFacts DEF TypeOK, HistoryTyped, BeatTyped, Counts
  <2>5. chainLeft' = chainLeft - 1 /\ chainLeft >= 1
    BY <1>10, <2>1, <2>3, <2>4, DelayFacts DEF Tick
  <2>6. silent' \in Int /\ silent' <= silent + 1 /\ silent \in Int /\ chainLeft \in Int /\ Interval \in Int
    BY <2>1, <2>4, DelayFacts DEF Older
  <2>7. silent' + (chainLeft - 1) <= Interval
    BY <2>3, <2>6, SumStays
  <2>8. chainLeft' # Off
    BY <2>4, <2>5, DelayFacts
  <2> QED
    BY <2>1, <2>3, <2>5, <2>7, <2>8 DEF Alive
<1> QED
  BY <1>1, <1>2, <1>3, <1>4, <1>5, <1>6, <1>7, <1>8, <1>9, <1>10 DEF Next

-----------------------------------------------------------------------------
LinkInv ==
    /\ HoldInv /\ KeepInv /\ QuietInv
    /\ HeldSilent /\ ChainAhead /\ WaitSilent /\ Alive

LEMMA InitLinked == Init => LinkInv
<1> SUFFICES ASSUME Init PROVE LinkInv
  OBVIOUS
<1>1. HoldInv /\ QuietInv /\ HeldSilent /\ ChainAhead /\ WaitSilent /\ Alive
  BY DelayFacts DEF Init, HoldInv, SessionDone, BeatHolds, TornDown, QuietInv, HeldSilent, ChainAhead,
     WaitSilent, Alive, Usable
<1>2. KeepInv
  BY DEF Init, KeepInv, WindowOver
<1> QED
  BY <1>1, <1>2 DEF LinkInv

LEMMA LinkInductive ==
    ASSUME IInv, LinkInv, [Next]_vars PROVE LinkInv'
<1>1. TypeOK /\ NobodyWaitsForBeat
  BY DEF IInv, IdleInv
<1>2. TypeOK'
  BY <1>1, NextTyped
<1>3. HoldInv'
  BY <1>1, HoldInductive DEF LinkInv
<1>4. KeepInv'
  BY <1>1, KeepInductive DEF LinkInv
<1>5. QuietInv'
  BY <1>1, QuietInductive DEF LinkInv
<1>6. HeldSilent'
  BY <1>1, HeldSilentInductive DEF LinkInv
<1>7. ChainAhead'
  BY <1>1, ChainAheadInductive DEF LinkInv
<1>8. WaitSilent'
  BY <1>1, WaitSilentInductive DEF LinkInv
<1>9. Alive'
  BY <1>1, <1>2, AliveInductive DEF LinkInv
<1> QED
  BY <1>3, <1>4, <1>5, <1>6, <1>7, <1>8, <1>9 DEF LinkInv

\* The links, their chains and the idle disconnects that wait keep the invariant
\* the theorems below follow from.
THEOREM LinksWatched == Spec => []LinkInv
<1>1. Init => LinkInv
  BY InitLinked
<1>2. IInv /\ LinkInv /\ [Next]_vars => LinkInv'
  BY LinkInductive
<1> QED
  BY <1>1, <1>2, Inductive, PTL DEF Spec

\* _schedule_idle_timer: neither the heartbeat nor a timer that was set anew
\* keeps a link that no operation uses past both of its delays.
THEOREM UnusedLinkGoes == Spec => []LinkNotKept
<1>1. IInv /\ LinkInv => LinkNotKept
  <2> SUFFICES ASSUME IInv, LinkInv, link # 0, holder \notin Tasks PROVE quiet <= Idle \/ warmth <= Warm
    BY DEF LinkNotKept
  <2>1. Watched
    BY DEF LinkInv, KeepInv
  <2>2. quiet \in Nat /\ warmth \in Nat /\ idleLeft \in -1 .. Warm /\ Idle \in Nat /\ Warm \in Nat
    BY DelayFacts DEF IInv, IdleInv, TypeOK, HistoryTyped, IdleTyped, Counts
  <2>3. CASE idleLeft # Off /\ Within(idleLeft)
    <3>1. idleLeft \in Nat
      BY <2>2, <2>3, DelayFacts
    <3>2. quiet + idleLeft <= Idle \/ warmth + idleLeft <= Warm
      BY <2>3 DEF Within
    <3> QED
      BY <2>2, <3>1, <3>2
  <2>4. CASE Within(0)
    BY <2>2, <2>4 DEF Within
  <2> QED
    BY <2>1, <2>3, <2>4 DEF Watched
<1> QED
  BY <1>1, Inductive, LinksWatched, PTL

\* _beat and _heartbeat_fired: a beat is written on a link that is set up, an
\* interval after what its timing counts from.
THEOREM BeatsComeAfterQuiet == Spec => BeatAfterQuiet
<1>1. LinkInv /\ [Next]_vars =>
        [beat' = "writing" /\ beat # "writing" => session = "ready" /\ talked >= Interval]_vars
  <2> SUFFICES ASSUME LinkInv, Next, beat' = "writing", beat # "writing"
               PROVE  session = "ready" /\ talked >= Interval
    OBVIOUS
  <2>1. BeatStarts
    BY DEF Next, Call, CancelBeat, CancelWaiting, OpEnsures, OpConnects, OpReady, OpSetUp, OpSends, OpTearsDown, OpEnds,
       Wake, IdleFired, IdleStarts, IdleEnds, HoldHeartbeat, HeartbeatFired, BeatEnds, LinkDrops,
       OnDisconnect, Tick, beatVars
  <2>2. beat = "created" /\ ~BeatDropped
    BY <2>1 DEF BeatStarts
  <2>3. link # 0 /\ beatLink = link /\ ~(timing = "after_quiet" /\ beatStale)
    BY <2>2 DEF BeatDropped, IsConnected
  <2> QED
    BY <2>2, <2>3 DEF LinkInv, QuietInv
<1> QED
  BY <1>1, LinksWatched, PTL DEF Spec, BeatAfterQuiet

\* _heartbeat_fired re-arms the chain before it looks whether the link is busy:
\* no link that is set up and unused goes without a beat for longer than an interval.
THEOREM LinksKeptAlive == Spec => []KeptAlive
<1>1. IInv /\ LinkInv => KeptAlive
  <2> SUFFICES ASSUME IInv, LinkInv, Usable PROVE silent <= Interval
    BY DEF KeptAlive, Usable
  <2>1. silent \in Nat /\ chainLeft \in -1 .. Interval
    BY DelayFacts DEF IInv, IdleInv, TypeOK, HistoryTyped, BeatTyped, Counts
  <2>2. chainLeft # Off /\ (silent + chainLeft <= Interval \/ silent <= Interval)
    BY DEF LinkInv, Alive, Pending
  <2> QED
    BY <2>1, <2>2, DelayFacts
<1> QED
  BY <1>1, Inductive, LinksWatched, PTL
=============================================================================
