--------------------------- MODULE FrameLog_proofs ---------------------------
(***************************************************************************)
(* FrameLog for any captures, paths and bounds: the count flush() reads    *)
(* covers all that is on its way, what is no longer on its way is in its   *)
(* file or lost, and a file holds each capture's lines once and in order,  *)
(* after the check of its directory.                                       *)
(*                                                                         *)
(* What is on its way stands in five stages, one behind the other: the     *)
(* event loop's hand, the queue, what the writer has not looked at, what   *)
(* it has grouped by path, and the file.                                   *)
(***************************************************************************)
EXTENDS FrameLog, SequenceTheorems, TLAPS

Entry == [capture : Captures, line : Nat]

Items(s) == {s[i] : i \in 1 .. Len(s)}

\* Of one capture, the first comes before the second.
Precedes(e, f) == e.capture = f.capture => e.line < f.line
Before(S, T) == \A e \in S, f \in T : Precedes(e, f)
Rising(s) == \A i, j \in 1 .. Len(s) : i < j => Precedes(s[i], s[j])

LEMMA Taken ==
    ASSUME NEW s \in Seq(Entry), s # <<>>
    PROVE  /\ Head(s) \in Entry /\ Tail(s) \in Seq(Entry) /\ Len(Tail(s)) = Len(s) - 1
           /\ Items(s) = {Head(s)} \cup Items(Tail(s))
           /\ Rising(s) => Rising(Tail(s)) /\ Before({Head(s)}, Items(Tail(s)))
<1>1. /\ Len(s) \in Nat \ {0} /\ Tail(s) \in Seq(Entry) /\ Len(Tail(s)) = Len(s) - 1
      /\ Head(s) = s[1] /\ \A i \in 1 .. Len(Tail(s)) : Tail(s)[i] = s[i + 1]
  BY HeadTailProperties, EmptySeq, LenProperties
<1>2. Head(s) \in Entry
  BY <1>1, ElementOfSeq
<1>3. \A i \in 1 .. Len(s) : i = 1 \/ ((i - 1) \in 1 .. Len(Tail(s)) /\ s[i] = Tail(s)[i - 1])
  BY <1>1
<1>4. Items(s) = {Head(s)} \cup Items(Tail(s))
  <2>1. Items(s) \subseteq {Head(s)} \cup Items(Tail(s))
    BY <1>1, <1>3 DEF Items
  <2>2. {Head(s)} \cup Items(Tail(s)) \subseteq Items(s)
    BY <1>1 DEF Items
  <2> QED BY <2>1, <2>2
<1>5. ASSUME Rising(s) PROVE Rising(Tail(s)) /\ Before({Head(s)}, Items(Tail(s)))
  BY <1>1, <1>5 DEF Rising, Before, Items
<1> QED BY <1>1, <1>2, <1>4, <1>5

LEMMA Appended ==
    ASSUME NEW s \in Seq(Entry), NEW e \in Entry
    PROVE  /\ Append(s, e) \in Seq(Entry) /\ Len(Append(s, e)) = Len(s) + 1
           /\ Items(Append(s, e)) = Items(s) \cup {e}
           /\ Rising(s) /\ Before(Items(s), {e}) => Rising(Append(s, e))
<1>1. /\ Len(s) \in Nat /\ Append(s, e) \in Seq(Entry) /\ Len(Append(s, e)) = Len(s) + 1
      /\ \A i \in 1 .. Len(s) : Append(s, e)[i] = s[i]
      /\ Append(s, e)[Len(s) + 1] = e
  BY AppendProperties, LenProperties
<1>2. Items(Append(s, e)) = Items(s) \cup {e}
  <2>1. Items(Append(s, e)) \subseteq Items(s) \cup {e}
    BY <1>1 DEF Items
  <2>2. Items(s) \cup {e} \subseteq Items(Append(s, e))
    BY <1>1 DEF Items
  <2> QED BY <2>1, <2>2
<1>3. ASSUME Rising(s), Before(Items(s), {e}) PROVE Rising(Append(s, e))
  BY <1>1, <1>3 DEF Rising, Before, Items
<1> QED BY <1>1, <1>2, <1>3

LEMMA PrefixAppended ==
    ASSUME NEW s \in Seq(Entry), NEW g \in Seq(Entry), NEW n \in 0 .. Len(g)
    PROVE  LET w == s \o SubSeq(g, 1, n)
           IN  /\ w \in Seq(Entry) /\ Items(w) \subseteq Items(s) \cup Items(g)
               /\ Items(s) \cup Items(g) \subseteq Items(w) \cup {g[i] : i \in n + 1 .. Len(g)}
               /\ Rising(s) /\ Rising(g) /\ Before(Items(s), Items(g)) => Rising(w)
<1> DEFINE t == SubSeq(g, 1, n)
           w == s \o t
<1>1. Len(s) \in Nat /\ Len(g) \in Nat
  BY LenProperties
<1>2. t \in Seq(Entry) /\ Len(t) = n /\ \A i \in 1 .. n : t[i] = g[i]
  <2>1. CASE n = 0
    <3>1. t = <<>>
      BY <2>1, SubSeqEmpty
    <3> QED BY <2>1, <3>1, EmptySeq
  <2>2. CASE n > 0
    BY <1>1, <2>2, SubSeqProperties
  <2> QED BY <1>1, <2>1, <2>2
<1> HIDE DEF t
<1>3. /\ w \in Seq(Entry) /\ Len(w) = Len(s) + n
      /\ \A i \in 1 .. Len(w) : w[i] = IF i <= Len(s) THEN s[i] ELSE t[i - Len(s)]
  BY <1>2, ConcatProperties
<1> HIDE DEF w
<1>4. \A i \in 1 .. Len(w) : \/ i <= Len(s) /\ w[i] = s[i]
                             \/ i > Len(s) /\ (i - Len(s)) \in 1 .. Len(g) /\ w[i] = g[i - Len(s)]
  BY <1>1, <1>2, <1>3
<1>5. Items(w) \subseteq Items(s) \cup Items(g)
  <2> SUFFICES ASSUME NEW i \in 1 .. Len(w) PROVE w[i] \in Items(s) \/ w[i] \in Items(g)
    BY DEF Items
  <2>1. CASE i <= Len(s) /\ w[i] = s[i]
    BY <1>1, <1>3, <2>1 DEF Items
  <2>2. CASE i > Len(s) /\ (i - Len(s)) \in 1 .. Len(g) /\ w[i] = g[i - Len(s)]
    BY <2>2 DEF Items
  <2> QED BY <1>4, <2>1, <2>2
<1>6. ASSUME Rising(s), Rising(g), Before(Items(s), Items(g)) PROVE Rising(w)
  <2> SUFFICES ASSUME NEW i \in 1 .. Len(w), NEW j \in 1 .. Len(w), i < j PROVE Precedes(w[i], w[j])
    BY DEF Rising
  <2>1. CASE j <= Len(s)
    BY <1>1, <1>3, <1>4, <1>6, <2>1 DEF Rising
  <2>2. CASE i > Len(s)
    <3>1. /\ (i - Len(s)) \in 1 .. Len(g) /\ w[i] = g[i - Len(s)]
          /\ (j - Len(s)) \in 1 .. Len(g) /\ w[j] = g[j - Len(s)]
          /\ i - Len(s) < j - Len(s)
      BY <1>1, <1>4, <2>2
    <3> QED BY <3>1, <1>6 DEF Rising
  <2>3. CASE i <= Len(s) /\ j > Len(s)
    <3>1. w[i] \in Items(s) /\ w[j] \in Items(g)
      BY <1>1, <1>3, <1>4, <2>3 DEF Items
    <3> QED BY <3>1, <1>6 DEF Before
  <2>4. Len(s) \in Int /\ i \in Int /\ j \in Int
    BY <1>1
  <2> QED BY <2>1, <2>2, <2>3, <2>4
<1>7. Items(s) \cup Items(g) \subseteq Items(w) \cup {g[i] : i \in n + 1 .. Len(g)}
  <2>1. ASSUME NEW i \in 1 .. Len(s) PROVE s[i] \in Items(w)
    <3>1. i \in 1 .. Len(w) /\ w[i] = s[i]
      BY <1>1, <1>3
    <3> QED BY <3>1 DEF Items
  <2>2. ASSUME NEW i \in 1 .. n PROVE g[i] \in Items(w)
    <3> DEFINE j == Len(s) + i
    <3>1. j \in 1 .. Len(w) /\ ~(j <= Len(s)) /\ j - Len(s) = i
      BY <1>1, <1>3
    <3> HIDE DEF j
    <3>2. w[j] = g[i]
      BY <1>2, <1>3, <3>1
    <3> QED BY <3>1, <3>2 DEF Items
  <2>3. \A i \in 1 .. Len(g) : i \in 1 .. n \/ i \in n + 1 .. Len(g)
    BY <1>1
  <2> QED BY <2>1, <2>2, <2>3 DEF Items
<1> QED BY <1>3, <1>5, <1>6, <1>7 DEF w, t
-----------------------------------------------------------------------------
(* The inductive invariant.                                                *)

\* What the writer has taken and not looked at, what the event loop has in hand.
Pending == IF writer = "check" THEN todo ELSE batch
Hand == IF putting = None THEN {} ELSE {putting}
Coming == Items(Pending) \cup Items(queue) \cup Hand
Done(p) == Items(file[p]) \cup Items(grouped[p])

Typed ==
    /\ queue \in Seq(Entry) /\ batch \in Seq(Entry) /\ todo \in Seq(Entry)
    /\ grouped \in [Paths -> Seq(Entry)] /\ file \in [Paths -> Seq(Entry)]
    /\ putting \in Entry \cup {None} /\ full \in {"no", "full", "dropped"}
    /\ enabled \in [Captures -> BOOLEAN] /\ recorded \in [Captures -> Nat \cup {-1}]
    /\ unfinished \in Int /\ writer \in {"none", "get", "more", "check", "dead"}
    /\ checked \subseteq Captures /\ lost \subseteq Entry

\* Between batches the writer holds nothing, in one something.
WriterHolds ==
    /\ writer \in {"more", "check"} => batch # <<>>
    /\ writer \notin {"more", "check"} => batch = <<>>
    /\ writer # "check" => todo = <<>> /\ grouped = Nothing

\* Each item is counted until it is written off, one dropped until its task_done.
Counted ==
    unfinished = Len(queue) + Len(batch) + IF full = "dropped" THEN 1 ELSE 0

\* Of each capture, the lines further on were recorded before those behind.
Ordered ==
    /\ Rising(queue) /\ Rising(Pending)
    /\ Before(Items(Pending), Items(queue)) /\ Before(Items(Pending) \cup Items(queue), Hand)
    /\ \A p \in Paths :
          /\ Rising(file[p]) /\ Rising(grouped[p]) /\ Before(Items(file[p]), Items(grouped[p]))
          /\ Before(Done(p), Coming)

\* Nothing is on its way that was not recorded.
Recorded ==
    /\ \A e \in Coming : e.line <= recorded[e.capture]
    /\ \A p \in Paths : \A e \in Done(p) : e.line <= recorded[e.capture]

\* Until the check of a capture's directory has passed or is lost, it is on its way, ahead of
\* its lines, or it has failed and the capture is disabled.
CheckAhead ==
    /\ \A p \in Paths : \A e \in Done(p) : e.capture \in checked \/ Item(e.capture, 0) \in lost
    /\ \A c \in Captures : recorded[c] >= 0 =>
          c \in checked \/ Item(c, 0) \in lost \/ ~enabled[c] \/ Item(c, 0) \in Coming

\* A line recorded is on its way, with the lines to write, in its file or lost.
Accounted ==
    \A c \in Captures : \A n \in 1 .. recorded[c] :
        Item(c, n) \in Coming \cup Done(PathOf[c]) \cup lost

IInv == Typed /\ WriterHolds /\ Counted /\ Ordered /\ Recorded /\ CheckAhead /\ Accounted

-----------------------------------------------------------------------------
LEMMA Constants ==
    /\ QueueMax \in Nat /\ MaxLines \in Nat /\ None \notin Entry
    /\ \A c \in Captures : PathOf[c] \in Paths
    /\ \A c \in Captures, n \in Nat : /\ Item(c, n) \in Entry /\ Item(c, n) # None
                                        /\ Item(c, n).capture = c /\ Item(c, n).line = n
    /\ \A e \in Entry : e.capture \in Captures /\ e.line \in Nat /\ e = Item(e.capture, e.line)
<1>1. \A c \in Captures : PathOf[c] \in Paths
  BY FrameLogAssumption DEF Paths, Range
<1> QED BY <1>1, FrameLogAssumption DEF Entry, None, Item

LEMMA EmptyStage ==
    /\ <<>> \in Seq(Entry) /\ Len(<<>>) = 0 /\ Items(<<>>) = {} /\ Rising(<<>>)
    /\ \A s \in Seq(Entry) : /\ Items(s) \subseteq Entry /\ Len(s) \in Nat
                              /\ (Len(s) = 0 => s = <<>>)
                              /\ (Items(s) = {} => s = <<>>)
<1>1. <<>> \in Seq(Entry) /\ Len(<<>>) = 0
  BY EmptySeq
<1>2. Items(<<>>) = {} /\ Rising(<<>>)
  BY <1>1 DEF Items, Rising
<1>3. ASSUME NEW s \in Seq(Entry)
      PROVE  /\ Items(s) \subseteq Entry /\ Len(s) \in Nat
             /\ (Len(s) = 0 => s = <<>>)
             /\ (Items(s) = {} => s = <<>>)
  <2>1. Len(s) \in Nat /\ (Len(s) = 0 => s = <<>>)
    BY LenProperties, EmptySeq
  <2>2. Items(s) \subseteq Entry
    BY ElementOfSeq DEF Items
  <2>3. ASSUME Items(s) = {} PROVE s = <<>>
    <3>1. \A i \in 1 .. Len(s) : s[i] \in Items(s)
      BY DEF Items
    <3> QED BY <2>1, <2>3, <3>1
  <2> QED BY <2>1, <2>2, <2>3
<1> QED BY <1>1, <1>2, <1>3

LEMMA InitIInv == Init => IInv
<1> SUFFICES ASSUME Init PROVE IInv
  OBVIOUS
<1> USE DEF Init
<1>1. /\ Items(Pending) = {} /\ Items(queue) = {} /\ Hand = {} /\ Coming = {}
      /\ \A p \in Paths : file[p] = <<>> /\ grouped[p] = <<>> /\ Done(p) = {}
  BY EmptyStage DEF Pending, Hand, Coming, Done, Nothing
<1>2. Typed /\ WriterHolds /\ Counted
  BY EmptyStage, Constants DEF Typed, WriterHolds, Counted, Nothing
<1>3. Ordered
  BY <1>1, EmptyStage DEF Ordered, Before, Pending
<1>4. Recorded /\ CheckAhead
  BY <1>1 DEF Recorded, CheckAhead
<1>5. Accounted
  BY DEF Accounted
<1> QED BY <1>2, <1>3, <1>4, <1>5 DEF IInv

\* An item in hand is an item.
LEMMA StagesTyped ==
    ASSUME Typed
    PROVE  /\ Pending \in Seq(Entry) /\ Items(Pending) \subseteq Entry /\ Items(queue) \subseteq Entry
           /\ Hand \subseteq Entry /\ Coming \subseteq Entry
           /\ \A p \in Paths : /\ file[p] \in Seq(Entry) /\ grouped[p] \in Seq(Entry)
                               /\ Items(file[p]) \subseteq Entry /\ Items(grouped[p]) \subseteq Entry
                               /\ Done(p) \subseteq Entry
<1>1. Pending \in Seq(Entry) /\ queue \in Seq(Entry) /\ Hand \subseteq Entry
  BY DEF Typed, Pending, Hand
<1>2. \A p \in Paths : file[p] \in Seq(Entry) /\ grouped[p] \in Seq(Entry)
  BY DEF Typed
<1>3. Items(Pending) \subseteq Entry /\ Items(queue) \subseteq Entry
  BY <1>1, EmptyStage
<1>4. \A p \in Paths : Items(file[p]) \subseteq Entry /\ Items(grouped[p]) \subseteq Entry
  BY <1>2, EmptyStage
<1> QED BY <1>1, <1>2, <1>3, <1>4 DEF Coming, Done

-----------------------------------------------------------------------------
(* The event loop.                                                         *)

\* What Build and Record do: an item of capture c with a number of its own is in hand.
LEMMA HandTaken ==
    ASSUME IInv, NEW c \in Captures, NEW n \in Nat, putting = None, n = recorded[c] + 1,
           n > 0 => recorded[c] >= 0,
           putting' = Item(c, n), recorded' = [recorded EXCEPT ![c] = n], EnsureWriter,
           UNCHANGED <<queue, unfinished, full, enabled, batch, todo, grouped, file, checked, lost>>
    PROVE  IInv'
<1> USE DEF IInv, threadVars
<1>1. Pending' = Pending /\ (\A p \in Paths : Done(p)' = Done(p))
  BY DEF Pending, Done, EnsureWriter, Alive, WriterHolds
<1>2. Hand = {} /\ Hand' = {Item(c, n)} /\ Coming' = Coming \cup {Item(c, n)} 
      /\ Coming = Items(Pending) \cup Items(queue)
  BY <1>1, Constants DEF Hand, Coming
<1>3. recorded[c] < n /\ recorded'[c] = n /\ \A d \in Captures : recorded[d] <= recorded'[d] /\ recorded'[d] \in Int /\ recorded[d] \in Int
  BY DEF Typed
<1>4. Typed'
  BY Constants DEF Typed, EnsureWriter, Alive
<1>5. WriterHolds' /\ Counted'
  BY DEF WriterHolds, Counted, EnsureWriter, Alive
<1>6. Recorded'
  BY <1>1, <1>2, <1>3, StagesTyped, Constants DEF Recorded
<1>7. \A e \in Entry : e.line <= recorded[e.capture] => Precedes(e, Item(c, n))
  BY <1>3, Constants DEF Precedes
<1>8. Ordered'
  <2>1. Before(Items(Pending) \cup Items(queue), {Item(c, n)})
    BY <1>2, <1>7, StagesTyped DEF Before, Recorded
  <2>2. \A p \in Paths : Before(Done(p), Coming')
    BY <1>2, <1>7, StagesTyped DEF Before, Recorded, Ordered
  <2> QED BY <1>1, <1>2, <2>1, <2>2 DEF Ordered
<1>9. CheckAhead'
  BY <1>1, <1>2, <1>3 DEF CheckAhead, Typed
<1>10. Accounted'
  <2> SUFFICES ASSUME NEW d \in Captures, NEW m \in 1 .. recorded'[d]
               PROVE  Item(d, m) \in Coming' \cup Done(PathOf[d])' \cup lost'
    BY DEF Accounted
  <2>1. CASE m \in 1 .. recorded[d]
    BY <1>1, <1>2, <2>1, Constants DEF Accounted
  <2>2. CASE m \notin 1 .. recorded[d]
    <3>1. d = c /\ m = n
      BY <1>3, <2>2 DEF Typed
    <3> QED BY <1>2, <3>1
  <2> QED BY <2>1, <2>2
<1> QED BY <1>4, <1>5, <1>6, <1>8, <1>9, <1>10

LEMMA BuildKeeps ==
    ASSUME IInv, NEW c \in Captures, Build(c)
    PROVE  IInv'
<1>1. putting = None /\ 0 \in Nat /\ 0 = recorded[c] + 1 /\ ~(0 > 0)
  BY DEF Build
<1>2. /\ putting' = Item(c, 0) /\ recorded' = [recorded EXCEPT ![c] = 0] /\ EnsureWriter
      /\ UNCHANGED <<queue, unfinished, full, enabled, batch, todo, grouped, file, checked, lost>>
  BY DEF Build, threadVars
<1> QED BY <1>1, <1>2, HandTaken

LEMMA RecordKeeps ==
    ASSUME IInv, NEW c \in Captures, Record(c)
    PROVE  IInv'
<1> DEFINE n == recorded[c] + 1
<1>1. n \in Nat /\ n = recorded[c] + 1 /\ recorded[c] >= 0
  BY Constants DEF Record
<1>2. /\ putting = None /\ EnsureWriter
      /\ putting' = Item(c, n) /\ recorded' = [recorded EXCEPT ![c] = n]
      /\ UNCHANGED <<queue, unfinished, full, enabled, batch, todo, grouped, file, checked, lost>>
  BY DEF Record, threadVars
<1> HIDE DEF n
<1> QED BY <1>1, <1>2, HandTaken

LEMMA PutKeeps ==
    ASSUME IInv, Put
    PROVE  IInv'
<1> USE DEF IInv, threadVars
<1>1. CASE Len(queue) < QueueMax
  <2>1. putting \in Entry /\ Hand = {putting} /\ Hand' = {} /\ Pending' = Pending
    BY <1>1 DEF Put, Typed, Hand, Pending
  <2>2. queue' = Append(queue, putting)
    BY <1>1 DEF Put
  <2>3. /\ queue' \in Seq(Entry) /\ Len(queue') = Len(queue) + 1
        /\ Items(queue') = Items(queue) \cup {putting} /\ Rising(queue')
    BY <2>1, <2>2, Appended DEF Typed, Ordered, Before
  <2>4. Coming' = Coming /\ \A p \in Paths : Done(p)' = Done(p)
    BY <1>1, <2>1, <2>3 DEF Coming, Done, Put
  <2>5. Typed' /\ WriterHolds' /\ Counted'
    BY <1>1, <2>3, EmptyStage DEF Typed, WriterHolds, Counted, Put
  <2>6. Ordered'
    BY <1>1, <2>1, <2>3, <2>4 DEF Ordered, Before, Put
  <2>7. Recorded' /\ CheckAhead' /\ Accounted'
    BY <1>1, <2>4, Constants DEF Recorded, CheckAhead, Accounted, Put
  <2> QED BY <2>5, <2>6, <2>7
<1>2. CASE ~(Len(queue) < QueueMax)
  <2>1. full' = "full" /\ full = "no" /\ UNCHANGED <<queue, unfinished, putting, enabled, recorded, writer, batch, todo, grouped, file, checked, lost>>
    BY <1>2 DEF Put
  <2>2. Pending' = Pending /\ Hand' = Hand /\ Coming' = Coming /\ \A p \in Paths : Done(p)' = Done(p)
    BY <2>1 DEF Pending, Hand, Coming, Done
  <2> QED
    BY <2>1, <2>2, Constants DEF Typed, WriterHolds, Counted, Ordered, Recorded, CheckAhead, Accounted
<1> QED BY <1>1, <1>2

LEMMA DropOldestKeeps ==
    ASSUME IInv, DropOldest
    PROVE  IInv'
<1> USE DEF IInv, threadVars
<1>0. Pending' = Pending /\ Hand' = Hand /\ \A p \in Paths : Done(p)' = Done(p)
  BY DEF Pending, Hand, Done, DropOldest
<1>1. CASE queue = <<>>
  <2>1. full' = "no" /\ full = "full" /\ UNCHANGED <<queue, unfinished, putting, enabled, recorded, writer, batch, todo, grouped, file, checked, lost>>
    BY <1>1 DEF DropOldest
  <2>2. Coming' = Coming
    BY <1>0, <2>1 DEF Coming
  <2> QED
    BY <1>0, <2>1, <2>2, Constants DEF Typed, WriterHolds, Counted, Ordered, Recorded, CheckAhead, Accounted
<1>2. CASE queue # <<>>
  <2>1. /\ full = "full" /\ full' = "dropped" /\ queue' = Tail(queue) /\ lost' = lost \cup {Head(queue)}
        /\ UNCHANGED <<unfinished, enabled, putting, recorded, writer, batch, todo, grouped, file, checked>>
    BY <1>2 DEF DropOldest
  <2>2. /\ queue' \in Seq(Entry) /\ Len(queue') = Len(queue) - 1 /\ Len(queue) \in Nat
        /\ Items(queue) = Items(queue') \cup {Head(queue)} /\ Rising(queue') /\ Head(queue) \in Entry
    <3>1. queue \in Seq(Entry) /\ Rising(queue) /\ Len(queue) \in Nat
      BY EmptyStage DEF Typed, Ordered
    <3> QED BY <1>2, <2>1, <3>1, Taken
  <2>3. Coming' \subseteq Coming /\ Coming \subseteq Coming' \cup {Head(queue)}
    BY <1>0, <2>2 DEF Coming
  <2>4. Typed' /\ WriterHolds' /\ Counted'
    BY <2>1, <2>2, EmptyStage DEF Typed, WriterHolds, Counted
  <2>5. Ordered'
    BY <1>0, <2>1, <2>2, <2>3 DEF Ordered, Before
  <2>6. Recorded'
    BY <1>0, <2>1, <2>3 DEF Recorded
  <2>7. CheckAhead'
    BY <1>0, <2>1, <2>3 DEF CheckAhead
  <2>8. Accounted'
    BY <1>0, <2>1, <2>3, Constants DEF Accounted
  <2> QED BY <2>4, <2>5, <2>6, <2>7, <2>8
<1> QED BY <1>1, <1>2

LEMMA DroppedKeeps ==
    ASSUME IInv, Dropped
    PROVE  IInv'
<1> USE DEF IInv, threadVars
<1>1. Pending' = Pending /\ Hand' = Hand /\ Coming' = Coming /\ \A p \in Paths : Done(p)' = Done(p)
  BY DEF Pending, Hand, Coming, Done, Dropped
<1>2. Typed' /\ WriterHolds' /\ Counted'
  BY EmptyStage DEF Typed, WriterHolds, Counted, Dropped
<1>3. Ordered' /\ Recorded' /\ CheckAhead' /\ Accounted'
  BY <1>1, Constants DEF Ordered, Recorded, CheckAhead, Accounted, Dropped
<1> QED BY <1>2, <1>3

-----------------------------------------------------------------------------
(* The writer thread.                                                      *)

LEMMA TakeKeeps ==
    ASSUME IInv, Take
    PROVE  IInv'
<1> USE DEF IInv, loopVars
<1>1. /\ writer \in {"get", "more"} /\ queue # <<>> /\ writer' = "more"
      /\ batch' = Append(batch, Head(queue)) /\ queue' = Tail(queue)
      /\ UNCHANGED <<unfinished, enabled, putting, full, recorded, todo, grouped, file, checked, lost>>
  BY DEF Take
<1>2. Pending = batch /\ Pending' = batch' /\ Hand' = Hand /\ \A p \in Paths : Done(p)' = Done(p)
  BY <1>1 DEF Pending, Hand, Done
<1>3. queue \in Seq(Entry) /\ batch \in Seq(Entry) /\ Rising(queue) /\ Rising(batch)
      /\ Len(queue) \in Nat /\ Len(batch) \in Nat
  BY <1>2, EmptyStage DEF Typed, Ordered
<1>4. /\ Head(queue) \in Entry /\ queue' \in Seq(Entry) /\ Len(queue') = Len(queue) - 1
      /\ Items(queue) = {Head(queue)} \cup Items(queue')
      /\ Rising(queue') /\ Before({Head(queue)}, Items(queue'))
  BY <1>1, <1>3, Taken
<1>5. Before(Items(batch), {Head(queue)})
  BY <1>2, <1>4 DEF Ordered, Before
<1>6. /\ batch' \in Seq(Entry) /\ Len(batch') = Len(batch) + 1
      /\ Items(batch') = Items(batch) \cup {Head(queue)} /\ Rising(batch')
  BY <1>1, <1>3, <1>4, <1>5, Appended
<1>7. Coming' = Coming
  BY <1>2, <1>4, <1>6 DEF Coming
<1>8. Typed' /\ WriterHolds' /\ Counted'
  <2>1. batch' # <<>>
    BY <1>3, <1>6, EmptyStage
  <2>2. Typed' /\ Counted'
    BY <1>1, <1>3, <1>4, <1>6 DEF Typed, Counted
  <2>3. WriterHolds'
    BY <1>1, <2>1 DEF WriterHolds
  <2> QED BY <2>2, <2>3
<1>9. Ordered'
  BY <1>1, <1>2, <1>4, <1>6, <1>7 DEF Ordered, Before
<1>10. Recorded' /\ CheckAhead' /\ Accounted'
  BY <1>1, <1>2, <1>7, Constants DEF Recorded, CheckAhead, Accounted
<1> QED BY <1>8, <1>9, <1>10

LEMMA TakeEndsKeeps ==
    ASSUME IInv, TakeEnds
    PROVE  IInv'
<1> USE DEF IInv, loopVars
<1>1. /\ writer = "more" /\ writer' = "check" /\ todo' = batch
      /\ UNCHANGED <<queue, unfinished, enabled, putting, full, recorded, batch, grouped, file, checked, lost>>
  BY DEF TakeEnds
<1>2. Pending' = Pending /\ Hand' = Hand /\ Coming' = Coming /\ \A p \in Paths : Done(p)' = Done(p)
  BY <1>1 DEF Pending, Hand, Coming, Done
<1>3. Typed' /\ WriterHolds' /\ Counted'
  BY <1>1 DEF Typed, WriterHolds, Counted
<1>4. Ordered' /\ Recorded' /\ CheckAhead' /\ Accounted'
  BY <1>1, <1>2, Constants DEF Ordered, Recorded, CheckAhead, Accounted
<1> QED BY <1>3, <1>4

\* An item looked at leaves what is pending.
LEMMA LookedAt ==
    ASSUME IInv, writer = "check", todo # <<>>, todo' = Tail(todo), UNCHANGED <<queue, writer, putting>>
    PROVE  /\ Head(todo) \in Entry /\ todo \in Seq(Entry) /\ todo' \in Seq(Entry)
           /\ Pending = todo /\ Pending' = todo' /\ Hand' = Hand
           /\ Items(todo) = {Head(todo)} \cup Items(todo') /\ Rising(todo')
           /\ Before({Head(todo)}, Coming')
           /\ Coming = {Head(todo)} \cup Coming'
<1> USE DEF IInv
<1>1. Pending = todo /\ Pending' = todo' /\ Hand' = Hand
  BY DEF Pending, Hand
<1>2. todo \in Seq(Entry) /\ Rising(todo)
  BY <1>1 DEF Typed, Ordered
<1>3. /\ Head(todo) \in Entry /\ todo' \in Seq(Entry)
      /\ Items(todo) = {Head(todo)} \cup Items(todo')
      /\ Rising(todo') /\ Before({Head(todo)}, Items(todo'))
  BY <1>2, Taken
<1>4. Coming = {Head(todo)} \cup Coming'
  BY <1>1, <1>3 DEF Coming
<1>5. Before({Head(todo)}, Items(queue)) /\ Before({Head(todo)}, Hand)
  BY <1>1, <1>3 DEF Ordered, Before
<1>6. Before({Head(todo)}, Coming')
  BY <1>1, <1>3, <1>5 DEF Coming, Before
<1> QED BY <1>1, <1>2, <1>3, <1>4, <1>6

LEMMA CheckDirKeeps ==
    ASSUME IInv, CheckDir
    PROVE  IInv'
<1> USE DEF IInv, loopVars
<1> DEFINE e == Head(todo)
<1>1. PICK ok \in BOOLEAN :
        /\ enabled' = [enabled EXCEPT ![e.capture] = ok]
        /\ checked' = IF ok THEN checked \cup {e.capture} ELSE checked
  BY DEF CheckDir, Validations
<1>2. /\ writer = "check" /\ todo # <<>> /\ e.line = 0 /\ todo' = Tail(todo)
      /\ UNCHANGED <<queue, unfinished, writer, putting, full, recorded, batch, grouped, file, lost>>
  BY DEF CheckDir
<1>3. /\ e \in Entry /\ todo' \in Seq(Entry)
      /\ Pending = todo /\ Pending' = todo' /\ Hand' = Hand
      /\ Items(todo) = {e} \cup Items(todo') /\ Rising(todo')
      /\ Coming = {e} \cup Coming'
  BY <1>2, LookedAt
<1>4. \A p \in Paths : Done(p)' = Done(p)
  BY <1>2 DEF Done
<1>5. e.capture \in Captures /\ e = Item(e.capture, 0)
  BY <1>2, <1>3, Constants
<1>6. \A c \in Captures : c # e.capture => Item(c, 0) # e
  BY <1>5, Constants
<1> HIDE DEF e
<1>7. Typed' /\ WriterHolds' /\ Counted'
  BY <1>1, <1>2, <1>3, <1>5 DEF Typed, WriterHolds, Counted
<1>8. Ordered'
  BY <1>2, <1>3, <1>4 DEF Ordered, Before
<1>9. Recorded'
  BY <1>2, <1>3, <1>4 DEF Recorded
<1>10. CheckAhead'
  <2>1. \A p \in Paths : \A f \in Done(p)' : f.capture \in checked' \/ Item(f.capture, 0) \in lost'
    BY <1>1, <1>2, <1>4 DEF CheckAhead
  <2>2. ASSUME NEW c \in Captures, recorded'[c] >= 0
        PROVE  c \in checked' \/ Item(c, 0) \in lost' \/ ~enabled'[c] \/ Item(c, 0) \in Coming'
    <3>1. CASE c = e.capture
      BY <1>1, <1>5, <3>1 DEF Typed
    <3>2. CASE c # e.capture
      <4>1. enabled'[c] = enabled[c] /\ recorded'[c] = recorded[c]
        BY <1>1, <1>2, <3>2 DEF Typed
      <4> QED BY <1>1, <1>2, <1>3, <1>6, <2>2, <3>2, <4>1 DEF CheckAhead
    <3> QED BY <3>1, <3>2
  <2> QED BY <2>1, <2>2 DEF CheckAhead
<1>11. Accounted'
  <2>1. \A c \in Captures, n \in Nat : n > 0 => Item(c, n) # e
    BY <1>5, Constants
  <2> QED BY <1>2, <1>3, <1>4, <2>1, Constants DEF Accounted, Typed
<1> QED BY <1>7, <1>8, <1>9, <1>10, <1>11

LEMMA GroupKeeps ==
    ASSUME IInv, Group
    PROVE  IInv'
<1> USE DEF IInv, loopVars
<1> DEFINE e == Head(todo)
           q == PathOf[e.capture]
<1>1. /\ writer = "check" /\ todo # <<>> /\ e.line > 0 /\ todo' = Tail(todo)
      /\ grouped' = IF enabled[e.capture] THEN [grouped EXCEPT ![q] = Append(@, e)] ELSE grouped
      /\ lost' = IF enabled[e.capture] THEN lost ELSE lost \cup {e}
      /\ UNCHANGED <<queue, unfinished, enabled, writer, putting, full, recorded, batch, file, checked>>
  BY DEF Group, Kept
<1>2. /\ e \in Entry /\ todo' \in Seq(Entry)
      /\ Pending = todo /\ Pending' = todo' /\ Hand' = Hand
      /\ Items(todo) = {e} \cup Items(todo') /\ Rising(todo')
      /\ Before({e}, Coming') /\ Coming = {e} \cup Coming'
  BY <1>1, LookedAt
<1>3. e.capture \in Captures /\ q \in Paths /\ e.line \in Nat
  BY <1>2, Constants
<1>4. \A c \in Captures : Item(c, 0) # e
  BY <1>1, Constants
<1> HIDE DEF e, q
<1>5. ASSUME NEW p \in Paths
      PROVE  /\ grouped[p] \in Seq(Entry) /\ Rising(grouped[p]) /\ Before(Items(grouped[p]), {e})
             /\ Before(Items(file[p]), {e})
  BY <1>2 DEF Typed, Ordered, Before, Done
<1>6. ASSUME NEW p \in Paths
      PROVE  /\ grouped'[p] \in Seq(Entry) /\ Rising(grouped'[p])
             /\ \/ Items(grouped'[p]) = Items(grouped[p])
                \/ Items(grouped'[p]) = Items(grouped[p]) \cup {e} /\ enabled[e.capture]
             /\ enabled[e.capture] /\ p = q => e \in Items(grouped'[p])
  <2>1. CASE enabled[e.capture] /\ p = q
    <3>1. grouped'[p] = Append(grouped[p], e)
      BY <1>1, <2>1 DEF Typed
    <3> QED BY <1>2, <1>5, <2>1, <3>1, Appended
  <2>2. CASE ~(enabled[e.capture] /\ p = q)
    <3>1. grouped'[p] = grouped[p]
      BY <1>1, <2>2 DEF Typed
    <3> QED BY <1>5, <2>2, <3>1
  <2> QED BY <2>1, <2>2
<1>7. grouped' \in [Paths -> Seq(Entry)]
  BY <1>1, <1>6 DEF Typed
<1>8. Typed' /\ WriterHolds' /\ Counted'
  BY <1>1, <1>2, <1>7 DEF Typed, WriterHolds, Counted
<1>9. \A p \in Paths : \/ Done(p)' = Done(p)
                       \/ Done(p)' = Done(p) \cup {e} /\ enabled[e.capture]
  BY <1>1, <1>6 DEF Done
<1>10. Ordered'
  <2>1. ASSUME NEW p \in Paths
        PROVE  Rising(file'[p]) /\ Rising(grouped'[p]) /\ Before(Items(file'[p]), Items(grouped'[p]))
    BY <1>1, <1>5, <1>6 DEF Ordered, Before
  <2>2. ASSUME NEW p \in Paths PROVE Before(Done(p)', Coming')
    BY <1>2, <1>9 DEF Ordered, Before
  <2> QED BY <1>1, <1>2, <2>1, <2>2 DEF Ordered, Before
<1>11. Recorded'
  BY <1>1, <1>2, <1>9 DEF Recorded
<1>12. CheckAhead'
  <2>1. recorded[e.capture] >= 0
    BY <1>2, <1>3 DEF Recorded, Typed
  <2>2. enabled[e.capture] => e.capture \in checked \/ Item(e.capture, 0) \in lost
    <3>1. Item(e.capture, 0) \notin Coming'
      BY <1>1, <1>2, <1>3, Constants DEF Before, Precedes
    <3> QED BY <1>2, <1>3, <1>4, <2>1, <3>1 DEF CheckAhead
  <2> QED BY <1>1, <1>2, <1>4, <1>9, <2>2 DEF CheckAhead
<1>13. Accounted'
  <2>1. ASSUME NEW p \in Paths, p = q PROVE e \in Done(p)' \cup lost'
    <3>1. CASE enabled[e.capture]
      BY <1>6, <2>1, <3>1 DEF Done
    <3>2. CASE ~enabled[e.capture]
      BY <1>1, <3>2
    <3> QED BY <3>1, <3>2
  <2>2. \A p \in Paths : Done(p) \subseteq Done(p)'
    BY <1>9
  <2>3. ASSUME NEW c \in Captures, NEW n \in Nat, Item(c, n) = e PROVE PathOf[c] = q
    BY <2>3, Constants DEF q
  <2>4. lost \subseteq lost' /\ recorded' = recorded
    BY <1>1
  <2> SUFFICES ASSUME NEW c \in Captures, NEW n \in 1 .. recorded[c]
               PROVE  Item(c, n) \in Coming' \cup Done(PathOf[c])' \cup lost'
    BY <2>4 DEF Accounted
  <2>5. CASE Item(c, n) = e
    <3>1. n \in Nat
      OBVIOUS
    <3> QED BY <2>1, <2>3, <2>5, <3>1, Constants
  <2>6. CASE Item(c, n) # e
    <3>1. Item(c, n) \in Coming' \cup Done(PathOf[c]) \cup lost
      BY <1>2, <2>6 DEF Accounted
    <3> QED BY <2>2, <2>4, <3>1, Constants
  <2> QED BY <2>5, <2>6
<1> QED BY <1>8, <1>10, <1>11, <1>12, <1>13

LEMMA WriteFileKeeps ==
    ASSUME IInv, NEW p \in Paths, WriteFile(p)
    PROVE  IInv'
<1> USE DEF IInv, loopVars
<1>1. PICK n \in 0 .. Len(grouped[p]) :
        /\ file' = [file EXCEPT ![p] = @ \o SubSeq(grouped[p], 1, n)]
        /\ lost' = lost \cup {grouped[p][i] : i \in n + 1 .. Len(grouped[p])}
  BY DEF WriteFile
<1>2. /\ writer = "check" /\ grouped' = [grouped EXCEPT ![p] = <<>>]
      /\ UNCHANGED <<queue, unfinished, enabled, writer, putting, full, recorded, batch, todo, checked>>
  BY DEF WriteFile
<1>3. Pending' = Pending /\ Hand' = Hand /\ Coming' = Coming
  BY <1>2 DEF Pending, Hand, Coming
<1>4. /\ file'[p] \in Seq(Entry) /\ Items(file'[p]) \subseteq Items(file[p]) \cup Items(grouped[p])
      /\ Items(file[p]) \cup Items(grouped[p]) \subseteq Items(file'[p]) \cup lost'
      /\ Rising(file'[p]) /\ grouped'[p] = <<>>
      /\ Items(grouped'[p]) = {} /\ Rising(grouped'[p]) /\ grouped'[p] \in Seq(Entry)
  <2>1. file'[p] = file[p] \o SubSeq(grouped[p], 1, n) /\ grouped'[p] = <<>>
    BY <1>1, <1>2 DEF Typed
  <2>2. /\ file[p] \in Seq(Entry) /\ grouped[p] \in Seq(Entry) /\ Rising(file[p]) /\ Rising(grouped[p])
        /\ Before(Items(file[p]), Items(grouped[p]))
    BY DEF Typed, Ordered
  <2>3. LET w == file[p] \o SubSeq(grouped[p], 1, n)
        IN  /\ w \in Seq(Entry) /\ Items(w) \subseteq Items(file[p]) \cup Items(grouped[p]) /\ Rising(w)
            /\ Items(file[p]) \cup Items(grouped[p])
                  \subseteq Items(w) \cup {grouped[p][i] : i \in n + 1 .. Len(grouped[p])}
    BY <2>2, PrefixAppended
  <2> QED BY <1>1, <2>1, <2>3, EmptyStage
<1>5. \A r \in Paths : r # p => file'[r] = file[r] /\ grouped'[r] = grouped[r]
  BY <1>1, <1>2 DEF Typed
<1>6. \A r \in Paths : Done(r)' \subseteq Done(r) /\ Done(r) \subseteq Done(r)' \cup lost'
  BY <1>4, <1>5 DEF Done
<1>7. file' \in [Paths -> Seq(Entry)] /\ grouped' \in [Paths -> Seq(Entry)]
  BY <1>1, <1>2, <1>4 DEF Typed
<1>8. Typed' /\ WriterHolds' /\ Counted'
  <2>1. Len(grouped[p]) \in Nat /\ \A i \in 1 .. Len(grouped[p]) : grouped[p][i] \in Entry
    BY EmptyStage, ElementOfSeq DEF Typed
  <2>2. lost' \subseteq Entry /\ lost \subseteq lost'
    BY <1>1, <2>1 DEF Typed
  <2>3. Typed'
    BY <1>2, <1>7, <2>2 DEF Typed
  <2>4. WriterHolds'
    <3>1. grouped'[p] = <<>> /\ writer' = "check"
      BY <1>2 DEF Typed
    <3> QED BY <1>2, <3>1 DEF WriterHolds
  <2> QED BY <1>2, <2>3, <2>4 DEF Counted
<1>9. Ordered'
  <2>1. ASSUME NEW r \in Paths
        PROVE  Rising(file'[r]) /\ Rising(grouped'[r]) /\ Before(Items(file'[r]), Items(grouped'[r]))
    <3>1. CASE r = p
      BY <1>4, <3>1 DEF Before
    <3>2. CASE r # p
      BY <1>5, <3>2 DEF Ordered
    <3> QED BY <3>1, <3>2
  <2>2. ASSUME NEW r \in Paths PROVE Before(Done(r)', Coming')
    BY <1>3, <1>6 DEF Ordered, Before
  <2> QED BY <1>2, <1>3, <2>1, <2>2 DEF Ordered
<1>10. lost \subseteq lost'
  BY <1>1
<1>11. Recorded' /\ CheckAhead'
  BY <1>2, <1>3, <1>6, <1>10 DEF Recorded, CheckAhead
<1>12. Accounted'
  BY <1>2, <1>3, <1>6, <1>10, Constants DEF Accounted
<1> QED BY <1>8, <1>9, <1>11, <1>12

\* The batch is written off: the lines and the checks it left are lost.
LEMMA BatchDoneKeeps ==
    ASSUME IInv, writer = "check", NEW next \in {"get", "dead"}, BatchDone(next),
           lost \subseteq lost', lost' \subseteq Entry, Items(todo) \subseteq lost',
           \A p \in Paths : Items(grouped[p]) \subseteq lost'
    PROVE  IInv'
<1> USE DEF IInv, loopVars
<1>1. /\ batch' = <<>> /\ todo' = <<>> /\ grouped' = Nothing /\ writer' = next
      /\ unfinished' = unfinished - Len(batch)
      /\ UNCHANGED <<queue, enabled, putting, full, recorded, file, checked>>
  BY DEF BatchDone
<1>2. /\ Pending' = <<>> /\ Items(Pending') = {} /\ Rising(Pending') /\ Pending = todo /\ Hand' = Hand
      /\ \A p \in Paths : grouped'[p] = <<>> /\ Items(grouped'[p]) = {} /\ Rising(grouped'[p])
  BY <1>1, EmptyStage DEF Pending, Hand, Nothing
<1>3. Items(Pending)' = {} /\ Rising(Pending)'
  BY <1>2
<1>4. /\ Coming = Coming' \cup Items(todo)
      /\ \A p \in Paths : Done(p)' \subseteq Done(p) /\ Done(p) \subseteq Done(p)' \cup lost'
  BY <1>1, <1>2, <1>3 DEF Coming, Done
<1>5. Typed' /\ WriterHolds' /\ Counted'
  <2>1. Len(batch) \in Nat /\ Len(queue) \in Nat /\ Len(batch') = 0
    BY <1>1, EmptyStage DEF Typed
  <2>2. grouped' \in [Paths -> Seq(Entry)]
    BY <1>1, EmptyStage DEF Nothing
  <2>3. <<>> \in Seq(Entry)
    BY EmptyStage
  <2>4. Typed'
    BY <1>1, <2>1, <2>2, <2>3 DEF Typed
  <2>5. WriterHolds'
    BY <1>1 DEF WriterHolds
  <2>6. Counted'
    <3>1. queue' = queue /\ full' = full /\ unfinished' = unfinished - Len(batch) /\ unfinished \in Int
      BY <1>1 DEF Typed
    <3>2. unfinished = Len(queue) + Len(batch) + IF full = "dropped" THEN 1 ELSE 0
      BY DEF Counted
    <3>3. unfinished' = Len(queue) + IF full = "dropped" THEN 1 ELSE 0
      BY <2>1, <3>1, <3>2
    <3> QED BY <2>1, <3>1, <3>3 DEF Counted
  <2> QED BY <2>4, <2>5, <2>6
<1>6. Ordered'
  BY <1>1, <1>2, <1>3, <1>4 DEF Ordered, Before
<1>7. Recorded'
  BY <1>1, <1>4 DEF Recorded
<1>8. CheckAhead'
  BY <1>1, <1>4 DEF CheckAhead
<1>9. Accounted'
  BY <1>1, <1>4, Constants DEF Accounted
<1> QED BY <1>5, <1>6, <1>7, <1>8, <1>9

LEMMA ProcessedKeeps ==
    ASSUME IInv, Processed
    PROVE  IInv'
<1>1. writer = "check" /\ todo = <<>> /\ grouped = Nothing /\ BatchDone("get") /\ lost' = lost
  BY DEF Processed
<1>2. Items(todo) = {} /\ lost \subseteq Entry /\ \A p \in Paths : Items(grouped[p]) = {}
  BY <1>1, EmptyStage DEF IInv, Typed, Nothing
<1> QED BY <1>1, <1>2, BatchDoneKeeps

LEMMA WriterDiesKeeps ==
    ASSUME IInv, WriterDies
    PROVE  IInv'
<1>1. /\ writer = "check" /\ BatchDone("dead")
      /\ lost' = lost \cup Range(todo) \cup UNION {Range(grouped[p]) : p \in Paths}
  BY DEF WriterDies
<1>2. todo \in Seq(Entry) /\ lost \subseteq Entry /\ \A p \in Paths : grouped[p] \in Seq(Entry)
  BY DEF IInv, Typed
<1>3. \A s \in Seq(Entry) : Range(s) = Items(s) /\ Items(s) \subseteq Entry
  BY LenProperties, EmptyStage DEF Range, Items
<1>4. /\ lost' \subseteq Entry /\ lost \subseteq lost' /\ Items(todo) \subseteq lost'
      /\ \A p \in Paths : Items(grouped[p]) \subseteq lost'
  BY <1>1, <1>2, <1>3
<1> QED BY <1>1, <1>4, BatchDoneKeeps

LEMMA NextIInv == IInv /\ [Next]_vars => IInv'
<1> SUFFICES ASSUME IInv, [Next]_vars PROVE IInv'
  OBVIOUS
<1>1. CASE EventLoop
  BY <1>1, BuildKeeps, RecordKeeps, PutKeeps, DropOldestKeeps, DroppedKeeps DEF EventLoop
<1>2. CASE WriterThread
  BY <1>2, TakeKeeps, TakeEndsKeeps, CheckDirKeeps, GroupKeeps, WriteFileKeeps, ProcessedKeeps
     DEF WriterThread
<1>3. CASE WriterDies
  BY <1>3, WriterDiesKeeps
<1>4. CASE UNCHANGED vars
  <2>1. Pending' = Pending /\ Hand' = Hand /\ Coming' = Coming /\ \A p \in Paths : Done(p)' = Done(p)
    BY <1>4 DEF vars, loopVars, threadVars, Pending, Hand, Coming, Done
  <2> QED
    BY <1>4, <2>1, Constants
       DEF vars, loopVars, threadVars, IInv, Typed, WriterHolds, Counted, Ordered, Recorded, CheckAhead,
           Accounted
<1> QED BY <1>1, <1>2, <1>3, <1>4 DEF Next

-----------------------------------------------------------------------------
\* The log's variables keep their types, and each recorded line and each check of a directory
\* stands in the stage it has reached, counted and in order, or is lost.
THEOREM Staged == Spec => []IInv
BY InitIInv, NextIInv, PTL DEF Spec

\* When flush() says the log is drained, the queue is empty, the writer holds nothing, and every line
\* recorded is in its file, in the hand of a record() still running, or lost in one of the four ways
\* the steps name, for any captures, queue size and number of lines.
THEOREM FlushTold == Spec => []FlushMeansDone
<1>1. IInv => FlushMeansDone
  <2> SUFFICES ASSUME IInv, unfinished = 0
               PROVE  /\ queue = <<>> /\ batch = <<>>
                      /\ \A c \in Captures : \A n \in 1 .. recorded[c] :
                            Item(c, n) \in Range(file[PathOf[c]]) \cup lost \cup {putting}
    BY DEF FlushMeansDone
  <2>1. queue = <<>> /\ batch = <<>>
    <3>1. /\ Len(queue) \in Nat /\ Len(batch) \in Nat
          /\ (Len(queue) = 0 => queue = <<>>) /\ (Len(batch) = 0 => batch = <<>>)
      BY EmptyStage DEF IInv, Typed
    <3> QED BY <3>1 DEF IInv, Counted
  <2>2. grouped = Nothing /\ Items(Pending) = {} /\ Items(queue) = {}
    BY <2>1, EmptyStage DEF IInv, WriterHolds, Pending
  <2>3. Coming \subseteq {putting}
    BY <2>2 DEF Coming, Hand
  <2>4. ASSUME NEW p \in Paths PROVE Done(p) = Range(file[p])
    <3>1. grouped[p] = <<>> /\ file[p] \in Seq(Entry)
      BY <2>2 DEF Nothing, IInv, Typed
    <3>2. Items(grouped[p]) = {} /\ Items(file[p]) = Range(file[p])
      BY <3>1, EmptyStage, LenProperties DEF Items, Range
    <3> QED BY <3>2 DEF Done
  <2> QED BY <2>1, <2>3, <2>4, Constants DEF IInv, Accounted
<1> QED BY <1>1, Staged, PTL

\* Each file holds every capture's lines in the order they were recorded, none twice, and only
\* when the check of the directory passed or was itself lost.
THEOREM FilesOrdered == Spec => []FilesInOrder
<1>1. IInv => FilesInOrder
  <2> SUFFICES ASSUME IInv, NEW p \in Paths, NEW i \in DOMAIN file[p], NEW j \in DOMAIN file[p]
               PROVE  /\ file[p][i].capture \in checked \/ Item(file[p][i].capture, 0) \in lost
                      /\ i < j => Precedes(file[p][i], file[p][j])
    BY DEF FilesInOrder, Precedes
  <2>1. DOMAIN file[p] = 1 .. Len(file[p])
    BY LenProperties DEF IInv, Typed
  <2>2. file[p][i] \in Done(p)
    BY <2>1 DEF Done, Items
  <2> QED BY <2>1, <2>2 DEF IInv, CheckAhead, Ordered, Rising
<1> QED BY <1>1, Staged, PTL
=============================================================================
