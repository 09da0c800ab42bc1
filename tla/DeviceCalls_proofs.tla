------------------------- MODULE DeviceCalls_proofs -------------------------
(***************************************************************************)
(* DeviceCalls for any callers and profiles: release() keeps a link that a *)
(* later call has written on and drops any other, no set of calls waits    *)
(* for one another's locks, nothing lands inside what must go out back to  *)
(* back, and the check of a secret goes ahead of every frame it can.       *)
(*                                                                         *)
(* The locks are ranked.  A body never asks for a lock below one it holds, *)
(* which is shown body by body; the queues of the locks agree with what    *)
(* the calls still have to do; so of any calls that wait, the first in     *)
(* line for the highest of their locks waits for none of the others.       *)
(*                                                                         *)
(* Every step of a body is taken under what it needs: a frame under the    *)
(* locks that keep it out of a section, a section under those of all that  *)
(* would disturb it, two frames in a row under a hold of the heartbeat.    *)
(* That too is shown body by body and holds of every rest of a body; a     *)
(* lock that is open in the rest of a call is one the call holds.          *)
(*                                                                         *)
(* Of the checks: a body sends no frame before its check, and none after a *)
(* wait for a lock before the next; a check that is owed on the link is    *)
(* pending or with a call in line, and who goes on without it is excused.  *)
(***************************************************************************)
EXTENDS DeviceCalls, FiniteSetTheorems, SequenceTheorems, WellFoundedInduction, TLAPS

-----------------------------------------------------------------------------
(* What release() asks about.                                              *)

\* The latest ticket recorded for a link is the latest of those that wrote on it.
LinkWriteHolds ==
    link > 0 =>
        IF linkWrite.link = link
        THEN /\ \E u \in Tasks : wroteOn[u] = link /\ ticket[u] = linkWrite.ticket
             /\ \A u \in Tasks : wroteOn[u] = link => ticket[u] <= linkWrite.ticket
        ELSE \A u \in Tasks : wroteOn[u] # link

RInv ==
    /\ link \in Nat /\ links \in Nat /\ link \in {0, links}
    /\ ticket \in [Tasks -> Nat] /\ wroteOn \in [Tasks -> Nat] /\ linkWrite \in [link : Nat, ticket : Nat]
    /\ stage = [t \in Tasks |-> stage[t]] /\ released = [t \in Tasks |-> released[t]]
    /\ \A t \in Tasks : ticket[t] = 0 => stage[t] = "idle" /\ wroteOn[t] = 0
    /\ \A t \in Tasks : wroteOn[t] <= links
    /\ linkWrite.link <= links
    /\ LinkWriteHolds

LEMMA RunStage ==
    ASSUME NEW s, NEW t, Run(s, t)
    PROVE  \E x : stage' = [stage EXCEPT ![t] = x]
BY DEF Run

\* A step that writes nothing down.
LEMMA NothingWritten ==
    ASSUME RInv, NEW t \in Tasks, stage[t] # "idle", NEW x, stage' = [stage EXCEPT ![t] = x],
           UNCHANGED <<ticket, linkWrite, wroteOn, links>>, link' \in {link, 0},
           released' = [u \in Tasks |-> released'[u]]
    PROVE  RInv'
<1>1. stage' = [u \in Tasks |-> stage'[u]] /\ \A u \in Tasks : u # t => stage'[u] = stage[u]
  BY DEF RInv
<1>2. LinkWriteHolds'
  BY DEF RInv, LinkWriteHolds
<1> QED BY <1>1, <1>2 DEF RInv

\* An operation of the connection ends.
LEMMA WroteKeeps ==
    ASSUME RInv, NEW t \in Tasks, stage[t] # "idle", NEW x, stage' = [stage EXCEPT ![t] = x],
           NEW out, Wrote(t, out), UNCHANGED <<ticket, links, released>>, link' \in {link, 0}
    PROVE  RInv'
<1>1. CASE UNCHANGED <<linkWrite, wroteOn>>
  BY <1>1, NothingWritten DEF RInv
<1>2. CASE ~UNCHANGED <<linkWrite, wroteOn>>
  <2>1. /\ link > 0 /\ wroteOn' = [wroteOn EXCEPT ![t] = link]
        /\ linkWrite' = [link |-> link,
                         ticket |-> IF linkWrite.link = link /\ linkWrite.ticket > ticket[t]
                                    THEN linkWrite.ticket ELSE ticket[t]]
    BY <1>2 DEF Wrote
  <2>2. /\ \A u \in Tasks : wroteOn'[u] = IF u = t THEN link ELSE wroteOn[u]
        /\ wroteOn' \in [Tasks -> Nat]
    BY <2>1 DEF RInv
  <2>3. linkWrite' \in [link : Nat, ticket : Nat] /\ linkWrite'.link = link
    BY <2>1 DEF RInv
  <2>4. linkWrite'.ticket = IF linkWrite.link = link /\ linkWrite.ticket > ticket[t]
                            THEN linkWrite.ticket ELSE ticket[t]
    BY <2>1
  <2>5. stage' = [u \in Tasks |-> stage'[u]] /\ \A u \in Tasks : u # t => stage'[u] = stage[u]
    BY DEF RInv
  <2>6. LinkWriteHolds'
    <3> SUFFICES ASSUME link' = link
                 PROVE  /\ \E u \in Tasks : wroteOn'[u] = link /\ ticket[u] = linkWrite'.ticket
                        /\ \A u \in Tasks : wroteOn'[u] = link => ticket[u] <= linkWrite'.ticket
      BY <2>1, <2>3 DEF LinkWriteHolds
    <3>1. CASE linkWrite.link = link /\ linkWrite.ticket > ticket[t]
      BY <2>1, <2>2, <2>4, <3>1 DEF RInv, LinkWriteHolds
    <3>2. CASE linkWrite.link = link /\ ~(linkWrite.ticket > ticket[t])
      BY <2>1, <2>2, <2>4, <3>2 DEF RInv, LinkWriteHolds
    <3>3. CASE linkWrite.link # link
      BY <2>1, <2>2, <2>4, <3>3 DEF RInv, LinkWriteHolds
    <3> QED BY <3>1, <3>2, <3>3
  <2>7. \A u \in Tasks : (ticket'[u] = 0 => stage'[u] = "idle" /\ wroteOn'[u] = 0) /\ wroteOn'[u] <= links
    BY <2>2, <2>5 DEF RInv
  <2> QED BY <2>2, <2>3, <2>5, <2>6, <2>7 DEF RInv
<1> QED BY <1>1, <1>2

LEMMA StartKeepsTickets ==
    ASSUME RInv, NEW t \in Tasks, Start(t)
    PROVE  RInv'
<1>1. /\ ticket[t] = 0 /\ ticket' = [ticket EXCEPT ![t] = Tickets + 1]
      /\ UNCHANGED <<linkWrite, link, links, wroteOn, released>>
  BY DEF Start, linkVars
<1>2. PICK x : stage' = [stage EXCEPT ![t] = x]
  BY RunStage DEF Start
<1>3. Tickets \in Nat
  <2>1. IsFiniteSet({u \in Tasks : ticket[u] > 0})
    BY DeviceCallsAssumption, FS_Subset
  <2> QED BY <2>1, FS_CardinalityType DEF Tickets
<1>4. /\ ticket' \in [Tasks -> Nat] /\ ticket'[t] > 0 /\ \A u \in Tasks : u # t => ticket'[u] = ticket[u]
      /\ stage' = [u \in Tasks |-> stage'[u]] /\ \A u \in Tasks : u # t => stage'[u] = stage[u]
  BY <1>1, <1>2, <1>3 DEF RInv
<1>5. wroteOn[t] = 0
  BY <1>1 DEF RInv
<1>6. LinkWriteHolds'
  BY <1>1, <1>4, <1>5 DEF RInv, LinkWriteHolds
<1> QED BY <1>1, <1>4, <1>6 DEF RInv

\* What a coroutine may change.
IsState(s) ==
    s = [todo |-> s.todo, stage |-> s.stage, queue |-> s.queue, pending |-> s.pending, taken |-> s.taken,
         early |-> s.early, excused |-> s.excused, up |-> s.up]

\* A call that leaves the connection runs on with the link it was given.
Released(t) == [queue EXCEPT !["conn"] = RemoveFirst(@, t)]

LEMMA LeftFields ==
    ASSUME NEW t, NEW up
    PROVE  /\ IsState(Left(t, up)) /\ Left(t, up).todo = todo[t] /\ Left(t, up).stage = "run" /\ Left(t, up).up = up
           /\ Left(t, up).pending = pending /\ Left(t, up).taken = taken[t]
           /\ Left(t, up).early = early /\ Left(t, up).excused = excused
           /\ Left(t, up).queue = Released(t)
<1> DEFINE n == Now(t)
           q == [queue EXCEPT !["conn"] = RemoveFirst(@, t)]
           r == Left(t, up)
<1>1. /\ n = [todo |-> todo[t], stage |-> "run", queue |-> queue, pending |-> pending, taken |-> taken[t],
               early |-> early, excused |-> excused, up |-> link]
      /\ n.queue = queue
  BY DEF Now
<1>2. r = [n EXCEPT !.queue = q, !.up = up]
  <2>1. r = [n EXCEPT !.queue["conn"] = RemoveFirst(@, t), !.up = up]
    BY DEF Left
  <2>2. r = [n EXCEPT !.queue = [n.queue EXCEPT !["conn"] = RemoveFirst(@, t)], !.up = up]
    BY <2>1
  <2> QED BY <1>1, <2>2
<1> HIDE DEF n, q, r
<1>3. r = [todo |-> todo[t], stage |-> "run", queue |-> q, pending |-> pending, taken |-> taken[t],
           early |-> early, excused |-> excused, up |-> up]
  BY <1>1, <1>2
<1>4. /\ IsState(r) /\ r.todo = todo[t] /\ r.stage = "run" /\ r.up = up /\ r.queue = q
      /\ r.pending = pending /\ r.taken = taken[t] /\ r.early = early /\ r.excused = excused
  BY <1>3 DEF IsState
<1> QED BY <1>4 DEF q, r, Released

LEMMA Next1Fields ==
    ASSUME NEW s, IsState(s)
    PROVE  /\ IsState(Next1(s)) /\ Next1(s).todo = Tail(s.todo) /\ Next1(s).stage = s.stage
           /\ Next1(s).queue = s.queue /\ Next1(s).pending = s.pending /\ Next1(s).taken = s.taken
           /\ Next1(s).early = s.early /\ Next1(s).excused = s.excused /\ Next1(s).up = s.up
<1> DEFINE rest == Tail(s.todo)
           r == Next1(s)
<1>1. r = [s EXCEPT !.todo = rest]
  BY DEF Next1
<1> HIDE DEF rest, r
<1>2. r = [todo |-> rest, stage |-> s.stage, queue |-> s.queue, pending |-> s.pending, taken |-> s.taken,
           early |-> s.early, excused |-> s.excused, up |-> s.up]
  BY <1>1 DEF IsState
<1>3. /\ IsState(r) /\ r.todo = rest /\ r.stage = s.stage /\ r.queue = s.queue /\ r.pending = s.pending
      /\ r.taken = s.taken /\ r.early = s.early /\ r.excused = s.excused /\ r.up = s.up
  BY <1>2 DEF IsState
<1> QED BY <1>3 DEF r, rest

\* What an exception leaves to do.
ThrownAt(p, cancelled) ==
    LET caught == {i \in 1 .. Len(p) : p[i] = Except}
    IN  IF cancelled \/ caught = {} THEN Len(p) ELSE CHOOSE i \in caught : TRUE

LEMMA ThrownFields ==
    ASSUME NEW s, NEW t, NEW cancelled, IsState(s)
    PROVE  LET r == Thrown(s, t, cancelled)
           IN  /\ IsState(r) /\ r.todo = SubSeq(s.todo, ThrownAt(s.todo, cancelled) + 1, Len(s.todo))
               /\ r.stage = s.stage /\ r.pending = s.pending /\ r.taken = s.taken
               /\ r.early = s.early /\ r.excused = s.excused /\ r.up = s.up
<1> DEFINE to == ThrownAt(s.todo, cancelled)
           rest == SubSeq(s.todo, to + 1, Len(s.todo))
           lines == [l \in Locks |-> IF l = "conn" \/ stage[t] = l \/ Free(l) \in Range(SubSeq(s.todo, 1, to))
                                     THEN RemoveFirst(s.queue[l], t) ELSE s.queue[l]]
           r == Thrown(s, t, cancelled)
<1>1. r = [s EXCEPT !.todo = rest, !.queue = lines]
  BY Zenon DEF Thrown, Caught, ThrownAt
<1> HIDE DEF rest, lines, r
<1>2. r = [todo |-> rest, stage |-> s.stage, queue |-> lines, pending |-> s.pending, taken |-> s.taken,
           early |-> s.early, excused |-> s.excused, up |-> s.up]
  BY <1>1 DEF IsState
<1>3. /\ IsState(r) /\ r.todo = rest /\ r.stage = s.stage /\ r.pending = s.pending
      /\ r.taken = s.taken /\ r.early = s.early /\ r.excused = s.excused /\ r.up = s.up
  BY <1>2 DEF IsState
<1> QED BY <1>3 DEF r, rest

\* The connection gives the call up, and its secret check is pending again.
LEMMA RearmedFields ==
    ASSUME NEW s, NEW flag, IsState(s)
    PROVE  LET r == [s EXCEPT !.pending = @ \/ flag]
           IN  /\ IsState(r) /\ r.todo = s.todo /\ r.stage = s.stage /\ r.queue = s.queue
               /\ r.pending = (s.pending \/ flag) /\ r.taken = s.taken
               /\ r.early = s.early /\ r.excused = s.excused /\ r.up = s.up
<1> DEFINE p == s.pending \/ flag
           r == [s EXCEPT !.pending = p]
<1>0. r = [s EXCEPT !.pending = p]
  OBVIOUS
<1> HIDE DEF p, r
<1>1. r = [todo |-> s.todo, stage |-> s.stage, queue |-> s.queue, pending |-> p, taken |-> s.taken,
           early |-> s.early, excused |-> s.excused, up |-> s.up]
  BY <1>0 DEF IsState
<1>2. /\ IsState(r) /\ r.todo = s.todo /\ r.stage = s.stage /\ r.queue = s.queue /\ r.pending = p
      /\ r.taken = s.taken /\ r.early = s.early /\ r.excused = s.excused /\ r.up = s.up
  BY <1>1 DEF IsState
<1> QED BY <1>2 DEF r, p

LEMMA UpStays ==
    ASSUME NEW t, NEW up, NEW c
    PROVE  Next1(Left(t, up)).up = up /\ IsState(Thrown(Left(t, up), t, c)) /\ Thrown(Left(t, up), t, c).up = up
<1> DEFINE s == Left(t, up)
<1>1. IsState(s) /\ s.up = up
  BY LeftFields
<1> HIDE DEF s
<1>2. Next1(s).up = up
  BY <1>1, Next1Fields
<1>3. IsState(Thrown(s, t, c)) /\ Thrown(s, t, c).up = up
  BY <1>1, ThrownFields
<1> QED BY <1>2, <1>3 DEF s

LEMMA RInvInit == Init => RInv
BY DEF Init, RInv, LinkWriteHolds

LEMMA RInvNext ==
    ASSUME RInv, [Next]_vars
    PROVE  RInv'
<1>1. ASSUME NEW t \in Tasks, Start(t) PROVE RInv'
  BY <1>1, StartKeepsTickets
<1>2. ASSUME NEW t \in Tasks, NEW s, NEW out, Returns(t, s, out), s.up \in {link, 0}, stage[t] # "idle"
      PROVE  RInv'
  BY <1>2, RunStage, WroteKeeps DEF Returns
<1>3. ASSUME NEW t \in Tasks, NEW s, Resumes(t, s), stage[t] # "idle" PROVE RInv'
  BY <1>3, RunStage, NothingWritten DEF Resumes, linkVars, RInv
<1>4. ASSUME NEW t \in Tasks, TakeLock(t) \/ PairingOver(t) \/ Loaded(t) PROVE RInv'
  BY <1>3, <1>4 DEF TakeLock, PairingOver, Loaded
<1>5. ASSUME NEW t \in Tasks, Succeeds(t) \/ Fails(t) \/ Lost(t) \/ Connected(t) \/ Disconnects(t) \/ Cancel(t) PROVE RInv'
  <2>1. CASE Succeeds(t) \/ Connected(t)
    <3>1. PICK up \in {link, 0}, out \in BOOLEAN : stage[t] # "idle" /\ Returns(t, Next1(Left(t, up)), out)
      BY <2>1 DEF Succeeds, Connected, LinkAfter
    <3>2. Next1(Left(t, up)).up = up
      BY UpStays
    <3> QED BY <1>2, <3>1, <3>2
  <2>2. CASE Fails(t) \/ Lost(t) \/ Disconnects(t)
    <3>1. PICK up \in {link, 0}, out \in BOOLEAN : stage[t] # "idle" /\ Returns(t, Thrown(Left(t, up), t, FALSE), out)
      BY <2>2 DEF Fails, Lost, Disconnects, LinkAfter, Turn
    <3>2. Thrown(Left(t, up), t, FALSE).up = up
      BY UpStays
    <3> QED BY <1>2, <3>1, <3>2
  <2>3. CASE Cancel(t)
    <3>1. PICK up, rearm, out : up \in {link, 0} /\
             stage[t] # "idle" /\ Returns(t, [Thrown(Left(t, up), t, TRUE) EXCEPT !.pending = @ \/ rearm], out)
      BY <2>3, Zenon DEF Cancel
    <3> DEFINE s == Thrown(Left(t, up), t, TRUE)
               r == [s EXCEPT !.pending = @ \/ rearm]
    <3>2. IsState(s) /\ s.up = up
      BY UpStays
    <3>4. stage[t] # "idle" /\ Returns(t, r, out) /\ up \in {link, 0}
      BY <3>1
    <3> HIDE DEF s
    <3>3. r.up = up
      BY <3>2, RearmedFields
    <3> HIDE DEF r
    <3> QED BY <1>2, <3>2, <3>3, <3>4
  <2> QED BY <1>5, <2>1, <2>2, <2>3
<1>6. ASSUME NEW t \in Tasks, OpStarts(t) \/ CheckRefused(t) \/ Retry(t) \/ ReleaseDrops(t) PROVE RInv'
  <2>1. stage[t] # "idle" /\ \E x : stage' = [stage EXCEPT ![t] = x]
    BY <1>6 DEF OpStarts, CheckRefused, Retry, ReleaseDrops, Turn
  <2>2. UNCHANGED <<ticket, linkWrite, wroteOn, links>> /\ link' \in {link, 0}
    BY <1>6 DEF OpStarts, CheckRefused, Retry, ReleaseDrops, deviceVars, history
  <2>3. released' = [u \in Tasks |-> released'[u]]
    BY <1>6 DEF OpStarts, CheckRefused, Retry, ReleaseDrops, history, RInv
  <2> QED BY <2>1, <2>2, <2>3, NothingWritten
<1>7. ASSUME NEW t \in Tasks, ReleaseKeeps(t) \/ ReleaseEnds(t) PROVE RInv'
  <2>1. stage[t] # "idle" /\ \E x : stage' = [stage EXCEPT ![t] = x]
    BY <1>7, RunStage DEF ReleaseKeeps, ReleaseEnds, Turn
  <2>2. /\ UNCHANGED <<ticket, linkWrite, wroteOn, links>> /\ link' \in {link, 0}
        /\ released' = [u \in Tasks |-> released'[u]]
    BY <1>7 DEF ReleaseKeeps, ReleaseEnds, linkVars, RInv
  <2> QED BY <2>1, <2>2, NothingWritten
<1>8. ASSUME NEW t \in Tasks, SetUp(t) PROVE RInv'
  <2>1. /\ stage[t] = "setup" /\ links' = links + 1 /\ link' = links + 1
        /\ stage' = [stage EXCEPT ![t] = "wire"] /\ UNCHANGED <<ticket, linkWrite, wroteOn, released>>
    BY <1>8 DEF SetUp
  <2>2. stage' = [u \in Tasks |-> stage'[u]] /\ \A u \in Tasks : u # t => stage'[u] = stage[u]
    BY <2>1 DEF RInv
  <2>3. LinkWriteHolds'
    BY <2>1 DEF RInv, LinkWriteHolds
  <2> QED BY <2>1, <2>2, <2>3 DEF RInv
<1>9. ASSUME LinkDrops \/ BeatStarts \/ BeatEnds \/ SetSecret \/ Finished \/ UNCHANGED vars PROVE RInv'
  <2>1. UNCHANGED <<ticket, linkWrite, wroteOn, links, stage, released>> /\ link' \in {link, 0}
    BY <1>9 DEF LinkDrops, BeatStarts, BeatEnds, SetSecret, Finished, vars, deviceVars, linkVars, history
  <2>2. LinkWriteHolds'
    BY <2>1 DEF RInv, LinkWriteHolds
  <2> QED BY <2>1, <2>2 DEF RInv
<1> QED BY <1>1, <1>4, <1>5, <1>6, <1>7, <1>8, <1>9 DEF Next

\* release() drops the link unless a call made after it has written on that very link, and it keeps
\* the link then (_kept_for).
THEOREM LaterWritesKept == Spec => ReleaseKeepsLaterWrites
<1> DEFINE Told == \A t \in Tasks :
          released'[t] # released[t] /\ link > 0
             => (released'[t] = "kept" <=> \E u \in Tasks : ticket[u] > ticket[t] /\ wroteOn[u] = link)
<1>1. ASSUME RInv, [Next]_vars PROVE [Told]_vars
  <2> SUFFICES ASSUME NEW t \in Tasks, released'[t] # released[t], link > 0
               PROVE  released'[t] = "kept" <=> \E u \in Tasks : ticket[u] > ticket[t] /\ wroteOn[u] = link
    OBVIOUS
  <2>1. KeptFor(t) <=> \E u \in Tasks : ticket[u] > ticket[t] /\ wroteOn[u] = link
    BY <1>1 DEF KeptFor, RInv, LinkWriteHolds
  <2>2. ReleaseDrops(t) \/ ReleaseKeeps(t)
    <3>1. \/ \E u \in Tasks : ReleaseDrops(u) \/ ReleaseKeeps(u)
          \/ UNCHANGED released
      BY <1>1 DEF Next, Start, TakeLock, PairingOver, Loaded, Resumes, OpStarts, SetUp, Succeeds, CheckRefused, Fails,
                  Retry, Lost, Connected, ReleaseEnds, Disconnects, Cancel, Returns, LinkDrops, BeatStarts, BeatEnds,
                  SetSecret, Finished, vars, history
    <3> QED BY <1>1, <3>1 DEF ReleaseDrops, ReleaseKeeps, RInv
  <2>3. CASE ReleaseDrops(t)
    BY <1>1, <2>1, <2>3 DEF ReleaseDrops, RInv
  <2>4. CASE ReleaseKeeps(t)
    BY <1>1, <2>1, <2>4 DEF ReleaseKeeps, RInv
  <2> QED BY <2>2, <2>3, <2>4
<1> QED BY RInvInit, RInvNext, <1>1, PTL DEF Spec, ReleaseKeepsLaterWrites

-----------------------------------------------------------------------------
(* The lines of the locks.                                                 *)

\* A line: a queue in which nobody stands twice.
IsLine(q) == q \in Seq(Tasks) /\ \A i, j \in 1 .. Len(q) : q[i] = q[j] => i = j

\* r is q without t.
Without(r, q, t) ==
    /\ IsLine(r)
    /\ \A u : (\E i \in 1 .. Len(r) : r[i] = u) <=> u # t /\ \E i \in 1 .. Len(q) : q[i] = u
    /\ \A i \in 2 .. Len(r) : r[i] # q[1]
    /\ Len(q) > 0 /\ q[1] # t => Len(r) > 0 /\ r[1] = q[1]
    /\ Len(q) > 0 /\ q[1] = t => r = Tail(q)

LEMMA RemoveFirstProperties ==
    ASSUME NEW q, IsLine(q), NEW t
    PROVE  Without(RemoveFirst(q, t), q, t)
<1>0. q \in Seq(Tasks) /\ Len(q) \in Nat /\ \A i \in 1 .. Len(q) : q[i] \in Tasks
  BY LenProperties, ElementOfSeq DEF IsLine
<1>1. CASE ~\E i \in 1 .. Len(q) : q[i] = t
  <2>1. RemoveFirst(q, t) = q
    BY <1>1 DEF RemoveFirst
  <2> QED BY <1>0, <1>1, <2>1 DEF IsLine, Without
<1>2. ASSUME NEW k \in 1 .. Len(q), q[k] = t
      PROVE  Without(RemoveFirst(q, t), q, t)
  <2> DEFINE r == RemoveFirst(q, t)
             a == SubSeq(q, 1, k - 1)
             b == SubSeq(q, k + 1, Len(q))
  <2>1. {i \in 1 .. Len(q) : q[i] = t} = {k}
    BY <1>2 DEF IsLine
  <2>2. SelectInSeq(q, LAMBDA v : v = t) = k
    BY <2>1 DEF SelectInSeq, Min
  <2>3. r = a \o b
    BY <1>2, <2>2 DEF RemoveFirst, RemoveAt
  <2>4. /\ a \in Seq(Tasks) /\ Len(a) = k - 1 /\ \A i \in 1 .. k - 1 : a[i] = q[i]
    <3>1. k - 1 \in Int /\ \A i \in 1 .. k - 1 : q[i] \in Tasks
      BY <1>0
    <3> QED BY <3>1, SubSeqProperties, <1>0
  <2>5. /\ b \in Seq(Tasks) /\ Len(b) = Len(q) - k /\ \A i \in 1 .. Len(q) - k : b[i] = q[k + i]
    <3>1. k + 1 \in Int /\ Len(q) \in Int /\ \A i \in k + 1 .. Len(q) : q[i] \in Tasks
      BY <1>0
    <3>2. /\ b \in Seq(Tasks)
          /\ Len(b) = IF k + 1 <= Len(q) THEN Len(q) - (k + 1) + 1 ELSE 0
          /\ \A i \in 1 .. Len(q) - (k + 1) + 1 : b[i] = q[(k + 1) + i - 1]
      BY <3>1, SubSeqProperties
    <3> QED BY <1>0, <3>2
  <2> HIDE DEF a, b
  <2>6. /\ r \in Seq(Tasks) /\ Len(r) = Len(q) - 1
        /\ \A i \in 1 .. Len(q) - 1 : r[i] = IF i < k THEN q[i] ELSE q[i + 1]
    <3>1. /\ a \o b \in Seq(Tasks) /\ Len(a \o b) = Len(a) + Len(b)
          /\ \A i \in 1 .. Len(a) + Len(b) : (a \o b)[i] = IF i <= Len(a) THEN a[i] ELSE b[i - Len(a)]
      BY <2>4, <2>5, ConcatProperties
    <3>2. Len(a) + Len(b) = Len(q) - 1
      BY <1>0, <2>4, <2>5
    <3>3. ASSUME NEW i \in 1 .. Len(q) - 1 PROVE (a \o b)[i] = IF i < k THEN q[i] ELSE q[i + 1]
      <4>1. CASE i < k
        BY <1>0, <2>4, <2>5, <3>1, <3>2, <4>1
      <4>2. CASE ~(i < k)
        <5>1. i - (k - 1) \in 1 .. Len(q) - k /\ k + (i - (k - 1)) = i + 1
          BY <1>0, <4>2
        <5>2. b[i - (k - 1)] = q[i + 1]
          BY <2>5, <5>1
        <5>3. ~(i <= Len(a)) /\ i \in 1 .. Len(a) + Len(b) /\ i - Len(a) = i - (k - 1)
          BY <1>0, <2>4, <3>2, <4>2
        <5>4. (a \o b)[i] = b[i - (k - 1)]
          BY <3>1, <5>3
        <5> QED BY <4>2, <5>2, <5>4
      <4> QED BY <4>1, <4>2
    <3> QED BY <2>3, <3>1, <3>2, <3>3
  <2> HIDE DEF r
  <2>7. ASSUME NEW i \in 1 .. Len(r), NEW j \in 1 .. Len(r), r[i] = r[j] PROVE i = j
    BY <1>0, <2>6, <2>7 DEF IsLine
  <2>8. ASSUME NEW i \in 1 .. Len(r) PROVE r[i] # t /\ \E j \in 1 .. Len(q) : q[j] = r[i]
    <3>1. CASE i < k
      BY <1>0, <1>2, <2>6, <3>1 DEF IsLine
    <3>2. CASE ~(i < k)
      <4>1. i + 1 \in 1 .. Len(q) /\ r[i] = q[i + 1] /\ i + 1 # k
        BY <1>0, <2>6, <3>2
      <4> QED BY <1>2, <4>1 DEF IsLine
    <3> QED BY <3>1, <3>2
  <2>9. ASSUME NEW j \in 1 .. Len(q), q[j] # t PROVE \E i \in 1 .. Len(r) : r[i] = q[j]
    <3>1. CASE j < k
      BY <1>0, <2>6, <3>1
    <3>2. CASE j > k
      <4>1. j - 1 \in 1 .. Len(r) /\ r[j - 1] = q[j]
        BY <1>0, <2>6, <3>2
      <4> QED BY <4>1
    <3> QED BY <1>0, <1>2, <2>9, <3>1, <3>2
  <2>10. ASSUME NEW i \in 2 .. Len(r) PROVE r[i] # q[1]
    <3>1. i \in 1 .. Len(q) /\ i + 1 \in 1 .. Len(q) /\ 1 \in 1 .. Len(q) /\ i # 1 /\ i + 1 # 1
      BY <1>0, <2>6
    <3> QED BY <1>0, <2>6, <3>1 DEF IsLine
  <2>11. q[1] # t => Len(r) > 0 /\ r[1] = q[1]
    BY <1>0, <1>2, <2>6
  <2>12. q[1] = t => r = Tail(q)
    <3> SUFFICES ASSUME q[1] = t PROVE r = Tail(q)
      OBVIOUS
    <3>1. k = 1
      BY <1>0, <1>2 DEF IsLine
    <3>2. q # <<>> /\ Tail(q) \in Seq(Tasks) /\ Len(Tail(q)) = Len(q) - 1 /\ \A i \in 1 .. Len(Tail(q)) : Tail(q)[i] = q[i + 1]
      BY <1>0, <1>2, HeadTailProperties
    <3> QED BY <1>0, <2>6, <3>1, <3>2, SeqEqual
  <2>13. IsLine(r)
    BY <2>6, <2>7 DEF IsLine
  <2>14. \A u : (\E i \in 1 .. Len(r) : r[i] = u) <=> u # t /\ \E i \in 1 .. Len(q) : q[i] = u
    BY <2>8, <2>9
  <2> QED BY <2>10, <2>11, <2>12, <2>13, <2>14 DEF r, Without
<1> QED BY <1>1, <1>2

-----------------------------------------------------------------------------
(* Parts of a body: what may run under which locks.                        *)

Steps == {"lock", "free", "in", "out", "write", "send", "query", "check", "load", "except"}
    \X (DeviceLocks \cup {"", "hold", "between", "pair", "taps", "bars", "write", "power", "all", "level", "colour",
                          "kelvin+level", "zone", "activate", "connect", "sync", "upload", "drop", "segments",
                          "version", "state", "colours", "secret"})

Rank == [l \in Locks |->
    CASE l = "scene" -> 1 [] l = "brightness" -> 2 [] l = "bar" -> 3 [] l = "gate" -> 4
      [] l = "tap" -> 5 [] l = "pairing" -> 6 [] l = "conn" -> 7]

\* One step with the locks a held, to the locks b: a lock is asked for above all that are held, and
\* a check, which may wait for a read_secret, is not made while holding the pairing lock, save by
\* read_secret (own).
InOrder(x, a, b, own) ==
    /\ x[1] = "lock" => /\ x[2] \in DeviceLocks /\ \A k \in a : Rank[k] < Rank[x[2]]
                        /\ b = a \cup {x[2]}
    /\ x[1] = "free" => x[2] \in a /\ b = a \ {x[2]}
    /\ x[1] \notin {"lock", "free"} => b = a
    /\ x[1] = "check" => own \/ "pairing" \notin a

HeldAlong(p) == [1 .. Len(p) + 1 -> SUBSET DeviceLocks]

\* A part of a body that may run with the locks a held and holds the same at its end: h[i] is held
\* before its i-th step.  Its trys are made holding the locks c, all of them from its second step on.
FitsBy(p, h, a, own, c) ==
    /\ p \in Seq(Steps) /\ h \in HeldAlong(p) /\ h[1] = a /\ h[Len(p) + 1] = a
    /\ \A i \in 1 .. Len(p) : /\ a \subseteq h[i] /\ InOrder(p[i], h[i], h[i + 1], own)
                              /\ i > 1 => c \subseteq h[i]
                              /\ p[i] = Except => h[i] = c
Fits(p, a, own, c) == \E h : FitsBy(p, h, a, own, c)

Below(a, n) == a \subseteq DeviceLocks /\ \A k \in a : Rank[k] < n

LEMMA Ranks ==
    /\ Rank["scene"] = 1 /\ Rank["brightness"] = 2 /\ Rank["bar"] = 3 /\ Rank["gate"] = 4
    /\ Rank["tap"] = 5 /\ Rank["pairing"] = 6 /\ Rank["conn"] = 7
    /\ \A l \in DeviceLocks : Rank[l] \in 1 .. 6 /\ (Rank[l] = 6 => l = "pairing")
BY DEF Rank, Locks, DeviceLocks

LEMMA FitsNothing ==
    ASSUME NEW a \in SUBSET DeviceLocks, NEW own, NEW c
    PROVE  Fits(<<>>, a, own, c)
<1> DEFINE h == [i \in 1 .. 1 |-> a]
<1>1. <<>> \in Seq(Steps) /\ Len(<<>>) = 0
  BY EmptySeq
<1>2. h \in HeldAlong(<<>>) /\ h[1] = a /\ h[Len(<<>>) + 1] = a
  BY <1>1 DEF HeldAlong
<1>3. FitsBy(<<>>, h, a, own, c)
  BY <1>1, <1>2 DEF FitsBy
<1> QED BY <1>3 DEF Fits

LEMMA FitsOne ==
    ASSUME NEW a \in SUBSET DeviceLocks, NEW own, NEW c, NEW x \in Steps,
           x[1] \notin {"lock", "free"}, x[1] = "check" => own \/ "pairing" \notin a, x = Except => a = c
    PROVE  Fits(<<x>>, a, own, c)
<1> DEFINE h == [i \in 1 .. 2 |-> a]
<1>1. <<x>> \in Seq(Steps) /\ Len(<<x>>) = 1 /\ <<x>>[1] = x
  OBVIOUS
<1>2. h \in HeldAlong(<<x>>) /\ h[1] = a /\ h[2] = a /\ Len(<<x>>) + 1 = 2
  BY <1>1 DEF HeldAlong
<1> HIDE DEF h
<1>3. FitsBy(<<x>>, h, a, own, c)
  <2>1. InOrder(x, a, a, own)
    BY DEF InOrder
  <2> QED BY <1>1, <1>2, <2>1 DEF FitsBy
<1> QED BY <1>3 DEF Fits

LEMMA FitsBoth ==
    ASSUME NEW a \in SUBSET DeviceLocks, NEW own, NEW c, NEW p, NEW q,
           c \subseteq a, Fits(p, a, own, c), Fits(q, a, own, c)
    PROVE  Fits(p \o q, a, own, c)
<1>1. PICK h : FitsBy(p, h, a, own, c)
  BY DEF Fits
<1>2. PICK g : FitsBy(q, g, a, own, c)
  BY DEF Fits
<1> DEFINE m == Len(p)
           n == Len(q)
           f == [i \in 1 .. m + n + 1 |-> IF i <= m THEN h[i] ELSE g[i - m]]
<1>3. p \in Seq(Steps) /\ q \in Seq(Steps) /\ m \in Nat /\ n \in Nat
  BY <1>1, <1>2, LenProperties DEF FitsBy
<1>4. /\ p \o q \in Seq(Steps) /\ Len(p \o q) = m + n
      /\ \A i \in 1 .. m + n : (p \o q)[i] = IF i <= m THEN p[i] ELSE q[i - m]
  BY <1>3, ConcatProperties
<1>5. ASSUME NEW i \in 1 .. m + n + 1, ~(i <= m) PROVE i - m \in 1 .. n + 1 /\ f[i] = g[i - m]
  BY <1>3, <1>5
<1>6. ASSUME NEW i \in 1 .. m + n + 1, i <= m + 1 PROVE f[i] = h[i] /\ i \in 1 .. m + 1
  <2>1. CASE i <= m
    BY <1>3, <2>1
  <2>2. CASE i = m + 1
    BY <1>1, <1>2, <1>3, <2>2 DEF FitsBy
  <2> QED BY <1>3, <1>6, <2>1, <2>2
<1>7. \A i \in 1 .. m + n + 1 : f[i] \in SUBSET DeviceLocks
  <2> SUFFICES ASSUME NEW i \in 1 .. m + n + 1 PROVE f[i] \in SUBSET DeviceLocks
    OBVIOUS
  <2>1. CASE i <= m
    BY <1>1, <1>3, <1>6, <2>1 DEF FitsBy, HeldAlong
  <2>2. CASE ~(i <= m)
    BY <1>2, <1>3, <1>5, <2>2 DEF FitsBy, HeldAlong
  <2> QED BY <2>1, <2>2
<1>8. f \in HeldAlong(p \o q)
  BY <1>4, <1>7 DEF HeldAlong
<1>9. f[1] = a /\ f[m + n + 1] = a
  <2>1. f[1] = h[1]
    BY <1>3, <1>6
  <2>2. f[m + n + 1] = g[n + 1]
    BY <1>3, <1>5
  <2> QED BY <1>1, <1>2, <2>1, <2>2 DEF FitsBy
<1> HIDE DEF f
<1>10. ASSUME NEW i \in 1 .. m + n
       PROVE  /\ a \subseteq f[i] /\ InOrder((p \o q)[i], f[i], f[i + 1], own)
              /\ i > 1 => c \subseteq f[i]
              /\ (p \o q)[i] = Except => f[i] = c
  <2>1. CASE i <= m
    <3>1. f[i] = h[i] /\ f[i + 1] = h[i + 1] /\ (p \o q)[i] = p[i] /\ i \in 1 .. m
      BY <1>3, <1>4, <1>6, <2>1
    <3>2. i > 1 => c \subseteq h[i]
      BY <1>1, <3>1 DEF FitsBy
    <3> QED BY <1>1, <3>1, <3>2 DEF FitsBy
  <2>2. CASE ~(i <= m)
    <3>1. /\ f[i] = g[i - m] /\ f[i + 1] = g[(i - m) + 1] /\ (p \o q)[i] = q[i - m] /\ i - m \in 1 .. n
      <4>1. i + 1 \in 1 .. m + n + 1 /\ ~(i + 1 <= m) /\ i \in 1 .. m + n + 1 /\ (i + 1) - m = (i - m) + 1
        BY <1>3, <2>2
      <4> QED BY <1>3, <1>4, <1>5, <2>2, <4>1
    <3> QED BY <1>2, <3>1 DEF FitsBy
  <2> QED BY <2>1, <2>2
<1>11. FitsBy(p \o q, f, a, own, c)
  BY <1>4, <1>8, <1>9, <1>10 DEF FitsBy
<1> QED BY <1>11 DEF Fits

\* A with statement: its lock is above all that are held.
LEMMA FitsUnder ==
    ASSUME NEW a \in SUBSET DeviceLocks, NEW own, NEW c, NEW p, NEW l \in DeviceLocks,
           \A k \in a : Rank[k] < Rank[l], c \subseteq a \cup {l},
           Fits(p, a \cup {l}, own, c)
    PROVE  Fits(Under(l, p), a, own, c)
<1>1. PICK h : FitsBy(p, h, a \cup {l}, own, c)
  BY DEF Fits
<1> DEFINE n == Len(p)
           q == Under(l, p)
           f == [i \in 1 .. n + 3 |-> IF i = 1 \/ i = n + 3 THEN a ELSE h[i - 1]]
<1>2. p \in Seq(Steps) /\ n \in Nat
  BY <1>1, LenProperties DEF FitsBy
<1>3. l \notin a
  BY Ranks
<1>4. /\ q \in Seq(Steps) /\ Len(q) = n + 2 /\ q[1] = Lock(l) /\ q[n + 2] = Free(l)
      /\ \A i \in 2 .. n + 1 : q[i] = p[i - 1]
  <2>1. <<Lock(l)>> \in Seq(Steps) /\ <<Free(l)>> \in Seq(Steps) /\ Len(<<Lock(l)>>) = 1 /\ Len(<<Free(l)>>) = 1
    <3>1. Lock(l) \in Steps /\ Free(l) \in Steps
      BY DEF Lock, Free, Steps
    <3> QED BY <3>1
  <2>2. /\ <<Lock(l)>> \o p \in Seq(Steps) /\ Len(<<Lock(l)>> \o p) = n + 1
        /\ \A i \in 1 .. n + 1 : (<<Lock(l)>> \o p)[i] = IF i <= 1 THEN <<Lock(l)>>[i] ELSE p[i - 1]
    BY <1>2, <2>1, ConcatProperties
  <2>3. /\ (<<Lock(l)>> \o p) \o <<Free(l)>> \in Seq(Steps) /\ Len((<<Lock(l)>> \o p) \o <<Free(l)>>) = n + 2
        /\ \A i \in 1 .. n + 2 : ((<<Lock(l)>> \o p) \o <<Free(l)>>)[i]
              = IF i <= n + 1 THEN (<<Lock(l)>> \o p)[i] ELSE <<Free(l)>>[i - (n + 1)]
    BY <1>2, <2>1, <2>2, ConcatProperties
  <2> QED BY <1>2, <2>2, <2>3 DEF Under
<1> HIDE DEF q
<1>5. /\ f[1] = a /\ f[n + 3] = a /\ \A i \in 2 .. n + 2 : f[i] = h[i - 1] /\ i - 1 \in 1 .. n + 1
      /\ f \in [1 .. n + 3 -> SUBSET DeviceLocks]
  <2>1. /\ f[1] = a /\ f[n + 3] = a /\ \A i \in 2 .. n + 2 : f[i] = h[i - 1] /\ i - 1 \in 1 .. n + 1
    BY <1>2
  <2>2. \A i \in 1 .. n + 3 : f[i] \in SUBSET DeviceLocks
    <3>1. \A i \in 1 .. n + 1 : h[i] \in SUBSET DeviceLocks
      BY <1>1 DEF FitsBy, HeldAlong
    <3>2. ASSUME NEW i \in 1 .. n + 3 PROVE i = 1 \/ i = n + 3 \/ i \in 2 .. n + 2
      BY <1>2
    <3> QED BY <2>1, <3>1, <3>2
  <2> QED BY <2>1, <2>2
<1> HIDE DEF f
<1>6. f \in HeldAlong(q)
  BY <1>2, <1>4, <1>5 DEF HeldAlong
<1>7. ASSUME NEW i \in 1 .. n + 2
      PROVE  /\ a \subseteq f[i] /\ InOrder(q[i], f[i], f[i + 1], own)
             /\ i > 1 => c \subseteq f[i]
             /\ q[i] = Except => f[i] = c
  <2>1. CASE i = 1
    <3>1. f[2] = a \cup {l}
      BY <1>1, <1>2, <1>5 DEF FitsBy
    <3>2. InOrder(Lock(l), a, a \cup {l}, own) /\ Lock(l) # Except
      BY DEF InOrder, Lock, Except
    <3>3. f[i] = a /\ f[i + 1] = a \cup {l} /\ q[i] = Lock(l)
      BY <1>4, <1>5, <2>1, <3>1
    <3> QED BY <2>1, <3>2, <3>3
  <2>2. CASE i = n + 2
    <3>1. f[n + 2] = a \cup {l} /\ (n + 2) + 1 = n + 3
      BY <1>1, <1>2, <1>5 DEF FitsBy
    <3>2. (a \cup {l}) \ {l} = a
      BY <1>3
    <3>3. InOrder(Free(l), a \cup {l}, a, own) /\ Free(l) # Except
      BY <3>2 DEF InOrder, Free, Except
    <3> QED BY <1>2, <1>4, <1>5, <2>2, <3>1, <3>3
  <2>3. CASE i \in 2 .. n + 1
    <3>1. f[i] = h[i - 1] /\ f[i + 1] = h[(i - 1) + 1] /\ q[i] = p[i - 1] /\ i - 1 \in 1 .. n
      <4>1. i + 1 \in 2 .. n + 2 /\ (i + 1) - 1 = (i - 1) + 1
        BY <1>2, <2>3
      <4> QED BY <1>2, <1>4, <1>5, <2>3, <4>1
    <3>2. /\ a \cup {l} \subseteq h[i - 1] /\ InOrder(p[i - 1], h[i - 1], h[(i - 1) + 1], own)
          /\ p[i - 1] = Except => h[i - 1] = c
      BY <1>1, <3>1 DEF FitsBy
    <3> QED BY <3>1, <3>2
  <2> QED BY <1>2, <2>1, <2>2, <2>3
<1>8. FitsBy(q, f, a, own, c)
  BY <1>2, <1>4, <1>5, <1>6, <1>7 DEF FitsBy
<1> QED BY <1>8 DEF Fits, q

-----------------------------------------------------------------------------
(* Whole bodies, and the parts they are put together from.                 *)

\* A call from its first step on: its locks are left at the end, and those a try was made under
\* are held from its second step on.
OrderedBy(p, h, held, own) ==
    /\ p \in Seq(Steps) /\ h \in HeldAlong(p) /\ h[1] = held /\ h[Len(p) + 1] = {}
    /\ \A i \in 1 .. Len(p) : InOrder(p[i], h[i], h[i + 1], own)
    /\ \A e \in 1 .. Len(p) : p[e] = Except => \A i \in 2 .. e : h[e] \subseteq h[i]
Ordered(p, held, own) == \E h : OrderedBy(p, h, held, own)

LEMMA OrderedIfFits ==
    ASSUME NEW p, NEW own, NEW c, Fits(p, {}, own, c)
    PROVE  Ordered(p, {}, own)
<1>1. PICK h : FitsBy(p, h, {}, own, c)
  BY DEF Fits
<1>2. p \in Seq(Steps) /\ Len(p) \in Nat
  BY <1>1, LenProperties DEF FitsBy
<1>3. OrderedBy(p, h, {}, own)
  BY <1>1, <1>2 DEF FitsBy, OrderedBy
<1> QED BY <1>3 DEF Ordered

Names == {"", "power", "all", "level", "colour", "kelvin+level", "zone", "bars", "activate", "tap", "sync",
          "upload", "drop", "connect", "segments", "version", "state", "colours", "secret"}
Sections == {"hold", "between", "pair", "taps", "bars", "scene"}

LEMMA FitsPlain ==
    ASSUME NEW a \in SUBSET DeviceLocks, NEW own, NEW c
    PROVE  /\ \A f \in Names : /\ Fits(<<Write(f)>>, a, own, c) /\ Fits(<<Send(f)>>, a, own, c)
                               /\ Fits(<<Query(f)>>, a, own, c)
           /\ \A s \in Sections : Fits(<<In(s)>>, a, own, c) /\ Fits(<<Out(s)>>, a, own, c)
           /\ Fits(<<Load>>, a, own, c)
           /\ own \/ "pairing" \notin a => Fits(<<Check>>, a, own, c) /\ Fits(<<CheckFor>>, a, own, c)
           /\ a = c => Fits(<<Except>>, a, own, c)
<1>1. ASSUME NEW f \in Names
      PROVE  /\ Write(f) \in Steps /\ Write(f)[1] = "write" /\ Write(f) # Except
             /\ Send(f) \in Steps /\ Send(f)[1] = "send" /\ Send(f) # Except
             /\ Query(f) \in Steps /\ Query(f)[1] = "query" /\ Query(f) # Except
  BY DEF Names, Steps, Write, Send, Query, Except, DeviceLocks
<1>2. ASSUME NEW s \in Sections
      PROVE  /\ In(s) \in Steps /\ In(s)[1] = "in" /\ In(s) # Except
             /\ Out(s) \in Steps /\ Out(s)[1] = "out" /\ Out(s) # Except
  BY DEF Sections, Steps, In, Out, Except, DeviceLocks
<1>3. /\ Load \in Steps /\ Load[1] = "load" /\ Load # Except
      /\ Check \in Steps /\ Check[1] = "check" /\ Check # Except
      /\ CheckFor \in Steps /\ CheckFor[1] = "check" /\ CheckFor # Except
      /\ Except \in Steps /\ Except[1] = "except"
  BY DEF Steps, Load, Check, CheckFor, Except
<1>4. \A f \in Names : Fits(<<Write(f)>>, a, own, c) /\ Fits(<<Send(f)>>, a, own, c) /\ Fits(<<Query(f)>>, a, own, c)
  BY <1>1, FitsOne
<1>5. \A s \in Sections : Fits(<<In(s)>>, a, own, c) /\ Fits(<<Out(s)>>, a, own, c)
  BY <1>2, FitsOne
<1> QED BY <1>3, <1>4, <1>5, FitsOne

LEMMA TwoSteps ==
    ASSUME NEW x, NEW y
    PROVE  <<x>> \o <<y>> = <<x, y>>
<1> DEFINE S == {x, y}
<1>1. <<x>> \in Seq(S) /\ <<y>> \in Seq(S) /\ <<x, y>> \in Seq(S) /\ Len(<<x>>) = 1 /\ Len(<<y>>) = 1
      /\ Len(<<x, y>>) = 2 /\ <<x, y>>[1] = x /\ <<x, y>>[2] = y
  OBVIOUS
<1>2. /\ <<x>> \o <<y>> \in Seq(S) /\ Len(<<x>> \o <<y>>) = 2
      /\ (<<x>> \o <<y>>)[1] = x /\ (<<x>> \o <<y>>)[2] = y
  BY <1>1, ConcatProperties
<1> HIDE DEF S
<1>3. \A i \in 1 .. 2 : (<<x>> \o <<y>>)[i] = <<x, y>>[i]
  BY <1>1, <1>2
<1>4. Len(<<x>> \o <<y>>) = Len(<<x, y>>) /\ \A i \in 1 .. Len(<<x>> \o <<y>>) : (<<x>> \o <<y>>)[i] = <<x, y>>[i]
  BY <1>1, <1>2, <1>3
<1> QED BY <1>1, <1>2, <1>4, SeqEqual, Zenon

LEMMA FitsPair ==
    ASSUME NEW a \in SUBSET DeviceLocks, NEW own, NEW c, c \subseteq a, NEW x, NEW y,
           Fits(<<x>>, a, own, c), Fits(<<y>>, a, own, c)
    PROVE  Fits(<<x, y>>, a, own, c)
<1>1. Fits(<<x>> \o <<y>>, a, own, c)
  BY FitsBoth
<1> QED BY <1>1, TwoSteps

LEMMA FitsBetween ==
    ASSUME NEW a \in SUBSET DeviceLocks, NEW own, NEW c, c \subseteq a, NEW p, Fits(p, a, own, c), NEW s \in Sections
    PROVE  Fits(<<In(s)>> \o p \o <<Out(s)>>, a, own, c)
BY FitsPlain, FitsBoth

LEMMA FitsThen ==
    ASSUME NEW a \in SUBSET DeviceLocks, NEW own, NEW c, c \subseteq a, NEW p, NEW q,
           Fits(p, a, own, c), Fits(q, a, own, c)
    PROVE  Fits(Then(p, q), a, own, c)
<1>1. Fits(p \o q, a, own, c)
  BY FitsBoth
<1>2. Fits(<<In("between")>>, a, own, c) /\ Fits(<<Out("between")>>, a, own, c)
  BY FitsPlain DEF Sections
<1>3. Fits(p \o <<In("between")>> \o q \o <<Out("between")>>, a, own, c)
  BY <1>2, FitsBoth
<1> QED BY <1>1, <1>3 DEF Then

LEMMA FitsHolding ==
    ASSUME NEW a \in SUBSET DeviceLocks, NEW own, NEW c, c \subseteq a, NEW p, Fits(p, a, own, c)
    PROVE  Fits(HoldingHeartbeat(p), a, own, c)
BY FitsBetween DEF HoldingHeartbeat, Sections

LEMMA FitsCommit ==
    ASSUME NEW a, Below(a, 5), NEW own, NEW c, c \subseteq a, NEW f \in Names
    PROVE  Fits(Commit(f), a, own, c)
<1>1. /\ a \in SUBSET DeviceLocks /\ "pairing" \notin a /\ "tap" \in DeviceLocks
      /\ \A k \in a : Rank[k] < Rank["tap"]
  BY Ranks DEF Below, DeviceLocks
<1>2. Fits(Under("tap", <<Send("tap")>>), a, own, c)
  <2>1. Fits(<<Send("tap")>>, a \cup {"tap"}, own, c)
    BY <1>1, FitsPlain DEF Names
  <2> QED BY <1>1, <2>1, FitsUnder
<1>3. Fits(<<CheckFor, Write(f)>>, a, own, c)
  <2>1. Fits(<<CheckFor>> \o <<Write(f)>>, a, own, c)
    BY <1>1, FitsPlain, FitsBoth
  <2>2. <<CheckFor>> \o <<Write(f)>> = <<CheckFor, Write(f)>>
    BY TwoSteps
  <2> QED BY <2>1, <2>2
<1> QED BY <1>2, <1>3 DEF Commit

LEMMA FitsReading ==
    ASSUME NEW a, Below(a, 4), NEW own, NEW c, c \subseteq a, NEW f \in Names
    PROVE  Fits(Reading(f), a, own, c) /\ \A p \in MaybeReading(f) : Fits(p, a, own, c)
<1>1. /\ a \in SUBSET DeviceLocks /\ "pairing" \notin a \cup {"gate"} /\ "gate" \in DeviceLocks
      /\ \A k \in a : Rank[k] < Rank["gate"]
  BY Ranks DEF Below, DeviceLocks
<1>2. Fits(<<Check, Query(f)>>, a \cup {"gate"}, own, c)
  <2>1. Fits(<<Check>> \o <<Query(f)>>, a \cup {"gate"}, own, c)
    BY <1>1, FitsPlain, FitsBoth
  <2>2. <<Check>> \o <<Query(f)>> = <<Check, Query(f)>>
    BY TwoSteps
  <2> QED BY <2>1, <2>2
<1>3. Fits(Reading(f), a, own, c)
  BY <1>1, <1>2, FitsUnder DEF Reading
<1> QED BY <1>1, <1>3, FitsNothing DEF MaybeReading

LEMMA FitsBarLock ==
    ASSUME NEW a, Below(a, 3), NEW own, NEW c, c \subseteq a, NEW p,
           Fits(p, a, own, c), Fits(p, a \cup {"bar"}, own, c)
    PROVE  Fits(InZonePowerLock(p), a, own, c)
<1>1. a \in SUBSET DeviceLocks /\ "bar" \in DeviceLocks /\ \A k \in a : Rank[k] < Rank["bar"]
  BY Ranks DEF Below, DeviceLocks
<1> QED BY <1>1, FitsUnder DEF InZonePowerLock, UnderIf

-----------------------------------------------------------------------------
(* The bodies of the calls, one by one.                                    *)

\* What is held at the outermost level, or under the brightness lock; the trys of a call are there.
LEMMA FitsParts ==
    ASSUME NEW a, a \in {{}, {"brightness"}}, NEW own
    PROVE  /\ \A f \in Names : Fits(Commit(f), a, own, a) /\ Fits(InZonePowerLock(Commit(f)), a, own, a)
           /\ Fits(ResyncAfterPower, a, own, a)
           /\ \A p \in EnsureSegmentCount \cup HeldBrightness : Fits(p, a, own, a)
<1>1. Below(a, 3) /\ Below(a, 4) /\ Below(a, 5) /\ Below(a \cup {"bar"}, 5) /\ a \in SUBSET DeviceLocks
  BY Ranks DEF Below, DeviceLocks
<1>2. \A f \in Names : Fits(Commit(f), a, own, a) /\ Fits(InZonePowerLock(Commit(f)), a, own, a)
  BY <1>1, FitsCommit, FitsBarLock
<1>3. Fits(ResyncAfterPower, a, own, a)
  <2>1. Fits(Reading("version"), a, own, a) /\ Fits(<<Send("sync")>>, a, own, a) /\ Fits(<<Except>>, a, own, a)
    BY <1>1, FitsReading, FitsPlain DEF Names
  <2>2. Fits(<<Send("sync"), Except>>, a, own, a)
    BY <1>1, <2>1, FitsPair
  <2>3. Fits(Reading("version") \o <<Send("sync"), Except>>, a, own, a)
    BY <1>1, <2>1, <2>2, FitsBoth
  <2> QED BY <1>1, <2>3, FitsNothing DEF ResyncAfterPower
<1>4. \A p \in EnsureSegmentCount \cup HeldBrightness : Fits(p, a, own, a)
  <2>1. Fits(<<>>, a, own, a) /\ \A p \in MaybeReading("segments") \cup MaybeReading("level") : Fits(p, a, own, a)
    BY <1>1, FitsReading, FitsNothing DEF Names
  <2> QED BY <2>1 DEF EnsureSegmentCount, HeldBrightness
<1> QED BY <1>2, <1>3, <1>4

LEMMA OrderedBrightness ==
    ASSUME NEW p, NEW own, Fits(p, {}, own, {}), Fits(p, {"brightness"}, own, {"brightness"})
    PROVE  Ordered(InBrightnessLock(p), {}, own)
<1>1. {} \in SUBSET DeviceLocks /\ "brightness" \in DeviceLocks /\ {} \cup {"brightness"} = {"brightness"}
  BY DEF DeviceLocks
<1>2. Fits(Under("brightness", p), {}, own, {"brightness"})
  BY <1>1, FitsUnder
<1> QED BY <1>2, OrderedIfFits DEF InBrightnessLock, UnderIf

LEMMA FitsTaps ==
    ASSUME NEW own, NEW both
    PROVE  Ordered(TurnOnTaps(both), {}, own)
<1> DEFINE a == {"tap"}
           one == <<Send("tap"), Out("taps")>>
           pre == IF both THEN <<Send("tap")>> ELSE <<>>
<1>1. a \in SUBSET DeviceLocks /\ {} \in SUBSET DeviceLocks /\ {} \subseteq a /\ {} \cup a = a /\ "tap" \in DeviceLocks
  BY DEF DeviceLocks
<1>2. Fits(<<In("taps")>>, a, own, {}) /\ Fits(<<Out("taps")>>, a, own, {}) /\ Fits(<<Send("tap")>>, a, own, {})
  BY <1>1, FitsPlain DEF Names, Sections
<1>3. Fits(one, a, own, {})
  BY <1>1, <1>2, FitsPair, FitsBoth
<1>4. Fits(pre, a, own, {})
  BY <1>1, <1>2, FitsNothing
<1>5. Fits(<<In("taps")>> \o pre \o one, a, own, {})
  BY <1>1, <1>2, <1>3, <1>4, FitsBoth
<1>6. Fits(Under("tap", <<In("taps")>> \o pre \o one), {}, own, {})
  BY <1>1, <1>5, FitsUnder
<1> QED BY <1>6, OrderedIfFits DEF TurnOnTaps

LEMMA OrderedSetPower ==
    ASSUME NEW own
    PROVE  Ordered(SetPower, {}, own)
<1>1. {} \in SUBSET DeviceLocks /\ {} \subseteq {}
  OBVIOUS
<1>2. Fits(InZonePowerLock(Commit("power")), {}, own, {}) /\ Fits(ResyncAfterPower, {}, own, {})
  BY FitsParts DEF Names
<1>3. Fits(SetPower, {}, own, {})
  BY <1>1, <1>2, FitsThen, FitsHolding DEF SetPower
<1> QED BY <1>3, OrderedIfFits

LEMMA OrderedTurnOn ==
    ASSUME NEW own, NEW body \in TurnOn
    PROVE  Ordered(body, {}, own)
<1>1. CASE Has("perCommand")
  <2>1. body = TurnOnTaps(TRUE)
    BY <1>1 DEF TurnOn
  <2> QED BY <2>1, FitsTaps
<1>2. CASE ~Has("perCommand")
  <2> DEFINE Whole(count, level) == HoldingHeartbeat(Then(count,
              <<In("pair")>> \o Then(level, InZonePowerLock(Commit("all"))) \o <<Out("pair")>>
              \o ResyncAfterPower))
  <2>1. PICK count \in EnsureSegmentCount, level \in HeldBrightness : body = InBrightnessLock(Whole(count, level))
    BY <1>2 DEF TurnOn
  <2>2. ASSUME NEW a, a \in {{}, {"brightness"}}
        PROVE  Fits(Whole(count, level), a, own, a)
    <3>1. a \in SUBSET DeviceLocks /\ a \subseteq a
      BY <2>2 DEF DeviceLocks
    <3>2. /\ Fits(count, a, own, a) /\ Fits(level, a, own, a) /\ Fits(InZonePowerLock(Commit("all")), a, own, a)
          /\ Fits(ResyncAfterPower, a, own, a)
      BY <2>2, FitsParts DEF Names
    <3>3. Fits(Then(level, InZonePowerLock(Commit("all"))), a, own, a)
      BY <3>1, <3>2, FitsThen
    <3>4. Fits(<<In("pair")>> \o Then(level, InZonePowerLock(Commit("all"))) \o <<Out("pair")>>, a, own, a)
      BY <3>1, <3>3, FitsBetween DEF Sections
    <3>5. Fits(<<In("pair")>> \o Then(level, InZonePowerLock(Commit("all"))) \o <<Out("pair")>> \o ResyncAfterPower,
               a, own, a)
      BY <3>1, <3>2, <3>4, FitsBoth
    <3> QED BY <3>1, <3>2, <3>5, FitsThen, FitsHolding
  <2> HIDE DEF Whole
  <2> QED BY <2>1, <2>2, OrderedBrightness
<1> QED BY <1>1, <1>2

LEMMA OrderedColours ==
    ASSUME NEW own, NEW body \in SetBrightness \cup SetRgb \cup SetColorTemp
    PROVE  Ordered(body, {}, own)
<1>1. CASE body \in SetBrightness
  BY <1>1, FitsTaps, FitsParts, OrderedBrightness DEF SetBrightness, Names
<1>2. CASE body \in SetRgb
  <2>1. PICK count \in EnsureSegmentCount : body = HoldingHeartbeat(Then(count, Commit("colour")))
    BY <1>2 DEF SetRgb
  <2>2. Fits(count, {}, own, {}) /\ Fits(Commit("colour"), {}, own, {})
    BY FitsParts DEF Names
  <2>3. {} \in SUBSET DeviceLocks /\ {} \subseteq {}
    OBVIOUS
  <2> QED BY <2>1, <2>2, <2>3, FitsThen, FitsHolding, OrderedIfFits
<1>3. CASE body \in SetColorTemp
  <2> DEFINE f == IF Has("pair") THEN "kelvin+level" ELSE "colour"
             Whole(count, level) == HoldingHeartbeat(Then(count,
                 <<In("pair")>> \o Then(level, Commit(f)) \o <<Out("pair")>>))
  <2>1. PICK count \in EnsureSegmentCount, level \in HeldBrightness : body = InBrightnessLock(Whole(count, level))
    BY <1>3 DEF SetColorTemp
  <2>2. f \in Names
    BY DEF Names
  <2> HIDE DEF f
  <2>3. ASSUME NEW a, a \in {{}, {"brightness"}}
        PROVE  Fits(Whole(count, level), a, own, a)
    <3>1. a \in SUBSET DeviceLocks /\ a \subseteq a
      BY <2>3 DEF DeviceLocks
    <3>2. Fits(count, a, own, a) /\ Fits(level, a, own, a) /\ Fits(Commit(f), a, own, a)
      BY <2>2, <2>3, FitsParts
    <3>3. Fits(<<In("pair")>> \o Then(level, Commit(f)) \o <<Out("pair")>>, a, own, a)
      BY <3>1, <3>2, FitsThen, FitsBetween DEF Sections
    <3> QED BY <3>1, <3>2, <3>3, FitsThen, FitsHolding
  <2> HIDE DEF Whole
  <2> QED BY <2>1, <2>3, OrderedBrightness
<1> QED BY <1>1, <1>2, <1>3

LEMMA OrderedSetZonePower ==
    ASSUME NEW own, NEW body \in SetZonePower
    PROVE  Ordered(body, {}, own)
<1>1. CASE ~Has("bars")
  BY <1>1, FitsParts, OrderedIfFits DEF SetZonePower, Names
<1>2. CASE Has("bars")
  <2> DEFINE a == {"bar"}
  <2>1. PICK read \in BarReads :
             body = Under("bar", HoldingHeartbeat(<<In("bars")>> \o Then(read, Commit("bars")) \o <<Out("bars")>>))
    BY <1>2 DEF SetZonePower
  <2>2. /\ a \in SUBSET DeviceLocks /\ a \subseteq a /\ "bar" \in DeviceLocks /\ Below(a, 4) /\ Below(a, 5)
        /\ {} \in SUBSET DeviceLocks /\ {} \cup a = a /\ "pairing" \notin a
    BY Ranks DEF Below, DeviceLocks
  <2>3. Fits(Reading("bars"), a, own, a) /\ Fits(Commit("bars"), a, own, a)
    BY <2>2, FitsReading, FitsCommit DEF Names
  <2>4. Fits(read, a, own, a)
    <3>1. Fits(<<Send("connect")>>, a, own, a) /\ Fits(<<Except>>, a, own, a) /\ Fits(<<>>, a, own, a)
      BY <2>2, FitsPlain, FitsNothing DEF Names
    <3>2. Fits(<<Send("connect")>> \o Reading("bars") \o <<Except>>, a, own, a)
      BY <2>2, <2>3, <3>1, FitsBoth
    <3> QED BY <2>3, <3>1, <3>2 DEF BarReads
  <2>5. Fits(HoldingHeartbeat(<<In("bars")>> \o Then(read, Commit("bars")) \o <<Out("bars")>>), a, own, a)
    BY <2>2, <2>3, <2>4, FitsThen, FitsBetween, FitsHolding DEF Sections
  <2> HIDE DEF a
  <2>6. Fits(body, {}, own, a)
    <3>1. \A k \in {} : Rank[k] < Rank["bar"]
      OBVIOUS
    <3> QED BY <2>1, <2>2, <2>5, <3>1, FitsUnder DEF a
  <2> QED BY <2>6, OrderedIfFits
<1> QED BY <1>1, <1>2

LEMMA OrderedScenes ==
    ASSUME NEW own, NEW body \in {SetScene} \cup SetSceneByName
    PROVE  Ordered(body, {}, own)
<1> DEFINE a == {"scene"}
<1>1. /\ a \in SUBSET DeviceLocks /\ {} \subseteq a /\ "scene" \in DeviceLocks /\ Below(a, 3) /\ Below(a, 4) /\ Below(a, 5)
      /\ Below(a \cup {"bar"}, 5) /\ {} \in SUBSET DeviceLocks /\ {} \cup a = a
  BY Ranks DEF Below, DeviceLocks
<1>2. ASSUME NEW p, Fits(p, a, own, {}) PROVE Ordered(Under("scene", p), {}, own)
  <2>1. \A k \in {} : Rank[k] < Rank["scene"]
    OBVIOUS
  <2> QED BY <1>1, <1>2, <2>1, FitsUnder, OrderedIfFits
<1>3. CASE body = SetScene
  BY <1>1, <1>2, <1>3, FitsCommit, FitsBarLock DEF SetScene, Names
<1>4. CASE body \in SetSceneByName
  <2> DEFINE Upload(upload) == Under("gate", HoldingHeartbeat(
                 <<CheckFor, In("scene")>> \o Then(upload, Commit("activate")) \o <<Out("scene")>>))
  <2>1. PICK version \in MaybeReading("version"), upload \in SceneUploads :
             body = Under("scene", version \o <<Load>> \o InZonePowerLock(Upload(upload)))
    BY <1>4 DEF SetSceneByName
  <2>2. ASSUME NEW b, b \in {a, a \cup {"bar"}} PROVE Fits(Upload(upload), b, own, {})
    <3> DEFINE d == b \cup {"gate"}
    <3>1. /\ b \in SUBSET DeviceLocks /\ d \in SUBSET DeviceLocks /\ Below(d, 5) /\ {} \subseteq d /\ "pairing" \notin d
          /\ "gate" \in DeviceLocks /\ \A k \in b : Rank[k] < Rank["gate"]
      BY <2>2, Ranks DEF Below, DeviceLocks
    <3>2. Fits(upload, d, own, {})
      <4>1. Fits(<<>>, d, own, {}) /\ Fits(<<Send("power")>>, d, own, {}) /\ Fits(<<Send("upload")>>, d, own, {})
        BY <3>1, FitsNothing, FitsPlain DEF Names
      <4>2. Fits(<<Send("power"), Send("upload")>>, d, own, {})
        BY <3>1, <4>1, FitsPair
      <4> QED BY <4>1, <4>2 DEF SceneUploads
    <3>3. Fits(Commit("activate"), d, own, {})
      BY <3>1, FitsCommit DEF Names
    <3>4. Fits(<<CheckFor>>, d, own, {}) /\ Fits(<<In("scene")>>, d, own, {}) /\ Fits(<<Out("scene")>>, d, own, {})
      BY <3>1, FitsPlain DEF Sections
    <3>5. Fits(<<CheckFor, In("scene")>>, d, own, {})
      BY <3>1, <3>4, FitsPair, FitsBoth
    <3>6. Fits(<<CheckFor, In("scene")>> \o Then(upload, Commit("activate")) \o <<Out("scene")>>, d, own, {})
      BY <3>1, <3>2, <3>3, <3>4, <3>5, FitsThen, FitsBoth
    <3>7. Fits(HoldingHeartbeat(<<CheckFor, In("scene")>> \o Then(upload, Commit("activate")) \o <<Out("scene")>>),
               d, own, {})
      BY <3>1, <3>6, FitsHolding
    <3> QED BY <3>1, <3>7, FitsUnder
  <2>3. Fits(InZonePowerLock(Upload(upload)), a, own, {})
    BY <1>1, <2>2, FitsBarLock
  <2>4. Fits(version, a, own, {}) /\ Fits(<<Load>>, a, own, {})
    BY <1>1, FitsReading, FitsPlain DEF Names
  <2> HIDE DEF a, Upload
  <2>5. Fits(version \o <<Load>> \o InZonePowerLock(Upload(upload)), a, own, {})
    BY <1>1, <2>3, <2>4, FitsBoth
  <2> QED BY <1>2, <2>1, <2>5
<1> QED BY <1>3, <1>4

LEMMA OrderedOthers ==
    ASSUME NEW own
    PROVE  /\ Ordered(<<>>, {}, own) /\ Ordered(Update, {}, own) /\ Ordered(<<Check, Send("connect")>>, {}, own)
           /\ Ordered(Release, {}, own) /\ Ordered(PairingRead, {}, TRUE)
<1>1. {} \in SUBSET DeviceLocks /\ {} \subseteq {} /\ Below({}, 4) /\ "pairing" \notin {}
  BY DEF Below
<1>2. Ordered(<<>>, {}, own)
  BY <1>1, FitsNothing, OrderedIfFits
<1>3. /\ Fits(<<Check>>, {}, own, {}) /\ Fits(<<Send("connect")>>, {}, own, {}) /\ Fits(<<Load>>, {}, own, {})
      /\ Fits(Reading("state"), {}, own, {}) /\ Fits(Reading("colours"), {}, own, {})
  BY <1>1, FitsPlain, FitsReading DEF Names
<1>4. Ordered(<<Check, Send("connect")>>, {}, own)
  BY <1>1, <1>3, FitsPair, FitsBoth, OrderedIfFits
<1>5. Ordered(Update, {}, own)
  <2>1. Fits(<<Check, Load>>, {}, own, {}) /\ Fits(Then(Reading("state"), Reading("colours")), {}, own, {})
    BY <1>1, <1>3, FitsPair, FitsBoth, FitsThen
  <2> QED BY <1>1, <2>1, FitsBoth, FitsHolding, OrderedIfFits DEF Update
<1>6. Ordered(Release, {}, own)
  <2> DEFINE a1 == {} \cup {"scene"}
             a2 == a1 \cup {"brightness"}
             a3 == a2 \cup {"bar"}
             a4 == a3 \cup {"gate"}
  <2>1. /\ a1 \in SUBSET DeviceLocks /\ a2 \in SUBSET DeviceLocks /\ a3 \in SUBSET DeviceLocks /\ a4 \in SUBSET DeviceLocks
        /\ "scene" \in DeviceLocks /\ "brightness" \in DeviceLocks /\ "bar" \in DeviceLocks /\ "gate" \in DeviceLocks
    BY DEF DeviceLocks
  <2>2. /\ \A k \in {} : Rank[k] < Rank["scene"]
        /\ \A k \in a1 : Rank[k] < Rank["brightness"]
        /\ \A k \in a2 : Rank[k] < Rank["bar"]
        /\ \A k \in a3 : Rank[k] < Rank["gate"]
    BY Ranks
  <2>3. Fits(<<Send("drop")>>, a4, own, {})
    BY <2>1, FitsPlain DEF Names
  <2> HIDE DEF a1, a2, a3, a4
  <2>4. Fits(Under("gate", <<Send("drop")>>), a3, own, {})
    BY <2>1, <2>2, <2>3, FitsUnder DEF a4
  <2>5. Fits(Under("bar", Under("gate", <<Send("drop")>>)), a2, own, {})
    BY <2>1, <2>2, <2>4, FitsUnder DEF a3
  <2>6. Fits(Under("brightness", Under("bar", Under("gate", <<Send("drop")>>))), a1, own, {})
    BY <2>1, <2>2, <2>5, FitsUnder DEF a2
  <2>7. Fits(Release, {}, own, {})
    BY <1>1, <2>1, <2>2, <2>6, FitsUnder DEF a1, Release
  <2> QED BY <2>7, OrderedIfFits
<1>7. Ordered(PairingRead, {}, TRUE)
  <2> DEFINE a1 == {} \cup {"gate"}
             a2 == a1 \cup {"pairing"}
  <2>1. /\ a1 \in SUBSET DeviceLocks /\ a2 \in SUBSET DeviceLocks /\ "gate" \in DeviceLocks /\ "pairing" \in DeviceLocks
        /\ {} \subseteq a2
    BY DEF DeviceLocks
  <2>2. (\A k \in {} : Rank[k] < Rank["gate"]) /\ (\A k \in a1 : Rank[k] < Rank["pairing"])
    BY Ranks
  <2>3. Fits(<<Check>>, a2, TRUE, {}) /\ Fits(<<Query("secret")>>, a2, TRUE, {})
    BY <2>1, FitsPlain DEF Names
  <2> HIDE DEF a1, a2
  <2>4. Fits(<<Check, Query("secret")>>, a2, TRUE, {})
    BY <2>1, <2>3, FitsPair, FitsBoth
  <2>5. Fits(Under("pairing", <<Check, Query("secret")>>), a1, TRUE, {})
    BY <2>1, <2>2, <2>4, FitsUnder DEF a2
  <2>6. Fits(PairingRead, {}, TRUE, {})
    BY <1>1, <2>1, <2>2, <2>5, FitsUnder DEF a1, PairingRead
  <2> QED BY <2>6, OrderedIfFits
<1> QED BY <1>2, <1>4, <1>5, <1>6, <1>7

\* Every body takes its locks in order.
LEMMA BodiesOrdered ==
    ASSUME NEW m \in Methods, NEW body \in Bodies(m)
    PROVE  Ordered(body, {}, m = "readSecret")
<1>1. CASE m = "setPower"
  BY <1>1, OrderedSetPower DEF Bodies
<1>2. CASE m = "turnOn"
  BY <1>2, OrderedTurnOn DEF Bodies
<1>3. CASE m \in {"setBrightness", "setRgb", "setColorTemp"}
  BY <1>3, OrderedColours DEF Bodies
<1>4. CASE m = "setZonePower"
  BY <1>4, OrderedSetZonePower DEF Bodies
<1>5. CASE m \in {"setScene", "setSceneByName"}
  BY <1>5, OrderedScenes DEF Bodies
<1>6. CASE m \in {"update", "connect", "release"}
  BY <1>6, OrderedOthers DEF Bodies
<1>7. CASE m = "readSecret"
  BY <1>7, OrderedOthers DEF Bodies
<1> QED BY <1>1, <1>2, <1>3, <1>4, <1>5, <1>6, <1>7 DEF Methods

-----------------------------------------------------------------------------
(* A call step by step, and past a try that catches.                       *)

LEMMA LeastIndex ==
    ASSUME NEW S \in SUBSET Nat, S # {}
    PROVE  \E i \in S : \A j \in S : i <= j
<1>1. PICK i \in S : \A j \in S : <<j, i>> \notin OpToRel(<, Nat)
  BY NatLessThanWellFounded, WFMin
<1>2. \A j \in S : ~(j < i)
  BY <1>1 DEF OpToRel
<1> QED BY <1>2

LEMMA StepPairs ==
    ASSUME NEW x \in Steps
    PROVE  x = <<x[1], x[2]>>
<1>1. \A A, B : \A y \in A \X B : y = <<y[1], y[2]>>
  OBVIOUS
<1> QED BY <1>1 DEF Steps

LEMMA Kinds ==
    /\ \A l : Lock(l)[1] = "lock" /\ Lock(l)[2] = l /\ Free(l)[1] = "free" /\ Free(l)[2] = l
    /\ Except[1] = "except" /\ Check[1] = "check" /\ CheckFor[1] = "check" /\ Load[1] = "load"
    /\ \A l : Free(l) # Except
<1>1. /\ \A l : Lock(l)[1] = "lock" /\ Lock(l)[2] = l /\ Free(l)[1] = "free" /\ Free(l)[2] = l
      /\ Except[1] = "except" /\ Check[1] = "check" /\ CheckFor[1] = "check" /\ Load[1] = "load"
  BY DEF Lock, Free, Except, Check, CheckFor, Load
<1>2. ASSUME NEW l, Free(l) = Except PROVE FALSE
  <2>1. Free(l)[1] = Except[1]
    BY <1>2
  <2> QED BY <1>1, <2>1
<1> QED BY <1>1, <1>2

\* A lock held at one step and no more at a later one is left in between.
LEMMA FreedBetween ==
    ASSUME NEW p, NEW h, NEW held, NEW own, OrderedBy(p, h, held, own),
           NEW j \in 1 .. Len(p) + 1, NEW k \in 1 .. Len(p) + 1, j <= k, NEW l, l \in h[j], l \notin h[k]
    PROVE  \E i \in j .. k - 1 : p[i] = Free(l)
<1> DEFINE S == {i \in j .. k : l \notin h[i]}
<1>1. p \in Seq(Steps) /\ Len(p) \in Nat
  BY LenProperties DEF OrderedBy
<1>2. S \in SUBSET Nat /\ k \in S
  BY <1>1
<1>3. PICK i \in S : \A n \in S : i <= n
  BY <1>2, LeastIndex, Zenon
<1>4. i - 1 \in j .. k - 1 /\ l \in h[i - 1] /\ l \notin h[i] /\ (i - 1) + 1 = i /\ i - 1 \in 1 .. Len(p)
  BY <1>1, <1>3
<1>5. InOrder(p[i - 1], h[i - 1], h[(i - 1) + 1], own) /\ p[i - 1] \in Steps
  BY <1>1, <1>4, ElementOfSeq DEF OrderedBy
<1>6. p[i - 1][1] = "free" /\ p[i - 1][2] = l
  BY <1>4, <1>5 DEF InOrder
<1>7. p[i - 1] = Free(l)
  BY <1>5, <1>6, StepPairs DEF Free
<1> QED BY <1>4, <1>7

LEMMA OrderedDone ==
    ASSUME NEW held, NEW own
    PROVE  (Ordered(<<>>, held, own) => held = {}) /\ Ordered(<<>>, {}, own)
<1>1. Len(<<>>) = 0
  BY EmptySeq
<1>2. Ordered(<<>>, held, own) => held = {}
  BY <1>1 DEF Ordered, OrderedBy
<1> QED BY <1>2, OrderedOthers

LEMMA OrderedFrees ==
    ASSUME NEW p, NEW held, NEW own, Ordered(p, held, own)
    PROVE  /\ held \subseteq DeviceLocks /\ p \in Seq(Steps)
           /\ \A l \in held : \E i \in 1 .. Len(p) : p[i] = Free(l)
           /\ \A l : p # <<>> /\ p[1] = Lock(l) => \E i \in 1 .. Len(p) : p[i] = Free(l)
<1>1. PICK h : OrderedBy(p, h, held, own)
  BY DEF Ordered
<1>2. p \in Seq(Steps) /\ Len(p) \in Nat /\ h[1] = held /\ h[Len(p) + 1] = {} /\ h[1] \subseteq DeviceLocks
  BY <1>1, LenProperties DEF OrderedBy, HeldAlong
<1>3. ASSUME NEW l \in held PROVE \E i \in 1 .. Len(p) : p[i] = Free(l)
  <2>1. \E i \in 1 .. (Len(p) + 1) - 1 : p[i] = Free(l)
    <3>1. 1 \in 1 .. Len(p) + 1 /\ Len(p) + 1 \in 1 .. Len(p) + 1 /\ 1 <= Len(p) + 1 /\ l \in h[1] /\ l \notin h[Len(p) + 1]
      BY <1>2
    <3> QED BY <1>1, <3>1, FreedBetween
  <2> QED BY <1>2, <2>1
<1>4. ASSUME NEW l, p # <<>>, p[1] = Lock(l) PROVE \E i \in 1 .. Len(p) : p[i] = Free(l)
  <2>0. Len(p) >= 1
    BY <1>2, <1>4, EmptySeq
  <2>1. l \in h[2]
    <3>1. InOrder(p[1], h[1], h[1 + 1], own)
      BY <1>1, <1>2, <2>0 DEF OrderedBy
    <3> QED BY <1>4, <3>1 DEF InOrder, Lock
  <2>2. \E i \in 2 .. (Len(p) + 1) - 1 : p[i] = Free(l)
    <3>1. 2 \in 1 .. Len(p) + 1 /\ Len(p) + 1 \in 1 .. Len(p) + 1 /\ 2 <= Len(p) + 1 /\ l \notin h[Len(p) + 1]
      BY <1>2, <2>0
    <3> QED BY <1>1, <2>1, <3>1, FreedBetween
  <2> QED BY <1>2, <2>2
<1> QED BY <1>2, <1>3, <1>4

LEMMA OrderedSuffix ==
    ASSUME NEW p, NEW h, NEW held, NEW own, OrderedBy(p, h, held, own), NEW e \in 1 .. Len(p)
    PROVE  Ordered(SubSeq(p, e + 1, Len(p)), h[e + 1], own)
<1> DEFINE n == Len(p) - e
           q == SubSeq(p, e + 1, Len(p))
           g == [i \in 1 .. n + 1 |-> h[i + e]]
<1>1. p \in Seq(Steps) /\ Len(p) \in Nat /\ n \in Nat /\ \A i \in 1 .. Len(p) : p[i] \in Steps
  BY LenProperties, ElementOfSeq DEF OrderedBy
<1>2. q \in Seq(Steps) /\ Len(q) = n /\ \A i \in 1 .. n : q[i] = p[i + e]
  <2>1. e + 1 \in Int /\ Len(p) \in Int /\ \A i \in e + 1 .. Len(p) : p[i] \in Steps
    BY <1>1
  <2>2. /\ q \in Seq(Steps) /\ Len(q) = IF e + 1 <= Len(p) THEN Len(p) - (e + 1) + 1 ELSE 0
        /\ \A i \in 1 .. Len(p) - (e + 1) + 1 : q[i] = p[(e + 1) + i - 1]
    BY <2>1, SubSeqProperties
  <2>3. \A i \in 1 .. n : (e + 1) + i - 1 = i + e
    BY <1>1
  <2> QED BY <1>1, <2>2, <2>3
<1>3. /\ \A i \in 1 .. n + 1 : g[i] = h[i + e] /\ i + e \in 1 .. Len(p) + 1
      /\ g[1] = h[e + 1] /\ g[n + 1] = h[Len(p) + 1]
  BY <1>1
<1>4. g \in HeldAlong(q)
  BY <1>2, <1>3 DEF HeldAlong, OrderedBy
<1> HIDE DEF q, g
<1>5. ASSUME NEW i \in 1 .. n PROVE InOrder(q[i], g[i], g[i + 1], own)
  <2>1. q[i] = p[i + e] /\ g[i] = h[i + e] /\ g[i + 1] = h[(i + e) + 1] /\ i + e \in 1 .. Len(p)
    BY <1>1, <1>2, <1>3
  <2> QED BY <2>1 DEF OrderedBy
<1>6. ASSUME NEW d \in 1 .. n, q[d] = Except, NEW i \in 2 .. d PROVE g[d] \subseteq g[i]
  <2>1. q[d] = p[d + e] /\ g[d] = h[d + e] /\ g[i] = h[i + e] /\ i + e \in 2 .. d + e /\ d + e \in 1 .. Len(p)
    BY <1>1, <1>2, <1>3
  <2> QED BY <1>6, <2>1 DEF OrderedBy
<1>7. OrderedBy(q, g, h[e + 1], own)
  BY <1>2, <1>3, <1>4, <1>5, <1>6 DEF OrderedBy
<1> QED BY <1>7 DEF Ordered, q

LEMMA OrderedStep ==
    ASSUME NEW p, NEW held, NEW own, Ordered(p, held, own), p # <<>>
    PROVE  /\ Len(p) \in Nat \ {0} /\ p[1] \in Steps
           /\ \E b \in SUBSET DeviceLocks : InOrder(p[1], held, b, own) /\ Ordered(Tail(p), b, own)
<1>1. PICK h : OrderedBy(p, h, held, own)
  BY DEF Ordered
<1>2. p \in Seq(Steps) /\ Len(p) \in Nat \ {0} /\ p[1] \in Steps
  BY <1>1, LenProperties, EmptySeq, ElementOfSeq DEF OrderedBy
<1>3. InOrder(p[1], h[1], h[2], own) /\ h[1] = held /\ h[2] \in SUBSET DeviceLocks
  <2>1. InOrder(p[1], h[1], h[1 + 1], own)
    BY <1>1, <1>2 DEF OrderedBy
  <2>2. 2 \in 1 .. Len(p) + 1 /\ 1 + 1 = 2
    BY <1>2
  <2> QED BY <1>1, <2>1, <2>2 DEF OrderedBy, HeldAlong
<1>4. Ordered(SubSeq(p, 1 + 1, Len(p)), h[1 + 1], own)
  <2>1. 1 \in 1 .. Len(p)
    BY <1>2
  <2> QED BY <1>1, <2>1, OrderedSuffix
<1>5. Tail(p) = SubSeq(p, 2, Len(p))
  BY <1>2, TailIsSubSeq
<1>6. 1 + 1 = 2
  OBVIOUS
<1> QED BY <1>2, <1>3, <1>4, <1>5, <1>6

\* An exception that a try catches: what is left then is what the try was made without.
LEMMA OrderedCaught ==
    ASSUME NEW p, NEW held, NEW own, Ordered(p, held, own), NEW e \in 1 .. Len(p), p[e] = Except, p[1][1] # "lock"
    PROVE  Ordered(SubSeq(p, e + 1, Len(p)), {l \in held : \A i \in 1 .. e : p[i] # Free(l)}, own)
<1>1. PICK h : OrderedBy(p, h, held, own)
  BY DEF Ordered
<1>2. p \in Seq(Steps) /\ Len(p) \in Nat /\ h[1] = held /\ \A i \in 1 .. Len(p) : p[i] \in Steps
  BY <1>1, LenProperties, ElementOfSeq DEF OrderedBy
<1>3. h[e + 1] = h[e]
  <2>1. InOrder(p[e], h[e], h[e + 1], own) /\ p[e][1] = "except"
    BY <1>1, Kinds DEF OrderedBy
  <2> QED BY <2>1 DEF InOrder
<1>4. ASSUME NEW l \in h[e] PROVE l \in held /\ \A i \in 1 .. e : p[i] # Free(l)
  <2>1. \A i \in 2 .. e : l \in h[i]
    BY <1>1, <1>4 DEF OrderedBy
  <2>2. l \in held
    <3>1. CASE e = 1
      BY <1>2, <1>4, <3>1
    <3>2. CASE e # 1
      <4>1. l \in h[2] /\ InOrder(p[1], h[1], h[1 + 1], own)
        BY <1>1, <1>2, <2>1, <3>2 DEF OrderedBy
      <4> QED BY <1>2, <4>1 DEF InOrder
    <3> QED BY <3>1, <3>2
  <2>3. ASSUME NEW i \in 1 .. e, p[i] = Free(l) PROVE FALSE
    <3>1. InOrder(p[i], h[i], h[i + 1], own) /\ i \in 1 .. Len(p)
      BY <1>1, <1>2 DEF OrderedBy
    <3>2. l \notin h[i + 1]
      BY <2>3, <3>1 DEF InOrder, Free
    <3>3. i # e
      BY <2>3, Kinds
    <3>4. i + 1 \in 2 .. e
      BY <1>2, <3>3
    <3> QED BY <2>1, <3>2, <3>4
  <2> QED BY <2>2, <2>3
<1>5. ASSUME NEW l \in held, \A i \in 1 .. e : p[i] # Free(l) PROVE l \in h[e]
  <2>1. SUFFICES ASSUME l \notin h[e] PROVE FALSE
    OBVIOUS
  <2>2. \E i \in 1 .. e - 1 : p[i] = Free(l)
    <3>1. 1 \in 1 .. Len(p) + 1 /\ e \in 1 .. Len(p) + 1 /\ 1 <= e /\ l \in h[1]
      BY <1>2
    <3> QED BY <1>1, <2>1, <3>1, FreedBetween
  <2> QED BY <1>2, <1>5, <2>2
<1>6. h[e] = {l \in held : \A i \in 1 .. e : p[i] # Free(l)}
  BY <1>4, <1>5
<1>7. Ordered(SubSeq(p, e + 1, Len(p)), h[e + 1], own)
  BY <1>1, OrderedSuffix
<1> QED BY <1>3, <1>6, <1>7, Zenon

-----------------------------------------------------------------------------
(* Where a call stands in the lines.                                       *)

AtConn == {"queued", "setup", "wire", "refused"}

\* The lock a call is in line for, at the step p[1] and in the stage sg; the connection's also while it has it.
WaitsFor(p, sg, l) ==
    \/ sg = "lock" /\ l = p[1][2]
    \/ sg = "pairing" /\ l = "pairing"
    \/ sg \in AtConn /\ l = "conn"

\* The locks of the device t holds: it is the first in line and does not wait any more.
HoldsOf(p, sg, q, t) == {l \in DeviceLocks : Len(q[l]) > 0 /\ q[l][1] = t /\ ~WaitsFor(p, sg, l)}

\* What a call has still to do agrees with where it stands in the lines q.
InPlace(p, sg, q, t, own) ==
    /\ Ordered(p, HoldsOf(p, sg, q, t), own)
    /\ sg = "idle" => p = <<>>
    /\ sg = "lock" => p # <<>> /\ p[1][1] = "lock"
    /\ sg = "pairing" => p # <<>> /\ p[1][1] = "check"
    /\ sg \in AtConn \cup {"load"} => p # <<>> /\ p[1][1] \notin {"lock", "free"}
    /\ sg \in {"setup", "wire"} => Len(q["conn"]) > 0 /\ q["conn"][1] = t
    /\ \A l \in Locks : /\ WaitsFor(p, sg, l) => \E i \in 1 .. Len(q[l]) : q[l][i] = t
                        /\ \A i \in 1 .. Len(q[l]) : q[l][i] = t /\ (i > 1 \/ l = "conn") => WaitsFor(p, sg, l)

\* The same with t moved to p, sg and q while the other calls stay.
Placed(p, sg, q, t) ==
    /\ q = [l \in Locks |-> q[l]] /\ \A l \in Locks : IsLine(q[l])
    /\ InPlace(p, sg, q, t, Pairing(t))
    /\ \A u \in Tasks \ {t} : InPlace(todo[u], stage[u], q, u, Pairing(u))

\* From the line a to the line b only t has come or gone.
Passes(a, b, t) ==
    /\ \A u : u # t => ((\E i \in 1 .. Len(b) : b[i] = u) <=> \E i \in 1 .. Len(a) : a[i] = u)
    /\ \A i \in 2 .. Len(b) : b[i] # t => \E j \in 2 .. Len(a) : a[j] = b[i]
    /\ Len(a) > 0 /\ a[1] # t => Len(b) > 0 /\ b[1] = a[1]

LEMMA LineFacts ==
    ASSUME NEW a, IsLine(a)
    PROVE  a \in Seq(Tasks) /\ Len(a) \in Nat /\ (Len(a) = 0 <=> a = <<>>) /\ \A i \in 1 .. Len(a) : a[i] \in Tasks
<1>1. a \in Seq(Tasks)
  BY DEF IsLine
<1> QED BY <1>1, LenProperties, EmptySeq, ElementOfSeq

LEMMA PassesLeaving ==
    ASSUME NEW a, IsLine(a), NEW t
    PROVE  IsLine(RemoveFirst(a, t)) /\ Passes(a, RemoveFirst(a, t), t)
<1> DEFINE b == RemoveFirst(a, t)
<1>0. Without(b, a, t)
  BY RemoveFirstProperties
<1> HIDE DEF b
<1>1. /\ IsLine(b) /\ \A u : (\E i \in 1 .. Len(b) : b[i] = u) <=> u # t /\ \E i \in 1 .. Len(a) : a[i] = u
      /\ \A i \in 2 .. Len(b) : b[i] # a[1]
      /\ Len(a) > 0 /\ a[1] # t => Len(b) > 0 /\ b[1] = a[1]
  BY <1>0 DEF Without
<1>2. Len(a) \in Nat /\ Len(b) \in Nat
  BY <1>1, LineFacts
<1>3. ASSUME NEW i \in 2 .. Len(b) PROVE \E j \in 2 .. Len(a) : a[j] = b[i]
  <2>1. PICK j \in 1 .. Len(a) : a[j] = b[i]
    BY <1>1, <1>2
  <2>2. j # 1
    BY <1>1, <2>1
  <2> QED BY <1>2, <2>1, <2>2
<1> QED BY <1>1, <1>3 DEF Passes, b

LEMMA PassesJoining ==
    ASSUME NEW a, IsLine(a), NEW t \in Tasks, ~\E i \in 1 .. Len(a) : a[i] = t
    PROVE  /\ IsLine(Append(a, t)) /\ Passes(a, Append(a, t), t)
           /\ Len(Append(a, t)) = Len(a) + 1 /\ Append(a, t)[Len(a) + 1] = t
           /\ \A i \in 1 .. Len(a) : Append(a, t)[i] = a[i]
<1>1. a \in Seq(Tasks) /\ Len(a) \in Nat
  BY LineFacts
<1>2. /\ Append(a, t) \in Seq(Tasks) /\ Len(Append(a, t)) = Len(a) + 1 /\ Append(a, t)[Len(a) + 1] = t
      /\ \A i \in 1 .. Len(a) : Append(a, t)[i] = a[i]
  BY <1>1, AppendProperties
<1>3. IsLine(Append(a, t))
  BY <1>1, <1>2 DEF IsLine
<1>4. Passes(a, Append(a, t), t)
  <2> DEFINE b == Append(a, t)
  <2>1. Len(b) = Len(a) + 1 /\ b[Len(a) + 1] = t /\ \A i \in 1 .. Len(a) : b[i] = a[i]
    BY <1>2
  <2> HIDE DEF b
  <2>2. ASSUME NEW u, u # t PROVE (\E i \in 1 .. Len(b) : b[i] = u) <=> \E i \in 1 .. Len(a) : a[i] = u
    <3>1. \A i \in 1 .. Len(b) : i \in 1 .. Len(a) \/ i = Len(a) + 1
      BY <1>1, <2>1
    <3>2. \A i \in 1 .. Len(a) : i \in 1 .. Len(b)
      BY <1>1, <2>1
    <3> QED BY <2>1, <2>2, <3>1, <3>2
  <2>3. ASSUME NEW i \in 2 .. Len(b), b[i] # t PROVE \E j \in 2 .. Len(a) : a[j] = b[i]
    BY <1>1, <2>1, <2>3
  <2>4. Len(a) > 0 => Len(b) > 0 /\ b[1] = a[1]
    BY <1>1, <2>1
  <2> QED BY <2>2, <2>3, <2>4 DEF Passes, b
<1> QED BY <1>2, <1>3, <1>4

LEMMA OthersInPlace ==
    ASSUME NEW q, NEW r, NEW t, \A l \in Locks : IsLine(q[l]) /\ Passes(q[l], r[l], t),
           NEW u, u # t, NEW p, NEW sg, NEW own, InPlace(p, sg, q, u, own)
    PROVE  InPlace(p, sg, r, u, own)
<1>1. ASSUME NEW l \in Locks
      PROVE  /\ (\E i \in 1 .. Len(r[l]) : r[l][i] = u) <=> \E i \in 1 .. Len(q[l]) : q[l][i] = u
             /\ \A i \in 2 .. Len(r[l]) : r[l][i] = u => \E j \in 2 .. Len(q[l]) : q[l][j] = u
             /\ Len(q[l]) > 0 /\ q[l][1] = u => Len(r[l]) > 0 /\ r[l][1] = u
  <2>1. Passes(q[l], r[l], t)
    BY <1>1
  <2>2. \A i \in 2 .. Len(r[l]) : r[l][i] # t => \E j \in 2 .. Len(q[l]) : q[l][j] = r[l][i]
    BY <2>1 DEF Passes
  <2>3. /\ (\E i \in 1 .. Len(r[l]) : r[l][i] = u) <=> \E i \in 1 .. Len(q[l]) : q[l][i] = u
        /\ Len(q[l]) > 0 /\ q[l][1] # t => Len(r[l]) > 0 /\ r[l][1] = q[l][1]
    BY <2>1, Zenon DEF Passes
  <2> QED BY <2>2, <2>3
<1>2. /\ \A l \in Locks : WaitsFor(p, sg, l) => \E i \in 1 .. Len(q[l]) : q[l][i] = u
      /\ \A l \in Locks : \A i \in 1 .. Len(q[l]) : q[l][i] = u /\ (i > 1 \/ l = "conn") => WaitsFor(p, sg, l)
      /\ DeviceLocks \subseteq Locks /\ "conn" \in Locks
  BY DEF InPlace, Locks
<1>3. ASSUME NEW l \in DeviceLocks, ~WaitsFor(p, sg, l)
      PROVE  Len(q[l]) > 0 /\ q[l][1] = u <=> Len(r[l]) > 0 /\ r[l][1] = u
  <2>1. l \in Locks /\ Len(q[l]) \in Nat
    BY <1>2, LineFacts
  <2>2. ASSUME Len(r[l]) > 0, r[l][1] = u PROVE Len(q[l]) > 0 /\ q[l][1] = u
    <3>1. \E i \in 1 .. Len(r[l]) : r[l][i] = u
      BY <2>2
    <3>2. PICK i \in 1 .. Len(q[l]) : q[l][i] = u
      BY <1>1, <2>1, <3>1
    <3>3. ~(i > 1)
      BY <1>2, <1>3, <2>1, <3>2
    <3> QED BY <2>1, <3>2, <3>3
  <2> QED BY <1>1, <2>1, <2>2
<1>4. HoldsOf(p, sg, r, u) = HoldsOf(p, sg, q, u)
  BY <1>3 DEF HoldsOf
<1>5. ASSUME NEW l \in Locks
      PROVE  /\ WaitsFor(p, sg, l) => \E i \in 1 .. Len(r[l]) : r[l][i] = u
             /\ \A i \in 1 .. Len(r[l]) : r[l][i] = u /\ (i > 1 \/ l = "conn") => WaitsFor(p, sg, l)
  <2>1. WaitsFor(p, sg, l) => \E i \in 1 .. Len(r[l]) : r[l][i] = u
    BY <1>1, <1>2
  <2>2. ASSUME NEW i \in 1 .. Len(r[l]), r[l][i] = u, i > 1 PROVE WaitsFor(p, sg, l)
    <3>1. i \in 2 .. Len(r[l])
      BY <2>2
    <3>2. PICK j \in 2 .. Len(q[l]) : q[l][j] = u
      BY <1>1, <2>2, <3>1
    <3>3. j \in 1 .. Len(q[l]) /\ j > 1
      OBVIOUS
    <3> QED BY <1>2, <3>2, <3>3
  <2>3. ASSUME NEW i \in 1 .. Len(r[l]), r[l][i] = u, l = "conn" PROVE WaitsFor(p, sg, l)
    <3>1. PICK j \in 1 .. Len(q[l]) : q[l][j] = u
      BY <1>1, <2>3
    <3> QED BY <1>2, <2>3, <3>1
  <2> QED BY <2>1, <2>2, <2>3
<1>6. sg \in {"setup", "wire"} => Len(r["conn"]) > 0 /\ r["conn"][1] = u
  BY <1>1, <1>2 DEF InPlace
<1> QED BY <1>4, <1>5, <1>6 DEF InPlace

-----------------------------------------------------------------------------
(* Joining a line, and getting to its head.                                *)

\* The call's own line: it stands in none it does not wait for, save as the holder.
LEMMA NotInLine ==
    ASSUME NEW p, NEW q, NEW t \in Tasks, Placed(p, "run", q, t), NEW l \in Locks,
           l \in DeviceLocks => l \notin HoldsOf(p, "run", q, t)
    PROVE  ~\E i \in 1 .. Len(q[l]) : q[l][i] = t
<1>1. ~WaitsFor(p, "run", l)
  BY DEF WaitsFor, AtConn
<1>2. IsLine(q[l]) /\ Len(q[l]) \in Nat /\ InPlace(p, "run", q, t, Pairing(t))
  BY LineFacts DEF Placed
<1> SUFFICES ASSUME NEW i \in 1 .. Len(q[l]), q[l][i] = t PROVE FALSE
  OBVIOUS
<1>3. ~(i > 1) /\ l # "conn"
  BY <1>1, <1>2 DEF InPlace
<1>4. Len(q[l]) > 0 /\ q[l][1] = t /\ l \in DeviceLocks
  BY <1>2, <1>3 DEF Locks
<1> QED BY <1>1, <1>4 DEF HoldsOf

\* t goes to the end of a line.
LEMMA Joins ==
    ASSUME NEW p, NEW q, NEW t \in Tasks, Placed(p, "run", q, t), NEW l \in Locks,
           l \in DeviceLocks => l \notin HoldsOf(p, "run", q, t),
           NEW sg \in {"lock", "pairing", "queued", "refused"}, WaitsFor(p, sg, l), p # <<>>,
           sg = "lock" => p[1][1] = "lock", sg = "pairing" => p[1][1] = "check",
           sg \in AtConn => p[1][1] \notin {"lock", "free"}
    PROVE  Placed(p, sg, [q EXCEPT ![l] = Append(@, t)], t)
<1> DEFINE r == [q EXCEPT ![l] = Append(@, t)]
<1>1. /\ q = [k \in Locks |-> q[k]] /\ \A k \in Locks : IsLine(q[k]) /\ Len(q[k]) \in Nat
      /\ InPlace(p, "run", q, t, Pairing(t))
  BY LineFacts DEF Placed
<1>2. r = [k \in Locks |-> r[k]] /\ \A k \in Locks : r[k] = IF k = l THEN Append(q[l], t) ELSE q[k]
  BY <1>1
<1> HIDE DEF r
<1>3. ~\E i \in 1 .. Len(q[l]) : q[l][i] = t
  BY NotInLine
<1>4. /\ IsLine(r[l]) /\ Passes(q[l], r[l], t) /\ Len(r[l]) = Len(q[l]) + 1 /\ r[l][Len(q[l]) + 1] = t
      /\ \A i \in 1 .. Len(q[l]) : r[l][i] = q[l][i]
  <2> DEFINE a == q[l]
  <2>1. /\ IsLine(Append(a, t)) /\ Passes(a, Append(a, t), t)
        /\ Len(Append(a, t)) = Len(a) + 1 /\ Append(a, t)[Len(a) + 1] = t
        /\ \A i \in 1 .. Len(a) : Append(a, t)[i] = a[i]
    <3>1. IsLine(a) /\ ~\E i \in 1 .. Len(a) : a[i] = t
      BY <1>1, <1>3
    <3> HIDE DEF a
    <3> QED BY <3>1, PassesJoining
  <2>2. r[l] = Append(a, t)
    BY <1>2
  <2> QED BY <2>1, <2>2
<1>5. ASSUME NEW k \in Locks PROVE IsLine(r[k]) /\ Passes(q[k], r[k], t)
  <2>1. CASE k = l
    BY <1>4, <2>1
  <2>2. CASE k # l
    BY <1>1, <1>2, <2>2 DEF Passes
  <2> QED BY <2>1, <2>2
<1>6. \A u \in Tasks \ {t} : InPlace(todo[u], stage[u], r, u, Pairing(u))
  BY <1>1, <1>5, OthersInPlace DEF Placed
<1>7. \A k \in Locks : WaitsFor(p, sg, k) <=> k = l
  BY DEF WaitsFor, AtConn
<1>8. \A k \in Locks : ~WaitsFor(p, "run", k)
  BY DEF WaitsFor, AtConn
<1>9. HoldsOf(p, sg, r, t) = HoldsOf(p, "run", q, t)
  <2> SUFFICES ASSUME NEW k \in DeviceLocks
               PROVE  k \in HoldsOf(p, sg, r, t) <=> k \in HoldsOf(p, "run", q, t)
    BY DEF HoldsOf
  <2>1. k \in Locks
    BY DEF Locks
  <2>2. CASE k = l
    BY <1>7, <2>1, <2>2 DEF HoldsOf
  <2>3. CASE k # l
    BY <1>2, <1>7, <1>8, <2>1, <2>3 DEF HoldsOf
  <2> QED BY <2>2, <2>3
<1>10. ASSUME NEW k \in Locks
       PROVE  /\ WaitsFor(p, sg, k) => \E i \in 1 .. Len(r[k]) : r[k][i] = t
              /\ \A i \in 1 .. Len(r[k]) : r[k][i] = t /\ (i > 1 \/ k = "conn") => WaitsFor(p, sg, k)
  <2>1. CASE k = l
    <3>1. Len(q[l]) + 1 \in 1 .. Len(r[l])
      BY <1>1, <1>4
    <3> QED BY <1>4, <1>7, <2>1, <3>1
  <2>2. CASE k # l
    BY <1>1, <1>2, <1>7, <1>8, <2>2 DEF InPlace
  <2> QED BY <2>1, <2>2
<1>11. InPlace(p, sg, r, t, Pairing(t))
  BY <1>1, <1>9, <1>10 DEF InPlace, AtConn
<1> QED BY <1>2, <1>5, <1>6, <1>11 DEF Placed, r

\* A step that touches no lock.
LEMMA GoesOn ==
    ASSUME NEW p, NEW q, NEW t \in Tasks, Placed(p, "run", q, t), p # <<>>, p[1][1] \notin {"lock", "free"}
    PROVE  Placed(Tail(p), "run", q, t)
<1>1. InPlace(p, "run", q, t, Pairing(t))
  BY DEF Placed
<1>2. HoldsOf(Tail(p), "run", q, t) = HoldsOf(p, "run", q, t)
  BY DEF HoldsOf, WaitsFor, AtConn
<1>3. Ordered(Tail(p), HoldsOf(p, "run", q, t), Pairing(t))
  <2>1. PICK b \in SUBSET DeviceLocks : InOrder(p[1], HoldsOf(p, "run", q, t), b, Pairing(t)) /\ Ordered(Tail(p), b, Pairing(t))
    BY <1>1, OrderedStep DEF InPlace
  <2> QED BY <2>1 DEF InOrder
<1>4. \A l : WaitsFor(Tail(p), "run", l) <=> WaitsFor(p, "run", l)
  BY DEF WaitsFor, AtConn
<1>5. InPlace(Tail(p), "run", q, t, Pairing(t))
  BY <1>1, <1>2, <1>3, <1>4 DEF InPlace, AtConn
<1> QED BY <1>5 DEF Placed

\* The same step in a stage that waits for no line.
LEMMA Stays ==
    ASSUME NEW p, NEW q, NEW t \in Tasks, Placed(p, "run", q, t),
           NEW sg \in {"load", "done"}, sg = "load" => p # <<>> /\ p[1][1] \notin {"lock", "free"}
    PROVE  Placed(p, sg, q, t)
<1>1. InPlace(p, "run", q, t, Pairing(t))
  BY DEF Placed
<1>2. HoldsOf(p, sg, q, t) = HoldsOf(p, "run", q, t) /\ \A l : WaitsFor(p, sg, l) <=> WaitsFor(p, "run", l)
  BY DEF HoldsOf, WaitsFor, AtConn
<1>3. InPlace(p, sg, q, t, Pairing(t))
  BY <1>1, <1>2 DEF InPlace, AtConn
<1> QED BY <1>3 DEF Placed

LEMMA Resumed ==
    ASSUME NEW p, NEW q, NEW t \in Tasks, NEW sg \in {"load", "done", "idle"}, Placed(p, sg, q, t)
    PROVE  Placed(p, "run", q, t)
<1>1. InPlace(p, sg, q, t, Pairing(t))
  BY DEF Placed
<1>2. HoldsOf(p, sg, q, t) = HoldsOf(p, "run", q, t) /\ \A l : WaitsFor(p, sg, l) <=> WaitsFor(p, "run", l)
  BY DEF HoldsOf, WaitsFor, AtConn
<1>3. InPlace(p, "run", q, t, Pairing(t))
  BY <1>1, <1>2 DEF InPlace, AtConn
<1> QED BY <1>3 DEF Placed

\* A free lock is taken, or one waited for is got.
LEMMA Takes ==
    ASSUME NEW p, NEW q, NEW t \in Tasks, Placed(p, "run", q, t), p # <<>>, p[1][1] = "lock", q[p[1][2]] = <<>>
    PROVE  Placed(Tail(p), "run", [q EXCEPT ![p[1][2]] = <<t>>], t)
<1> DEFINE x == p[1][2]
           r == [q EXCEPT ![x] = <<t>>]
           H == HoldsOf(p, "run", q, t)
<1>1. /\ q = [k \in Locks |-> q[k]] /\ \A k \in Locks : IsLine(q[k]) /\ Len(q[k]) \in Nat
      /\ InPlace(p, "run", q, t, Pairing(t))
  BY LineFacts DEF Placed
<1>2. x \in DeviceLocks /\ x \in Locks /\ Ordered(Tail(p), H \cup {x}, Pairing(t))
  <2>1. PICK b \in SUBSET DeviceLocks : InOrder(p[1], H, b, Pairing(t)) /\ Ordered(Tail(p), b, Pairing(t))
    BY <1>1, OrderedStep DEF InPlace
  <2> QED BY <2>1 DEF InOrder, Locks
<1>3. q[x] = <<>>
  OBVIOUS
<1> HIDE DEF x
<1>4. r = [k \in Locks |-> r[k]] /\ \A k \in Locks : r[k] = IF k = x THEN <<t>> ELSE q[k]
  BY <1>1, <1>2
<1>5. Len(<<t>>) = 1 /\ <<t>>[1] = t /\ <<t>> \in Seq(Tasks) /\ Len(<<>>) = 0
  BY EmptySeq
<1> HIDE DEF r
<1>6. ASSUME NEW k \in Locks PROVE IsLine(r[k]) /\ Passes(q[k], r[k], t)
  <2>1. CASE k = x
    <3>1. IsLine(<<t>>)
      BY <1>5 DEF IsLine
    <3>2. Passes(<<>>, <<t>>, t)
      <4> DEFINE a == <<t>>
                 e == <<>>
      <4>1. Len(a) = 1 /\ a[1] = t /\ Len(e) = 0
        BY <1>5
      <4> HIDE DEF a, e
      <4>2. Passes(e, a, t)
        BY <4>1 DEF Passes
      <4> QED BY <4>2 DEF a, e
    <3> QED BY <1>3, <1>4, <2>1, <3>1, <3>2
  <2>2. CASE k # x
    BY <1>1, <1>4, <2>2 DEF Passes
  <2> QED BY <2>1, <2>2
<1>7. \A u \in Tasks \ {t} : InPlace(todo[u], stage[u], r, u, Pairing(u))
  BY <1>1, <1>6, OthersInPlace DEF Placed
<1>8. \A k : ~WaitsFor(p, "run", k) /\ ~WaitsFor(Tail(p), "run", k)
  BY DEF WaitsFor, AtConn
<1>9. HoldsOf(Tail(p), "run", r, t) = H \cup {x}
  <2> SUFFICES ASSUME NEW k \in DeviceLocks
               PROVE  k \in HoldsOf(Tail(p), "run", r, t) <=> k \in H \cup {x}
    BY <1>2 DEF HoldsOf
  <2>1. k \in Locks
    BY DEF Locks
  <2>2. CASE k = x
    BY <1>4, <1>5, <1>8, <2>1, <2>2 DEF HoldsOf
  <2>3. CASE k # x
    BY <1>4, <1>8, <2>1, <2>3 DEF HoldsOf
  <2> QED BY <2>2, <2>3
<1>10. ASSUME NEW k \in Locks, NEW i \in 1 .. Len(r[k]), r[k][i] = t, i > 1 \/ k = "conn" PROVE FALSE
  <2>1. CASE k = x
    <3>1. "conn" \notin DeviceLocks
      BY DEF DeviceLocks
    <3> QED BY <1>2, <1>4, <1>5, <1>10, <2>1, <3>1
  <2>2. CASE k # x
    BY <1>1, <1>4, <1>8, <1>10, <2>2 DEF InPlace
  <2> QED BY <2>1, <2>2
<1>11. InPlace(Tail(p), "run", r, t, Pairing(t))
  BY <1>2, <1>8, <1>9, <1>10 DEF InPlace, AtConn
<1> QED BY <1>4, <1>6, <1>7, <1>11 DEF Placed, r, x

LEMMA Granted ==
    ASSUME NEW p, NEW q, NEW t \in Tasks, Placed(p, "lock", q, t), q[p[1][2]][1] = t
    PROVE  Placed(Tail(p), "run", q, t)
<1> DEFINE x == p[1][2]
           H == HoldsOf(p, "lock", q, t)
<1>1. /\ \A k \in Locks : IsLine(q[k]) /\ Len(q[k]) \in Nat
      /\ InPlace(p, "lock", q, t, Pairing(t)) /\ p # <<>> /\ p[1][1] = "lock"
  BY LineFacts DEF Placed, InPlace
<1>2. x \in DeviceLocks /\ x \in Locks /\ Ordered(Tail(p), H \cup {x}, Pairing(t))
  <2>1. PICK b \in SUBSET DeviceLocks : InOrder(p[1], H, b, Pairing(t)) /\ Ordered(Tail(p), b, Pairing(t))
    BY <1>1, OrderedStep DEF InPlace
  <2> QED BY <1>1, <2>1 DEF InOrder, Locks
<1>3. q[x][1] = t
  OBVIOUS
<1>4. \A k : (WaitsFor(p, "lock", k) <=> k = x) /\ ~WaitsFor(Tail(p), "run", k)
  BY DEF WaitsFor, AtConn
<1> HIDE DEF x
<1>5. Len(q[x]) > 0
  BY <1>1, <1>2, <1>4 DEF InPlace
<1>6. HoldsOf(Tail(p), "run", q, t) = H \cup {x}
  BY <1>2, <1>3, <1>4, <1>5 DEF HoldsOf
<1>7. ASSUME NEW k \in Locks, NEW i \in 1 .. Len(q[k]), q[k][i] = t, i > 1 \/ k = "conn" PROVE FALSE
  <2>1. WaitsFor(p, "lock", k)
    BY <1>1, <1>7 DEF InPlace
  <2>2. k = x /\ k # "conn"
    BY <1>2, <1>4, <2>1 DEF DeviceLocks
  <2>3. 1 \in 1 .. Len(q[k]) /\ i # 1
    BY <1>1, <1>5, <1>7, <2>2
  <2> QED BY <1>1, <1>3, <1>7, <2>2, <2>3 DEF IsLine
<1>8. InPlace(Tail(p), "run", q, t, Pairing(t))
  BY <1>2, <1>4, <1>6, <1>7 DEF InPlace, AtConn
<1> QED BY <1>8 DEF Placed

-----------------------------------------------------------------------------
(* Leaving a line.                                                         *)

LEMMA NotThere ==
    ASSUME NEW a, NEW t, ~\E i \in 1 .. Len(a) : a[i] = t
    PROVE  RemoveFirst(a, t) = a
BY DEF RemoveFirst

\* The lines q with t gone from those in L.
Gone(q, t, L) == [l \in Locks |-> IF l \in L THEN RemoveFirst(q[l], t) ELSE q[l]]

\* t leaves the lines L, that of the lock it waits for among them.
LEMMA Leaves ==
    ASSUME NEW p, NEW sg, NEW q, NEW t \in Tasks, Placed(p, sg, q, t), NEW L,
           \A l \in Locks : WaitsFor(p, sg, l) => l \in L,
           NEW rest, Ordered(rest, HoldsOf(p, sg, q, t) \ L, Pairing(t))
    PROVE  Placed(rest, "run", Gone(q, t, L), t)
<1> DEFINE r == Gone(q, t, L)
           H == HoldsOf(p, sg, q, t)
<1>1. /\ \A l \in Locks : IsLine(q[l]) /\ Len(q[l]) \in Nat
      /\ InPlace(p, sg, q, t, Pairing(t))
  BY LineFacts DEF Placed
<1>2. r = [l \in Locks |-> r[l]] /\ \A l \in Locks : r[l] = IF l \in L THEN RemoveFirst(q[l], t) ELSE q[l]
  BY DEF Gone
<1> HIDE DEF r
<1>3. ASSUME NEW l \in Locks, l \in L
      PROVE  /\ IsLine(r[l]) /\ Passes(q[l], r[l], t) /\ Len(r[l]) \in Nat /\ ~\E i \in 1 .. Len(r[l]) : r[l][i] = t
  <2> DEFINE a == q[l]
  <2>1. IsLine(a)
    BY <1>1
  <2>2. r[l] = RemoveFirst(a, t)
    BY <1>2, <1>3
  <2> HIDE DEF a
  <2>3. IsLine(RemoveFirst(a, t)) /\ Passes(a, RemoveFirst(a, t), t) /\ Without(RemoveFirst(a, t), a, t)
    BY <2>1, PassesLeaving, RemoveFirstProperties
  <2>4. IsLine(r[l]) /\ Passes(a, r[l], t) /\ Without(r[l], a, t)
    BY <2>2, <2>3
  <2>5. ~\E i \in 1 .. Len(r[l]) : r[l][i] = t
    BY <2>4 DEF Without
  <2>6. Len(r[l]) \in Nat
    BY <2>4, LineFacts
  <2> QED BY <2>4, <2>5, <2>6 DEF a
<1>4. ASSUME NEW l \in Locks, l \notin L PROVE IsLine(r[l]) /\ Passes(q[l], r[l], t) /\ r[l] = q[l]
  <2>1. r[l] = q[l]
    BY <1>2, <1>4
  <2> QED BY <1>1, <2>1 DEF Passes
<1>5. \A l \in Locks : IsLine(r[l]) /\ Passes(q[l], r[l], t)
  BY <1>3, <1>4
<1>6. \A u \in Tasks \ {t} : InPlace(todo[u], stage[u], r, u, Pairing(u))
  BY <1>1, <1>5, OthersInPlace DEF Placed
<1>7. \A l : ~WaitsFor(rest, "run", l)
  BY DEF WaitsFor, AtConn
<1>8. HoldsOf(rest, "run", r, t) = H \ L
  <2> SUFFICES ASSUME NEW l \in DeviceLocks
               PROVE  l \in HoldsOf(rest, "run", r, t) <=> l \in H \ L
    BY DEF HoldsOf
  <2>1. l \in Locks
    BY DEF Locks
  <2>2. CASE l \in L
    <3>1. ~(Len(r[l]) > 0 /\ r[l][1] = t)
      BY <1>3, <2>1, <2>2
    <3> QED BY <2>2, <3>1 DEF HoldsOf
  <2>3. CASE l \notin L
    BY <1>4, <1>7, <2>1, <2>3 DEF HoldsOf
  <2> QED BY <2>2, <2>3
<1>9. ASSUME NEW l \in Locks, NEW i \in 1 .. Len(r[l]), r[l][i] = t, i > 1 \/ l = "conn" PROVE FALSE
  <2>1. l \notin L
    BY <1>3, <1>9
  <2>2. r[l] = q[l] /\ ~WaitsFor(p, sg, l)
    BY <1>4, <2>1
  <2> QED BY <1>1, <1>9, <2>2 DEF InPlace
<1>10. InPlace(rest, "run", r, t, Pairing(t))
  BY <1>7, <1>8, <1>9 DEF InPlace, AtConn
<1> QED BY <1>2, <1>5, <1>6, <1>10 DEF Placed, r

\* The first in line goes.
LEMMA HeadGone ==
    ASSUME NEW q, q = [k \in Locks |-> q[k]], NEW l \in Locks, IsLine(q[l]), NEW t, Len(q[l]) > 0, q[l][1] = t
    PROVE  [q EXCEPT ![l] = Tail(@)] = Gone(q, t, {l})
<1>1. Without(RemoveFirst(q[l], t), q[l], t)
  <2> DEFINE a == q[l]
  <2>1. IsLine(a)
    OBVIOUS
  <2> HIDE DEF a
  <2>2. Without(RemoveFirst(a, t), a, t)
    BY <2>1, RemoveFirstProperties
  <2> QED BY <2>2 DEF a
<1>2. RemoveFirst(q[l], t) = Tail(q[l])
  BY <1>1 DEF Without
<1> QED BY <1>2 DEF Gone

LEMMA Frees ==
    ASSUME NEW p, NEW q, NEW t \in Tasks, Placed(p, "run", q, t), p # <<>>, p[1][1] = "free"
    PROVE  Placed(Tail(p), "run", [q EXCEPT ![p[1][2]] = Tail(@)], t)
<1> DEFINE x == p[1][2]
           H == HoldsOf(p, "run", q, t)
<1>1. /\ q = [l \in Locks |-> q[l]] /\ \A l \in Locks : IsLine(q[l])
      /\ InPlace(p, "run", q, t, Pairing(t))
  BY DEF Placed
<1>2. x \in H /\ Ordered(Tail(p), H \ {x}, Pairing(t))
  <2>1. PICK b \in SUBSET DeviceLocks : InOrder(p[1], H, b, Pairing(t)) /\ Ordered(Tail(p), b, Pairing(t))
    BY <1>1, OrderedStep DEF InPlace
  <2> QED BY <2>1 DEF InOrder
<1> HIDE DEF x
<1>3. x \in Locks /\ Len(q[x]) > 0 /\ q[x][1] = t
  BY <1>2 DEF HoldsOf, Locks
<1>4. \A l \in Locks : WaitsFor(p, "run", l) => l \in {x}
  BY DEF WaitsFor, AtConn
<1>5. Placed(Tail(p), "run", Gone(q, t, {x}), t)
  BY <1>2, <1>4, Leaves
<1>6. [q EXCEPT ![x] = Tail(@)] = Gone(q, t, {x})
  BY <1>1, <1>3, HeadGone
<1> QED BY <1>5, <1>6 DEF x

\* Out of the line of the pairing lock, or of the connection's.
LEMMA Returned ==
    ASSUME NEW p, NEW sg, NEW q, NEW t \in Tasks, Placed(p, sg, q, t), NEW l \in Locks, WaitsFor(p, sg, l), sg # "lock"
    PROVE  Placed(p, "run", Gone(q, t, {l}), t)
<1>1. /\ q = [k \in Locks |-> q[k]] /\ \A k \in Locks : IsLine(q[k])
      /\ InPlace(p, sg, q, t, Pairing(t))
  BY DEF Placed
<1>2. \A k : WaitsFor(p, sg, k) <=> k = l
  BY DEF WaitsFor, AtConn
<1>3. HoldsOf(p, sg, q, t) \ {l} = HoldsOf(p, sg, q, t)
  BY <1>2 DEF HoldsOf
<1>4. Ordered(p, HoldsOf(p, sg, q, t) \ {l}, Pairing(t))
  BY <1>1, <1>3 DEF InPlace
<1> QED BY <1>2, <1>4, Leaves

\* On with the operation, or to the next stage of it.
LEMMA Shifts ==
    ASSUME NEW p, NEW sg \in AtConn, NEW q, NEW t \in Tasks, Placed(p, sg, q, t), q["conn"][1] = t,
           NEW next \in AtConn
    PROVE  Placed(p, next, q, t)
<1>1. InPlace(p, sg, q, t, Pairing(t))
  BY DEF Placed
<1>2. HoldsOf(p, next, q, t) = HoldsOf(p, sg, q, t) /\ \A l : WaitsFor(p, next, l) <=> WaitsFor(p, sg, l)
  BY DEF HoldsOf, WaitsFor, AtConn
<1>3. Len(q["conn"]) > 0
  <2>1. "conn" \in Locks /\ WaitsFor(p, sg, "conn")
    BY DEF Locks, WaitsFor
  <2>2. \E i \in 1 .. Len(q["conn"]) : q["conn"][i] = t
    BY <1>1, <2>1 DEF InPlace
  <2>3. Len(q["conn"]) \in Nat
    BY <2>1, LineFacts DEF Placed
  <2> QED BY <2>2, <2>3
<1>4. InPlace(p, next, q, t, Pairing(t))
  BY <1>1, <1>2, <1>3 DEF InPlace, AtConn
<1> QED BY <1>4 DEF Placed

-----------------------------------------------------------------------------
(* One thing to do, Do.                                                    *)

InOrderNow(s, t) == IsState(s) /\ Placed(s.todo, s.stage, s.queue, t)

LEMMA Next1Keeps ==
    ASSUME NEW s, NEW t \in Tasks, InOrderNow(s, t), s.stage = "run", s.todo # <<>>, s.todo[1][1] \notin {"lock", "free"}
    PROVE  InOrderNow(Next1(s), t)
<1>1. IsState(Next1(s)) /\ Next1(s).todo = Tail(s.todo) /\ Next1(s).stage = s.stage /\ Next1(s).queue = s.queue
  BY Next1Fields DEF InOrderNow
<1> QED BY <1>1, GoesOn DEF InOrderNow

LEMMA QueuesKeep ==
    ASSUME NEW s, NEW t \in Tasks, InOrderNow(s, t), s.stage = "run", s.todo # <<>>, s.todo[1][1] \notin {"lock", "free"}
    PROVE  InOrderNow([s EXCEPT !.stage = "queued", !.queue["conn"] = Append(@, t)], t)
<1> DEFINE r == [s EXCEPT !.stage = "queued", !.queue["conn"] = Append(@, t)]
           p == s.todo
           q == s.queue
<1>1. IsState(s) /\ Placed(p, "run", q, t) /\ p # <<>> /\ p[1][1] \notin {"lock", "free"}
  BY DEF InOrderNow
<1>0. r = [s EXCEPT !.stage = "queued", !.queue["conn"] = Append(@, t)]
  OBVIOUS
<1> HIDE DEF r
<1>2. IsState(r) /\ r.todo = p /\ r.stage = "queued" /\ r.queue = [q EXCEPT !["conn"] = Append(@, t)]
  BY <1>0, <1>1 DEF IsState
<1>3. "conn" \in Locks /\ "conn" \notin DeviceLocks /\ WaitsFor(p, "queued", "conn") /\ "queued" \notin {"lock", "pairing"}
  BY DEF Locks, DeviceLocks, WaitsFor, AtConn
<1> HIDE DEF p, q
<1>4. Placed(p, "queued", [q EXCEPT !["conn"] = Append(@, t)], t)
  BY <1>1, <1>3, Joins
<1> QED BY <1>2, <1>4 DEF InOrderNow, r

LEMMA CheckKeeps ==
    ASSUME NEW s, NEW t \in Tasks, InOrderNow(s, t), s.stage = "run", s.todo # <<>>, s.todo[1][1] = "check"
    PROVE  InOrderNow(TakeCheck(s, t), t)
<1> DEFINE mine == s.pending /\ ~(Pairing(t) /\ secret = 0)
           flag == s.pending /\ ~mine
           first == IF Locked(s, "pairing") THEN s.early \ {t} ELSE s.early \cup {t}
           excuse == IF \E u \in Tasks \ {t} : TookCheck(u) THEN s.excused \cup {t} ELSE s.excused \ {t}
           seen == [s EXCEPT !.pending = flag, !.taken = secret, !.early = first, !.excused = excuse]
           queued == [seen EXCEPT !.stage = "queued", !.queue["conn"] = Append(@, t)]
<1>1. TakeCheck(s, t) \in {queued, Next1(seen)}
  BY Zenon DEF TakeCheck
<1> HIDE DEF flag, first, excuse, mine
<1>0. seen = [s EXCEPT !.pending = flag, !.taken = secret, !.early = first, !.excused = excuse] /\ IsState(s)
  BY DEF InOrderNow
<1> HIDE DEF seen
<1>2. IsState(seen) /\ seen.todo = s.todo /\ seen.stage = s.stage /\ seen.queue = s.queue
  BY <1>0 DEF IsState
<1>3. InOrderNow(seen, t) /\ seen.todo[1][1] = "check"
  BY <1>2 DEF InOrderNow
<1>4. InOrderNow(Next1(seen), t)
  BY <1>2, <1>3, Next1Keeps
<1>5. InOrderNow(queued, t)
  BY <1>2, <1>3, QueuesKeep
<1> QED BY <1>1, <1>4, <1>5

LEMMA DoKeeps ==
    ASSUME NEW s, NEW t \in Tasks, InOrderNow(s, t), s.stage = "run"
    PROVE  InOrderNow(Do(s, t), t)
<1> DEFINE p == s.todo
           q == s.queue
           k == Head(s.todo)[1]
           x == Head(s.todo)[2]
           H == HoldsOf(p, "run", q, t)
<1>1. /\ IsState(s) /\ Placed(p, "run", q, t) /\ q = [l \in Locks |-> q[l]] /\ Ordered(p, H, Pairing(t))
  BY DEF InOrderNow, Placed, InPlace
<1>2. CASE p = <<>>
  <2>1. Do(s, t) = [s EXCEPT !.stage = "done"]
    BY <1>2 DEF Do
  <2>2. Placed(p, "done", q, t)
    BY <1>1, <1>2, Stays
  <2> QED BY <1>1, <2>1, <2>2 DEF InOrderNow, IsState
<1>3. CASE p # <<>>
  <2>00. PICK b \in SUBSET DeviceLocks : InOrder(p[1], H, b, Pairing(t))
    BY <1>1, <1>3, OrderedStep
  <2>0. Len(p) \in Nat \ {0} /\ p[1] \in Steps /\ Head(p) = p[1] /\ k = p[1][1] /\ x = p[1][2]
    BY <1>1, <1>3, OrderedStep
  <2>1. CASE k \in {"in", "out", "except"}
    <3>1. Do(s, t) = Next1(s)
      BY <1>3, <2>1 DEF Do
    <3> QED BY <1>3, <2>0, <2>1, <3>1, Next1Keeps
  <2>2. CASE k = "lock" /\ q[x] = <<>>
    <3>1. Do(s, t) = Next1([s EXCEPT !.queue[x] = <<t>>])
      BY <1>3, <2>2 DEF Do
    <3>2. /\ IsState(Do(s, t)) /\ Do(s, t).todo = Tail(p) /\ Do(s, t).stage = "run"
          /\ Do(s, t).queue = [q EXCEPT ![x] = <<t>>]
      BY <1>1, <3>1 DEF Next1, IsState
    <3>3. Placed(Tail(p), "run", [q EXCEPT ![p[1][2]] = <<t>>], t)
      BY <1>1, <1>3, <2>0, <2>2, Takes
    <3> QED BY <2>0, <3>2, <3>3 DEF InOrderNow
  <2>3. CASE k = "lock" /\ q[x] # <<>>
    <3>1. Do(s, t) = [s EXCEPT !.stage = "lock", !.queue[x] = Append(@, t)]
      BY <1>3, <2>3 DEF Do
    <3>2. /\ IsState(Do(s, t)) /\ Do(s, t).todo = p /\ Do(s, t).stage = "lock"
          /\ Do(s, t).queue = [q EXCEPT ![x] = Append(@, t)]
      BY <1>1, <3>1 DEF IsState
    <3>3. x \in Locks /\ x \notin H /\ WaitsFor(p, "lock", x)
      <4>1. x \in DeviceLocks /\ \A l \in H : Rank[l] < Rank[x]
        BY <2>00, <2>0, <2>3 DEF InOrder
      <4>2. Rank[x] \in 1 .. 6
        BY <4>1, Ranks
      <4> QED BY <2>0, <4>1, <4>2 DEF WaitsFor, Locks
    <3>4. Placed(p, "lock", [q EXCEPT ![x] = Append(@, t)], t)
      <4>1. "lock" # "pairing" /\ "lock" \notin AtConn /\ p[1][1] = "lock"
        BY <2>0, <2>3 DEF AtConn
      <4> HIDE DEF p, q, x, k
      <4> QED BY <1>1, <1>3, <3>3, <4>1, Joins
    <3> QED BY <3>2, <3>4 DEF InOrderNow
  <2>4. CASE k = "free"
    <3>1. Do(s, t) = Next1([s EXCEPT !.queue[x] = Tail(@)])
      BY <1>3, <2>4 DEF Do
    <3>2. /\ IsState(Do(s, t)) /\ Do(s, t).todo = Tail(p) /\ Do(s, t).stage = "run"
          /\ Do(s, t).queue = [q EXCEPT ![x] = Tail(@)]
      BY <1>1, <3>1 DEF Next1, IsState
    <3>3. Placed(Tail(p), "run", [q EXCEPT ![p[1][2]] = Tail(@)], t)
      BY <1>1, <1>3, <2>0, <2>4, Frees
    <3> QED BY <2>0, <3>2, <3>3 DEF InOrderNow
  <2>5. CASE k = "check"
    <3>1. CASE ~(Has("emptyCheck") /\ secret = 0 /\ ~Pairing(t) /\ Locked(s, "pairing"))
      <4>1. Do(s, t) = TakeCheck(s, t)
        BY <1>3, <2>5, <3>1 DEF Do
      <4> QED BY <1>3, <2>0, <2>5, <4>1, CheckKeeps
    <3>2. CASE Has("emptyCheck") /\ secret = 0 /\ ~Pairing(t) /\ Locked(s, "pairing")
      <4>1. Do(s, t) = [s EXCEPT !.stage = "pairing", !.queue["pairing"] = Append(@, t)]
        BY <1>3, <2>5, <3>2 DEF Do
      <4>2. /\ IsState(Do(s, t)) /\ Do(s, t).todo = p /\ Do(s, t).stage = "pairing"
            /\ Do(s, t).queue = [q EXCEPT !["pairing"] = Append(@, t)]
        BY <1>1, <4>1 DEF IsState
      <4>3. "pairing" \in Locks /\ "pairing" \notin H /\ WaitsFor(p, "pairing", "pairing")
        BY <2>00, <2>0, <2>5, <3>2 DEF InOrder, WaitsFor, Locks, DeviceLocks
      <4>4. Placed(p, "pairing", [q EXCEPT !["pairing"] = Append(@, t)], t)
        <5>1. "pairing" # "lock" /\ "pairing" \notin AtConn /\ p[1][1] = "check"
          BY <2>0, <2>5 DEF AtConn
        <5> HIDE DEF p, q, x, k
        <5> QED BY <1>1, <1>3, <4>3, <5>1, Joins
      <4> QED BY <4>2, <4>4 DEF InOrderNow
    <3> QED BY <3>1, <3>2
  <2>6. CASE k = "load"
    <3>1. Do(s, t) = [s EXCEPT !.stage = "load"]
      BY <1>3, <2>6 DEF Do
    <3>2. Placed(p, "load", q, t)
      BY <1>1, <1>3, <2>0, <2>6, Stays
    <3> QED BY <1>1, <3>1, <3>2 DEF InOrderNow, IsState
  <2>7. CASE k \notin {"in", "out", "except", "lock", "free", "check", "load"}
    <3>1. Do(s, t) = [s EXCEPT !.stage = "queued", !.queue["conn"] = Append(@, t)]
      BY <1>3, <2>7 DEF Do
    <3>2. s.todo # <<>> /\ s.todo[1][1] \notin {"lock", "free"}
      BY <1>3, <2>0, <2>7
    <3>3. InOrderNow([s EXCEPT !.stage = "queued", !.queue["conn"] = Append(@, t)], t)
      BY <3>2, QueuesKeep
    <3> QED BY <3>1, <3>3
  <2> QED BY <2>1, <2>2, <2>3, <2>4, <2>5, <2>6, <2>7
<1> QED BY <1>2, <1>3

-----------------------------------------------------------------------------
(* A coroutine run to its next await, Run.                                 *)

StepOn(p, t) == IF p.stage = "run" THEN Do(p, t) ELSE p

\* The steps of Run, one after the other.
Trace(f, s, t) == f = [n \in Nat |-> IF n = 0 THEN s ELSE StepOn(f[n - 1], t)]

LEMMA StepsExist ==
    ASSUME NEW s, NEW t
    PROVE  \E f : Trace(f, s, t)
<1> DEFINE Part(n, g) == g = [i \in 0 .. n |-> IF i = 0 THEN s ELSE StepOn(g[i - 1], t)]
<1>1. ASSUME NEW n \in Nat, NEW g, Part(n, g), NEW i \in 0 .. n
      PROVE  g[i] = IF i = 0 THEN s ELSE StepOn(g[i - 1], t)
  BY <1>1
<1>2. ASSUME NEW n \in Nat, NEW g, g = [i \in 0 .. n |-> g[i]],
             \A i \in 0 .. n : g[i] = IF i = 0 THEN s ELSE StepOn(g[i - 1], t)
      PROVE  Part(n, g)
  BY <1>2
<1> HIDE DEF Part
<1>3. ASSUME NEW n \in Nat PROVE \E g : Part(n, g)
  <2> DEFINE S == {m \in Nat : ~\E g : Part(m, g)}
  <2> SUFFICES ASSUME S # {} PROVE FALSE
    OBVIOUS
  <2>1. PICK m \in S : \A j \in S : m <= j
    BY LeastIndex, Zenon
  <2>2. CASE m = 0
    <3> DEFINE g == [i \in 0 .. 0 |-> s]
    <3>1. g = [i \in 0 .. 0 |-> g[i]] /\ \A i \in 0 .. 0 : i = 0 /\ g[i] = s
      OBVIOUS
    <3> HIDE DEF g
    <3>2. Part(0, g)
      BY <1>2, <3>1
    <3> QED BY <2>2, <3>2
  <2>3. CASE m # 0
    <3>1. m - 1 \in Nat /\ m - 1 \notin S
      BY <2>1, <2>3
    <3>2. PICK g : Part(m - 1, g)
      BY <3>1
    <3> DEFINE k == [i \in 0 .. m |-> IF i = m THEN StepOn(g[m - 1], t) ELSE g[i]]
    <3>3. k = [i \in 0 .. m |-> k[i]] /\ \A i \in 0 .. m : k[i] = IF i = m THEN StepOn(g[m - 1], t) ELSE g[i]
      OBVIOUS
    <3> HIDE DEF k
    <3>4. ASSUME NEW i \in 0 .. m PROVE k[i] = IF i = 0 THEN s ELSE StepOn(k[i - 1], t)
      <4>1. CASE i = m
        <5>1. k[m - 1] = g[m - 1] /\ k[m] = StepOn(g[m - 1], t)
          BY <2>3, <3>1, <3>3
        <5> QED BY <2>3, <4>1, <5>1
      <4>2. CASE i # m /\ i # 0
        <5>1. i \in 0 .. m - 1 /\ i - 1 \in 0 .. m /\ i - 1 # m
          BY <4>2
        <5>2. g[i] = StepOn(g[i - 1], t)
          BY <1>1, <3>1, <3>2, <4>2, <5>1
        <5> QED BY <3>3, <4>2, <5>1, <5>2
      <4>3. CASE i = 0
        <5>1. 0 \in 0 .. m - 1
          BY <3>1
        <5>2. g[0] = s
          BY <1>1, <3>1, <3>2, <5>1
        <5> QED BY <2>3, <3>3, <4>3, <5>2
      <4> QED BY <4>1, <4>2, <4>3
    <3>5. Part(m, k)
      BY <1>2, <3>3, <3>4
    <3> QED BY <3>5
  <2> QED BY <2>2, <2>3
<1>4. ASSUME NEW n \in Nat, NEW g, Part(n, g), NEW m \in Nat, NEW k, Part(m, k), NEW i \in 0 .. n, i \in 0 .. m
      PROVE  g[i] = k[i]
  <2> DEFINE S == {j \in Nat : j <= i /\ g[j] # k[j]}
  <2> SUFFICES ASSUME S # {} PROVE FALSE
    OBVIOUS
  <2>1. PICK j \in S : \A d \in S : j <= d
    BY LeastIndex, Zenon
  <2>2. j \in 0 .. n /\ j \in 0 .. m
    BY <1>4
  <2>3. g[j] = IF j = 0 THEN s ELSE StepOn(g[j - 1], t)
    BY <1>1, <1>4, <2>2
  <2>4. k[j] = IF j = 0 THEN s ELSE StepOn(k[j - 1], t)
    BY <1>1, <1>4, <2>2
  <2>5. j # 0
    BY <2>1, <2>3, <2>4
  <2>6. j - 1 \in Nat /\ j - 1 <= i /\ j - 1 \notin S
    BY <2>1, <2>5
  <2> QED BY <2>1, <2>3, <2>4, <2>5, <2>6
<1> DEFINE G(n) == CHOOSE g : Part(n, g)
           f == [n \in Nat |-> G(n)[n]]
<1>5. \A n \in Nat : Part(n, G(n))
  BY <1>3
<1> HIDE DEF G
<1>6. ASSUME NEW n \in Nat PROVE f[n] = IF n = 0 THEN s ELSE StepOn(f[n - 1], t)
  <2>1. Part(n, G(n)) /\ n \in 0 .. n
    BY <1>5
  <2>2. G(n)[n] = IF n = 0 THEN s ELSE StepOn(G(n)[n - 1], t)
    BY <1>1, <2>1
  <2>3. CASE n # 0
    <3>1. n - 1 \in Nat /\ n - 1 \in 0 .. n /\ n - 1 \in 0 .. n - 1 /\ Part(n - 1, G(n - 1))
      BY <1>5, <2>3
    <3>2. G(n)[n - 1] = G(n - 1)[n - 1]
      BY <1>4, <2>1, <3>1
    <3> QED BY <2>2, <2>3, <3>1, <3>2
  <2> QED BY <2>2, <2>3
<1>7. f = [n \in Nat |-> f[n]]
  OBVIOUS
<1> HIDE DEF f
<1>8. Trace(f, s, t)
  BY <1>6, <1>7 DEF Trace
<1> QED BY <1>8

LEMMA RunEnds ==
    ASSUME NEW s, NEW t \in Tasks, InOrderNow(s, t), Run(s, t)
    PROVE  \E r : /\ InOrderNow(r, t)
                  /\ todo' = [todo EXCEPT ![t] = r.todo] /\ stage' = [stage EXCEPT ![t] = r.stage]
                  /\ queue' = r.queue
<1> DEFINE after == CHOOSE f : Trace(f, s, t)
           r == after[Len(s.todo) + 1]
<1>1. Trace(after, s, t)
  BY StepsExist
<1>2. todo' = [todo EXCEPT ![t] = r.todo] /\ stage' = [stage EXCEPT ![t] = r.stage] /\ queue' = r.queue
  BY DEF Run, StepOn, Trace
<1> HIDE DEF after
<1>3. \A n \in Nat : after[n] = IF n = 0 THEN s ELSE StepOn(after[n - 1], t)
  BY <1>1 DEF Trace
<1>4. Len(s.todo) + 1 \in Nat
  BY LenProperties DEF InOrderNow, Placed, InPlace, Ordered, OrderedBy
<1>5. ASSUME NEW n \in Nat PROVE InOrderNow(after[n], t)
  <2> DEFINE S == {m \in Nat : ~InOrderNow(after[m], t)}
  <2> SUFFICES ASSUME S # {} PROVE FALSE
    OBVIOUS
  <2>1. PICK m \in S : \A j \in S : m <= j
    BY LeastIndex, Zenon
  <2>2. m # 0
    BY <1>3, <2>1
  <2>3. m - 1 \in Nat /\ m - 1 \notin S
    BY <2>1, <2>2
  <2>4. InOrderNow(after[m - 1], t)
    BY <2>3
  <2>5. InOrderNow(StepOn(after[m - 1], t), t)
    BY <2>4, DoKeeps DEF StepOn
  <2> QED BY <1>3, <2>1, <2>2, <2>5
<1> QED BY <1>2, <1>4, <1>5

\* Every call is in place.
AllPlaced ==
    /\ todo = [t \in Tasks |-> todo[t]] /\ stage = [t \in Tasks |-> stage[t]]
    /\ queue = [l \in Locks |-> queue[l]] /\ \A l \in Locks : IsLine(queue[l])
    /\ \A t \in Tasks : InPlace(todo[t], stage[t], queue, t, Pairing(t))

LEMMA Moved ==
    ASSUME AllPlaced, NEW t \in Tasks, NEW p, NEW sg, NEW q, Placed(p, sg, q, t), UNCHANGED method,
           todo' = [todo EXCEPT ![t] = p], stage' = [stage EXCEPT ![t] = sg], queue' = q
    PROVE  AllPlaced'
<1>1. /\ todo' = [u \in Tasks |-> IF u = t THEN p ELSE todo[u]]
      /\ stage' = [u \in Tasks |-> IF u = t THEN sg ELSE stage[u]]
  BY DEF AllPlaced
<1>2. todo' = [u \in Tasks |-> todo'[u]] /\ stage' = [u \in Tasks |-> stage'[u]]
  BY <1>1
<1>3. queue' = [l \in Locks |-> queue'[l]] /\ \A l \in Locks : IsLine(queue'[l])
  BY DEF Placed
<1>4. ASSUME NEW u \in Tasks PROVE InPlace(todo'[u], stage'[u], queue', u, Pairing(u)')
  <2>1. Pairing(u)' = Pairing(u)
    BY DEF Pairing
  <2>2. CASE u = t
    BY <1>1, <2>1, <2>2 DEF Placed
  <2>3. CASE u # t
    BY <1>1, <2>1, <2>3 DEF Placed
  <2> QED BY <2>2, <2>3
<1> QED BY <1>2, <1>3, <1>4 DEF AllPlaced

LEMMA RunPlaces ==
    ASSUME AllPlaced, NEW t \in Tasks, NEW s, InOrderNow(s, t), Run(s, t), UNCHANGED method
    PROVE  AllPlaced'
<1>1. PICK r : /\ InOrderNow(r, t) /\ todo' = [todo EXCEPT ![t] = r.todo]
               /\ stage' = [stage EXCEPT ![t] = r.stage] /\ queue' = r.queue
  BY RunEnds
<1> QED BY <1>1, Moved DEF InOrderNow

-----------------------------------------------------------------------------
(* The beginning of a call, its return from the connection, and an exception.*)

LEMMA NowPlaced ==
    ASSUME AllPlaced, NEW t \in Tasks
    PROVE  /\ Placed(todo[t], stage[t], queue, t)
           /\ IsState(Now(t)) /\ Now(t).todo = todo[t] /\ Now(t).stage = "run" /\ Now(t).queue = queue
<1>1. Placed(todo[t], stage[t], queue, t)
  BY DEF AllPlaced, Placed
<1>2. IsState(Now(t)) /\ Now(t).todo = todo[t] /\ Now(t).stage = "run" /\ Now(t).queue = queue
  BY DEF Now, IsState
<1> QED BY <1>1, <1>2

LEMMA StartPlaced ==
    ASSUME AllPlaced, NEW t \in Tasks, stage[t] = "idle", NEW body, Ordered(body, {}, Pairing(t))
    PROVE  InOrderNow([Now(t) EXCEPT !.todo = body], t)
<1>1. Placed(todo[t], "idle", queue, t) /\ todo[t] = <<>>
  BY NowPlaced DEF Placed, InPlace
<1>2. Placed(<<>>, "run", queue, t)
  BY <1>1, Resumed
<1>3. HoldsOf(body, "run", queue, t) = {} /\ \A l : ~WaitsFor(body, "run", l) /\ ~WaitsFor(<<>>, "run", l)
  <2>1. HoldsOf(body, "run", queue, t) = HoldsOf(<<>>, "run", queue, t)
    BY DEF HoldsOf, WaitsFor, AtConn
  <2>2. HoldsOf(<<>>, "run", queue, t) = {}
    BY <1>2, OrderedDone DEF Placed, InPlace
  <2> QED BY <2>1, <2>2 DEF WaitsFor, AtConn
<1>4. InPlace(body, "run", queue, t, Pairing(t))
  BY <1>2, <1>3 DEF Placed, InPlace, AtConn
<1>5. Placed(body, "run", queue, t)
  BY <1>2, <1>4 DEF Placed
<1> DEFINE s == [Now(t) EXCEPT !.todo = body]
<1>6. s = [Now(t) EXCEPT !.todo = body]
  OBVIOUS
<1> HIDE DEF s
<1>7. IsState(s) /\ s.todo = body /\ s.stage = "run" /\ s.queue = queue
  BY <1>6, NowPlaced DEF IsState
<1> QED BY <1>5, <1>6, <1>7 DEF InOrderNow

\* The connection's lock is let go, and the call goes on.
LEMMA LeftPlaced ==
    ASSUME AllPlaced, NEW t \in Tasks, NEW up, stage[t] \in AtConn
    PROVE  InOrderNow(Left(t, up), t) /\ InOrderNow(Next1(Left(t, up)), t)
<1>1. Placed(todo[t], stage[t], queue, t) /\ "conn" \in Locks /\ WaitsFor(todo[t], stage[t], "conn") /\ stage[t] # "lock"
  BY NowPlaced DEF Locks, WaitsFor, AtConn
<1>2. Placed(todo[t], "run", [queue EXCEPT !["conn"] = RemoveFirst(@, t)], t)
  <2> DEFINE p == todo[t]
             sg == stage[t]
             l == "conn"
  <2>1. Placed(p, sg, queue, t) /\ l \in Locks /\ WaitsFor(p, sg, l) /\ sg # "lock"
    BY <1>1
  <2> HIDE DEF p, sg, l
  <2>2. Placed(p, "run", Gone(queue, t, {l}), t)
    BY <2>1, Returned
  <2>3. Gone(queue, t, {l}) = [queue EXCEPT ![l] = RemoveFirst(@, t)]
    BY <2>1 DEF Gone, Placed
  <2> QED BY <2>2, <2>3 DEF p, l
<1>3. InOrderNow(Left(t, up), t)
  BY <1>2, LeftFields DEF InOrderNow, Released
<1>4. todo[t] # <<>> /\ todo[t][1][1] \notin {"lock", "free"}
  BY <1>1 DEF Placed, InPlace
<1> QED BY <1>3, <1>4, LeftFields, Next1Keeps

\* An exception leaves in the lines of what the call goes on to hold, and in no other.
LEMMA ThrownPlaced ==
    ASSUME AllPlaced, NEW t \in Tasks, NEW up, NEW cancelled, cancelled \/ stage[t] \in AtConn
    PROVE  InOrderNow(Thrown(Left(t, up), t, cancelled), t)
<1> DEFINE p == todo[t]
           sg == stage[t]
           q == queue
           H == HoldsOf(p, sg, q, t)
           caught == {i \in 1 .. Len(p) : p[i] = Except}
           to == IF cancelled \/ caught = {} THEN Len(p) ELSE CHOOSE i \in caught : TRUE
           L == {l \in Locks : l = "conn" \/ sg = l \/ Free(l) \in Range(SubSeq(p, 1, to))}
           r == Thrown(Left(t, up), t, cancelled)
<1>1. /\ Placed(p, sg, q, t) /\ q = [l \in Locks |-> q[l]] /\ \A l \in Locks : IsLine(q[l])
      /\ InPlace(p, sg, q, t, Pairing(t)) /\ Ordered(p, H, Pairing(t))
  BY NowPlaced DEF Placed, InPlace
<1>2. p \in Seq(Steps) /\ Len(p) \in Nat /\ H \subseteq DeviceLocks /\ \A i \in 1 .. Len(p) : p[i] \in Steps
  BY <1>1, OrderedFrees, LenProperties, ElementOfSeq
<1>3. to \in 0 .. Len(p) /\ (to = Len(p) \/ (to \in 1 .. Len(p) /\ p[to] = Except /\ sg \in AtConn))
  <2>1. CASE cancelled \/ caught = {}
    <3>1. to = Len(p)
      BY <2>1
    <3> HIDE DEF to, p
    <3> QED BY <1>2, <3>1
  <2>2. CASE ~cancelled /\ caught # {}
    <3>1. to \in caught
      BY <2>2
    <3>2. sg \in AtConn
      BY <2>2
    <3> HIDE DEF to, p, sg
    <3> QED BY <1>2, <3>1, <3>2
  <2> QED BY <2>1, <2>2
<1>4. IsState(r) /\ r.todo = SubSeq(p, to + 1, Len(p)) /\ r.stage = "run" /\ r.queue = Gone(q, t, L)
  <2> DEFINE lines == [l \in Locks |->
                         IF l = "conn" \/ sg = l \/ Free(l) \in Range(SubSeq(p, 1, to))
                         THEN RemoveFirst(Left(t, up).queue[l], t) ELSE Left(t, up).queue[l]]
             rest == SubSeq(p, to + 1, Len(p))
  <2>0. Left(t, up).todo = p
    BY LeftFields
  <2>1. r = [Left(t, up) EXCEPT !.todo = rest, !.queue = lines]
    <3> DEFINE s == Left(t, up)
    <3>1. s.todo = p
      BY <2>0
    <3> HIDE DEF s, p, sg
    <3>2. Thrown(s, t, cancelled) = [s EXCEPT !.todo = SubSeq(p, to + 1, Len(p)),
               !.queue = [l \in Locks |-> IF l = "conn" \/ stage[t] = l \/ Free(l) \in Range(SubSeq(p, 1, to))
                                          THEN RemoveFirst(s.queue[l], t) ELSE s.queue[l]]]
      BY <3>1, Zenon DEF Thrown, Caught
    <3> QED BY <3>2 DEF s, sg
  <2>2. lines = Gone(q, t, L)
    <3>1. Left(t, up).queue = [q EXCEPT !["conn"] = RemoveFirst(@, t)] /\ "conn" \in Locks
      BY LeftFields DEF Locks, Released
    <3>2. RemoveFirst(RemoveFirst(q["conn"], t), t) = RemoveFirst(q["conn"], t)
      <4> DEFINE a == q["conn"]
                 b == RemoveFirst(a, t)
      <4>1. IsLine(a)
        BY <1>1, <3>1
      <4> HIDE DEF a
      <4>2. Without(b, a, t)
        BY <4>1, RemoveFirstProperties
      <4> HIDE DEF b
      <4>3. ~\E i \in 1 .. Len(b) : b[i] = t
        BY <4>2 DEF Without
      <4>4. RemoveFirst(b, t) = b
        BY <4>3, NotThere
      <4> QED BY <4>4 DEF a, b
    <3> HIDE DEF p, sg, to
    <3>3. ASSUME NEW l \in Locks PROVE lines[l] = Gone(q, t, L)[l]
      <4>1. CASE l = "conn"
        BY <1>1, <3>1, <3>2, <4>1 DEF Gone
      <4>2. CASE l # "conn"
        BY <1>1, <3>1, <4>2 DEF Gone
      <4> QED BY <4>1, <4>2
    <3>4. lines = [l \in Locks |-> lines[l]] /\ Gone(q, t, L) = [l \in Locks |-> Gone(q, t, L)[l]]
      BY DEF Gone
    <3> QED BY <3>3, <3>4
  <2>3. IsState(Left(t, up)) /\ Left(t, up).stage = "run"
    BY LeftFields
  <2> HIDE DEF r, lines, rest
  <2>4. IsState(r) /\ r.todo = rest /\ r.stage = "run" /\ r.queue = lines
    BY <2>1, <2>3 DEF IsState
  <2> QED BY <2>2, <2>4 DEF rest
<1> HIDE DEF r
<1>5. \A l : Free(l) \in Range(SubSeq(p, 1, to)) <=> \E i \in 1 .. to : p[i] = Free(l)
  <2> DEFINE e == SubSeq(p, 1, to)
  <2>1. e \in Seq(Steps) /\ Len(e) = to /\ \A i \in 1 .. to : e[i] = p[i]
    <3>1. 1 \in Int /\ to \in Int /\ \A i \in 1 .. to : p[i] \in Steps
      BY <1>2, <1>3
    <3> HIDE DEF to, p
    <3>2. /\ e \in Seq(Steps) /\ Len(e) = IF 1 <= to THEN to - 1 + 1 ELSE 0
          /\ \A i \in 1 .. to - 1 + 1 : e[i] = p[1 + i - 1]
      BY <1>2, <3>1, SubSeqProperties
    <3>3. to >= 0
      BY <1>3, <1>2
    <3>4. \A i \in 1 .. to : 1 + i - 1 = i /\ i \in 1 .. to - 1 + 1
      BY <3>1
    <3> HIDE DEF e
    <3> QED BY <3>1, <3>2, <3>3, <3>4
  <2> HIDE DEF e, to
  <2>2. Range(e) = {e[i] : i \in 1 .. to}
    BY <2>1, LenProperties DEF Range
  <2> HIDE DEF p
  <2>3. \A l : Free(l) \in Range(e) <=> \E i \in 1 .. to : p[i] = Free(l)
    BY <2>1, <2>2
  <2> QED BY <2>3 DEF e
<1> DEFINE rest == SubSeq(p, to + 1, Len(p))
<1>6. CASE to \in 1 .. Len(p) /\ p[to] = Except /\ sg \in AtConn
  <2>1. \A l \in H : l \in Locks /\ l # "conn" /\ sg # l
    BY <1>2, <1>6 DEF Locks, DeviceLocks, AtConn
  <2>2. H \ L = {l \in H : \A i \in 1 .. to : p[i] # Free(l)}
    <3> HIDE DEF H, p, sg, to
    <3> QED BY <1>5, <2>1
  <2>3. p[1][1] # "lock"
    BY <1>1, <1>6 DEF InPlace
  <2>4. Ordered(rest, {l \in H : \A i \in 1 .. to : p[i] # Free(l)}, Pairing(t))
    <3> HIDE DEF H, p, sg, to
    <3> QED BY <1>1, <1>6, <2>3, OrderedCaught
  <2>5. Ordered(rest, H \ L, Pairing(t))
    <3> HIDE DEF H, L, rest
    <3> QED BY <2>2, <2>4, Zenon
  <2>6. \A l \in Locks : WaitsFor(p, sg, l) => l \in L
    BY <1>6 DEF WaitsFor, AtConn
  <2>10. r.todo = rest
    BY <1>4
  <2> HIDE DEF p, sg, q, H, L, rest
  <2>7. Placed(rest, "run", Gone(q, t, L), t)
    BY <1>1, <2>5, <2>6, Leaves DEF H
  <2>9. InOrderNow(r, t)
    BY <1>4, <2>7, <2>10 DEF InOrderNow
  <2> QED BY <2>9 DEF r
<1>7. CASE to = Len(p)
  <2>1. rest = <<>>
    <3>1. Len(p) + 1 \in Int /\ Len(p) \in Int /\ Len(p) < Len(p) + 1
      BY <1>2
    <3> HIDE DEF p, to
    <3> QED BY <1>7, <3>1, SubSeqEmpty
  <2>2. \A l \in Locks : (\E i \in 1 .. Len(p) : p[i] = Free(l)) => l \in L
    <3> HIDE DEF p, to, sg
    <3> QED BY <1>5, <1>7
  <2>3. H \subseteq L
    <3> SUFFICES ASSUME NEW l \in H PROVE l \in L
      OBVIOUS
    <3>1. l \in Locks
      BY <1>2 DEF Locks
    <3>2. \E i \in 1 .. Len(p) : p[i] = Free(l)
      <4> HIDE DEF H, p
      <4> QED BY <1>1, OrderedFrees
    <3> HIDE DEF L, p
    <3> QED BY <2>2, <3>1, <3>2
  <2>4. Ordered(rest, H \ L, Pairing(t))
    <3>1. H \ L = {}
      BY <2>3
    <3> HIDE DEF H, L, rest
    <3> QED BY <2>1, <3>1, OrderedDone
  <2>5. ASSUME NEW l \in Locks, WaitsFor(p, sg, l) PROVE l \in L
    <3>1. CASE sg = "lock" /\ l = p[1][2]
      <4>1. p # <<>> /\ p[1][1] = "lock" /\ p[1] \in Steps
        <5>1. p # <<>> /\ p[1][1] = "lock"
          BY <1>1, <3>1 DEF InPlace
        <5> QED BY <1>1, <5>1, OrderedStep
      <4>2. p[1] = Lock(l)
        BY <3>1, <4>1, StepPairs DEF Lock
      <4>3. \E i \in 1 .. Len(p) : p[i] = Free(l)
        <5> HIDE DEF H, p
        <5> QED BY <1>1, <4>1, <4>2, OrderedFrees
      <4> HIDE DEF L, p
      <4> QED BY <2>2, <4>3
    <3>2. CASE sg = "pairing" /\ l = "pairing"
      BY <3>2
    <3>3. CASE sg \in AtConn /\ l = "conn"
      BY <3>3
    <3> QED BY <2>5, <3>1, <3>2, <3>3 DEF WaitsFor
  <2>10. r.todo = rest
    BY <1>4
  <2> HIDE DEF p, sg, q, H, L, rest
  <2>6. Placed(rest, "run", Gone(q, t, L), t)
    BY <1>1, <2>4, <2>5, Leaves DEF H
  <2>9. InOrderNow(r, t)
    BY <1>4, <2>6, <2>10 DEF InOrderNow
  <2> QED BY <2>9 DEF r
<1> QED BY <1>3, <1>6, <1>7 DEF r

-----------------------------------------------------------------------------
(* Every step of the system.                                               *)

Profiled == device \in Devices /\ method \in [Tasks -> device.calls]

LEMMA AllPlacedInit == Init => AllPlaced
<1> SUFFICES ASSUME Init PROVE AllPlaced
  OBVIOUS
<1>1. /\ todo = [t \in Tasks |-> todo[t]] /\ stage = [t \in Tasks |-> stage[t]] /\ queue = [l \in Locks |-> queue[l]]
      /\ \A t \in Tasks : todo[t] = <<>> /\ stage[t] = "idle"
      /\ \A l \in Locks : queue[l] = <<>>
  BY DEF Init
<1>2. Len(<<>>) = 0 /\ <<>> \in Seq(Tasks)
  BY EmptySeq
<1>3. \A l \in Locks : Len(queue[l]) = 0 /\ IsLine(queue[l])
  <2> DEFINE e == <<>>
  <2>1. Len(e) = 0 /\ e \in Seq(Tasks) /\ \A l \in Locks : queue[l] = e
    BY <1>1, <1>2
  <2> HIDE DEF e
  <2>2. IsLine(e)
    BY <2>1 DEF IsLine
  <2> QED BY <2>1, <2>2
<1>4. ASSUME NEW t \in Tasks PROVE InPlace(todo[t], stage[t], queue, t, Pairing(t))
  <2>1. HoldsOf(<<>>, "idle", queue, t) = {}
    BY <1>3 DEF HoldsOf, Locks
  <2>2. Ordered(<<>>, {}, Pairing(t))
    BY OrderedDone
  <2>3. \A l : ~WaitsFor(<<>>, "idle", l)
    BY DEF WaitsFor, AtConn
  <2>4. InPlace(<<>>, "idle", queue, t, Pairing(t))
    <3>1. \A l \in Locks : ~\E i \in 1 .. Len(queue[l]) : TRUE
      BY <1>3
    <3> QED BY <2>1, <2>2, <2>3, <3>1 DEF InPlace, AtConn
  <2> QED BY <1>1, <2>4
<1> QED BY <1>1, <1>3, <1>4 DEF AllPlaced

LEMMA StartInOrder ==
    ASSUME AllPlaced, RInv, Profiled, NEW t \in Tasks, Start(t)
    PROVE  AllPlaced'
<1>1. /\ stage[t] = "idle" /\ UNCHANGED method
      /\ \E body \in Bodies(method[t]) : Run([Now(t) EXCEPT !.todo = body], t)
  BY DEF Start, RInv
<1>2. PICK body \in Bodies(method[t]) : Run([Now(t) EXCEPT !.todo = body], t)
  BY <1>1
<1>3. method[t] \in Methods
  BY DeviceCallsAssumption DEF Profiled
<1>4. Ordered(body, {}, Pairing(t))
  BY <1>3, BodiesOrdered DEF Pairing
<1> DEFINE s == [Now(t) EXCEPT !.todo = body]
<1>5. Run(s, t)
  BY <1>2
<1>6. InOrderNow(s, t)
  BY <1>1, <1>4, StartPlaced
<1> HIDE DEF s
<1> QED BY <1>1, <1>5, <1>6, RunPlaces

LEMMA TakesLock ==
    ASSUME AllPlaced, NEW t \in Tasks, TakeLock(t)
    PROVE  AllPlaced'
<1> DEFINE p == todo[t]
           s == Next1(Now(t))
<1>1. stage[t] = "lock" /\ Placed(p, "lock", queue, t)
  BY NowPlaced DEF TakeLock
<1>2. p # <<>> /\ p[1][1] = "lock" /\ Head(p) = p[1]
  <2>1. p # <<>> /\ p[1][1] = "lock" /\ Ordered(p, HoldsOf(p, "lock", queue, t), Pairing(t))
    BY <1>1 DEF Placed, InPlace
  <2>2. Len(p) \in Nat \ {0}
    BY <2>1, OrderedStep
  <2> QED BY <2>1, <2>2
<1>3. Head(queue[p[1][2]]) = t /\ Run(s, t) /\ UNCHANGED method
  BY <1>2 DEF TakeLock, Resumes
<1>4. queue[p[1][2]][1] = t
  BY <1>3
<1>5. IsState(s) /\ s.todo = Tail(p) /\ s.stage = "run" /\ s.queue = queue
  <2> DEFINE n == Now(t)
  <2>1. IsState(n) /\ n.todo = p /\ n.stage = "run" /\ n.queue = queue
    BY NowPlaced
  <2> HIDE DEF n, p
  <2>2. IsState(Next1(n)) /\ Next1(n).todo = Tail(n.todo) /\ Next1(n).stage = n.stage /\ Next1(n).queue = n.queue
    BY <2>1, Next1Fields
  <2>3. s = Next1(n)
    BY DEF n
  <2> HIDE DEF s
  <2> QED BY <2>1, <2>2, <2>3
<1> HIDE DEF s, p
<1>6. Placed(Tail(p), "run", queue, t)
  BY <1>1, <1>4, Granted
<1>7. InOrderNow(s, t)
  BY <1>5, <1>6 DEF InOrderNow
<1> QED BY <1>3, <1>7, RunPlaces

LEMMA PairingEnds ==
    ASSUME AllPlaced, NEW t \in Tasks, PairingOver(t)
    PROVE  AllPlaced'
<1> DEFINE p == todo[t]
           s == [Now(t) EXCEPT !.queue["pairing"] = Tail(@)]
           q == queue
           l == "pairing"
<1>1. stage[t] = "pairing" /\ Placed(p, "pairing", q, t) /\ Head(q[l]) = t /\ UNCHANGED method
      /\ Run(TakeCheck(s, t), t)
  BY NowPlaced DEF PairingOver, Resumes
<1>2. p # <<>> /\ p[1][1] = "check" /\ WaitsFor(p, "pairing", l) /\ l \in Locks
  BY <1>1 DEF Placed, InPlace, WaitsFor, Locks, DeviceLocks
<1>3. q = [k \in Locks |-> q[k]] /\ IsLine(q[l]) /\ q[l][1] = t
  BY <1>1, <1>2 DEF Placed
<1>4. Len(q[l]) > 0
  <2>1. \E i \in 1 .. Len(q[l]) : q[l][i] = t
    BY <1>1, <1>2 DEF Placed, InPlace
  <2>2. Len(q[l]) \in Nat
    BY <1>3, LineFacts
  <2> QED BY <2>1, <2>2
<1>5. IsState(s) /\ s.todo = p /\ s.stage = "run" /\ s.queue = [q EXCEPT ![l] = Tail(@)]
  <2> DEFINE n == Now(t)
  <2>1. IsState(n) /\ n.todo = p /\ n.stage = "run" /\ n.queue = q
    BY NowPlaced
  <2>2. s = [n EXCEPT !.queue["pairing"] = Tail(@)]
    OBVIOUS
  <2> HIDE DEF n, s, p, q
  <2> QED BY <2>1, <2>2 DEF IsState
<1> HIDE DEF s, p, q, l
<1>6. [q EXCEPT ![l] = Tail(@)] = Gone(q, t, {l})
  BY <1>2, <1>3, <1>4, HeadGone
<1>7. Placed(p, "run", Gone(q, t, {l}), t)
  BY <1>1, <1>2, Returned
<1>8. InOrderNow(s, t)
  BY <1>5, <1>6, <1>7 DEF InOrderNow
<1>9. InOrderNow(TakeCheck(s, t), t)
  BY <1>2, <1>5, <1>8, CheckKeeps
<1> QED BY <1>1, <1>9, RunPlaces

LEMMA LoadEnds ==
    ASSUME AllPlaced, NEW t \in Tasks, Loaded(t)
    PROVE  AllPlaced'
<1> DEFINE s == Now(t)
<1>1. stage[t] = "load" /\ Placed(todo[t], "load", queue, t) /\ Run(Next1(s), t) /\ UNCHANGED method
  BY NowPlaced DEF Loaded, Resumes
<1>2. todo[t] # <<>> /\ todo[t][1][1] \notin {"lock", "free"} /\ Placed(todo[t], "run", queue, t)
  BY <1>1, Resumed DEF Placed, InPlace
<1>3. s.todo = todo[t] /\ s.stage = "run" /\ InOrderNow(s, t)
  BY <1>2, NowPlaced DEF InOrderNow
<1> HIDE DEF s
<1>4. InOrderNow(Next1(s), t)
  BY <1>2, <1>3, Next1Keeps
<1> QED BY <1>1, <1>4, RunPlaces

\* The first in the connection's line goes on there.
LEMMA StaysAtConn ==
    ASSUME AllPlaced, NEW t \in Tasks, stage[t] \in AtConn, queue["conn"][1] = t,
           NEW next \in AtConn, stage' = [stage EXCEPT ![t] = next], UNCHANGED <<todo, queue, method>>
    PROVE  AllPlaced'
<1> DEFINE p == todo[t]
           sg == stage[t]
<1>1. Placed(p, sg, queue, t) /\ sg \in AtConn
  BY NowPlaced
<1>2. todo' = [todo EXCEPT ![t] = p]
  BY DEF AllPlaced
<1> HIDE DEF p, sg
<1>3. Placed(p, next, queue, t)
  BY <1>1, Shifts
<1> QED BY <1>2, <1>3, Moved

LEMMA AtHead ==
    ASSUME AllPlaced, NEW t \in Tasks, stage[t] \in {"setup", "wire"}
    PROVE  queue["conn"][1] = t /\ Len(queue["conn"]) > 0
BY DEF AllPlaced, InPlace

LEMMA Refused ==
    ASSUME AllPlaced, NEW t \in Tasks, CheckRefused(t)
    PROVE  AllPlaced'
<1> DEFINE p == todo[t]
           q == queue
           l == "conn"
           r == Gone(q, t, {l})
<1>1. /\ stage[t] = "wire" /\ Placed(p, "wire", q, t) /\ UNCHANGED method
      /\ stage' = [stage EXCEPT ![t] = "refused"]
      /\ queue' = [q EXCEPT ![l] = Append(Tail(@), t)] /\ todo' = [todo EXCEPT ![t] = p]
  BY NowPlaced DEF CheckRefused, AllPlaced, deviceVars
<1>2. /\ p # <<>> /\ p[1][1] \notin {"lock", "free"} /\ WaitsFor(p, "wire", l) /\ WaitsFor(p, "refused", l)
      /\ l \in Locks /\ l \notin DeviceLocks /\ "refused" \notin {"lock", "pairing"}
  BY <1>1 DEF Placed, InPlace, WaitsFor, AtConn, Locks, DeviceLocks
<1>3. q = [k \in Locks |-> q[k]] /\ IsLine(q[l]) /\ q[l][1] = t /\ Len(q[l]) > 0
  BY <1>1, <1>2, AtHead DEF Placed
<1> HIDE DEF p, q, l
<1>4. r = [q EXCEPT ![l] = Tail(@)]
  BY <1>2, <1>3, HeadGone
<1>5. Placed(p, "run", r, t)
  BY <1>1, <1>2, Returned
<1> HIDE DEF r
<1>6. Placed(p, "refused", [r EXCEPT ![l] = Append(@, t)], t)
  BY <1>2, <1>5, Joins
<1>7. [r EXCEPT ![l] = Append(@, t)] = [q EXCEPT ![l] = Append(Tail(@), t)]
  BY <1>2, <1>3, <1>4
<1>8. Placed(p, "refused", queue', t)
  BY <1>1, <1>6, <1>7
<1> QED BY <1>1, <1>8, Moved

LEMMA Leaving ==
    ASSUME AllPlaced, NEW t \in Tasks, NEW up, stage[t] \in AtConn, Run(Next1(Left(t, up)), t), UNCHANGED method
    PROVE  AllPlaced'
BY LeftPlaced, RunPlaces

LEMMA Throwing ==
    ASSUME AllPlaced, NEW t \in Tasks, NEW up, NEW cancelled, cancelled \/ stage[t] \in AtConn,
           Run(Thrown(Left(t, up), t, cancelled), t), UNCHANGED method
    PROVE  AllPlaced'
BY ThrownPlaced, RunPlaces

LEMMA Cancelling ==
    ASSUME AllPlaced, NEW t \in Tasks, Cancel(t)
    PROVE  AllPlaced'
<1>1. PICK up, rearm : Run([Thrown(Left(t, up), t, TRUE) EXCEPT !.pending = @ \/ rearm], t)
  BY DEF Cancel, Returns
<1> DEFINE s == Thrown(Left(t, up), t, TRUE)
<1>0. Run([s EXCEPT !.pending = @ \/ rearm], t)
  BY <1>1
<1>2. UNCHANGED method
  BY DEF Cancel, Returns
<1>3. InOrderNow(s, t)
  BY ThrownPlaced
<1> HIDE DEF s
<1> DEFINE flag == s.pending \/ rearm
           r == [s EXCEPT !.pending = flag]
<1>4. Run(r, t)
  BY <1>0
<1> HIDE DEF flag
<1>5. r = [s EXCEPT !.pending = flag] /\ IsState(s)
  BY <1>3 DEF InOrderNow
<1> HIDE DEF r
<1>6. IsState(r) /\ r.todo = s.todo /\ r.stage = s.stage /\ r.queue = s.queue
  BY <1>5 DEF IsState
<1>7. InOrderNow(r, t)
  BY <1>3, <1>6 DEF InOrderNow
<1> QED BY <1>2, <1>4, <1>7, RunPlaces

LEMMA AllPlacedNext ==
    ASSUME AllPlaced, RInv, Profiled, [Next]_vars
    PROVE  AllPlaced' /\ Profiled'
<1>1. ASSUME NEW t \in Tasks, Start(t) \/ TakeLock(t) \/ PairingOver(t) \/ Loaded(t) \/ CheckRefused(t) \/ Cancel(t)
      PROVE  AllPlaced'
  BY <1>1, StartInOrder, TakesLock, PairingEnds, LoadEnds, Refused, Cancelling
<1>2. ASSUME NEW t \in Tasks, OpStarts(t) \/ ReleaseDrops(t) PROVE AllPlaced'
  <2>1. stage[t] \in AtConn /\ queue["conn"][1] = t /\ UNCHANGED <<todo, queue, method>>
    BY <1>2 DEF OpStarts, ReleaseDrops, Turn, AtConn, deviceVars
  <2>2. \E next \in AtConn : stage' = [stage EXCEPT ![t] = next]
    BY <1>2, Zenon DEF OpStarts, ReleaseDrops, AtConn
  <2> QED BY <2>1, <2>2, StaysAtConn
<1>3. ASSUME NEW t \in Tasks, SetUp(t) \/ Retry(t) PROVE AllPlaced'
  <2>1. stage[t] \in {"setup", "wire"} /\ UNCHANGED <<todo, queue, method>>
    BY <1>3 DEF SetUp, Retry, deviceVars
  <2>2. \E next \in AtConn : stage' = [stage EXCEPT ![t] = next]
    BY <1>3, Zenon DEF SetUp, Retry, AtConn
  <2>3. stage[t] \in AtConn /\ queue["conn"][1] = t
    BY <2>1, AtHead DEF AtConn
  <2> QED BY <2>1, <2>2, <2>3, StaysAtConn
<1>4. ASSUME NEW t \in Tasks, Succeeds(t) \/ Connected(t) \/ ReleaseKeeps(t) \/ ReleaseEnds(t) PROVE AllPlaced'
  <2>1. stage[t] \in AtConn /\ (\E up : Run(Next1(Left(t, up)), t)) /\ UNCHANGED method
    BY <1>4 DEF Succeeds, Connected, ReleaseKeeps, ReleaseEnds, Turn, AtConn, Returns
  <2> QED BY <2>1, Leaving
<1>5. ASSUME NEW t \in Tasks, Fails(t) \/ Lost(t) \/ Disconnects(t) PROVE AllPlaced'
  <2>1. stage[t] \in AtConn /\ (\E up : Run(Thrown(Left(t, up), t, FALSE), t)) /\ UNCHANGED method
    BY <1>5 DEF Fails, Lost, Disconnects, Turn, AtConn, Returns
  <2> QED BY <2>1, Throwing
<1>6. ASSUME LinkDrops \/ BeatStarts \/ BeatEnds \/ SetSecret \/ Finished \/ UNCHANGED vars PROVE AllPlaced'
  <2>1. UNCHANGED <<todo, stage, queue, method>>
    BY <1>6 DEF LinkDrops, BeatStarts, BeatEnds, SetSecret, Finished, vars, deviceVars
  <2> QED BY <2>1 DEF AllPlaced, Pairing
<1>7. UNCHANGED <<device, method>>
  BY DEF Next, Start, TakeLock, PairingOver, Loaded, Resumes, OpStarts, SetUp, Succeeds, CheckRefused, Fails, Retry, Lost,
         Connected, ReleaseDrops, ReleaseKeeps, ReleaseEnds, Disconnects, Cancel, Returns, LinkDrops, BeatStarts, BeatEnds,
         SetSecret, Finished, vars, deviceVars
<1>8. Profiled'
  BY <1>7 DEF Profiled
<1> QED BY <1>1, <1>2, <1>3, <1>4, <1>5, <1>6, <1>8 DEF Next

-----------------------------------------------------------------------------
(* The highest lock waited for.                                            *)

Waits(t, l) == WaitsFor(todo[t], stage[t], l)

\* A call waits for one lock, and all it holds rank below it; whoever is behind another waits.
LEMMA WaitsAbove ==
    ASSUME AllPlaced, NEW u \in Tasks, NEW l \in Locks, Waits(u, l)
    PROVE  /\ \A k \in Locks : Waits(u, k) => k = l
           /\ \E i \in 1 .. Len(queue[l]) : queue[l][i] = u
           /\ \A k \in DeviceLocks : Len(queue[k]) > 0 /\ queue[k][1] = u /\ k # l => Rank[k] < Rank[l]
<1> DEFINE p == todo[u]
           sg == stage[u]
           H == HoldsOf(p, sg, queue, u)
<1>1. InPlace(p, sg, queue, u, Pairing(u)) /\ WaitsFor(p, sg, l)
  BY DEF AllPlaced, Waits
<1>2. \A k \in Locks : WaitsFor(p, sg, k) => k = l
  BY <1>1 DEF WaitsFor, AtConn
<1>3. \A k \in DeviceLocks : Len(queue[k]) > 0 /\ queue[k][1] = u /\ k # l => k \in H
  BY <1>2 DEF HoldsOf, Locks
<1>4. ASSUME NEW k \in H, k # l PROVE Rank[k] < Rank[l]
  <2>1. k \in DeviceLocks /\ Rank[k] \in 1 .. 6 /\ (Rank[k] = 6 => k = "pairing")
    BY Ranks DEF HoldsOf
  <2>2. CASE sg = "lock" /\ l = p[1][2]
    <3>1. p # <<>> /\ p[1][1] = "lock" /\ Ordered(p, H, Pairing(u))
      BY <1>1, <2>2 DEF InPlace
    <3> HIDE DEF H, p
    <3>2. PICK b \in SUBSET DeviceLocks : InOrder(p[1], H, b, Pairing(u))
      BY <3>1, OrderedStep
    <3> QED BY <1>4, <2>2, <3>1, <3>2 DEF InOrder
  <2>3. CASE l = "pairing"
    BY <1>4, <2>1, <2>3, Ranks
  <2>4. CASE l = "conn"
    BY <2>1, <2>4, Ranks
  <2> QED BY <1>1, <2>2, <2>3, <2>4 DEF WaitsFor
<1>5. \E i \in 1 .. Len(queue[l]) : queue[l][i] = u
  BY <1>1 DEF InPlace
<1> HIDE DEF p, sg, H
<1>6. \A k \in Locks : Waits(u, k) => k = l
  BY <1>2 DEF Waits, p, sg
<1> QED BY <1>3, <1>4, <1>5, <1>6

LEMMA NobodyCircles ==
    ASSUME AllPlaced
    PROVE  NoCircularWait
<1> SUFFICES ASSUME NEW s \in SUBSET Tasks, s # {}, \A t \in s : \E u \in s : Ahead(u, t)
             PROVE  FALSE
  BY DEF NoCircularWait
<1>1. \A l \in Locks : IsLine(queue[l]) /\ Len(queue[l]) \in Nat /\ DOMAIN queue[l] = 1 .. Len(queue[l])
  <2> SUFFICES ASSUME NEW l \in Locks
               PROVE  IsLine(queue[l]) /\ Len(queue[l]) \in Nat /\ DOMAIN queue[l] = 1 .. Len(queue[l])
    OBVIOUS
  <2>1. IsLine(queue[l])
    BY DEF AllPlaced
  <2>2. queue[l] \in Seq(Tasks)
    BY <2>1 DEF IsLine
  <2> QED BY <2>1, <2>2, LenProperties
<1>2. ASSUME NEW t \in Tasks, NEW l \in Locks, NEW i \in 1 .. Len(queue[l]), queue[l][i] = t, i > 1 \/ l = "conn"
      PROVE  Waits(t, l)
  <2>1. InPlace(todo[t], stage[t], queue, t, Pairing(t))
    BY DEF AllPlaced
  <2> QED BY <1>2, <2>1 DEF InPlace, Waits
<1>3. ASSUME NEW t \in s
      PROVE  \E l \in Locks : \E i, j \in 1 .. Len(queue[l]) :
                 i < j /\ queue[l][i] \in s /\ queue[l][j] = t /\ Waits(t, l)
  <2>1. PICK u \in s : Ahead(u, t)
    OBVIOUS
  <2>2. PICK l \in Locks : \E i, j \in DOMAIN queue[l] : i < j /\ queue[l][i] = u /\ queue[l][j] = t
    BY <2>1 DEF Ahead
  <2>3. PICK i \in 1 .. Len(queue[l]), j \in 1 .. Len(queue[l]) : i < j /\ queue[l][i] = u /\ queue[l][j] = t
    BY <1>1, <2>2
  <2>4. Waits(t, l)
    BY <1>2, <2>3
  <2> QED BY <2>3, <2>4
<1> DEFINE Asked == {l \in Locks : \E t \in s : Waits(t, l)}
           Depths == {n \in Nat : \E l \in Asked : n = 7 - Rank[l]}
<1>4. \A l \in Locks : Rank[l] \in 1 .. 7 /\ (Rank[l] = 7 => l = "conn")
  BY Ranks DEF Locks
<1>5. Depths # {}
  <2>1. PICK t \in s : TRUE
    OBVIOUS
  <2>2. PICK l \in Asked : TRUE
    BY <1>3, <2>1
  <2>3. l \in Locks /\ 7 - Rank[l] \in Nat
    BY <1>4
  <2>4. 7 - Rank[l] \in Depths
    BY <2>3
  <2> QED BY <2>4, Zenon
<1>6. PICK n \in Depths : \A m \in Depths : n <= m
  BY <1>5, LeastIndex, Zenon
<1>7. PICK l \in Asked : \A k \in Asked : Rank[k] <= Rank[l]
  <2>1. PICK l \in Asked : n = 7 - Rank[l]
    BY <1>6
  <2>2. \A k \in Asked : 7 - Rank[k] \in Depths
    BY <1>4
  <2>3. \A k \in Asked : Rank[k] <= Rank[l]
    BY <1>4, <1>6, <2>1, <2>2
  <2> QED BY <2>3
<1> DEFINE q == queue[l]
           Places == {i \in 1 .. Len(q) : q[i] \in s /\ Waits(q[i], l)}
<1>8. l \in Locks /\ IsLine(q) /\ Len(q) \in Nat /\ Places \in SUBSET Nat
  BY <1>1
<1>9. Places # {}
  <2>1. PICK t \in s : Waits(t, l)
    BY <1>7
  <2>2. PICK i \in 1 .. Len(q) : q[i] = t
    BY <1>8, <2>1, WaitsAbove
  <2> QED BY <2>1, <2>2
<1>10. PICK e \in Places : \A i \in Places : e <= i
  BY <1>8, <1>9, LeastIndex, Zenon
<1>11. PICK k \in Locks : \E i, j \in 1 .. Len(queue[k]) :
                 i < j /\ queue[k][i] \in s /\ queue[k][j] = q[e] /\ Waits(q[e], k)
  BY <1>3, <1>10
<1>12. k = l
  BY <1>8, <1>10, <1>11, WaitsAbove
<1>13. PICK i \in 1 .. Len(q), j \in 1 .. Len(q) : i < j /\ q[i] \in s /\ q[j] = q[e]
  BY <1>11, <1>12
<1>14. j = e
  BY <1>8, <1>10, <1>13 DEF IsLine
<1>15. ~Waits(q[i], l)
  BY <1>8, <1>10, <1>13, <1>14
<1>16. i = 1 /\ l # "conn"
  <2>1. q[i] \in Tasks
    BY <1>13
  <2>2. ~(i > 1 \/ l = "conn")
    BY <1>2, <1>8, <1>13, <1>15, <2>1
  <2> QED BY <1>13, <2>2
<1>17. l \in DeviceLocks /\ Len(q) > 0
  BY <1>8, <1>13, <1>16 DEF Locks
<1>18. PICK h \in Asked : Waits(q[i], h)
  BY <1>3, <1>13
<1>19. h # l /\ h \in Locks
  BY <1>15, <1>18
<1>20. Rank[l] < Rank[h]
  BY <1>13, <1>16, <1>17, <1>18, <1>19, WaitsAbove
<1>21. Rank[h] <= Rank[l] /\ Rank[h] \in 1 .. 7 /\ Rank[l] \in 1 .. 7
  BY <1>4, <1>7, <1>8, <1>18
<1> QED BY <1>20, <1>21

\* No set of calls waits for one another's locks, whichever calls meet and however they are
\* refused, fail or are cancelled (the order is stated at _bar_lock).
THEOREM NobodyWaitsInCircles == Spec => []NoCircularWait
<1>1. Init => RInv /\ AllPlaced /\ Profiled
  BY RInvInit, AllPlacedInit DEF Init, Profiled
<1>2. RInv /\ AllPlaced /\ Profiled /\ [Next]_vars => (RInv /\ AllPlaced /\ Profiled)'
  BY RInvNext, AllPlacedNext
<1>3. AllPlaced => NoCircularWait
  BY NobodyCircles
<1> QED BY <1>1, <1>2, <1>3, PTL DEF Spec

-----------------------------------------------------------------------------
(* What a step of a body is taken under: the locks held and the sections    *)
(* open, each named by the step that opens it.  A body may be inside        *)
(* "between" twice over, so that one is not among them.                     *)

Works(x) == x[1] \in {"write", "send", "query"}

\* The locks a frame goes out under.
LocksFor(f) ==
    UNION {IF f \in {"upload", "activate", "drop"} THEN {"scene"} ELSE {},
           IF f = "drop" \/ (Has("pair") /\ f \in {"level", "kelvin+level", "all"}) THEN {"brightness"} ELSE {},
           IF f \in {"bars", "drop"} \/ (Has("bars") /\ f \in {"power", "all", "activate"}) THEN {"bar"} ELSE {},
           IF f = "tap" THEN {"tap"} ELSE {}}
LocksIn(s) ==
    CASE s = "scene" -> {"scene", "gate"}
      [] s = "pair"  -> IF Has("pair") THEN {"brightness"} ELSE {}
      [] s = "bars"  -> {"bar"}
      [] s = "taps"  -> {"tap"}
      [] OTHER       -> {}
Needs(x) ==
    CASE x[1] = "query" -> {Lock("gate")}
      [] x[1] \in {"write", "send"} -> {Lock(l) : l \in LocksFor(x[2])}
      [] x \in {In("between"), Out("between")} -> {In("hold")}
      [] x[1] = "in" /\ x # In("between") -> {Lock(l) : l \in LocksIn(x[2])}
      [] OTHER -> {}

Opens(x) == IF x[1] = "lock" \/ (x[1] = "in" /\ x # In("between")) THEN {x} ELSE {}
Shuts(x) ==
    CASE x[1] = "free" -> {Lock(x[2])}
      [] x[1] = "out" /\ x # Out("between") -> {In(x[2])}
      [] OTHER -> {}

\* Whatever is open has what it needs; the bars are a section of two-bar profiles only.
Nested(a) == \A y \in a : Needs(y) \subseteq a /\ (y = In("bars") => Has("bars"))

\* One step, from what was open to what is.
Guards(x, a, b) ==
    /\ Needs(x) \subseteq a /\ Opens(x) \cap a = {} /\ Shuts(x) \subseteq a
    /\ b = (a \cup Opens(x)) \ Shuts(x)

OpenAlong(p) == [1 .. Len(p) + 1 -> SUBSET Steps]

\* A part of a body that may run with a open and has the same open at its end.
CoversBy(p, g, a) ==
    /\ p \in Seq(Steps) /\ g \in OpenAlong(p) /\ g[1] = a /\ g[Len(p) + 1] = a
    /\ \A i \in 1 .. Len(p) + 1 : Nested(g[i])
    /\ \A i \in 1 .. Len(p) : Guards(p[i], g[i], g[i + 1])
Covers(p, a) == \E g : CoversBy(p, g, a)

LEMMA CoversNothing ==
    ASSUME NEW a \in SUBSET Steps, Nested(a)
    PROVE  Covers(<<>>, a)
<1> DEFINE g == [i \in 1 .. 1 |-> a]
<1>1. <<>> \in Seq(Steps) /\ Len(<<>>) = 0
  BY EmptySeq
<1>2. g \in OpenAlong(<<>>) /\ g[1] = a /\ g[Len(<<>>) + 1] = a
  BY <1>1 DEF OpenAlong
<1> HIDE DEF g
<1>3. CoversBy(<<>>, g, a)
  BY <1>1, <1>2 DEF CoversBy
<1> QED BY <1>3 DEF Covers

LEMMA CoversOne ==
    ASSUME NEW a \in SUBSET Steps, Nested(a), NEW x \in Steps, Needs(x) \subseteq a, Opens(x) = {}, Shuts(x) = {}
    PROVE  Covers(<<x>>, a)
<1> DEFINE g == [i \in 1 .. 2 |-> a]
<1>1. <<x>> \in Seq(Steps) /\ Len(<<x>>) = 1 /\ <<x>>[1] = x
  OBVIOUS
<1>2. g \in OpenAlong(<<x>>) /\ g[1] = a /\ g[2] = a /\ Len(<<x>>) + 1 = 2
  BY <1>1 DEF OpenAlong
<1> HIDE DEF g
<1>3. Guards(x, a, a)
  BY DEF Guards
<1>4. CoversBy(<<x>>, g, a)
  BY <1>1, <1>2, <1>3 DEF CoversBy
<1> QED BY <1>4 DEF Covers

\* The steps of two parts, one after the other.
LEMMA Joined ==
    ASSUME NEW p \in Seq(Steps), NEW q \in Seq(Steps)
    PROVE  /\ p \o q \in Seq(Steps) /\ Len(p) \in Nat /\ Len(q) \in Nat /\ Len(p \o q) = Len(p) + Len(q)
           /\ \A i \in 1 .. Len(p) : i \in 1 .. Len(p \o q) /\ (p \o q)[i] = p[i]
           /\ \A i \in 1 .. Len(q) : Len(p) + i \in 1 .. Len(p \o q) /\ (p \o q)[Len(p) + i] = q[i]
           /\ \A i \in 1 .. Len(p \o q) :
                 i \in 1 .. Len(p) \/ (i > Len(p) /\ i - Len(p) \in 1 .. Len(q) /\ (p \o q)[i] = q[i - Len(p)])
<1>1. Len(p) \in Nat /\ Len(q) \in Nat
  BY LenProperties
<1>2. /\ p \o q \in Seq(Steps) /\ Len(p \o q) = Len(p) + Len(q)
      /\ \A i \in 1 .. Len(p) + Len(q) : (p \o q)[i] = IF i <= Len(p) THEN p[i] ELSE q[i - Len(p)]
  BY ConcatProperties
<1> DEFINE r == p \o q
           m == Len(p)
           n == Len(q)
<1>3. /\ r \in Seq(Steps) /\ Len(r) = m + n /\ m \in Nat /\ n \in Nat
      /\ \A i \in 1 .. m + n : r[i] = IF i <= m THEN p[i] ELSE q[i - m]
  BY <1>1, <1>2
<1> HIDE DEF r, m, n
<1>4. ASSUME NEW i \in 1 .. n PROVE m + i \in 1 .. m + n /\ r[m + i] = q[i]
  <2>1. m + i \in 1 .. m + n /\ ~(m + i <= m) /\ (m + i) - m = i
    BY <1>3
  <2> QED BY <1>3, <2>1
<1>5. ASSUME NEW i \in 1 .. m PROVE i \in 1 .. m + n /\ r[i] = p[i]
  BY <1>3
<1>6. ASSUME NEW i \in 1 .. m + n PROVE i \in 1 .. m \/ (i > m /\ i - m \in 1 .. n /\ r[i] = q[i - m])
  BY <1>3
<1> QED BY <1>3, <1>4, <1>5, <1>6 DEF r, m, n

LEMMA CoversBoth ==
    ASSUME NEW a, NEW p, NEW q, Covers(p, a), Covers(q, a)
    PROVE  Covers(p \o q, a)
<1>1. PICK h : CoversBy(p, h, a)
  BY DEF Covers
<1>2. PICK g : CoversBy(q, g, a)
  BY DEF Covers
<1> DEFINE m == Len(p)
           n == Len(q)
           f == [i \in 1 .. m + n + 1 |-> IF i <= m THEN h[i] ELSE g[i - m]]
<1>3. p \in Seq(Steps) /\ q \in Seq(Steps) /\ m \in Nat /\ n \in Nat
  BY <1>1, <1>2, LenProperties DEF CoversBy
<1>4. /\ p \o q \in Seq(Steps) /\ Len(p \o q) = m + n
      /\ \A i \in 1 .. m + n : (p \o q)[i] = IF i <= m THEN p[i] ELSE q[i - m]
  BY <1>3, ConcatProperties
<1>5. ASSUME NEW i \in 1 .. m + n + 1, ~(i <= m) PROVE i - m \in 1 .. n + 1 /\ f[i] = g[i - m]
  BY <1>3, <1>5
<1>6. ASSUME NEW i \in 1 .. m + n + 1, i <= m + 1 PROVE f[i] = h[i] /\ i \in 1 .. m + 1
  <2>1. CASE i <= m
    BY <1>3, <2>1
  <2>2. CASE i = m + 1
    BY <1>1, <1>2, <1>3, <2>2 DEF CoversBy
  <2> QED BY <1>3, <1>6, <2>1, <2>2
<1>7. \A i \in 1 .. m + n + 1 : f[i] \in SUBSET Steps /\ Nested(f[i])
  <2> SUFFICES ASSUME NEW i \in 1 .. m + n + 1 PROVE f[i] \in SUBSET Steps /\ Nested(f[i])
    OBVIOUS
  <2>1. CASE i <= m
    BY <1>1, <1>3, <1>6, <2>1 DEF CoversBy, OpenAlong
  <2>2. CASE ~(i <= m)
    BY <1>2, <1>3, <1>5, <2>2 DEF CoversBy, OpenAlong
  <2> QED BY <2>1, <2>2
<1>8. f \in OpenAlong(p \o q)
  BY <1>4, <1>7 DEF OpenAlong
<1>9. f[1] = a /\ f[m + n + 1] = a
  <2>1. f[1] = h[1]
    BY <1>3, <1>6
  <2>2. f[m + n + 1] = g[n + 1]
    BY <1>3, <1>5
  <2> QED BY <1>1, <1>2, <2>1, <2>2 DEF CoversBy
<1> HIDE DEF f
<1>10. ASSUME NEW i \in 1 .. m + n PROVE Guards((p \o q)[i], f[i], f[i + 1])
  <2>1. CASE i <= m
    <3>1. f[i] = h[i] /\ f[i + 1] = h[i + 1] /\ (p \o q)[i] = p[i] /\ i \in 1 .. m
      BY <1>3, <1>4, <1>6, <2>1
    <3> QED BY <1>1, <3>1 DEF CoversBy
  <2>2. CASE ~(i <= m)
    <3>1. /\ f[i] = g[i - m] /\ f[i + 1] = g[(i - m) + 1] /\ (p \o q)[i] = q[i - m] /\ i - m \in 1 .. n
      <4>1. i + 1 \in 1 .. m + n + 1 /\ ~(i + 1 <= m) /\ i \in 1 .. m + n + 1 /\ (i + 1) - m = (i - m) + 1
        BY <1>3, <2>2
      <4> QED BY <1>3, <1>4, <1>5, <2>2, <4>1
    <3> QED BY <1>2, <3>1 DEF CoversBy
  <2> QED BY <2>1, <2>2
<1>11. CoversBy(p \o q, f, a)
  BY <1>4, <1>7, <1>8, <1>9, <1>10 DEF CoversBy
<1> QED BY <1>11 DEF Covers

\* A part between the step that opens y and the one that shuts it.
LEMMA CoversWithin ==
    ASSUME NEW a \in SUBSET Steps, NEW p, NEW y \in Steps, NEW z \in Steps,
           Nested(a), Opens(y) = {y}, Shuts(y) = {}, y \notin a, Needs(y) \subseteq a, y = In("bars") => Has("bars"),
           Opens(z) = {}, Shuts(z) = {y}, Needs(z) = {}, Covers(p, a \cup {y})
    PROVE  Covers(<<y>> \o p \o <<z>>, a)
<1> DEFINE b == a \cup {y}
           n == Len(p)
           q == <<y>> \o p \o <<z>>
<1>1. PICK h : CoversBy(p, h, b)
  BY DEF Covers
<1> DEFINE f == [i \in 1 .. n + 3 |-> IF i = 1 \/ i = n + 3 THEN a ELSE h[i - 1]]
<1>2. p \in Seq(Steps) /\ n \in Nat
  BY <1>1, LenProperties DEF CoversBy
<1>3. /\ q \in Seq(Steps) /\ Len(q) = n + 2 /\ q[1] = y /\ q[n + 2] = z
      /\ \A i \in 2 .. n + 1 : q[i] = p[i - 1]
  <2>1. <<y>> \in Seq(Steps) /\ <<z>> \in Seq(Steps) /\ Len(<<y>>) = 1 /\ Len(<<z>>) = 1 /\ <<y>>[1] = y /\ <<z>>[1] = z
    OBVIOUS
  <2>2. /\ <<y>> \o p \in Seq(Steps) /\ Len(<<y>> \o p) = n + 1
        /\ \A i \in 1 .. n + 1 : (<<y>> \o p)[i] = IF i <= 1 THEN <<y>>[i] ELSE p[i - 1]
    BY <1>2, <2>1, ConcatProperties
  <2>3. /\ (<<y>> \o p) \o <<z>> \in Seq(Steps) /\ Len((<<y>> \o p) \o <<z>>) = n + 2
        /\ \A i \in 1 .. n + 2 : ((<<y>> \o p) \o <<z>>)[i]
              = IF i <= n + 1 THEN (<<y>> \o p)[i] ELSE <<z>>[i - (n + 1)]
    BY <1>2, <2>1, <2>2, ConcatProperties
  <2> QED BY <1>2, <2>1, <2>2, <2>3
<1> HIDE DEF q
<1>4. /\ f[1] = a /\ f[n + 3] = a /\ \A i \in 2 .. n + 2 : f[i] = h[i - 1] /\ i - 1 \in 1 .. n + 1
  BY <1>2
<1>9. f = [i \in 1 .. n + 3 |-> f[i]]
  OBVIOUS
<1> HIDE DEF f, b
<1>5. ASSUME NEW i \in 1 .. n + 3 PROVE f[i] \in SUBSET Steps /\ Nested(f[i])
  <2>1. i = 1 \/ i = n + 3 \/ i \in 2 .. n + 2
    BY <1>2
  <2>2. \A j \in 1 .. n + 1 : h[j] \in SUBSET Steps /\ Nested(h[j])
    BY <1>1 DEF CoversBy, OpenAlong
  <2> QED BY <1>4, <2>1, <2>2
<1>6. f \in OpenAlong(q)
  BY <1>2, <1>3, <1>5, <1>9 DEF OpenAlong
<1>7. ASSUME NEW i \in 1 .. n + 2 PROVE Guards(q[i], f[i], f[i + 1])
  <2>1. CASE i = 1
    <3>1. f[2] = b /\ 1 + 1 = 2
      BY <1>1, <1>2, <1>4 DEF CoversBy
    <3>2. Guards(y, a, b)
      BY DEF Guards, b
    <3> QED BY <1>3, <1>4, <2>1, <3>1, <3>2
  <2>2. CASE i = n + 2
    <3>1. f[n + 2] = b /\ (n + 2) + 1 = n + 3
      BY <1>1, <1>2, <1>4 DEF CoversBy
    <3>2. Guards(z, b, a)
      BY DEF Guards, b
    <3> QED BY <1>3, <1>4, <2>2, <3>1, <3>2
  <2>3. CASE i \in 2 .. n + 1
    <3>1. f[i] = h[i - 1] /\ f[i + 1] = h[(i - 1) + 1] /\ q[i] = p[i - 1] /\ i - 1 \in 1 .. n
      <4>1. i + 1 \in 2 .. n + 2 /\ (i + 1) - 1 = (i - 1) + 1
        BY <1>2, <2>3
      <4> QED BY <1>2, <1>3, <1>4, <2>3, <4>1
    <3> QED BY <1>1, <3>1 DEF CoversBy
  <2> QED BY <1>2, <2>1, <2>2, <2>3
<1>8. CoversBy(q, f, a)
  BY <1>2, <1>3, <1>4, <1>5, <1>6, <1>7 DEF CoversBy
<1> QED BY <1>8 DEF Covers, q

-----------------------------------------------------------------------------
(* The order of the frames and the sections of a body, which suffixes keep. *)

Acts(p) == \E i \in 1 .. Len(p) : Works(p[i])
NoneOf(p, x) == \A i \in 1 .. Len(p) : p[i] # x
Loose(p) == NoneOf(p, In("hold")) /\ NoneOf(p, Out("hold"))

\* The heartbeat is held back once.
Kept(p) == \A i, j \in 1 .. Len(p) : i < j /\ p[i] = Out("hold") => p[j] # In("hold")

\* Between two frames, and after the first of them.
Leads(p, k, j) ==
    /\ p[j] = In("between") => Works(p[k])
    /\ p[j] = Out("between") => p[k] = In("between")
Turns(x) == x \in {In("between"), Out("between")}

\* The first of the frames went out in the same hold of the heartbeat.
Shaped(p) ==
    \A j \in 1 .. Len(p) : Turns(p[j]) =>
        \E k \in 1 .. j : Leads(p, k, j) /\ \A i \in k .. j : p[i] # In("hold")

LEMMA ActsBoth ==
    ASSUME NEW p \in Seq(Steps), NEW q \in Seq(Steps), Acts(p) \/ Acts(q)
    PROVE  Acts(p \o q)
<1>1. CASE Acts(p)
  <2>1. PICK i \in 1 .. Len(p) : Works(p[i])
    BY <1>1 DEF Acts
  <2>2. i \in 1 .. Len(p \o q) /\ (p \o q)[i] = p[i]
    BY Joined
  <2> QED BY <2>1, <2>2 DEF Acts
<1>2. CASE Acts(q)
  <2>1. PICK i \in 1 .. Len(q) : Works(q[i])
    BY <1>2 DEF Acts
  <2>2. Len(p) + i \in 1 .. Len(p \o q) /\ (p \o q)[Len(p) + i] = q[i]
    BY Joined
  <2> QED BY <2>1, <2>2 DEF Acts
<1> QED BY <1>1, <1>2

LEMMA NoneBoth ==
    ASSUME NEW p \in Seq(Steps), NEW q \in Seq(Steps), NEW x, NoneOf(p, x), NoneOf(q, x)
    PROVE  NoneOf(p \o q, x)
<1> SUFFICES ASSUME NEW i \in 1 .. Len(p \o q) PROVE (p \o q)[i] # x
  BY DEF NoneOf
<1>1. CASE i \in 1 .. Len(p)
  <2>1. (p \o q)[i] = p[i]
    BY <1>1, Joined
  <2> QED BY <1>1, <2>1 DEF NoneOf
<1>2. CASE i > Len(p) /\ i - Len(p) \in 1 .. Len(q) /\ (p \o q)[i] = q[i - Len(p)]
  BY <1>2 DEF NoneOf
<1> QED BY <1>1, <1>2, Joined

LEMMA KeptBoth ==
    ASSUME NEW p \in Seq(Steps), NEW q \in Seq(Steps), Kept(p), Kept(q),
           NoneOf(p, Out("hold")) \/ NoneOf(q, In("hold"))
    PROVE  Kept(p \o q)
<1> DEFINE r == p \o q
           m == Len(p)
           n == Len(q)
<1>1. /\ m \in Nat /\ n \in Nat /\ Len(r) = m + n
      /\ \A i \in 1 .. m : r[i] = p[i]
      /\ \A i \in 1 .. m + n : i \in 1 .. m \/ (i > m /\ i - m \in 1 .. n /\ r[i] = q[i - m])
  BY Joined
<1> HIDE DEF r
<1> SUFFICES ASSUME NEW i \in 1 .. m + n, NEW j \in 1 .. m + n, i < j, r[i] = Out("hold"), r[j] = In("hold") PROVE FALSE
  BY <1>1 DEF Kept, r
<1>2. CASE j \in 1 .. m
  <2>1. i \in 1 .. m /\ r[i] = p[i] /\ r[j] = p[j]
    BY <1>1, <1>2
  <2> QED BY <1>2, <2>1 DEF Kept
<1>3. CASE i > m
  <2>1. /\ i - m \in 1 .. n /\ r[i] = q[i - m] /\ j - m \in 1 .. n /\ r[j] = q[j - m] /\ i - m < j - m
    BY <1>1, <1>3
  <2> QED BY <2>1 DEF Kept
<1>4. CASE i \in 1 .. m /\ j > m
  <2>1. r[i] = p[i] /\ j - m \in 1 .. n /\ r[j] = q[j - m]
    BY <1>1, <1>4
  <2> QED BY <1>4, <2>1 DEF NoneOf
<1> QED BY <1>1, <1>2, <1>3, <1>4

LEMMA ShapedBoth ==
    ASSUME NEW p \in Seq(Steps), NEW q \in Seq(Steps), Shaped(p), Shaped(q)
    PROVE  Shaped(p \o q)
<1> DEFINE r == p \o q
           m == Len(p)
           n == Len(q)
<1>1. /\ m \in Nat /\ n \in Nat /\ Len(r) = m + n
      /\ \A i \in 1 .. m : r[i] = p[i]
      /\ \A i \in 1 .. m + n : i \in 1 .. m \/ (i > m /\ i - m \in 1 .. n /\ r[i] = q[i - m])
  BY Joined
<1> HIDE DEF r
<1> SUFFICES ASSUME NEW j \in 1 .. m + n, Turns(r[j])
             PROVE  \E k \in 1 .. j : Leads(r, k, j) /\ \A i \in k .. j : r[i] # In("hold")
  BY <1>1 DEF Shaped, r
<1>2. CASE j \in 1 .. m
  <2>1. PICK k \in 1 .. j : Leads(p, k, j) /\ \A i \in k .. j : p[i] # In("hold")
    BY <1>1, <1>2 DEF Shaped
  <2>2. \A i \in k .. j : r[i] = p[i]
    BY <1>1, <1>2
  <2>3. r[k] = p[k] /\ r[j] = p[j]
    BY <1>1, <1>2
  <2> QED BY <2>1, <2>2, <2>3 DEF Leads
<1>3. CASE j > m /\ j - m \in 1 .. n /\ r[j] = q[j - m]
  <2>1. PICK k \in 1 .. j - m : Leads(q, k, j - m) /\ \A i \in k .. j - m : q[i] # In("hold")
    BY <1>3 DEF Shaped
  <2>2. m + k \in 1 .. j /\ r[m + k] = q[k] /\ r[j] = q[j - m]
    <3>1. m + k \in 1 .. m + n /\ m + k > m /\ (m + k) - m = k /\ m + k \in 1 .. j
      BY <1>1, <1>3
    <3> QED BY <1>1, <1>3, <3>1
  <2>3. ASSUME NEW i \in m + k .. j PROVE r[i] # In("hold")
    <3>1. i \in 1 .. m + n /\ ~(i \in 1 .. m) /\ i - m \in k .. j - m
      BY <1>1, <1>3
    <3>2. r[i] = q[i - m]
      BY <1>1, <3>1
    <3> QED BY <2>1, <3>1, <3>2
  <2>4. Leads(r, m + k, j)
    BY <2>1, <2>2 DEF Leads
  <2> QED BY <2>2, <2>3, <2>4
<1> QED BY <1>1, <1>2, <1>3

\* One step after a part of a single hold.
LEMMA ShapedOn ==
    ASSUME NEW p \in Seq(Steps), Shaped(p), NoneOf(p, In("hold")), NEW x \in Steps,
           x = In("between") => Acts(p), x = Out("between") => ~NoneOf(p, In("between"))
    PROVE  Shaped(p \o <<x>>)
<1> DEFINE r == p \o <<x>>
           m == Len(p)
<1>0. <<x>> \in Seq(Steps) /\ Len(<<x>>) = 1 /\ <<x>>[1] = x
  OBVIOUS
<1>1. /\ m \in Nat /\ Len(r) = m + 1
      /\ \A i \in 1 .. m + 1 : r[i] = IF i <= m THEN p[i] ELSE <<x>>[i - m]
  BY <1>0, ConcatProperties, LenProperties
<1>2. (\A i \in 1 .. m : r[i] = p[i]) /\ r[m + 1] = x
  <2>1. m + 1 \in 1 .. m + 1 /\ ~(m + 1 <= m) /\ (m + 1) - m = 1
    BY <1>1
  <2> QED BY <1>0, <1>1, <2>1
<1> HIDE DEF r
<1> SUFFICES ASSUME NEW j \in 1 .. m + 1, Turns(r[j])
             PROVE  \E k \in 1 .. j : Leads(r, k, j) /\ \A i \in k .. j : r[i] # In("hold")
  BY <1>1 DEF Shaped, r
<1>3. CASE j \in 1 .. m
  <2>1. PICK k \in 1 .. j : Leads(p, k, j) /\ \A i \in k .. j : p[i] # In("hold")
    BY <1>2, <1>3 DEF Shaped
  <2>2. (\A i \in k .. j : r[i] = p[i]) /\ r[k] = p[k] /\ r[j] = p[j]
    BY <1>1, <1>2, <1>3
  <2> QED BY <2>1, <2>2 DEF Leads
<1>4. CASE j = m + 1
  <2>0. x # In("hold") /\ (x = In("between") \/ x = Out("between")) /\ In("between") # Out("between")
    BY <1>2, <1>4 DEF Turns, In, Out
  <2>1. PICK k \in 1 .. m : (x = In("between") => Works(p[k])) /\ (x = Out("between") => p[k] = In("between"))
    BY <2>0 DEF Acts, NoneOf
  <2>2. k \in 1 .. j /\ r[k] = p[k] /\ r[j] = x
    BY <1>1, <1>2, <1>4
  <2>3. \A i \in k .. j : r[i] # In("hold")
    BY <1>1, <1>2, <1>4, <2>0 DEF NoneOf
  <2> QED BY <2>1, <2>2, <2>3 DEF Leads
<1> QED BY <1>1, <1>3, <1>4

LEMMA ShortParts ==
    /\ \A x : NoneOf(<<>>, x) /\ Kept(<<>>) /\ Shaped(<<>>)
    /\ \A x \in Steps : /\ Kept(<<x>>) /\ (Works(x) => Acts(<<x>>)) /\ (~Turns(x) => Shaped(<<x>>))
                        /\ \A y : x # y => NoneOf(<<x>>, y)
<1>1. Len(<<>>) = 0 /\ 1 .. 0 = {}
  BY EmptySeq
<1>2. \A x : NoneOf(<<>>, x) /\ Kept(<<>>) /\ Shaped(<<>>)
  BY <1>1 DEF NoneOf, Kept, Shaped
<1>3. ASSUME NEW x \in Steps
      PROVE  /\ Kept(<<x>>) /\ (Works(x) => Acts(<<x>>)) /\ (~Turns(x) => Shaped(<<x>>))
             /\ \A y : x # y => NoneOf(<<x>>, y)
  <2> DEFINE p == <<x>>
  <2>1. Len(p) = 1 /\ p[1] = x /\ \A i \in 1 .. 1 : i = 1
    OBVIOUS
  <2> HIDE DEF p
  <2>2. Kept(p) /\ (Works(x) => Acts(p)) /\ (~Turns(x) => Shaped(p)) /\ \A y : x # y => NoneOf(p, y)
    BY <2>1 DEF Kept, Acts, Shaped, NoneOf
  <2> QED BY <2>2 DEF p
<1> QED BY <1>2, <1>3

-----------------------------------------------------------------------------
(* Parts of a single hold, and parts that hold the heartbeat back once.     *)

Sits(p, a) == Covers(p, a) /\ Shaped(p) /\ Loose(p)
Stands(p, a) == Covers(p, a) /\ Shaped(p) /\ Kept(p)

LEMMA PartFacts ==
    ASSUME NEW p, NEW a, Covers(p, a)
    PROVE  p \in Seq(Steps) /\ a \in SUBSET Steps /\ Nested(a) /\ Len(p) \in Nat
<1>1. PICK g : CoversBy(p, g, a)
  BY DEF Covers
<1>2. p \in Seq(Steps) /\ Len(p) \in Nat
  BY <1>1, LenProperties DEF CoversBy
<1>3. 1 \in 1 .. Len(p) + 1
  BY <1>2
<1> QED BY <1>1, <1>2, <1>3 DEF CoversBy, OpenAlong

LEMMA SitsStands ==
    ASSUME NEW p, NEW a, Sits(p, a)
    PROVE  Stands(p, a)
BY DEF Sits, Stands, Loose, NoneOf, Kept

LEMMA SitsNothing ==
    ASSUME NEW a \in SUBSET Steps, Nested(a)
    PROVE  Sits(<<>>, a)
BY CoversNothing, ShortParts DEF Sits, Loose

LEMMA SitsOne ==
    ASSUME NEW a \in SUBSET Steps, Nested(a), NEW x \in Steps, Needs(x) \subseteq a, Opens(x) = {}, Shuts(x) = {},
           ~Turns(x), x \notin {In("hold"), Out("hold")}
    PROVE  Sits(<<x>>, a)
BY CoversOne, ShortParts DEF Sits, Loose

LEMMA SitsBoth ==
    ASSUME NEW p, NEW q, NEW a, Sits(p, a), Sits(q, a)
    PROVE  Sits(p \o q, a)
<1>1. p \in Seq(Steps) /\ q \in Seq(Steps)
  BY PartFacts DEF Sits
<1>2. Covers(p \o q, a)
  BY CoversBoth DEF Sits
<1>3. Shaped(p \o q) /\ NoneOf(p \o q, In("hold")) /\ NoneOf(p \o q, Out("hold"))
  BY <1>1, ShapedBoth, NoneBoth DEF Sits, Loose
<1> QED BY <1>2, <1>3 DEF Sits, Loose

LEMMA StandsBoth ==
    ASSUME NEW p, NEW q, NEW a, (Sits(p, a) /\ Stands(q, a)) \/ (Stands(p, a) /\ Sits(q, a))
    PROVE  Stands(p \o q, a)
<1>1. Covers(p, a) /\ Covers(q, a) /\ Shaped(p) /\ Shaped(q) /\ Kept(p) /\ Kept(q) /\ (Loose(p) \/ Loose(q))
  BY SitsStands DEF Sits, Stands
<1>2. p \in Seq(Steps) /\ q \in Seq(Steps)
  BY <1>1, PartFacts
<1>3. Covers(p \o q, a)
  BY <1>1, CoversBoth
<1>4. Shaped(p \o q) /\ Kept(p \o q)
  BY <1>1, <1>2, ShapedBoth, KeptBoth DEF Loose
<1> QED BY <1>3, <1>4 DEF Stands

\* Between two steps that open and shut y, other than the hold of the heartbeat.
LEMMA Within ==
    ASSUME NEW a \in SUBSET Steps, NEW p, NEW y \in Steps, NEW z \in Steps,
           Nested(a), Opens(y) = {y}, Shuts(y) = {}, y \notin a, Needs(y) \subseteq a, y = In("bars") => Has("bars"),
           Opens(z) = {}, Shuts(z) = {y}, Needs(z) = {}, ~Turns(y), ~Turns(z),
           {y, z} \cap {In("hold"), Out("hold")} = {}
    PROVE  /\ Sits(p, a \cup {y}) => Sits(<<y>> \o p \o <<z>>, a)
           /\ Stands(p, a \cup {y}) => Stands(<<y>> \o p \o <<z>>, a)
<1> DEFINE r == <<y>> \o p \o <<z>>
<1> SUFFICES ASSUME Stands(p, a \cup {y}) PROVE Stands(r, a) /\ (Loose(p) => Loose(r))
  BY SitsStands DEF Sits, Stands
<1>1. Covers(r, a)
  BY CoversWithin DEF Stands
<1>2. <<y>> \in Seq(Steps) /\ <<z>> \in Seq(Steps) /\ p \in Seq(Steps)
  BY PartFacts DEF Stands
<1>3. /\ Shaped(<<y>>) /\ Shaped(<<z>>) /\ Loose(<<y>>) /\ Loose(<<z>>) /\ Kept(<<y>>) /\ Kept(<<z>>)
      /\ Shaped(p) /\ Kept(p)
  BY ShortParts DEF Loose, Stands
<1>4. <<y>> \o p \in Seq(Steps) /\ Shaped(<<y>> \o p) /\ Kept(<<y>> \o p) /\ (Loose(p) => Loose(<<y>> \o p))
  BY <1>2, <1>3, Joined, ShapedBoth, KeptBoth, NoneBoth DEF Loose
<1>5. Shaped(r) /\ Kept(r) /\ (Loose(p) => Loose(r))
  BY <1>2, <1>3, <1>4, ShapedBoth, KeptBoth, NoneBoth DEF Loose
<1> QED BY <1>1, <1>5 DEF Stands

-----------------------------------------------------------------------------
(* The steps one by one, and what bodies are put together from.             *)

\* A step that opens nothing and shuts nothing.
Plain(x, n) ==
    /\ x \in Steps /\ Opens(x) = {} /\ Shuts(x) = {} /\ Needs(x) = n
    /\ ~Turns(x) /\ x \notin {In("hold"), Out("hold")}
\* Two steps that open and shut y.
Bracket(y, z, n) ==
    /\ y \in Steps /\ z \in Steps /\ Opens(y) = {y} /\ Shuts(y) = {} /\ Needs(y) = n
    /\ Opens(z) = {} /\ Shuts(z) = {y} /\ Needs(z) = {} /\ ~Turns(y) /\ ~Turns(z)

LEMMA LockSteps ==
    ASSUME NEW l \in DeviceLocks
    PROVE  /\ Bracket(Lock(l), Free(l), {}) /\ Lock(l) # In("bars")
           /\ {Lock(l), Free(l)} \cap {In("hold"), Out("hold")} = {}
<1>1. Lock(l) \in Steps /\ Free(l) \in Steps
  BY DEF Lock, Free, Steps
<1>2. Lock(l)[1] = "lock" /\ Lock(l)[2] = l /\ Free(l)[1] = "free" /\ Free(l)[2] = l
  BY DEF Lock, Free
<1>3. \A s : Lock(l) # In(s) /\ Free(l) # In(s) /\ Lock(l) # Out(s) /\ Free(l) # Out(s)
  BY DEF Lock, Free, In, Out
<1> QED BY <1>1, <1>2, <1>3, Zenon DEF Bracket, Opens, Shuts, Needs, Turns

LEMMA SectionSteps ==
    ASSUME NEW s \in Sections, s # "between"
    PROVE  /\ Bracket(In(s), Out(s), {Lock(l) : l \in LocksIn(s)})
           /\ s # "hold" => {In(s), Out(s)} \cap {In("hold"), Out("hold")} = {}
           /\ In(s) = In("bars") => s = "bars"
<1>1. In(s) \in Steps /\ Out(s) \in Steps
  BY DEF In, Out, Steps, Sections, DeviceLocks
<1>2. In(s)[1] = "in" /\ In(s)[2] = s /\ Out(s)[1] = "out" /\ Out(s)[2] = s
  BY DEF In, Out
<1>3. /\ \A t : In(s) # Out(t) /\ Out(s) # In(t)
      /\ \A t : (In(s) = In(t) => s = t) /\ (Out(s) = Out(t) => s = t)
  BY DEF In, Out
<1>4. ~Turns(In(s)) /\ ~Turns(Out(s)) /\ In(s) # In("between") /\ Out(s) # Out("between")
  BY <1>3 DEF Turns
<1>5. Opens(In(s)) = {In(s)} /\ Shuts(In(s)) = {} /\ Opens(Out(s)) = {} /\ Shuts(Out(s)) = {In(s)}
  BY <1>2, <1>4 DEF Opens, Shuts
<1>6. Needs(In(s)) = {Lock(l) : l \in LocksIn(s)} /\ Needs(Out(s)) = {}
  BY <1>2, <1>4, Zenon DEF Needs, Turns
<1> QED BY <1>1, <1>3, <1>4, <1>5, <1>6 DEF Bracket

LEMMA FrameSteps ==
    /\ \A f \in Names : /\ Plain(Write(f), {Lock(l) : l \in LocksFor(f)}) /\ Works(Write(f))
                        /\ Plain(Send(f), {Lock(l) : l \in LocksFor(f)}) /\ Works(Send(f))
                        /\ Plain(Query(f), {Lock("gate")}) /\ Works(Query(f))
    /\ Plain(Load, {}) /\ Plain(Check, {}) /\ Plain(CheckFor, {}) /\ Plain(Except, {})
<1>1. ASSUME NEW x \in Steps, x[1] \notin {"lock", "free", "in", "out"}
      PROVE  Plain(x, Needs(x)) /\ (x[1] \notin {"query", "write", "send"} => Needs(x) = {})
  <2>1. \A s : x # In(s) /\ x # Out(s)
    BY <1>1 DEF In, Out
  <2>2. ~Turns(x) /\ x \notin {In("hold"), Out("hold")}
    BY <2>1 DEF Turns
  <2>3. Opens(x) = {} /\ Shuts(x) = {}
    BY <1>1 DEF Opens, Shuts
  <2>4. x[1] \notin {"query", "write", "send"} => Needs(x) = {}
    BY <1>1, <2>1, Zenon DEF Needs
  <2> QED BY <2>2, <2>3, <2>4 DEF Plain
<1>2. ASSUME NEW f \in Names
      PROVE  /\ Write(f) \in Steps /\ Write(f)[1] = "write" /\ Write(f)[2] = f
             /\ Send(f) \in Steps /\ Send(f)[1] = "send" /\ Send(f)[2] = f
             /\ Query(f) \in Steps /\ Query(f)[1] = "query"
  BY DEF Names, Steps, Write, Send, Query, DeviceLocks
<1>3. ASSUME NEW f \in Names
      PROVE  /\ Needs(Write(f)) = {Lock(l) : l \in LocksFor(f)} /\ Needs(Send(f)) = {Lock(l) : l \in LocksFor(f)}
             /\ Needs(Query(f)) = {Lock("gate")}
  <2>1. ASSUME NEW x, x[1] = "write" \/ x[1] = "send" PROVE Needs(x) = {Lock(l) : l \in LocksFor(x[2])}
    <3> DEFINE n == {Lock(l) : l \in LocksFor(x[2])}
    <3>1. x[1] # "query" /\ x[1] \in {"write", "send"} /\ x[1] # "in" /\ ~Turns(x)
      BY <2>1 DEF Turns, In, Out
    <3>2. Needs(x) = CASE x[1] = "query" -> {Lock("gate")}
                       [] x[1] \in {"write", "send"} -> n
                       [] x \in {In("between"), Out("between")} -> {In("hold")}
                       [] x[1] = "in" /\ x # In("between") -> {Lock(l) : l \in LocksIn(x[2])}
                       [] OTHER -> {}
      BY Zenon DEF Needs
    <3> HIDE DEF n
    <3>3. Needs(x) = n
      BY <3>1, <3>2 DEF Turns
    <3> QED BY <3>3 DEF n
  <2>4. \A x : x[1] = "query" => x[1] \notin {"write", "send"} /\ x[1] # "in" /\ ~Turns(x)
    BY DEF Turns, In, Out
  <2>5. Needs(Query(f)) = {Lock("gate")}
    <3> DEFINE x == Query(f)
    <3>1. x[1] = "query" /\ x[1] \notin {"write", "send"} /\ x[1] # "in" /\ ~Turns(x)
      BY <1>2, <2>4
    <3> HIDE DEF x
    <3>2. Needs(x) = {Lock("gate")}
      BY <3>1 DEF Needs, Turns
    <3> QED BY <3>2 DEF x
  <2> QED BY <1>2, <2>1, <2>5
<1>4. \A f \in Names : Works(Write(f)) /\ Works(Send(f)) /\ Works(Query(f))
  BY <1>2 DEF Works
<1>5. /\ Load \in Steps /\ Load[1] = "load" /\ Check \in Steps /\ Check[1] = "check"
      /\ CheckFor \in Steps /\ CheckFor[1] = "check" /\ Except \in Steps /\ Except[1] = "except"
  BY DEF Steps, Load, Check, CheckFor, Except
<1>6. Plain(Load, {}) /\ Plain(Check, {}) /\ Plain(CheckFor, {}) /\ Plain(Except, {})
  BY <1>1, <1>5
<1>7. ASSUME NEW f \in Names
      PROVE  /\ Plain(Write(f), {Lock(l) : l \in LocksFor(f)}) /\ Plain(Send(f), {Lock(l) : l \in LocksFor(f)})
             /\ Plain(Query(f), {Lock("gate")})
  <2>1. Plain(Write(f), Needs(Write(f))) /\ Plain(Send(f), Needs(Send(f))) /\ Plain(Query(f), Needs(Query(f)))
    BY <1>1, <1>2
  <2> QED BY <1>3, <2>1
<1> QED BY <1>4, <1>6, <1>7

\* What may be open where a part begins.
Room(a) == a \in SUBSET Steps /\ Nested(a)

LEMMA RoomMore ==
    ASSUME NEW a, Room(a), NEW y, NEW z, NEW n, Bracket(y, z, n), n \subseteq a, y = In("bars") => Has("bars")
    PROVE  Room(a \cup {y})
BY DEF Room, Nested, Bracket

LEMMA SitsPlain ==
    ASSUME NEW a, Room(a), NEW x, NEW n, Plain(x, n), n \subseteq a
    PROVE  Sits(<<x>>, a)
BY SitsOne DEF Room, Plain

LEMMA SitsPair ==
    ASSUME NEW a, NEW x, NEW y, Sits(<<x>>, a), Sits(<<y>>, a)
    PROVE  Sits(<<x, y>>, a)
<1>1. Sits(<<x>> \o <<y>>, a)
  BY SitsBoth
<1> QED BY <1>1, TwoSteps

LEMMA SitsUnder ==
    ASSUME NEW a, Room(a), NEW l \in DeviceLocks, Lock(l) \notin a, NEW p
    PROVE  /\ Sits(p, a \cup {Lock(l)}) => Sits(Under(l, p), a)
           /\ Stands(p, a \cup {Lock(l)}) => Stands(Under(l, p), a)
<1> DEFINE y == Lock(l)
           z == Free(l)
<1>1. Bracket(y, z, {}) /\ y # In("bars") /\ {y, z} \cap {In("hold"), Out("hold")} = {} /\ y \notin a
  BY LockSteps
<1>2. Under(l, p) = <<y>> \o p \o <<z>>
  BY DEF Under
<1> HIDE DEF y, z
<1>3. /\ Sits(p, a \cup {y}) => Sits(<<y>> \o p \o <<z>>, a)
      /\ Stands(p, a \cup {y}) => Stands(<<y>> \o p \o <<z>>, a)
  BY <1>1, Within DEF Bracket, Room
<1> QED BY <1>2, <1>3 DEF y

LEMMA SitsSection ==
    ASSUME NEW a, Room(a), NEW s \in Sections \ {"between", "hold"}, In(s) \notin a, s = "bars" => Has("bars"),
           \A l \in LocksIn(s) : Lock(l) \in a, NEW p, Sits(p, a \cup {In(s)})
    PROVE  Sits(<<In(s)>> \o p \o <<Out(s)>>, a)
<1> DEFINE y == In(s)
           z == Out(s)
           n == {Lock(l) : l \in LocksIn(s)}
<1>1. Bracket(y, z, n) /\ (y = In("bars") => Has("bars")) /\ {y, z} \cap {In("hold"), Out("hold")} = {}
  BY SectionSteps
<1>2. y \notin a /\ n \subseteq a /\ Sits(p, a \cup {y})
  OBVIOUS
<1> HIDE DEF y, z, n
<1>3. Sits(<<y>> \o p \o <<z>>, a)
  BY <1>1, <1>2, Within DEF Bracket, Room
<1> QED BY <1>3 DEF y, z

\* The heartbeat held back around a part that does not hold it back itself.
LEMMA StandsHold ==
    ASSUME NEW a, Room(a), In("hold") \notin a, NEW p, Sits(p, a \cup {In("hold")})
    PROVE  Stands(HoldingHeartbeat(p), a)
<1> DEFINE y == In("hold")
           z == Out("hold")
           r == <<y>> \o p \o <<z>>
<1>1. Bracket(y, z, {}) /\ y # In("bars") /\ y # z
  <2>1. {Lock(l) : l \in LocksIn("hold")} = {}
    BY DEF LocksIn
  <2>2. In("hold") # Out("hold")
    BY DEF In, Out
  <2> QED BY <2>1, <2>2, SectionSteps DEF Sections
<1> HIDE DEF y, z
<1>2. y \notin a /\ Sits(p, a \cup {y}) /\ NoneOf(p, y) /\ NoneOf(p, z)
  BY DEF y, z, Sits, Loose
<1>3. Covers(r, a)
  BY <1>1, <1>2, CoversWithin DEF Bracket, Room, Sits
<1>4. <<y>> \in Seq(Steps) /\ <<z>> \in Seq(Steps) /\ p \in Seq(Steps)
  BY <1>1, <1>2, PartFacts DEF Sits, Bracket
<1>5. /\ Shaped(<<y>>) /\ Shaped(<<z>>) /\ Kept(<<y>>) /\ Kept(<<z>>) /\ NoneOf(<<y>>, z) /\ NoneOf(<<z>>, y)
      /\ Shaped(p) /\ Kept(p)
  BY <1>1, <1>2, ShortParts, SitsStands DEF Stands, Bracket
<1>6. <<y>> \o p \in Seq(Steps) /\ Shaped(<<y>> \o p) /\ Kept(<<y>> \o p)
  BY <1>2, <1>4, <1>5, Joined, ShapedBoth, KeptBoth DEF y, z
<1>7. Shaped(r) /\ Kept(r)
  BY <1>4, <1>5, <1>6, ShapedBoth, KeptBoth DEF y, z
<1> QED BY <1>3, <1>7 DEF Stands, HoldingHeartbeat, y, z

LEMMA SitsThen ==
    ASSUME NEW a, Room(a), In("hold") \in a, NEW p, NEW q, Sits(p, a), Sits(q, a), p = <<>> \/ Acts(p)
    PROVE  Sits(Then(p, q), a)
<1>1. CASE p = <<>> \/ q = <<>>
  BY <1>1, SitsBoth DEF Then
<1>2. CASE p # <<>> /\ q # <<>>
  <2> DEFINE y == In("between")
             z == Out("between")
             py == p \o <<y>>
             pq == py \o q
             r == pq \o <<z>>
  <2>1. Then(p, q) = r
    BY <1>2 DEF Then
  <2>2. /\ y \in Steps /\ z \in Steps /\ y # z /\ {y, z} \cap {In("hold"), Out("hold")} = {}
        /\ y[1] = "in" /\ z[1] = "out"
    <3>1. y \in Steps /\ z \in Steps
      BY DEF In, Out, Steps
    <3>2. y[1] = "in" /\ z[1] = "out" /\ y[2] = "between" /\ z[2] = "between"
      BY DEF In, Out
    <3>3. In("hold")[2] = "hold" /\ Out("hold")[2] = "hold"
      BY DEF In, Out
    <3> HIDE DEF y, z
    <3> QED BY <3>1, <3>2, <3>3
  <2>3. Opens(y) = {} /\ Shuts(y) = {} /\ Opens(z) = {} /\ Shuts(z) = {}
    BY <2>2 DEF Opens, Shuts
  <2>4. Needs(y) = {In("hold")} /\ Needs(z) = {In("hold")}
    BY <2>2, Zenon DEF Needs
  <2>5. Acts(p) /\ p \in Seq(Steps) /\ q \in Seq(Steps) /\ <<y>> \in Seq(Steps) /\ <<z>> \in Seq(Steps)
    BY <1>2, <2>2, PartFacts DEF Sits
  <2> HIDE DEF y, z
  <2>6. Covers(<<y>>, a) /\ Covers(<<z>>, a)
    BY <2>2, <2>3, <2>4, CoversOne DEF Room
  <2>7. Loose(<<y>>) /\ Loose(<<z>>)
    BY <2>2, ShortParts DEF Loose
  <2>8. py \in Seq(Steps) /\ Covers(py, a) /\ Loose(py)
    BY <2>5, <2>6, <2>7, Joined, CoversBoth, NoneBoth DEF Sits, Loose
  <2>9. Shaped(py)
    BY <2>2, <2>5, ShapedOn DEF Sits, Loose, y, z
  <2>10. ~NoneOf(py, y)
    <3>1. Len(p) + 1 \in 1 .. Len(py) /\ py[Len(p) + 1] = y
      <4>1. 1 \in 1 .. Len(<<y>>) /\ <<y>>[1] = y
        OBVIOUS
      <4> QED BY <2>5, <4>1, Joined
    <3> QED BY <3>1 DEF NoneOf
  <2>11. ~NoneOf(pq, y)
    <3> HIDE DEF py
    <3>1. PICK i \in 1 .. Len(py) : py[i] = y
      BY <2>10 DEF NoneOf
    <3>2. i \in 1 .. Len(pq) /\ pq[i] = py[i]
      BY <2>5, <2>8, Joined
    <3> QED BY <3>1, <3>2 DEF NoneOf
  <2> HIDE DEF py
  <2>12. pq \in Seq(Steps) /\ Covers(pq, a) /\ Loose(pq) /\ Shaped(pq)
    BY <2>5, <2>8, <2>9, Joined, CoversBoth, NoneBoth, ShapedBoth DEF Sits, Loose
  <2> HIDE DEF pq
  <2>13. Covers(r, a) /\ Loose(r)
    BY <2>5, <2>6, <2>7, <2>12, CoversBoth, NoneBoth DEF Loose
  <2>14. Shaped(r)
    BY <2>2, <2>11, <2>12, ShapedOn DEF Loose, y, z
  <2> QED BY <2>1, <2>13, <2>14 DEF Sits
<1> QED BY <1>1, <1>2

LEMMA ActsParts ==
    ASSUME NEW f \in Names
    PROVE  Acts(Reading(f)) /\ Acts(Commit(f)) /\ Acts(InZonePowerLock(Commit(f))) /\ Acts(<<Send(f)>>)
<1>1. /\ Write(f) \in Steps /\ Works(Write(f)) /\ Send(f) \in Steps /\ Works(Send(f)) /\ Query(f) \in Steps /\ Works(Query(f))
      /\ Check \in Steps /\ CheckFor \in Steps /\ Send("tap") \in Steps /\ Works(Send("tap"))
  BY FrameSteps DEF Plain, Names
<1>2. ASSUME NEW p \in Seq(Steps), Acts(p), NEW l \in DeviceLocks
      PROVE  Acts(Under(l, p)) /\ Under(l, p) \in Seq(Steps)
  <2>1. <<Lock(l)>> \in Seq(Steps) /\ <<Free(l)>> \in Seq(Steps)
    BY LockSteps DEF Bracket
  <2>2. <<Lock(l)>> \o p \in Seq(Steps) /\ Acts(<<Lock(l)>> \o p)
    BY <1>2, <2>1, Joined, ActsBoth
  <2> QED BY <2>1, <2>2, Joined, ActsBoth DEF Under
<1>3. ASSUME NEW x \in Steps, NEW y \in Steps, Works(y)
      PROVE  Acts(<<x, y>>) /\ <<x, y>> \in Seq(Steps)
  <2>1. <<x>> \in Seq(Steps) /\ <<y>> \in Seq(Steps) /\ Acts(<<y>>)
    BY <1>3, ShortParts
  <2>2. Acts(<<x>> \o <<y>>) /\ <<x>> \o <<y>> \in Seq(Steps)
    BY <2>1, Joined, ActsBoth
  <2> QED BY <2>2, TwoSteps
<1>4. "gate" \in DeviceLocks /\ "tap" \in DeviceLocks /\ "bar" \in DeviceLocks
  BY DEF DeviceLocks
<1>5. Acts(<<Send("tap")>>) /\ <<Send("tap")>> \in Seq(Steps) /\ Acts(<<Send(f)>>)
  BY <1>1, ShortParts
<1>6. Acts(Reading(f))
  BY <1>1, <1>2, <1>3, <1>4 DEF Reading
<1>7. Acts(Commit(f)) /\ Commit(f) \in Seq(Steps)
  BY <1>1, <1>2, <1>3, <1>4, <1>5 DEF Commit
<1>8. Acts(InZonePowerLock(Commit(f)))
  BY <1>2, <1>4, <1>7 DEF InZonePowerLock, UnderIf
<1> QED BY <1>5, <1>6, <1>7, <1>8

LEMMA SitsReading ==
    ASSUME NEW a, Room(a), Lock("gate") \notin a, NEW f \in Names
    PROVE  Sits(Reading(f), a) /\ \A p \in MaybeReading(f) : Sits(p, a) /\ (p = <<>> \/ Acts(p))
<1> DEFINE d == a \cup {Lock("gate")}
<1>1. "gate" \in DeviceLocks
  BY DEF DeviceLocks
<1>2. Room(d) /\ {Lock("gate")} \subseteq d
  BY <1>1, LockSteps, RoomMore
<1> HIDE DEF d
<1>3. Sits(<<Check, Query(f)>>, d)
  BY <1>2, FrameSteps, SitsPlain, SitsPair
<1>4. Sits(Reading(f), a)
  BY <1>1, <1>3, SitsUnder DEF Reading, d
<1> QED BY <1>4, ActsParts, SitsNothing DEF MaybeReading, Room

LEMMA SitsCommit ==
    ASSUME NEW a, Room(a), Lock("tap") \notin a, NEW f \in Names, \A l \in LocksFor(f) : Lock(l) \in a
    PROVE  Sits(Commit(f), a)
<1> DEFINE d == a \cup {Lock("tap")}
<1>1. "tap" \in DeviceLocks /\ "tap" \in Names
  BY DEF DeviceLocks, Names
<1>2. Room(d) /\ {Lock("tap")} \subseteq d
  BY <1>1, LockSteps, RoomMore
<1>3. {Lock(l) : l \in LocksFor("tap")} = {Lock("tap")}
  BY DEF LocksFor
<1> HIDE DEF d
<1>4. Sits(<<Send("tap")>>, d)
  BY <1>1, <1>2, <1>3, FrameSteps, SitsPlain
<1>5. Sits(Under("tap", <<Send("tap")>>), a)
  BY <1>1, <1>4, SitsUnder DEF d
<1>6. {Lock(l) : l \in LocksFor(f)} \subseteq a
  OBVIOUS
<1>7. Sits(<<CheckFor, Write(f)>>, a)
  BY <1>6, FrameSteps, SitsPlain, SitsPair
<1> QED BY <1>5, <1>7 DEF Commit

\* A write that also turns bars on or off goes out under their lock.
LEMMA SitsBarCommit ==
    ASSUME NEW a, Room(a), Lock("tap") \notin a, Lock("bar") \notin a, NEW f \in Names \ {"bars", "drop"},
           \A l \in LocksFor(f) \ {"bar"} : Lock(l) \in a
    PROVE  Sits(InZonePowerLock(Commit(f)), a)
<1>1. "bar" \in DeviceLocks
  BY DEF DeviceLocks
<1>2. CASE Has("bars")
  <2> DEFINE d == a \cup {Lock("bar")}
  <2>1. Room(d) /\ (\A l \in LocksFor(f) : Lock(l) \in d)
    BY <1>1, LockSteps, RoomMore
  <2>2. Lock("tap") \notin d
    BY DEF Lock
  <2> HIDE DEF d
  <2>3. Sits(Commit(f), d)
    BY <2>1, <2>2, SitsCommit
  <2> QED BY <1>1, <1>2, <2>3, SitsUnder DEF InZonePowerLock, UnderIf, d
<1>3. CASE ~Has("bars")
  <2>1. "bar" \notin LocksFor(f)
    BY <1>3 DEF LocksFor
  <2>2. Sits(Commit(f), a)
    BY <2>1, SitsCommit
  <2> QED BY <1>3, <2>2 DEF InZonePowerLock, UnderIf
<1> QED BY <1>2, <1>3

-----------------------------------------------------------------------------
(* The bodies again, one by one: what each of their steps is taken under.   *)

LEMMA Distinct ==
    /\ \A l, s : Lock(l) # In(s)
    /\ \A l, k : Lock(l) = Lock(k) => l = k
    /\ \A s, t : In(s) = In(t) => s = t
BY DEF Lock, In

\* Illumination pairs are sent under the brightness lock.
Shelf == IF Has("pair") THEN {Lock("brightness")} ELSE {}

LEMMA Rooms ==
    /\ Room({}) /\ Room(Shelf)
    /\ \A a : Room(a) => Room(a \cup {In("hold")}) /\ \A l \in DeviceLocks : Room(a \cup {Lock(l)})
    /\ \A a : Room(a) => \A s \in Sections \ {"between", "hold"} :
          (\A l \in LocksIn(s) : Lock(l) \in a) /\ (s = "bars" => Has("bars")) => Room(a \cup {In(s)})
<1>1. Room({})
  BY DEF Room, Nested
<1>2. ASSUME NEW a, Room(a), NEW l \in DeviceLocks PROVE Room(a \cup {Lock(l)})
  <2>1. Bracket(Lock(l), Free(l), {}) /\ Lock(l) # In("bars") /\ {} \subseteq a
    BY LockSteps
  <2> QED BY <1>2, <2>1, RoomMore
<1>3. ASSUME NEW a, Room(a), NEW s \in Sections \ {"between"}, \A l \in LocksIn(s) : Lock(l) \in a, s = "bars" => Has("bars")
      PROVE  Room(a \cup {In(s)})
  <2>1. Bracket(In(s), Out(s), {Lock(l) : l \in LocksIn(s)}) /\ (In(s) = In("bars") => Has("bars"))
    BY <1>3, SectionSteps
  <2>2. {Lock(l) : l \in LocksIn(s)} \subseteq a
    BY <1>3
  <2> QED BY <1>3, <2>1, <2>2, RoomMore
<1>4. "hold" \in Sections \ {"between"} /\ LocksIn("hold") = {} /\ "hold" # "bars"
  BY DEF Sections, LocksIn
<1>5. ASSUME NEW a, Room(a) PROVE Room(a \cup {In("hold")})
  BY <1>3, <1>4, <1>5
<1>6. Room(Shelf)
  <2>1. "brightness" \in DeviceLocks /\ {} \cup {Lock("brightness")} = {Lock("brightness")}
    BY DEF DeviceLocks
  <2> QED BY <1>1, <1>2, <2>1 DEF Shelf
<1> QED BY <1>1, <1>2, <1>3, <1>5, <1>6

LEMMA StandsBrightness ==
    ASSUME NEW p, Stands(p, Shelf)
    PROVE  Stands(InBrightnessLock(p), {})
<1>1. CASE Has("pair")
  <2>1. /\ Room({}) /\ "brightness" \in DeviceLocks /\ Lock("brightness") \notin {}
        /\ {} \cup {Lock("brightness")} = {Lock("brightness")}
    BY Rooms DEF DeviceLocks
  <2>2. Stands(p, {} \cup {Lock("brightness")})
    BY <1>1, <2>1 DEF Shelf
  <2> QED BY <1>1, <2>1, <2>2, SitsUnder DEF InBrightnessLock, UnderIf
<1>2. CASE ~Has("pair")
  BY <1>2 DEF InBrightnessLock, UnderIf, Shelf
<1> QED BY <1>1, <1>2

\* What is open around the frames of a call that turns the device on or colours it.
Light(a) == Room(a) /\ a \subseteq {Lock("brightness"), In("hold"), In("pair")}

LEMMA LightParts ==
    ASSUME NEW a, Light(a)
    PROVE  /\ Sits(ResyncAfterPower, a)
           /\ \A p \in EnsureSegmentCount \cup HeldBrightness : Sits(p, a) /\ (p = <<>> \/ Acts(p))
           /\ Sits(InZonePowerLock(Commit("power")), a) /\ Sits(Commit("colour"), a)
           /\ Shelf \subseteq a => /\ Sits(InZonePowerLock(Commit("all")), a)
                                   /\ Sits(Commit("level"), a) /\ Sits(Commit("kelvin+level"), a)
<1>1. Room(a) /\ \A l : Lock(l) \in a => l = "brightness"
  BY Distinct DEF Light
<1>2. Lock("gate") \notin a /\ Lock("tap") \notin a /\ Lock("bar") \notin a
  BY <1>1
<1>3. \A f \in {"version", "level", "segments", "sync", "power", "all", "colour", "kelvin+level"} : f \in Names
  BY DEF Names
<1>4. \A f \in Names : Sits(Reading(f), a) /\ \A p \in MaybeReading(f) : Sits(p, a) /\ (p = <<>> \/ Acts(p))
  BY <1>1, <1>2, SitsReading
<1>5. Sits(<<>>, a)
  BY <1>1, SitsNothing DEF Room
<1>6. \A p \in EnsureSegmentCount \cup HeldBrightness : Sits(p, a) /\ (p = <<>> \/ Acts(p))
  BY <1>3, <1>4, <1>5 DEF EnsureSegmentCount, HeldBrightness
<1>7. Sits(ResyncAfterPower, a)
  <2>1. {Lock(l) : l \in LocksFor("sync")} = {}
    BY DEF LocksFor
  <2>2. Sits(<<Send("sync")>>, a) /\ Sits(<<Except>>, a)
    BY <1>1, <1>3, <2>1, FrameSteps, SitsPlain
  <2>3. Sits(<<Send("sync"), Except>>, a)
    BY <2>2, SitsPair
  <2>4. Sits(Reading("version") \o <<Send("sync"), Except>>, a)
    BY <1>3, <1>4, <2>3, SitsBoth
  <2> QED BY <1>5, <2>4 DEF ResyncAfterPower
<1>8. ASSUME NEW f \in {"power", "all", "level", "colour", "kelvin+level"}, f \in {"power", "colour"} \/ Shelf \subseteq a
      PROVE  /\ \A l \in LocksFor(f) \ {"bar"} : Lock(l) \in a
             /\ f \in {"level", "colour", "kelvin+level"} => "bar" \notin LocksFor(f)
  <2>1. \A l \in LocksFor(f) \ {"bar"} : l = "brightness" /\ Has("pair") /\ f \notin {"power", "colour"}
    BY DEF LocksFor
  <2>2. f \in {"level", "colour", "kelvin+level"} => "bar" \notin LocksFor(f)
    BY DEF LocksFor
  <2> QED BY <1>8, <2>1, <2>2 DEF Shelf
<1>9. ASSUME NEW f \in {"power", "all"}, f = "power" \/ Shelf \subseteq a PROVE Sits(InZonePowerLock(Commit(f)), a)
  <2>1. f \in Names \ {"bars", "drop"}
    BY <1>3
  <2>2. \A l \in LocksFor(f) \ {"bar"} : Lock(l) \in a
    BY <1>8, <1>9
  <2> QED BY <1>1, <1>2, <2>1, <2>2, SitsBarCommit
<1>10. ASSUME NEW f \in {"level", "colour", "kelvin+level"}, f = "colour" \/ Shelf \subseteq a PROVE Sits(Commit(f), a)
  <2>1. f \in Names /\ \A l \in LocksFor(f) : Lock(l) \in a
    BY <1>3, <1>8, <1>10
  <2> QED BY <1>1, <1>2, <2>1, SitsCommit
<1> QED BY <1>6, <1>7, <1>9, <1>10

LEMMA Lights ==
    /\ Light({}) /\ Light({In("hold")}) /\ Light(Shelf)
    /\ Light(Shelf \cup {In("hold")}) /\ Light((Shelf \cup {In("hold")}) \cup {In("pair")})
    /\ In("hold") \notin Shelf /\ In("pair") \notin Shelf \cup {In("hold")}
    /\ \A l \in LocksIn("pair") : Lock(l) \in Shelf
<1>1. \A l \in LocksIn("pair") : Lock(l) \in Shelf
  BY DEF LocksIn, Shelf
<1>2. In("hold") \notin Shelf /\ In("pair") \notin Shelf \cup {In("hold")} /\ Shelf \subseteq {Lock("brightness")}
  BY Distinct DEF Shelf
<1>3. Room(Shelf) /\ Room(Shelf \cup {In("hold")}) /\ Room({}) /\ Room({} \cup {In("hold")})
  BY Rooms
<1>4. Room((Shelf \cup {In("hold")}) \cup {In("pair")})
  <2>1. "pair" \in Sections \ {"between", "hold"} /\ "pair" # "bars"
    BY DEF Sections
  <2> QED BY <1>1, <1>3, <2>1, Rooms
<1>5. {} \cup {In("hold")} = {In("hold")}
  OBVIOUS
<1> QED BY <1>1, <1>2, <1>3, <1>4, <1>5 DEF Light

LEMMA StandsTaps ==
    ASSUME NEW both
    PROVE  Stands(TurnOnTaps(both), {})
<1> DEFINE a == {Lock("tap")}
           b == a \cup {In("taps")}
           pre == IF both THEN <<Send("tap")>> ELSE <<>>
           one == <<Send("tap"), Out("taps")>>
<1>1. /\ "tap" \in DeviceLocks /\ "tap" \in Names /\ "taps" \in Sections \ {"between", "hold"} /\ "taps" # "bars"
      /\ {} \cup a = a /\ LocksIn("taps") = {"tap"}
  BY DEF DeviceLocks, Names, Sections, LocksIn
<1>2. Room({}) /\ Room(a) /\ In("taps") \notin a /\ Room(b) /\ Lock("tap") \notin {}
  <2>1. Room({}) /\ Room(a)
    <3>1. Room({}) /\ Room({} \cup {Lock("tap")})
      BY <1>1, Rooms
    <3> QED BY <1>1, <3>1
  <2>2. Room(b)
    BY <1>1, <2>1, Rooms
  <2> QED BY <2>1, <2>2, Distinct
<1>3. {Lock(l) : l \in LocksFor("tap")} \subseteq b
  BY DEF LocksFor
<1> HIDE DEF b
<1>4. Sits(<<Send("tap")>>, b) /\ Sits(pre, b)
  BY <1>1, <1>2, <1>3, FrameSteps, SitsPlain, SitsNothing DEF Room
<1>5. Sits(pre \o <<Send("tap")>>, b)
  BY <1>4, SitsBoth
<1> DEFINE w == <<In("taps")>> \o (pre \o <<Send("tap")>>) \o <<Out("taps")>>
<1>6. Sits(w, a)
  <2> HIDE DEF pre
  <2>1. \A l \in LocksIn("taps") : Lock(l) \in a
    BY <1>1
  <2> QED BY <1>1, <1>2, <1>5, <2>1, SitsSection DEF b
<1>7. w = <<In("taps")>> \o pre \o one
  <2> DEFINE i == <<In("taps")>>
             s == <<Send("tap")>>
             o == <<Out("taps")>>
  <2>1. i \in Seq(Steps) /\ s \in Seq(Steps) /\ o \in Seq(Steps) /\ pre \in Seq(Steps) /\ s \o o = one
    <3>1. In("taps") \in Steps /\ Send("tap") \in Steps /\ Out("taps") \in Steps
      BY <1>1, SectionSteps, FrameSteps DEF Bracket, Plain
    <3> QED BY <3>1, TwoSteps
  <2> HIDE DEF i, s, o, pre, one
  <2>2. i \o pre \in Seq(Steps)
    BY <2>1, ConcatProperties
  <2>3. (i \o pre) \o s = i \o (pre \o s)
    BY <2>1, ConcatAssociative
  <2>4. ((i \o pre) \o s) \o o = (i \o pre) \o (s \o o)
    <3> DEFINE j == i \o pre
    <3>1. j \in Seq(Steps) /\ s \in Seq(Steps) /\ o \in Seq(Steps)
      BY <2>1, <2>2
    <3> HIDE DEF j
    <3>2. (j \o s) \o o = j \o (s \o o)
      BY <3>1, ConcatAssociative
    <3> QED BY <3>2 DEF j
  <2> QED BY <2>1, <2>3, <2>4 DEF i, s, o
<1>8. Sits(Under("tap", <<In("taps")>> \o pre \o one), {})
  <2> HIDE DEF pre, one, w
  <2>1. Sits(<<In("taps")>> \o pre \o one, {} \cup {Lock("tap")})
    BY <1>1, <1>6, <1>7
  <2> QED BY <1>1, <1>2, <2>1, SitsUnder
<1> QED BY <1>8, SitsStands DEF TurnOnTaps

\* A call that holds the heartbeat back and no lock.
LEMMA StandsHeld ==
    ASSUME NEW p, Sits(p, {In("hold")})
    PROVE  Stands(HoldingHeartbeat(p), {})
<1>1. Room({}) /\ In("hold") \notin {} /\ {} \cup {In("hold")} = {In("hold")}
  BY Rooms
<1>2. Sits(p, {} \cup {In("hold")})
  BY <1>1
<1> QED BY <1>1, <1>2, StandsHold

LEMMA StandsSetPower == Stands(SetPower, {})
<1> DEFINE a == {In("hold")}
<1>1. Light(a) /\ Room(a) /\ In("hold") \in a
  BY Lights DEF Light
<1> HIDE DEF a
<1>2. Sits(InZonePowerLock(Commit("power")), a) /\ Sits(ResyncAfterPower, a)
  BY <1>1, LightParts
<1>3. Acts(InZonePowerLock(Commit("power")))
  BY ActsParts DEF Names
<1>4. Sits(Then(InZonePowerLock(Commit("power")), ResyncAfterPower), a)
  BY <1>1, <1>2, <1>3, SitsThen
<1> QED BY <1>4, StandsHeld DEF SetPower, a

\* What goes out between the illumination pair's brackets.
LEMMA SitsPairSection ==
    ASSUME NEW level \in HeldBrightness, NEW p, Sits(p, (Shelf \cup {In("hold")}) \cup {In("pair")})
    PROVE  Sits(<<In("pair")>> \o Then(level, p) \o <<Out("pair")>>, Shelf \cup {In("hold")})
<1> DEFINE d == Shelf \cup {In("hold")}
           e == d \cup {In("pair")}
<1>1. Light(d) /\ Light(e) /\ Room(d) /\ Room(e) /\ In("hold") \in e /\ In("pair") \notin d
      /\ \A l \in LocksIn("pair") : Lock(l) \in d
  BY Lights DEF Light
<1> HIDE DEF d
<1>2. Sits(level, e) /\ (level = <<>> \/ Acts(level))
  BY <1>1, LightParts
<1>3. Sits(Then(level, p), e)
  <2> HIDE DEF e
  <2> QED BY <1>1, <1>2, SitsThen DEF d, e
<1>4. "pair" \in Sections \ {"between", "hold"} /\ "pair" # "bars"
  BY DEF Sections
<1>5. Sits(<<In("pair")>> \o Then(level, p) \o <<Out("pair")>>, d)
  BY <1>1, <1>3, <1>4, SitsSection
<1> QED BY <1>5 DEF d

LEMMA StandsTurnOn ==
    ASSUME NEW body \in TurnOn
    PROVE  Stands(body, {})
<1>1. CASE Has("perCommand")
  <2>1. body = TurnOnTaps(TRUE)
    BY <1>1 DEF TurnOn
  <2> QED BY <2>1, StandsTaps
<1>2. CASE ~Has("perCommand")
  <2> DEFINE Pair(level) == <<In("pair")>> \o Then(level, InZonePowerLock(Commit("all"))) \o <<Out("pair")>>
             Whole(count, level) == Then(count, Pair(level) \o ResyncAfterPower)
             d == Shelf \cup {In("hold")}
             e == d \cup {In("pair")}
  <2>1. PICK count \in EnsureSegmentCount, level \in HeldBrightness :
             body = InBrightnessLock(HoldingHeartbeat(Whole(count, level)))
    BY <1>2 DEF TurnOn
  <2>2. Light(d) /\ Light(e) /\ Room(d) /\ In("hold") \in d /\ Shelf \subseteq e
    BY Lights DEF Light
  <2>3. Sits(InZonePowerLock(Commit("all")), e)
    BY <2>2, LightParts
  <2>4. Sits(Pair(level), d)
    BY <2>3, SitsPairSection
  <2> HIDE DEF Pair, d, e
  <2>5. Sits(count, d) /\ (count = <<>> \/ Acts(count)) /\ Sits(ResyncAfterPower, d)
    BY <2>2, LightParts
  <2>6. Sits(Pair(level) \o ResyncAfterPower, d)
    BY <2>4, <2>5, SitsBoth
  <2>7. Sits(Whole(count, level), d)
    BY <2>2, <2>5, <2>6, SitsThen
  <2> HIDE DEF Whole
  <2>8. Stands(HoldingHeartbeat(Whole(count, level)), Shelf)
    BY <2>7, Lights, StandsHold DEF Light, d
  <2> QED BY <2>1, <2>8, StandsBrightness
<1> QED BY <1>1, <1>2

LEMMA StandsColours ==
    ASSUME NEW body \in SetBrightness \cup SetRgb \cup SetColorTemp
    PROVE  Stands(body, {})
<1>1. CASE body \in SetBrightness
  <2>1. Sits(Commit("level"), Shelf)
    BY Lights, LightParts
  <2>2. Stands(InBrightnessLock(Commit("level")), {})
    BY <2>1, SitsStands, StandsBrightness
  <2> QED BY <1>1, <2>2, StandsTaps DEF SetBrightness
<1>2. CASE body \in SetRgb
  <2> DEFINE a == {In("hold")}
  <2>1. PICK count \in EnsureSegmentCount : body = HoldingHeartbeat(Then(count, Commit("colour")))
    BY <1>2 DEF SetRgb
  <2>2. Light(a) /\ Room(a) /\ In("hold") \in a
    BY Lights DEF Light
  <2> HIDE DEF a
  <2>3. Sits(count, a) /\ (count = <<>> \/ Acts(count)) /\ Sits(Commit("colour"), a)
    BY <2>2, LightParts
  <2>4. Sits(Then(count, Commit("colour")), a)
    BY <2>2, <2>3, SitsThen
  <2> QED BY <2>1, <2>4, StandsHeld DEF a
<1>3. CASE body \in SetColorTemp
  <2> DEFINE f == IF Has("pair") THEN "kelvin+level" ELSE "colour"
             Pair(level) == <<In("pair")>> \o Then(level, Commit(f)) \o <<Out("pair")>>
             Whole(count, level) == Then(count, Pair(level))
             d == Shelf \cup {In("hold")}
             e == d \cup {In("pair")}
  <2>1. PICK count \in EnsureSegmentCount, level \in HeldBrightness :
             body = InBrightnessLock(HoldingHeartbeat(Whole(count, level)))
    BY <1>3 DEF SetColorTemp
  <2>2. Light(d) /\ Light(e) /\ Room(d) /\ In("hold") \in d /\ Shelf \subseteq e
    BY Lights DEF Light
  <2>3. Sits(Commit(f), e)
    <3>1. Sits(Commit("kelvin+level"), e) /\ Sits(Commit("colour"), e)
      BY <2>2, LightParts
    <3> QED BY <3>1
  <2> HIDE DEF f
  <2>4. Sits(Pair(level), d)
    BY <2>3, SitsPairSection
  <2> HIDE DEF Pair, d, e
  <2>5. Sits(count, d) /\ (count = <<>> \/ Acts(count))
    BY <2>2, LightParts
  <2>6. Sits(Whole(count, level), d)
    BY <2>2, <2>4, <2>5, SitsThen
  <2> HIDE DEF Whole
  <2>7. Stands(HoldingHeartbeat(Whole(count, level)), Shelf)
    BY <2>6, Lights, StandsHold DEF Light, d
  <2> QED BY <2>1, <2>7, StandsBrightness
<1> QED BY <1>1, <1>2, <1>3

LEMMA StandsSetZonePower ==
    ASSUME NEW body \in SetZonePower
    PROVE  Stands(body, {})
<1>0. "bar" \in DeviceLocks /\ "zone" \in Names /\ "bars" \in Names /\ "connect" \in Names
      /\ "bars" \in Sections \ {"between", "hold"} /\ LocksIn("bars") = {"bar"}
  BY DEF DeviceLocks, Names, Sections, LocksIn
<1>1. CASE ~Has("bars")
  <2>1. LocksFor("zone") = {} /\ Room({}) /\ Lock("tap") \notin {}
    BY Rooms DEF LocksFor
  <2>2. Sits(Commit("zone"), {})
    BY <1>0, <2>1, SitsCommit
  <2> QED BY <1>1, <2>2, SitsStands DEF SetZonePower
<1>2. CASE Has("bars")
  <2> DEFINE a == {Lock("bar")}
             d == a \cup {In("hold")}
             e == d \cup {In("bars")}
  <2>1. PICK read \in BarReads :
             body = Under("bar", HoldingHeartbeat(<<In("bars")>> \o Then(read, Commit("bars")) \o <<Out("bars")>>))
    BY <1>2 DEF SetZonePower
  <2>2. Room({}) /\ Room(a) /\ Room(d) /\ {} \cup a = a /\ Lock("bar") \notin {}
    <3>1. Room({}) /\ Room({} \cup {Lock("bar")}) /\ {} \cup a = a
      BY <1>0, Rooms
    <3> QED BY <3>1, Rooms
  <2>3. In("hold") \notin a /\ In("bars") \notin d /\ In("hold") \in e /\ Lock("bar") \in d
        /\ \A l : Lock(l) \in e => l = "bar"
    BY Distinct
  <2>4. Room(e)
    BY <1>0, <1>2, <2>2, <2>3, Rooms
  <2>5. Sits(Reading("bars"), e) /\ Acts(Reading("bars"))
    BY <1>0, <2>3, <2>4, SitsReading, ActsParts
  <2>6. Sits(Commit("bars"), e)
    <3>1. LocksFor("bars") = {"bar"}
      BY DEF LocksFor
    <3> QED BY <1>0, <2>3, <2>4, <3>1, SitsCommit
  <2>7. Sits(read, e) /\ (read = <<>> \/ Acts(read))
    <3>1. {Lock(l) : l \in LocksFor("connect")} = {}
      BY DEF LocksFor
    <3>2. Sits(<<Send("connect")>>, e) /\ Sits(<<Except>>, e) /\ Sits(<<>>, e)
      BY <1>0, <2>4, <3>1, FrameSteps, SitsPlain, SitsNothing DEF Room
    <3>3. Sits(<<Send("connect")>> \o Reading("bars"), e)
      BY <2>5, <3>2, SitsBoth
    <3>4. Sits(<<Send("connect")>> \o Reading("bars") \o <<Except>>, e)
      BY <3>2, <3>3, SitsBoth
    <3>5. Acts(<<Send("connect")>> \o Reading("bars") \o <<Except>>)
      <4>1. /\ <<Send("connect")>> \in Seq(Steps) /\ Reading("bars") \in Seq(Steps) /\ <<Except>> \in Seq(Steps)
            /\ <<Send("connect")>> \o Reading("bars") \in Seq(Steps)
        BY <2>5, <3>2, <3>3, PartFacts DEF Sits
      <4>2. Acts(<<Send("connect")>> \o Reading("bars"))
        BY <2>5, <4>1, ActsBoth
      <4> QED BY <4>1, <4>2, ActsBoth
    <3> QED BY <2>5, <3>2, <3>4, <3>5 DEF BarReads
  <2> HIDE DEF e
  <2>8. Sits(Then(read, Commit("bars")), e)
    BY <2>3, <2>4, <2>6, <2>7, SitsThen
  <2> HIDE DEF d
  <2>9. Sits(<<In("bars")>> \o Then(read, Commit("bars")) \o <<Out("bars")>>, d)
    BY <1>0, <1>2, <2>2, <2>3, <2>8, SitsSection DEF e
  <2> DEFINE w == <<In("bars")>> \o Then(read, Commit("bars")) \o <<Out("bars")>>
  <2> HIDE DEF w
  <2>10. Stands(HoldingHeartbeat(w), a)
    BY <2>2, <2>3, <2>9, StandsHold DEF d, w
  <2>11. Stands(HoldingHeartbeat(w), {} \cup {Lock("bar")})
    BY <2>2, <2>10
  <2>12. Stands(Under("bar", HoldingHeartbeat(w)), {})
    BY <1>0, <2>2, <2>11, SitsUnder
  <2> QED BY <2>1, <2>12 DEF w
<1> QED BY <1>1, <1>2

LEMMA StandsScenes ==
    ASSUME NEW body \in {SetScene} \cup SetSceneByName
    PROVE  Stands(body, {})
<1> DEFINE a == {Lock("scene")}
<1>0. /\ "scene" \in DeviceLocks /\ "gate" \in DeviceLocks /\ "bar" \in DeviceLocks
      /\ "activate" \in Names \ {"bars", "drop"} /\ "version" \in Names /\ "upload" \in Names /\ "power" \in Names
      /\ "scene" \in Sections \ {"between", "hold"} /\ "scene" # "bars" /\ LocksIn("scene") = {"scene", "gate"}
  BY DEF DeviceLocks, Names, Sections, LocksIn
<1>1. /\ Room({}) /\ Room(a) /\ {} \cup a = a /\ Lock("scene") \notin {} /\ Lock("scene") \in a
      /\ Lock("tap") \notin a /\ Lock("bar") \notin a /\ Lock("gate") \notin a
  <2>1. Room({}) /\ Room({} \cup {Lock("scene")}) /\ {} \cup a = a
    BY <1>0, Rooms
  <2> QED BY <2>1, Distinct
<1>2. ASSUME NEW p, Stands(p, a) PROVE Stands(Under("scene", p), {})
  BY <1>0, <1>1, <1>2, SitsUnder
<1>3. /\ \A l \in LocksFor("activate") : l \in {"scene", "bar"} /\ (l = "bar" => Has("bars"))
      /\ \A l \in LocksFor("power") : l = "bar" /\ Has("bars")
      /\ \A l \in LocksFor("upload") : l = "scene"
  BY DEF LocksFor
<1>4. CASE body = SetScene
  <2>1. \A l \in LocksFor("activate") \ {"bar"} : Lock(l) \in a
    BY <1>1, <1>3
  <2>2. Sits(InZonePowerLock(Commit("activate")), a)
    BY <1>0, <1>1, <2>1, SitsBarCommit
  <2> QED BY <1>2, <1>4, <2>2, SitsStands DEF SetScene
<1>5. CASE body \in SetSceneByName
  <2> DEFINE Frames(upload) == <<CheckFor, In("scene")>> \o Then(upload, Commit("activate")) \o <<Out("scene")>>
             Gated(upload) == Under("gate", HoldingHeartbeat(Frames(upload)))
  <2>1. PICK version \in MaybeReading("version"), upload \in SceneUploads :
             body = Under("scene", version \o <<Load>> \o InZonePowerLock(Gated(upload)))
    BY <1>5 DEF SetSceneByName
  <2>2. ASSUME NEW b, Room(b), b \subseteq {Lock("scene"), Lock("bar")}, Lock("scene") \in b, Has("bars") => Lock("bar") \in b
        PROVE  Stands(Gated(upload), b)
    <3> DEFINE c == b \cup {Lock("gate")}
               d == c \cup {In("hold")}
               e == d \cup {In("scene")}
    <3>1. Lock("gate") \notin b /\ In("hold") \notin c /\ In("scene") \notin d /\ Lock("tap") \notin e
      BY <2>2, Distinct
    <3>2. Room(c) /\ Room(d) /\ Lock("scene") \in d /\ Lock("gate") \in d
      BY <1>0, <2>2, Rooms
    <3>3. Room(e) /\ In("hold") \in e
      <4> HIDE DEF d
      <4>1. In("hold") \in d
        BY DEF d
      <4> QED BY <1>0, <3>2, <4>1, Rooms
    <3>4. /\ \A l \in LocksFor("activate") \cup LocksFor("power") \cup LocksFor("upload") : Lock(l) \in e
      BY <1>3, <2>2
    <3> HIDE DEF e
    <3>5. Sits(Commit("activate"), e)
      BY <1>0, <3>1, <3>3, <3>4, SitsCommit
    <3>6. Sits(upload, e) /\ (upload = <<>> \/ Acts(upload))
      <4>1. {Lock(l) : l \in LocksFor("upload")} \subseteq e /\ {Lock(l) : l \in LocksFor("power")} \subseteq e
        BY <3>4
      <4>2. Sits(<<Send("power")>>, e) /\ Sits(<<Send("upload")>>, e) /\ Sits(<<>>, e)
        BY <1>0, <3>3, <4>1, FrameSteps, SitsPlain, SitsNothing DEF Room
      <4>3. Sits(<<Send("power"), Send("upload")>>, e)
        BY <4>2, SitsPair
      <4>4. Acts(<<Send("power"), Send("upload")>>)
        <5>1. <<Send("power")>> \in Seq(Steps) /\ <<Send("upload")>> \in Seq(Steps)
          BY <4>2, PartFacts DEF Sits
        <5>2. Acts(<<Send("power")>> \o <<Send("upload")>>)
          BY <1>0, <5>1, ActsParts, ActsBoth
        <5> QED BY <5>2, TwoSteps
      <4> QED BY <1>0, <4>2, <4>3, <4>4, ActsParts DEF SceneUploads
    <3>7. Sits(Then(upload, Commit("activate")), e)
      BY <3>3, <3>5, <3>6, SitsThen
    <3> DEFINE w == Then(upload, Commit("activate"))
    <3>8. Sits(<<In("scene")>> \o w \o <<Out("scene")>>, d)
      <4>1. \A l \in LocksIn("scene") : Lock(l) \in d
        BY <1>0, <3>2
      <4> HIDE DEF d, w
      <4> QED BY <1>0, <3>1, <3>2, <3>7, <4>1, SitsSection DEF e, w
    <3>9. Sits(<<CheckFor>>, d)
      BY <3>2, FrameSteps, SitsPlain
    <3>10. Sits(<<CheckFor>> \o (<<In("scene")>> \o w \o <<Out("scene")>>), d)
      BY <3>8, <3>9, SitsBoth
    <3>11. <<CheckFor>> \o (<<In("scene")>> \o w \o <<Out("scene")>>) = Frames(upload)
      <4> DEFINE i == <<In("scene")>>
                 k == <<CheckFor>>
                 o == <<Out("scene")>>
      <4>1. i \in Seq(Steps) /\ k \in Seq(Steps) /\ o \in Seq(Steps) /\ w \in Seq(Steps) /\ k \o i = <<CheckFor, In("scene")>>
        <5>1. In("scene") \in Steps /\ CheckFor \in Steps /\ Out("scene") \in Steps
          BY <1>0, SectionSteps, FrameSteps DEF Bracket, Plain
        <5>2. w \in Seq(Steps)
          BY <3>7, PartFacts DEF Sits
        <5> QED BY <5>1, <5>2, TwoSteps
      <4>2. Frames(upload) = <<CheckFor, In("scene")>> \o w \o o
        OBVIOUS
      <4> HIDE DEF i, k, o, w, Frames
      <4>3. ASSUME NEW x \in Seq(Steps), NEW y \in Seq(Steps), NEW z \in Seq(Steps) PROVE (x \o y) \o z = x \o (y \o z)
        BY ConcatAssociative
      <4> DEFINE j == i \o w
      <4>6. j \in Seq(Steps)
        BY <4>1, ConcatProperties
      <4> HIDE DEF j
      <4>4. (k \o j) \o o = k \o (j \o o)
        BY <4>1, <4>3, <4>6
      <4>5. k \o j = (k \o i) \o w
        BY <4>1, <4>3 DEF j
      <4> QED BY <4>1, <4>2, <4>4, <4>5 DEF i, k, o, j
    <3> HIDE DEF w, Frames, d
    <3>12. Sits(Frames(upload), d)
      BY <3>10, <3>11
    <3> HIDE DEF c
    <3>13. Stands(HoldingHeartbeat(Frames(upload)), c)
      BY <3>1, <3>2, <3>12, StandsHold DEF d
    <3> QED BY <1>0, <2>2, <3>1, <3>13, SitsUnder DEF c
  <2> HIDE DEF Gated
  <2>3. Stands(InZonePowerLock(Gated(upload)), a)
    <3>1. CASE Has("bars")
      <4>1. Room(a \cup {Lock("bar")})
        BY <1>0, <1>1, Rooms
      <4>2. Stands(Gated(upload), a \cup {Lock("bar")})
        BY <2>2, <4>1
      <4> QED BY <1>0, <1>1, <3>1, <4>2, SitsUnder DEF InZonePowerLock, UnderIf
    <3>2. CASE ~Has("bars")
      <4>1. Stands(Gated(upload), a)
        BY <1>1, <2>2, <3>2
      <4> QED BY <3>2, <4>1 DEF InZonePowerLock, UnderIf
    <3> QED BY <3>1, <3>2
  <2>4. Sits(version, a) /\ Sits(<<Load>>, a)
    <3>1. Plain(Load, {}) /\ {} \subseteq a
      BY FrameSteps
    <3>2. Sits(<<Load>>, a)
      BY <1>1, <3>1, SitsPlain
    <3> QED BY <1>0, <1>1, <3>2, SitsReading
  <2> HIDE DEF a
  <2>5. Stands(version \o <<Load>> \o InZonePowerLock(Gated(upload)), a)
    <3>1. Sits(version \o <<Load>>, a)
      BY <2>4, SitsBoth
    <3> QED BY <2>3, <3>1, StandsBoth
  <2> QED BY <1>2, <2>1, <2>5
<1> QED BY <1>4, <1>5

LEMMA StandsOthers ==
    /\ Stands(<<>>, {}) /\ Stands(Update, {}) /\ Stands(<<Check, Send("connect")>>, {})
    /\ Stands(Release, {}) /\ Stands(PairingRead, {})
<1>0. /\ \A l \in {"scene", "brightness", "bar", "gate", "pairing"} : l \in DeviceLocks
      /\ \A f \in {"state", "colours", "connect", "drop", "secret"} : f \in Names
  BY DEF DeviceLocks, Names
<1>1. Room({}) /\ Room({In("hold")})
  <2>1. Room({}) /\ Room({} \cup {In("hold")}) /\ {} \cup {In("hold")} = {In("hold")}
    BY Rooms
  <2> QED BY <2>1
<1>2. Stands(<<>>, {})
  BY <1>1, SitsNothing, SitsStands DEF Room
<1>3. Stands(<<Check, Send("connect")>>, {})
  <2>1. {Lock(l) : l \in LocksFor("connect")} = {}
    BY DEF LocksFor
  <2>2. Sits(<<Check>>, {}) /\ Sits(<<Send("connect")>>, {})
    BY <1>0, <1>1, <2>1, FrameSteps, SitsPlain
  <2> QED BY <2>2, SitsPair, SitsStands
<1>4. Stands(Update, {})
  <2> DEFINE a == {In("hold")}
  <2>1. Lock("gate") \notin a /\ Room(a) /\ In("hold") \in a
    BY <1>1, Distinct
  <2> HIDE DEF a
  <2>2. Sits(Reading("state"), a) /\ Sits(Reading("colours"), a) /\ Acts(Reading("state"))
    BY <1>0, <2>1, SitsReading, ActsParts
  <2>3. Sits(<<Check>>, a) /\ Sits(<<Load>>, a)
    BY <2>1, FrameSteps, SitsPlain
  <2>4. Sits(<<Check, Load>>, a) /\ Sits(Then(Reading("state"), Reading("colours")), a)
    BY <2>1, <2>2, <2>3, SitsPair, SitsThen
  <2>5. Sits(<<Check, Load>> \o Then(Reading("state"), Reading("colours")), a)
    BY <2>4, SitsBoth
  <2> QED BY <2>5, StandsHeld DEF Update, a
<1>5. Stands(Release, {})
  <2> DEFINE a1 == {} \cup {Lock("scene")}
             a2 == a1 \cup {Lock("brightness")}
             a3 == a2 \cup {Lock("bar")}
             a4 == a3 \cup {Lock("gate")}
  <2>1. /\ Lock("scene") \notin {} /\ Lock("brightness") \notin a1 /\ Lock("bar") \notin a2 /\ Lock("gate") \notin a3
        /\ \A l \in {"scene", "brightness", "bar"} : Lock(l) \in a4
    BY Distinct
  <2> HIDE DEF a1, a2, a3, a4
  <2>2. Room(a1)
    BY <1>0, <1>1, Rooms DEF a1
  <2>3. Room(a2)
    BY <1>0, <2>2, Rooms DEF a2
  <2>4. Room(a3)
    BY <1>0, <2>3, Rooms DEF a3
  <2>5. Room(a4)
    BY <1>0, <2>4, Rooms DEF a4
  <2>6. {Lock(l) : l \in LocksFor("drop")} \subseteq a4
    <3>1. LocksFor("drop") \subseteq {"scene", "brightness", "bar"}
      BY DEF LocksFor
    <3> QED BY <2>1, <3>1
  <2>7. Sits(<<Send("drop")>>, a4)
    BY <1>0, <2>5, <2>6, FrameSteps, SitsPlain
  <2>8. Sits(Under("gate", <<Send("drop")>>), a3)
    BY <1>0, <2>1, <2>4, <2>7, SitsUnder DEF a4
  <2>9. Sits(Under("bar", Under("gate", <<Send("drop")>>)), a2)
    BY <1>0, <2>1, <2>3, <2>8, SitsUnder DEF a3
  <2>10. Sits(Under("brightness", Under("bar", Under("gate", <<Send("drop")>>))), a1)
    BY <1>0, <2>1, <2>2, <2>9, SitsUnder DEF a2
  <2>11. Sits(Release, {})
    BY <1>0, <1>1, <2>1, <2>10, SitsUnder DEF a1, Release
  <2> QED BY <2>11, SitsStands
<1>6. Stands(PairingRead, {})
  <2> DEFINE a1 == {} \cup {Lock("gate")}
             a2 == a1 \cup {Lock("pairing")}
  <2>1. Lock("gate") \notin {} /\ Lock("pairing") \notin a1 /\ {Lock("gate")} \subseteq a2
    BY Distinct
  <2> HIDE DEF a1, a2
  <2>2. Room(a1)
    BY <1>0, <1>1, Rooms DEF a1
  <2>3. Room(a2)
    BY <1>0, <2>2, Rooms DEF a2
  <2>4. Sits(<<Check>>, a2) /\ Sits(<<Query("secret")>>, a2)
    BY <1>0, <2>1, <2>3, FrameSteps, SitsPlain
  <2>5. Sits(<<Check, Query("secret")>>, a2)
    BY <2>4, SitsPair
  <2>6. Sits(Under("pairing", <<Check, Query("secret")>>), a1)
    BY <1>0, <2>1, <2>2, <2>5, SitsUnder DEF a2
  <2>7. Sits(PairingRead, {})
    BY <1>0, <1>1, <2>1, <2>6, SitsUnder DEF a1, PairingRead
  <2> QED BY <2>7, SitsStands
<1> QED BY <1>2, <1>3, <1>4, <1>5, <1>6

\* Every body, whatever it is called with.
LEMMA BodiesStand ==
    ASSUME NEW m \in Methods, NEW body \in Bodies(m)
    PROVE  Stands(body, {})
<1>1. CASE m = "setPower"
  BY <1>1, StandsSetPower DEF Bodies
<1>2. CASE m = "turnOn"
  BY <1>2, StandsTurnOn DEF Bodies
<1>3. CASE m \in {"setBrightness", "setRgb", "setColorTemp"}
  BY <1>3, StandsColours DEF Bodies
<1>4. CASE m = "setZonePower"
  BY <1>4, StandsSetZonePower DEF Bodies
<1>5. CASE m \in {"setScene", "setSceneByName"}
  BY <1>5, StandsScenes DEF Bodies
<1>6. CASE m \in {"update", "connect", "release"}
  BY <1>6, StandsOthers DEF Bodies
<1>7. CASE m = "readSecret"
  BY <1>7, StandsOthers DEF Bodies
<1> QED BY <1>1, <1>2, <1>3, <1>4, <1>5, <1>6, <1>7 DEF Methods

-----------------------------------------------------------------------------
(* What is left of a call.                                                  *)

\* g is what is open before each of its steps, and nothing is at its end.
GuardedBy(p, g) ==
    /\ p \in Seq(Steps) /\ g \in OpenAlong(p) /\ g[Len(p) + 1] = {}
    /\ \A i \in 1 .. Len(p) + 1 : Nested(g[i])
    /\ \A i \in 1 .. Len(p) : Guards(p[i], g[i], g[i + 1])

\* Within a hold of the heartbeat that is still to come, the first frame is too.
Turned(p) ==
    \A i, j \in 1 .. Len(p) : i < j /\ p[i] = In("hold") /\ Turns(p[j]) => \E k \in i .. j : Leads(p, k, j)
Sound(p) == Kept(p) /\ Turned(p) /\ \E g : GuardedBy(p, g)

\* Whatever lies between two frames, the first of them is still to come.
Firm(p) == \A j \in 1 .. Len(p) : Turns(p[j]) => \E k \in 1 .. j : Leads(p, k, j)

LEMMA StandsSound ==
    ASSUME NEW p, Stands(p, {})
    PROVE  Sound(p) /\ Firm(p)
<1>1. p \in Seq(Steps) /\ Len(p) \in Nat
  BY PartFacts DEF Stands
<1>2. PICK g : CoversBy(p, g, {})
  BY DEF Stands, Covers
<1>3. GuardedBy(p, g)
  BY <1>2 DEF CoversBy, GuardedBy
<1>4. Firm(p)
  BY DEF Stands, Shaped, Firm
<1>5. ASSUME NEW i \in 1 .. Len(p), NEW j \in 1 .. Len(p), i < j, p[i] = In("hold"), Turns(p[j])
      PROVE  \E k \in i .. j : Leads(p, k, j)
  <2>1. PICK k \in 1 .. j : Leads(p, k, j) /\ \A n \in k .. j : p[n] # In("hold")
    BY <1>5 DEF Stands, Shaped
  <2>2. ~(k <= i)
    BY <1>1, <1>5, <2>1
  <2>3. k \in i .. j
    BY <1>1, <2>2
  <2> QED BY <2>1, <2>3
<1> QED BY <1>3, <1>4, <1>5 DEF Sound, Turned, Stands

\* The steps of a suffix.
LEMMA Suffix ==
    ASSUME NEW p \in Seq(Steps), NEW e \in 0 .. Len(p)
    PROVE  LET q == SubSeq(p, e + 1, Len(p))
           IN  /\ q \in Seq(Steps) /\ Len(q) = Len(p) - e /\ Len(p) \in Nat
               /\ \A i \in 1 .. Len(p) - e : q[i] = p[i + e] /\ i + e \in 1 .. Len(p)
<1> DEFINE n == Len(p) - e
           q == SubSeq(p, e + 1, Len(p))
<1>1. Len(p) \in Nat /\ n \in Nat /\ \A i \in 1 .. Len(p) : p[i] \in Steps
  BY LenProperties, ElementOfSeq
<1>2. e + 1 \in Int /\ Len(p) \in Int /\ \A i \in e + 1 .. Len(p) : p[i] \in Steps
  BY <1>1
<1>3. /\ q \in Seq(Steps) /\ Len(q) = IF e + 1 <= Len(p) THEN Len(p) - (e + 1) + 1 ELSE 0
      /\ \A i \in 1 .. Len(p) - (e + 1) + 1 : q[i] = p[(e + 1) + i - 1]
  BY <1>2, SubSeqProperties
<1>4. \A i \in 1 .. n : (e + 1) + i - 1 = i + e /\ i + e \in 1 .. Len(p)
  BY <1>1
<1> HIDE DEF q
<1>5. q \in Seq(Steps) /\ Len(q) = n /\ \A i \in 1 .. n : q[i] = p[i + e] /\ i + e \in 1 .. Len(p)
  BY <1>1, <1>3, <1>4
<1> QED BY <1>1, <1>5 DEF q

LEMMA SoundSuffix ==
    ASSUME NEW p, Sound(p), NEW e \in 0 .. Len(p)
    PROVE  Sound(SubSeq(p, e + 1, Len(p)))
<1> DEFINE n == Len(p) - e
           q == SubSeq(p, e + 1, Len(p))
<1>1. PICK h : GuardedBy(p, h)
  BY DEF Sound
<1>2. p \in Seq(Steps)
  BY <1>1 DEF GuardedBy
<1>3. /\ q \in Seq(Steps) /\ Len(q) = n /\ Len(p) \in Nat /\ n \in Nat
      /\ \A i \in 1 .. n : q[i] = p[i + e] /\ i + e \in 1 .. Len(p)
  BY <1>2, Suffix
<1> HIDE DEF q
<1> DEFINE g == [i \in 1 .. n + 1 |-> h[i + e]]
<1>4. /\ \A i \in 1 .. n + 1 : g[i] = h[i + e] /\ i + e \in 1 .. Len(p) + 1
      /\ g[n + 1] = h[Len(p) + 1] /\ g = [i \in 1 .. n + 1 |-> g[i]]
  BY <1>3
<1> HIDE DEF g
<1>5. g \in OpenAlong(q)
  BY <1>1, <1>3, <1>4 DEF OpenAlong, GuardedBy
<1>6. ASSUME NEW i \in 1 .. n PROVE Guards(q[i], g[i], g[i + 1])
  <2>0. i \in 1 .. n + 1 /\ i + 1 \in 1 .. n + 1 /\ (i + 1) + e = (i + e) + 1
    BY <1>3
  <2>1. q[i] = p[i + e] /\ g[i] = h[i + e] /\ g[i + 1] = h[(i + e) + 1] /\ i + e \in 1 .. Len(p)
    BY <1>3, <1>4, <2>0
  <2> QED BY <1>1, <2>1 DEF GuardedBy
<1>7. GuardedBy(q, g)
  BY <1>1, <1>3, <1>4, <1>5, <1>6 DEF GuardedBy
<1>8. Kept(q)
  <2> SUFFICES ASSUME NEW i \in 1 .. n, NEW j \in 1 .. n, i < j, q[i] = Out("hold") PROVE q[j] # In("hold")
    BY <1>3 DEF Kept
  <2>1. q[i] = p[i + e] /\ q[j] = p[j + e] /\ i + e < j + e /\ i + e \in 1 .. Len(p) /\ j + e \in 1 .. Len(p)
    BY <1>3
  <2> QED BY <2>1 DEF Sound, Kept
<1>9. Turned(q)
  <2> SUFFICES ASSUME NEW i \in 1 .. n, NEW j \in 1 .. n, i < j, q[i] = In("hold"), Turns(q[j])
               PROVE  \E k \in i .. j : Leads(q, k, j)
    BY <1>3 DEF Turned
  <2>1. q[i] = p[i + e] /\ q[j] = p[j + e] /\ i + e < j + e /\ i + e \in 1 .. Len(p) /\ j + e \in 1 .. Len(p)
    BY <1>3
  <2>2. PICK k \in i + e .. j + e : Leads(p, k, j + e)
    BY <2>1 DEF Sound, Turned
  <2>3. k - e \in i .. j /\ k - e \in 1 .. n /\ (k - e) + e = k
    BY <1>3, <2>2
  <2>4. q[k - e] = p[k]
    BY <1>3, <2>3
  <2>5. Leads(q, k - e, j)
    BY <2>1, <2>2, <2>4 DEF Leads
  <2> QED BY <2>3, <2>5
<1> QED BY <1>7, <1>8, <1>9 DEF Sound, q

\* No frame has gone out: what was to come still is.
LEMMA FirmSuffix ==
    ASSUME NEW p \in Seq(Steps), Firm(p), NEW e \in 0 .. Len(p), \A k \in 1 .. e : ~Works(p[k])
    PROVE  Firm(SubSeq(p, e + 1, Len(p)))
<1> DEFINE n == Len(p) - e
           q == SubSeq(p, e + 1, Len(p))
<1>1. /\ q \in Seq(Steps) /\ Len(q) = n /\ Len(p) \in Nat /\ n \in Nat
      /\ \A i \in 1 .. n : q[i] = p[i + e] /\ i + e \in 1 .. Len(p)
  BY Suffix
<1> HIDE DEF q
<1>2. In("between") # Out("between")
  BY DEF In, Out
<1>3. \A k \in 1 .. e : p[k] # In("between")
  <2> SUFFICES ASSUME NEW k \in 1 .. e, p[k] = In("between") PROVE FALSE
    OBVIOUS
  <2>1. k \in 1 .. Len(p)
    BY <1>1
  <2>2. PICK i \in 1 .. k : Works(p[i])
    BY <2>1 DEF Firm, Turns, Leads
  <2>3. i \in 1 .. e
    BY <1>1
  <2> QED BY <2>2, <2>3
<1> SUFFICES ASSUME NEW j \in 1 .. n, Turns(q[j]) PROVE \E k \in 1 .. j : Leads(q, k, j)
  BY <1>1 DEF Firm, q
<1>4. q[j] = p[j + e] /\ j + e \in 1 .. Len(p)
  BY <1>1
<1>5. PICK k \in 1 .. j + e : Leads(p, k, j + e)
  BY <1>4 DEF Firm
<1>6. ~(k \in 1 .. e)
  BY <1>3, <1>4, <1>5 DEF Leads, Turns
<1>7. k - e \in 1 .. j /\ k - e \in 1 .. n /\ (k - e) + e = k
  BY <1>1, <1>4, <1>6
<1>8. q[k - e] = p[k]
  BY <1>1, <1>7
<1>9. Leads(q, k - e, j)
  BY <1>4, <1>5, <1>8 DEF Leads
<1> QED BY <1>7, <1>9

LEMMA SoundNothing == Sound(<<>>) /\ Firm(<<>>)
<1>1. {} \in SUBSET Steps /\ Nested({})
  BY DEF Nested
<1>2. Stands(<<>>, {})
  BY <1>1, SitsNothing, SitsStands
<1> QED BY <1>2, StandsSound

-----------------------------------------------------------------------------
(* What is open now.                                                        *)

\* What is open at one step and not at a later one is shut in between, and not opened before that;
\* what is open only later is opened in between.
LEMMA OpenAndShut ==
    ASSUME NEW p, NEW g, GuardedBy(p, g), NEW j \in 1 .. Len(p) + 1, NEW k \in 1 .. Len(p) + 1, j <= k, NEW y
    PROVE  /\ y \in g[j] /\ y \notin g[k] =>
                \E i \in j .. k - 1 : y \in Shuts(p[i]) /\ \A m \in j .. i : y \in g[m] /\ y \notin Opens(p[m])
           /\ y \notin g[j] /\ y \in g[k] => \E i \in j .. k - 1 : y \in Opens(p[i])
<1>1. Len(p) \in Nat
  BY LenProperties DEF GuardedBy
<1>2. ASSUME y \in g[j], y \notin g[k]
      PROVE  \E i \in j .. k - 1 : y \in Shuts(p[i]) /\ \A m \in j .. i : y \in g[m] /\ y \notin Opens(p[m])
  <2> DEFINE S == {i \in j .. k : y \notin g[i]}
  <2>1. S \in SUBSET Nat /\ k \in S
    BY <1>1, <1>2
  <2>2. PICK i \in S : \A n \in S : i <= n
    BY <2>1, LeastIndex, Zenon
  <2>3. i - 1 \in j .. k - 1 /\ y \notin g[i] /\ (i - 1) + 1 = i /\ i - 1 \in 1 .. Len(p)
    BY <1>1, <1>2, <2>2
  <2>4. \A m \in j .. i - 1 : y \in g[m] /\ m \in 1 .. Len(p)
    BY <1>1, <2>2, <2>3
  <2>5. \A m \in j .. i - 1 : y \notin Opens(p[m])
    <3> SUFFICES ASSUME NEW m \in j .. i - 1 PROVE y \notin Opens(p[m])
      OBVIOUS
    <3>1. Guards(p[m], g[m], g[m + 1]) /\ y \in g[m]
      BY <2>4 DEF GuardedBy
    <3> QED BY <3>1 DEF Guards
  <2>6. i - 1 \in j .. i - 1
    BY <2>3
  <2>7. Guards(p[i - 1], g[i - 1], g[(i - 1) + 1]) /\ y \in g[i - 1]
    BY <2>3, <2>4, <2>6 DEF GuardedBy
  <2>8. y \in Shuts(p[i - 1])
    BY <2>3, <2>7 DEF Guards
  <2> QED BY <2>3, <2>4, <2>5, <2>8
<1>3. ASSUME y \notin g[j], y \in g[k]
      PROVE  \E i \in j .. k - 1 : y \in Opens(p[i])
  <2> DEFINE S == {i \in j .. k : y \in g[i]}
  <2>1. S \in SUBSET Nat /\ k \in S
    BY <1>1, <1>3
  <2>2. PICK i \in S : \A n \in S : i <= n
    BY <2>1, LeastIndex, Zenon
  <2>3. i - 1 \in j .. k - 1 /\ y \in g[i] /\ y \notin g[i - 1] /\ (i - 1) + 1 = i /\ i - 1 \in 1 .. Len(p)
    BY <1>1, <1>3, <2>2
  <2>4. Guards(p[i - 1], g[i - 1], g[(i - 1) + 1])
    BY <2>3 DEF GuardedBy
  <2>5. y \in Opens(p[i - 1])
    BY <2>3, <2>4 DEF Guards
  <2> QED BY <2>3, <2>5
<1> QED BY <1>2, <1>3

\* Steps that open and shut.
LEMMA OpenersAndClosers ==
    /\ \A x, y : y \in Opens(x) => x = y
    /\ \A x \in Steps : \A l : Lock(l) \in Shuts(x) => x = Free(l)
    /\ \A x \in Steps : \A s : In(s) \in Shuts(x) => x = Out(s)
    /\ \A s : s # "between" => Shuts(Out(s)) = {In(s)}
    /\ \A l, s : Lock(l) # In(s)
<1>1. \A x, y : y \in Opens(x) => x = y
  BY DEF Opens
<1>0. \A l, s : Lock(l)[1] = "lock" /\ Lock(l)[2] = l /\ In(s)[1] = "in" /\ In(s)[2] = s
                /\ Out(s)[1] = "out" /\ Out(s)[2] = s
  BY DEF Lock, In, Out
<1>5. ASSUME NEW l, NEW s, Lock(l) = In(s) PROVE FALSE
  <2>1. Lock(l)[1] = In(s)[1]
    BY <1>5
  <2> QED BY <1>0, <2>1
<1>2. ASSUME NEW x \in Steps, NEW l, Lock(l) \in Shuts(x) PROVE x = Free(l)
  <2>1. x[1] = "free" /\ Lock(l) = Lock(x[2])
    <3>1. CASE x[1] = "free"
      BY <1>2, <3>1 DEF Shuts
    <3>2. CASE x[1] # "free"
      BY <1>2, <1>5, <3>2 DEF Shuts
    <3> QED BY <3>1, <3>2
  <2>2. Lock(l)[2] = Lock(x[2])[2]
    BY <2>1
  <2>3. x[2] = l
    BY <1>0, <2>2
  <2> QED BY <2>1, <2>3, StepPairs DEF Free
<1>3. ASSUME NEW x \in Steps, NEW s, In(s) \in Shuts(x) PROVE x = Out(s)
  <2>1. x[1] = "out" /\ In(s) = In(x[2])
    <3>1. CASE x[1] = "free"
      <4>1. Shuts(x) = {Lock(x[2])}
        BY <3>1 DEF Shuts
      <4>2. In(s) = Lock(x[2])
        BY <1>3, <4>1
      <4> QED BY <1>5, <4>2
    <3>2. CASE x[1] # "free"
      BY <1>3, <3>2 DEF Shuts
    <3> QED BY <3>1, <3>2
  <2>2. In(s)[2] = In(x[2])[2]
    BY <2>1
  <2>3. x[2] = s
    BY <1>0, <2>2
  <2> QED BY <2>1, <2>3, StepPairs DEF Out
<1>4. ASSUME NEW s, s # "between" PROVE Shuts(Out(s)) = {In(s)}
  <2>1. Out(s) # Out("between")
    <3>1. SUFFICES ASSUME Out(s) = Out("between") PROVE FALSE
      OBVIOUS
    <3>2. Out(s)[2] = Out("between")[2]
      BY <3>1
    <3> QED BY <1>0, <1>4, <3>2
  <2> QED BY <1>0, <2>1 DEF Shuts
<1> QED BY <1>1, <1>2, <1>3, <1>4, <1>5

\* A lock that is open is held.
LEMMA OpenIsHeld ==
    ASSUME NEW p, NEW g, GuardedBy(p, g), NEW held, NEW own, Ordered(p, held, own), NEW l, Lock(l) \in g[1]
    PROVE  l \in held
<1>1. PICK h : OrderedBy(p, h, held, own)
  BY DEF Ordered
<1>2. p \in Seq(Steps) /\ Len(p) \in Nat /\ h[1] = held /\ g[Len(p) + 1] = {} /\ \A i \in 1 .. Len(p) : p[i] \in Steps
  BY <1>1, LenProperties, ElementOfSeq DEF OrderedBy, GuardedBy
<1>3. PICK i \in 1 .. (Len(p) + 1) - 1 : /\ Lock(l) \in Shuts(p[i])
                                        /\ \A m \in 1 .. i : Lock(l) \in g[m] /\ Lock(l) \notin Opens(p[m])
  <2>1. 1 \in 1 .. Len(p) + 1 /\ Len(p) + 1 \in 1 .. Len(p) + 1 /\ 1 <= Len(p) + 1
        /\ Lock(l) \in g[1] /\ Lock(l) \notin g[Len(p) + 1]
    BY <1>2
  <2> QED BY <2>1, OpenAndShut
<1>4. i \in 1 .. Len(p) /\ p[i] = Free(l)
  BY <1>2, <1>3, OpenersAndClosers
<1>5. l \in h[i]
  <2>1. InOrder(p[i], h[i], h[i + 1], own)
    BY <1>1, <1>4 DEF OrderedBy
  <2> QED BY <1>4, <2>1, Kinds DEF InOrder
<1> DEFINE S == {k \in 1 .. i : l \in h[k]}
<1>6. S \in SUBSET Nat /\ i \in S
  BY <1>2, <1>4, <1>5
<1>7. PICK k \in S : \A n \in S : k <= n
  BY <1>6, LeastIndex, Zenon
<1>8. CASE k = 1
  BY <1>2, <1>7, <1>8
<1>9. CASE k # 1
  <2>1. k - 1 \in 1 .. i /\ k - 1 \in 1 .. Len(p) /\ l \notin h[k - 1] /\ l \in h[(k - 1) + 1]
    BY <1>2, <1>4, <1>7, <1>9
  <2>2. InOrder(p[k - 1], h[k - 1], h[(k - 1) + 1], own) /\ p[k - 1] \in Steps
    BY <1>1, <1>2, <2>1 DEF OrderedBy
  <2>3. p[k - 1][1] = "lock" /\ p[k - 1][2] = l
    BY <2>1, <2>2 DEF InOrder
  <2>4. p[k - 1] = Lock(l)
    BY <2>2, <2>3, StepPairs DEF Lock
  <2>5. Lock(l) \in Opens(p[k - 1])
    BY <2>3, <2>4 DEF Opens
  <2> QED BY <1>3, <2>1, <2>5
<1> QED BY <1>8, <1>9

\* A section that is to end and not to begin is open.
LEMMA InsideIsOpen ==
    ASSUME NEW p, NEW g, GuardedBy(p, g), NEW s, s # "between",
           NEW j \in 1 .. Len(p), p[j] = Out(s), \A i \in 1 .. Len(p) : p[i] # In(s)
    PROVE  In(s) \in g[1]
<1>1. Len(p) \in Nat
  BY LenProperties DEF GuardedBy
<1>2. In(s) \in g[j]
  <2>1. Guards(p[j], g[j], g[j + 1])
    BY DEF GuardedBy
  <2> QED BY <2>1, OpenersAndClosers DEF Guards
<1>3. SUFFICES ASSUME In(s) \notin g[1] PROVE FALSE
  OBVIOUS
<1>4. 1 \in 1 .. Len(p) + 1 /\ j \in 1 .. Len(p) + 1 /\ 1 <= j
  BY <1>1
<1>5. PICK i \in 1 .. j - 1 : In(s) \in Opens(p[i])
  BY <1>2, <1>3, <1>4, OpenAndShut
<1>6. p[i] = In(s) /\ i \in 1 .. Len(p)
  BY <1>1, <1>5, OpenersAndClosers
<1> QED BY <1>6

\* What frames need, and what lies between two.
LEMMA NeedsOf ==
    /\ \A x : x[1] = "query" => Needs(x) = {Lock("gate")}
    /\ \A x : x[1] \in {"write", "send"} => Needs(x) = {Lock(l) : l \in LocksFor(x[2])}
    /\ \A x : Turns(x) => Needs(x) = {In("hold")}
<1> SUFFICES ASSUME NEW x
             PROVE  /\ x[1] = "query" => Needs(x) = {Lock("gate")}
                    /\ x[1] \in {"write", "send"} => Needs(x) = {Lock(l) : l \in LocksFor(x[2])}
                    /\ Turns(x) => Needs(x) = {In("hold")}
  OBVIOUS
<1> DEFINE n == {Lock(l) : l \in LocksFor(x[2])}
           o == {Lock(l) : l \in LocksIn(x[2])}
<1>1. Turns(x) => x[1] \in {"in", "out"}
  BY DEF Turns, In, Out
<1>2. Needs(x) = CASE x[1] = "query" -> {Lock("gate")}
                   [] x[1] \in {"write", "send"} -> n
                   [] x \in {In("between"), Out("between")} -> {In("hold")}
                   [] x[1] = "in" /\ x # In("between") -> o
                   [] OTHER -> {}
  BY Zenon DEF Needs
<1> HIDE DEF n, o
<1>3. ASSUME x[1] = "query" PROVE Needs(x) = {Lock("gate")}
  <2>1. x[1] \notin {"write", "send"} /\ x[1] # "in" /\ ~Turns(x)
    BY <1>1, <1>3
  <2> QED BY <1>2, <1>3, <2>1 DEF Turns
<1>4. ASSUME x[1] \in {"write", "send"} PROVE Needs(x) = n
  <2>1. x[1] # "query" /\ x[1] # "in" /\ ~Turns(x)
    BY <1>1, <1>4
  <2> QED BY <1>2, <1>4, <2>1 DEF Turns
<1>5. ASSUME Turns(x) PROVE Needs(x) = {In("hold")}
  <2>1. x[1] # "query" /\ x[1] \notin {"write", "send"} /\ x # Out("between") => x = In("between")
    BY <1>1, <1>5 DEF Turns
  <2>2. ~(x[1] = "in" /\ x # In("between"))
    <3>1. x = Out("between") => x[1] = "out"
      BY DEF Out
    <3> QED BY <1>5, <3>1 DEF Turns
  <2> DEFINE h == {In("hold")}
  <2>3. Needs(x) = CASE x[1] = "query" -> {Lock("gate")}
                   [] x[1] \in {"write", "send"} -> n
                   [] x \in {In("between"), Out("between")} -> h
                   [] x[1] = "in" /\ x # In("between") -> o
                   [] OTHER -> {}
    BY <1>2
  <2> HIDE DEF h
  <2>4. x \in {In("between"), Out("between")}
    BY <1>5 DEF Turns
  <2>5. Needs(x) = h
    BY <2>1, <2>2, <2>3, <2>4
  <2> QED BY <2>5 DEF h
<1> QED BY <1>3, <1>4, <1>5 DEF n

\* With no hold of the heartbeat open, the first of any two frames is still to come.
LEMMA FirmUnheld ==
    ASSUME NEW p, Sound(p), ~(Out("hold") \in Range(p) /\ In("hold") \notin Range(p))
    PROVE  Firm(p)
<1>1. PICK g : GuardedBy(p, g)
  BY DEF Sound
<1>2. p \in Seq(Steps) /\ Len(p) \in Nat /\ DOMAIN p = 1 .. Len(p) /\ g[Len(p) + 1] = {}
      /\ \A i \in 1 .. Len(p) : p[i] \in Steps
  BY <1>1, LenProperties, ElementOfSeq DEF GuardedBy
<1>3. \A x : x \in Range(p) <=> \E i \in 1 .. Len(p) : p[i] = x
  BY <1>2 DEF Range
<1>4. In("hold") \notin g[1]
  <2> SUFFICES ASSUME In("hold") \in g[1] PROVE FALSE
    OBVIOUS
  <2>1. 1 \in 1 .. Len(p) + 1 /\ Len(p) + 1 \in 1 .. Len(p) + 1 /\ 1 <= Len(p) + 1 /\ In("hold") \notin g[Len(p) + 1]
    BY <1>2
  <2>2. PICK i \in 1 .. (Len(p) + 1) - 1 : /\ In("hold") \in Shuts(p[i])
                                          /\ \A m \in 1 .. i : In("hold") \in g[m] /\ In("hold") \notin Opens(p[m])
    BY <1>1, <2>1, OpenAndShut
  <2>3. i \in 1 .. Len(p) /\ p[i] = Out("hold")
    BY <1>2, <2>2, OpenersAndClosers
  <2>4. PICK m \in 1 .. Len(p) : p[m] = In("hold")
    BY <1>3, <2>3
  <2>5. In("hold") \in Opens(p[m])
    <3>1. In("hold")[1] = "in" /\ In("hold") # In("between")
      BY DEF In
    <3> QED BY <2>4, <3>1 DEF Opens
  <2>6. ~(m <= i)
    BY <1>2, <2>2, <2>3, <2>5
  <2>7. i < m
    BY <1>2, <2>3, <2>6
  <2> QED BY <2>3, <2>4, <2>7 DEF Sound, Kept
<1> SUFFICES ASSUME NEW j \in 1 .. Len(p), Turns(p[j]) PROVE \E k \in 1 .. j : Leads(p, k, j)
  BY DEF Firm
<1>5. In("hold") \in g[j]
  <2>1. Guards(p[j], g[j], g[j + 1])
    BY <1>1 DEF GuardedBy
  <2>2. Needs(p[j]) = {In("hold")}
    BY NeedsOf
  <2> QED BY <2>1, <2>2 DEF Guards
<1>6. 1 \in 1 .. Len(p) + 1 /\ j \in 1 .. Len(p) + 1 /\ 1 <= j
  BY <1>2
<1>7. PICK i \in 1 .. j - 1 : In("hold") \in Opens(p[i])
  BY <1>1, <1>4, <1>5, <1>6, OpenAndShut
<1>8. p[i] = In("hold") /\ i \in 1 .. Len(p) /\ i < j
  BY <1>2, <1>7, OpenersAndClosers
<1>9. PICK k \in i .. j : Leads(p, k, j)
  BY <1>8 DEF Sound, Turned
<1>10. k \in 1 .. j
  BY <1>2, <1>8
<1> QED BY <1>9, <1>10

-----------------------------------------------------------------------------
(* A call run to its next await, and every step of the system.              *)

\* Where a call stands at an operation of the connection, or at the load of the scenes.
Halts(p, sg) ==
    /\ sg \in AtConn => p # <<>> /\ p[1][1] \in {"check", "write", "send", "query"}
    /\ sg = "load" => p # <<>> /\ p[1][1] = "load"

\* While a heartbeat runs, no call is between two frames.
Ready(s) ==
    /\ IsState(s) /\ Sound(s.todo) /\ Halts(s.todo, s.stage)
    /\ beat => Firm(s.todo) /\ s.stage \notin {"setup", "wire"}

LEMMA TailSettles ==
    ASSUME NEW p, Sound(p), p # <<>>
    PROVE  /\ p \in Seq(Steps) /\ Len(p) \in Nat \ {0} /\ Head(p) = p[1] /\ p[1] \in Steps
           /\ Sound(Tail(p)) /\ (Firm(p) /\ ~Works(p[1]) => Firm(Tail(p)))
<1>1. p \in Seq(Steps) /\ Len(p) \in Nat \ {0} /\ Head(p) = p[1] /\ p[1] \in Steps
  <2>1. p \in Seq(Steps)
    BY DEF Sound, GuardedBy
  <2>2. Len(p) \in Nat /\ Len(p) # 0
    BY <2>1, LenProperties, EmptySeq
  <2> QED BY <2>1, <2>2, ElementOfSeq
<1>2. Tail(p) = SubSeq(p, 1 + 1, Len(p)) /\ 1 \in 0 .. Len(p)
  BY <1>1, TailIsSubSeq
<1>3. Sound(SubSeq(p, 1 + 1, Len(p)))
  BY <1>2, SoundSuffix
<1>4. ASSUME Firm(p), ~Works(p[1]) PROVE Firm(SubSeq(p, 1 + 1, Len(p)))
  <2>1. \A k \in 1 .. 1 : ~Works(p[k])
    BY <1>4
  <2> QED BY <1>1, <1>2, <1>4, <2>1, FirmSuffix
<1> QED BY <1>1, <1>2, <1>3, <1>4

LEMMA Next1Ready ==
    ASSUME NEW s, IsState(s), Sound(s.todo), s.todo # <<>>, s.stage = "run", beat => Firm(s.todo) /\ ~Works(s.todo[1])
    PROVE  Ready(Next1(s))
<1>1. IsState(Next1(s)) /\ Next1(s).todo = Tail(s.todo) /\ Next1(s).stage = "run"
  BY Next1Fields
<1>2. Sound(Tail(s.todo)) /\ (Firm(s.todo) /\ ~Works(s.todo[1]) => Firm(Tail(s.todo)))
  BY TailSettles
<1> QED BY <1>1, <1>2 DEF Ready, Halts, AtConn

LEMMA JoiningReady ==
    ASSUME NEW s, NEW t, Ready(s), NEW sg, sg \notin {"setup", "wire"}, Halts(s.todo, sg), NEW l
    PROVE  Ready([s EXCEPT !.stage = sg, !.queue[l] = Append(@, t)])
<1> DEFINE r == [s EXCEPT !.stage = sg, !.queue[l] = Append(@, t)]
<1>0. r = [s EXCEPT !.stage = sg, !.queue[l] = Append(@, t)] /\ IsState(s)
  BY DEF Ready
<1> HIDE DEF r
<1>1. IsState(r) /\ r.todo = s.todo /\ r.stage = sg
  BY <1>0 DEF IsState
<1>2. Ready(r)
  BY <1>1 DEF Ready
<1> QED BY <1>2 DEF r

LEMMA CheckReady ==
    ASSUME NEW s, NEW t, Ready(s), s.stage = "run", s.todo # <<>>, s.todo[1][1] = "check"
    PROVE  Ready(TakeCheck(s, t))
<1> DEFINE mine == s.pending /\ ~(Pairing(t) /\ secret = 0)
           flag == s.pending /\ ~mine
           first == IF Locked(s, "pairing") THEN s.early \ {t} ELSE s.early \cup {t}
           excuse == IF \E u \in Tasks \ {t} : TookCheck(u) THEN s.excused \cup {t} ELSE s.excused \ {t}
           seen == [s EXCEPT !.pending = flag, !.taken = secret, !.early = first, !.excused = excuse]
           queued == [seen EXCEPT !.stage = "queued", !.queue["conn"] = Append(@, t)]
<1>1. TakeCheck(s, t) \in {queued, Next1(seen)}
  BY Zenon DEF TakeCheck
<1> HIDE DEF flag, first, excuse, mine
<1>0. seen = [s EXCEPT !.pending = flag, !.taken = secret, !.early = first, !.excused = excuse] /\ IsState(s)
  BY DEF Ready
<1> HIDE DEF seen
<1>2. IsState(seen) /\ seen.todo = s.todo /\ seen.stage = s.stage
  BY <1>0 DEF IsState
<1>3. Ready(seen)
  BY <1>2 DEF Ready
<1>4. Ready(Next1(seen))
  <2>1. ~Works(seen.todo[1])
    BY <1>2 DEF Works
  <2>2. IsState(seen) /\ Sound(seen.todo) /\ (beat => Firm(seen.todo) /\ ~Works(seen.todo[1]))
    BY <1>3, <2>1 DEF Ready
  <2> QED BY <1>2, <2>2, Next1Ready
<1>5. Ready(queued)
  <2>1. Halts(seen.todo, "queued")
    BY <1>2 DEF Halts, AtConn
  <2> QED BY <1>3, <2>1, JoiningReady
<1> QED BY <1>1, <1>4, <1>5

LEMMA DoReady ==
    ASSUME NEW s, NEW t, Ready(s), s.stage = "run"
    PROVE  Ready(Do(s, t))
<1> DEFINE p == s.todo
           k == Head(s.todo)[1]
           x == Head(s.todo)[2]
<1>1. IsState(s) /\ Sound(p) /\ (beat => Firm(p))
  BY DEF Ready
<1>2. CASE p = <<>>
  <2> DEFINE r == [s EXCEPT !.stage = "done"]
  <2>1. Do(s, t) = r
    BY <1>2 DEF Do
  <2>2. IsState(r) /\ r.todo = p /\ r.stage = "done"
    BY <1>1 DEF IsState
  <2> HIDE DEF r
  <2> QED BY <1>1, <2>1, <2>2 DEF Ready, Halts, AtConn
<1>3. CASE p # <<>>
  <2>0. p \in Seq(Steps) /\ Head(p) = p[1] /\ k = p[1][1] /\ p[1] \in Steps
    BY <1>1, <1>3, TailSettles
  <2>1. CASE k \in {"in", "out", "except"}
    <3>1. Do(s, t) = Next1(s)
      BY <1>3, <2>1 DEF Do
    <3>2. ~Works(p[1])
      BY <2>0, <2>1 DEF Works
    <3> QED BY <1>1, <1>3, <3>1, <3>2, Next1Ready
  <2>2. CASE (k = "lock" /\ s.queue[x] = <<>>) \/ k = "free"
    <3>1. \E q : Do(s, t) = Next1([s EXCEPT !.queue = q])
      <4>1. CASE k = "lock" /\ s.queue[x] = <<>>
        <5>1. Do(s, t) = Next1([s EXCEPT !.queue[x] = <<t>>])
          BY <1>3, <4>1 DEF Do
        <5> QED BY <5>1
      <4>2. CASE k = "free"
        <5>1. Do(s, t) = Next1([s EXCEPT !.queue[x] = Tail(@)])
          BY <1>3, <4>2 DEF Do
        <5> QED BY <5>1
      <4> QED BY <2>2, <4>1, <4>2
    <3>2. PICK q : Do(s, t) = Next1([s EXCEPT !.queue = q])
      BY <3>1
    <3> DEFINE r == [s EXCEPT !.queue = q]
    <3>3. IsState(r) /\ r.todo = p /\ r.stage = "run"
      BY <1>1 DEF IsState
    <3>4. ~Works(p[1])
      BY <2>0, <2>2 DEF Works
    <3>5. Do(s, t) = Next1(r)
      BY <3>2
    <3> HIDE DEF r
    <3> QED BY <1>1, <1>3, <3>3, <3>4, <3>5, Next1Ready
  <2>3. CASE k = "lock" /\ s.queue[x] # <<>>
    <3>1. Do(s, t) = [s EXCEPT !.stage = "lock", !.queue[x] = Append(@, t)]
      BY <1>3, <2>3 DEF Do
    <3>2. Halts(p, "lock")
      BY DEF Halts, AtConn
    <3>3. Ready([s EXCEPT !.stage = "lock", !.queue[x] = Append(@, t)])
      BY <3>2, JoiningReady
    <3> QED BY <3>1, <3>3
  <2>4. CASE k = "check"
    <3>1. CASE ~(Has("emptyCheck") /\ secret = 0 /\ ~Pairing(t) /\ Locked(s, "pairing"))
      <4>1. Do(s, t) = TakeCheck(s, t)
        BY <1>3, <2>4, <3>1 DEF Do
      <4> QED BY <1>3, <2>0, <2>4, <4>1, CheckReady
    <3>2. CASE Has("emptyCheck") /\ secret = 0 /\ ~Pairing(t) /\ Locked(s, "pairing")
      <4>1. Do(s, t) = [s EXCEPT !.stage = "pairing", !.queue["pairing"] = Append(@, t)]
        BY <1>3, <2>4, <3>2 DEF Do
      <4>2. Halts(p, "pairing")
        BY DEF Halts, AtConn
      <4>3. Ready([s EXCEPT !.stage = "pairing", !.queue["pairing"] = Append(@, t)])
        BY <4>2, JoiningReady
      <4> QED BY <4>1, <4>3
    <3> QED BY <3>1, <3>2
  <2>5. CASE k = "load"
    <3> DEFINE r == [s EXCEPT !.stage = "load"]
    <3>1. Do(s, t) = r
      BY <1>3, <2>5 DEF Do
    <3>2. IsState(r) /\ r.todo = p /\ r.stage = "load"
      BY <1>1 DEF IsState
    <3> HIDE DEF r
    <3> QED BY <1>1, <1>3, <2>0, <2>5, <3>1, <3>2 DEF Ready, Halts, AtConn
  <2>6. CASE k \notin {"in", "out", "except", "lock", "free", "check", "load"}
    <3>1. Do(s, t) = [s EXCEPT !.stage = "queued", !.queue["conn"] = Append(@, t)]
      BY <1>3, <2>6 DEF Do
    <3>2. p[1][1] \in {"check", "write", "send", "query"}
      BY <2>0, <2>6 DEF Steps
    <3>3. Halts(p, "queued")
      BY <1>3, <3>2 DEF Halts, AtConn
    <3>4. Ready([s EXCEPT !.stage = "queued", !.queue["conn"] = Append(@, t)])
      BY <3>3, JoiningReady
    <3> QED BY <3>1, <3>4
  <2> QED BY <2>1, <2>2, <2>3, <2>4, <2>5, <2>6
<1> QED BY <1>2, <1>3

LEMMA RunReady ==
    ASSUME NEW s, NEW t, Ready(s), Run(s, t)
    PROVE  \E r : /\ Ready(r)
                  /\ todo' = [todo EXCEPT ![t] = r.todo] /\ stage' = [stage EXCEPT ![t] = r.stage]
<1> DEFINE after == CHOOSE f : Trace(f, s, t)
           r == after[Len(s.todo) + 1]
<1>1. Trace(after, s, t)
  BY StepsExist
<1>2. todo' = [todo EXCEPT ![t] = r.todo] /\ stage' = [stage EXCEPT ![t] = r.stage]
  BY DEF Run, StepOn, Trace
<1> HIDE DEF after
<1>3. \A n \in Nat : after[n] = IF n = 0 THEN s ELSE StepOn(after[n - 1], t)
  BY <1>1 DEF Trace
<1>4. Len(s.todo) + 1 \in Nat
  BY LenProperties DEF Ready, Sound, GuardedBy
<1>5. ASSUME NEW n \in Nat PROVE Ready(after[n])
  <2> DEFINE S == {m \in Nat : ~Ready(after[m])}
  <2> SUFFICES ASSUME S # {} PROVE FALSE
    OBVIOUS
  <2>1. PICK m \in S : \A j \in S : m <= j
    BY LeastIndex, Zenon
  <2>2. m # 0
    BY <1>3, <2>1
  <2>3. m - 1 \in Nat /\ m - 1 \notin S
    BY <2>1, <2>2
  <2>4. Ready(after[m - 1])
    BY <2>3
  <2>5. Ready(StepOn(after[m - 1], t))
    BY <2>4, DoReady DEF StepOn
  <2> QED BY <1>3, <2>1, <2>2, <2>5
<1> QED BY <1>2, <1>4, <1>5

\* Every call stands well.
Settled(t) ==
    /\ Sound(todo[t]) /\ Halts(todo[t], stage[t])
    /\ beat => Firm(todo[t]) /\ stage[t] \notin {"setup", "wire"}
AllSettled == \A t \in Tasks : Settled(t)

\* What the profile decides stays as it is.
LEMMA SoundStays ==
    ASSUME UNCHANGED device
    PROVE  \A p : Sound(p)' = Sound(p) /\ Firm(p)' = Firm(p)
<1>1. \A f : Has(f)' = Has(f)
  BY DEF Has
<1>2. \A f : LocksFor(f)' = LocksFor(f)
  BY <1>1 DEF LocksFor
<1>3. \A s : LocksIn(s)' = LocksIn(s)
  BY <1>1 DEF LocksIn
<1>4. \A x : Needs(x)' = Needs(x)
  BY <1>2, <1>3 DEF Needs
<1>5. \A a : Nested(a)' = Nested(a)
  BY <1>1, <1>4 DEF Nested
<1>6. \A x, a, b : Guards(x, a, b)' = Guards(x, a, b)
  BY <1>4 DEF Guards, Opens, Shuts
<1>7. \A p, g : GuardedBy(p, g)' = GuardedBy(p, g)
  BY <1>5, <1>6 DEF GuardedBy, OpenAlong
<1> QED BY <1>7 DEF Sound, Kept, Turned, Turns, Leads, Works, Firm, In, Out

LEMMA RunSettles ==
    ASSUME AllPlaced, AllSettled, NEW t \in Tasks, NEW s, Ready(s), Run(s, t), UNCHANGED <<device, beat>>
    PROVE  AllSettled'
<1>1. PICK r : Ready(r) /\ todo' = [todo EXCEPT ![t] = r.todo] /\ stage' = [stage EXCEPT ![t] = r.stage]
  BY RunReady
<1> DEFINE p == r.todo
           sg == r.stage
<1>2. /\ Sound(p) /\ Halts(p, sg) /\ (beat => Firm(p) /\ sg \notin {"setup", "wire"})
      /\ todo' = [todo EXCEPT ![t] = p] /\ stage' = [stage EXCEPT ![t] = sg]
  BY <1>1 DEF Ready
<1> HIDE DEF p, sg
<1> SUFFICES ASSUME NEW u \in Tasks PROVE Settled(u)'
  BY DEF AllSettled
<1>3. todo = [v \in Tasks |-> todo[v]] /\ stage = [v \in Tasks |-> stage[v]]
  BY DEF AllPlaced
<1>4. \A q : Sound(q)' = Sound(q) /\ Firm(q)' = Firm(q)
  BY SoundStays
<1>5. CASE u = t
  <2>1. todo'[t] = p /\ stage'[t] = sg
    BY <1>2, <1>3
  <2> QED BY <1>2, <1>4, <1>5, <2>1 DEF Settled, Halts, AtConn
<1>6. CASE u # t
  <2>1. todo'[u] = todo[u] /\ stage'[u] = stage[u]
    BY <1>2, <1>3, <1>6
  <2>2. Settled(u)
    BY DEF AllSettled
  <2> QED BY <1>4, <2>1, <2>2 DEF Settled, Halts, AtConn
<1> QED BY <1>5, <1>6

\* Another stage of an operation of the connection.
LEMMA StageSettles ==
    ASSUME AllPlaced, AllSettled, NEW t \in Tasks, stage[t] \in AtConn, ~beat, NEW next \in AtConn,
           stage' = [stage EXCEPT ![t] = next], UNCHANGED <<todo, device, beat>>
    PROVE  AllSettled'
<1> SUFFICES ASSUME NEW u \in Tasks PROVE Settled(u)'
  BY DEF AllSettled
<1>1. Settled(u) /\ Settled(t)
  BY DEF AllSettled
<1>2. stage'[u] = stage[u] \/ (u = t /\ stage'[u] = next)
  BY DEF AllPlaced
<1>3. \A q : Sound(q)' = Sound(q)
  BY SoundStays
<1> QED BY <1>1, <1>2, <1>3 DEF Settled, Halts, AtConn

LEMMA OthersSettle ==
    ASSUME AllPlaced, AllSettled, UNCHANGED <<todo, stage, device>>, beat' => beat
    PROVE  AllSettled'
<1> SUFFICES ASSUME NEW u \in Tasks PROVE Settled(u)'
  BY DEF AllSettled
<1>1. Settled(u)
  BY DEF AllSettled
<1>2. \A q : Sound(q)' = Sound(q) /\ Firm(q)' = Firm(q)
  BY SoundStays
<1> QED BY <1>1, <1>2 DEF Settled, Halts, AtConn

LEMMA BeatSettles ==
    ASSUME AllPlaced, AllSettled, BeatStarts
    PROVE  AllSettled'
<1> SUFFICES ASSUME NEW u \in Tasks PROVE Settled(u)'
  BY DEF AllSettled
<1>1. Settled(u) /\ queue["conn"] = <<>> /\ ~Inside(u, "hold") /\ UNCHANGED <<todo, stage, device>>
  BY DEF AllSettled, BeatStarts, deviceVars
<1>2. stage[u] \notin {"setup", "wire"}
  BY <1>1, AtHead, EmptySeq
<1>3. Firm(todo[u])
  BY <1>1, FirmUnheld DEF Settled, Inside
<1>4. \A q : Sound(q)' = Sound(q) /\ Firm(q)' = Firm(q)
  BY <1>1, SoundStays
<1> QED BY <1>1, <1>2, <1>3, <1>4 DEF Settled, Halts, AtConn

LEMMA NowReady ==
    ASSUME AllSettled, NEW t \in Tasks, NEW up
    PROVE  /\ Ready(Now(t)) /\ Now(t).todo = todo[t] /\ Now(t).stage = "run"
           /\ ~beat => Ready(Left(t, up)) /\ Left(t, up).todo = todo[t] /\ Left(t, up).stage = "run"
<1>1. IsState(Now(t)) /\ Now(t).todo = todo[t] /\ Now(t).stage = "run"
  BY DEF Now, IsState
<1>2. IsState(Left(t, up)) /\ Left(t, up).todo = todo[t] /\ Left(t, up).stage = "run"
  BY LeftFields
<1>3. Settled(t)
  BY DEF AllSettled
<1> QED BY <1>1, <1>2, <1>3 DEF Ready, Settled, Halts, AtConn

LEMMA ThrownReady ==
    ASSUME AllSettled, NEW t \in Tasks, NEW up, NEW cancelled, cancelled \/ ~beat
    PROVE  Ready(Thrown(Left(t, up), t, cancelled))
<1> DEFINE p == todo[t]
           caught == {i \in 1 .. Len(p) : p[i] = Except}
           to == IF cancelled \/ caught = {} THEN Len(p) ELSE CHOOSE i \in caught : TRUE
           rest == SubSeq(p, to + 1, Len(p))
           s == Left(t, up)
           lines == [l \in Locks |-> IF l = "conn" \/ stage[t] = l \/ Free(l) \in Range(SubSeq(p, 1, to))
                                     THEN RemoveFirst(s.queue[l], t) ELSE s.queue[l]]
           r == Thrown(s, t, cancelled)
<1>1. Sound(p) /\ p \in Seq(Steps) /\ Len(p) \in Nat
  BY LenProperties DEF AllSettled, Settled, Sound, GuardedBy
<1>2. to \in 0 .. Len(p) /\ (cancelled => to = Len(p))
  <2>1. CASE cancelled \/ caught = {}
    <3>1. to = Len(p)
      BY <2>1
    <3> HIDE DEF to, p
    <3> QED BY <1>1, <3>1
  <2>2. CASE ~cancelled /\ caught # {}
    <3>1. to \in caught
      BY <2>2
    <3> HIDE DEF to, p
    <3> QED BY <1>1, <2>2, <3>1
  <2> QED BY <2>1, <2>2
<1>3. IsState(s) /\ s.todo = p /\ s.stage = "run"
  BY LeftFields
<1>4. r = [s EXCEPT !.todo = rest, !.queue = lines]
  <2> HIDE DEF s, p
  <2> QED BY <1>3, Zenon DEF Thrown, Caught
<1>5. Sound(rest)
  <2> HIDE DEF to, p
  <2> QED BY <1>1, <1>2, SoundSuffix
<1>6. cancelled => Firm(rest)
  <2> SUFFICES ASSUME cancelled PROVE Firm(rest)
    OBVIOUS
  <2> HIDE DEF to, p
  <2>1. Len(p) + 1 \in Int /\ Len(p) \in Int /\ Len(p) < Len(p) + 1 /\ to = Len(p)
    BY <1>1, <1>2
  <2>2. rest = <<>>
    BY <2>1, SubSeqEmpty
  <2> QED BY <2>2, SoundNothing
<1> HIDE DEF r, rest, lines, s
<1>7. IsState(r) /\ r.todo = rest /\ r.stage = "run"
  BY <1>3, <1>4 DEF IsState
<1>8. Ready(r)
  BY <1>5, <1>6, <1>7 DEF Ready, Halts, AtConn
<1> QED BY <1>8 DEF r, s

LEMMA StartSettles ==
    ASSUME AllPlaced, AllSettled, Profiled, NEW t \in Tasks, Start(t)
    PROVE  AllSettled'
<1>1. PICK body \in Bodies(method[t]) : Run([Now(t) EXCEPT !.todo = body], t)
  BY DEF Start
<1>2. method[t] \in Methods
  BY DeviceCallsAssumption DEF Profiled
<1>3. Sound(body) /\ Firm(body)
  BY <1>2, BodiesStand, StandsSound
<1> DEFINE n == Now(t)
           s == [n EXCEPT !.todo = body]
<1>4. Run(s, t) /\ s = [n EXCEPT !.todo = body] /\ IsState(n) /\ n.stage = "run" /\ UNCHANGED <<device, beat>>
  BY <1>1, NowReady DEF Ready, Start, linkVars
<1> HIDE DEF n, s
<1>5. IsState(s) /\ s.todo = body /\ s.stage = "run"
  BY <1>4 DEF IsState
<1>6. Ready(s)
  BY <1>3, <1>5 DEF Ready, Halts, AtConn
<1> QED BY <1>4, <1>6, RunSettles

LEMMA ResumingSettles ==
    ASSUME AllPlaced, AllSettled, NEW t \in Tasks, TakeLock(t) \/ PairingOver(t) \/ Loaded(t)
    PROVE  AllSettled'
<1> DEFINE n == Now(t)
<1>1. Ready(n) /\ n.todo = todo[t] /\ n.stage = "run"
  BY NowReady
<1>2. UNCHANGED <<device, beat>>
  BY DEF TakeLock, PairingOver, Loaded, Resumes, linkVars
<1>3. CASE TakeLock(t) \/ Loaded(t)
  <2>1. Run(Next1(n), t)
    BY <1>3 DEF TakeLock, Loaded, Resumes
  <2>2. todo[t] # <<>> /\ todo[t][1][1] \in {"lock", "load"}
    BY <1>3 DEF TakeLock, Loaded, AllPlaced, InPlace, AllSettled, Settled, Halts
  <2>3. ~Works(todo[t][1])
    BY <2>2 DEF Works
  <2> HIDE DEF n
  <2>4. Ready(Next1(n))
    BY <1>1, <2>2, <2>3, Next1Ready DEF Ready
  <2> QED BY <1>2, <2>1, <2>4, RunSettles
<1>4. CASE PairingOver(t)
  <2> DEFINE s == [n EXCEPT !.queue["pairing"] = Tail(@)]
  <2>1. Run(TakeCheck(s, t), t)
    BY <1>4 DEF PairingOver, Resumes
  <2>2. todo[t] # <<>> /\ todo[t][1][1] = "check"
    BY <1>4 DEF PairingOver, AllPlaced, InPlace
  <2>3. s = [n EXCEPT !.queue["pairing"] = Tail(@)] /\ IsState(n)
    BY <1>1 DEF Ready
  <2> HIDE DEF n, s
  <2>4. IsState(s) /\ s.todo = todo[t] /\ s.stage = "run"
    BY <1>1, <2>3 DEF IsState
  <2>5. Ready(s)
    BY <1>1, <2>4 DEF Ready
  <2>6. Ready(TakeCheck(s, t))
    BY <2>2, <2>4, <2>5, CheckReady
  <2> QED BY <1>2, <2>1, <2>6, RunSettles
<1> QED BY <1>3, <1>4

LEMMA ReturningSettles ==
    ASSUME AllPlaced, AllSettled, NEW t \in Tasks,
           Succeeds(t) \/ Connected(t) \/ ReleaseKeeps(t) \/ ReleaseEnds(t) \/ Fails(t) \/ Lost(t) \/ Disconnects(t)
    PROVE  AllSettled'
<1>1. UNCHANGED <<device, beat>>
  BY DEF Succeeds, Connected, ReleaseKeeps, ReleaseEnds, Fails, Lost, Disconnects, Returns, linkVars
<1>2. stage[t] \in {"setup", "wire"} \/ Turn(t)
  BY DEF Succeeds, Connected, ReleaseKeeps, ReleaseEnds, Fails, Lost, Disconnects
<1>3. ~beat /\ stage[t] \in AtConn
  BY <1>2 DEF Turn, AtConn, AllSettled, Settled
<1>4. ASSUME NEW up PROVE Ready(Left(t, up)) /\ Left(t, up).todo = todo[t] /\ Left(t, up).stage = "run"
  BY <1>3, NowReady
<1>5. CASE Fails(t) \/ Lost(t) \/ Disconnects(t)
  <2>1. PICK up : Run(Thrown(Left(t, up), t, FALSE), t)
    BY <1>5 DEF Fails, Lost, Disconnects, Returns
  <2> DEFINE s == Thrown(Left(t, up), t, FALSE)
  <2>2. Run(s, t) /\ Ready(s)
    BY <1>3, <2>1, ThrownReady
  <2> HIDE DEF s
  <2> QED BY <1>1, <2>2, RunSettles
<1>6. CASE Succeeds(t) \/ Connected(t) \/ ReleaseKeeps(t) \/ ReleaseEnds(t)
  <2>1. PICK up : Run(Next1(Left(t, up)), t)
    BY <1>6 DEF Succeeds, Connected, ReleaseKeeps, ReleaseEnds, Returns
  <2> DEFINE s == Left(t, up)
  <2>4. Ready(s) /\ s.todo = todo[t] /\ s.stage = "run"
    BY <1>4
  <2>2. todo[t] # <<>>
    BY <1>3 DEF AllSettled, Settled, Halts
  <2>5. Run(Next1(s), t)
    BY <2>1
  <2> HIDE DEF s
  <2>3. Ready(Next1(s))
    BY <1>3, <2>4, <2>2, Next1Ready DEF Ready
  <2> QED BY <1>1, <2>5, <2>3, RunSettles
<1> QED BY <1>5, <1>6

LEMMA CancelSettles ==
    ASSUME AllPlaced, AllSettled, NEW t \in Tasks, Cancel(t)
    PROVE  AllSettled'
<1>1. PICK up, rearm : Run([Thrown(Left(t, up), t, TRUE) EXCEPT !.pending = @ \/ rearm], t)
  BY DEF Cancel, Returns
<1> DEFINE s == Thrown(Left(t, up), t, TRUE)
<1>0. Run([s EXCEPT !.pending = @ \/ rearm], t)
  BY <1>1
<1>2. UNCHANGED <<device, beat>>
  BY DEF Cancel, Returns
<1>3. Ready(s)
  BY ThrownReady
<1> HIDE DEF s
<1> DEFINE flag == s.pending \/ rearm
           r == [s EXCEPT !.pending = flag]
<1>4. Run(r, t)
  BY <1>0
<1> HIDE DEF flag
<1>5. r = [s EXCEPT !.pending = flag] /\ IsState(s)
  BY <1>3 DEF Ready
<1> HIDE DEF r
<1>6. IsState(r) /\ r.todo = s.todo /\ r.stage = s.stage
  BY <1>5 DEF IsState
<1>7. Ready(r)
  BY <1>3, <1>6 DEF Ready
<1> QED BY <1>2, <1>4, <1>7, RunSettles

LEMMA AllSettledInit == Init => AllSettled
<1> SUFFICES ASSUME Init, NEW t \in Tasks PROVE Settled(t)
  BY DEF AllSettled
<1>1. todo[t] = <<>> /\ stage[t] = "idle" /\ ~beat
  BY DEF Init
<1> QED BY <1>1, SoundNothing DEF Settled, Halts, AtConn

LEMMA AllSettledNext ==
    ASSUME AllPlaced, AllSettled, Profiled, [Next]_vars
    PROVE  AllSettled'
<1>1. ASSUME NEW t \in Tasks, Start(t) PROVE AllSettled'
  BY <1>1, StartSettles
<1>2. ASSUME NEW t \in Tasks, TakeLock(t) \/ PairingOver(t) \/ Loaded(t) PROVE AllSettled'
  BY <1>2, ResumingSettles
<1>3. ASSUME NEW t \in Tasks,
             Succeeds(t) \/ Connected(t) \/ ReleaseKeeps(t) \/ ReleaseEnds(t) \/ Fails(t) \/ Lost(t) \/ Disconnects(t)
      PROVE  AllSettled'
  BY <1>3, ReturningSettles
<1>4. ASSUME NEW t \in Tasks, Cancel(t) PROVE AllSettled'
  BY <1>4, CancelSettles
<1>5. ASSUME NEW t \in Tasks, OpStarts(t) \/ SetUp(t) \/ CheckRefused(t) \/ Retry(t) \/ ReleaseDrops(t)
      PROVE  AllSettled'
  <2>1. (stage[t] \in {"setup", "wire"} \/ Turn(t)) /\ UNCHANGED <<todo, device, beat>>
    BY <1>5 DEF OpStarts, SetUp, CheckRefused, Retry, ReleaseDrops, linkVars
  <2>2. ~beat /\ stage[t] \in AtConn
    BY <2>1 DEF Turn, AtConn, AllSettled, Settled
  <2>3. \E next \in AtConn : stage' = [stage EXCEPT ![t] = next]
    BY <1>5, Zenon DEF OpStarts, SetUp, CheckRefused, Retry, ReleaseDrops, AtConn
  <2> QED BY <2>1, <2>2, <2>3, StageSettles
<1>6. ASSUME LinkDrops \/ BeatEnds \/ SetSecret \/ Finished \/ UNCHANGED vars PROVE AllSettled'
  <2>1. UNCHANGED <<todo, stage, device>> /\ (beat' => beat)
    BY <1>6 DEF LinkDrops, BeatEnds, SetSecret, Finished, vars, linkVars
  <2> QED BY <2>1, OthersSettle
<1>7. ASSUME BeatStarts PROVE AllSettled'
  BY <1>7, BeatSettles
<1> QED BY <1>1, <1>2, <1>3, <1>4, <1>5, <1>6, <1>7 DEF Next

-----------------------------------------------------------------------------
(* What must go out back to back.                                           *)

\* What is open to a call is its own: it is the first in line for its locks.
LEMMA OpenIsOwn ==
    ASSUME AllPlaced, NEW t \in Tasks, NEW g, GuardedBy(todo[t], g), NEW l, Lock(l) \in g[1]
    PROVE  l \in DeviceLocks /\ queue[l][1] = t
<1>1. Ordered(todo[t], HoldsOf(todo[t], stage[t], queue, t), Pairing(t))
  BY DEF AllPlaced, InPlace
<1>2. l \in HoldsOf(todo[t], stage[t], queue, t)
  BY <1>1, OpenIsHeld
<1> QED BY <1>2 DEF HoldsOf

\* A frame goes out under the locks it needs.
LEMMA WireHolds ==
    ASSUME AllPlaced, AllSettled, NEW u \in Tasks, OnWire(u)
    PROVE  /\ Asks(u) => queue["gate"][1] = u
           /\ ~Asks(u) /\ Frame(u) # "check" => \A l \in LocksFor(Frame(u)) : queue[l][1] = u
<1> DEFINE p == todo[u]
           x == Head(p)
<1>1. stage[u] = "wire" /\ p # <<>> /\ p[1][1] \in {"check", "write", "send", "query"} /\ Sound(p)
  BY DEF OnWire, AllSettled, Settled, Halts, AtConn
<1>2. PICK g : GuardedBy(p, g)
  BY <1>1 DEF Sound
<1>3. x = p[1] /\ Len(p) \in Nat \ {0}
  BY <1>1, TailSettles
<1>4. Needs(x) \subseteq g[1]
  <2>1. Guards(p[1], g[1], g[1 + 1])
    BY <1>2, <1>3 DEF GuardedBy
  <2> QED BY <1>3, <2>1 DEF Guards
<1>5. \A l : Lock(l) \in Needs(x) => queue[l][1] = u
  BY <1>2, <1>4, OpenIsOwn
<1>6. Asks(u) => Lock("gate") \in Needs(x)
  BY NeedsOf DEF Asks
<1>7. ASSUME ~Asks(u), Frame(u) # "check", NEW l \in LocksFor(Frame(u)) PROVE Lock(l) \in Needs(x)
  <2>1. x[1] # "check" /\ Frame(u) = x[2]
    BY <1>1, <1>7 DEF Frame
  <2>2. x[1] \in {"write", "send"}
    BY <1>1, <1>3, <1>7, <2>1 DEF Asks
  <2>3. Needs(x) = {Lock(k) : k \in LocksFor(x[2])}
    BY <2>2, NeedsOf
  <2> QED BY <1>7, <2>1, <2>3
<1> QED BY <1>5, <1>6, <1>7

\* A call inside a section has the locks it is made under.
LEMMA SectionHolds ==
    ASSUME AllPlaced, AllSettled, NEW t \in Tasks, NEW s \in {"scene", "pair", "bars", "taps"}, Inside(t, s)
    PROVE  (\A l \in LocksIn(s) : queue[l][1] = t) /\ (s = "bars" => Has("bars"))
<1> DEFINE p == todo[t]
<1>1. PICK g : GuardedBy(p, g)
  BY DEF AllSettled, Settled, Sound
<1>2. p \in Seq(Steps) /\ Len(p) \in Nat /\ DOMAIN p = 1 .. Len(p)
  BY <1>1, LenProperties DEF GuardedBy
<1>3. \A x : x \in Range(p) <=> \E i \in 1 .. Len(p) : p[i] = x
  BY <1>2 DEF Range
<1>4. In(s) \in g[1]
  <2>1. PICK j \in 1 .. Len(p) : p[j] = Out(s)
    BY <1>3 DEF Inside
  <2>2. \A i \in 1 .. Len(p) : p[i] # In(s)
    BY <1>3 DEF Inside
  <2> QED BY <1>1, <2>1, <2>2, InsideIsOpen
<1>5. Nested(g[1])
  <2>1. 1 \in 1 .. Len(p) + 1
    BY <1>2
  <2> QED BY <1>1, <2>1 DEF GuardedBy
<1>6. Needs(In(s)) = {Lock(l) : l \in LocksIn(s)}
  BY SectionSteps DEF Sections, Bracket
<1>7. \A l \in LocksIn(s) : Lock(l) \in g[1]
  BY <1>4, <1>5, <1>6 DEF Nested
<1>8. \A l \in LocksIn(s) : queue[l][1] = t
  BY <1>1, <1>7, OpenIsOwn
<1> QED BY <1>4, <1>5, <1>8 DEF Nested

LEMMA SettledUntorn ==
    ASSUME AllPlaced, AllSettled
    PROVE  Untorn
<1>1. ASSUME NEW t \in Tasks, Inside(t, "between"), beat PROVE FALSE
  <2> DEFINE p == todo[t]
  <2>1. Firm(p) /\ p \in Seq(Steps) /\ Len(p) \in Nat /\ DOMAIN p = 1 .. Len(p)
    BY <1>1, LenProperties DEF AllSettled, Settled, Sound, GuardedBy
  <2>2. \A x : x \in Range(p) <=> \E i \in 1 .. Len(p) : p[i] = x
    BY <2>1 DEF Range
  <2>3. PICK j \in 1 .. Len(p) : p[j] = Out("between")
    BY <1>1, <2>2 DEF Inside
  <2>4. PICK k \in 1 .. j : p[k] = In("between")
    BY <2>1, <2>3 DEF Firm, Turns, Leads
  <2>5. k \in 1 .. Len(p)
    BY <2>1
  <2> QED BY <1>1, <2>2, <2>4, <2>5 DEF Inside
<1>2. ASSUME NEW t \in Tasks, NEW s \in {"scene", "pair", "bars", "taps"}, NEW u \in Tasks \ {t}, Inside(t, s), OnWire(u)
      PROVE  IF Asks(u) THEN s # "scene" ELSE Frame(u) \notin Disturbs(s)
  <2>1. (\A l \in LocksIn(s) : queue[l][1] = t) /\ (s = "bars" => Has("bars"))
    BY <1>2, SectionHolds
  <2>2. /\ Asks(u) => queue["gate"][1] = u
        /\ ~Asks(u) /\ Frame(u) # "check" => \A l \in LocksFor(Frame(u)) : queue[l][1] = u
    BY <1>2, WireHolds
  <2>3. CASE Asks(u)
    <3>1. s = "scene" => "gate" \in LocksIn(s)
      BY DEF LocksIn
    <3> QED BY <2>1, <2>2, <2>3, <3>1
  <2>4. CASE ~Asks(u) /\ Frame(u) \in Disturbs(s)
    <3>1. Frame(u) # "check"
      BY <2>4 DEF Disturbs
    <3>2. \E l \in LocksIn(s) : l \in LocksFor(Frame(u))
      <4>1. CASE s = "scene"
        <5>1. "scene" \in LocksIn(s) /\ Frame(u) \in {"upload", "activate", "drop"}
          BY <2>4, <4>1 DEF LocksIn, Disturbs
        <5>2. "scene" \in LocksFor(Frame(u))
          BY <5>1 DEF LocksFor
        <5> QED BY <5>1, <5>2
      <4>2. CASE s = "pair"
        <5>1. Has("pair") /\ Frame(u) \in {"level", "kelvin+level", "all", "drop"}
          BY <2>4, <4>2 DEF Disturbs
        <5>2. "brightness" \in LocksIn(s) /\ "brightness" \in LocksFor(Frame(u))
          BY <4>2, <5>1 DEF LocksIn, LocksFor
        <5> QED BY <5>2
      <4>3. CASE s = "bars"
        <5>1. Has("bars") /\ Frame(u) \in {"bars", "power", "all", "activate", "drop"}
          BY <2>1, <2>4, <4>3 DEF Disturbs
        <5>2. "bar" \in LocksIn(s) /\ "bar" \in LocksFor(Frame(u))
          BY <4>3, <5>1 DEF LocksIn, LocksFor
        <5> QED BY <5>2
      <4>4. CASE s = "taps"
        <5>1. Frame(u) = "tap"
          BY <2>4, <4>4 DEF Disturbs
        <5>2. "tap" \in LocksIn(s) /\ "tap" \in LocksFor(Frame(u))
          BY <4>4, <5>1 DEF LocksIn, LocksFor
        <5> QED BY <5>2
      <4> QED BY <4>1, <4>2, <4>3, <4>4
    <3> QED BY <2>1, <2>2, <2>4, <3>1, <3>2
  <2> QED BY <2>3, <2>4
<1> QED BY <1>1, <1>2 DEF Untorn

\* Nothing lands inside what must go out back to back, whichever calls meet and however they end:
\* no heartbeat between two frames of a call that holds it back, and no frame of another call inside
\* an upload and its activation, the illumination pair, a bar read and the write built from it, or
\* two taps.
THEOREM CallsStayWhole == Spec => []Untorn
<1>1. Init => RInv /\ AllPlaced /\ Profiled /\ AllSettled
  BY RInvInit, AllPlacedInit, AllSettledInit DEF Init, Profiled
<1>2. RInv /\ AllPlaced /\ Profiled /\ AllSettled /\ [Next]_vars => (RInv /\ AllPlaced /\ Profiled /\ AllSettled)'
  BY RInvNext, AllPlacedNext, AllSettledNext
<1>3. AllPlaced /\ AllSettled => Untorn
  BY SettledUntorn
<1> QED BY <1>1, <1>2, <1>3, PTL DEF Spec

-----------------------------------------------------------------------------
(* Which frames a check goes ahead of.                                      *)

\* A command or a read; the others are written by the connection itself or before a secret matters.
Bare(x) == Works(x) /\ x[2] \notin {"tap", "connect", "drop"}
Halts1(x) == x[1] \in {"lock", "load", "except"}

\* The call goes on to such a frame before its next check.
Unchecked(p) == \E i \in 1 .. Len(p) : Bare(p[i]) /\ \A k \in 1 .. i : p[k][1] # "check"

\* After a lock, the scene list or a caught exception a check comes first.
Vetted(p) ==
    \A j, i \in 1 .. Len(p) : j < i /\ Halts1(p[j]) /\ Bare(p[i]) => \E k \in j .. i : p[k][1] = "check"
Wary(p) == p \in Seq(Steps) /\ Vetted(p) /\ ~Unchecked(p)

\* The check in p covers what follows p too.
Shields(p) == \E c \in 1 .. Len(p) : p[c][1] = "check" /\ \A j \in c .. Len(p) : ~Halts1(p[j])
Even(p) == \A j \in 1 .. Len(p) : ~Halts1(p[j])

LEMMA VettedBoth ==
    ASSUME NEW p \in Seq(Steps), NEW q \in Seq(Steps), Vetted(p), Vetted(q), ~Unchecked(q) \/ Shields(p) \/ Even(p)
    PROVE  Vetted(p \o q)
<1> DEFINE r == p \o q
           n == Len(p)
<1>1. /\ n \in Nat /\ Len(q) \in Nat /\ Len(r) = n + Len(q)
      /\ \A i \in 1 .. n : r[i] = p[i]
      /\ \A i \in 1 .. Len(q) : r[n + i] = q[i]
      /\ \A i \in 1 .. Len(r) : i \in 1 .. n \/ (i > n /\ i - n \in 1 .. Len(q) /\ r[i] = q[i - n])
  BY Joined
<1> HIDE DEF r
<1> SUFFICES ASSUME NEW j \in 1 .. Len(r), NEW i \in 1 .. Len(r), j < i, Halts1(r[j]), Bare(r[i])
             PROVE  \E k \in j .. i : r[k][1] = "check"
  BY DEF Vetted, r
<1>2. CASE i \in 1 .. n
  <2>1. j \in 1 .. n /\ r[j] = p[j] /\ r[i] = p[i]
    BY <1>1, <1>2
  <2>2. PICK k \in j .. i : p[k][1] = "check"
    BY <1>2, <2>1 DEF Vetted
  <2>3. r[k] = p[k]
    BY <1>1, <1>2, <2>2
  <2> QED BY <2>2, <2>3
<1>3. CASE j > n
  <2>1. i - n \in 1 .. Len(q) /\ j - n \in 1 .. Len(q) /\ j - n < i - n /\ r[i] = q[i - n] /\ r[j] = q[j - n]
    BY <1>1, <1>3
  <2>2. PICK k \in j - n .. i - n : q[k][1] = "check"
    BY <2>1 DEF Vetted
  <2>3. r[n + k] = q[k] /\ n + k \in j .. i
    BY <1>1, <2>1, <2>2
  <2> QED BY <2>2, <2>3
<1>4. CASE j \in 1 .. n /\ i > n
  <2>1. i - n \in 1 .. Len(q) /\ r[i] = q[i - n] /\ r[j] = p[j]
    BY <1>1, <1>4
  <2>2. CASE ~Unchecked(q)
    <3>1. PICK k \in 1 .. i - n : q[k][1] = "check"
      BY <2>1, <2>2 DEF Unchecked
    <3>2. r[n + k] = q[k] /\ n + k \in j .. i
      BY <1>1, <1>4, <2>1, <3>1
    <3> QED BY <3>1, <3>2
  <2>3. CASE Shields(p)
    <3>1. PICK c \in 1 .. n : p[c][1] = "check" /\ \A m \in c .. n : ~Halts1(p[m])
      BY <2>3 DEF Shields
    <3>2. j < c
      BY <1>1, <1>4, <2>1, <3>1
    <3>3. r[c] = p[c] /\ c \in j .. i
      BY <1>1, <1>4, <3>1, <3>2
    <3> QED BY <3>1, <3>3
  <2>4. CASE Even(p)
    BY <1>4, <2>1, <2>4 DEF Even
  <2> QED BY <2>2, <2>3, <2>4
<1> QED BY <1>1, <1>2, <1>3, <1>4

LEMMA CheckedBoth ==
    ASSUME NEW p \in Seq(Steps), NEW q \in Seq(Steps), ~Unchecked(p), ~Unchecked(q) \/ Shields(p)
    PROVE  ~Unchecked(p \o q)
<1> DEFINE r == p \o q
           n == Len(p)
<1>1. /\ n \in Nat /\ Len(q) \in Nat /\ Len(r) = n + Len(q)
      /\ \A i \in 1 .. n : r[i] = p[i]
      /\ \A i \in 1 .. Len(q) : r[n + i] = q[i]
      /\ \A i \in 1 .. Len(r) : i \in 1 .. n \/ (i > n /\ i - n \in 1 .. Len(q) /\ r[i] = q[i - n])
  BY Joined
<1> HIDE DEF r
<1> SUFFICES ASSUME NEW i \in 1 .. Len(r), Bare(r[i]) PROVE \E k \in 1 .. i : r[k][1] = "check"
  BY DEF Unchecked, r
<1>2. CASE i \in 1 .. n
  <2>1. PICK k \in 1 .. i : p[k][1] = "check"
    BY <1>1, <1>2 DEF Unchecked
  <2>2. k \in 1 .. n /\ r[k] = p[k]
    BY <1>1, <1>2, <2>1
  <2> QED BY <2>1, <2>2
<1>3. CASE i > n /\ ~Unchecked(q)
  <2>1. i - n \in 1 .. Len(q) /\ r[i] = q[i - n]
    BY <1>1, <1>3
  <2>2. PICK k \in 1 .. i - n : q[k][1] = "check"
    BY <1>3, <2>1 DEF Unchecked
  <2>3. r[n + k] = q[k] /\ n + k \in 1 .. i
    BY <1>1, <2>1, <2>2
  <2> QED BY <2>2, <2>3
<1>4. CASE i > n /\ Shields(p)
  <2>1. PICK c \in 1 .. n : p[c][1] = "check"
    BY <1>4 DEF Shields
  <2> QED BY <1>1, <1>4, <2>1
<1> QED BY <1>1, <1>2, <1>3, <1>4

LEMMA WaryBoth ==
    ASSUME NEW p, NEW q, Wary(p), Wary(q)
    PROVE  Wary(p \o q)
BY VettedBoth, CheckedBoth, Joined DEF Wary

LEMMA WaryShield ==
    ASSUME NEW p, NEW q \in Seq(Steps), Wary(p), Shields(p), Vetted(q)
    PROVE  Wary(p \o q)
BY VettedBoth, CheckedBoth, Joined DEF Wary

\* One step.
LEMMA WaryOne ==
    ASSUME NEW x \in Steps
    PROVE  /\ <<x>> \in Seq(Steps) /\ Vetted(<<x>>) /\ (~Bare(x) => Wary(<<x>>))
           /\ x[1] = "check" => Wary(<<x>>) /\ Shields(<<x>>)
           /\ ~Halts1(x) => Even(<<x>>)
<1> DEFINE p == <<x>>
<1>1. p \in Seq(Steps) /\ Len(p) = 1 /\ p[1] = x
  OBVIOUS
<1> HIDE DEF p
<1>2. \A i \in 1 .. Len(p) : i = 1
  BY <1>1
<1>3. Vetted(p)
  BY <1>2 DEF Vetted
<1>4. ~Bare(x) => ~Unchecked(p)
  BY <1>1, <1>2 DEF Unchecked
<1>5. x[1] = "check" => ~Bare(x) /\ Shields(p)
  BY <1>1, <1>2 DEF Shields, Bare, Works, Halts1
<1>6. ~Halts1(x) => Even(p)
  BY <1>1, <1>2 DEF Even
<1>7. p \in Seq(Steps) /\ Vetted(p) /\ (~Bare(x) => Wary(p)) /\ (x[1] = "check" => Wary(p) /\ Shields(p)) /\ (~Halts1(x) => Even(p))
  BY <1>1, <1>3, <1>4, <1>5, <1>6 DEF Wary
<1> QED BY <1>7 DEF p

LEMMA WaryNothing == Wary(<<>>) /\ Vetted(<<>>) /\ Even(<<>>)
<1>1. Len(<<>>) = 0 /\ <<>> \in Seq(Steps)
  OBVIOUS
<1> QED BY <1>1 DEF Wary, Vetted, Unchecked, Even

LEMMA EvenBoth ==
    ASSUME NEW p \in Seq(Steps), NEW q \in Seq(Steps), Even(q)
    PROVE  (Even(p) => Even(p \o q)) /\ (Shields(p) => Shields(p \o q))
<1> DEFINE r == p \o q
           n == Len(p)
<1>1. /\ n \in Nat /\ Len(q) \in Nat /\ Len(r) = n + Len(q)
      /\ \A i \in 1 .. n : i \in 1 .. Len(r) /\ r[i] = p[i]
      /\ \A i \in 1 .. Len(r) : i \in 1 .. n \/ (i > n /\ i - n \in 1 .. Len(q) /\ r[i] = q[i - n])
  BY Joined
<1> HIDE DEF r
<1>2. \A i \in 1 .. Len(r) : i > n => ~Halts1(r[i])
  BY <1>1 DEF Even
<1>3. Even(p) => Even(r)
  BY <1>1, <1>2 DEF Even
<1>4. ASSUME Shields(p) PROVE Shields(r)
  <2>1. PICK c \in 1 .. n : p[c][1] = "check" /\ \A j \in c .. n : ~Halts1(p[j])
    BY <1>4 DEF Shields
  <2>2. c \in 1 .. Len(r) /\ r[c][1] = "check"
    BY <1>1, <2>1
  <2>3. \A j \in c .. Len(r) : ~Halts1(r[j])
    BY <1>1, <1>2, <2>1
  <2> QED BY <2>2, <2>3 DEF Shields
<1> QED BY <1>3, <1>4 DEF r

\* The steps the bodies are made of.
LEMMA WarySteps ==
    /\ \A l \in DeviceLocks : Wary(<<Lock(l)>>) /\ Wary(<<Free(l)>>) /\ Even(<<Free(l)>>)
    /\ \A s \in Sections : Wary(<<In(s)>>) /\ Wary(<<Out(s)>>) /\ Even(<<In(s)>>)
    /\ \A f \in {"tap", "connect", "drop"} : Wary(<<Send(f)>>)
    /\ \A f \in Names : /\ Vetted(<<Write(f)>>) /\ Even(<<Write(f)>>) /\ <<Write(f)>> \in Seq(Steps)
                        /\ Vetted(<<Send(f)>>) /\ Even(<<Send(f)>>) /\ <<Send(f)>> \in Seq(Steps)
                        /\ Vetted(<<Query(f)>>) /\ Even(<<Query(f)>>) /\ <<Query(f)>> \in Seq(Steps)
    /\ Wary(<<Load>>) /\ Wary(<<Except>>)
    /\ Wary(<<Check>>) /\ Shields(<<Check>>) /\ Wary(<<CheckFor>>) /\ Shields(<<CheckFor>>)
<1>1. ASSUME NEW l \in DeviceLocks
      PROVE  /\ Lock(l) \in Steps /\ ~Bare(Lock(l))
             /\ Free(l) \in Steps /\ ~Bare(Free(l)) /\ ~Halts1(Free(l))
  BY DEF Lock, Free, Steps, Bare, Works, Halts1
<1>2. ASSUME NEW s \in Sections
      PROVE  /\ In(s) \in Steps /\ ~Bare(In(s)) /\ ~Halts1(In(s))
             /\ Out(s) \in Steps /\ ~Bare(Out(s))
  BY DEF In, Out, Steps, Sections, DeviceLocks, Bare, Works, Halts1
<1>3. ASSUME NEW f \in Names
      PROVE  /\ Write(f) \in Steps /\ ~Halts1(Write(f)) /\ Send(f) \in Steps /\ ~Halts1(Send(f))
             /\ Query(f) \in Steps /\ ~Halts1(Query(f))
  BY DEF Names, Steps, Write, Send, Query, DeviceLocks, Halts1
<1>4. ASSUME NEW f \in {"tap", "connect", "drop"} PROVE Send(f) \in Steps /\ ~Bare(Send(f))
  BY <1>3 DEF Names, Send, Bare
<1>5. /\ Load \in Steps /\ ~Bare(Load) /\ Check \in Steps /\ Check[1] = "check"
      /\ CheckFor \in Steps /\ CheckFor[1] = "check" /\ Except \in Steps /\ ~Bare(Except)
  BY DEF Steps, Load, Check, CheckFor, Except, Bare, Works
<1>6. \A l \in DeviceLocks : Wary(<<Lock(l)>>) /\ Wary(<<Free(l)>>) /\ Even(<<Free(l)>>)
  BY <1>1, WaryOne
<1>7. \A s \in Sections : Wary(<<In(s)>>) /\ Wary(<<Out(s)>>) /\ Even(<<In(s)>>)
  BY <1>2, WaryOne
<1>8. \A f \in {"tap", "connect", "drop"} : Wary(<<Send(f)>>)
  BY <1>4, WaryOne
<1>9. \A f \in Names : /\ Vetted(<<Write(f)>>) /\ Even(<<Write(f)>>) /\ <<Write(f)>> \in Seq(Steps)
                       /\ Vetted(<<Send(f)>>) /\ Even(<<Send(f)>>) /\ <<Send(f)>> \in Seq(Steps)
                       /\ Vetted(<<Query(f)>>) /\ Even(<<Query(f)>>) /\ <<Query(f)>> \in Seq(Steps)
  BY <1>3, WaryOne
<1>10. /\ Wary(<<Load>>) /\ Wary(<<Except>>)
       /\ Wary(<<Check>>) /\ Shields(<<Check>>) /\ Wary(<<CheckFor>>) /\ Shields(<<CheckFor>>)
  BY <1>5, WaryOne
<1> QED BY <1>6, <1>7, <1>8, <1>9, <1>10

\* The shapes the bodies are put together from.
LEMMA WaryUnder ==
    ASSUME NEW l \in DeviceLocks, NEW p, Wary(p)
    PROVE  Wary(Under(l, p))
BY WarySteps, WaryBoth DEF Under

LEMMA WaryIn ==
    ASSUME NEW s \in Sections, NEW p, Wary(p)
    PROVE  Wary(<<In(s)>> \o p \o <<Out(s)>>)
BY WarySteps, WaryBoth

LEMMA WaryThen ==
    ASSUME NEW p, NEW q, Wary(p), Wary(q)
    PROVE  Wary(Then(p, q))
<1>1. Wary(p \o q)
  BY WaryBoth
<1>2. Wary(p \o <<In("between")>> \o q \o <<Out("between")>>)
  BY WarySteps, WaryBoth DEF Sections
<1> QED BY <1>1, <1>2 DEF Then

LEMMA WaryHolding ==
    ASSUME NEW p, Wary(p)
    PROVE  Wary(HoldingHeartbeat(p))
BY WaryIn DEF HoldingHeartbeat, Sections

LEMMA WaryLocks ==
    ASSUME NEW p, Wary(p)
    PROVE  Wary(InBrightnessLock(p)) /\ Wary(InZonePowerLock(p))
<1>1. "brightness" \in DeviceLocks /\ "bar" \in DeviceLocks
  BY DEF DeviceLocks
<1> QED BY <1>1, WaryUnder DEF InBrightnessLock, InZonePowerLock, UnderIf

LEMMA WaryParts ==
    ASSUME NEW f \in Names
    PROVE  /\ Wary(Commit(f)) /\ Wary(Reading(f)) /\ Shields(Reading(f))
           /\ \A p \in MaybeReading(f) : Wary(p)
<1>1. "tap" \in DeviceLocks /\ "gate" \in DeviceLocks
  BY DEF DeviceLocks
<1>2. Wary(Under("tap", <<Send("tap")>>))
  BY <1>1, WarySteps, WaryUnder
<1>3. Wary(<<CheckFor, Write(f)>>)
  <2>1. Wary(<<CheckFor>> \o <<Write(f)>>)
    BY WarySteps, WaryShield
  <2> QED BY <2>1, TwoSteps
<1>4. Wary(<<Check, Query(f)>>) /\ Shields(<<Check, Query(f)>>)
  <2>1. Wary(<<Check>> \o <<Query(f)>>) /\ Shields(<<Check>> \o <<Query(f)>>)
    BY WarySteps, WaryShield, EvenBoth DEF Wary
  <2> QED BY <2>1, TwoSteps
<1>5. Wary(Reading(f))
  BY <1>1, <1>4, WaryUnder DEF Reading
<1>6. Shields(Reading(f))
  <2> DEFINE q == <<Check, Query(f)>>
             a == <<Lock("gate")>>
             b == <<Free("gate")>>
             w == q \o b
  <2>1. q \in Seq(Steps) /\ a \in Seq(Steps) /\ b \in Seq(Steps) /\ Even(b) /\ Reading(f) = a \o q \o b
    BY <1>1, <1>4, WarySteps DEF Wary, Reading, Under
  <2>2. Shields(q)
    BY <1>4
  <2> HIDE DEF q, a, b
  <2>3. Shields(a \o q)
    <3>1. PICK c \in 1 .. Len(q) : q[c][1] = "check" /\ \A j \in c .. Len(q) : ~Halts1(q[j])
      BY <2>2 DEF Shields
    <3> DEFINE n == Len(a)
               r == a \o q
    <3>2. /\ n \in Nat /\ Len(q) \in Nat /\ Len(r) = n + Len(q)
          /\ \A i \in 1 .. Len(q) : r[n + i] = q[i]
      BY <2>1, Joined
    <3> HIDE DEF n, r
    <3>3. n + c \in 1 .. Len(r) /\ r[n + c][1] = "check"
      BY <3>1, <3>2
    <3>4. ASSUME NEW j \in n + c .. Len(r) PROVE ~Halts1(r[j])
      <4>1. j - n \in c .. Len(q) /\ n + (j - n) = j /\ j - n \in 1 .. Len(q)
        BY <3>1, <3>2, <3>4
      <4> QED BY <3>1, <3>2, <4>1
    <3> QED BY <3>3, <3>4 DEF Shields, r
  <2> DEFINE r == a \o q
  <2>4. r \in Seq(Steps)
    BY <2>1, Joined
  <2> HIDE DEF r
  <2>5. Shields(r \o b)
    BY <2>1, <2>3, <2>4, EvenBoth DEF r
  <2> QED BY <2>1, <2>5 DEF r
<1> QED BY <1>2, <1>3, <1>5, <1>6, WaryNothing DEF Commit, MaybeReading

LEMMA WaryResync == Wary(ResyncAfterPower)
<1> DEFINE a == Reading("version")
           b == <<Send("sync"), Except>>
<1>1. Wary(a) /\ Shields(a) /\ "sync" \in Names
  BY WaryParts DEF Names
<1>2. b \in Seq(Steps) /\ Vetted(b)
  <2>1. Vetted(<<Send("sync")>> \o <<Except>>) /\ <<Send("sync")>> \o <<Except>> \in Seq(Steps)
    BY <1>1, WarySteps, VettedBoth, Joined DEF Wary
  <2> QED BY <2>1, TwoSteps
<1> HIDE DEF a, b
<1>3. Wary(a \o b)
  BY <1>1, <1>2, WaryShield
<1> QED BY <1>3, WaryNothing DEF ResyncAfterPower, a, b

LEMMA WaryCounts ==
    /\ \A p \in EnsureSegmentCount : Wary(p)
    /\ \A p \in HeldBrightness : Wary(p)
<1>1. "segments" \in Names /\ "level" \in Names
  BY DEF Names
<1> QED BY <1>1, WaryParts, WaryNothing DEF EnsureSegmentCount, HeldBrightness

LEMMA WaryTaps ==
    ASSUME NEW both \in BOOLEAN
    PROVE  Wary(TurnOnTaps(both))
<1> DEFINE first == IF both THEN <<Send("tap")>> ELSE <<>>
<1>1. Wary(<<In("taps")>>) /\ Wary(<<Send("tap")>>) /\ Wary(<<Out("taps")>>) /\ Wary(first) /\ "tap" \in DeviceLocks
  BY WarySteps, WaryNothing DEF Sections, DeviceLocks
<1>2. Wary(<<Send("tap"), Out("taps")>>)
  <2>1. Wary(<<Send("tap")>> \o <<Out("taps")>>)
    BY <1>1, WaryBoth
  <2> QED BY <2>1, TwoSteps
<1> HIDE DEF first
<1>3. Wary(<<In("taps")>> \o first \o <<Send("tap"), Out("taps")>>)
  BY <1>1, <1>2, WaryBoth
<1> QED BY <1>1, <1>3, WaryUnder DEF TurnOnTaps, first

LEMMA WaryBodies ==
    ASSUME NEW m \in Methods \ {"setSceneByName"}, NEW body \in Bodies(m)
    PROVE  Wary(body)
<1>0. /\ {"power", "all", "level", "colour", "kelvin+level", "zone", "bars", "activate", "state", "colours", "secret"}
            \subseteq Names
      /\ {"scene", "brightness", "bar", "gate", "pairing"} \subseteq DeviceLocks
      /\ "pair" \in Sections /\ "bars" \in Sections
  BY DEF Names, DeviceLocks, Sections
<1>1. CASE m = "setPower"
  <2>1. Wary(InZonePowerLock(Commit("power")))
    BY <1>0, WaryParts, WaryLocks
  <2>2. body = SetPower
    BY <1>1 DEF Bodies
  <2> QED BY <2>1, <2>2, WaryResync, WaryThen, WaryHolding DEF SetPower
<1>2. CASE m = "turnOn"
  <2>1. body \in TurnOn
    BY <1>2 DEF Bodies
  <2>2. CASE Has("perCommand")
    <3>1. body = TurnOnTaps(TRUE)
      BY <2>1, <2>2 DEF TurnOn
    <3> QED BY <3>1, WaryTaps
  <2>3. CASE ~Has("perCommand")
    <3> DEFINE Whole(count, level) == Then(count,
                 <<In("pair")>> \o Then(level, InZonePowerLock(Commit("all"))) \o <<Out("pair")>> \o ResyncAfterPower)
    <3>1. PICK count \in EnsureSegmentCount, level \in HeldBrightness :
               body = InBrightnessLock(HoldingHeartbeat(Whole(count, level)))
      BY <2>1, <2>3 DEF TurnOn
    <3>2. Wary(count) /\ Wary(level) /\ Wary(InZonePowerLock(Commit("all")))
      BY <1>0, WaryCounts, WaryParts, WaryLocks
    <3>3. Wary(<<In("pair")>> \o Then(level, InZonePowerLock(Commit("all"))) \o <<Out("pair")>>)
      BY <1>0, <3>2, WaryThen, WaryIn
    <3>4. Wary(Whole(count, level))
      BY <3>2, <3>3, WaryResync, WaryBoth, WaryThen
    <3> HIDE DEF Whole
    <3> QED BY <3>1, <3>4, WaryHolding, WaryLocks
  <2> QED BY <2>2, <2>3
<1>3. CASE m = "setBrightness"
  BY <1>0, <1>3, WaryTaps, WaryParts, WaryLocks DEF Bodies, SetBrightness
<1>4. CASE m = "setRgb"
  <2>1. PICK count \in EnsureSegmentCount : body = HoldingHeartbeat(Then(count, Commit("colour")))
    BY <1>4 DEF Bodies, SetRgb
  <2> QED BY <1>0, <2>1, WaryCounts, WaryParts, WaryThen, WaryHolding
<1>5. CASE m = "setColorTemp"
  <2> DEFINE f == IF Has("pair") THEN "kelvin+level" ELSE "colour"
             Whole(count, level) == Then(count, <<In("pair")>> \o Then(level, Commit(f)) \o <<Out("pair")>>)
  <2>1. PICK count \in EnsureSegmentCount, level \in HeldBrightness :
             body = InBrightnessLock(HoldingHeartbeat(Whole(count, level)))
    BY <1>5 DEF Bodies, SetColorTemp
  <2>2. f \in Names
    BY <1>0
  <2> HIDE DEF f
  <2>3. Wary(count) /\ Wary(level) /\ Wary(Commit(f))
    BY <2>2, WaryCounts, WaryParts
  <2>4. Wary(<<In("pair")>> \o Then(level, Commit(f)) \o <<Out("pair")>>)
    BY <1>0, <2>3, WaryThen, WaryIn
  <2>5. Wary(Whole(count, level))
    BY <2>3, <2>4, WaryThen
  <2> HIDE DEF Whole
  <2> QED BY <2>1, <2>5, WaryHolding, WaryLocks
<1>6. CASE m = "setZonePower"
  <2>1. CASE ~Has("bars")
    BY <1>0, <1>6, <2>1, WaryParts DEF Bodies, SetZonePower
  <2>2. CASE Has("bars")
    <3>1. PICK read \in BarReads :
               body = Under("bar", HoldingHeartbeat(<<In("bars")>> \o Then(read, Commit("bars")) \o <<Out("bars")>>))
      BY <1>6, <2>2 DEF Bodies, SetZonePower
    <3>2. Wary(Reading("bars")) /\ Wary(Commit("bars")) /\ Wary(<<Send("connect")>>) /\ Wary(<<Except>>)
      BY <1>0, WaryParts, WarySteps
    <3>3. Wary(<<Send("connect")>> \o Reading("bars") \o <<Except>>)
      BY <3>2, WaryBoth
    <3>4. Wary(read)
      BY <3>2, <3>3, WaryNothing DEF BarReads
    <3>5. Wary(<<In("bars")>> \o Then(read, Commit("bars")) \o <<Out("bars")>>)
      BY <1>0, <3>2, <3>4, WaryThen, WaryIn
    <3> QED BY <1>0, <3>1, <3>5, WaryHolding, WaryUnder
  <2> QED BY <2>1, <2>2
<1>7. CASE m = "setScene"
  BY <1>0, <1>7, WaryParts, WaryLocks, WaryUnder DEF Bodies, SetScene
<1>8. CASE m = "update"
  <2>1. Wary(<<Check, Load>>)
    <3>1. Wary(<<Check>> \o <<Load>>)
      BY WarySteps, WaryBoth
    <3> QED BY <3>1, TwoSteps
  <2>2. Wary(Then(Reading("state"), Reading("colours")))
    BY <1>0, WaryParts, WaryThen
  <2>3. Wary(Update)
    BY <2>1, <2>2, WaryBoth, WaryHolding DEF Update
  <2> QED BY <1>8, <2>3, WaryNothing DEF Bodies
<1>9. CASE m = "readSecret"
  <2>1. Wary(<<Check, Query("secret")>>)
    <3>1. Wary(<<Check>> \o <<Query("secret")>>)
      BY <1>0, WarySteps, WaryShield
    <3> QED BY <3>1, TwoSteps
  <2> QED BY <1>0, <1>9, <2>1, WaryUnder DEF Bodies, PairingRead
<1>10. CASE m = "connect"
  <2>1. Wary(<<Check, Send("connect")>>)
    <3>1. Wary(<<Check>> \o <<Send("connect")>>)
      BY WarySteps, WaryBoth
    <3> QED BY <3>1, TwoSteps
  <2> QED BY <1>10, <2>1, WaryNothing DEF Bodies
<1>11. CASE m = "release"
  <2>1. Wary(<<Send("drop")>>) /\ body = Release
    BY <1>11, WarySteps DEF Bodies
  <2> QED BY <1>0, <2>1, WaryUnder DEF Release
<1> QED BY <1>1, <1>2, <1>3, <1>4, <1>5, <1>6, <1>7, <1>8, <1>9, <1>10, <1>11 DEF Methods

\* An upload goes out under the check of its activation.
LEMMA WaryScenes ==
    ASSUME NEW body \in SetSceneByName
    PROVE  Wary(body)
<1>0. /\ {"activate", "version", "upload", "power"} \subseteq Names
      /\ {"scene", "gate"} \subseteq DeviceLocks /\ "scene" \in Sections /\ "between" \in Sections
  BY DEF Names, DeviceLocks, Sections
<1> DEFINE Frames(upload) == <<CheckFor, In("scene")>> \o Then(upload, Commit("activate")) \o <<Out("scene")>>
<1>1. PICK version \in MaybeReading("version"), upload \in SceneUploads :
           body = Under("scene", version \o <<Load>> \o InZonePowerLock(Under("gate", HoldingHeartbeat(Frames(upload)))))
  BY DEF SetSceneByName
<1>2. Even(upload) /\ Vetted(upload) /\ upload \in Seq(Steps)
  <2>1. ASSUME NEW f \in Names PROVE Even(<<Send(f)>>) /\ Vetted(<<Send(f)>>) /\ <<Send(f)>> \in Seq(Steps)
    BY WarySteps
  <2>2. /\ Even(<<Send("power")>> \o <<Send("upload")>>) /\ Vetted(<<Send("power")>> \o <<Send("upload")>>)
        /\ <<Send("power")>> \o <<Send("upload")>> \in Seq(Steps)
    BY <1>0, <2>1, EvenBoth, VettedBoth, Joined
  <2>3. <<Send("power")>> \o <<Send("upload")>> = <<Send("power"), Send("upload")>>
    BY TwoSteps
  <2> QED BY <1>0, <2>1, <2>2, <2>3, WaryNothing DEF SceneUploads, Wary
<1> DEFINE w == Then(upload, Commit("activate"))
           c == Commit("activate")
           i == <<In("between")>>
           o == <<Out("between")>>
<1>3. Wary(c) /\ Wary(i) /\ Even(i) /\ Wary(o)
  BY <1>0, WaryParts, WarySteps
<1>4. Vetted(w) /\ w \in Seq(Steps)
  <2>1. w = IF upload = <<>> \/ c = <<>> THEN upload \o c ELSE ((upload \o i) \o c) \o o
    BY DEF Then
  <2> HIDE DEF w, c, i, o
  <2>2. Vetted(upload \o c) /\ upload \o c \in Seq(Steps)
    BY <1>2, <1>3, VettedBoth, Joined DEF Wary
  <2>3. Vetted(upload \o i) /\ upload \o i \in Seq(Steps)
    BY <1>2, <1>3, VettedBoth, Joined DEF Wary
  <2>4. Vetted((upload \o i) \o c) /\ (upload \o i) \o c \in Seq(Steps)
    BY <1>3, <2>3, VettedBoth, Joined DEF Wary
  <2>5. Vetted(((upload \o i) \o c) \o o) /\ ((upload \o i) \o c) \o o \in Seq(Steps)
    BY <1>3, <2>4, VettedBoth, Joined DEF Wary
  <2> QED BY <2>1, <2>2, <2>5
<1>5. Wary(<<CheckFor, In("scene")>>) /\ Shields(<<CheckFor, In("scene")>>)
  <2>1. Wary(<<CheckFor>> \o <<In("scene")>>) /\ Shields(<<CheckFor>> \o <<In("scene")>>)
    BY <1>0, WarySteps, WaryBoth, EvenBoth DEF Wary
  <2> QED BY <2>1, TwoSteps
<1>6. Wary(<<Out("scene")>>) /\ Wary(<<Load>>) /\ Wary(version)
  BY <1>0, WarySteps, WaryParts
<1>7. Wary(Frames(upload))
  <2>1. Frames(upload) = (<<CheckFor, In("scene")>> \o w) \o <<Out("scene")>>
    OBVIOUS
  <2> HIDE DEF w, Frames
  <2>2. Wary(<<CheckFor, In("scene")>> \o w)
    BY <1>4, <1>5, WaryShield
  <2> QED BY <1>6, <2>1, <2>2, WaryBoth
<1> HIDE DEF Frames
<1>8. Wary(InZonePowerLock(Under("gate", HoldingHeartbeat(Frames(upload)))))
  BY <1>0, <1>7, WaryHolding, WaryUnder, WaryLocks
<1> QED BY <1>0, <1>1, <1>6, <1>8, WaryBoth, WaryUnder

\* Every body sends its frames behind a check.
LEMMA BodiesWary ==
    ASSUME NEW m \in Methods, NEW body \in Bodies(m)
    PROVE  Wary(body)
<1>1. CASE m = "setSceneByName"
  BY <1>1, WaryScenes DEF Bodies
<1> QED BY <1>1, WaryBodies

-----------------------------------------------------------------------------
(* A call on its way to its next await.                                     *)

LEMMA VettedSuffix ==
    ASSUME NEW p \in Seq(Steps), Vetted(p), NEW e \in 0 .. Len(p)
    PROVE  LET q == SubSeq(p, e + 1, Len(p))
           IN  q \in Seq(Steps) /\ Vetted(q) /\ (e > 0 /\ Halts1(p[e]) => ~Unchecked(q))
<1> DEFINE q == SubSeq(p, e + 1, Len(p))
<1>1. /\ q \in Seq(Steps) /\ Len(q) = Len(p) - e /\ Len(p) \in Nat
      /\ \A i \in 1 .. Len(p) - e : q[i] = p[i + e] /\ i + e \in 1 .. Len(p)
  BY Suffix
<1> HIDE DEF q
<1>2. ASSUME NEW j \in 1 .. Len(q), NEW i \in 1 .. Len(q), j < i, Halts1(q[j]), Bare(q[i])
      PROVE  \E k \in j .. i : q[k][1] = "check"
  <2>1. Halts1(p[j + e]) /\ Bare(p[i + e]) /\ j + e \in 1 .. Len(p) /\ i + e \in 1 .. Len(p) /\ j + e < i + e
    BY <1>1, <1>2
  <2>2. PICK k \in j + e .. i + e : p[k][1] = "check"
    BY <2>1 DEF Vetted
  <2>3. k - e \in j .. i /\ k - e \in 1 .. Len(p) - e /\ (k - e) + e = k
    BY <1>1, <2>2
  <2> QED BY <1>1, <2>2, <2>3
<1>3. ASSUME e > 0, Halts1(p[e]), NEW i \in 1 .. Len(q), Bare(q[i]) PROVE \E k \in 1 .. i : q[k][1] = "check"
  <2>1. e \in 1 .. Len(p) /\ i + e \in 1 .. Len(p) /\ e < i + e /\ Bare(p[i + e])
    BY <1>1, <1>3
  <2>2. PICK k \in e .. i + e : p[k][1] = "check"
    BY <1>3, <2>1 DEF Vetted
  <2>3. k # e
    BY <1>3, <2>2 DEF Halts1
  <2>4. k - e \in 1 .. i /\ k - e \in 1 .. Len(p) - e /\ (k - e) + e = k
    BY <1>1, <2>2, <2>3
  <2> QED BY <1>1, <2>2, <2>4
<1> QED BY <1>1, <1>2, <1>3 DEF Vetted, Unchecked, q

LEMMA VettedOn ==
    ASSUME NEW p \in Seq(Steps), p # <<>>, Vetted(p)
    PROVE  /\ Tail(p) \in Seq(Steps) /\ Vetted(Tail(p))
           /\ Head(p)[1] # "check" /\ Unchecked(Tail(p)) => Unchecked(p)
           /\ Head(p)[1] \in {"check", "lock", "load", "except"} => ~Unchecked(p)
<1>1. Len(p) \in Nat \ {0} /\ Head(p) = p[1] /\ 1 \in 0 .. Len(p)
  BY LenProperties, EmptySeq, HeadTailProperties
<1> DEFINE e == 1
<1>2. Tail(p) = SubSeq(p, e + 1, Len(p)) /\ e \in 0 .. Len(p)
  BY <1>1, TailIsSubSeq
<1> HIDE DEF e
<1>3. Tail(p) \in Seq(Steps) /\ Vetted(Tail(p))
  BY <1>2, VettedSuffix
<1>4. ASSUME Head(p)[1] # "check", Unchecked(Tail(p)) PROVE Unchecked(p)
  <2> DEFINE q == Tail(p)
  <2>1. Len(q) = Len(p) - 1 /\ \A i \in 1 .. Len(p) - 1 : q[i] = p[i + 1]
    BY <1>1, HeadTailProperties
  <2> HIDE DEF q
  <2>2. PICK i \in 1 .. Len(q) : Bare(q[i]) /\ \A k \in 1 .. i : q[k][1] # "check"
    BY <1>4 DEF Unchecked, q
  <2>3. i + 1 \in 1 .. Len(p) /\ Bare(p[i + 1])
    BY <1>1, <2>1, <2>2
  <2>4. ASSUME NEW k \in 1 .. i + 1 PROVE p[k][1] # "check"
    <3>1. CASE k = 1
      BY <1>1, <1>4, <3>1
    <3>2. CASE k > 1
      <4>1. k - 1 \in 1 .. i /\ k - 1 \in 1 .. Len(p) - 1 /\ (k - 1) + 1 = k
        BY <1>1, <2>1, <2>2, <3>2
      <4> QED BY <2>1, <2>2, <4>1
    <3> QED BY <3>1, <3>2
  <2> QED BY <2>3, <2>4 DEF Unchecked
<1>5. ASSUME Head(p)[1] \in {"check", "lock", "load", "except"}, NEW i \in 1 .. Len(p), Bare(p[i])
      PROVE  \E k \in 1 .. i : p[k][1] = "check"
  <2>1. i # 1
    BY <1>1, <1>5 DEF Bare, Works
  <2>2. CASE p[1][1] = "check"
    BY <1>1, <2>2
  <2>3. CASE Halts1(p[1])
    BY <1>1, <1>5, <2>1, <2>3 DEF Vetted
  <2> QED BY <1>1, <1>5, <2>2, <2>3 DEF Halts1
<1> QED BY <1>3, <1>4, <1>5 DEF Unchecked

\* A check can be sent: there is a secret, or the profile checks none.
CanCheck == Has("secret") /\ (secret > 0 \/ Has("emptyCheck"))

\* u is in line to send the check of the secret in force.
Carries(u) == stage[u] = "queued" /\ todo[u] # <<>> /\ Head(todo[u])[1] = "check" /\ taken[u] = secret

\* t, from the state s on: a check that is owed is pending or in line, and if t goes on without one it is excused.
StillOwed(s) == owed /\ s.up > 0
QueuesCheck(s) == s.stage = "queued" /\ Head(s.todo)[1] = "check"
Checked(s, t) ==
    /\ IsState(s) /\ s.todo \in Seq(Steps) /\ Vetted(s.todo)
    /\ s.stage \notin {"setup", "wire", "refused"}
    /\ Unchecked(s.todo) => s.stage \in {"run", "queued"}
    /\ s.stage = "queued" => s.todo # <<>>
    /\ s.pending => CanCheck
    /\ QueuesCheck(s) => CanCheck /\ s.taken = secret
    /\ StillOwed(s) => s.pending \/ QueuesCheck(s) \/ \E u \in Tasks \ {t} : Carries(u)
    /\ ~Pairing(t) /\ StillOwed(s) /\ Unchecked(s.todo) => t \in s.excused
    /\ ~Pairing(t) /\ Has("emptyCheck") /\ secret = 0 /\ (Unchecked(s.todo) \/ QueuesCheck(s)) => t \in s.early
    /\ \A u \in Tasks \ {t} : (u \in s.excused <=> u \in excused) /\ (u \in s.early <=> u \in early)

\* A step that is no check and no frame.
LEMMA OnwardChecked ==
    ASSUME NEW s, NEW t, Checked(s, t), s.stage = "run", s.todo # <<>>, Head(s.todo)[1] # "check"
    PROVE  Checked(Next1(s), t)
<1> DEFINE r == Next1(s)
<1>1. /\ IsState(r) /\ r.todo = Tail(s.todo) /\ r.stage = "run" /\ r.pending = s.pending
      /\ r.taken = s.taken /\ r.early = s.early /\ r.excused = s.excused /\ r.up = s.up
  BY Next1Fields DEF Checked
<1>2. Tail(s.todo) \in Seq(Steps) /\ Vetted(Tail(s.todo)) /\ (Unchecked(Tail(s.todo)) => Unchecked(s.todo))
  BY VettedOn DEF Checked
<1> HIDE DEF r
<1>3. Checked(r, t)
  BY <1>1, <1>2 DEF Checked, StillOwed, QueuesCheck
<1> QED BY <1>3 DEF r

\* An await at the head of what is left.
LEMMA StoppedChecked ==
    ASSUME NEW s, NEW t, Checked(s, t), s.stage = "run", NEW r, IsState(r), r.todo = s.todo, r.pending = s.pending,
           r.taken = s.taken, r.early = s.early, r.excused = s.excused, r.up = s.up,
           \/ r.stage \in {"lock", "load", "pairing", "done"} /\ ~Unchecked(s.todo)
           \/ r.stage = "queued" /\ s.todo # <<>> /\ Head(s.todo)[1] # "check"
           \/ r.stage = "run"
    PROVE  Checked(r, t)
BY DEF Checked, StillOwed, QueuesCheck

LEMMA TakeChecked ==
    ASSUME NEW s, NEW t, Checked(s, t), s.stage = "run", s.todo # <<>>, Head(s.todo)[1] = "check", secret \in Nat,
           Has("emptyCheck") => Has("secret"),
           Has("emptyCheck") /\ secret = 0 /\ ~Pairing(t) => ~Locked(s, "pairing")
    PROVE  /\ Checked(TakeCheck(s, t), t) /\ TakeCheck(s, t).up = s.up
           /\ TakeCheck(s, t).stage = "run" => TakeCheck(s, t).todo = Tail(s.todo)
<1> DEFINE mine == s.pending /\ ~(Pairing(t) /\ secret = 0)
           flag == s.pending /\ ~mine
           first == IF Locked(s, "pairing") THEN s.early \ {t} ELSE s.early \cup {t}
           excuse == IF \E u \in Tasks \ {t} : TookCheck(u) THEN s.excused \cup {t} ELSE s.excused \ {t}
           seen == [s EXCEPT !.pending = flag, !.taken = secret, !.early = first, !.excused = excuse]
           line == [s.queue EXCEPT !["conn"] = Append(@, t)]
           queued == [seen EXCEPT !.stage = "queued", !.queue["conn"] = Append(@, t)]
           p == s.todo
<1>1. TakeCheck(s, t) = IF mine /\ s.up > 0 /\ ChecksSession(t) THEN queued ELSE Next1(seen)
  BY Zenon DEF TakeCheck
<1>2. seen = [s EXCEPT !.pending = flag, !.taken = secret, !.early = first, !.excused = excuse] /\ IsState(s)
  BY DEF Checked
<1>3. \A u : u # t => (u \in first <=> u \in s.early) /\ (u \in excuse <=> u \in s.excused)
  OBVIOUS
<1>4. ~Pairing(t) /\ Has("emptyCheck") /\ secret = 0 => t \in first
  OBVIOUS
<1>5. (\E u \in Tasks \ {t} : Carries(u)) => t \in excuse
  <2> SUFFICES ASSUME NEW u \in Tasks \ {t}, Carries(u) PROVE t \in excuse
    OBVIOUS
  <2>1. TookCheck(u)
    BY DEF Carries, TookCheck, Frame
  <2> QED BY <2>1
<1>6. /\ p \in Seq(Steps) /\ Vetted(p) /\ ~Unchecked(p)
      /\ Tail(p) \in Seq(Steps) /\ Vetted(Tail(p))
  BY VettedOn DEF Checked
<1>7. ChecksSession(t) => CanCheck
  BY DEF ChecksSession, CanCheck
<1>8. s.pending /\ mine => ChecksSession(t)
  BY DEF Checked, CanCheck, ChecksSession
<1>9. ~Pairing(t) => (mine <=> s.pending)
  OBVIOUS
<1>10. flag \in BOOLEAN /\ (flag => s.pending) /\ (s.pending /\ ~mine => flag)
  OBVIOUS
<1> HIDE DEF first, excuse, flag
<1>11. /\ IsState(seen) /\ seen.todo = p /\ seen.stage = "run" /\ seen.queue = s.queue /\ seen.pending = flag
       /\ seen.taken = secret /\ seen.early = first /\ seen.excused = excuse /\ seen.up = s.up
  <2> HIDE DEF seen, mine
  <2> QED BY <1>2 DEF IsState
<1>12. CASE mine /\ s.up > 0 /\ ChecksSession(t)
  <2> DEFINE r == queued
  <2>1. r = [seen EXCEPT !.stage = "queued", !.queue = line] /\ TakeCheck(s, t) = r
    <3> HIDE DEF seen
    <3> QED BY <1>1, <1>11, <1>12
  <2> HIDE DEF r, seen, line
  <2>2. /\ IsState(r) /\ r.todo = p /\ r.stage = "queued" /\ r.pending = flag
        /\ r.taken = secret /\ r.early = first /\ r.excused = excuse /\ r.up = s.up
    BY <1>11, <2>1 DEF IsState
  <2>3. QueuesCheck(r) /\ CanCheck
    BY <1>7, <1>12, <2>2 DEF QueuesCheck
  <2>4. Checked(r, t)
    BY <1>3, <1>4, <1>6, <1>10, <2>2, <2>3 DEF Checked
  <2> QED BY <2>1, <2>2, <2>4
<1>13. CASE ~(mine /\ s.up > 0 /\ ChecksSession(t))
  <2> DEFINE r == Next1(seen)
  <2>1. /\ IsState(r) /\ r.todo = Tail(p) /\ r.stage = "run" /\ r.pending = flag
        /\ r.taken = secret /\ r.early = first /\ r.excused = excuse /\ r.up = s.up
    <3> HIDE DEF seen
    <3> QED BY <1>11, Next1Fields
  <2>2. TakeCheck(s, t) = r
    BY <1>1, <1>13
  <2> HIDE DEF r
  <2>3. StillOwed(r) <=> StillOwed(s)
    BY <2>1 DEF StillOwed
  <2>4. ASSUME StillOwed(s) PROVE flag \/ \E u \in Tasks \ {t} : Carries(u)
    <3>1. s.pending \/ \E u \in Tasks \ {t} : Carries(u)
      BY <2>4 DEF Checked, QueuesCheck
    <3>2. s.pending => ~mine
      BY <1>8, <1>13, <2>4 DEF StillOwed
    <3> QED BY <1>10, <3>1, <3>2
  <2>5. ASSUME StillOwed(s), ~Pairing(t) PROVE t \in excuse
    <3>1. ~flag
      BY <1>9, <1>10, <2>5, <1>8, <1>13 DEF StillOwed
    <3> QED BY <1>5, <2>4, <2>5, <3>1
  <2>6. Checked(r, t)
    BY <1>3, <1>4, <1>6, <1>10, <2>1, <2>3, <2>4, <2>5 DEF Checked, QueuesCheck
  <2> QED BY <2>1, <2>2, <2>6
<1> QED BY <1>12, <1>13

LEMMA DoChecked ==
    ASSUME NEW s, NEW t, Checked(s, t), s.stage = "run", secret \in Nat, Has("emptyCheck") => Has("secret")
    PROVE  LET r == Do(s, t)
           IN  Checked(r, t) /\ r.up = s.up /\ (r.stage = "run" => s.todo # <<>> /\ r.todo = Tail(s.todo))
<1> DEFINE p == s.todo
           k == Head(s.todo)[1]
           x == Head(s.todo)[2]
           Good(r) == Checked(r, t) /\ r.up = s.up /\ (r.stage = "run" => s.todo # <<>> /\ r.todo = Tail(s.todo))
<1> SUFFICES Good(Do(s, t))
  OBVIOUS
<1>0. IsState(s) /\ p \in Seq(Steps) /\ Vetted(p)
  BY DEF Checked
<1>1. CASE p = <<>>
  <2> DEFINE r == [s EXCEPT !.stage = "done"]
  <2>1. Do(s, t) = r
    BY <1>1 DEF Do
  <2>2. /\ IsState(r) /\ r.todo = s.todo /\ r.stage = "done" /\ r.pending = s.pending
        /\ r.taken = s.taken /\ r.early = s.early /\ r.excused = s.excused /\ r.up = s.up
    BY <1>0 DEF IsState
  <2>3. ~Unchecked(s.todo)
    BY <1>1 DEF Unchecked
  <2> HIDE DEF r
  <2>4. Checked(r, t)
    BY <2>2, <2>3, StoppedChecked
  <2> QED BY <2>1, <2>2, <2>4
<1>2. CASE p # <<>>
  <2>0. k \in {"check", "lock", "load", "except"} => ~Unchecked(p)
    BY <1>0, <1>2, VettedOn
  <2>1. CASE k \in {"in", "out", "except"}
    <3>1. Do(s, t) = Next1(s)
      BY <1>2, <2>1 DEF Do
    <3>2. Checked(Next1(s), t)
      BY <1>2, <2>1, OnwardChecked
    <3>3. Next1(s).todo = Tail(s.todo) /\ Next1(s).up = s.up
      BY <1>0, Next1Fields
    <3> QED BY <1>2, <3>1, <3>2, <3>3
  <2>2. CASE (k = "lock" /\ s.queue[x] = <<>>) \/ k = "free"
    <3>1. \E q : Do(s, t) = Next1([s EXCEPT !.queue = q])
      <4>1. CASE k = "lock" /\ s.queue[x] = <<>>
        <5>1. Do(s, t) = Next1([s EXCEPT !.queue[x] = <<t>>])
          BY <1>2, <4>1 DEF Do
        <5> QED BY <5>1
      <4>2. CASE k = "free"
        <5>1. Do(s, t) = Next1([s EXCEPT !.queue[x] = Tail(@)])
          BY <1>2, <4>2 DEF Do
        <5> QED BY <5>1
      <4> QED BY <2>2, <4>1, <4>2
    <3>2. PICK q : Do(s, t) = Next1([s EXCEPT !.queue = q])
      BY <3>1
    <3> DEFINE r == [s EXCEPT !.queue = q]
    <3>3. /\ IsState(r) /\ r.todo = s.todo /\ r.stage = "run" /\ r.pending = s.pending
          /\ r.taken = s.taken /\ r.early = s.early /\ r.excused = s.excused /\ r.up = s.up
      BY <1>0 DEF IsState
    <3>4. Do(s, t) = Next1(r)
      BY <3>2
    <3> HIDE DEF r
    <3>5. Checked(r, t)
      BY <3>3, StoppedChecked
    <3>6. Checked(Next1(r), t)
      BY <1>2, <2>2, <3>3, <3>5, OnwardChecked
    <3>7. Next1(r).todo = Tail(s.todo) /\ Next1(r).up = s.up
      BY <3>3, Next1Fields
    <3> QED BY <1>2, <3>4, <3>6, <3>7
  <2>3. CASE k = "lock" /\ s.queue[x] # <<>>
    <3> DEFINE line == [s.queue EXCEPT ![x] = Append(@, t)]
               r == [s EXCEPT !.stage = "lock", !.queue = line]
    <3>1. Do(s, t) = r
      BY <1>2, <2>3 DEF Do
    <3>2. r = [s EXCEPT !.stage = "lock", !.queue = line]
      OBVIOUS
    <3> HIDE DEF line, r
    <3>3. /\ IsState(r) /\ r.todo = s.todo /\ r.stage = "lock" /\ r.pending = s.pending
          /\ r.taken = s.taken /\ r.early = s.early /\ r.excused = s.excused /\ r.up = s.up
      BY <1>0, <3>2 DEF IsState
    <3>4. Checked(r, t)
      BY <2>0, <2>3, <3>3, StoppedChecked
    <3> QED BY <3>1, <3>3, <3>4
  <2>4. CASE k = "check"
    <3>1. CASE ~(Has("emptyCheck") /\ secret = 0 /\ ~Pairing(t) /\ Locked(s, "pairing"))
      <4>1. Do(s, t) = TakeCheck(s, t)
        BY <1>2, <2>4, <3>1 DEF Do
      <4>2. Good(TakeCheck(s, t))
        BY <1>2, <2>4, <3>1, TakeChecked
      <4> QED BY <4>1, <4>2
    <3>2. CASE Has("emptyCheck") /\ secret = 0 /\ ~Pairing(t) /\ Locked(s, "pairing")
      <4> DEFINE line == [s.queue EXCEPT !["pairing"] = Append(@, t)]
                 r == [s EXCEPT !.stage = "pairing", !.queue = line]
      <4>1. Do(s, t) = r
        BY <1>2, <2>4, <3>2 DEF Do
      <4>2. r = [s EXCEPT !.stage = "pairing", !.queue = line]
        OBVIOUS
      <4> HIDE DEF line, r
      <4>3. /\ IsState(r) /\ r.todo = s.todo /\ r.stage = "pairing" /\ r.pending = s.pending
            /\ r.taken = s.taken /\ r.early = s.early /\ r.excused = s.excused /\ r.up = s.up
        BY <1>0, <4>2 DEF IsState
      <4>4. Checked(r, t)
        BY <2>0, <2>4, <4>3, StoppedChecked
      <4> QED BY <4>1, <4>3, <4>4
    <3> QED BY <3>1, <3>2
  <2>5. CASE k = "load"
    <3> DEFINE r == [s EXCEPT !.stage = "load"]
    <3>1. Do(s, t) = r
      BY <1>2, <2>5 DEF Do
    <3>2. /\ IsState(r) /\ r.todo = s.todo /\ r.stage = "load" /\ r.pending = s.pending
          /\ r.taken = s.taken /\ r.early = s.early /\ r.excused = s.excused /\ r.up = s.up
      BY <1>0 DEF IsState
    <3> HIDE DEF r
    <3>3. Checked(r, t)
      BY <2>0, <2>5, <3>2, StoppedChecked
    <3> QED BY <3>1, <3>2, <3>3
  <2>6. CASE k \notin {"in", "out", "except", "lock", "free", "check", "load"}
    <3> DEFINE line == [s.queue EXCEPT !["conn"] = Append(@, t)]
               r == [s EXCEPT !.stage = "queued", !.queue = line]
    <3>1. Do(s, t) = r
      BY <1>2, <2>6 DEF Do
    <3>2. r = [s EXCEPT !.stage = "queued", !.queue = line]
      OBVIOUS
    <3> HIDE DEF line, r
    <3>3. /\ IsState(r) /\ r.todo = s.todo /\ r.stage = "queued" /\ r.pending = s.pending
          /\ r.taken = s.taken /\ r.early = s.early /\ r.excused = s.excused /\ r.up = s.up
      BY <1>0, <3>2 DEF IsState
    <3>4. Checked(r, t)
      BY <1>2, <2>6, <3>3, StoppedChecked
    <3> QED BY <3>1, <3>3, <3>4
  <2> QED BY <2>1, <2>2, <2>3, <2>4, <2>5, <2>6
<1> QED BY <1>1, <1>2

\* It ends at an await: with every step it takes at once less is left.
LEMMA RunChecked ==
    ASSUME NEW s, NEW t, Checked(s, t), Run(s, t), secret \in Nat, Has("emptyCheck") => Has("secret")
    PROVE  \E r : /\ Checked(r, t) /\ r.stage # "run" /\ r.up = s.up
                  /\ todo' = [todo EXCEPT ![t] = r.todo] /\ stage' = [stage EXCEPT ![t] = r.stage]
                  /\ pending' = r.pending /\ taken' = [taken EXCEPT ![t] = r.taken]
                  /\ early' = r.early /\ excused' = r.excused
<1> DEFINE after == CHOOSE f : Trace(f, s, t)
           r == after[Len(s.todo) + 1]
<1>1. Trace(after, s, t)
  BY StepsExist
<1>2. /\ todo' = [todo EXCEPT ![t] = r.todo] /\ stage' = [stage EXCEPT ![t] = r.stage]
      /\ pending' = r.pending /\ taken' = [taken EXCEPT ![t] = r.taken]
      /\ early' = r.early /\ excused' = r.excused
  BY DEF Run, StepOn, Trace
<1> HIDE DEF after
<1>3. \A n \in Nat : after[n] = IF n = 0 THEN s ELSE StepOn(after[n - 1], t)
  BY <1>1 DEF Trace
<1>4. Len(s.todo) + 1 \in Nat /\ Len(s.todo) \in Nat
  BY LenProperties DEF Checked
<1> DEFINE Good(n) == /\ Checked(after[n], t) /\ after[n].up = s.up
                      /\ after[n].stage = "run" => n + Len(after[n].todo) = Len(s.todo)
<1>5. ASSUME NEW n \in Nat PROVE Good(n)
  <2> DEFINE S == {m \in Nat : ~Good(m)}
  <2> SUFFICES ASSUME S # {} PROVE FALSE
    OBVIOUS
  <2>1. PICK m \in S : \A j \in S : m <= j
    <3> HIDE DEF Good
    <3> QED BY LeastIndex, Zenon
  <2>2. Good(0)
    BY <1>3, <1>4
  <2>3. m # 0
    BY <2>1, <2>2
  <2>4. m - 1 \in Nat /\ m - 1 \notin S
    BY <2>1, <2>3
  <2>5. Good(m - 1)
    BY <2>4
  <2> DEFINE b == after[m - 1]
             c == after[m]
  <2>6. Checked(b, t) /\ b.up = s.up /\ (b.stage = "run" => (m - 1) + Len(b.todo) = Len(s.todo))
    BY <2>5
  <2>7. c = IF b.stage = "run" THEN Do(b, t) ELSE b
    BY <1>3, <2>1, <2>3 DEF StepOn
  <2> HIDE DEF b, c
  <2>8. CASE b.stage # "run"
    <3>1. Checked(c, t) /\ c.up = s.up /\ c.stage # "run"
      BY <2>6, <2>7, <2>8
    <3> QED BY <2>1, <3>1 DEF c
  <2>9. CASE b.stage = "run"
    <3>1. Checked(c, t) /\ c.up = s.up /\ (c.stage = "run" => b.todo # <<>> /\ c.todo = Tail(b.todo))
      BY <2>6, <2>7, <2>9, DoChecked
    <3>2. b.todo # <<>> => Len(b.todo) \in Nat /\ Len(Tail(b.todo)) = Len(b.todo) - 1
      BY <2>6, HeadTailProperties, LenProperties DEF Checked
    <3>3. c.stage = "run" => m + Len(c.todo) = Len(s.todo)
      <4> DEFINE lb == Len(b.todo)
                 lc == Len(c.todo)
                 ls == Len(s.todo)
      <4>1. m \in Nat /\ ls \in Nat /\ (m - 1) + lb = ls
        BY <1>4, <2>1, <2>6, <2>9
      <4>2. c.stage = "run" => lb \in Nat /\ lc = lb - 1
        BY <3>1, <3>2
      <4> HIDE DEF lb, lc, ls
      <4>3. c.stage = "run" => m + lc = ls
        BY <4>1, <4>2
      <4> QED BY <4>3 DEF lb, lc, ls
    <3> QED BY <2>1, <3>1, <3>3 DEF c
  <2> QED BY <2>8, <2>9
<1>6. Checked(r, t) /\ r.up = s.up /\ (r.stage = "run" => (Len(s.todo) + 1) + Len(r.todo) = Len(s.todo))
  BY <1>4, <1>5
<1>7. Len(r.todo) \in Nat
  BY <1>6, LenProperties DEF Checked
<1>8. r.stage # "run"
  <2> DEFINE lr == Len(r.todo)
             ls == Len(s.todo)
  <2>1. ls \in Nat /\ lr \in Nat /\ (r.stage = "run" => (ls + 1) + lr = ls)
    BY <1>4, <1>6, <1>7
  <2> HIDE DEF lr, ls, r
  <2> QED BY <2>1
<1> QED BY <1>2, <1>6, <1>8

-----------------------------------------------------------------------------
(* What is known of the check at every moment.                              *)

AtCheck(t) == stage[t] \in AtConn /\ Head(todo[t])[1] = "check"

\* A call that goes on to a frame without a check first is excused while one is owed.
Guarded(t) ==
    /\ owed /\ (Unchecked(todo[t]) \/ (stage[t] = "wire" /\ Frame(t) \notin {"connect", "drop"})) => t \in excused
    /\ AtCheck(t) /\ taken[t] # secret => t \in excused
    /\ Has("emptyCheck") /\ secret = 0 /\ (Unchecked(todo[t]) \/ AtCheck(t)) => t \in early

InCheck(t) ==
    /\ todo[t] \in Seq(Steps) /\ Vetted(todo[t])
    /\ Unchecked(todo[t]) => stage[t] \in AtConn
    /\ AtCheck(t) => CanCheck
    /\ stage[t] = "setup" => link = 0
    /\ ~Pairing(t) => Guarded(t)

\* A check that is owed is pending, or a call in line carries it.
SecretInv ==
    /\ secret \in Nat /\ taken = [t \in Tasks |-> taken[t]]
    /\ owed => link > 0
    /\ pending => CanCheck
    /\ owed => pending \/ \E u \in Tasks : Carries(u)
    /\ \A t \in Tasks : InCheck(t)

\* The state a call ran to.
LEMMA RunKeeps ==
    ASSUME AllPlaced, SecretInv, NEW t \in Tasks, NEW s, Checked(s, t), Run(s, t),
           Has("emptyCheck") => Has("secret"), UNCHANGED <<device, method, secret>>,
           s.up \in {link, 0}, link' = s.up, owed' => StillOwed(s)
    PROVE  SecretInv'
<1>1. PICK r : /\ Checked(r, t) /\ r.stage # "run" /\ r.up = s.up
               /\ todo' = [todo EXCEPT ![t] = r.todo] /\ stage' = [stage EXCEPT ![t] = r.stage]
               /\ pending' = r.pending /\ taken' = [taken EXCEPT ![t] = r.taken]
               /\ early' = r.early /\ excused' = r.excused
  BY RunChecked DEF SecretInv
<1> DEFINE p == r.todo
           sg == r.stage
           x == r.taken
<1>2. /\ todo'[t] = p /\ stage'[t] = sg /\ taken'[t] = x
      /\ \A u \in Tasks \ {t} : todo'[u] = todo[u] /\ stage'[u] = stage[u] /\ taken'[u] = taken[u]
      /\ taken' = [u \in Tasks |-> taken'[u]]
  BY <1>1 DEF AllPlaced, SecretInv
<1>3. /\ p \in Seq(Steps) /\ Vetted(p) /\ sg \notin {"setup", "wire", "refused", "run"}
      /\ Unchecked(p) => sg = "queued"
      /\ sg = "queued" => p # <<>>
      /\ pending' => CanCheck
      /\ sg = "queued" /\ Head(p)[1] = "check" => CanCheck /\ x = secret
      /\ owed' => pending' \/ (sg = "queued" /\ Head(p)[1] = "check") \/ \E u \in Tasks \ {t} : Carries(u)
      /\ ~Pairing(t) /\ owed' /\ Unchecked(p) => t \in excused'
      /\ ~Pairing(t) /\ Has("emptyCheck") /\ secret = 0 /\ (Unchecked(p) \/ (sg = "queued" /\ Head(p)[1] = "check"))
            => t \in early'
      /\ \A u \in Tasks \ {t} : (u \in excused' <=> u \in excused) /\ (u \in early' <=> u \in early)
  BY <1>1 DEF Checked, QueuesCheck, StillOwed
<1> HIDE DEF p, sg, x
<1>4. /\ \A f : Has(f)' = Has(f)
      /\ \A u : Pairing(u)' = Pairing(u)
      /\ CanCheck' = CanCheck
  BY DEF Has, Pairing, CanCheck
<1>5. owed' => owed /\ link' > 0
  BY DEF StillOwed
<1>6. ASSUME NEW u \in Tasks PROVE InCheck(u)'
  <2>1. CASE u = t
    <3>1. AtCheck(t)' => sg = "queued" /\ Head(p)[1] = "check"
      BY <1>2, <1>3 DEF AtCheck, AtConn
    <3>2. ASSUME ~Pairing(t) PROVE Guarded(t)'
      BY <1>2, <1>3, <1>4, <3>1, <3>2 DEF Guarded
    <3>3. /\ todo'[t] \in Seq(Steps) /\ Vetted(todo'[t]) /\ (Unchecked(todo'[t]) => stage'[t] \in AtConn)
          /\ (AtCheck(t)' => CanCheck') /\ stage'[t] # "setup"
      BY <1>2, <1>3, <1>4, <3>1 DEF AtConn
    <3> QED BY <1>4, <2>1, <3>2, <3>3 DEF InCheck, Vetted, Unchecked, Bare, Works, Halts1, AtConn
  <2>2. CASE u # t
    <3>1. InCheck(u)
      BY DEF SecretInv
    <3>2. todo'[u] = todo[u] /\ stage'[u] = stage[u] /\ taken'[u] = taken[u]
      BY <1>2, <2>2
    <3>3. AtCheck(u)' = AtCheck(u) /\ Frame(u)' = Frame(u)
      BY <3>2 DEF AtCheck, Frame, AtConn
    <3>4. Guarded(u) => Guarded(u)'
      BY <1>3, <1>4, <1>5, <2>2, <3>2, <3>3 DEF Guarded, Unchecked, Bare, Works
    <3> QED BY <1>4, <3>1, <3>2, <3>3, <3>4 DEF InCheck, Vetted, Unchecked, Bare, Works, Halts1, AtConn
  <2> QED BY <2>1, <2>2
<1>7. ASSUME owed' PROVE pending' \/ \E u \in Tasks : Carries(u)'
  <2>1. CASE sg = "queued" /\ Head(p)[1] = "check"
    BY <1>2, <1>3, <2>1 DEF Carries
  <2>2. ASSUME NEW u \in Tasks \ {t}, Carries(u) PROVE Carries(u)'
    BY <1>2, <2>2 DEF Carries
  <2> QED BY <1>3, <1>7, <2>1, <2>2
<1> QED BY <1>2, <1>3, <1>4, <1>5, <1>6, <1>7 DEF SecretInv

LEMMA FreshChecked ==
    ASSUME NEW t \in Tasks, NEW r, IsState(r), r.stage = "run", r.todo \in Seq(Steps), Vetted(r.todo),
           r.early = early, r.excused = excused, r.pending => CanCheck,
           StillOwed(r) => r.pending \/ \E u \in Tasks \ {t} : Carries(u),
           ~Pairing(t) /\ StillOwed(r) /\ Unchecked(r.todo) => t \in excused,
           ~Pairing(t) /\ Has("emptyCheck") /\ secret = 0 /\ Unchecked(r.todo) => t \in early
    PROVE  Checked(r, t)
BY DEF Checked, QueuesCheck

\* The call t itself is not in line with the check.
LEMMA OthersCarry ==
    ASSUME SecretInv, NEW t \in Tasks, owed, ~Carries(t)
    PROVE  pending \/ \E u \in Tasks \ {t} : Carries(u)
BY DEF SecretInv

LEMMA NowFields ==
    ASSUME NEW t
    PROVE  /\ IsState(Now(t)) /\ Now(t).todo = todo[t] /\ Now(t).stage = "run" /\ Now(t).queue = queue
           /\ Now(t).pending = pending /\ Now(t).taken = taken[t]
           /\ Now(t).early = early /\ Now(t).excused = excused /\ Now(t).up = link
BY DEF Now, IsState

-----------------------------------------------------------------------------
(* The steps in which a call runs.                                          *)

LEMMA StartChecks ==
    ASSUME AllPlaced, SecretInv, Profiled, RInv, Has("emptyCheck") => Has("secret"), NEW t \in Tasks, Start(t)
    PROVE  SecretInv'
<1>1. PICK body \in Bodies(method[t]) : Run([Now(t) EXCEPT !.todo = body], t)
  BY DEF Start
<1>2. method[t] \in Methods
  BY DeviceCallsAssumption DEF Profiled
<1>3. body \in Seq(Steps) /\ Vetted(body) /\ ~Unchecked(body)
  BY <1>2, BodiesWary DEF Wary
<1> DEFINE n == Now(t)
           s == [n EXCEPT !.todo = body]
<1>4. Run(s, t) /\ s = [n EXCEPT !.todo = body]
  BY <1>1
<1>5. /\ IsState(n) /\ n.stage = "run" /\ n.pending = pending /\ n.early = early /\ n.excused = excused
      /\ n.up = link
  BY NowFields
<1> HIDE DEF n, s
<1>6. /\ IsState(s) /\ s.todo = body /\ s.stage = "run" /\ s.pending = pending
      /\ s.early = early /\ s.excused = excused /\ s.up = link
  BY <1>4, <1>5 DEF IsState
<1>7. stage[t] = "idle" /\ UNCHANGED <<device, method, secret, link, owed>>
  BY DEF Start, RInv, linkVars
<1>8. ~Carries(t)
  BY <1>7 DEF Carries
<1>9. Checked(s, t)
  BY <1>3, <1>6, <1>8, OthersCarry, FreshChecked DEF StillOwed, SecretInv
<1>10. (owed' => StillOwed(s)) /\ link' = s.up
  BY <1>6, <1>7 DEF StillOwed, SecretInv
<1> QED BY <1>4, <1>6, <1>7, <1>9, <1>10, RunKeeps

LEMMA ResumingChecks ==
    ASSUME AllPlaced, AllSettled, SecretInv, Has("emptyCheck") => Has("secret"), NEW t \in Tasks,
           TakeLock(t) \/ PairingOver(t) \/ Loaded(t)
    PROVE  SecretInv'
<1> DEFINE n == Now(t)
<1>1. /\ IsState(n) /\ n.todo = todo[t] /\ n.stage = "run" /\ n.queue = queue /\ n.pending = pending
      /\ n.early = early /\ n.excused = excused /\ n.up = link
  BY NowFields
<1>2. stage[t] \in {"lock", "load", "pairing"} /\ UNCHANGED <<device, method, secret, link, owed>>
  BY DEF TakeLock, PairingOver, Loaded, Resumes, linkVars
<1>3. InCheck(t) /\ ~Unchecked(todo[t]) /\ ~Carries(t) /\ secret \in Nat
  BY <1>2 DEF SecretInv, InCheck, AtConn, Carries
<1>4. ASSUME NEW r, IsState(r), r.todo = todo[t], r.stage = "run", r.pending = pending,
             r.early = early, r.excused = excused
      PROVE  Checked(r, t)
  BY <1>3, <1>4, OthersCarry, FreshChecked DEF StillOwed, SecretInv, InCheck
<1>5. ASSUME NEW r, Checked(r, t), r.up = link, Run(r, t) PROVE SecretInv'
  <2>1. (owed' => StillOwed(r)) /\ link' = r.up
    BY <1>2, <1>5 DEF StillOwed, SecretInv
  <2> QED BY <1>2, <1>5, <2>1, RunKeeps
<1>6. CASE TakeLock(t) \/ Loaded(t)
  <2>1. Run(Next1(n), t)
    BY <1>6 DEF TakeLock, Loaded, Resumes
  <2>2. todo[t] # <<>> /\ todo[t] \in Seq(Steps) /\ Vetted(todo[t])
    BY <1>3, <1>6 DEF TakeLock, Loaded, AllPlaced, InPlace, InCheck
  <2>3. Tail(todo[t]) \in Seq(Steps) /\ Vetted(Tail(todo[t])) /\ ~Unchecked(Tail(todo[t]))
    <3>1. Head(todo[t])[1] # "check"
      <4>1. todo[t][1][1] \in {"lock", "load"}
        BY <1>6 DEF TakeLock, Loaded, AllPlaced, InPlace, AllSettled, Settled, Halts
      <4>2. Head(todo[t]) = todo[t][1]
        BY <2>2
      <4> QED BY <4>1, <4>2
    <3> QED BY <1>3, <2>2, <3>1, VettedOn
  <2> HIDE DEF n
  <2> DEFINE r == Next1(n)
  <2>4. /\ IsState(r) /\ r.todo = Tail(todo[t]) /\ r.stage = "run" /\ r.pending = pending
        /\ r.early = early /\ r.excused = excused /\ r.up = link
    BY <1>1, Next1Fields
  <2>5. Run(r, t)
    BY <2>1
  <2> HIDE DEF r
  <2>6. Checked(r, t)
    BY <1>3, <2>3, <2>4, OthersCarry, FreshChecked DEF StillOwed, SecretInv
  <2> QED BY <1>5, <2>4, <2>5, <2>6
<1>7. CASE PairingOver(t)
  <2> DEFINE a == queue["pairing"]
             line == [n.queue EXCEPT !["pairing"] = Tail(@)]
             s == [n EXCEPT !.queue = line]
  <2>1. Run(TakeCheck(s, t), t) /\ stage[t] = "pairing" /\ Head(a) = t
    BY <1>7 DEF PairingOver, Resumes
  <2>2. s = [n EXCEPT !.queue = line]
    OBVIOUS
  <2>3. line["pairing"] = Tail(a)
    <3>1. queue = [l \in Locks |-> queue[l]] /\ "pairing" \in Locks
      BY DEF AllPlaced, Locks, DeviceLocks
    <3> HIDE DEF n
    <3> QED BY <1>1, <3>1
  <2> HIDE DEF n, s, line
  <2>4. /\ IsState(s) /\ s.todo = todo[t] /\ s.stage = "run" /\ s.queue = line /\ s.pending = pending
        /\ s.early = early /\ s.excused = excused /\ s.up = link
    BY <1>1, <2>2 DEF IsState
  <2>5. Checked(s, t)
    BY <1>4, <2>4
  <2>6. todo[t] # <<>> /\ Head(todo[t])[1] = "check"
    <3>1. todo[t] # <<>> /\ todo[t][1][1] = "check" /\ todo[t] \in Seq(Steps)
      BY <1>3, <2>1 DEF AllPlaced, InPlace, InCheck
    <3> QED BY <3>1
  <2>7. ~Locked(s, "pairing")
    <3> SUFFICES ASSUME Tail(a) # <<>> PROVE stage[Head(Tail(a))] \in {"lock", "pairing"}
      BY <2>3, <2>4 DEF Locked
    <3>1. IsLine(a) /\ a \in Seq(Tasks) /\ Len(a) \in Nat
      BY LineFacts DEF AllPlaced, Locks, DeviceLocks
    <3>2. a # <<>>
      <4>1. WaitsFor(todo[t], stage[t], "pairing") /\ "pairing" \in Locks
        BY <2>1 DEF WaitsFor, Locks, DeviceLocks
      <4>2. \E i \in 1 .. Len(a) : a[i] = t
        BY <4>1 DEF AllPlaced, InPlace
      <4> HIDE DEF a
      <4> QED BY <3>1, <4>2, EmptySeq
    <3> DEFINE u == Head(Tail(a))
    <3>3. 2 \in 1 .. Len(a) /\ u = a[2]
      <4> HIDE DEF a
      <4>1. Len(Tail(a)) = Len(a) - 1 /\ Tail(a) \in Seq(Tasks) /\ \A i \in 1 .. Len(a) - 1 : Tail(a)[i] = a[i + 1]
        BY <3>1, <3>2, HeadTailProperties
      <4>2. Len(Tail(a)) # 0 /\ Head(Tail(a)) = Tail(a)[1]
        BY <4>1, EmptySeq
      <4>3. 1 \in 1 .. Len(a) - 1
        BY <3>1, <4>1, <4>2
      <4> QED BY <3>1, <4>1, <4>2, <4>3
    <3>4. a[2] \in Tasks
      BY <3>1, <3>3, ElementOfSeq
    <3>5. "pairing" \in Locks /\ "pairing" # "conn"
      BY DEF Locks, DeviceLocks
    <3>6. WaitsFor(todo[a[2]], stage[a[2]], "pairing")
      <4>1. ASSUME NEW v \in Tasks, NEW i \in 1 .. Len(queue["pairing"]), queue["pairing"][i] = v, i > 1
            PROVE  WaitsFor(todo[v], stage[v], "pairing")
        BY <3>5, <4>1 DEF AllPlaced, InPlace
      <4> QED BY <3>3, <3>4, <4>1
    <3> QED BY <3>3, <3>6, <3>5 DEF WaitsFor
  <2> DEFINE r == TakeCheck(s, t)
  <2>8. Checked(r, t) /\ r.up = link /\ Run(r, t)
    BY <1>3, <2>1, <2>4, <2>5, <2>6, <2>7, TakeChecked
  <2> HIDE DEF r
  <2> QED BY <1>5, <2>8
<1> QED BY <1>6, <1>7

LEMMA LeavingChecked ==
    ASSUME SecretInv, NEW t \in Tasks, stage[t] \in AtConn, todo[t] # <<>>, NEW up \in {link, 0},
           stage[t] = "wire" \/ Head(todo[t])[1] # "check"
    PROVE  Checked(Next1(Left(t, up)), t) /\ Next1(Left(t, up)).up = up
<1> DEFINE s == Left(t, up)
           r == Next1(s)
           p == todo[t]
<1>1. /\ IsState(s) /\ s.todo = p /\ s.stage = "run" /\ s.up = up /\ s.pending = pending
      /\ s.early = early /\ s.excused = excused
  BY LeftFields
<1> HIDE DEF s
<1>2. /\ IsState(r) /\ r.todo = Tail(p) /\ r.stage = "run" /\ r.pending = pending
      /\ r.early = early /\ r.excused = excused /\ r.up = up
  BY <1>1, Next1Fields
<1> HIDE DEF r
<1>3. InCheck(t) /\ p \in Seq(Steps) /\ Vetted(p)
  BY DEF SecretInv, InCheck
<1>4. Tail(p) \in Seq(Steps) /\ Vetted(Tail(p)) /\ (Head(p)[1] # "check" /\ Unchecked(Tail(p)) => Unchecked(p))
  BY <1>3, VettedOn
<1>5. ~Carries(t)
  BY DEF Carries
<1>6. StillOwed(r) => owed
  BY DEF StillOwed
<1>7. CASE Head(p)[1] # "check"
  <2>1. ~Pairing(t) /\ StillOwed(r) /\ Unchecked(r.todo) => t \in excused
    BY <1>2, <1>3, <1>4, <1>6, <1>7 DEF InCheck, Guarded
  <2>2. ~Pairing(t) /\ Has("emptyCheck") /\ secret = 0 /\ Unchecked(r.todo) => t \in early
    BY <1>2, <1>3, <1>4, <1>7 DEF InCheck, Guarded
  <2>3. Checked(r, t)
    BY <1>2, <1>4, <1>5, <1>6, <2>1, <2>2, OthersCarry, FreshChecked DEF SecretInv
  <2> QED BY <1>2, <2>3 DEF r, s
<1>8. CASE Head(p)[1] = "check"
  <2>0. stage[t] = "wire" /\ AtCheck(t) /\ Frame(t) = "check"
    BY <1>8 DEF AtCheck, Frame
  <2>1. ~Pairing(t) /\ StillOwed(r) /\ Unchecked(r.todo) => t \in excused
    BY <1>3, <1>6, <2>0 DEF InCheck, Guarded
  <2>2. ~Pairing(t) /\ Has("emptyCheck") /\ secret = 0 /\ Unchecked(r.todo) => t \in early
    BY <1>3, <2>0 DEF InCheck, Guarded
  <2>3. Checked(r, t)
    BY <1>2, <1>4, <1>5, <1>6, <2>1, <2>2, OthersCarry, FreshChecked DEF SecretInv
  <2> QED BY <1>2, <2>3 DEF r, s
<1> QED BY <1>7, <1>8

\* An exception leaves a call before its next check, or with nothing to send.
LEMMA ThrownUnder ==
    ASSUME NEW p \in Seq(Steps), Vetted(p), NEW cancelled
    PROVE  LET rest == SubSeq(p, ThrownAt(p, cancelled) + 1, Len(p))
           IN  rest \in Seq(Steps) /\ Vetted(rest) /\ ~Unchecked(rest)
<1> DEFINE e == ThrownAt(p, cancelled)
           rest == SubSeq(p, e + 1, Len(p))
           caught == {i \in 1 .. Len(p) : p[i] = Except}
<1>1. Len(p) \in Nat
  BY LenProperties
<1>2. e = Len(p) \/ (e \in 1 .. Len(p) /\ p[e] = Except)
  <2>1. CASE cancelled \/ caught = {}
    BY <2>1 DEF ThrownAt
  <2>2. CASE ~(cancelled \/ caught = {})
    <3>1. e = CHOOSE i \in caught : TRUE
      BY <2>2 DEF ThrownAt
    <3>2. e \in caught
      BY <2>2, <3>1
    <3> QED BY <3>2
  <2> QED BY <2>1, <2>2
<1> HIDE DEF e
<1>3. e \in 0 .. Len(p)
  BY <1>1, <1>2
<1>4. rest \in Seq(Steps) /\ Vetted(rest) /\ (e > 0 /\ Halts1(p[e]) => ~Unchecked(rest)) /\ Len(rest) = Len(p) - e
  BY <1>3, VettedSuffix, Suffix
<1>5. CASE e = Len(p)
  <2> HIDE DEF rest
  <2>1. Len(rest) = 0
    BY <1>1, <1>4, <1>5
  <2>2. ~Unchecked(rest)
    BY <2>1 DEF Unchecked
  <2> QED BY <1>4, <2>2 DEF rest, e
<1>6. CASE e \in 1 .. Len(p) /\ p[e] = Except
  <2>0. e > 0
    BY <1>6, <1>1
  <2>1. e > 0 /\ Halts1(p[e])
    <3>1. Except[1] = "except"
      BY DEF Except
    <3> QED BY <1>6, <2>0, <3>1 DEF Halts1
  <2> QED BY <1>4, <2>1 DEF e
<1> QED BY <1>2, <1>5, <1>6

LEMMA ThrownChecked ==
    ASSUME SecretInv, NEW t \in Tasks, NEW up \in {link, 0}, NEW cancelled, NEW flag, flag => CanCheck,
           owed /\ up > 0 /\ Carries(t) => flag
    PROVE  LET s == Thrown(Left(t, up), t, cancelled)
               r == [s EXCEPT !.pending = @ \/ flag]
           IN  Checked(r, t) /\ r.up = up /\ (~flag /\ ~Carries(t) => Checked(s, t) /\ s.up = up)
<1> DEFINE s == Thrown(Left(t, up), t, cancelled)
           r == [s EXCEPT !.pending = @ \/ flag]
           rest == SubSeq(todo[t], ThrownAt(todo[t], cancelled) + 1, Len(todo[t]))
<1>1. /\ IsState(s) /\ s.todo = rest /\ s.stage = "run" /\ s.pending = pending
      /\ s.early = early /\ s.excused = excused /\ s.up = up
  <2> DEFINE n == Left(t, up)
  <2>1. /\ IsState(n) /\ n.todo = todo[t] /\ n.stage = "run" /\ n.up = up /\ n.pending = pending
        /\ n.early = early /\ n.excused = excused
    BY LeftFields
  <2> HIDE DEF n
  <2>2. LET x == Thrown(n, t, cancelled)
        IN  /\ IsState(x) /\ x.todo = SubSeq(n.todo, ThrownAt(n.todo, cancelled) + 1, Len(n.todo))
            /\ x.stage = n.stage /\ x.pending = n.pending /\ x.taken = n.taken
            /\ x.early = n.early /\ x.excused = n.excused /\ x.up = n.up
    BY <2>1, ThrownFields
  <2> QED BY <2>1, <2>2 DEF n
<1> HIDE DEF s
<1>2. /\ IsState(r) /\ r.todo = rest /\ r.stage = "run" /\ r.pending = (pending \/ flag)
      /\ r.early = early /\ r.excused = excused /\ r.up = up
  BY <1>1, RearmedFields
<1>3. rest \in Seq(Steps) /\ Vetted(rest) /\ ~Unchecked(rest)
  BY ThrownUnder DEF SecretInv, InCheck
<1> HIDE DEF r, rest
<1>4. ASSUME owed, up > 0 PROVE (pending \/ flag) \/ \E u \in Tasks \ {t} : Carries(u)
  BY <1>4, OthersCarry
<1>5. Checked(r, t)
  BY <1>2, <1>3, <1>4, FreshChecked DEF StillOwed, SecretInv
<1>6. ~flag /\ ~Carries(t) => Checked(s, t)
  BY <1>1, <1>3, <1>4, FreshChecked DEF StillOwed, SecretInv
<1> QED BY <1>1, <1>2, <1>5, <1>6 DEF r, s

LEMMA ReturningChecks ==
    ASSUME AllPlaced, SecretInv, Has("emptyCheck") => Has("secret"), NEW t \in Tasks,
           Succeeds(t) \/ Connected(t) \/ ReleaseKeeps(t) \/ ReleaseEnds(t)
    PROVE  SecretInv'
<1>1. /\ stage[t] \in AtConn /\ (stage[t] = "wire" \/ Frame(t) = "drop")
      /\ UNCHANGED <<device, method, secret>>
  BY DEF Succeeds, Connected, ReleaseKeeps, ReleaseEnds, Returns, Turn, AtConn, linkVars
<1>2. todo[t] # <<>>
  BY <1>1 DEF AllPlaced, InPlace
<1>3. stage[t] = "wire" \/ Head(todo[t])[1] # "check"
  BY <1>1, <1>2 DEF Frame
<1>4. \E up \in {link, 0} : Run(Next1(Left(t, up)), t) /\ link' = up /\ (owed' => owed /\ up > 0)
  <2>1. CASE ReleaseKeeps(t) \/ ReleaseEnds(t)
    BY <2>1 DEF ReleaseKeeps, ReleaseEnds, linkVars, SecretInv
  <2>2. CASE Succeeds(t) \/ Connected(t)
    <3>1. PICK up \in {link, 0} : Returns(t, Next1(Left(t, up)), TRUE) \/ Returns(t, Next1(Left(t, up)), FALSE)
      BY <2>2 DEF Succeeds, Connected, LinkAfter
    <3>2. Next1(Left(t, up)).up = up
      BY UpStays
    <3> QED BY <3>1, <3>2 DEF Returns
  <2> QED BY <2>1, <2>2
<1>5. PICK up \in {link, 0} : Run(Next1(Left(t, up)), t) /\ link' = up /\ (owed' => owed /\ up > 0)
  BY <1>4
<1> DEFINE s == Next1(Left(t, up))
<1>6. Checked(s, t) /\ s.up = up /\ Run(s, t)
  BY <1>1, <1>2, <1>3, <1>5, LeavingChecked
<1> HIDE DEF s
<1>7. owed' => StillOwed(s)
  BY <1>5, <1>6 DEF StillOwed
<1> QED BY <1>1, <1>5, <1>6, <1>7, RunKeeps

LEMMA ThrowingChecks ==
    ASSUME AllPlaced, SecretInv, Has("emptyCheck") => Has("secret"), NEW t \in Tasks,
           Fails(t) \/ Lost(t) \/ Disconnects(t)
    PROVE  SecretInv'
<1>1. ~Carries(t) /\ UNCHANGED <<device, method, secret>>
  BY DEF Fails, Lost, Disconnects, Returns, Carries, Frame
<1>2. PICK up \in {link, 0} : Returns(t, Thrown(Left(t, up), t, FALSE), TRUE) \/ Returns(t, Thrown(Left(t, up), t, FALSE), FALSE)
  BY DEF Fails, Lost, Disconnects, LinkAfter
<1> DEFINE s == Thrown(Left(t, up), t, FALSE)
<1>3. Checked(s, t) /\ s.up = up
  BY <1>1, ThrownChecked
<1>4. Run(s, t) /\ link' = s.up /\ owed' = (owed /\ s.up > 0)
  BY <1>2 DEF Returns
<1> HIDE DEF s
<1>5. owed' => StillOwed(s)
  BY <1>4 DEF StillOwed
<1> QED BY <1>1, <1>3, <1>4, <1>5, RunKeeps

LEMMA CancelChecks ==
    ASSUME AllPlaced, SecretInv, Has("emptyCheck") => Has("secret"), NEW t \in Tasks, Cancel(t)
    PROVE  SecretInv'
<1> DEFINE lost == stage[t] = "setup" \/ (stage[t] = "wire" /\ Frame(t) = "tap")
           up == IF lost THEN 0 ELSE link
           rearm == /\ Frame(t) = "check" /\ stage[t] \in {"queued", "setup", "wire"}
                    /\ up > 0 /\ taken[t] = secret
           s == [Thrown(Left(t, up), t, TRUE) EXCEPT !.pending = @ \/ rearm]
<1>1. Returns(t, s, stage[t] = "refused") /\ stage[t] \notin {"idle", "done"}
  BY DEF Cancel
<1>2. up \in {link, 0}
  OBVIOUS
<1>3. rearm => CanCheck
  <2> SUFFICES ASSUME rearm PROVE CanCheck
    OBVIOUS
  <2>1. todo[t] # <<>> /\ stage[t] \in AtConn /\ stage[t] # "refused"
    BY DEF AllPlaced, InPlace, AtConn
  <2>2. todo[t] \in Seq(Steps) /\ (AtCheck(t) => CanCheck)
    BY DEF SecretInv, InCheck
  <2>3. Head(todo[t]) \in Steps
    BY <2>1, <2>2
  <2>4. Head(todo[t])[2] # "check"
    BY <2>3 DEF Steps, DeviceLocks
  <2> QED BY <2>1, <2>2, <2>4 DEF AtCheck, Frame
<1>4. owed /\ up > 0 /\ Carries(t) => rearm
  BY DEF Carries, Frame
<1> HIDE DEF up, rearm
<1>5. Checked(s, t) /\ s.up = up
  BY <1>2, <1>3, <1>4, ThrownChecked
<1>6. Run(s, t) /\ link' = s.up /\ owed' = (owed /\ s.up > 0) /\ UNCHANGED <<device, method, secret>>
  BY <1>1 DEF Returns
<1> HIDE DEF s
<1>7. owed' => StillOwed(s)
  BY <1>6 DEF StillOwed
<1> QED BY <1>2, <1>5, <1>6, <1>7, RunKeeps

-----------------------------------------------------------------------------
(* The other steps.                                                         *)

\* What the profile and the kinds of the calls decide stays as it is.
LEMMA ProfileStays ==
    ASSUME UNCHANGED <<device, method>>
    PROVE  /\ \A f : Has(f)' = Has(f)
           /\ \A u : Pairing(u)' = Pairing(u)
           /\ \A p : Vetted(p)' = Vetted(p) /\ Unchecked(p)' = Unchecked(p)
BY DEF Has, Pairing, Vetted, Unchecked, Bare, Works, Halts1

\* A call no step of its own is taken for.
LEMMA OthersInCheck ==
    ASSUME SecretInv, NEW u \in Tasks, UNCHANGED <<device, method, todo, secret, taken, early>>, stage'[u] = stage[u],
           owed' => owed, link' \in {link, 0}, excused \subseteq excused'
    PROVE  InCheck(u)'
<1>1. InCheck(u)
  BY DEF SecretInv
<1>2. /\ \A f : Has(f)' = Has(f)
      /\ Pairing(u)' = Pairing(u)
      /\ \A p : Vetted(p)' = Vetted(p) /\ Unchecked(p)' = Unchecked(p)
  BY ProfileStays
<1>3. AtCheck(u)' = AtCheck(u) /\ Frame(u)' = Frame(u) /\ CanCheck' = CanCheck
  BY <1>2 DEF AtCheck, Frame, AtConn, CanCheck
<1>4. Guarded(u) => Guarded(u)'
  BY <1>2, <1>3 DEF Guarded
<1> QED BY <1>1, <1>2, <1>3, <1>4 DEF InCheck, AtConn

\* At the head of the connection's line a call is the only one with a link.
LEMMA OnlyHead ==
    ASSUME AllPlaced, NEW t \in Tasks, stage[t] \in {"setup", "wire"} \/ Turn(t), NEW u \in Tasks, u # t
    PROVE  stage[u] \notin {"setup", "wire"}
<1>1. queue["conn"][1] = t
  BY AtHead DEF Turn
<1> QED BY <1>1, AtHead

LEMMA OpStartsChecks ==
    ASSUME AllPlaced, AllSettled, SecretInv, RInv, NEW t \in Tasks, OpStarts(t)
    PROVE  SecretInv'
<1>1. /\ Turn(t) /\ Frame(t) \notin {"drop", "disconnect"} /\ link' \in {link, 0}
      /\ link' = (IF Frame(t) = "tap" THEN 0 ELSE link)
      /\ stage' = [stage EXCEPT ![t] = IF link' = 0 THEN "setup" ELSE "wire"]
      /\ owed' = (owed /\ link' > 0 /\ ~Vouched(t))
      /\ UNCHANGED <<device, method, todo, secret, pending, taken, early, excused>>
  BY DEF OpStarts, deviceVars
<1>2. todo[t] # <<>> /\ Head(todo[t]) = todo[t][1] /\ todo[t][1] \in Steps
      /\ todo[t][1][1] \in {"check", "write", "send", "query"} /\ Len(todo[t]) \in Nat \ {0}
  <2>1. Sound(todo[t]) /\ todo[t] # <<>> /\ todo[t][1][1] \in {"check", "write", "send", "query"}
    BY <1>1 DEF Turn, AllSettled, Settled, Halts, AtConn
  <2> QED BY <2>1, TailSettles
<1>3. stage[t] = "queued"
  BY <1>1, <1>2 DEF Turn, Frame
<1>4. stage'[t] = (IF link' = 0 THEN "setup" ELSE "wire") /\ \A u \in Tasks \ {t} : stage'[u] = stage[u]
  BY <1>1 DEF AllPlaced
<1>5. InCheck(t)
  BY DEF SecretInv
<1>6. /\ \A f : Has(f)' = Has(f)
      /\ \A u : Pairing(u)' = Pairing(u)
      /\ \A p : Vetted(p)' = Vetted(p) /\ Unchecked(p)' = Unchecked(p)
      /\ CanCheck' = CanCheck
  BY <1>1, ProfileStays DEF CanCheck
<1>7. AtCheck(t)' = AtCheck(t) /\ Frame(t)' = Frame(t)
  <2>1. stage'[t] \in {"setup", "wire"} /\ todo'[t] = todo[t]
    BY <1>1, <1>4
  <2>2. stage'[t] \in AtConn /\ stage[t] \in AtConn /\ stage'[t] # "refused" /\ stage[t] # "refused"
    BY <1>3, <2>1 DEF AtConn
  <2>3. AtCheck(t)' = AtCheck(t)
    BY <2>1, <2>2 DEF AtCheck, AtConn
  <2> QED BY <2>1, <2>2, <2>3 DEF Frame
<1>8. ASSUME ~Pairing(t), owed', Frame(t) # "connect" PROVE t \in excused
  <2>1. owed /\ link' > 0 /\ ~Vouched(t) /\ Guarded(t)
    BY <1>1, <1>5, <1>8 DEF InCheck
  <2>2. CASE Frame(t) = "check"
    <3>1. taken[t] # secret
      BY <2>1, <2>2 DEF Vouched
    <3>2. Head(todo[t])[1] = "check"
      <4>1. Head(todo[t])[2] # "check"
        BY <1>2 DEF Steps, DeviceLocks
      <4> QED BY <1>2, <1>3, <2>2, <4>1 DEF Frame
    <3>3. AtCheck(t)
      BY <1>3, <3>2 DEF AtCheck, AtConn
    <3> QED BY <2>1, <3>1, <3>3 DEF Guarded
  <2>3. CASE Frame(t) # "check"
    <3>1. Head(todo[t])[1] # "check" /\ Head(todo[t])[2] = Frame(t) /\ Frame(t) # "tap"
      BY <1>1, <1>2, <1>3, <2>1, <2>3 DEF Frame
    <3>2. Bare(todo[t][1])
      BY <1>1, <1>2, <1>8, <3>1 DEF Bare, Works
    <3>3. 1 \in 1 .. Len(todo[t]) /\ \A k \in 1 .. 1 : todo[t][k][1] # "check"
      BY <1>2, <3>1
    <3>4. Unchecked(todo[t])
      BY <3>2, <3>3 DEF Unchecked
    <3> QED BY <2>1, <3>4 DEF Guarded
  <2> QED BY <2>2, <2>3
<1>9. ~Pairing(t) => Guarded(t)'
  <2> SUFFICES ASSUME ~Pairing(t) PROVE Guarded(t)'
    OBVIOUS
  <2>1. Guarded(t)
    BY <1>5 DEF InCheck
  <2>2. owed' => owed
    BY <1>1
  <2>3. owed' /\ (Unchecked(todo[t]) \/ Frame(t) \notin {"connect", "drop"}) => t \in excused
    BY <1>8, <2>1, <2>2 DEF Guarded
  <2> QED BY <1>1, <1>6, <1>7, <2>1, <2>3 DEF Guarded
<1>10. InCheck(t)'
  <2>1. stage'[t] \in AtConn /\ (stage'[t] = "setup" => link' = 0) /\ todo'[t] = todo[t]
    BY <1>1, <1>4 DEF AtConn
  <2> QED BY <1>5, <1>6, <1>7, <1>9, <2>1 DEF InCheck, AtConn
<1>11. ASSUME NEW u \in Tasks, u # t PROVE InCheck(u)'
  BY <1>1, <1>4, <1>11, OthersInCheck
<1>12. ASSUME owed' PROVE pending' \/ \E u \in Tasks : Carries(u)'
  <2>1. owed /\ ~Vouched(t)
    BY <1>1, <1>12
  <2>2. ~Carries(t)
    BY <2>1 DEF Carries, Vouched, Frame
  <2>3. pending \/ \E u \in Tasks \ {t} : Carries(u)
    BY <2>1, <2>2, OthersCarry
  <2>4. ASSUME NEW u \in Tasks \ {t}, Carries(u) PROVE Carries(u)'
    BY <1>1, <1>4, <2>4 DEF Carries
  <2> QED BY <1>1, <2>3, <2>4
<1> QED BY <1>1, <1>6, <1>10, <1>11, <1>12 DEF SecretInv

\* A session that leaves out the empty check leaves it pending.
LEMMA SetUpChecks ==
    ASSUME AllPlaced, SecretInv, RInv, Has("emptyCheck") => Has("secret"), NEW t \in Tasks, SetUp(t)
    PROVE  SecretInv'
<1> DEFINE skipped == Has("emptyCheck") /\ ~ChecksSession(t)
<1>1. /\ stage[t] = "setup" /\ link' = links + 1
      /\ pending' = (pending \/ skipped) /\ owed' = skipped
      /\ excused' = excused \cup (IF skipped THEN early \cap Range(queue["conn"]) ELSE {})
      /\ stage' = [stage EXCEPT ![t] = "wire"]
      /\ UNCHANGED <<device, method, todo, secret, taken, early>>
  BY DEF SetUp
<1>2. skipped => secret = 0 /\ Pairing(t) /\ CanCheck /\ Has("emptyCheck")
  BY DEF ChecksSession, CanCheck, SecretInv
<1> HIDE DEF skipped
<1>3. link' > 0
  BY <1>1 DEF RInv
<1>4. stage'[t] = "wire" /\ \A u \in Tasks \ {t} : stage'[u] = stage[u]
  BY <1>1 DEF AllPlaced
<1>5. /\ \A f : Has(f)' = Has(f)
      /\ \A u : Pairing(u)' = Pairing(u)
      /\ \A p : Vetted(p)' = Vetted(p) /\ Unchecked(p)' = Unchecked(p)
      /\ CanCheck' = CanCheck
  BY <1>1, ProfileStays DEF CanCheck
<1>6. ASSUME NEW u \in Tasks PROVE InCheck(u)'
  <2>1. InCheck(u) /\ todo'[u] = todo[u]
    BY <1>1 DEF SecretInv
  <2>2. AtCheck(u)' = AtCheck(u)
    BY <1>1, <1>4 DEF AtCheck, AtConn
  <2>3. stage'[u] # "setup" /\ (Unchecked(todo[u]) => stage'[u] \in AtConn)
    BY <1>1, <1>4, <2>1, OnlyHead DEF InCheck, AtConn
  <2>4. ASSUME ~Pairing(u) PROVE Guarded(u)'
    <3>1. Guarded(u)
      BY <2>1, <2>4 DEF InCheck
    <3>2. ASSUME skipped, Unchecked(todo[u]) PROVE u \in excused'
      <4>1. u \in early
        BY <1>2, <3>1, <3>2 DEF Guarded
      <4>2. stage[u] \in AtConn
        BY <2>1, <3>2 DEF InCheck
      <4>3. u \in Range(queue["conn"])
        <5> DEFINE a == queue["conn"]
        <5>1. WaitsFor(todo[u], stage[u], "conn") /\ "conn" \in Locks
          BY <4>2 DEF WaitsFor, Locks
        <5>2. IsLine(a) /\ \E i \in 1 .. Len(a) : a[i] = u
          BY <5>1 DEF AllPlaced, InPlace
        <5> HIDE DEF a
        <5>3. a \in Seq(Tasks)
          BY <5>2, LineFacts
        <5>4. u \in Range(a)
          BY <5>2, <5>3, LenProperties DEF Range
        <5> QED BY <5>4 DEF a
      <4> QED BY <1>1, <3>2, <4>1, <4>3
    <3>3. ASSUME skipped, stage'[u] = "wire" PROVE FALSE
      BY <1>1, <1>2, <1>4, <2>4, <3>3, OnlyHead
    <3> QED BY <1>1, <1>5, <2>2, <3>1, <3>2, <3>3 DEF Guarded
  <2> QED BY <1>5, <2>1, <2>2, <2>3, <2>4 DEF InCheck, AtConn
<1> QED BY <1>1, <1>2, <1>3, <1>5, <1>6 DEF SecretInv

\* A call stays at the connection, and no check is owed on.
LEMMA StaysChecks ==
    ASSUME AllPlaced, SecretInv, NEW t \in Tasks, stage[t] \in AtConn, NEW next \in {"setup", "wire", "refused"},
           next = "setup" => link' = 0,
           next = "wire" => Head(todo[t])[1] # "check" /\ ~owed',
           ~Carries(t), stage' = [stage EXCEPT ![t] = next], link' \in {link, 0}, owed' => owed /\ link' > 0,
           UNCHANGED <<device, method, todo, secret, pending, taken, early, excused>>
    PROVE  SecretInv'
<1>1. stage'[t] = next /\ \A u \in Tasks \ {t} : stage'[u] = stage[u]
  BY DEF AllPlaced
<1>2. /\ \A f : Has(f)' = Has(f)
      /\ \A u : Pairing(u)' = Pairing(u)
      /\ \A p : Vetted(p)' = Vetted(p) /\ Unchecked(p)' = Unchecked(p)
      /\ CanCheck' = CanCheck
  BY ProfileStays DEF CanCheck
<1>3. InCheck(t)
  BY DEF SecretInv
<1>4. AtCheck(t)' = AtCheck(t)
  BY <1>1 DEF AtCheck, AtConn
<1>5. ~Pairing(t) => Guarded(t)'
  BY <1>1, <1>2, <1>3, <1>4 DEF InCheck, Guarded
<1>6. InCheck(t)'
  BY <1>1, <1>2, <1>3, <1>4, <1>5 DEF InCheck, AtConn
<1>7. ASSUME NEW u \in Tasks, u # t PROVE InCheck(u)'
  BY <1>1, <1>7, OthersInCheck
<1>8. ASSUME owed' PROVE pending' \/ \E u \in Tasks : Carries(u)'
  <2>1. pending \/ \E u \in Tasks \ {t} : Carries(u)
    BY <1>8, OthersCarry
  <2>2. ASSUME NEW u \in Tasks \ {t}, Carries(u) PROVE Carries(u)'
    BY <1>1, <2>2 DEF Carries
  <2> QED BY <2>1, <2>2
<1> QED BY <1>2, <1>6, <1>7, <1>8 DEF SecretInv

LEMMA OperatingChecks ==
    ASSUME AllPlaced, SecretInv, NEW t \in Tasks, CheckRefused(t) \/ Retry(t) \/ ReleaseDrops(t)
    PROVE  SecretInv'
<1>1. stage[t] \in AtConn /\ UNCHANGED <<device, method, todo, secret, pending, taken, early, excused>>
  BY DEF CheckRefused, Retry, ReleaseDrops, Turn, AtConn, deviceVars, history
<1>2. CASE CheckRefused(t)
  <2>1. /\ stage[t] = "wire" /\ stage' = [stage EXCEPT ![t] = "refused"] /\ link' = link /\ owed' = owed
    BY <1>2 DEF CheckRefused, history
  <2>2. ~Carries(t)
    BY <2>1 DEF Carries
  <2> QED BY <1>1, <2>1, <2>2, StaysChecks DEF SecretInv
<1>3. CASE Retry(t)
  <2>1. stage[t] = "wire" /\ stage' = [stage EXCEPT ![t] = "setup"] /\ link' = 0 /\ ~owed'
    BY <1>3 DEF Retry
  <2>2. ~Carries(t)
    BY <2>1 DEF Carries
  <2> QED BY <1>1, <2>1, <2>2, StaysChecks
<1>4. CASE ReleaseDrops(t)
  <2>1. Frame(t) = "drop" /\ stage' = [stage EXCEPT ![t] = "wire"] /\ link' = 0 /\ ~owed'
    BY <1>4 DEF ReleaseDrops
  <2>2. Head(todo[t])[1] # "check" /\ ~Carries(t)
    BY <2>1, Zenon DEF Frame, Carries
  <2> QED BY <1>1, <2>1, <2>2, StaysChecks
<1> QED BY <1>2, <1>3, <1>4

\* With a new secret every call under way is excused.
LEMMA SetSecretChecks ==
    ASSUME SecretInv, SetSecret
    PROVE  SecretInv'
<1>1. /\ Has("secret") /\ secret' = secret + 1 /\ pending' = TRUE
      /\ owed' = (link > 0) /\ excused' = {t \in Tasks : stage[t] \notin {"idle", "done"}}
      /\ UNCHANGED <<device, method, todo, stage, taken, link, early>>
  BY DEF SetSecret, linkVars
<1>2. /\ \A f : Has(f)' = Has(f)
      /\ \A u : Pairing(u)' = Pairing(u)
      /\ \A p : Vetted(p)' = Vetted(p) /\ Unchecked(p)' = Unchecked(p)
  BY <1>1, ProfileStays
<1>3. secret' \in Nat /\ secret' > 0 /\ CanCheck'
  BY <1>1, <1>2 DEF SecretInv, CanCheck
<1>4. ASSUME NEW u \in Tasks PROVE InCheck(u)'
  <2>1. InCheck(u)
    BY DEF SecretInv
  <2>2. stage[u] \in AtConn => u \in excused'
    BY <1>1 DEF AtConn
  <2>3. AtCheck(u)' => stage[u] \in AtConn
    BY <1>1 DEF AtCheck, AtConn
  <2>4. Guarded(u)'
    BY <1>1, <1>2, <1>3, <2>1, <2>2, <2>3 DEF Guarded, InCheck, AtConn
  <2> QED BY <1>1, <1>2, <1>3, <2>1, <2>4 DEF InCheck, AtConn
<1> QED BY <1>1, <1>3, <1>4 DEF SecretInv

\* The rest of the world leaves the calls alone.
LEMMA WorldChecks ==
    ASSUME SecretInv, LinkDrops \/ BeatStarts \/ BeatEnds \/ Finished \/ UNCHANGED vars
    PROVE  SecretInv'
<1>1. /\ UNCHANGED <<device, method, todo, stage, secret, pending, taken, early, excused>>
      /\ (link' = link /\ owed' = owed) \/ (link' = 0 /\ ~owed')
  BY DEF LinkDrops, BeatStarts, BeatEnds, Finished, vars, deviceVars, linkVars, history
<1>2. \A u \in Tasks : InCheck(u)'
  BY <1>1, OthersInCheck
<1>3. (\A f : Has(f)' = Has(f)) /\ CanCheck' = CanCheck
  BY <1>1, ProfileStays DEF CanCheck
<1>4. \A u \in Tasks : Carries(u)' = Carries(u)
  BY <1>1 DEF Carries
<1> QED BY <1>1, <1>2, <1>3, <1>4 DEF SecretInv

LEMMA SecretInvInit == Init => SecretInv
<1> SUFFICES ASSUME Init PROVE SecretInv
  OBVIOUS
<1>1. /\ secret = 0 /\ ~pending /\ ~owed /\ taken = [t \in Tasks |-> 0]
      /\ \A t \in Tasks : todo[t] = <<>> /\ stage[t] = "idle"
  BY DEF Init
<1>2. <<>> \in Seq(Steps) /\ Vetted(<<>>) /\ ~Unchecked(<<>>)
  BY WaryNothing DEF Wary
<1>3. ASSUME NEW t \in Tasks PROVE InCheck(t)
  <2>1. ~AtCheck(t)
    BY <1>1 DEF AtCheck, AtConn
  <2> QED BY <1>1, <1>2, <2>1 DEF InCheck, Guarded
<1> QED BY <1>1, <1>3 DEF SecretInv

LEMMA SecretInvNext ==
    ASSUME AllPlaced, AllSettled, RInv, Profiled, SecretInv, [Next]_vars
    PROVE  SecretInv'
<1>1. Has("emptyCheck") => Has("secret")
  BY DeviceCallsAssumption DEF Profiled, Has
<1>2. ASSUME NEW t \in Tasks, Start(t) PROVE SecretInv'
  BY <1>1, <1>2, StartChecks
<1>3. ASSUME NEW t \in Tasks, TakeLock(t) \/ PairingOver(t) \/ Loaded(t) PROVE SecretInv'
  BY <1>1, <1>3, ResumingChecks
<1>4. ASSUME NEW t \in Tasks, Succeeds(t) \/ Connected(t) \/ ReleaseKeeps(t) \/ ReleaseEnds(t) PROVE SecretInv'
  BY <1>1, <1>4, ReturningChecks
<1>5. ASSUME NEW t \in Tasks, Fails(t) \/ Lost(t) \/ Disconnects(t) PROVE SecretInv'
  BY <1>1, <1>5, ThrowingChecks
<1>6. ASSUME NEW t \in Tasks, Cancel(t) PROVE SecretInv'
  BY <1>1, <1>6, CancelChecks
<1>7. ASSUME NEW t \in Tasks, OpStarts(t) PROVE SecretInv'
  BY <1>7, OpStartsChecks
<1>8. ASSUME NEW t \in Tasks, SetUp(t) PROVE SecretInv'
  BY <1>1, <1>8, SetUpChecks
<1>9. ASSUME NEW t \in Tasks, CheckRefused(t) \/ Retry(t) \/ ReleaseDrops(t) PROVE SecretInv'
  BY <1>9, OperatingChecks
<1>10. ASSUME SetSecret PROVE SecretInv'
  BY <1>10, SetSecretChecks
<1>11. ASSUME LinkDrops \/ BeatStarts \/ BeatEnds \/ Finished \/ UNCHANGED vars PROVE SecretInv'
  BY <1>11, WorldChecks
<1> QED BY <1>2, <1>3, <1>4, <1>5, <1>6, <1>7, <1>8, <1>9, <1>10, <1>11 DEF Next

\* Whatever secret is in force, no frame goes ahead of its check on a session but by the calls that
\* could not know of it: those under way when it was set, those whose check another call had taken, and
\* those a read_secret of the same session overtook (CheckFirst).
THEOREM ChecksGoFirst == Spec => []CheckFirst
<1>1. Init => RInv /\ AllPlaced /\ Profiled /\ AllSettled /\ SecretInv
  BY RInvInit, AllPlacedInit, AllSettledInit, SecretInvInit DEF Init, Profiled
<1>2. RInv /\ AllPlaced /\ Profiled /\ AllSettled /\ SecretInv /\ [Next]_vars
         => (RInv /\ AllPlaced /\ Profiled /\ AllSettled /\ SecretInv)'
  BY RInvNext, AllPlacedNext, AllSettledNext, SecretInvNext
<1>3. SecretInv => CheckFirst
  <2> SUFFICES ASSUME SecretInv, NEW t \in Tasks, OnWire(t), owed, Frame(t) \notin {"check", "drop"}, ~Pairing(t)
               PROVE  t \in excused
    BY DEF CheckFirst
  <2>1. Guarded(t)
    BY DEF SecretInv, InCheck
  <2> QED BY <2>1 DEF Guarded, OnWire
<1> QED BY <1>1, <1>2, <1>3, PTL DEF Spec
=============================================================================
