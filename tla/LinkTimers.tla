----------------------------- MODULE LinkTimers -----------------------------
(***************************************************************************)
(* How long a GoveeConnection keeps its link, and its heartbeat            *)
(* (transport/connection.py): the idle timer, the warm window a command    *)
(* opens, the idle disconnect that waits for the lock, and the chain of    *)
(* heartbeat ticks whose beats write under the same lock.                  *)
(*                                                                         *)
(* Time passes in units (Tick).  The event loop runs what is due before    *)
(* time passes on; an operation and a beat's write may take any time, the  *)
(* write up to its bound.  What an operation says to the device is in      *)
(* Connection: here it connects, sets the session up, sends, tears down.   *)
(***************************************************************************)
EXTENDS Integers, Sequences, SequencesExt

CONSTANTS
    Tasks,        \* the callers, one operation each
    Kinds,        \* the operations they may call
    Timings,      \* the heartbeat timings of the profile
    Idle,         \* IDLE_DISCONNECT_DELAY
    Warm,         \* ACTIVE_IDLE_DELAY
    Interval,     \* HEARTBEAT_INTERVAL
    WriteBound,   \* HEARTBEAT_WRITE_TIMEOUT
    MaxLinks      \* bound: links that come up

\* "command": a write (extend_warm); "read": any other operation; "release":
\* disconnect(); "close": close().
ASSUME LinkTimersAssumption ==
    /\ Kinds \subseteq {"command", "read", "release", "close"} /\ Tasks \cap {"idle", "beat", "free"} = {}
    /\ Timings \subseteq {"fixed_rate", "after_quiet"} /\ Timings # {}
    /\ Idle \in Nat \ {0} /\ Warm \in Nat /\ Idle <= Warm
    /\ Interval \in Nat \ {0} /\ WriteBound \in Nat /\ WriteBound < Interval
    /\ MaxLinks \in Nat

VARIABLES
    status,       \* each task's call
    kind,
    timing,       \* _heartbeat_timing
    holder,       \* who holds _lock: a task, "idle", "beat", or "free"
    waiters,      \* who waits for it, in order, with its idle generation
    opConnecting, \* the running operation is in its connect phase
    opSent,       \* ... has sent a frame
    opAge,        \* ... and started this long ago
    link,         \* _client, 0 for None
    session,      \* of that link: "none", "setup" (_ready), "ready" (set up)
    linkUp,       \* the radio still has that link
    links,        \* links that have come up
    idleLeft,     \* _idle_timer: time to its firing, Off when there is none
    generation,   \* _idle_generation
    idleTasks,    \* generations whose idle task was created and has not started
    warmLeft,     \* _active_until - now
    chainLeft,    \* _heartbeat_timer: time to the next tick, Off when stopped
    chainLink,    \* ... and the client it was armed with
    beat,         \* _heartbeat_beat: "none", "created", "writing", "cancelled"
    beatLink,     \* ... its client
    beatStale,    \* ... a frame went out since its tick
    beatLeft,     \* ... what is left of its write's bound
    holds,        \* a hold_heartbeat block is open
    closed,       \* _closed
    quiet,        \* history: time since an operation ended
    warmth,       \* history: since the command that opened the warm window started
    warmOn,       \* history: the link that command ended on
    talked,       \* history: since the event the first beat is counted from
    silent        \* history: since the link was busy, or a beat was written

callVars == <<status, kind, timing>>
lockVars == <<holder, waiters>>
opVars == <<opConnecting, opSent, opAge>>
linkVars == <<link, session, linkUp, links>>
idleVars == <<idleLeft, generation, idleTasks, warmLeft>>
chainVars == <<chainLeft, chainLink>>
beatVars == <<beat, beatLink, beatStale, beatLeft>>
history == <<quiet, warmth, warmOn, talked, silent>>
vars == <<callVars, lockVars, opVars, linkVars, idleVars, chainVars, beatVars, holds, closed, history>>

Off == -1
\* Ages are told apart up to the delay they are compared with.
Old == Warm + 1
Due == Interval + 1
Older(age, cap) == IF age < cap THEN age + 1 ELSE cap
Longer(d, e) == IF d >= e THEN d ELSE e

IsConnected == link # 0 /\ linkUp /\ session # "none"

Init ==
    /\ status = [t \in Tasks |-> "new"] /\ kind \in [Tasks -> Kinds] /\ timing \in Timings
    /\ holder = "free" /\ waiters = <<>>
    /\ opConnecting = FALSE /\ opSent = FALSE /\ opAge = 0
    /\ link = 0 /\ session = "none" /\ linkUp = FALSE /\ links = 0
    /\ idleLeft = Off /\ generation = 0 /\ idleTasks = {} /\ warmLeft = 0
    /\ chainLeft = Off /\ chainLink = 0
    /\ beat = "none" /\ beatLink = 0 /\ beatStale = FALSE /\ beatLeft = 0
    /\ holds = FALSE /\ closed = FALSE
    /\ quiet = Old /\ warmth = Old /\ warmOn = 0 /\ talked = Due /\ silent = 0

-----------------------------------------------------------------------------
(* Building blocks.                                                        *)

\* _cancel_idle_timer.
CancelIdleTimer == idleLeft' = Off /\ generation' = generation + 1

\* _cancel_beat.
CancelBeat == beat' = IF beat \in {"created", "writing"} THEN "cancelled" ELSE beat

\* Fault: the chain is armed on a closed connection.
ArmThoughClosed(l) == IF l = 0 THEN chainLeft' = Off /\ UNCHANGED chainLink
                               ELSE chainLeft' = Interval /\ chainLink' = l

\* _arm_heartbeat.
Arm(l) == IF closed \/ l = 0 THEN chainLeft' = Off /\ UNCHANGED chainLink
                             ELSE chainLeft' = Interval /\ chainLink' = l

\* _disconnect_locked and _on_disconnect: the session, the chain and the warm
\* window end with the link.
LinkEnds ==
    /\ link' = 0 /\ session' = "none" /\ linkUp' = FALSE
    /\ warmLeft' = 0 /\ warmth' = Old
    /\ chainLeft' = Off /\ UNCHANGED chainLink

\* _link_busy, for a tick or for the beat's own task.
LinkBusy(writing) == waiters # <<>> \/ holder # "free" \/ holds \/ writing

-----------------------------------------------------------------------------
(* The lock, and the operations.                                           *)

\* What an operation does at once when it has the lock: _run up to op(), or
\* disconnect() from keep() to its teardown.  A kept link leaves no trace.
Starts(t) ==
    /\ opConnecting' = FALSE /\ opSent' = FALSE /\ opAge' = 0
    /\ silent' = 0
    /\ IF kind[t] \in {"command", "read"}
       THEN /\ CancelIdleTimer
            /\ IF kind[t] = "command" THEN warmLeft' = Warm /\ warmth' = 0 ELSE UNCHANGED <<warmLeft, warmth>>
            /\ holder' = t /\ status' = [status EXCEPT ![t] = "running"]
            /\ UNCHANGED <<link, session, linkUp, chainVars>>
       ELSE \/ /\ CancelIdleTimer /\ LinkEnds
               /\ holder' = t /\ status' = [status EXCEPT ![t] = "running"]
            \/ /\ kind[t] = "release"
               /\ holder' = "free" /\ status' = [status EXCEPT ![t] = "done"]
               /\ UNCHANGED <<idleLeft, generation, warmLeft, link, session, linkUp, chainVars, warmth>>

\* Fault: a command queues behind a beat.
CallCancelsForTeardown(t) == kind[t] \in {"release", "close"}

\* A beat that a call would wait for is cancelled.
CallCancels(t) == holder # "free" \/ kind[t] \in {"release", "close"}

\* A call: close() stops the chain at once; a beat still writing is cancelled,
\* by an operation when it would wait for it.
Call(t) ==
    /\ status[t] = "new"
    /\ closed' = (closed \/ kind[t] = "close")
    /\ IF CallCancels(t) THEN CancelBeat ELSE UNCHANGED beat
    /\ IF holder = "free" /\ waiters = <<>>
       THEN Starts(t) /\ UNCHANGED waiters
       ELSE /\ status' = [status EXCEPT ![t] = "waiting"]
            /\ waiters' = Append(waiters, [who |-> t, gen |-> 0])
            /\ chainLeft' = (IF kind[t] = "close" THEN Off ELSE chainLeft)
            /\ silent' = 0
            /\ UNCHANGED <<holder, opVars, link, session, linkUp, idleLeft, generation, warmLeft,
                           chainLink, warmth>>
    /\ UNCHANGED <<kind, timing, links, idleTasks, beatLink, beatStale, beatLeft, holds, quiet, warmOn, talked>>

\* A cancelled waiter leaves the queue.
CancelWaiting(t) ==
    /\ status[t] = "waiting"
    /\ status' = [status EXCEPT ![t] = "done"]
    /\ \E i \in DOMAIN waiters : waiters[i].who = t /\ waiters' = RemoveAt(waiters, i)
    /\ UNCHANGED <<kind, timing, holder, opVars, linkVars, idleVars, chainVars, beatVars, holds,
                   closed, history>>

\* Fault: the generation is looked at when the timer fires only.
IdleHasLockUnchecked(g) == LinkEnds /\ idleLeft' = Off /\ holder' = "idle"

\* The idle disconnect has the lock: an operation that ran since the timer
\* fired has made it stale.
IdleHasLock(g) ==
    IF g # generation
    THEN holder' = "free" /\ UNCHANGED <<idleLeft, link, session, linkUp, warmLeft, chainVars, warmth>>
    ELSE LinkEnds /\ idleLeft' = Off /\ holder' = "idle"

\* The first waiter wakes up after a release and takes the lock.
Wake ==
    /\ holder = "free" /\ waiters # <<>>
    /\ waiters' = Tail(waiters)
    /\ IF Head(waiters).who = "idle"
       THEN IdleHasLock(Head(waiters).gen) /\ UNCHANGED <<status, opVars, generation, silent>>
       ELSE Starts(Head(waiters).who)
    /\ UNCHANGED <<kind, timing, links, idleTasks, beatVars, holds, closed, quiet, warmOn, talked>>

Operates(t) == holder = t /\ kind[t] \in {"command", "read"}

\* _ensure_connected_locked: only it looks at _closed, for the whole phase.
OpEnsures(t) ==
    /\ Operates(t) /\ ~opConnecting /\ ~IsConnected /\ ~closed
    /\ opConnecting' = TRUE
    /\ UNCHANGED <<callVars, lockVars, opSent, opAge, linkVars, idleVars, chainVars, beatVars, holds,
                   closed, history>>

\* The connect phase: a link comes up when there is none, or when the radio
\* has lost the current one.
OpConnects(t) ==
    /\ Operates(t) /\ opConnecting /\ ~(link # 0 /\ linkUp) /\ links < MaxLinks
    /\ links' = links + 1 /\ link' = links + 1 /\ linkUp' = TRUE /\ session' = "none"
    /\ UNCHANGED <<callVars, lockVars, opVars, idleVars, chainVars, beatVars, holds, closed, history>>

\* The handshake is done (_ready); the unlock and session frames follow.
OpReady(t) ==
    /\ Operates(t) /\ link # 0 /\ session = "none"
    /\ session' = "setup"
    /\ UNCHANGED <<callVars, lockVars, opVars, link, linkUp, links, idleVars, chainVars, beatVars,
                   holds, closed, history>>

\* Session setup is over: the chain starts.
OpSetUp(t) ==
    /\ Operates(t) /\ link # 0 /\ session = "setup"
    /\ session' = "ready" /\ opSent' = TRUE /\ beatStale' = TRUE
    /\ opConnecting' = FALSE
    /\ Arm(link)
    /\ talked' = 0
    /\ UNCHANGED <<callVars, lockVars, opAge, link, linkUp, links, idleVars, beat, beatLink, beatLeft,
                   holds, closed, quiet, warmth, warmOn, silent>>

OpSends(t) ==
    /\ Operates(t) /\ link # 0 /\ session = "ready"
    /\ opSent' = TRUE /\ beatStale' = TRUE
    /\ UNCHANGED <<callVars, lockVars, opConnecting, opAge, linkVars, idleVars, chainVars, beat,
                   beatLink, beatLeft, holds, closed, history>>

\* A failure, a deadline, or a retry tears the link down within the operation;
\* a connect phase that fails always does.
OpTearsDown(t) ==
    /\ Operates(t) /\ (link # 0 \/ opConnecting)
    /\ LinkEnds
    /\ opConnecting' \in {FALSE, opConnecting}
    /\ UNCHANGED <<callVars, lockVars, opSent, opAge, links, idleLeft, generation, idleTasks, beatVars, holds,
                   closed, quiet, warmOn, talked, silent>>

\* _schedule_idle_timer's delay.
IdleDelay(warm) == Longer(Idle, warm)

\* On after_quiet an operation that sent a frame restarts a running chain.
RestartsChain(t) == timing = "after_quiet" /\ chainLeft # Off /\ opSent

\* The operation ends, its connect phase over or refused (closed, or AES-GCM):
\* _run's finally clause.  A teardown by disconnect() or close() ends as well.
OpEnds(t) ==
    /\ holder = t
    /\ holder' = "free" /\ status' = [status EXCEPT ![t] = "done"]
    /\ silent' = 0
    /\ IF kind[t] \in {"release", "close"}
       THEN UNCHANGED <<idleLeft, generation, warmLeft, chainVars, quiet, warmth, warmOn, talked>>
       ELSE /\ ~opConnecting
            /\ LET stillWarm == IF Warm > opAge THEN Warm - opAge ELSE 0
                   warm == IF kind[t] = "command" /\ link # 0 THEN stillWarm ELSE warmLeft
               IN  /\ warmLeft' = warm
                   /\ generation' = generation + 1
                   /\ idleLeft' = IF link = 0 THEN Off ELSE IdleDelay(warm)
            /\ IF kind[t] = "command" /\ link # 0
               THEN warmth' = opAge /\ warmOn' = link
               ELSE UNCHANGED <<warmth, warmOn>>
            /\ quiet' = 0
            /\ IF RestartsChain(t) THEN Arm(link) ELSE UNCHANGED chainVars
            /\ talked' = IF timing = "after_quiet" /\ opSent THEN 0 ELSE talked
    /\ UNCHANGED <<kind, timing, waiters, opVars, linkVars, idleTasks, beatVars, holds, closed>>

-----------------------------------------------------------------------------
(* The idle disconnect.                                                    *)

IdleFired ==
    /\ idleLeft = 0
    /\ idleLeft' = Off
    /\ idleTasks' = idleTasks \cup {generation}
    /\ UNCHANGED <<callVars, lockVars, opVars, linkVars, generation, warmLeft, chainVars, beatVars,
                   holds, closed, history>>

\* Fault: the idle disconnect waits for a beat that is writing.
IdleStartsBehindBeat(g) ==
    /\ g \in idleTasks
    /\ idleTasks' = idleTasks \ {g}
    /\ IF holder = "free" /\ waiters = <<>>
       THEN IdleHasLock(g) /\ UNCHANGED waiters
       ELSE /\ waiters' = Append(waiters, [who |-> "idle", gen |-> g])
            /\ UNCHANGED <<holder, idleLeft, link, session, linkUp, warmLeft, chainVars, warmth>>
    /\ UNCHANGED <<callVars, opVars, links, generation, beatVars, holds, closed, quiet, warmOn, talked, silent>>

\* _idle_disconnect_task starts: a beat still writing does not extend the link.
IdleStarts(g) ==
    /\ g \in idleTasks
    /\ idleTasks' = idleTasks \ {g}
    /\ IF g = generation THEN CancelBeat ELSE UNCHANGED beat
    /\ IF holder = "free" /\ waiters = <<>>
       THEN IdleHasLock(g) /\ UNCHANGED waiters
       ELSE /\ waiters' = Append(waiters, [who |-> "idle", gen |-> g])
            /\ UNCHANGED <<holder, idleLeft, link, session, linkUp, warmLeft, chainVars, warmth>>
    /\ UNCHANGED <<callVars, opVars, links, generation, beatLink, beatStale, beatLeft, holds, closed,
                   quiet, warmOn, talked, silent>>

\* Its teardown has been waited for.
IdleEnds ==
    /\ holder = "idle"
    /\ holder' = "free"
    /\ UNCHANGED <<callVars, waiters, opVars, linkVars, idleVars, chainVars, beatVars, holds, closed,
                   history>>

-----------------------------------------------------------------------------
(* The heartbeat.                                                          *)

HoldHeartbeat ==
    /\ holds' = ~holds /\ silent' = 0
    /\ UNCHANGED <<callVars, lockVars, opVars, linkVars, idleVars, chainVars, beatVars, closed, quiet,
                   warmth, warmOn, talked>>

\* Fault: a tick dropped on a busy link is the chain's last.
HeartbeatFiredOnce ==
    /\ chainLeft = 0
    /\ IF closed \/ chainLink # link \/ ~IsConnected \/ LinkBusy(beat # "none")
       THEN chainLeft' = Off /\ UNCHANGED <<chainLink, beatVars>>
       ELSE /\ chainLeft' = Interval /\ UNCHANGED chainLink
            /\ beat' = "created" /\ beatLink' = chainLink /\ beatStale' = FALSE /\ beatLeft' = 0
    /\ UNCHANGED <<callVars, lockVars, opVars, linkVars, idleVars, holds, closed, history>>

\* _heartbeat_fired: re-armed first, the beat dropped when the link is busy.
HeartbeatFired ==
    /\ chainLeft = 0
    /\ IF closed \/ chainLink # link \/ ~IsConnected
       THEN chainLeft' = Off /\ UNCHANGED <<chainLink, beatVars>>
       ELSE /\ chainLeft' = Interval /\ UNCHANGED chainLink
            /\ IF LinkBusy(beat # "none")
               THEN UNCHANGED beatVars
               ELSE beat' = "created" /\ beatLink' = chainLink /\ beatStale' = FALSE /\ beatLeft' = 0
    /\ UNCHANGED <<callVars, lockVars, opVars, linkVars, idleVars, holds, closed, history>>

\* Fault: the beat does not look at the frames sent since its tick.
BeatDroppedWhenBusy == LinkBusy(FALSE) \/ beatLink # link \/ ~IsConnected

\* What drops a beat as it starts.
BeatDropped ==
    \/ LinkBusy(FALSE)
    \/ timing = "after_quiet" /\ beatStale
    \/ beatLink # link \/ ~IsConnected

\* _beat, to its write: it takes the lock without a yield.
BeatStarts ==
    /\ beat = "created"
    /\ IF BeatDropped
       THEN beat' = "none" /\ UNCHANGED <<holder, beatLeft, silent>>
       ELSE beat' = "writing" /\ holder' = "beat" /\ beatLeft' = WriteBound /\ silent' = 0
    /\ UNCHANGED <<callVars, waiters, opVars, linkVars, idleVars, chainVars, beatLink, beatStale, holds,
                   closed, quiet, warmth, warmOn, talked>>

\* The write ends, or fails, or reaches its bound, or the beat is cancelled.
BeatEnds ==
    /\ beat \in {"writing", "cancelled"}
    /\ beat' = "none"
    /\ holder' = IF holder = "beat" THEN "free" ELSE holder
    /\ UNCHANGED <<callVars, waiters, opVars, linkVars, idleVars, chainVars, beatLink, beatStale,
                   beatLeft, holds, closed, history>>

-----------------------------------------------------------------------------
(* The radio, and time.                                                    *)

LinkDrops ==
    /\ link # 0 /\ linkUp
    /\ linkUp' = FALSE
    /\ UNCHANGED <<callVars, lockVars, opVars, link, session, links, idleVars, chainVars, beatVars, holds,
                   closed, history>>

\* The disconnect callback of the current client.
OnDisconnect ==
    /\ link # 0 /\ ~linkUp
    /\ LinkEnds
    /\ UNCHANGED <<callVars, lockVars, opVars, links, idleLeft, generation, idleTasks, beatVars, holds,
                   closed, quiet, warmOn, talked, silent>>

\* The loop runs what is due before time goes on.
NothingDue ==
    /\ idleLeft # 0 /\ chainLeft # 0 /\ idleTasks = {}
    /\ beat \notin {"created", "cancelled"}
    /\ beat = "writing" => beatLeft > 0
    /\ holder = "free" => waiters = <<>>

Tick ==
    /\ NothingDue
    /\ idleLeft' = (IF idleLeft = Off THEN Off ELSE idleLeft - 1)
    /\ chainLeft' = (IF chainLeft = Off THEN Off ELSE chainLeft - 1)
    /\ warmLeft' = (IF warmLeft = 0 THEN 0 ELSE warmLeft - 1)
    /\ beatLeft' = (IF beat = "writing" THEN beatLeft - 1 ELSE beatLeft)
    /\ opAge' = (IF holder \in Tasks THEN Older(opAge, Old) ELSE opAge)
    /\ quiet' = Older(quiet, Old) /\ warmth' = Older(warmth, Old) /\ talked' = Older(talked, Due)
    /\ silent' = (IF link = 0 \/ holds \/ holder \in Tasks \cup {"idle"} THEN 0 ELSE Older(silent, Due))
    /\ UNCHANGED <<callVars, lockVars, opConnecting, opSent, linkVars, warmOn, generation, idleTasks, chainLink, beat, beatLink,
                   beatStale, holds, closed>>

Next ==
    \/ \E t \in Tasks : \/ Call(t) \/ CancelWaiting(t)
                        \/ OpEnsures(t) \/ OpConnects(t) \/ OpReady(t) \/ OpSetUp(t) \/ OpSends(t) \/ OpTearsDown(t)
                        \/ OpEnds(t)
    \/ Wake
    \/ IdleFired \/ (\E g \in idleTasks : IdleStarts(g)) \/ IdleEnds
    \/ HoldHeartbeat \/ HeartbeatFired \/ BeatStarts \/ BeatEnds
    \/ LinkDrops \/ OnDisconnect
    \/ Tick

Spec == Init /\ [][Next]_vars

-----------------------------------------------------------------------------
(* Properties.                                                             *)

Counts(cap) == Off .. cap

CallsTyped ==
    /\ status \in [Tasks -> {"new", "waiting", "running", "done"}]
    /\ kind \in [Tasks -> Kinds] /\ timing \in Timings
    /\ holder \in Tasks \cup {"idle", "beat", "free"}
    /\ waiters \in Seq([who : Tasks \cup {"idle"}, gen : Nat])
    /\ opAge \in 0 .. Old

FlagsTyped ==
    /\ opConnecting \in BOOLEAN /\ opSent \in BOOLEAN /\ linkUp \in BOOLEAN
    /\ beatStale \in BOOLEAN /\ holds \in BOOLEAN /\ closed \in BOOLEAN

LinkTyped ==
    /\ links \in 0 .. MaxLinks /\ session \in {"none", "setup", "ready"}
    /\ link \in 0 .. links /\ chainLink \in 0 .. links /\ beatLink \in 0 .. links
    /\ warmOn \in 0 .. links

IdleTyped ==
    /\ idleLeft \in Counts(Longer(Idle, Warm)) /\ generation \in Nat /\ idleTasks \subseteq Nat
    /\ warmLeft \in 0 .. Warm

BeatTyped ==
    /\ chainLeft \in Counts(Interval)
    /\ beat \in {"none", "created", "writing", "cancelled"}
    /\ beatLeft \in 0 .. WriteBound

HistoryTyped ==
    /\ quiet \in 0 .. Old /\ warmth \in 0 .. Old
    /\ talked \in 0 .. Due /\ silent \in 0 .. Due

TypeOK == CallsTyped /\ FlagsTyped /\ LinkTyped /\ IdleTyped /\ BeatTyped /\ HistoryTyped

\* The idle disconnect takes a link only once no operation has ended on it for
\* IDLE_DISCONNECT_DELAY and no command has started for ACTIVE_IDLE_DELAY,
\* whatever ran between the timer's firing and the lock (_idle_generation).
IdleNeverEarly ==
    [][holder' = "idle" /\ holder # "idle" /\ link # 0 => quiet >= Idle /\ warmth >= Warm]_vars

\* ... and it does not leave it longer than that either: the heartbeat and its
\* beats never keep a link that no operation uses (const.HEARTBEAT_INTERVAL).
LinkNotKept ==
    (/\ link # 0
     /\ holder \notin Tasks \cup {"idle"}
     /\ \A i \in DOMAIN waiters : waiters[i].who = "idle")
    => quiet <= Idle \/ warmth <= Warm

\* A read that reconnects after a device-side drop gets the base idle delay,
\* not what was left of the window of a command that ended on the lost link
\* (_on_disconnect).
WindowEndsWithLink == link # 0 /\ idleLeft > Idle => warmOn \in {0, link}

\* Nobody waits behind a beat: it starts only when there is no waiter, and is
\* cancelled when one comes (_cancel_beat).  Only an idle disconnect that was
\* stale before it got to wait lets it write.
NobodyWaitsForBeat ==
    holder = "beat" /\ beat = "writing" =>
        \A i \in DOMAIN waiters : waiters[i].who = "idle" /\ waiters[i].gen # generation

\* After close() has begun, no tick is armed and no beat goes out, whatever an
\* operation that was still running does when it ends.
ClosedIsSilent == closed => chainLeft = Off /\ beat \notin {"created", "writing"}

\* A beat goes out on a link set up, one HEARTBEAT_INTERVAL at least after its
\* session's setup, and on after_quiet after the last operation that wrote.
BeatAfterQuiet ==
    [][beat' = "writing" /\ beat # "writing" => session = "ready" /\ talked >= Interval]_vars

\* A link set up that nobody uses gets a beat every HEARTBEAT_INTERVAL: no
\* dropped tick, no restart and no new link ends its chain.
KeptAlive == link # 0 /\ linkUp /\ session = "ready" /\ ~closed => silent <= Interval
=============================================================================
