---------------------------- MODULE DeviceCalls ----------------------------
(***************************************************************************)
(* Concurrent calls on one Device (devices/device.py): the asyncio locks   *)
(* they nest, the tickets release() asks about, and the secret check that  *)
(* goes ahead of every frame of a locked device.                           *)
(*                                                                         *)
(* A call is the list of what it still has to do: take a lock, leave one,  *)
(* send the pending check, do one operation of the connection.  It runs    *)
(* from one await to the next in a single step, as a coroutine does.  Of   *)
(* the connection (module Connection) only the FIFO lock, the link's       *)
(* number, session setup and the retry of a write on a fresh link are      *)
(* kept.  Every call may fail, be refused or be cancelled at any await.    *)
(***************************************************************************)
EXTENDS Integers, SequencesExt

CONSTANTS
    Tasks,      \* the callers, each making one call
    Devices,    \* the profiles looked at: [has: its features, calls: the methods called]
    MaxLinks,   \* bound: links opened
    MaxSecrets  \* bound: calls of set_secret

Features == {"bars", "pair", "sections", "scenePower", "resync", "secret", "emptyCheck", "perCommand"}
Methods == {"setPower", "turnOn", "setBrightness", "setRgb", "setColorTemp", "setZonePower", "setScene",
            "setSceneByName", "update", "readSecret", "connect", "release"}

ASSUME DeviceCallsAssumption ==
    /\ MaxLinks \in Nat /\ MaxSecrets \in Nat /\ IsFiniteSet(Tasks)
    /\ \A d \in Devices : d.has \subseteq Features /\ d.calls \subseteq Methods
    \* The resolver refuses an empty check without the account lock.
    /\ \A d \in Devices : "emptyCheck" \in d.has => "secret" \in d.has

DeviceLocks == {"scene", "brightness", "bar", "gate", "pairing", "tap"}
Locks == DeviceLocks \cup {"conn"}

VARIABLES
    device,     \* the profile, fixed
    todo,       \* what each call has still to do; its head is where it waits
    stage,      \* how it waits there: idle, lock, pairing, queued, setup, wire, refused, load, done
    queue,      \* each asyncio.Lock: its holder, then its waiters
    method,     \* what each call is
    ticket,     \* its number (_tickets counts them), 0 before it starts
    linkWrite,  \* _link_write: the link and the latest ticket that wrote on it
    secret,     \* _secret: 0 for none, else which one was set
    pending,    \* _unlock_pending
    taken,      \* the secret each call read as it took the pending check
    link,       \* link_number, 0 while no session is up
    links,      \* _links_opened
    again,      \* the running write is on its second link
    beat,       \* a heartbeat holds the connection's lock
    owed,       \* history: no check of this secret has gone out on this link
    early,      \* history: the calls that passed their check with no read_secret in flight
    excused,    \* history: the calls whose own check could not know what the session lacks
    wroteOn,    \* history: the link each call's last write went out on
    released    \* history: what release() returned, "none" before

deviceVars == <<ticket, method, linkWrite, secret, pending, taken>>
linkVars == <<link, links, again, beat>>
history == <<owed, early, excused, wroteOn, released>>
vars == <<device, todo, stage, queue, deviceVars, linkVars, history>>

Has(f) == f \in device.has

-----------------------------------------------------------------------------
(* The calls.  <<"in", s>> and <<"out", s>> bound a section: "hold" is     *)
(* hold_heartbeat, the others have no code of their own and mark from      *)
(* where to where a call must not be torn ("between": it has sent a frame  *)
(* and has another to send).                                               *)

Lock(l) == <<"lock", l>>
Free(l) == <<"free", l>>
In(s)   == <<"in", s>>
Out(s)  == <<"out", s>>
Write(f) == <<"write", f>>      \* a write the call's ticket is recorded for
Send(f)  == <<"send", f>>
Query(f) == <<"query", f>>
Check    == <<"check", "">>     \* await _send_pending_unlock()
CheckFor == <<"check", "write">>    \* the same, recorded for the ticket
Load    == <<"load", "">>       \* await async_load_scenes()
Except  == <<"except", "">>     \* the end of a try that catches GoveeBleError

Under(l, body) == <<Lock(l)>> \o body \o <<Free(l)>>
UnderIf(f, l, body) == IF Has(f) THEN Under(l, body) ELSE body
\* Fault: the illumination pair is not held apart from other brightness writes.
InNoBrightnessLock(body) == body
InBrightnessLock(body) == UnderIf("pair", "brightness", body)
InZonePowerLock(body) == UnderIf("bars", "bar", body)
HoldingHeartbeat(body) == <<In("hold")>> \o body \o <<Out("hold")>>
Then(first, rest) ==
    IF first = <<>> \/ rest = <<>> THEN first \o rest
    ELSE first \o <<In("between")>> \o rest \o <<Out("between")>>

\* _commit, and _commit_once on a per_command profile.
Commit(f) == IF Has("perCommand") THEN Under("tap", <<Send("tap")>>) ELSE <<CheckFor, Write(f)>>
\* _read_reply; that of read_secret also holds the pairing lock.
Reading(f) == Under("gate", <<Check, Query(f)>>)
PairingRead == Under("gate", Under("pairing", <<Check, Query("secret")>>))

\* A read the call may find unnecessary (the value is held already).
MaybeReading(f) == {<<>>, Reading(f)}
EnsureSegmentCount == IF Has("sections") THEN MaybeReading("segments") ELSE {<<>>}
HeldBrightness == IF Has("pair") THEN MaybeReading("level") ELSE {<<>>}
ResyncAfterPower == IF Has("resync") THEN Reading("version") \o <<Send("sync"), Except>> ELSE <<>>

SetPower == HoldingHeartbeat(Then(InZonePowerLock(Commit("power")), ResyncAfterPower))
TurnOnTaps(both) ==
    Under("tap", <<In("taps")>> \o (IF both THEN <<Send("tap")>> ELSE <<>>) \o <<Send("tap"), Out("taps")>>)
TurnOn ==
    IF Has("perCommand") THEN {TurnOnTaps(TRUE)}
    ELSE {InBrightnessLock(HoldingHeartbeat(Then(count,
              <<In("pair")>> \o Then(level, InZonePowerLock(Commit("all"))) \o <<Out("pair")>>
              \o ResyncAfterPower))) : count \in EnsureSegmentCount, level \in HeldBrightness}
SetBrightness ==
    IF Has("perCommand") THEN {TurnOnTaps(b) : b \in BOOLEAN}
    ELSE {InBrightnessLock(Commit("level"))}
SetRgb == {HoldingHeartbeat(Then(count, Commit("colour"))) : count \in EnsureSegmentCount}
SetColorTemp ==
    {InBrightnessLock(HoldingHeartbeat(Then(count,
        <<In("pair")>> \o Then(level, Commit(IF Has("pair") THEN "kelvin+level" ELSE "colour"))
        \o <<Out("pair")>>))) : count \in EnsureSegmentCount, level \in HeldBrightness}
\* The other bar unknown; held, but not lately confirmed; held and confirmed.
BarReads == {Reading("bars"), <<Send("connect")>> \o Reading("bars") \o <<Except>>, <<>>}
SetZonePower ==
    IF ~Has("bars") THEN {Commit("zone")}
    ELSE {Under("bar", HoldingHeartbeat(<<In("bars")>> \o Then(read, Commit("bars")) \o <<Out("bars")>>))
              : read \in BarReads}
SetScene == Under("scene", InZonePowerLock(Commit("activate")))
SceneUploads == {<<>>, <<Send("upload")>>} \cup (IF Has("scenePower") THEN {<<Send("power"), Send("upload")>>} ELSE {})
\* Fault: the read gate is taken before the bar lock.
SetSceneByNameGateFirst ==
    {Under("scene", version \o <<Load>> \o Under("gate", InZonePowerLock(HoldingHeartbeat(
        <<CheckFor, In("scene")>> \o Then(upload, Commit("activate")) \o <<Out("scene")>>))))
        : version \in MaybeReading("version"), upload \in SceneUploads}
SetSceneByName ==
    {Under("scene", version \o <<Load>> \o InZonePowerLock(Under("gate", HoldingHeartbeat(
        <<CheckFor, In("scene")>> \o Then(upload, Commit("activate")) \o <<Out("scene")>>))))
        : version \in MaybeReading("version"), upload \in SceneUploads}
Update == HoldingHeartbeat(<<Check, Load>> \o Then(Reading("state"), Reading("colours")))
Release == Under("scene", Under("brightness", Under("bar", Under("gate", <<Send("drop")>>))))

Bodies(m) ==
    CASE m = "setPower"       -> {SetPower}
      [] m = "turnOn"         -> TurnOn
      [] m = "setBrightness"  -> SetBrightness
      [] m = "setRgb"         -> SetRgb
      [] m = "setColorTemp"   -> SetColorTemp
      [] m = "setZonePower"   -> SetZonePower
      [] m = "setScene"       -> {SetScene}
      [] m = "setSceneByName" -> SetSceneByName
      [] m = "update"         -> IF Has("perCommand") THEN {<<>>} ELSE {Update}
      [] m = "readSecret"     -> {PairingRead}
      [] m = "connect"        -> IF Has("perCommand") THEN {<<>>} ELSE {<<Check, Send("connect")>>}
      [] m = "release"        -> {Release}

\* The operation of the connection a call waits for or runs.
Frame(t) ==
    IF todo[t] = <<>> THEN ""
    ELSE IF stage[t] = "refused" THEN "disconnect"
    ELSE IF Head(todo[t])[1] = "check" THEN "check" ELSE Head(todo[t])[2]
Asks(t) == Head(todo[t])[1] = "query"
\* _write_locked: acked, and tried once more on a fresh link.
Verified(t) == ~Asks(t) /\ Frame(t) \notin {"tap", "upload", "connect", "drop"}
Recorded(t) == Head(todo[t])[1] = "write" \/ Head(todo[t]) = CheckFor
Pairing(t) == method[t] = "readSecret"

-----------------------------------------------------------------------------
Init ==
    /\ device \in Devices
    /\ todo = [t \in Tasks |-> <<>>] /\ stage = [t \in Tasks |-> "idle"]
    /\ queue = [l \in Locks |-> <<>>]
    /\ ticket = [t \in Tasks |-> 0] /\ method \in [Tasks -> device.calls]
    /\ linkWrite = [link |-> 0, ticket |-> 0]
    /\ secret = 0 /\ pending = FALSE /\ taken = [t \in Tasks |-> 0]
    /\ link = 0 /\ links = 0 /\ again = FALSE /\ beat = FALSE
    /\ owed = FALSE /\ early = {} /\ excused = {}
    /\ wroteOn = [t \in Tasks |-> 0] /\ released = [t \in Tasks |-> "none"]

\* What a coroutine may change as it runs to its next await; up is the link it finds there.
Now(t) == [todo |-> todo[t], stage |-> "run", queue |-> queue, pending |-> pending, taken |-> taken[t],
           early |-> early, excused |-> excused, up |-> link]
Next1(s) == [s EXCEPT !.todo = Tail(@)]

\* The lock is taken: its first in line does not wait for it any more.
Locked(s, l) == s.queue[l] # <<>> /\ stage[Head(s.queue[l])] \notin {"lock", "pairing"}
TookCheck(t) == Frame(t) = "check" /\ stage[t] \in {"queued", "setup"}

\* _unlock_frames: the check a session sends, none for a profile without one.
ChecksSession(t) == Has("secret") /\ (secret > 0 \/ (Has("emptyCheck") /\ ~Pairing(t)))

\* _send_pending_unlock past its wait for a read_secret: take the flag, and send the check
\* if a session is up.
TakeCheck(s, t) ==
    LET mine == s.pending /\ ~(Pairing(t) /\ secret = 0)
        seen == [s EXCEPT !.pending = @ /\ ~mine, !.taken = secret,
                          !.early = IF Locked(s, "pairing") THEN @ \ {t} ELSE @ \cup {t},
                          !.excused = IF \E u \in Tasks \ {t} : TookCheck(u) THEN @ \cup {t} ELSE @ \ {t}]
    IN  IF mine /\ s.up > 0 /\ ChecksSession(t)
        THEN [seen EXCEPT !.stage = "queued", !.queue["conn"] = Append(@, t)]
        ELSE Next1(seen)

\* One thing to do; "run" is left at an await.
Do(s, t) ==
    IF s.todo = <<>> THEN [s EXCEPT !.stage = "done"]
    ELSE LET x == Head(s.todo)[2]
         IN  CASE Head(s.todo)[1] \in {"in", "out", "except"} -> Next1(s)
               [] Head(s.todo)[1] = "lock" ->
                    IF s.queue[x] = <<>> THEN Next1([s EXCEPT !.queue[x] = <<t>>])
                    ELSE [s EXCEPT !.stage = "lock", !.queue[x] = Append(@, t)]
               [] Head(s.todo)[1] = "free" -> Next1([s EXCEPT !.queue[x] = Tail(@)])
               [] Head(s.todo)[1] = "check" ->
                    IF Has("emptyCheck") /\ secret = 0 /\ ~Pairing(t) /\ Locked(s, "pairing")
                    THEN [s EXCEPT !.stage = "pairing", !.queue["pairing"] = Append(@, t)]
                    ELSE TakeCheck(s, t)
               [] Head(s.todo)[1] = "load" -> [s EXCEPT !.stage = "load"]
               [] OTHER -> [s EXCEPT !.stage = "queued", !.queue["conn"] = Append(@, t)]

\* Runs t from s to its next await.
Run(s, t) ==
    LET after[n \in Nat] ==
            IF n = 0 THEN s
            ELSE LET p == after[n - 1] IN IF p.stage = "run" THEN Do(p, t) ELSE p
        r == after[Len(s.todo) + 1]
    IN  /\ todo' = [todo EXCEPT ![t] = r.todo] /\ stage' = [stage EXCEPT ![t] = r.stage]
        /\ queue' = r.queue /\ pending' = r.pending
        /\ taken' = [taken EXCEPT ![t] = r.taken] /\ early' = r.early /\ excused' = r.excused

\* An exception leaves the withs up to the end of the try around it, or all of them.
Caught(s) == {i \in 1 .. Len(s.todo) : s.todo[i] = Except}
Thrown(s, t, cancelled) ==
    LET to == IF cancelled \/ Caught(s) = {} THEN Len(s.todo) ELSE CHOOSE i \in Caught(s) : TRUE
    IN  [s EXCEPT !.todo = SubSeq(@, to + 1, Len(@)),
                  !.queue = [l \in Locks |->
                      IF l = "conn" \/ stage[t] = l \/ Free(l) \in Range(SubSeq(s.todo, 1, to))
                      THEN RemoveFirst(@[l], t) ELSE @[l]]]

-----------------------------------------------------------------------------
(* A call starts, and gets a lock it waited for.                           *)

Tickets == Cardinality({t \in Tasks : ticket[t] > 0})

Start(t) ==
    /\ ticket[t] = 0
    /\ ticket' = [ticket EXCEPT ![t] = Tickets + 1]
    /\ \E body \in Bodies(method[t]) : Run([Now(t) EXCEPT !.todo = body], t)
    /\ UNCHANGED <<device, method, linkWrite, secret, linkVars, owed, wroteOn, released>>

Resumes(t, s) ==
    /\ Run(s, t)
    /\ UNCHANGED <<device, method, ticket, linkWrite, secret, linkVars, owed, wroteOn, released>>

TakeLock(t) ==
    /\ stage[t] = "lock" /\ Head(queue[Head(todo[t])[2]]) = t
    /\ Resumes(t, Next1(Now(t)))

PairingOver(t) ==
    /\ stage[t] = "pairing" /\ Head(queue["pairing"]) = t
    /\ Resumes(t, TakeCheck([Now(t) EXCEPT !.queue["pairing"] = Tail(@)], t))

Loaded(t) ==
    /\ stage[t] = "load"
    /\ Resumes(t, Next1(Now(t)))

-----------------------------------------------------------------------------
(* Operations of the connection.                                           *)

Turn(t) == stage[t] \in {"queued", "refused"} /\ Head(queue["conn"]) = t /\ ~beat
OnWire(t) == stage[t] = "wire" /\ Frame(t) # "connect" /\ (link > 0 \/ Frame(t) = "drop")

\* The check of the secret in force goes out with t's frame.
Vouched(t) == Frame(t) = "check" /\ taken[t] = secret

OpStarts(t) ==
    /\ Turn(t) /\ Frame(t) \notin {"drop", "disconnect"}
    /\ link' = IF Frame(t) = "tap" THEN 0 ELSE link
    /\ stage' = [stage EXCEPT ![t] = IF link' = 0 THEN "setup" ELSE "wire"]
    /\ owed' = (owed /\ link' > 0 /\ ~Vouched(t))
    /\ UNCHANGED <<device, todo, queue, deviceVars, links, again, beat, early, excused, wroteOn, released>>

\* The session is ready; a read_secret's own skips the empty check and leaves it pending.
SetUp(t) ==
    /\ stage[t] = "setup" /\ links < MaxLinks
    /\ links' = links + 1 /\ link' = links'
    /\ LET skipped == Has("emptyCheck") /\ ~ChecksSession(t)
       IN  /\ pending' = (pending \/ skipped) /\ owed' = skipped
           /\ excused' = excused \cup (IF skipped THEN early \cap Range(queue["conn"]) ELSE {})
    /\ stage' = [stage EXCEPT ![t] = "wire"]
    /\ UNCHANGED <<device, todo, queue, ticket, method, linkWrite, secret, taken, again, beat,
                   early, wroteOn, released>>

\* Back from the connection: _wrote, if the frames went out, and on to the next await.
\* Fault: the ticket of the write that ends last, whichever was called last.
WroteLast(t, out) ==
    IF out /\ Recorded(t) /\ link > 0
    THEN /\ linkWrite' = [link |-> link, ticket |-> ticket[t]]
         /\ wroteOn' = [wroteOn EXCEPT ![t] = link]
    ELSE UNCHANGED <<linkWrite, wroteOn>>
Wrote(t, out) ==
    IF out /\ Recorded(t) /\ link > 0
    THEN /\ linkWrite' = [link |-> link,
                          ticket |-> IF linkWrite.link = link /\ linkWrite.ticket > ticket[t]
                                     THEN linkWrite.ticket ELSE ticket[t]]
         /\ wroteOn' = [wroteOn EXCEPT ![t] = link]
    ELSE UNCHANGED <<linkWrite, wroteOn>>
Left(t, up) == [Now(t) EXCEPT !.queue["conn"] = RemoveFirst(@, t), !.up = up]
Returns(t, s, out) ==
    /\ Run(s, t)
    /\ link' = s.up /\ again' = FALSE /\ owed' = (owed /\ s.up > 0)
    /\ Wrote(t, out)
    /\ UNCHANGED <<device, method, ticket, secret, links, beat, released>>
LinkAfter(t) == IF Frame(t) = "tap" THEN 0 ELSE link

\* Acked or answered; a read may also end without its answer, and so may a check and a tap.
Succeeds(t) ==
    /\ stage[t] = "wire" /\ Frame(t) # "drop" /\ (link > 0 \/ Frame(t) = "tap")
    /\ Returns(t, Next1(Left(t, LinkAfter(t))), TRUE)

\* The check is refused: the call goes on to disconnect.
CheckRefused(t) ==
    /\ stage[t] = "wire" /\ Frame(t) = "check" /\ link > 0
    /\ stage' = [stage EXCEPT ![t] = "refused"]
    /\ queue' = [queue EXCEPT !["conn"] = Append(Tail(@), t)]
    /\ again' = FALSE
    /\ UNCHANGED <<device, todo, deviceVars, link, links, beat, history>>

\* Refused, or unacked on both links; or a value the call needs was not read.
Fails(t) ==
    /\ stage[t] = "wire" /\ link > 0
    /\ \/ Verified(t) /\ Frame(t) # "check"
       \/ Frame(t) = "tap"
       \/ Asks(t) /\ Frame(t) \in {"segments", "level", "bars"}
    /\ Returns(t, Thrown(Left(t, LinkAfter(t)), t, FALSE), TRUE)

\* _write_locked: drop the link and write again on a fresh one.
Retry(t) ==
    /\ stage[t] = "wire" /\ Verified(t) /\ ~again
    /\ again' = TRUE /\ link' = 0 /\ owed' = FALSE
    /\ stage' = [stage EXCEPT ![t] = "setup"]
    /\ UNCHANGED <<device, todo, queue, deviceVars, links, beat, early, excused, wroteOn, released>>

\* No session, or the link went under the operation.
Lost(t) ==
    /\ \/ stage[t] = "setup"
       \/ stage[t] = "wire" /\ Frame(t) \notin {"connect", "drop"} /\ (Verified(t) => again)
    /\ Returns(t, Thrown(Left(t, 0), t, FALSE), FALSE)

\* A link lost while connect() looked at it: it has nothing more to do.
Connected(t) ==
    /\ stage[t] = "wire" /\ Frame(t) = "connect" /\ link = 0
    /\ Returns(t, Next1(Left(t, 0)), FALSE)

\* disconnect(keep) of release(), asked under the connection's lock.
KeptFor(t) == linkWrite.link # 0 /\ linkWrite.link = link /\ linkWrite.ticket > ticket[t]
ReleaseDrops(t) ==
    /\ Turn(t) /\ Frame(t) = "drop" /\ ~KeptFor(t) /\ link > 0
    /\ link' = 0 /\ owed' = FALSE
    /\ released' = [released EXCEPT ![t] = "dropped"]
    /\ stage' = [stage EXCEPT ![t] = "wire"]
    /\ UNCHANGED <<device, todo, queue, deviceVars, links, again, beat, early, excused, wroteOn>>
ReleaseKeeps(t) ==
    /\ Turn(t) /\ Frame(t) = "drop" /\ (KeptFor(t) \/ link = 0)
    /\ released' = [released EXCEPT ![t] = IF link = 0 THEN "nothing" ELSE "kept"]
    /\ Run(Next1(Left(t, link)), t)
    /\ UNCHANGED <<device, method, ticket, linkWrite, secret, linkVars, owed, wroteOn>>
ReleaseEnds(t) ==
    /\ stage[t] = "wire" /\ Frame(t) = "drop"
    /\ Run(Next1(Left(t, link)), t)
    /\ UNCHANGED <<device, method, ticket, linkWrite, secret, linkVars, owed, wroteOn, released>>

\* The session of a refused check ends, and so does the call, with GoveeBleAuthError.
Disconnects(t) ==
    /\ Turn(t) /\ Frame(t) = "disconnect"
    /\ Returns(t, Thrown(Left(t, 0), t, FALSE), FALSE)

\* Fault: a check cancelled before it ended is taken for sent.
CancelForgets(t) ==
    /\ stage[t] \notin {"idle", "done"}
    /\ LET up == IF stage[t] = "setup" \/ (stage[t] = "wire" /\ Frame(t) = "tap") THEN 0 ELSE link
       IN  Returns(t, Thrown(Left(t, up), t, TRUE), stage[t] = "refused")

\* CancelledError at any await.  A check that did not end is pending again.
Cancel(t) ==
    /\ stage[t] \notin {"idle", "done"}
    /\ LET up    == IF stage[t] = "setup" \/ (stage[t] = "wire" /\ Frame(t) = "tap") THEN 0 ELSE link
           rearm == /\ Frame(t) = "check" /\ stage[t] \in {"queued", "setup", "wire"}
                    /\ up > 0 /\ taken[t] = secret
       IN  Returns(t, [Thrown(Left(t, up), t, TRUE) EXCEPT !.pending = @ \/ rearm], stage[t] = "refused")

-----------------------------------------------------------------------------
(* The rest of the world.                                                  *)

LinkDrops ==
    /\ link > 0 /\ link' = 0 /\ owed' = FALSE
    /\ UNCHANGED <<device, todo, stage, queue, deviceVars, links, again, beat, early, excused, wroteOn, released>>

\* The part of a section still open: its end is to come, its beginning is not.
Inside(t, s) == Out(s) \in Range(todo[t]) /\ In(s) \notin Range(todo[t])

\* _beat: the lock is free, nobody wants it and nobody holds the heartbeat back.
BeatStarts ==
    /\ link > 0 /\ ~beat /\ queue["conn"] = <<>> /\ \A t \in Tasks : ~Inside(t, "hold")
    /\ beat' = TRUE
    /\ UNCHANGED <<device, todo, stage, queue, deviceVars, link, links, again, history>>
BeatEnds ==
    /\ beat /\ beat' = FALSE
    /\ UNCHANGED <<device, todo, stage, queue, deviceVars, link, links, again, history>>

\* set_secret with another secret.
SetSecret ==
    /\ Has("secret") /\ secret < MaxSecrets
    /\ secret' = secret + 1 /\ pending' = TRUE
    /\ owed' = (link > 0) /\ excused' = {t \in Tasks : stage[t] \notin {"idle", "done"}}
    /\ UNCHANGED <<device, todo, stage, queue, ticket, method, linkWrite, taken, linkVars, early, wroteOn, released>>

\* Every call has ended.
Finished == (\A t \in Tasks : stage[t] = "done") /\ UNCHANGED vars

Next ==
    \/ \E t \in Tasks :
          \/ Start(t) \/ TakeLock(t) \/ PairingOver(t) \/ Loaded(t)
          \/ OpStarts(t) \/ SetUp(t) \/ Succeeds(t) \/ CheckRefused(t) \/ Fails(t) \/ Retry(t)
          \/ Lost(t) \/ Connected(t) \/ ReleaseDrops(t) \/ ReleaseKeeps(t) \/ ReleaseEnds(t)
          \/ Disconnects(t) \/ Cancel(t)
    \/ LinkDrops \/ BeatStarts \/ BeatEnds \/ SetSecret \/ Finished

Spec == Init /\ [][Next]_vars

-----------------------------------------------------------------------------
\* Whoever is ahead of t in a lock it waits for.
Ahead(u, t) == \E l \in Locks : \E i, j \in DOMAIN queue[l] : i < j /\ queue[l][i] = u /\ queue[l][j] = t

\* No set of calls waits for one another's locks: the device's locks, the pairing lock and the
\* connection's are taken in an order that cannot close a circle, whichever calls meet
\* (the order is stated at _bar_lock, device.py).
NoCircularWait ==
    \A s \in (SUBSET Tasks) \ {{}} : \E t \in s : \A u \in s : ~Ahead(u, t)

\* What must not reach the device while a call is inside a section.
Disturbs(s) ==
    CASE s = "scene" -> {"upload", "activate", "drop"}
      [] s = "pair"  -> IF Has("pair") THEN {"level", "kelvin+level", "all", "drop"} ELSE {}
      [] s = "bars"  -> {"bars", "power", "all", "activate", "drop"}
      [] s = "taps"  -> {"tap"}
      [] OTHER       -> {}

\* Nothing lands inside what must go out back to back: no scene write, read or release between an
\* upload and its activation, no other brightness between the level the illumination pair re-sends
\* and the pair, no bar write between the bar read and the write built from it, no tap between two
\* taps, and no heartbeat while one is held back.
Untorn ==
    \A t \in Tasks :
        /\ Inside(t, "between") => ~beat
        /\ \A s \in {"scene", "pair", "bars", "taps"}, u \in Tasks \ {t} :
               Inside(t, s) /\ OnWire(u)
                  => IF Asks(u) THEN s # "scene" ELSE Frame(u) \notin Disturbs(s)

\* A frame goes out on a session that has not had the check of the secret in force only when the
\* secret was set after the call's own check, another call had taken the check then, or a
\* read_secret begun after its check opened the session while it waited (_send_pending_unlock).
CheckFirst ==
    \A t \in Tasks :
        OnWire(t) /\ owed /\ Frame(t) \notin {"check", "drop"} /\ ~Pairing(t) => t \in excused

\* release() drops the link unless a call made after it has written on that very link, and it keeps
\* the link then (_kept_for).
ReleaseKeepsLaterWrites ==
    [][\A t \in Tasks :
          released'[t] # released[t] /\ link > 0
             => (released'[t] = "kept" <=> \E u \in Tasks : ticket[u] > ticket[t] /\ wroteOn[u] = link)]_vars
=============================================================================
