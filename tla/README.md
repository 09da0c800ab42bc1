# A verification development of govee-ble-local

TLA+ models of the parts of `govee_ble_local` where order, failure and time decide whether the library is
right, TLC configurations that check them, and theorems about them proved with TLAPS. Paths below are relative
to `src/src/govee_ble_local/`; every definition names its lines in `PROJECT.json` under `map`.

## The system

One `Device` object drives one Govee light or plug over Bluetooth Low Energy. Everything but the packet log's
writer runs on one asyncio thread, so state changes only between awaits; callers, timers, bleak callbacks and
the device itself act at the awaits.

| Component | State it keeps | Operations | What is hard about it | What makes it correct |
|---|---|---|---|---|
| `GoveeConnection` (`transport/connection.py`) | the current client, its readiness and session key, the command channel (advertised mode, BGC version), the receive queue, the FIFO lock, the teardowns still running | `connect`, `send`, `send_many`, `query`, `send_stream`, `send_once`, `disconnect`, `close`, `set_advertised_encryption`; bleak's disconnect and notify callbacks | a caller, a deadline or a connect limit cancels at any await; links drop and their callbacks come late; abandoned links keep notifying; teardowns run beside the next operation | no link is leaked, teardowns are bounded, frames only go out on a link whose session was set up, replies come from the link asked, writes are repeated a bounded number of times, every call ends |
| idle timer, warm window and heartbeat (`transport/connection.py`) | the idle timer and its generation, the end of the warm window, the chain of ticks, the beat task | every operation restarts the timer; `disconnect(keep)`, `hold_heartbeat`, the timer's and the ticks' callbacks | a timer that has fired cannot be cancelled; its task queues for the same lock as the operations and the beats | a link in use is never dropped, an unused one is not kept, nobody waits for a beat, a used link is kept alive |
| burst assembly and the 0xAC status read (`wire/reassemble.py`, `devices/_readback.py`) | the chunks of one reply, what is expected next | `feed`, `query`, `status_burst` with one retry | chunks are lost, repeated, evicted, or belong to an earlier reply | a reply is decoded whole or not at all, and is the reply to the request in hand |
| `Device`: state and reads (`devices/device.py`, `devices/_fold.py`, `devices/_readback.py`) | the optimistic state, `_mutation_seq`, the zone power stamps, `_power_unsure`, the posted zone powers | the setters (`_commit`), `update`, `ingest_advertisement` | reads overtaken by writes, writes that raise after they landed, firmware that acks before it applies | a stamp ("confirmed") is never wrong, a stale read is never applied |
| `Device`: locks and release (`devices/device.py`) | scene, brightness, bar, read, pairing and tap locks; call tickets, the last write's link | `set_scene_by_name`, `set_brightness`, `set_zone_power`, `update`, `release` and every other method that does I/O | nested locks; a release that waits while later writes overtake it | no deadlock, no sequence is torn apart, a release never takes a later write's link |
| `Device`: pairing (`devices/device.py`) | the secret, the pending unlock | `set_secret`, `read_secret`, `_send_pending_unlock` | the flag is taken before an await that may fail or be cancelled | a secret set on a live session reaches the device before the next frame |
| `Device`: colour, brightness and segments (`devices/_fold.py`, `wire/build.py`, `wire/parse.py`, `devices/brightness.py`, `wire/cct.py`) | rgb, Kelvin, scene, brightness, zone Kelvins, segments of the optimistic state | the setters of colour, Kelvin, brightness, segments, zones, scenes; `_apply_mode`, segment reads | eight write schemes and five report layouts that must say the same thing; mirrored and grouped segments; ranges that depend on a pact or version learnt late | what a write folds is what the device then reports; the fields never contradict one another; a Kelvin sent is one the device has |
| packet log (`transport/framelog.py`) | a bounded queue, a writer thread, the capture's enabled flag | `record`, `flush` | two threads; drop-oldest races the writer | lines stay in order, `flush` tells the truth, the count of unfinished items comes back to 0 |
| handshake (`transport/handshake.py`), session crypto (`crypto.py`) | none: generators and pure functions | key exchange, encrypt, decrypt | - | part of `Connection` as steps; the arithmetic is not modelled |
| identification (`identify.py`), routing (`registry.py`, `devices/profile.py`) | the last merged advertisement record, pact, cipher flag, profile | `ingest_advertisement`, `create_device` | a scanner's record merges frames of several headers, some of them stale | the on/off and pact come from the entry that changed last |
| scene catalogue (`scenes/`) | static store | `load_scenes`, `set_scene_by_name`, upload plans | the list of a device depends on a pact and versions that have to be read first | a name plays what the device's own firmware offers, an upload is whole and fits the link |
| profiles (`devices/_resolve.py`, `devices/profile.py`) | static data | validation, look-up | - | validation as a predicate over the profiles the models use |
| cloud account (`cloud/account.py`), debug, diagnostics, value types, `tools/` | the bearer token; nothing | HTTP requests; formatting; downloads | - | not modelled, see below |

How they interact: a setter or a read of `Device` takes its own locks, then calls one operation of
`GoveeConnection`, which takes the connection lock, brings a link up if there is none (establish, notify, BGC
read, key exchange, unlock, session frames) and talks. Replies come back through the notify callback into the
receive queue `_rx`, which the operation that holds the lock reads. Timers (idle, heartbeat) are callbacks that
create tasks, and those tasks queue for the connection lock. `Device` hands advertisements to the connection
(`set_advertised_encryption`).

## Modules

| Module | Models |
|---|---|
| `RxBuffer` | `_enqueue`: drop-oldest receive queue that never evicts the link-lost sentinel |
| `Connection` | `GoveeConnection`'s operations, connect phase, session set-up, teardowns, callbacks, cancellations |
| `LinkTimers` | idle timer, warm window, idle disconnect, heartbeat chain, in discrete time |
| `InOrderBurst` | abstract: what the assembly of a burst promises |
| `BurstAssembler` | `BurstAssembler.feed` and its reset |
| `StatusRead` | the query loop and `status_burst` over `BurstAssembler` and `RxBuffer`, the device and the radio |
| `ZoneDevice` | the power of an H60A6 as its firmware keeps it (external) |
| `ZonePower` | what `Device` knows of that power: `_commit`, `_read_status`, `ingest_advertisement` over `ZoneDevice` |
| `DeviceCalls` | every method of `Device` that does I/O as the list of its awaits: locks, tickets, `release`, the pending secret check |
| `FrameLog` | the packet log's queue between the event loop and its writer thread |
| `ColourFrames` | the write frames of every colour scheme; brightness and Kelvin conversions |
| `ColourState` | `EXTENDS ProfileRules`: the colour half of the state, its setters and reads, against a light |
| `ProfileRules` | `EXTENDS ColourFrames`: the colour facts `DeviceProfile` accepts |
| `ProfileRoutes` | which profile a SKU and a pact route to; the poll facts `DeviceProfile` accepts |
| `Broadcasts` | `EXTENDS ProfileRoutes`: a scanner's merged record and what `Device` learns from it |
| `SceneSets` | the scene store, a device's catalogue, upload plans and frames |
| `SegmentWalk` | counts, groups and records of the per-segment colour walk |
| `StatusStream` | `EXTENDS SegmentWalk`: what a complete 0xAC burst says |
| `Replies` | power writes and the single replies a poll reads |
| `DeviceReads` | `EXTENDS Broadcasts, SceneSets, StatusStream`: `update()` read by read, scenes by name, advertisements |
| `MC*` | what TLC needs besides: profiles and stores of the instances, symmetry of the callers, and `ASSUME`s that check the pure operators (`MCDeviceReads` instantiates `Replies`) |
| `*_proofs` | the theorems about the module of that name |

### Connection

`at` is where the holder of the lock is. Names in `Awaits` are its await points; the other values lie between
two awaits, and then only the holder moves (`Yielded`): the event loop is cooperative. `lockQ` is the FIFO lock
(`Head` holds it), `status`, `kind` and `budget` are the calls, `op` the locals of the running one (session
attempt, pass, write attempt, the exception on its way, the teardown it waits for). `client`, `ready`, `key`,
`mode`, `advert`, `bgc`, `rx`, `closed`, `links`, `released`, `recorded` are the attributes of the object.
`phys`, `due` and `td` are the world: the links as the radio has them, the disconnect callbacks bleak still owes
and the teardown tasks. `vetted` is a history variable.

One action per step between two awaits: `Acquire`, `Ensure`, `Connect`, `Established`, `Subscribed`, `BgcRead`,
`KeyReply`, `ConfirmReply`, `SetupSend`/`SetupReply`, `Talk`, `AckReply`, `CollectReply`, `StreamNext`, the
failures and timeouts of each await, `Retry`, `Unwind`, `End`; `Cancel(c)` for the connect limit, the operation
deadline and the caller; `TeardownWaited`, `TeardownEnds`, `Abandon` for the detached disconnects; and the
environment: `LinkDrops`, `OnDisconnect`, `Notified`, `SetAdvertised`.

Left out or merged: real time (a timeout may fire at any await it bounds); the await of a write merged with the
wait for its reply (`WriteFails`, `SetupWriteFails`); `send_many` is `write` repeated under one lock hold and
`send(expect_ack=False)` a stream of one. A session frame whose ack is not waited for (`SessionAck = FALSE`) is
written with its reply left where it arrives (`SetupSent`). When several cancellations hit at once the caller's wins over the
deadline and the deadline over the connect limit. A link abandoned after `DISCONNECT_TIMEOUT` may stay up: that
is what the code accepts, and `NoOrphanLink` says so.

### LinkTimers

Time is discrete. `Tick` is enabled only when nothing is due (`NothingDue`), which is what an event loop does: it
runs the callbacks and tasks that are ready before it sleeps. An operation may take any time, a beat's write at
most `WriteBound`. Operations are reduced to what moves the timers: connect, ready, set up, send, tear down. A
profile with no heartbeat is the same machine whose chain is never armed and is not run. `release`'s `keep()` is
a free choice. A refused AES-GCM session ends its operation without a teardown, so `_active_until` stays set;
the model has that.

### Status read

One link (drops are `Connection`'s). The query drains the queue, sends the request and feeds what arrives.
`air` holds what the device has sent and the radio not delivered yet, in order. A chunk may be lost, evicted from
the full queue, delivered twice, or arrive so late that it meets a later request. Decoding is reduced to whether a
complete reply is usable (`Retry` and `PollEnds` are both possible on one). The idle gap and the timeout of the
query are one action, `GiveUp`. Diagnostics (`conflicts`, `_seen`) are left out.

### ZonePower

`isOn`, `held` and `stamped` are `state.is_on`, `state.zone_power` and the keys of `state.zone_power_confirmed`;
`unsure`, `readOn` and `handed` are `_power_unsure`, `_power_read` and `_zone_power_posted`; `quiet` says that the
suppress window (`_advert_ignore_until`) is open. The counters that a read compares with its snapshot
(`_mutation_seq`, `_power_unsure_seq`, `_power_read_drops`) become the sets of callers whose snapshot is outdated:
`mutated`, `doubted`, `dropped`. A write is its frames with the `zones` and `fixture` arguments of `_commit`. The
steps are `CallWrite` and `CallPoll` (what a call looks at before it waits), `Talk`, the frames one by one
(`Delivered`, `DeliveredUnacked`), and `WriteAcked`, `WriteRaises`, `PollApplied`, `PollStale`, `PollEmpty` with all
their bookkeeping, which runs without an await. An operation may outlast the suppress window (15 s against 45 s), so
`WindowEnds` comes at any time the message thread has caught up. `calm` and `misled` are history variables. `misled`
is set in two steps, the ones in which `_wake_power` loses sight of a wake: a scene reaches the device over a posted
power-off (`Overtakes`), and an advertisement turns `is_on` on while a write is out that wakes the device and was
called when it was taken for on (`Unnoticed`). Two quiet reads clear it.

What is assumed of the firmware, from the comments of `_post_zone_power`, `_wake_power` and `_read_status`: the
dispatcher acks a power write when it has posted it, a message thread applies the posted writes in order, a status
reply is built from the flags as they are, and the main switch is on while a zone is lit. Beyond those comments:
the writes posted before a status reply are applied before the next frame is dispatched; a scene on a lit device
turns no zone off; an advertisement carries the main switch as it is; the thread has caught up when the suppress
window is over; nobody else switches the device. Without the first, a second read vouches for a power the device is
about to leave; without the scene's, a scene that turns one zone off meets the posted off of the other.

### DeviceCalls

A call is a list of items: take a lock, leave it, send the check if one is pending, do one operation of the
connection. `todo[t]` is what call `t` has left and `stage[t]` how it waits at the head of it. Between two awaits a
call runs in one step. `queue` holds the six locks of `Device` and the connection's, each with its holder first. Of
`Connection` the FIFO lock, the number of the link, session set-up and the one retry of a write on a new link are
kept. `Cancel` hits any await; `Fails`, `CheckRefused`, `LinkDrops`, `BeatStarts` and `SetSecret` are the rest of the
world. `owed`, `excused`, `wroteOn` and `released` are history variables.

`excused` names the ways in which a frame does go out ahead of the check of the secret in force, each of them in
the code:

- the secret is set while the call is already past its own check (that check is for the next operation);
- a call takes `_unlock_pending` and waits; a second call finds the flag down and goes on; the first is cancelled and
  re-arms the flag, but the second's frame goes out unchecked, where `device.py:724` promises the check before each
  operation's first frame;
- a `read_secret` begun while another call waits for the connection opens the session without a check, because it is
  a pairing call (`device.py:741`, `195`).

`CheckFirst` asks that the check went out, not that it was accepted: after a refused one an operation that overlaps
the disconnect can get a frame out, as the comment at `device.py:766` says, and when the caller is cancelled while it
waits for that disconnect the refused session stays up.

The instances are eight kinds of profile, each with the calls that meet on it: bars, bars with scene power, an
illumination pair, sections with resync, three with a secret, and a per-command tap.

### FrameLog

The event loop's thread (`Build`, `Record`, `Put`, `DropOldest`, `Dropped`) and the writer's (`Take`, `TakeEnds`,
`CheckDir`, `Group`, `WriteFile`, `Processed`, `WriterDies`) interleave at each call on the queue and each file
operation. `unfinished` is `queue.unfinished_tasks`, which `flush` looks at. A line is its capture and its number.
An overflow may drop the directory check queued ahead of the lines, and so may a writer that dies, which the comment
at `framelog.py:103` does not expect; the lines are then written unchecked. The history
variable `lost` holds the items that reach no file: dropped as the oldest of a full queue, of a capture disabled in
the meantime, in a write that failed, or in the hands of a writer that died. The warn-once flags and file modes are left out.

### ColourFrames, ColourState, ProfileRules

`ColourFrames` maps each setter's request to the frame of the profile's colour scheme, or `Refused`. `ColourState`
holds `state` (the fields of `DeviceState` about colour) and `light`, the device on the other side: it does what the
frame says and reports it in the layout of its profile (`Reports`). A setter either is acknowledged and folded, or
raises after its frame may have landed. `Elsewhere` is the app or a remote. `LearnPact` and `LearnVersion` are the
revisions that narrow a Kelvin or brightness range, learnt at any time. `ours`, `oursLevel`, `claimed`,
`claimedLevel` and `sent` are history variables. Calls do not overlap here; `DeviceCalls` and `ZonePower` interleave
them.

The light is external. It is read from the encoders and decoders of `wire/` and from the comments of the fold. Its
tint table has four of the 178 tints, two of them with the same Kelvin. A strip of the `rgb` layout (H6052) reports a
Kelvin as the tint it shows, so that its report does not carry a Kelvin the state holds (`Reportable`). The level a
colour write keeps on an illumination pair is read before the write and folded whether or not the write goes out
(`HeldBrightness`). `MCColourState` evaluates the round trip of
percents through the raw brightness byte for every percent and four ranges; `ProfilesAssumption` is `ValidColours`
of every profile.

### DeviceReads, Broadcasts, SceneSets, SegmentWalk, StatusStream, Replies, ProfileRoutes

A value is the version its field had when the device sent it, together with the piece it belongs to, so that a
property can tell a stale value from a new one and one segment from another. `call[t]` is what a task has still to
read. A read is one step: while it is on the wire the connection lock keeps every setter off it, so that what can
come in between is between two reads, which is where `_mutation_seq` and the snapshots of `_read_fresh` matter.
`SetField`/`SetPiece` are acknowledged setters, `Touch`/`TouchPiece` other hands, `Unanswered`, `Fails` the read that
gets nothing or raises, `Shelf` a scene store that cannot be read for a while.

A reply that comes after its read gave up is queued and taken by the next read of the same command (`LateTaken`):
replies are matched by command only, so the code cannot tell (the `aa 01`, `aa 34` and `aa 36` of a power read are three
commands). What such a reply says is excused through `tainted`,
for that field alone. At most one answer is late at a time, and info replies carry their selector, so those are not
confused. Everything else holds without excuse.

`Broadcasts` merges a record as one scanner does: a key keeps its place, its value is replaced. `aired` and `heard`
remember the device's own frame the scanner merged last and the one in the record given to the device. Records
joined from several scanners, and local names, are left out.

The pure parts are checked by `ASSUME`s of `MCDeviceReads` on bounded inputs: both upload forms carry the whole
payload in frames the link takes, for payloads of 0 to 60 bytes (600 for the frame sizes) and every size a link may
report; a code names a scene that plays it, at every set; a walk answered whole gives each piece once, and the Java
group count is the walk's; a status stream gives the device's pieces or nothing, whatever extra groups it holds; the
chunks of a burst join to the stream they were cut from; a pact routes to its row; what a power write wrote is what
the reply parser reads back, for each kind of plug; different device ids are shown differently.

## Runs

| Run | Bounds | Shows |
|---|---|---|
| `ConnectionOps` | 2 callers, 2 links, queue of 1, 2 session attempts, 2 write attempts | `TypeOK`; no link is leaked (`NoOrphanLink`); every teardown is waited for or about to be abandoned (`TeardownsBounded`); who waits on a lost link is woken (`LostLinkWakesWaiter`); an ack comes from the link written to (`ReplyFromOwnLink`); a write reaches the device a bounded number of times and a `send_once` once (`CopiesBounded`); nothing comes up after `close()` (`ClosedForGood`) |
| `ConnectionSetup` | encrypted and plain adverts that flip, BGC v0 and v2, unlock and session frame, with and without connect limits, acked session frame, 1 session attempt (`ConnectionOps` has the retry and the un-acked session frame) | frames go out only on the link whose session was set up (`SentOnVettedLink`); a session keeps its mode (`ModeKept`); an operation that hits its connect limit leaves no teardown of its own running (`LimitLeavesNoTeardown`) |
| `ConnectionLive` | 2 callers, 1 link, writes and queries without connect limits, 2 session attempts, no session frame | every call and every teardown ends: set-up with its retry, the wait for an ack and the wait for a reply. Streams, `send_once`, `disconnect` and connect limits are in the safety runs only |
| `LinkTimersOps` | idle 3, warm 5, interval 2, write 1; 2 callers, 2 links | `IdleNeverEarly`, `LinkNotKept`, `NobodyWaitsForBeat`, `ClosedIsSilent`, `BeatAfterQuiet`, `KeptAlive` |
| `LinkTimersWindow` | commands and reads | expected violation, see below |
| `StatusRead` | 3 requests, replies of up to 3 packets, queue of 2 | `OwnUnlessLateHead`, `SpliceNeedsLoss`, `OwnReplySuffices`, and refinement of `InOrderBurst` (`AssemblesWholeReplies`) |
| `ZonePower` | 2 callers, 2 zones, 2 writes (any number of polls), 2 posted messages, 1 frame delivered twice; the suppress window ends at any time | but for what `misled` records, a stamped zone ends at the power held for it (`StampsHold`) and `power_read_at` vouches for the device's on/off (`ReadVouchesForOn`); two quiet reads remove every doubt, without exception (`TwoReadsSettle`) |
| `ZonePowerOvertaken` | 1 caller, 2 zones, 3 writes, 2 posted messages, no frame twice | `StampsVouch`, which is `StampsHold` without the exception: expected violation, see below |
| `DeviceCalls` | 3 calls, 2 links, 1 change of the secret, 8 kinds of profile | no circle of calls that wait for one another (`NoCircularWait`); nothing lands inside what goes out back to back (`Untorn`); the secret is checked before the next frame, but for the excused cases (`CheckFirst`); a release keeps exactly the links later calls wrote on (`ReleaseKeepsLaterWrites`) |
| `FrameLog` | 2 captures of one file, queue of 2, 2 lines each, 1 death of the writer | `flush` is True only when nothing is queued or in the writer's hands and each line recorded is in its file, in the hand of a `record` still running, or in `lost` (`FlushMeansDone`); lines are in order, once, and only after a check that passed or was lost (`FilesInOrder`); the count comes back to 0 (`CountReturns`) |
| `ColourState` | 12 profiles, 3 positions, 4 steps | `ColourConsistent`, `OwnReportAgrees` (a poll after a write shows what was written), `SegmentsClaimed` (no segment is claimed that its frame did not reach), `SentInRange` |
| `DeviceReads` | 16 small devices, 2 callers, 2 scene names, each field changes once | a read never undoes a newer setter (`NewerSetterKept`); each segment is a piece of the device with its own colour (`SegmentsOwn`); a name plays a scene of the device's own set (`SceneOffered`); the advertised on/off is the device's own from the first change of its entry until another entry changes, whatever stale or foreign entries the record holds (`AdvertOwn`) |

Why these bounds are enough: two callers are what a FIFO lock needs for a waiter and an overtaking; two links
what a superseded client, its late callback and its stray frames need; two attempts what a retry needs; a queue
of one frame (two in `StatusRead`) overflows at once, with the sentinel on top of it. The delays of `LinkTimers` are in the order of the code's
(`WriteBound < Interval < Idle < Warm`), small enough that a timer, a beat and two operations meet in every
order. Three requests are a poll, its retry and the next poll, whose queue still holds chunks of both.
Two writes are the one that leaves a doubt and the one that meets it; polls and advertisements are not bounded, and
each write may have up to two frames, one of them repeated. Three calls of `DeviceCalls` are a holder, a
waiter and a third that finds the flag the second took; two links are the one a write loses and the one it is
retried on. In `ColourState` positions 0 and 1 are the two bars, heads or zones, and 60 lies beyond the mask of a
strip; four steps are a write, a change elsewhere, a write that raises and a read, in any order. Two versions of a
field in `DeviceReads` are the one a read found and the one a setter left meanwhile; a walk has up to two groups, so
that a setter, a lost reply or a late one falls between them.

`CHECK_DEADLOCK FALSE` stands where the calls, links or requests of the instance run out. In the runs of
`Connection` and `DeviceCalls` it does not: they stutter only when all calls have ended, so the absence of
deadlock is checked there.

Properties are invariants or action properties except those of `ConnectionLive` and `CountReturns`. Each has a mutant in
`PROJECT.json`: a plausible bug in a mapped definition that TLC finds through that property.

### Fairness

`ConnectionLive` and `FrameLog` assume some. `ConnectionLive`: weak fairness of the holder's own steps (the event loop runs what is ready),
strong fairness of the read timeouts (an await bounded by `asyncio.timeout` ends however often frames come in
between), weak fairness of each teardown's abandon and of each owed disconnect callback. Links, the device and
callers owe nothing. `FrameLog`: weak fairness of a `put` the event loop has begun (it runs to its end without an
await) and of the writer's steps (a thread that is ready is scheduled, and its file operations return). No capture
has to record, and the writer may die.

### What the violations show

`LinkTimersWindow`: a command ends on a link and opens the warm window; the link drops; a read finds it not
connected and replaces the client (`connection.py:669`) before bleak has run the disconnect callback, which then
is ignored as the callback of a superseded client. `_active_until` is still set, so the read on the new link
keeps it for what is left of the window. The comment at `connection.py:880-883` and the changelog say such a read
gets the base idle delay. The cost is a connection slot held a few seconds longer.

`ZonePowerOvertaken`: a power-off is acked and posted, and before the device's message thread applies it a scene is
acked, which sets `is_on`. The thread applies the off. A brightness write then posts `MSG_SET_TURN(1)`, which wakes the
device, but `_wake_power` finds `is_on` true and records no wake. A status read before that message is applied stamps
the zones off that the message then lights. The comments at `_post_zone_power` and `_wake_power` promise a stamp that is
right or gone. `StampsHold` excepts it through `misled` and is kept in the run `ZonePower`.

The other way to lose sight of a wake that `misled` names is one of time, and is part of the run `ZonePower`: a colour
write is called while `is_on` is true and waits for the link; a poll reads the device off, without its zones; the
write's frame lands and wakes every zone, its ack is lost; the write retries past the suppress window, an advertisement
turns `is_on` on, and the write raises. `_wake_power` found the device on at the call and finds it on again, so the
stamp of "off" stays. It takes a read of the on/off that brings no zones: a status reply without TLV 0x30, or on an
H6047 a lost `aa 36` after its `aa 01`. With the second step of `misled` taken away TLC finds this
trace in `ZonePower`.

## Proofs

What is proved holds for every value of the constants under the modules' named assumptions.

- `Connection_proofs`: `EnqueueKeepsSentinel` and `EnqueueBounded` are about the operator of the receive queue alone.
  `Inductive` proves the invariant `IInv`, the conjunction of `CallsInv` (which call states
  go with which places of the lock queue), `BlockInv` (what the locals hold at each await), `RadioInv` (a link
  that is up is the current one, has a teardown running or was abandoned) and `QueueInv` (the sentinel is queued
  when a waiter's link is gone). `NoOrphanLink`, `TeardownsBounded` and `LostLinkWakesWaiter` are not inductive: they need to know,
  at each place between two awaits, that the client in hand is the one the operation set up. `TypeCorrect`,
  `LinksNeverLeak`, `TeardownsAreBounded` and `WaitersWake` follow from it. The other safety properties each have an
  invariant of their own over `IInv`. `EveryStep` sorts the steps for all of them: `StepsElsewhere` says what a step of
  the environment or of a call without the lock can do to the link, `HolderSteps` that the holder's step either moves on
  and leaves the link alone, or is one of the few that do more, or runs one of the code's shared tails (`BlockAt`).
  Each invariant then needs an argument only for the steps that touch what it is about: `ReplyInv` (the queue of one
  who waits holds frames of the link last written to, `RepliesAreOwn`); `ClosedInv` (`closed` is set before `close()`
  takes the lock, every later call finds it set, `StaysClosed`); `LimitInv` (a connect limit travels through teardown,
  unwinding and finish with no link in hand, `LimitFinishesTeardowns`); `SessionInv` (the key, the readiness and the
  mode are those of the current link at every await of the set-up, `SentOnlyOnVettedLinks`, `SessionsKeepTheirMode`);
  `CopiesInv` (the attempts on the link in hand and the links of earlier passes account for all that was sent,
  `CopiesAreBounded`).
- `LinkTimers_proofs`: `Inductive` for `IdleInv` (the idle timer's rest never exceeds what quiet and warmth leave,
  an idle task is current only while nothing has operated since it fired) with `NobodyWaitsForBeat` and
  `ClosedIsSilent`; then `TypeCorrect`, `IdleDisconnectIsDue`, `NobodyWaits`, `ClosedStaysSilent`. `LinkInv` is the
  other direction. `KeepInv`: while no operation holds the lock, the idle timer's rest ends with one of the delays at
  most, or a task of this generation is created or in line (`UnusedLinkGoes`). `QuietInv`: the chain's rest covers what
  is missing to an interval of quiet, and a beat that is created on the link in hand is stale if a frame went out since
  its tick (`BeatsComeAfterQuiet`). `Alive`: the chain of a link in use is armed with it and its rest covers the
  interval, or its tick has just come; a tick that is dropped finds a link that was busy an instant ago, as the
  previous beat's write is bounded below the interval (`ChainAhead`, `WaitSilent`; `LinksKeptAlive`).
- `StatusRead_proofs`: `TypeCorrect`; `AssemblesWhole`, the refinement of `InOrderBurst`, from the invariant
  `Assembly` (what is assembled is a prefix of one reply in order); `OwnReplies` (`OwnUnlessLateHead`), from an
  invariant that says queue and air hold replies in the order they were sent and every first chunk that is older
  than the request is known to be late. `SpliceIsLoss` and `OwnReplyIsEnough` need what the assembler waits for to be
  on its way. `StreamInv`: what is heard, queued and in the air is ordered by reply and by packet, and behind each
  chunk of an undamaged reply the rest of that reply comes (`Whole`). `BurstInv`: that rest, from the index the assembler
  stands at (`RestToCome`), for which an ignored chunk is never the one waited for (`IgnoredIsPast`); of its own reply
  the assembler has let nothing pass that it could use (`NotPassed`) and fails on its own reply only.
- `FrameLog_proofs`: the invariant `Staged` says where each line logged is: queued, in the writer's batch, written or
  lost, and that `unfinished` counts the first two and the item in hand. `Accounted` adds that no line recorded is
  anywhere else. `FlushTold` (`FlushMeansDone`) and
  `FilesOrdered` (`FilesInOrder`) follow, for any bound of the queue, batch, captures and deaths of the writer.
- `ZonePower_proofs`: `Bookkept` proves the invariant `IInv`: for each zone and for the whole device, the powers it may
  end at once every posted message is applied; what each write in flight saw of the power when it was called; what
  `_power_unsure` covers. A stamp needs it because a message still posted is invisible in the device's own flags.
  `Stamped` (`StampsHold`), `ReadVouches` (`ReadVouchesForOn`) and `Settled` (`TwoReadsSettle`) follow. They hold for any
  zones, callers, writes and repeats, with the window ending at any time. The bookkeeping part of `IInv` is claimed
  outside `misled` only; what is claimed always is what two reads need to bring it back, which is why `Settled` has no
  exception.
- `DeviceCalls_proofs`: `LaterWritesKept` from the invariant `RInv` (the recorded ticket is the latest of those that
  wrote on the link). `NobodyWaitsInCircles` ranks the locks: scene, brightness, bar, gate, tap, pairing, connection.
  `BodiesOrdered` shows, body by body, that a call asks for a lock only above all it holds, leaves all it took, and
  that a `try` is made under no more than is held to its end, so that what an exception leaves is again such a body.
  The invariant `AllPlaced` says the queues agree with it: a call stands in a line only as the holder of a lock its
  body goes on to leave, or at the lock it waits for. It is kept by each thing a coroutine does between two awaits
  (`DoKeeps`, `RunPlaces`) and by leaving all the `with`s at once (`ThrownPlaced`). Of calls that wait, the first in line
  for the highest of their locks waits behind none of them. The profiles, methods and callers are any (finitely many
  callers, which `Tickets` counts).
  `CallsStayWhole` (`Untorn`): each step of a body needs some locks (`Needs`): a frame those that keep it out of a
  section (`LocksFor`), a section those of everything that would disturb it (`LocksIn`), the second of two frames a
  hold of the heartbeat. `BodiesStand` shows, body by body, that every step is taken under what it needs. `Sound` says
  it of any rest of a body, after an exception too, and `OpenIsHeld` that a lock which is open in the rest is one the
  call holds: two calls cannot both be where one would tear the other. A heartbeat holds no lock of the device; the
  invariant `AllSettled` says that while one runs no call is between two frames (`Firm`), nor at the link.
  `ChecksGoFirst` (`CheckFirst`): `BodiesWary` shows, body by body, that a check comes before the first command or read,
  and again between a lock, the load of the scenes or a caught exception and the next one. So a call is past its check
  with a frame still to send (`Unchecked`) only while it waits for the connection, where a later `SetSecret` or session
  set-up sees it. The invariant `SecretInv` adds where the check is: while one is owed on the link it is pending, or a
  call in line carries it (`Carries`), which is what `Cancel` has to restore; a call that goes on without one had read
  another secret, found the flag taken, or passed its check before the `read_secret` that opened the session
  (`Guarded`), and is in `excused`. `TakeChecked` is the step in which it could be lost, `RunChecked` carries it through
  what a coroutine does between two awaits. It uses the last conjunct of `DeviceCallsAssumption`, that a profile with an
  empty check has the account lock: the resolver refuses any other (`_resolve.py:1277`).

- `DeviceReads_proofs`, under the assumptions named in the modules. `AirInv`: the merged record always holds the device's
  latest frame where the one that changed last is looked for (`AdvertOwnAlways`). `ReadsInv`: a field is no older than
  the setter acknowledged last, a segment is a piece of the device at its place, and what a call has gathered of a walk
  is no older either, as long as its snapshot is the current `_mutation_seq`. That last claim is what makes it inductive:
  an acknowledged setter makes it void for every walk on its way (`CallLater`), and the walk then folds nothing in. A
  late reply voids it too (`mixed`, `tainted`). The lemmas go from the arithmetic of the groups (`KeptOk`, `WalkedOk`:
  each record kept lands on its own piece, the filling of the last group on none) and of the status stream (`StatusOk`)
  through what one reply leaves (`AppliedOk`, `AppliedStatusOk`, `RepliedOk`) to the steps; `NewerSetterAlwaysKept` and
  `SegmentsAlwaysOwn` follow. `SceneInv`: the versions held are the device's or none, and a scene under way is either
  still to ask for each version a gate tests that is not held, or has the device's own set (`SameSet`: versions no gate
  tests do not matter; `RepliedScene`, `SceneNext`; `SceneAlwaysOffered`). That theorem leaves out an advertisement in
  between: one may change the pact after the set was chosen, and the scene sent is then of the set before. The
  assumption on the instances (`PiecesAssumption`) is about devices, not code: one has at least the pieces its profile
  names and it reports itself, it is not cut shorter than the least its live count is clamped
  to (`_readback.py:225`), and a pact reroutes it to a profile with the same fields, whose status groups, if it reads
  them, come with a number of pieces (`_resolve.py` refuses a colour read-back without one).

- `ColourState_proofs`: `ColourAlwaysConsistent`, `SegmentsAlwaysClaimed` and `SentAlwaysInRange` from one invariant,
  `HeldInv`: the revisions known are the device's or not known (`RevisionOk`), the light's own Kelvin goes with no colour
  (`LightOk`), the fields of the state agree (`Consistent`), and what `claimed` and `claimedLevel` name is as the light
  has it (`ClaimsHold`). None of the three is inductive alone: a read folds what the light reports, so the state can
  only be consistent if the light is; a Kelvin sent is in range because the range was cut to what every revision
  allows while the revision was unknown. The proof goes by what a frame does to the light (each scheme's frame keeps
  `LightOk`), by what each fold leaves of `Consistent`, by the masks (`Carried` is what every scheme's frame reaches:
  groups, mirrored pieces and the cut of a long strip's mask), and then setter by setter. The profiles are any that
  `ValidColours` accepts. It asks for what the resolver or the type of a field refuses otherwise: Kelvin and brightness
  spans in order, one entry per pact, zones and groups among the pieces, a bar device's report in pairs. The row
  `zones z < MaskPositions` is not checked by the resolver; it holds of each zoned row, the longest of which has
  30 segments. The tint table is any whose tints are neither black nor no colour (`TintAssumption`).
  `OwnReportsAgree` (`OwnReportAgrees`) adds to `HeldInv` what makes the agreement inductive, `AgreeInv`: while the light
  shows what the state was told (`ours`), every report it may send is one the state already holds (`Tells`, `TellsAll`),
  and its level is one a percent sent or its first state gave (`LevelOk`), so that it reads as a percent. A fold of a
  report the state holds changes nothing (`TellsAgree`), and a fold of any report leaves a state that holds it
  (`ModeTells`). A whole-device write gives every piece its mode reports one look (`Shown`, `PaintedTells`), a bar's write
  those of that bar (`ZoneTells`); a brightness comes back as the percent it was sent for, in any range of more than 198
  raw values (`RawBack`). The theorem has a hypothesis on the profiles, `TellsBack`, for what the resolver does not
  check: `OneLook` (the whole-device mask reaches the pieces the mode reports, the bars share no piece), `PicksTold` (a
  colour sent as a Kelvin is held as one, a tint exists for each Kelvin of a scheme that sends only the tint, the
  range of H7061's heads has no gate) and `WideLevels`. The bundled rows have ranges of 1 .. 100, 20 .. 254 and 6 .. 254
  and Kelvin ranges inside the tint table's 1000 .. 10000 in its steps of 100. Three rows do not satisfy it: H6165, H7310
  and H7318, of scheme `legacy_02` with colours and no colour temperature, send a tint picked as a Kelvin and keep the
  colour picked (`wire/build.py:545`, `_fold.py:214`), on purpose. `MCColourState` asks it of the twelve profiles.
  A state that holds a Kelvin is not claimed to survive the report of an `rgb` strip (`Reportable`): the report says the
  tint, and the fold then drops the Kelvin.
  A read makes the light ours only when it has no other report to give: a light of several colours may send another.

`TypeCorrect` of `LinkTimers` and of `StatusRead` are theorems and no longer properties of a run.

Only model-checked: the liveness of `ConnectionLive` and `FrameLog`, which is out of the prover's reach, as fairness,
`ENABLED` and induction over data are.

## Not modelled

- Byte layouts, checksums, padding and escapes (`wire/_spec.py` over the generated readers), `describe` and
  `redact`: pure encodings whose golden frames the repository's tests compare. The models keep the fields.
- AES and RC4 arithmetic: a frame decrypts under the key of its own session and no other.
- The resolution of `devices.yaml` into rows (`devices/_resolve.py`) and the rows themselves: a table built at
  import, checked by the repository's tests over its whole content. Which row a pact selects is modelled.
- What bleak does inside `establish_connection`, scanner I/O, and records joined from several scanners.
- Reading and caching the JSON scene store; `tools/`, which builds it.
- The cloud client: HTTP requests of at most two attempts with a login in between, no state of the BLE core.
- Debug output and diagnostics (`conflicts`, `_seen`).
- The scaling by `brightness_max`, which is deprecated and which no row sets.
- Across modules: a call of `DeviceReads` holds no locks (those are `DeviceCalls`'s) and `ColourState`'s calls do not
  overlap; the status read of an H60A6 whose flags lag behind its acks is `ZonePower`'s.

## Plan

Everything planned is modelled, checked and, where the prover can, proved. What could be added is the joining of records
from several scanners.
