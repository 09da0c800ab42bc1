----------------------------- MODULE ZonePower ------------------------------
(***************************************************************************)
(* What the library knows of the power of an H60A6 (a global_power         *)
(* fixture whose zones are read with the 0xAC status read): the state's    *)
(* on/off and zone powers, the stamps that vouch for a zone                *)
(* (zone_power_confirmed), the doubt about the on/off (_power_unsure), the *)
(* read that vouches for it (power_read_at) and the posted zone powers.    *)
(* Setters go through _commit, polls through _read_status and _read_fresh  *)
(* (devices/device.py, with devices/_fold.py); ZoneDevice is the firmware. *)
(*                                                                         *)
(* A call waits for the connection, talks, and ends in one step: from the  *)
(* end of its operation to the end of its bookkeeping there is no await.   *)
(* Who gets the connection next is left open.  An advertisement carries    *)
(* the main switch as it is.  The suppress window lasts until the message  *)
(* thread has caught up, and may end while a call is under way.  The       *)
(* library is the only one to switch the device.                           *)
(***************************************************************************)
EXTENDS ZoneDevice, FiniteSets

CONSTANTS
    Tasks,       \* the callers
    MaxWrites,   \* bound: write calls
    MaxExtra     \* bound: frames of a write delivered more than once

ASSUME ZonePowerAssumption == MaxWrites \in Nat /\ MaxExtra \in Nat

VARIABLES
    isOn,      \* state.is_on: a power, or "none"
    held,      \* state.zone_power: each zone's, "none" when it has no entry
    stamped,   \* the zones of state.zone_power_confirmed
    unsure,    \* _power_unsure
    readOn,    \* the on/off of _power_read, "none" when there is none
    quiet,     \* the suppress window of the advertised on/off is open
    handed,    \* _zone_power_posted: the powers each zone may end at
    mutated,   \* the callers whose snapshot of _mutation_seq is outdated
    doubted,   \* ... of _power_unsure_seq
    dropped,   \* ... of _power_read_drops
    call,      \* each caller: "idle", "waiting", "talking"
    what,      \* its write, or Poll
    woke,      \* the writes that saw a possible wake when they were called
    frame,     \* the frame the talking write is at
    extra,     \* frames delivered once more by that write
    reply,     \* the status reply on its way
    again,     \* the polls that have retried their query
    writes,    \* write calls so far
    calm,      \* history: usable status reads since anything else happened
    misled     \* history: a wake may have gone unnoticed since two reads last settled the power

knowledge == <<isOn, held, stamped, unsure, readOn, quiet, handed>>
races == <<mutated, doubted, dropped>>
calls == <<call, what, woke, frame, extra, reply, again, writes>>
history == <<calm, misled>>
vars == <<device, knowledge, races, calls, history>>

Belief == Power \cup {"none"}
None == [op |-> "none"]
Poll == [frames |-> <<>>, zones |-> {}, on |-> "none", fixture |-> FALSE]

PowerFrame(zs, on) == [op |-> "power", zones |-> zs, on |-> on]
Brightness == [op |-> "brightness"]
Mode == [op |-> "mode"]
Scene == [op |-> "scene"]

Write(frames, zs, on, fixture) == [frames |-> frames, zones |-> zs, on |-> on, fixture |-> fixture]

\* set_power, set_zone_power, set_brightness, a colour write, turn_on with a
\* brightness or a colour, set_scene.
Writes ==
    {Write(<<PowerFrame(Zones, on)>>, Zones, on, TRUE) : on \in Power}
    \cup (UNION {{Write(<<PowerFrame({z}, on)>>, {z}, on, FALSE) : on \in Power} : z \in Zones})
    \cup {Write(<<f>>, {}, "none", FALSE) : f \in {Brightness, Mode}}
    \cup {Write(<<PowerFrame(Zones, "on"), f>>, Zones, "on", TRUE) : f \in {Brightness, Mode}}
    \cup {Write(<<Scene>>, {}, "none", TRUE)}

Has(w, op) == \E i \in 1 .. Len(w.frames) : w.frames[i].op = op

Init ==
    /\ DeviceInit
    /\ isOn = "none" /\ held = All("none") /\ stamped = {}
    /\ unsure = FALSE /\ readOn = "none" /\ quiet = FALSE /\ handed = All({})
    /\ mutated = {} /\ doubted = {} /\ dropped = {}
    /\ call = [t \in Tasks |-> "idle"] /\ what = [t \in Tasks |-> Poll] /\ woke = {}
    /\ frame = 1 /\ extra = 0 /\ reply = None /\ again = {}
    /\ writes = 0 /\ calm = 0 /\ misled = FALSE

Talking(t) == call[t] = "talking"
IsPoll(t) == what[t] = Poll
Free == \A t \in Tasks : call[t] # "talking"

-----------------------------------------------------------------------------
(* Bookkeeping.                                                            *)

\* _wake_power: w may light every zone without the state saying so.
Wakes(w) ==
    /\ \E op \in {"brightness", "mode", "scene"} : Has(w, op)
    /\ isOn # "on" \/ unsure \/ \E z \in Zones : "on" \in handed[z]

\* unconfirm_contradicted of a possible wake.
LitOnly(zs, power) == {z \in zs : power[z] = "on"}

\* _post_zone_power.
HandsOver(w, wake, acked) ==
    LET also(z) == IF wake /\ Has(w, "brightness") THEN {"on"} ELSE {}
        own(z)  == IF z \notin w.zones THEN handed[z]
                   ELSE IF acked THEN {w.on} ELSE handed[z] \cup {w.on}
    IN handed' = [z \in Zones |-> own(z) \cup also(z)]

\* _drop_power_read
DropsRead == readOn' = "none" /\ dropped' = Tasks
KeepsRead == UNCHANGED <<readOn, dropped>>
DropsReadIf(c) == IF c THEN DropsRead ELSE KeepsRead

\* An acked write's state: apply_power, apply_zone_power, or nothing of power.
HeldAfter(w) == CASE Has(w, "scene") -> All("on")
                  [] OTHER -> [z \in Zones |-> IF z \in w.zones THEN w.on ELSE held[z]]
OnAfter(w) ==
    CASE w.fixture -> IF Has(w, "scene") THEN "on" ELSE w.on
      [] ~w.fixture /\ w.zones # {} /\ (\A z \in Zones : HeldAfter(w)[z] # "none") -> Lit(HeldAfter(w))
      [] OTHER -> isOn

\* _set_zone_power: a zone keeps its stamp while it keeps its value.
Kept(power) == {z \in stamped : power[z] # "none" /\ power[z] = held[z]}

\* Fault: a wake does not touch the stamps.
StampedAfterWakeIgnored(w, wake) ==
    IF Has(w, "scene") THEN {} ELSE Kept(HeldAfter(w)) \cup w.zones

\* An acked scene write vouches for no zone.
StampedAfter(w, wake) ==
    LET after == IF Has(w, "scene") THEN {} ELSE Kept(HeldAfter(w)) \cup w.zones
    IN IF wake THEN LitOnly(after, HeldAfter(w)) ELSE after

\* Fault: a zone held lit counts without its stamp.
OthersHeldLit(w) == \A z \in Zones \ w.zones : held'[z] = "on"

\* _others_confirmed_lit, after the write's state is applied.
OthersLit(w) ==
    \A z \in Zones \ w.zones : held'[z] = "on" /\ z \in stamped'

\* _commit once the write is acked.
Acked(w, wake) ==
    LET knownOn == isOn = "on" /\ ~unsure
        doubts  == /\ w.zones \notin {{}, Zones} /\ w.on = "off"
                   /\ ~(knownOn /\ OthersLit(w))
        lights  == wake \/ (w.zones # {} /\ w.on = "on")
    IN /\ mutated' = Tasks /\ quiet' = TRUE
       /\ held' = HeldAfter(w) /\ isOn' = OnAfter(w) /\ stamped' = StampedAfter(w, wake)
       /\ HandsOver(w, wake, TRUE)
       /\ unsure' = CASE w.zones = Zones -> FALSE [] doubts -> TRUE [] OTHER -> unsure
       /\ doubted' = IF doubts THEN Tasks ELSE doubted
       /\ DropsReadIf(doubts \/ isOn' # isOn \/ (lights /\ isOn' # "on"))

\* _commit when the write raises: it may have reached the device or not.
Raised(w, wake) ==
    LET after  == IF w.fixture THEN {} ELSE stamped \ w.zones
        doubts == w.zones # {} /\ w.on = "off"
    IN /\ stamped' = IF wake THEN LitOnly(after, held) ELSE after
       /\ HandsOver(w, wake, FALSE)
       /\ unsure' = (unsure \/ doubts)
       /\ doubted' = IF doubts THEN Tasks ELSE doubted
       /\ DropsReadIf(doubts \/ w.fixture \/ w.zones # {} \/ (wake /\ isOn # "on"))
       /\ UNCHANGED <<isOn, held, quiet, mutated>>

-----------------------------------------------------------------------------
(* Write calls.                                                            *)

\* A setter calls _commit, which looks for a wake before it waits.
CallWrite(t, w) ==
    /\ call[t] = "idle" /\ writes < MaxWrites
    /\ call' = [call EXCEPT ![t] = "waiting"] /\ what' = [what EXCEPT ![t] = w]
    /\ woke' = IF Wakes(w) THEN woke \cup {t} ELSE woke \ {t}
    /\ writes' = writes + 1
    /\ UNCHANGED <<device, knowledge, races, frame, extra, reply, again, history>>

\* The call gets the connection.
Talk(t) ==
    /\ call[t] = "waiting" /\ Free
    /\ call' = [call EXCEPT ![t] = "talking"]
    /\ frame' = 1 /\ extra' = 0
    /\ UNCHANGED <<device, knowledge, races, what, woke, reply, again, writes, history>>

Current(t) == what[t].frames[frame]
\* A scene is carried out at once, a power-off posted before it later: _activate_scene waits for neither.
Overtakes(f) == f.op = "scene" /\ \E i \in 1 .. Len(posted) : posted[i].on = "off"

Reaches(t) ==
    /\ Talking(t) /\ frame <= Len(what[t].frames)
    /\ Dispatches(Current(t))
    /\ calm' = 0 /\ misled' = (misled \/ Overtakes(Current(t)))

\* The frame reaches the device and is acked.
Delivered(t) ==
    /\ Reaches(t)
    /\ frame' = frame + 1
    /\ UNCHANGED <<knowledge, races, call, what, woke, extra, reply, again, writes>>

\* ... or is not, and is written again; on a fresh link from the first frame.
DeliveredUnacked(t) ==
    /\ Reaches(t) /\ extra < MaxExtra
    /\ frame' \in {frame, 1} /\ extra' = extra + 1
    /\ UNCHANGED <<knowledge, races, call, what, woke, reply, again, writes>>

Ends(t) ==
    /\ call' = [call EXCEPT ![t] = "idle"] /\ what' = [what EXCEPT ![t] = Poll]
    /\ woke' = woke \ {t} /\ again' = again \ {t}
    /\ frame' = 1 /\ extra' = 0 /\ reply' = None
    /\ UNCHANGED <<device, writes>>

\* The wake is looked for once more: a power-off may have been applied while
\* the write waited.
WriteAcked(t) ==
    /\ Talking(t) /\ ~IsPoll(t) /\ frame > Len(what[t].frames)
    /\ Acked(what[t], t \in woke \/ Wakes(what[t]))
    /\ calm' = 0 /\ UNCHANGED misled /\ Ends(t)

\* Refused, timed out, cancelled, or the link was lost; or cancelled while it
\* waited for the connection.
WriteRaises(t) ==
    /\ Talking(t) \/ call[t] = "waiting"
    /\ ~IsPoll(t)
    /\ Raised(what[t], t \in woke \/ Wakes(what[t]))
    /\ calm' = 0 /\ UNCHANGED misled
    /\ IF Talking(t) THEN Ends(t)
       ELSE /\ call' = [call EXCEPT ![t] = "idle"] /\ what' = [what EXCEPT ![t] = Poll]
            /\ woke' = woke \ {t}
            /\ UNCHANGED <<device, frame, extra, reply, again, writes>>

-----------------------------------------------------------------------------
(* Polls.                                                                  *)

\* _read_status and _read_fresh take their snapshots.
CallPoll(t) ==
    /\ call[t] = "idle"
    /\ call' = [call EXCEPT ![t] = "waiting"] /\ what' = [what EXCEPT ![t] = Poll]
    /\ mutated' = mutated \ {t} /\ doubted' = doubted \ {t} /\ dropped' = dropped \ {t}
    /\ again' = again \ {t}
    /\ UNCHANGED <<device, knowledge, woke, frame, extra, reply, writes, history>>

\* The device answers.  The reply carries the zones or, what the code takes as
\* well, the on/off only.
Answers(t) ==
    /\ Talking(t) /\ IsPoll(t) /\ reply = None
    /\ Replies
    /\ \E carried \in {{}, Zones} : reply' = [op |-> "status", on |-> main, zones |-> carried, power |-> flags]
    /\ UNCHANGED <<knowledge, races, call, what, woke, frame, extra, again, writes, history>>

\* No usable reply, or it is lost on its way: status_burst asks once more,
\* after others.
AsksAgain(t) ==
    /\ Talking(t) /\ IsPoll(t) /\ t \notin again
    /\ again' = again \cup {t}
    /\ call' = [call EXCEPT ![t] = "waiting"] /\ reply' = None
    /\ UNCHANGED <<device, knowledge, races, what, woke, frame, extra, writes, history>>

\* The poll ends with nothing read, or is cancelled.
PollEmpty(t) ==
    /\ IsPoll(t) /\ (Talking(t) \/ call[t] = "waiting")
    /\ call' = [call EXCEPT ![t] = "idle"] /\ again' = again \ {t}
    /\ reply' = IF Talking(t) THEN None ELSE reply
    /\ UNCHANGED <<device, knowledge, races, what, woke, frame, extra, writes, history>>

\* A setter applied its state since the poll began: the reply is discarded.
PollStale(t) ==
    /\ Talking(t) /\ IsPoll(t) /\ reply # None /\ t \in mutated
    /\ Ends(t)
    /\ UNCHANGED <<knowledge, races, history>>

\* The zones the reply may predate a write of.
Unsettled == {z \in reply.zones : handed[z] \notin {{}, {reply.power[z]}}}

\* apply_status vouches for what it reads, short of these.
Vouched == {z \in reply.zones \ Unsettled : reply.on = "on" \/ reply.power[z] = "off"}

\* Fault: only the zones the reply vouches for leave the posted powers.
HandedUntilVouched == [z \in Zones |-> IF z \in Vouched THEN {} ELSE handed[z]]

\* A reply settles the posted powers of the zones it carries.
HandedAfterReply == [z \in Zones |-> IF z \in reply.zones THEN {} ELSE handed[z]]

\* The apply of _read_status, then _finish_read.
PollApplied(t) ==
    LET early == \E z \in Zones : handed[z] # {} /\ (z \notin reply.zones \/ z \in Unsettled)
    IN /\ Talking(t) /\ IsPoll(t) /\ reply # None /\ t \notin mutated
       /\ isOn' = reply.on /\ quiet' = TRUE
       /\ held' = IF reply.zones = {} THEN held ELSE reply.power
       /\ stamped' = (stamped \ reply.zones) \cup Vouched
       /\ handed' = HandedAfterReply
       /\ IF early
          THEN unsure' = TRUE /\ doubted' = Tasks /\ DropsRead
          ELSE /\ unsure' = (unsure /\ t \in doubted)
               /\ readOn' = IF t \in dropped THEN readOn ELSE reply.on
               /\ UNCHANGED <<doubted, dropped>>
       /\ calm' = IF reply.zones = {} \/ t \in doubted \cup dropped THEN calm
                  ELSE IF calm = 2 THEN 2 ELSE calm + 1
       /\ misled' = (misled /\ calm' # 2)
       /\ UNCHANGED mutated
       /\ Ends(t)

-----------------------------------------------------------------------------
(* Beside the calls.                                                       *)

\* A write on the link that wakes the device if it is off, and was called when it seemed on.
Unnoticed(t) ==
    /\ Talking(t) /\ what[t].zones = {} /\ t \notin woke
    /\ \E op \in {"brightness", "mode", "scene"} : Has(what[t], op)

\* ingest_advertisement outside the suppress window: apply_advert_power.  The
\* write finds is_on true again when it ends.
Advert(on) ==
    LET power == CASE on = "off" -> All("off")
                   [] on = "on" /\ Lit(held) = "on" -> held
                   [] OTHER -> All("none")
    IN /\ on = main /\ on # isOn /\ ~quiet
       /\ isOn' = on /\ held' = power /\ stamped' = Kept(power)
       /\ DropsRead /\ calm' = 0
       /\ misled' = (misled \/ (on = "on" /\ \E t \in Tasks : Unnoticed(t)))
       /\ UNCHANGED <<device, unsure, quiet, handed, mutated, doubted, calls>>

\* ADVERT_SUPPRESS_SECONDS (15 s) are over, whatever operation still runs: its
\* limit is OPERATION_TIMEOUT (45 s).
WindowEnds ==
    /\ quiet /\ posted = <<>>
    /\ quiet' = FALSE
    /\ UNCHANGED <<device, isOn, held, stamped, unsure, readOn, handed, races, calls, history>>

ThreadApplies ==
    /\ AppliesNext
    /\ calm' = 0 /\ UNCHANGED misled
    /\ UNCHANGED <<knowledge, races, calls>>

Next ==
    \/ \E t \in Tasks :
          \/ \E w \in Writes : CallWrite(t, w)
          \/ CallPoll(t) \/ Talk(t)
          \/ Delivered(t) \/ DeliveredUnacked(t) \/ WriteAcked(t) \/ WriteRaises(t)
          \/ Answers(t) \/ AsksAgain(t) \/ PollEmpty(t) \/ PollStale(t) \/ PollApplied(t)
    \/ \E on \in Power : Advert(on)
    \/ WindowEnds
    \/ ThreadApplies

Spec == Init /\ [][Next]_vars

-----------------------------------------------------------------------------
(* What the library may say of the device.                                 *)

\* "An entry vouches that zone_power still holds the value the device gave":
\* a stamped zone is at its held power once the message thread has caught up,
\* whatever writes raised after they had landed, woke the device, or were
\* acked before they were applied.  Not while a write is on the link.
StampsVouch ==
    Free => \A z \in stamped : EndsAt(z) = held[z]

\* ... but for two ways in which _wake_power loses sight of a wake, from then
\* until two reads have settled the power: a scene overtook a posted power-off
\* (StampsVouch fails, run ZonePowerOvertaken), or is_on was off for a while
\* within one write that woke the device and an advertisement, the suppress
\* window being shorter than an operation, set it on before the write ended.
StampsHold == misled \/ StampsVouch

\* power_read_at: while it has a value the device's on/off ends at is_on, with
\* the same two exceptions.
ReadVouchesForOn ==
    misled \/ (Free /\ readOn # "none" /\ readOn = isOn => EndsOn = isOn)

\* Doubt ends: two status reads in a row, asked and answered with nothing else
\* going on, bring the state back to the device's and vouch for all of it,
\* whatever went unnoticed before and however long the calls took.
TwoReadsSettle ==
    calm = 2 =>
        /\ held = flags /\ isOn = main /\ ~unsure /\ readOn = isOn
        /\ stamped = Zones /\ handed = All({})
=============================================================================
