----------------------------- MODULE ZoneDevice -----------------------------
(***************************************************************************)
(* The power of an H60A6 as its firmware keeps it, which is what the       *)
(* library's bookkeeping is about (_post_zone_power, _wake_power and       *)
(* _read_status in devices/device.py describe it).  The dispatcher acks a  *)
(* power write once it has posted it to a message thread, which applies    *)
(* the posted writes later, in order; a status reply is built from the     *)
(* flags as they are.  The firmware is not part of the repository.         *)
(***************************************************************************)
EXTENDS Integers, Sequences, FiniteSetsExt

CONSTANTS
    Zones,       \* the zones of the fixture
    MaxPosted    \* bound: writes the thread has not applied

ASSUME ZoneDeviceAssumption == MaxPosted \in Nat /\ Zones # {}

VARIABLES
    flags,    \* each zone's power
    main,     \* the main switch
    posted,   \* the message thread's queue
    replied   \* how many of these were posted before the last status reply

device == <<flags, main, posted, replied>>

Power == {"on", "off"}
All(on) == [z \in Zones |-> on]
Lit(power) == IF \E z \in Zones : power[z] = "on" THEN "on" ELSE "off"

\* MSG_SET_TURN sets every zone, MSG_SET_TURN_MULT its own.
Messages == [zones : {Zones} \cup {{z} : z \in Zones}, on : Power]
Turn(zs, on) == [zones |-> zs, on |-> on]

Frames == [op : {"power"}, zones : {Zones} \cup {{z} : z \in Zones}, on : Power]
             \cup [op : {"brightness", "mode", "scene"}]

\* The main switch is on while a zone is lit.
DeviceInit ==
    /\ flags \in [Zones -> Power] /\ main = Lit(flags)
    /\ posted = <<>> /\ replied = 0

Posts(m) == posted' = Append(posted, m) /\ UNCHANGED <<flags, main>>

\* What a scene does to the zones of a lit device is not traced: here it may
\* light a dark one, and turns none off.
Activates ==
    /\ IF main = "off" THEN flags' = All("on")
       ELSE /\ flags' \in [Zones -> Power]
            /\ \A z \in Zones : flags[z] = "on" => flags'[z] = "on"
    /\ main' = "on" /\ UNCHANGED posted

\* The dispatcher.  It checks the main switch as the thread has left it.
Dispatches(f) ==
    /\ Len(posted) < MaxPosted
    \* What was posted before a status reply is applied within its round trip.
    /\ replied = 0
    /\ CASE f.op = "power" -> Posts(Turn(f.zones, f.on))
         [] f.op = "brightness" /\ main = "off" -> Posts(Turn(Zones, "on"))
         [] f.op = "mode" /\ main = "off" -> flags' = All("on") /\ main' = "on" /\ UNCHANGED posted
         [] f.op = "scene" -> Activates
         [] OTHER -> UNCHANGED <<flags, main, posted>>
    /\ UNCHANGED replied

\* The message thread.
AppliesNext ==
    /\ posted # <<>>
    /\ flags' = [z \in Zones |-> IF z \in Head(posted).zones THEN Head(posted).on ELSE flags[z]]
    /\ main' = Lit(flags')
    /\ posted' = Tail(posted)
    /\ replied' = IF replied = 0 THEN 0 ELSE replied - 1

\* The dispatcher builds a status reply.
Replies ==
    /\ replied = 0
    /\ replied' = Len(posted)
    /\ UNCHANGED <<flags, main, posted>>

\* Where a zone, and the main switch, end once the thread has caught up.
Later(z) == {i \in 1 .. Len(posted) : z \in posted[i].zones}
EndsAt(z) == IF Later(z) = {} THEN flags[z] ELSE posted[Max(Later(z))].on
EndsOn == Lit([z \in Zones |-> EndsAt(z)])
=============================================================================
