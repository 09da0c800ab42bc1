--------------------------- MODULE ZonePower_proofs ---------------------------
(***************************************************************************)
(* ZonePower for any zones, callers and bounds, with a window that may end *)
(* under a call and a scene that may overtake a posted power-off: a stamp  *)
(* holds and a read vouches for the on/off unless a wake may have gone     *)
(* unnoticed (misled), and two reads settle whatever was believed.         *)
(***************************************************************************)
EXTENDS ZonePower, SequenceTheorems, WellFoundedInduction, TLAPS

\* The power the device's zones end at, whatever is still posted.
LEMMA LatestPosted ==
    ASSUME NEW n \in Nat, NEW S \in SUBSET (1 .. n), S # {}
    PROVE  /\ Max(S) \in S /\ \A i \in S : i <= Max(S)
           /\ \A m \in S : (\A i \in S : i <= m) => Max(S) = m
<1> DEFINE T == {j \in Nat : n - j \in S}
<1>1. \A i \in S : i \in Int /\ n - i \in Nat /\ n - (n - i) = i
  OBVIOUS
<1>2. T \subseteq Nat /\ T # {}
  BY <1>1
<1>3. PICK k \in T : \A j \in T : <<j, k>> \notin OpToRel(<, Nat)
  BY <1>2, NatLessThanWellFounded, WFMin
<1>4. \A j \in T : ~(j < k)
  BY <1>2, <1>3 DEF OpToRel
<1> DEFINE m == n - k
<1>5. m \in S
  OBVIOUS
<1>6. \A i \in S : m >= i
  <2> SUFFICES ASSUME NEW i \in S PROVE ~(n - i < k)
    BY <1>1
  <2>1. n - i \in T
    BY <1>1
  <2> QED BY <2>1, <1>4
<1>7. \A r \in S : (\A i \in S : r >= i) => r = m
  BY <1>1, <1>5, <1>6
<1> HIDE DEF m
<1>8. Max(S) = m
  BY <1>5, <1>6, <1>7 DEF Max
<1>9. \A i \in S : i <= m
  BY <1>1, <1>5, <1>6
<1> QED
  BY <1>1, <1>5, <1>7, <1>8, <1>9

LEMMA MessageFacts ==
    /\ \A m \in Messages : m.zones \subseteq Zones /\ m.on \in Power
    /\ \A on \in Power : Turn(Zones, on) \in Messages /\ Turn(Zones, on).zones = Zones /\ Turn(Zones, on).on = on
    /\ \A z \in Zones, on \in Power : Turn({z}, on) \in Messages /\ Turn({z}, on).zones = {z} /\ Turn({z}, on).on = on
BY DEF Messages, Turn

DeviceTyped ==
    /\ flags \in [Zones -> Power] /\ main \in Power
    /\ posted \in Seq(Messages) /\ replied \in 0 .. Len(posted)

\* The posted writes that set a zone, and where it ends.
LEMMA EndsAtFacts ==
    ASSUME DeviceTyped, NEW z \in Zones
    PROVE  /\ Len(posted) \in Nat /\ Later(z) \subseteq 1 .. Len(posted)
           /\ Later(z) = {} => EndsAt(z) = flags[z]
           /\ \A m \in Later(z) : (\A i \in Later(z) : i <= m) => EndsAt(z) = posted[m].on
           /\ Later(z) # {} => \E m \in Later(z) : \A i \in Later(z) : i <= m
           /\ EndsAt(z) \in Power
<1>1. Len(posted) \in Nat /\ Later(z) \subseteq 1 .. Len(posted)
  BY LenProperties DEF DeviceTyped, Later
<1>2. Later(z) = {} => EndsAt(z) = flags[z]
  BY DEF EndsAt
<1>3. ASSUME Later(z) # {}
      PROVE  /\ Max(Later(z)) \in Later(z) /\ \A i \in Later(z) : i <= Max(Later(z))
             /\ EndsAt(z) = posted[Max(Later(z))].on
  BY <1>1, <1>3, LatestPosted DEF EndsAt
<1>4. \A m \in Later(z) : (\A i \in Later(z) : i <= m) => EndsAt(z) = posted[m].on
  <2> SUFFICES ASSUME NEW m \in Later(z), \A i \in Later(z) : i <= m PROVE EndsAt(z) = posted[m].on
    OBVIOUS
  <2>1. Max(Later(z)) = m
    BY <1>1, <1>3
  <2> QED BY <1>3, <2>1
<1>5. EndsAt(z) \in Power
  <2>1. CASE Later(z) = {}
    BY <1>2, <2>1 DEF DeviceTyped
  <2>2. CASE Later(z) # {}
    <3>1. posted[Max(Later(z))] \in Messages
      BY <1>1, <1>3, <2>2, ElementOfSeq DEF DeviceTyped
    <3> QED BY <1>3, <2>2, <3>1, MessageFacts
  <2> QED BY <2>1, <2>2
<1> QED BY <1>1, <1>2, <1>3, <1>4, <1>5

\* A posted write decides where its zones end.
LEMMA EndsAtPosts ==
    ASSUME DeviceTyped, NEW m \in Messages, Posts(m), NEW z \in Zones
    PROVE  /\ EndsAt(z)' = IF z \in m.zones THEN m.on ELSE EndsAt(z)
           /\ Later(z)' = Later(z) \cup (IF z \in m.zones THEN {Len(posted) + 1} ELSE {})
           /\ Len(posted') = Len(posted) + 1 /\ posted' \in Seq(Messages)
<1>1. /\ Len(posted) \in Nat /\ Len(posted') = Len(posted) + 1 /\ posted' \in Seq(Messages)
      /\ \A i \in 1 .. Len(posted) : posted'[i] = posted[i]
      /\ posted'[Len(posted) + 1] = m /\ flags' = flags
  BY AppendProperties, LenProperties DEF DeviceTyped, Posts
<1>2. Later(z)' = Later(z) \cup (IF z \in m.zones THEN {Len(posted) + 1} ELSE {})
  <2>1. ASSUME NEW i \in Later(z)' PROVE i \in Later(z) \/ (z \in m.zones /\ i = Len(posted) + 1)
    BY <1>1, <2>1 DEF Later
  <2>2. ASSUME NEW i \in Later(z) PROVE i \in Later(z)'
    BY <1>1, <2>2 DEF Later
  <2>3. ASSUME z \in m.zones PROVE Len(posted) + 1 \in Later(z)'
    BY <1>1, <2>3 DEF Later
  <2> QED BY <2>1, <2>2, <2>3
<1>3. /\ Later(z)' \subseteq 1 .. Len(posted') 
      /\ (Later(z)' = {} => EndsAt(z)' = flags'[z])
      /\ (Later(z)' # {} => /\ Max(Later(z)') \in Later(z)' /\ \A i \in Later(z)' : i <= Max(Later(z)')
                            /\ EndsAt(z)' = posted'[Max(Later(z)')].on)
  <2> DEFINE L == Later(z)'
  <2>1. L \subseteq 1 .. Len(posted') /\ Len(posted') \in Nat
    BY <1>1 DEF Later
  <2>2. EndsAt(z)' = IF L = {} THEN flags'[z] ELSE posted'[Max(L)].on
    BY DEF EndsAt
  <2> HIDE DEF L
  <2>3. L # {} => Max(L) \in L /\ \A i \in L : i <= Max(L)
    BY <2>1, LatestPosted
  <2> QED BY <2>1, <2>2, <2>3 DEF L
<1>4. CASE z \in m.zones
  <2> DEFINE L == Later(z)'
  <2>1. L = Later(z) \cup {Len(posted) + 1} /\ Later(z) \subseteq 1 .. Len(posted)
    BY <1>2, <1>4, EndsAtFacts
  <2> HIDE DEF L
  <2>2. L \subseteq 1 .. (Len(posted) + 1) /\ L # {} /\ Len(posted) + 1 \in L
    BY <1>1, <2>1
  <2>3. \A i \in L : i <= Len(posted) + 1
    BY <1>1, <2>2
  <2> DEFINE n == Len(posted) + 1
  <2>4. Max(L) = n
    <3>1. n \in Nat /\ L \in SUBSET (1 .. n) /\ L # {} /\ n \in L /\ \A i \in L : i <= n
      BY <1>1, <2>2, <2>3
    <3> HIDE DEF n
    <3> QED BY <3>1, LatestPosted
  <2>5. Max(Later(z)') = Len(posted) + 1
    BY <2>4 DEF L
  <2> QED BY <1>1, <1>2, <1>3, <1>4, <2>5
<1>5. CASE z \notin m.zones
  <2>1. Later(z)' = Later(z)
    BY <1>2, <1>5
  <2>2. CASE Later(z) = {}
    BY <1>1, <1>2, <1>3, <1>5, <2>1, <2>2, EndsAtFacts
  <2>3. CASE Later(z) # {}
    <3>1. EndsAt(z) = posted[Max(Later(z)')].on
      BY <1>3, <2>1, <2>3, EndsAtFacts
    <3>2. posted'[Max(Later(z)')] = posted[Max(Later(z)')]
      BY <1>1, <1>3, <2>1, <2>3, EndsAtFacts
    <3> QED BY <1>1, <1>2, <1>3, <1>5, <2>3, <2>1, <3>1, <3>2
  <2> QED BY <2>2, <2>3
<1> QED BY <1>4, <1>5

\* The message thread takes a zone where it was to end.
LEMMA EndsAtApplied ==
    ASSUME DeviceTyped, AppliesNext
    PROVE  /\ DeviceTyped' /\ Len(posted') = Len(posted) - 1 /\ Len(posted) \in Nat \ {0}
           /\ \A i \in 1 .. Len(posted') : posted'[i] = posted[i + 1]
           /\ posted[1] \in Messages
           /\ flags' = [z \in Zones |-> IF z \in posted[1].zones THEN posted[1].on ELSE flags[z]]
           /\ \A z \in Zones : /\ EndsAt(z)' = EndsAt(z)
                               /\ \A i \in Later(z)' : i + 1 \in Later(z)
<1>1. /\ Len(posted) \in Nat \ {0} /\ posted' \in Seq(Messages) /\ Len(posted') = Len(posted) - 1
      /\ \A i \in 1 .. Len(posted') : posted'[i] = posted[i + 1]
      /\ Head(posted) = posted[1] /\ posted[1] \in Messages
  BY HeadTailProperties, EmptySeq, LenProperties, ElementOfSeq DEF DeviceTyped, AppliesNext
<1>2. flags' = [z \in Zones |-> IF z \in posted[1].zones THEN posted[1].on ELSE flags[z]]
  BY <1>1 DEF AppliesNext
<1>3. DeviceTyped'
  <2>1. flags' \in [Zones -> Power]
    BY <1>1, <1>2, MessageFacts DEF DeviceTyped
  <2>2. main' \in Power
    BY DEF AppliesNext, Lit, Power
  <2>3. replied' \in 0 .. Len(posted')
    BY <1>1 DEF AppliesNext, DeviceTyped
  <2> QED BY <1>1, <2>1, <2>2, <2>3 DEF DeviceTyped
<1>4. ASSUME NEW z \in Zones
      PROVE  EndsAt(z)' = EndsAt(z) /\ \A i \in Later(z)' : i + 1 \in Later(z)
  <2>1. /\ \A i \in Later(z)' : i + 1 \in Later(z)
        /\ \A i \in Later(z) : i = 1 \/ i - 1 \in Later(z)'
        /\ (1 \in Later(z) <=> z \in posted[1].zones)
    BY <1>1 DEF Later
  <2>2. /\ Later(z)' \subseteq 1 .. Len(posted')
        /\ (Later(z)' = {} => EndsAt(z)' = flags'[z])
        /\ (Later(z)' # {} => /\ Max(Later(z)') \in Later(z)' /\ \A i \in Later(z)' : i <= Max(Later(z)')
                              /\ EndsAt(z)' = posted'[Max(Later(z)')].on)
    <3>1. Later(z)' \subseteq 1 .. Len(posted')
      BY DEF Later
    <3>2. Len(posted') \in Nat
      BY <1>1
    <3> QED BY <3>1, <3>2, LatestPosted DEF EndsAt
  <2>3. CASE Later(z)' = {}
    <3>1. CASE z \in posted[1].zones
      <4>1. 1 \in Later(z) /\ \A i \in Later(z) : i <= 1
        BY <1>1, <2>1, <2>3, <3>1
      <4>2. EndsAt(z) = posted[1].on
        BY <4>1, EndsAtFacts
      <4> QED BY <1>2, <2>1, <2>2, <2>3, <3>1, <4>2
    <3>2. CASE z \notin posted[1].zones
      <4>1. Later(z) = {}
        BY <2>1, <2>3, <3>2
      <4> QED BY <1>2, <2>1, <2>2, <2>3, <3>2, <4>1, EndsAtFacts
    <3> QED BY <3>1, <3>2
  <2>4. CASE Later(z)' # {}
    <3> DEFINE m == Max(Later(z)')
    <3>1. m \in Later(z)' /\ (\A i \in Later(z)' : i <= m) /\ EndsAt(z)' = posted'[m].on
      BY <2>2, <2>4
    <3> HIDE DEF m
    <3>2. m + 1 \in Later(z) /\ m \in 1 .. Len(posted') /\ Later(z) \subseteq 1 .. Len(posted)
      BY <2>1, <2>2, <3>1, EndsAtFacts
    <3>3. \A i \in Later(z) : i <= m + 1
      BY <1>1, <2>1, <3>1, <3>2
    <3>4. EndsAt(z) = posted[m + 1].on
      BY <3>2, <3>3, EndsAtFacts
    <3> QED BY <1>1, <2>1, <3>1, <3>2, <3>4
  <2> QED BY <2>3, <2>4
<1> QED BY <1>1, <1>2, <1>3, <1>4

\* A zone the dispatcher lights ends lit or as it was.
LEMMA EndsAtLights ==
    ASSUME DeviceTyped, flags' \in [Zones -> Power], posted' = posted, NEW z \in Zones
    PROVE  /\ Later(z)' = Later(z)
           /\ EndsAt(z)' = IF Later(z) = {} THEN flags'[z] ELSE EndsAt(z)
<1>1. Later(z)' = Later(z)
  BY DEF Later
<1> QED BY <1>1 DEF EndsAt
-----------------------------------------------------------------------------
(* The inductive invariant.                                                *)

Writing(t) == Talking(t) /\ ~IsPoll(t)
\* A write of a power-off has the connection.
TurningOff == \E t \in Tasks : Writing(t) /\ what[t].on = "off"
Lights(w) == Has(w, "brightness") \/ Has(w, "mode") \/ Has(w, "scene")
PostedOn == \E z \in Zones : "on" \in handed[z]
\* The device is known to be on: _wake_power looks no further.
KnownOn == isOn = "on" /\ ~unsure /\ ~PostedOn
SeesWake(t) == t \in woke \/ ~KnownOn

Status == [op : {"status"}, on : Power, zones : {{}, Zones}, power : [Zones -> Power]]

Typed ==
    /\ DeviceTyped
    /\ isOn \in Belief /\ held \in [Zones -> Belief] /\ stamped \subseteq Zones
    /\ unsure \in BOOLEAN /\ readOn \in Belief /\ quiet \in BOOLEAN /\ handed \in [Zones -> SUBSET Power]
    /\ mutated \subseteq Tasks /\ doubted \subseteq Tasks /\ dropped \subseteq Tasks
    /\ call \in [Tasks -> {"idle", "waiting", "talking"}] /\ what \in [Tasks -> Writes \cup {Poll}]
    /\ woke \subseteq Tasks /\ frame \in Nat \ {0} /\ reply \in Status \cup {None}
    /\ calm \in 0 .. 2 /\ misled \in BOOLEAN

\* One call has the connection, and a reply is on its way to a poll.
OneTalks ==
    /\ \A t, u \in Tasks : Talking(t) /\ Talking(u) => t = u
    /\ \A t \in Tasks : call[t] = "idle" => IsPoll(t)
    /\ reply # None => \E t \in Tasks : Talking(t) /\ IsPoll(t)

MainFollows == main = Lit(flags)

\* What a write has delivered is where the device ends.
Landed ==
    \A t \in Tasks : Writing(t) /\ frame > 1 =>
        /\ \A z \in what[t].zones : EndsAt(z) = what[t].on
        /\ (Has(what[t], "scene") => EndsOn = "on")

\* A device believed on without doubt ends on, unless a power-off is under way.
EndsSure == isOn = "on" /\ ~unsure => EndsOn = "on" \/ TurningOff

\* Outside the suppress window no power-off waits in the device, unless one is under way or in
\* doubt, and a device known to be on is.
NothingOff == ~quiet /\ ~unsure => TurningOff \/ \A i \in 1 .. Len(posted) : posted[i].on = "on"
MainSure == KnownOn /\ ~quiet => main = "on" \/ TurningOff

\* Where a zone may end because of the write that has the connection.
WriteSets(t, z) == z \in what[t].zones /\ EndsAt(z) = what[t].on
WriteLights(t, z) == EndsAt(z) = "on" /\ Lights(what[t]) /\ SeesWake(t)

\* What no reply has carried ends at one of the powers handed over.
HandedHolds ==
    \A z \in Zones : (\E i \in Later(z) : i > replied) =>
        \/ EndsAt(z) \in handed[z]
        \/ \E t \in Tasks : Writing(t) /\ (WriteSets(t, z) \/ (WriteLights(t, z) /\ Has(what[t], "brightness")))

\* A stamped zone ends at its held power, but for the write that has the connection.
StampHolds ==
    \A z \in stamped :
        \/ EndsAt(z) = held[z]
        \/ \E t \in Tasks : /\ Writing(t)
                             /\ \/ WriteSets(t, z) \/ WriteLights(t, z)
                                \/ Has(what[t], "scene") /\ EndsAt(z) = "on"

\* A reply gives each zone the power it ends at, unless another is handed over.
ReplyHolds ==
    reply # None => \A z \in Zones : EndsAt(z) = reply.power[z] \/ EndsAt(z) \in handed[z]

\* The on/off of the last read is where the device ends, but for the write that has the connection.
ReadHolds ==
    readOn # "none" /\ readOn = isOn =>
        \/ EndsOn = isOn
        \/ isOn = "on" /\ TurningOff
        \/ isOn = "off" /\ \E t \in Tasks : Writing(t) /\ (what[t].on = "on" \/ Lights(what[t]))

\* What no unnoticed wake can disturb: a reply was built after all that was posted, and a read
\* beside which nothing happened gives the device as it is.
ReplyFits == reply # None => replied = Len(posted) /\ reply.on = Lit(reply.power)

Calm ==
    /\ calm >= 1 => /\ handed = All({}) /\ replied = Len(posted)
                    /\ (reply # None => reply.power = flags /\ reply.on = main /\ posted = <<>>)
    /\ calm = 2 => posted = <<>>
    /\ TwoReadsSettle

Base == Typed /\ OneTalks /\ MainFollows /\ ReplyFits /\ Calm
Rest == Landed /\ EndsSure /\ NothingOff /\ MainSure /\ HandedHolds /\ StampHolds /\ ReplyHolds /\ ReadHolds

IInv == Base /\ (misled \/ Rest)
-----------------------------------------------------------------------------
(* Facts of the writes and of the powers.                                  *)

LEMMA LitFacts ==
    ASSUME NEW power \in [Zones -> Power]
    PROVE  /\ Lit(power) \in Power
           /\ Lit(power) = "on" <=> \E z \in Zones : power[z] = "on"
           /\ Lit(power) = "off" <=> \A z \in Zones : power[z] = "off"
BY DEF Lit, Power

LEMMA EndsOnFacts ==
    ASSUME DeviceTyped
    PROVE  /\ EndsOn \in Power
           /\ EndsOn = "on" <=> \E z \in Zones : EndsAt(z) = "on"
           /\ EndsOn = "off" <=> \A z \in Zones : EndsAt(z) = "off"
<1>1. [z \in Zones |-> EndsAt(z)] \in [Zones -> Power]
  BY EndsAtFacts
<1> QED BY <1>1, LitFacts DEF EndsOn

\* A write sets its zones with its first frame, wakes what it wakes with its last, and does both
\* only when it lights every zone.
LEMMA WriteFacts ==
    ASSUME NEW w \in Writes
    PROVE  /\ w # Poll /\ w.zones \subseteq Zones /\ Len(w.frames) \in {1, 2} /\ w.fixture \in BOOLEAN
           /\ w.zones # {} => /\ w.on \in Power /\ w.frames[1] = PowerFrame(w.zones, w.on)
                              /\ w.zones = Zones \/ \E z \in Zones : w.zones = {z}
           /\ w.zones = {} => /\ w.on = "none" /\ Lights(w) /\ Len(w.frames) = 1
                              /\ w.frames[1].op \in {"brightness", "mode", "scene"}
           /\ Len(w.frames) = 2 => w.zones = Zones /\ w.on = "on" /\ w.frames[2].op \in {"brightness", "mode"}
           /\ w.zones # {} /\ Lights(w) => w.zones = Zones /\ w.on = "on" /\ ~Has(w, "scene")
           /\ Has(w, "scene") => w.zones = {} /\ w.fixture /\ w.frames[1].op = "scene"
           /\ w.fixture => Has(w, "scene") \/ w.zones = Zones
<1>0. Zones # {} /\ Power = {"on", "off"} /\ Len(Poll.frames) = 0
  BY ZoneDeviceAssumption DEF Power, Poll
<1>7. \/ \E on \in Power : w = Write(<<PowerFrame(Zones, on)>>, Zones, on, TRUE)
      \/ \E z \in Zones, on \in Power : w = Write(<<PowerFrame({z}, on)>>, {z}, on, FALSE)
      \/ \E f \in {Brightness, Mode} : w = Write(<<f>>, {}, "none", FALSE)
      \/ \E f \in {Brightness, Mode} : w = Write(<<PowerFrame(Zones, "on"), f>>, Zones, "on", TRUE)
      \/ w = Write(<<Scene>>, {}, "none", TRUE)
  BY Zenon DEF Writes
<1> USE DEF Write, PowerFrame, Brightness, Mode, Scene, Lights, Has, Poll
<1>1. ASSUME NEW on \in Power, w = Write(<<PowerFrame(Zones, on)>>, Zones, on, TRUE)
      PROVE  w.frames = <<PowerFrame(Zones, on)>> /\ w.zones = Zones /\ w.on = on /\ w.fixture = TRUE
  BY <1>1
<1>2. ASSUME NEW z \in Zones, NEW on \in Power, w = Write(<<PowerFrame({z}, on)>>, {z}, on, FALSE)
      PROVE  w.frames = <<PowerFrame({z}, on)>> /\ w.zones = {z} /\ w.on = on /\ w.fixture = FALSE
  BY <1>2
<1>3. ASSUME NEW f \in {Brightness, Mode}, w = Write(<<f>>, {}, "none", FALSE)
      PROVE  w.frames = <<f>> /\ f.op \in {"brightness", "mode"} /\ w.zones = {} /\ w.on = "none" /\ w.fixture = FALSE
  BY <1>3
<1>4. ASSUME NEW f \in {Brightness, Mode}, w = Write(<<PowerFrame(Zones, "on"), f>>, Zones, "on", TRUE)
      PROVE  w.frames = <<PowerFrame(Zones, "on"), f>> /\ f.op \in {"brightness", "mode"} /\ w.zones = Zones
             /\ w.on = "on" /\ w.fixture = TRUE
  BY <1>4
<1>5. ASSUME w = Write(<<Scene>>, {}, "none", TRUE)
      PROVE  w.frames = <<Scene>> /\ w.zones = {} /\ w.on = "none" /\ w.fixture = TRUE
  BY <1>5
<1>6. w.frames # <<>> => w # Poll
  OBVIOUS
<1> QED
  <2>1. CASE \E on \in Power : w = Write(<<PowerFrame(Zones, on)>>, Zones, on, TRUE)
    BY <1>0, <1>1, <1>6, <2>1
  <2>2. CASE \E z \in Zones, on \in Power : w = Write(<<PowerFrame({z}, on)>>, {z}, on, FALSE)
    BY <1>0, <1>2, <1>6, <2>2
  <2>3. CASE \E f \in {Brightness, Mode} : w = Write(<<f>>, {}, "none", FALSE)
    BY <1>0, <1>3, <1>6, <2>3
  <2>4. CASE \E f \in {Brightness, Mode} : w = Write(<<PowerFrame(Zones, "on"), f>>, Zones, "on", TRUE)
    BY <1>0, <1>4, <1>6, <2>4
  <2>5. CASE w = Write(<<Scene>>, {}, "none", TRUE)
    BY <1>0, <1>5, <1>6, <2>5
  <2> QED BY <2>1, <2>2, <2>3, <2>4, <2>5, <1>7

LEMMA PollLights == ~Lights(Poll) /\ \A op : ~Has(Poll, op)
BY DEF Lights, Has, Poll

\* The write that has the connection is the only one, and no reply is on its way.
LEMMA OneWrites ==
    ASSUME Base, NEW t \in Tasks, Writing(t)
    PROVE  /\ what[t] \in Writes /\ reply = None
           /\ \A u \in Tasks : Writing(u) => u = t
           /\ TurningOff <=> what[t].on = "off"
BY DEF Base, Typed, OneTalks, Writing, IsPoll, TurningOff

LEMMA NobodyWrites ==
    ASSUME Base, NEW t \in Tasks, Talking(t), IsPoll(t)
    PROVE  \A u \in Tasks : ~Writing(u)
BY DEF Base, OneTalks, Writing

\* _wake_power
LEMMA WakesFacts ==
    ASSUME NEW w
    PROVE  Wakes(w) <=> Lights(w) /\ ~KnownOn
BY DEF Wakes, Lights, KnownOn, PostedOn

LEMMA DeviceSame ==
    ASSUME UNCHANGED <<flags, posted>>
    PROVE  /\ \A z \in Zones : EndsAt(z)' = EndsAt(z) /\ Later(z)' = Later(z)
           /\ EndsOn' = EndsOn
<1>1. \A z \in Zones : EndsAt(z)' = EndsAt(z) /\ Later(z)' = Later(z)
  BY DEF EndsAt, Later
<1> QED BY <1>1 DEF EndsOn

LEMMA InitIInv == Init => IInv
<1> SUFFICES ASSUME Init PROVE IInv
  OBVIOUS
<1> USE DEF Init, DeviceInit
<1>1. /\ \A t \in Tasks : call[t] = "idle" /\ what[t] = Poll
      /\ posted = <<>> /\ Len(posted) = 0 /\ replied = 0
      /\ <<>> \in Seq(Messages) /\ flags \in [Zones -> Power] /\ main = Lit(flags)
  BY EmptySeq
<1>2. \A t \in Tasks : ~Talking(t) /\ ~Writing(t)
  BY <1>1 DEF Talking, Writing
<1>3. main \in Power
  BY <1>1, LitFacts
<1>4. DeviceTyped
  BY <1>1, <1>3 DEF DeviceTyped
<1>5. All("none") \in [Zones -> Belief] /\ All({}) \in [Zones -> SUBSET Power]
  BY DEF All, Belief
<1>6. Typed
  <2>1. call \in [Tasks -> {"idle", "waiting", "talking"}] /\ what \in [Tasks -> Writes \cup {Poll}]
    OBVIOUS
  <2>2. isOn \in Belief /\ readOn \in Belief
    BY DEF Belief
  <2>3. /\ held \in [Zones -> Belief] /\ handed \in [Zones -> SUBSET Power]
        /\ stamped \subseteq Zones /\ unsure \in BOOLEAN /\ quiet \in BOOLEAN
    BY <1>5
  <2>4. mutated \subseteq Tasks /\ doubted \subseteq Tasks /\ dropped \subseteq Tasks /\ woke \subseteq Tasks
    OBVIOUS
  <2>5. frame \in Nat \ {0} /\ reply \in Status \cup {None} /\ calm \in 0 .. 2
    OBVIOUS
  <2>6. misled \in BOOLEAN
    OBVIOUS
  <2> HIDE DEF Init, DeviceInit
  <2> QED BY <1>4, <2>1, <2>2, <2>3, <2>4, <2>5, <2>6 DEF Typed
<1>7. \A z \in Zones : Later(z) = {}
  BY <1>1 DEF Later
<1>8. OneTalks /\ MainFollows /\ Landed /\ EndsSure /\ NothingOff
  BY <1>1, <1>2 DEF OneTalks, MainFollows, Landed, EndsSure, NothingOff, IsPoll
<1>9. MainSure /\ HandedHolds /\ StampHolds /\ ReplyHolds /\ ReadHolds
  BY <1>1, <1>2, <1>7 DEF MainSure, KnownOn, HandedHolds, StampHolds, ReplyHolds, ReadHolds
<1>10. ReplyFits /\ Calm
  BY DEF ReplyFits, Calm, TwoReadsSettle
<1> QED BY <1>6, <1>8, <1>9, <1>10 DEF IInv, Base, Rest
-----------------------------------------------------------------------------
(* The steps that leave the device and the knowledge alone.                *)

LEMMA CallsMove ==
    ASSUME Base, misled \/ Rest, UNCHANGED <<flags, main, posted, replied>>,
           UNCHANGED <<isOn, held, stamped, unsure, readOn, quiet, handed>>,
           \A u \in Tasks : Writing(u) => Writing(u)' /\ what'[u] = what[u] /\ (u \in woke => u \in woke'),
           Typed', OneTalks', Rest => Landed',
           reply' \in {reply, None}, calm' \in {calm, 0}, misled' = misled
    PROVE  IInv'
<1>1. /\ \A z \in Zones : EndsAt(z)' = EndsAt(z) /\ Later(z)' = Later(z)
      /\ EndsOn' = EndsOn
  BY DeviceSame
<1>2. TurningOff => TurningOff'
  BY DEF TurningOff
<1>3. \A u \in Tasks : Writing(u) /\ SeesWake(u) => SeesWake(u)'
  BY DEF SeesWake, KnownOn, PostedOn
<1>4. \A u \in Tasks, z \in Zones : Writing(u) /\ WriteSets(u, z) => WriteSets(u, z)'
  BY <1>1 DEF WriteSets
<1>5. \A u \in Tasks, z \in Zones : Writing(u) /\ WriteLights(u, z) => WriteLights(u, z)'
  BY <1>1, <1>3 DEF WriteLights
<1>6. MainFollows' /\ ReplyFits' /\ Calm'
  BY DEF Base, MainFollows, ReplyFits, Lit, Calm, TwoReadsSettle, All
<1> SUFFICES ASSUME Rest PROVE Rest'
  BY <1>6 DEF IInv, Base
<1>7. EndsSure' /\ NothingOff' /\ MainSure'
  BY <1>1, <1>2 DEF Rest, EndsSure, NothingOff, MainSure, KnownOn, PostedOn
<1>8. HandedHolds'
  <2> SUFFICES ASSUME NEW z \in Zones, \E i \in Later(z) : i > replied
               PROVE  \/ EndsAt(z) \in handed[z]
                      \/ \E t \in Tasks : Writing(t)' /\ (WriteSets(t, z)' \/ (WriteLights(t, z)' /\ Has(what'[t], "brightness")))
    BY <1>1 DEF HandedHolds
  <2> QED BY <1>4, <1>5 DEF Rest, HandedHolds
<1>9. StampHolds'
  <2> SUFFICES ASSUME NEW z \in stamped
               PROVE  \/ EndsAt(z) = held[z]
                      \/ \E t \in Tasks : /\ Writing(t)'
                                          /\ \/ WriteSets(t, z)' \/ WriteLights(t, z)'
                                             \/ Has(what'[t], "scene") /\ EndsAt(z) = "on"
    BY <1>1 DEF StampHolds, Base, Rest, Typed
  <2>1. z \in Zones
    BY DEF Base, Typed
  <2> QED BY <2>1, <1>4, <1>5 DEF Rest, StampHolds
<1>10. ReplyHolds'
  BY <1>1 DEF Rest, ReplyHolds
<1>11. ReadHolds'
  BY <1>1, <1>2 DEF Rest, ReadHolds
<1> QED BY <1>7, <1>8, <1>9, <1>10, <1>11 DEF Rest

LEMMA LandedSame ==
    ASSUME Base, Rest, UNCHANGED <<flags, posted>>, frame' \in {frame, 1},
           \A u \in Tasks : Writing(u)' => Writing(u) /\ what'[u] = what[u]
    PROVE  Landed'
<1>1. /\ \A z \in Zones : EndsAt(z)' = EndsAt(z)
      /\ EndsOn' = EndsOn
  BY DeviceSame
<1> SUFFICES ASSUME NEW u \in Tasks, Writing(u)', frame' > 1
             PROVE  /\ \A z \in what'[u].zones : EndsAt(z)' = what'[u].on
                    /\ Has(what'[u], "scene") => EndsOn' = "on"
  BY DEF Landed
<1>2. Writing(u) /\ what'[u] = what[u] /\ frame > 1
  OBVIOUS
<1>3. what[u].zones \subseteq Zones
  BY <1>2, OneWrites, WriteFacts
<1> QED BY <1>1, <1>2, <1>3 DEF Rest, Landed

LEMMA CallWriteKeeps ==
    ASSUME Base, misled \/ Rest, NEW t \in Tasks, NEW w \in Writes, CallWrite(t, w)
    PROVE  IInv'
<1> USE DEF CallWrite, device, knowledge, races, history
<1>1. Typed'
  <2>1. call' \in [Tasks -> {"idle", "waiting", "talking"}] /\ what' \in [Tasks -> Writes \cup {Poll}]
        /\ woke' \subseteq Tasks
    BY DEF Base, Typed
  <2> QED BY <2>1 DEF Base, Typed, DeviceTyped
<1>2. /\ \A u \in Tasks : u # t => call'[u] = call[u] /\ what'[u] = what[u] /\ (u \in woke' <=> u \in woke)
      /\ call[t] = "idle" /\ call'[t] = "waiting" /\ what'[t] = w
  BY DEF Base, Typed
<1>3. \A u \in Tasks : (Talking(u)' <=> Talking(u)) /\ (Writing(u)' <=> Writing(u)) /\ (Talking(u) => u # t)
  BY <1>2 DEF Talking, Writing, IsPoll
<1>4. OneTalks'
  BY <1>2, <1>3 DEF Base, OneTalks, Talking, IsPoll
<1>5. Rest => Landed'
  BY <1>2, <1>3, LandedSame DEF Writing
<1> QED BY <1>1, <1>2, <1>3, <1>4, <1>5, CallsMove DEF Writing

LEMMA TalkKeeps ==
    ASSUME Base, misled \/ Rest, NEW t \in Tasks, Talk(t)
    PROVE  IInv'
<1> USE DEF Talk, device, knowledge, races, history
<1>1. Typed'
  <2>1. call' \in [Tasks -> {"idle", "waiting", "talking"}] /\ frame' \in Nat \ {0}
    BY DEF Base, Typed
  <2> QED BY <2>1 DEF Base, Typed, DeviceTyped
<1>2. \A u \in Tasks : (u # t => call'[u] = call[u]) /\ call[t] = "waiting" /\ call'[t] = "talking" /\ call[u] # "talking"
  BY DEF Base, Typed, Free
<1>3. \A u \in Tasks : (Talking(u)' <=> u = t) /\ ~Talking(u)
  BY <1>2 DEF Talking
<1>4. reply = None
  BY <1>3 DEF Base, OneTalks
<1>5. OneTalks'
  BY <1>2, <1>3, <1>4 DEF Base, OneTalks, IsPoll
<1>6. Rest => Landed'
  BY DEF Landed
<1> QED BY <1>1, <1>3, <1>5, <1>6, CallsMove DEF Writing

LEMMA CallPollKeeps ==
    ASSUME Base, misled \/ Rest, NEW t \in Tasks, CallPoll(t)
    PROVE  IInv'
<1> USE DEF CallPoll, device, knowledge, history
<1>1. Typed'
  <2>1. call' \in [Tasks -> {"idle", "waiting", "talking"}] /\ what' \in [Tasks -> Writes \cup {Poll}]
        /\ mutated' \subseteq Tasks /\ doubted' \subseteq Tasks /\ dropped' \subseteq Tasks
    BY DEF Base, Typed
  <2> QED BY <2>1 DEF Base, Typed, DeviceTyped
<1>2. /\ \A u \in Tasks : u # t => call'[u] = call[u] /\ what'[u] = what[u]
      /\ call[t] = "idle" /\ call'[t] = "waiting" /\ what'[t] = Poll
  BY DEF Base, Typed
<1>3. \A u \in Tasks : (Talking(u)' <=> Talking(u)) /\ (Writing(u)' <=> Writing(u)) /\ (Talking(u) => u # t)
  BY <1>2 DEF Talking, Writing, IsPoll
<1>4. OneTalks'
  BY <1>2, <1>3 DEF Base, OneTalks, Talking, IsPoll
<1>5. Rest => Landed'
  BY <1>2, <1>3, LandedSame DEF Writing
<1> QED BY <1>1, <1>2, <1>3, <1>4, <1>5, CallsMove DEF Writing

LEMMA PollWaits ==
    ASSUME Base, misled \/ Rest, NEW t \in Tasks, IsPoll(t), call[t] # "idle", UNCHANGED <<flags, main, posted, replied>>,
           UNCHANGED <<isOn, held, stamped, unsure, readOn, quiet, handed>>,
           UNCHANGED <<mutated, doubted, dropped, what>>, woke' \in {woke, woke \ {t}}, frame' \in {frame, 1},
           NEW c \in {"idle", "waiting"}, call' = [call EXCEPT ![t] = c],
           reply' = IF Talking(t) THEN None ELSE reply, calm' = calm, misled' = misled
    PROVE  IInv'
<1>1. Typed'
  <2>1. call' \in [Tasks -> {"idle", "waiting", "talking"}] /\ woke' \subseteq Tasks /\ frame' \in Nat \ {0}
        /\ reply' \in Status \cup {None}
    BY DEF Base, Typed
  <2> QED BY <2>1 DEF Base, Typed, DeviceTyped
<1>2. /\ \A u \in Tasks : u # t => call'[u] = call[u] /\ (u \in woke' <=> u \in woke)
      /\ call'[t] = c /\ what[t] = Poll
  BY DEF Base, Typed, IsPoll
<1>3. \A u \in Tasks : (Talking(u)' <=> Talking(u) /\ u # t) /\ (Writing(u)' <=> Writing(u)) /\ (Writing(u) => u # t)
  BY <1>2 DEF Talking, Writing, IsPoll
<1>4. OneTalks'
  BY <1>2, <1>3 DEF Base, OneTalks, Talking, IsPoll
<1>5. Rest => Landed'
  BY <1>2, <1>3, LandedSame DEF Writing
<1> QED BY <1>1, <1>2, <1>3, <1>4, <1>5, CallsMove DEF Writing

LEMMA AsksAgainKeeps ==
    ASSUME Base, misled \/ Rest, NEW t \in Tasks, AsksAgain(t)
    PROVE  IInv'
BY PollWaits DEF AsksAgain, Talking, device, knowledge, races, history

LEMMA PollEmptyKeeps ==
    ASSUME Base, misled \/ Rest, NEW t \in Tasks, PollEmpty(t)
    PROVE  IInv'
BY PollWaits DEF PollEmpty, Talking, device, knowledge, races, history

LEMMA PollStaleKeeps ==
    ASSUME Base, misled \/ Rest, NEW t \in Tasks, PollStale(t)
    PROVE  IInv'
<1>1. what' = what
  BY DEF PollStale, Ends, IsPoll, Base, Typed
<1> QED BY <1>1, PollWaits DEF PollStale, Ends, Talking, device, knowledge, races, history
-----------------------------------------------------------------------------
(* The frames of a write.                                                  *)

\* The frame is one of the write's.
LEMMA ReachesFacts ==
    ASSUME Base, NEW t \in Tasks, Reaches(t)
    PROVE  /\ Writing(t) /\ what[t] \in Writes /\ frame \in {1, 2} /\ replied = 0 /\ reply = None
           /\ Len(what[t].frames) = 1 => frame = 1
           /\ \/ /\ frame = 1 /\ what[t].zones # {} /\ what[t].on \in Power
                 /\ Current(t) = PowerFrame(what[t].zones, what[t].on)
                 /\ what[t].zones = Zones \/ \E z \in Zones : what[t].zones = {z}
              \/ /\ Current(t).op \in {"brightness", "mode", "scene"} /\ Has(what[t], Current(t).op)
                 /\ Lights(what[t])
                 /\ what[t].zones # {} => frame = 2
<1> DEFINE w == what[t]
<1>1. w \in Writes \cup {Poll} /\ frame \in Nat \ {0} /\ frame <= Len(w.frames)
  BY DEF Base, Typed, Reaches
<1>2. w # Poll
  <2> SUFFICES ASSUME w = Poll PROVE FALSE
    OBVIOUS
  <2>1. Len(w.frames) = 0
    BY DEF Poll
  <2> QED BY <1>1, <2>1
<1>3. Writing(t) /\ w \in Writes
  BY <1>1, <1>2 DEF Writing, Reaches, IsPoll
<1>4. replied = 0 /\ reply = None
  BY <1>3, OneWrites DEF Reaches, Dispatches
<1>5. Len(w.frames) \in {1, 2}
  BY <1>3, WriteFacts
<1>6. frame \in {1, 2} /\ frame \in 1 .. Len(w.frames) /\ (Len(w.frames) = 1 => frame = 1)
  <2> DEFINE n == Len(w.frames)
  <2>1. n \in {1, 2} /\ frame \in Nat \ {0} /\ frame <= n
    BY <1>1, <1>5
  <2> HIDE DEF n
  <2>2. frame \in {1, 2} /\ frame \in 1 .. n /\ (n = 1 => frame = 1)
    BY <2>1
  <2> QED BY <2>2 DEF n
<1>7. Has(w, Current(t).op)
  BY <1>6 DEF Has, Current
<1>8. Current(t).op \in {"brightness", "mode", "scene"} => Lights(w)
  BY <1>7 DEF Lights
<1>9. CASE w.zones = {}
  BY <1>3, <1>4, <1>6, <1>7, <1>8, <1>9, WriteFacts DEF Current
<1>10. CASE w.zones # {} /\ frame = 1
  BY <1>3, <1>4, <1>6, <1>10, WriteFacts DEF Current
<1>11. CASE w.zones # {} /\ frame = 2
  BY <1>3, <1>4, <1>5, <1>6, <1>7, <1>8, <1>11, WriteFacts DEF Current
<1> QED BY <1>6, <1>9, <1>10, <1>11

\* What one posted message does.
LEMMA PostsFacts ==
    ASSUME DeviceTyped, MainFollows, replied = 0, replied' = 0, NEW m \in Messages, Posts(m)
    PROVE  /\ DeviceTyped' /\ MainFollows' /\ main' = main
           /\ \A z \in Zones : IF z \in m.zones THEN EndsAt(z)' = m.on
                               ELSE EndsAt(z)' = EndsAt(z) /\ Later(z)' = Later(z)
           /\ \A i \in 1 .. Len(posted') : (i \in 1 .. Len(posted) /\ posted'[i] = posted[i]) \/ posted'[i] = m
<1>1. \A z \in Zones : IF z \in m.zones THEN EndsAt(z)' = m.on
                       ELSE EndsAt(z)' = EndsAt(z) /\ Later(z)' = Later(z)
  BY EndsAtPosts
<1>2. /\ Len(posted) \in Nat /\ Len(posted') = Len(posted) + 1 /\ posted' \in Seq(Messages)
      /\ \A i \in 1 .. Len(posted) : posted'[i] = posted[i]
      /\ posted'[Len(posted) + 1] = m
  BY AppendProperties, LenProperties DEF DeviceTyped, Posts
<1>3. \A i \in 1 .. Len(posted') : (i \in 1 .. Len(posted) /\ posted'[i] = posted[i]) \/ posted'[i] = m
  BY <1>2
<1>4. UNCHANGED <<flags, main>>
  BY DEF Posts
<1>5. DeviceTyped' /\ MainFollows'
  BY <1>2, <1>4 DEF DeviceTyped, MainFollows, Lit
<1> QED BY <1>1, <1>3, <1>4, <1>5

\* A power frame is posted as it is.
LEMMA PowerPosts ==
    ASSUME Base, NEW t \in Tasks, Reaches(t), Current(t).op = "power",
           NEW m, m = Turn(what[t].zones, what[t].on)
    PROVE  /\ Posts(m) /\ m \in Messages /\ m.zones = what[t].zones /\ m.on = what[t].on
           /\ what[t].on \in Power
<1>1. /\ Current(t) = PowerFrame(what[t].zones, what[t].on) /\ what[t].on \in Power
      /\ what[t].zones \in {Zones} \cup {{z} : z \in Zones}
  BY ReachesFacts
<1>2. Posts(m)
  <2>1. Current(t).zones = what[t].zones /\ Current(t).on = what[t].on
    BY <1>1 DEF PowerFrame
  <2>2. Posts(Turn(Current(t).zones, Current(t).on))
    BY DEF Reaches, Dispatches
  <2> QED BY <2>1, <2>2
<1> QED BY <1>1, <1>2 DEF Turn, Messages

\* The dispatcher keeps the device in order whatever it is sent.
LEMMA DispatchTyped ==
    ASSUME Base, NEW t \in Tasks, Reaches(t)
    PROVE  DeviceTyped' /\ MainFollows' /\ replied' = 0 /\ (main' = main \/ main' = "on")
<1> DEFINE w == what[t]
           f == Current(t)
<1>1. replied = 0 /\ replied' = 0 /\ DeviceTyped /\ MainFollows
  BY ReachesFacts DEF Base, Typed, Reaches, Dispatches
<1>2. CASE f.op = "power"
  <2> DEFINE m == Turn(w.zones, w.on)
  <2>1. Posts(m) /\ m \in Messages
    BY <1>2, PowerPosts
  <2> HIDE DEF m
  <2> QED BY <1>1, <2>1, PostsFacts
<1>3. CASE f.op = "brightness" /\ main = "off"
  <2> DEFINE m == Turn(Zones, "on")
  <2>1. Posts(m) /\ m \in Messages
    BY <1>3, MessageFacts DEF Reaches, Dispatches, Power
  <2> HIDE DEF m
  <2> QED BY <1>1, <2>1, PostsFacts
<1>4. CASE f.op \in {"brightness", "mode"} /\ main # "off"
  <2>1. UNCHANGED <<flags, main, posted>>
    BY <1>4 DEF Reaches, Dispatches
  <2> QED BY <1>1, <2>1 DEF DeviceTyped, MainFollows, Lit
<1>5. CASE f.op = "mode" /\ main = "off"
  <2>1. flags' = [z \in Zones |-> "on"] /\ main' = "on" /\ posted' = posted
    BY <1>5 DEF Reaches, Dispatches, All
  <2>2. flags' \in [Zones -> Power] /\ Lit(flags') = "on"
    BY <2>1, ZoneDeviceAssumption DEF Power, Lit
  <2> QED BY <1>1, <2>1, <2>2 DEF DeviceTyped, MainFollows, Power
<1>6. CASE f.op = "scene"
  <2>1. /\ flags' \in [Zones -> Power] /\ main' = "on" /\ posted' = posted
        /\ IF main = "off" THEN flags' = [z \in Zones |-> "on"]
           ELSE \A z \in Zones : flags[z] = "on" => flags'[z] = "on"
    BY <1>6 DEF Reaches, Dispatches, Activates, All, Power
  <2>2. \E z \in Zones : flags'[z] = "on"
    BY <1>1, <2>1, ZoneDeviceAssumption, LitFacts DEF MainFollows, DeviceTyped, Power
  <2>3. Lit(flags') = "on"
    BY <2>2 DEF Lit
  <2> QED BY <1>1, <2>1, <2>3 DEF DeviceTyped, MainFollows, Power
<1> QED BY <1>2, <1>3, <1>4, <1>5, <1>6, ReachesFacts DEF PowerFrame

\* What the dispatcher does with a frame.
LEMMA DispatchEffect ==
    ASSUME Base, Rest, NEW t \in Tasks, Reaches(t), ~Overtakes(Current(t))
    PROVE  /\ \A z \in Zones :
                 \/ EndsAt(z)' = EndsAt(z) /\ Later(z)' = Later(z)
                 \/ z \in what[t].zones /\ EndsAt(z)' = what[t].on
                 \/ /\ EndsAt(z)' = "on" /\ main = "off" /\ Lights(what[t])
                    /\ Has(what[t], "brightness") \/ Later(z)' = {}
                 \/ EndsAt(z)' = "on" /\ Has(what[t], "scene") /\ Later(z)' = {}
           /\ \A i \in 1 .. Len(posted') :
                 \/ posted'[i].on = "on" \/ what[t].on = "off"
                 \/ i \in 1 .. Len(posted) /\ posted'[i] = posted[i]
           /\ \A z \in what[t].zones : EndsAt(z)' = what[t].on
           /\ Has(what[t], "scene") => EndsOn' = "on"
<1> DEFINE w == what[t]
           f == Current(t)
<1>1. Writing(t) /\ w \in Writes /\ replied = 0 /\ replied' = 0 /\ DeviceTyped /\ MainFollows
  BY ReachesFacts DEF Base, Typed, Reaches, Dispatches
<1>2. Has(w, "scene") => w.zones = {} /\ w.frames[1].op = "scene" /\ Len(w.frames) = 1 
  BY <1>1, WriteFacts
<1>3. ASSUME Has(w, "scene") PROVE f.op = "scene"
  <2>1. frame = 1
    BY <1>2, <1>3, ReachesFacts
  <2> QED BY <1>2, <1>3, <2>1 DEF Current
<1>4. ASSUME w.zones # {}, f.op # "power"
      PROVE  w.zones = Zones /\ w.on = "on" /\ \A z \in w.zones : EndsAt(z) = "on"
  <2>1. frame = 2 /\ Lights(w)
    BY <1>1, <1>4, ReachesFacts DEF PowerFrame
  <2>2. w.zones = Zones /\ w.on = "on"
    BY <1>1, <1>4, <2>1, WriteFacts
  <2> QED BY <1>1, <2>1, <2>2 DEF Rest, Landed
<1>5. CASE f.op = "power"
  <2> DEFINE m == Turn(w.zones, w.on)
  <2>1. Posts(m) /\ m \in Messages /\ m.zones = w.zones /\ m.on = w.on /\ w.on \in Power
    BY <1>5, PowerPosts
  <2> HIDE DEF m
  <2>2. /\ \A z \in Zones : IF z \in m.zones THEN EndsAt(z)' = m.on
                            ELSE EndsAt(z)' = EndsAt(z) /\ Later(z)' = Later(z)
        /\ \A i \in 1 .. Len(posted') : (i \in 1 .. Len(posted) /\ posted'[i] = posted[i]) \/ posted'[i] = m
    BY <1>1, <2>1, PostsFacts
  <2>3. \A i \in 1 .. Len(posted') :
                 \/ posted'[i].on = "on" \/ what[t].on = "off"
                 \/ i \in 1 .. Len(posted) /\ posted'[i] = posted[i]
    BY <2>1, <2>2 DEF Power
  <2>4. w.zones \subseteq Zones
    BY <1>1, WriteFacts
  <2> QED BY <1>1, <1>3, <1>5, <2>1, <2>2, <2>3, <2>4
<1>6. CASE f.op = "brightness" /\ main = "off"
  <2> DEFINE m == Turn(Zones, "on")
  <2>1. Posts(m)
    BY <1>6 DEF Reaches, Dispatches
  <2>2. m \in Messages /\ m.zones = Zones /\ m.on = "on"
    BY MessageFacts DEF Power
  <2> HIDE DEF m
  <2>3. /\ \A z \in Zones : IF z \in m.zones THEN EndsAt(z)' = m.on
                            ELSE EndsAt(z)' = EndsAt(z) /\ Later(z)' = Later(z)
        /\ \A i \in 1 .. Len(posted') : (i \in 1 .. Len(posted) /\ posted'[i] = posted[i]) \/ posted'[i] = m
    BY <1>1, <2>1, <2>2, PostsFacts
  <2>4. Has(w, "brightness") /\ Lights(w) /\ ~Has(w, "scene")
    BY <1>3, <1>6, ReachesFacts DEF PowerFrame
  <2>5. \A z \in w.zones : EndsAt(z)' = w.on
    BY <1>4, <1>6, <2>2, <2>3
  <2> QED BY <1>1, <1>6, <2>2, <2>3, <2>4, <2>5
<1>7. CASE f.op \in {"brightness", "mode"} /\ ~(f.op \in {"brightness", "mode"} /\ main = "off")
  <2>1. UNCHANGED <<flags, main, posted>>
    BY <1>7 DEF Reaches, Dispatches
  <2>2. \A z \in Zones : EndsAt(z)' = EndsAt(z) /\ Later(z)' = Later(z)
    BY <2>1, DeviceSame
  <2>3. \A z \in w.zones : EndsAt(z)' = w.on
    BY <1>4, <1>7, <2>2
  <2>4. ~Has(w, "scene")
    BY <1>3, <1>7
  <2> QED BY <1>1, <2>1, <2>2, <2>3, <2>4
<1>8. CASE f.op = "mode" /\ main = "off"
  <2>1. flags' = [z \in Zones |-> "on"] /\ main' = "on" /\ posted' = posted
    BY <1>8 DEF Reaches, Dispatches, All
  <2>2. flags' \in [Zones -> Power] /\ Lit(flags') = "on"
    BY <2>1, ZoneDeviceAssumption DEF Power, Lit
  <2>3. \A z \in Zones : Later(z)' = Later(z) /\ EndsAt(z)' = IF Later(z) = {} THEN "on" ELSE EndsAt(z)
    BY <1>1, <2>1, <2>2, EndsAtLights
  <2>4. \A z \in w.zones : EndsAt(z)' = w.on
    BY <1>4, <1>8, <2>3
  <2>5. ~Has(w, "scene") /\ Lights(w)
    BY <1>3, <1>8, ReachesFacts DEF PowerFrame
  <2> QED BY <1>1, <1>8, <2>1, <2>3, <2>4, <2>5
<1>9. CASE f.op = "scene"
  <2>1. /\ flags' \in [Zones -> Power] /\ main' = "on" /\ posted' = posted
        /\ IF main = "off" THEN flags' = [z \in Zones |-> "on"]
           ELSE \A z \in Zones : flags[z] = "on" => flags'[z] = "on"
    BY <1>9 DEF Reaches, Dispatches, Activates, All, Power
  <2>2. \A i \in 1 .. Len(posted) : posted[i].on = "on"
    BY <1>1, <1>9, ElementOfSeq, MessageFacts DEF Overtakes, DeviceTyped, Power
  <2>3. \A z \in Zones : Later(z)' = Later(z) /\ EndsAt(z)' = IF Later(z) = {} THEN flags'[z] ELSE EndsAt(z)
    BY <1>1, <2>1, EndsAtLights
  <2>4. \A z \in Zones : Later(z) # {} => EndsAt(z) = "on"
    BY <1>1, <2>2, EndsAtFacts DEF Later
  <2>5. \E z \in Zones : flags'[z] = "on"
    BY <1>1, <2>1, ZoneDeviceAssumption, LitFacts DEF MainFollows, DeviceTyped, Power
  <2>6. \E z \in Zones : EndsAt(z)' = "on"
    BY <2>3, <2>4, <2>5
  <2>7. EndsOn' = "on"
    BY <2>6 DEF EndsOn, Lit
  <2>8. Has(w, "scene") /\ w.zones = {}
    BY <1>2, <1>9, ReachesFacts DEF PowerFrame
  <2>9. \A z \in Zones : \/ EndsAt(z)' = EndsAt(z) /\ Later(z)' = Later(z)
                         \/ EndsAt(z)' = "on" /\ Later(z)' = {}
    <3> SUFFICES ASSUME NEW z \in Zones, Later(z) = {}, flags'[z] # "on" PROVE EndsAt(z)' = EndsAt(z)
      BY <2>3
    <3>1. flags[z] # "on" /\ flags[z] \in Power /\ flags'[z] \in Power
      BY <1>1, <2>1 DEF MainFollows, DeviceTyped, Power
    <3>2. EndsAt(z) = flags[z] /\ EndsAt(z)' = flags'[z]
      BY <1>1, <2>3, EndsAtFacts
    <3> QED BY <3>1, <3>2 DEF Power
  <2> QED BY <1>1, <2>1, <2>7, <2>8, <2>9
<1>10. f.op \in {"power", "brightness", "mode", "scene"}
  BY ReachesFacts DEF PowerFrame
<1> QED
  <2>1. CASE f.op = "power"
    BY <1>5, <2>1
  <2>2. CASE f.op = "brightness"
    BY <1>6, <1>7, <2>2
  <2>3. CASE f.op = "mode"
    BY <1>7, <1>8, <2>3
  <2>4. CASE f.op = "scene"
    BY <1>9, <2>4
  <2> QED BY <1>10, <2>1, <2>2, <2>3, <2>4

\* A write that wakes the device sees the wake, or sets every zone on.
LEMMA WakesOrSets ==
    ASSUME Base, Rest, NEW t \in Tasks, Writing(t), Lights(what[t]), main = "off", replied = 0
    PROVE  SeesWake(t) \/ (what[t].zones = Zones /\ what[t].on = "on")
<1> SUFFICES ASSUME ~SeesWake(t), what[t].zones = {} PROVE FALSE
  BY OneWrites, WriteFacts
<1>1. what[t].on = "none"
  BY OneWrites, WriteFacts
<1>2. KnownOn
  BY DEF SeesWake
<1>3. EndsOn = "on"
  BY <1>1, <1>2, OneWrites DEF Rest, EndsSure, KnownOn
<1>4. PICK z \in Zones : EndsAt(z) = "on"
  BY <1>3, EndsOnFacts DEF Base, Typed
<1>5. flags[z] = "off" /\ DeviceTyped
  BY <1>4, LitFacts DEF Base, MainFollows, Typed, DeviceTyped
<1>6. Later(z) # {}
  BY <1>4, <1>5, EndsAtFacts
<1>7. \E i \in Later(z) : i > replied
  BY <1>5, <1>6, EndsAtFacts
<1>8. \/ EndsAt(z) \in handed[z]
      \/ \E u \in Tasks : Writing(u) /\ (WriteSets(u, z) \/ (WriteLights(u, z) /\ Has(what[u], "brightness")))
  BY <1>7 DEF Rest, HandedHolds
<1> QED BY <1>2, <1>4, <1>8, OneWrites DEF KnownOn, PostedOn, WriteSets, WriteLights

LEMMA ReachesKeeps ==
    ASSUME Base, misled \/ Rest, NEW t \in Tasks, Reaches(t),
           UNCHANGED <<isOn, held, stamped, unsure, readOn, quiet, handed>>,
           UNCHANGED <<mutated, doubted, dropped, call, what, woke, reply>>,
           frame' \in {frame + 1, frame, 1}
    PROVE  IInv'
<1> DEFINE w == what[t]
<1>1. DeviceTyped' /\ MainFollows' /\ replied' = 0 /\ (main' = main \/ main' = "on")
  BY DispatchTyped
<1>2. Writing(t) /\ w \in Writes /\ replied = 0 /\ reply = None /\ DeviceTyped
  BY ReachesFacts DEF Base, Typed
<1>3. /\ \A u \in Tasks : (Writing(u)' <=> Writing(u)) /\ (Writing(u) => u = t) /\ (SeesWake(u)' <=> SeesWake(u))
      /\ (TurningOff' <=> w.on = "off") /\ (TurningOff <=> w.on = "off")
  <2>1. \A u \in Tasks : (Writing(u)' <=> Writing(u)) /\ (Writing(u) => u = t) /\ (SeesWake(u)' <=> SeesWake(u))
    BY <1>2, OneWrites DEF Writing, Talking, IsPoll, SeesWake, KnownOn, PostedOn
  <2>2. TurningOff <=> w.on = "off"
    BY <1>2, OneWrites
  <2>3. TurningOff' <=> TurningOff
    BY <2>1 DEF TurningOff
  <2> QED BY <2>1, <2>2, <2>3
<1>4. Typed'
  <2>1. frame' \in Nat \ {0}
    BY DEF Base, Typed
  <2>2. calm' \in 0 .. 2 /\ misled' \in BOOLEAN
    BY DEF Base, Typed, Reaches
  <2> QED BY <1>1, <2>1, <2>2 DEF Base, Typed
<1>5. OneTalks'
  BY DEF Base, OneTalks, Talking, IsPoll
<1>6. Base'
  BY <1>1, <1>2, <1>4, <1>5 DEF Base, ReplyFits, Calm, TwoReadsSettle, Reaches
<1> SUFFICES ASSUME Rest, ~Overtakes(Current(t)) PROVE Rest'
  BY <1>6 DEF IInv, Reaches
<1>7. /\ \A z \in Zones :
            \/ EndsAt(z)' = EndsAt(z) /\ Later(z)' = Later(z)
            \/ z \in w.zones /\ EndsAt(z)' = w.on
            \/ /\ EndsAt(z)' = "on" /\ main = "off" /\ Lights(w)
               /\ Has(w, "brightness") \/ Later(z)' = {}
            \/ EndsAt(z)' = "on" /\ Has(w, "scene") /\ Later(z)' = {}
      /\ \A i \in 1 .. Len(posted') :
            \/ posted'[i].on = "on" \/ w.on = "off"
            \/ i \in 1 .. Len(posted) /\ posted'[i] = posted[i]
      /\ \A z \in w.zones : EndsAt(z)' = w.on
      /\ Has(w, "scene") => EndsOn' = "on"
  BY DispatchEffect
<1>8. Landed'
  <2> SUFFICES ASSUME NEW u \in Tasks, Writing(u)', frame' > 1
               PROVE  /\ \A z \in what'[u].zones : EndsAt(z)' = what'[u].on
                      /\ Has(what'[u], "scene") => EndsOn' = "on"
    BY DEF Landed
  <2>1. what'[u] = w
    BY <1>3
  <2> QED BY <1>7, <2>1
<1>9. /\ EndsOn' \in Power /\ EndsOn \in Power
      /\ EndsOn' = "on" \/ EndsOn' = EndsOn \/ w.on = "off"
      /\ EndsOn' = "off" \/ EndsOn' = EndsOn \/ w.on = "on" \/ Lights(w)
  <2>1. /\ EndsOn \in Power /\ EndsOn' \in Power
        /\ EndsOn = "on" <=> \E z \in Zones : EndsAt(z) = "on"
        /\ EndsOn' = "on" <=> \E z \in Zones : EndsAt(z)' = "on"
    <3>1. DeviceTyped' => /\ EndsOn' \in Power
                          /\ EndsOn' = "on" <=> \E z \in Zones : EndsAt(z)' = "on"
      <4> SUFFICES ASSUME DeviceTyped'
                   PROVE  /\ EndsOn' \in Power
                          /\ EndsOn' = "on" <=> \E z \in Zones : EndsAt(z)' = "on"
        OBVIOUS
      <4> QED BY DEF EndsOn, Lit, Power
    <3> QED BY <1>1, <1>2, <3>1, EndsOnFacts
  <2>2. w.on \in Power \cup {"none"} /\ (w.zones # {} => w.on \in Power)
    BY <1>2, WriteFacts
  <2>3. \A z \in Zones : EndsAt(z)' = "on" => EndsAt(z) = "on" \/ w.on = "on" \/ Lights(w)
    BY <1>7 DEF Lights
  <2>4. \A z \in Zones : EndsAt(z) = "on" => EndsAt(z)' = "on" \/ w.on = "off"
    BY <1>7, <2>2 DEF Power
  <2> QED BY <2>1, <2>3, <2>4 DEF Power
<1>10. EndsSure' /\ NothingOff' /\ MainSure'
  <2>1. EndsSure'
    BY <1>3, <1>9 DEF Rest, EndsSure
  <2>2. NothingOff'
    BY <1>3, <1>7 DEF Rest, NothingOff
  <2>3. MainSure'
    BY <1>1, <1>3 DEF Rest, MainSure, KnownOn, PostedOn
  <2> QED BY <2>1, <2>2, <2>3
<1>11. Lights(w) /\ main = "off" => SeesWake(t) \/ (w.zones = Zones /\ w.on = "on")
  BY <1>2, WakesOrSets
<1>12. HandedHolds'
  <2> SUFFICES ASSUME NEW z \in Zones, NEW j \in Later(z)', j > 0
               PROVE  \/ EndsAt(z)' \in handed[z]
                      \/ WriteSets(t, z)' \/ (WriteLights(t, z)' /\ Has(w, "brightness"))
    BY <1>1, <1>2, <1>3 DEF HandedHolds
  <2>1. CASE EndsAt(z)' = EndsAt(z) /\ Later(z)' = Later(z)
    <3>1. \/ EndsAt(z) \in handed[z]
          \/ \E u \in Tasks : Writing(u) /\ (WriteSets(u, z) \/ (WriteLights(u, z) /\ Has(what[u], "brightness")))
      BY <1>2, <2>1 DEF Rest, HandedHolds
    <3> QED BY <1>3, <2>1, <3>1 DEF WriteSets, WriteLights
  <2>2. CASE z \in w.zones /\ EndsAt(z)' = w.on
    BY <2>2 DEF WriteSets
  <2>3. CASE EndsAt(z)' = "on" /\ main = "off" /\ Lights(w) /\ Has(w, "brightness")
    BY <1>3, <1>11, <2>3 DEF WriteSets, WriteLights
  <2> QED BY <1>7, <2>1, <2>2, <2>3
<1>13. StampHolds'
  <2> SUFFICES ASSUME NEW z \in stamped
               PROVE  \/ EndsAt(z)' = held[z]
                      \/ WriteSets(t, z)' \/ WriteLights(t, z)' \/ (Has(w, "scene") /\ EndsAt(z)' = "on")
    BY <1>2, <1>3 DEF StampHolds
  <2>1. z \in Zones
    BY DEF Base, Typed
  <2>2. CASE EndsAt(z)' = EndsAt(z) /\ Later(z)' = Later(z)
    <3>1. \/ EndsAt(z) = held[z]
          \/ \E u \in Tasks : /\ Writing(u)
                              /\ \/ WriteSets(u, z) \/ WriteLights(u, z)
                                 \/ Has(what[u], "scene") /\ EndsAt(z) = "on"
      BY DEF Rest, StampHolds
    <3> QED BY <1>3, <2>2, <3>1 DEF WriteSets, WriteLights
  <2>3. CASE z \in w.zones /\ EndsAt(z)' = w.on
    BY <2>3 DEF WriteSets
  <2>4. CASE EndsAt(z)' = "on" /\ main = "off" /\ Lights(w)
    BY <1>3, <1>11, <2>1, <2>4 DEF WriteSets, WriteLights
  <2> QED BY <1>7, <2>1, <2>2, <2>3, <2>4
<1>14. ReplyHolds'
  BY <1>2 DEF ReplyHolds
<1>15. ReadHolds'
  <2> SUFFICES ASSUME readOn # "none", readOn = isOn, EndsOn' # isOn
               PROVE  (isOn = "on" /\ w.on = "off") \/ (isOn = "off" /\ (w.on = "on" \/ Lights(w)))
    BY <1>2, <1>3 DEF ReadHolds
  <2>1. isOn \in Power
    BY DEF Base, Typed, Belief
  <2>2. \/ EndsOn = isOn
        \/ isOn = "on" /\ w.on = "off"
        \/ isOn = "off" /\ (w.on = "on" \/ Lights(w))
    BY <1>3 DEF Rest, ReadHolds
  <2> QED BY <1>9, <2>1, <2>2 DEF Power
<1> QED BY <1>8, <1>10, <1>12, <1>13, <1>14, <1>15 DEF Rest
-----------------------------------------------------------------------------
(* The end of a write.                                                     *)

\* Once the write that had the connection is over, nobody writes and no reply is on its way.
LEMMA EndsFacts ==
    ASSUME Base, NEW t \in Tasks, Talking(t), Ends(t)
    PROVE  /\ \A u \in Tasks : ~Talking(u)' /\ ~Writing(u)'
           /\ \A u \in Tasks : call'[u] = "idle" => what'[u] = Poll
           /\ \A u \in Tasks : u # t => call'[u] = call[u] /\ what'[u] = what[u] /\ (u \in woke' <=> u \in woke)
           /\ call'[t] = "idle" /\ what'[t] = Poll
           /\ call' \in [Tasks -> {"idle", "waiting", "talking"}] /\ what' \in [Tasks -> Writes \cup {Poll}]
           /\ woke' \subseteq Tasks /\ frame' \in Nat \ {0} /\ reply' \in Status \cup {None}
           /\ OneTalks' /\ DeviceTyped' /\ MainFollows' /\ Landed'
           /\ UNCHANGED <<flags, main, posted, replied>>
           /\ EndsOn' = EndsOn /\ ~TurningOff'
           /\ \A z \in Zones : EndsAt(z)' = EndsAt(z) /\ Later(z)' = Later(z)
<1>1. /\ \A u \in Tasks : u # t => call'[u] = call[u] /\ what'[u] = what[u] /\ (u \in woke' <=> u \in woke)
      /\ call'[t] = "idle" /\ what'[t] = Poll /\ reply' = None /\ frame' = 1
      /\ call' \in [Tasks -> {"idle", "waiting", "talking"}] /\ what' \in [Tasks -> Writes \cup {Poll}]
      /\ woke' \subseteq Tasks
  BY DEF Ends, Base, Typed
<1>2. \A u \in Tasks : u # t => ~Talking(u)
  BY DEF Base, OneTalks
<1>3. \A u \in Tasks : ~Talking(u)' /\ ~Writing(u)'
  BY <1>1, <1>2 DEF Talking, Writing
<1>4. \A u \in Tasks : call'[u] = "idle" => what'[u] = Poll
  BY <1>1 DEF Base, OneTalks, IsPoll
<1>5. OneTalks'
  BY <1>1, <1>3, <1>4 DEF OneTalks, IsPoll
<1>6. UNCHANGED <<flags, main, posted, replied>>
  BY DEF Ends, device
<1>7. DeviceTyped' /\ MainFollows'
  BY <1>6 DEF Base, Typed, DeviceTyped, MainFollows, Lit
<1>8. Landed' /\ ~TurningOff'
  BY <1>3 DEF Landed, TurningOff
<1> QED BY <1>1, <1>3, <1>4, <1>5, <1>6, <1>7, <1>8, DeviceSame

LEMMA WriteAckedKeeps ==
    ASSUME Base, misled \/ Rest, NEW t \in Tasks, WriteAcked(t)
    PROVE  IInv'
<1> DEFINE w    == what[t]
           wake == t \in woke \/ Wakes(w)
<1>1. Talking(t) /\ ~IsPoll(t) /\ Writing(t) /\ w \in Writes /\ Acked(w, wake) /\ calm' = 0 /\ misled' = misled /\ Ends(t)
      /\ frame > Len(w.frames) /\ frame \in Nat
  BY DEF WriteAcked, Writing, Base, Typed, IsPoll
<1>2. frame > 1
  BY <1>1, WriteFacts
<1>3. Lights(w) => (wake <=> SeesWake(t))
  BY WakesFacts DEF SeesWake
<1>4. /\ \A u \in Tasks : Writing(u) => u = t
      /\ TurningOff <=> w.on = "off"
      /\ w.zones \subseteq Zones /\ w.on \in Belief /\ (w.zones # {} => w.on \in Power)
      /\ w.zones = {} => w.on = "none"
      /\ DeviceTyped
  BY <1>1, OneWrites, WriteFacts DEF Belief, Base, Typed
<1> DEFINE knownOn == isOn = "on" /\ ~unsure
           doubts  == /\ w.zones \notin {{}, Zones} /\ w.on = "off"
                      /\ ~(knownOn /\ OthersLit(w))
           lights  == wake \/ (w.zones # {} /\ w.on = "on")
<1>5. /\ mutated' = Tasks /\ quiet' = TRUE
      /\ held' = HeldAfter(w) /\ isOn' = OnAfter(w) /\ stamped' = StampedAfter(w, wake)
      /\ HandsOver(w, wake, TRUE)
      /\ unsure' = CASE w.zones = Zones -> FALSE [] doubts -> TRUE [] OTHER -> unsure
      /\ doubted' = IF doubts THEN Tasks ELSE doubted
      /\ DropsReadIf(doubts \/ isOn' # isOn \/ (lights /\ isOn' # "on"))
  BY <1>1 DEF Acked
<1> HIDE DEF wake
<1>6. /\ held' \in [Zones -> Belief]
      /\ Has(w, "scene") => \A z \in Zones : held'[z] = "on"
      /\ ~Has(w, "scene") => \A z \in Zones : held'[z] = IF z \in w.zones THEN w.on ELSE held[z]
  BY <1>4, <1>5 DEF HeldAfter, All, Base, Typed, Belief, Power
<1>7. /\ isOn' \in Belief
      /\ Has(w, "scene") => isOn' = "on"
      /\ w.zones = Zones /\ ~Has(w, "scene") => isOn' = w.on
      /\ w.zones = {} /\ ~Has(w, "scene") => isOn' = isOn
  <2>1. CASE Has(w, "scene")
    <3>1. w.fixture /\ w.zones = {}
      BY <1>1, <2>1, WriteFacts
    <3> QED BY <1>5, <2>1, <3>1, ZoneDeviceAssumption DEF OnAfter, Belief, Power
  <2>2. CASE ~Has(w, "scene") /\ w.fixture
    <3>1. w.zones = Zones
      BY <1>1, <2>2, WriteFacts
    <3>2. OnAfter(w) = w.on
      BY <2>2 DEF OnAfter
    <3> QED BY <1>4, <1>5, <2>2, <3>1, <3>2, ZoneDeviceAssumption
  <2>3. CASE ~Has(w, "scene") /\ ~w.fixture
    <3>1. CASE w.zones = Zones
      <4>1. \A z \in Zones : HeldAfter(w)[z] = w.on
        BY <1>5, <1>6, <2>3, <3>1
      <4>2. w.on \in Power
        BY <1>4, <3>1, ZoneDeviceAssumption
      <4>3. Lit(HeldAfter(w)) = w.on
        BY <4>1, <4>2, ZoneDeviceAssumption DEF Lit, Power
      <4>4. OnAfter(w) = Lit(HeldAfter(w))
        BY <2>3, <3>1, <4>1, <4>2, ZoneDeviceAssumption DEF OnAfter, Power
      <4> QED BY <1>4, <1>5, <2>3, <3>1, <4>3, <4>4, ZoneDeviceAssumption
    <3>2. CASE w.zones # Zones
      BY <1>5, <2>3, <3>2 DEF OnAfter, Belief, Power, Lit, Base, Typed
    <3> QED BY <3>1, <3>2
  <2> QED BY <2>1, <2>2, <2>3
<1>8. /\ stamped' \subseteq Zones /\ (Has(w, "scene") => stamped' = {})
      /\ \A z \in stamped' : (z \in w.zones \/ z \in stamped) /\ (wake => held'[z] = "on")
  BY <1>4, <1>5 DEF StampedAfter, LitOnly, Kept, Base, Typed
<1>9. /\ handed' \in [Zones -> SUBSET Power]
      /\ \A z \in w.zones : w.on \in handed'[z]
      /\ \A z \in Zones \ w.zones : handed[z] \subseteq handed'[z]
      /\ \A z \in Zones : wake /\ Has(w, "brightness") => "on" \in handed'[z]
  <2>1. handed' = [z \in Zones |-> (IF z \notin w.zones THEN handed[z] ELSE {w.on})
                                      \cup (IF wake /\ Has(w, "brightness") THEN {"on"} ELSE {})]
    BY <1>5 DEF HandsOver
  <2> QED BY <1>4, <2>1 DEF Base, Typed, Power
<1>10. /\ readOn' \in Belief /\ dropped' \subseteq Tasks /\ doubted' \subseteq Tasks
       /\ unsure' \in BOOLEAN
  BY <1>5 DEF DropsReadIf, DropsRead, KeepsRead, Base, Typed, Belief
<1>11. Typed'
  <2>1. /\ call' \in [Tasks -> {"idle", "waiting", "talking"}] /\ what' \in [Tasks -> Writes \cup {Poll}]
        /\ woke' \subseteq Tasks /\ frame' \in Nat \ {0} /\ reply' \in Status \cup {None}
        /\ DeviceTyped'
    BY <1>1, EndsFacts
  <2>2. mutated' \subseteq Tasks /\ quiet' \in BOOLEAN /\ calm' \in 0 .. 2 /\ misled' \in BOOLEAN
    BY <1>1, <1>5 DEF Base, Typed
  <2>3. held' \in [Zones -> Belief] /\ isOn' \in Belief /\ stamped' \subseteq Zones
        /\ handed' \in [Zones -> SUBSET Power]
    BY <1>6, <1>7, <1>8, <1>9
  <2> QED BY <1>10, <2>1, <2>2, <2>3 DEF Typed
<1>12. Base'
  <2>1. OneTalks' /\ MainFollows'
    BY <1>1, EndsFacts
  <2>2. ReplyFits' /\ Calm'
    BY <1>1 DEF ReplyFits, Calm, TwoReadsSettle, Ends
  <2> QED BY <1>11, <2>1, <2>2 DEF Base
<1> SUFFICES ASSUME Rest PROVE Rest'
  BY <1>1, <1>12 DEF IInv
<1>13. /\ \A z \in w.zones : EndsAt(z) = w.on
       /\ Has(w, "scene") => EndsOn = "on"
  BY <1>1, <1>2 DEF Rest, Landed
<1>14. HandedHolds'
  <2> SUFFICES ASSUME NEW z \in Zones, \E i \in Later(z) : i > replied
               PROVE  EndsAt(z) \in handed'[z]
    BY <1>1, EndsFacts DEF HandedHolds
  <2>1. \/ EndsAt(z) \in handed[z]
        \/ WriteSets(t, z) \/ (WriteLights(t, z) /\ Has(w, "brightness"))
    BY <1>4 DEF Rest, HandedHolds
  <2> QED BY <1>13, <1>3, <1>9, <2>1 DEF WriteSets, WriteLights
<1>15. \A z \in stamped' : EndsAt(z) = held'[z]
  <2> SUFFICES ASSUME NEW z \in stamped' PROVE EndsAt(z) = held'[z]
    OBVIOUS
  <2>1. ~Has(w, "scene") /\ z \in Zones
    BY <1>8
  <2>2. CASE z \in w.zones
    BY <1>13, <1>6, <2>1, <2>2
  <2>3. CASE z \notin w.zones
    <3>1. z \in stamped /\ held'[z] = held[z]
      BY <1>6, <1>8, <2>1, <2>3
    <3>2. EndsAt(z) = held[z] \/ WriteLights(t, z)
      BY <1>4, <2>1, <2>3, <3>1 DEF Rest, StampHolds, WriteSets
    <3> QED BY <1>3, <1>8, <3>1, <3>2 DEF WriteLights
  <2> QED BY <2>2, <2>3
<1>16. StampHolds'
  BY <1>1, <1>8, <1>15, EndsFacts DEF StampHolds
<1>17. OthersLit(w) /\ w.zones # Zones => EndsOn = "on"
  <2> SUFFICES ASSUME OthersLit(w), NEW z \in Zones, z \notin w.zones PROVE EndsOn = "on"
    BY <1>4
  <2>1. EndsAt(z) = "on"
    BY <1>15 DEF OthersLit
  <2> QED BY <1>4, <2>1, EndsOnFacts
<1>18. (w.zones # {} /\ w.on = "on") => EndsOn = "on"
  BY <1>13, <1>4, EndsOnFacts
<1>19. EndsSure'
  <2> SUFFICES ASSUME isOn' = "on", ~unsure' PROVE EndsOn = "on"
    BY <1>1, EndsFacts DEF EndsSure
  <2>1. CASE Has(w, "scene")
    BY <1>13, <2>1
  <2>2. CASE ~Has(w, "scene") /\ w.zones = Zones
    BY <1>7, <1>18, <2>2, ZoneDeviceAssumption
  <2>3. CASE ~Has(w, "scene") /\ w.zones = {}
    <3>1. isOn = "on" /\ ~unsure
      BY <1>5, <1>7, <2>3, ZoneDeviceAssumption
    <3> QED BY <1>4, <2>3, <3>1 DEF Rest, EndsSure
  <2>4. CASE w.zones # {} /\ w.zones # Zones
    <3>1. ~doubts
      BY <1>5, <2>4
    <3> QED BY <1>4, <1>17, <1>18, <2>4, <3>1 DEF Power
  <2> QED BY <2>1, <2>2, <2>3, <2>4
<1>20. ReadHolds'
  <2> SUFFICES ASSUME readOn' # "none", readOn' = isOn', EndsOn # isOn' PROVE FALSE
    BY <1>1, EndsFacts DEF ReadHolds
  <2>1. ~doubts /\ isOn' = isOn /\ (lights => isOn' = "on") /\ readOn' = readOn
    BY <1>5 DEF DropsReadIf, DropsRead, KeepsRead
  <2>2. \/ isOn = "on" /\ w.on = "off"
        \/ isOn = "off" /\ (w.on = "on" \/ Lights(w))
    BY <1>4, <2>1 DEF Rest, ReadHolds
  <2>3. CASE isOn = "on" /\ w.on = "off"
    <3>1. w.zones # {}
      BY <1>4, <2>3
    <3>2. ~Has(w, "scene")
      BY <1>1, <3>1, WriteFacts
    <3>3. w.zones # Zones
      BY <1>7, <2>1, <2>3, <3>2
    <3> QED BY <1>17, <2>1, <2>3, <3>1, <3>3
  <2>4. CASE isOn = "off" /\ w.on = "on"
    <3>1. w.zones # {}
      BY <1>4, <2>4
    <3> QED BY <2>1, <2>4, <3>1
  <2>5. CASE isOn = "off" /\ Lights(w)
    <3>1. wake
      BY <1>3, <2>5 DEF SeesWake, KnownOn
    <3> QED BY <2>1, <2>5, <3>1
  <2> QED BY <2>2, <2>3, <2>4, <2>5
<1>21. NothingOff' /\ MainSure' /\ ReplyHolds'
  BY <1>1, <1>5 DEF NothingOff, MainSure, ReplyHolds, Ends
<1> QED BY <1>1, <1>14, <1>16, <1>19, <1>20, <1>21, EndsFacts DEF Rest

LEMMA WriteRaisesKeeps ==
    ASSUME Base, misled \/ Rest, NEW t \in Tasks, WriteRaises(t)
    PROVE  IInv'
<1> DEFINE w    == what[t]
           wake == t \in woke \/ Wakes(w)
           doubts == w.zones # {} /\ w.on = "off"
<1>1. /\ ~IsPoll(t) /\ w \in Writes /\ Raised(w, wake) /\ calm' = 0 /\ misled' = misled
      /\ Talking(t) \/ call[t] = "waiting"
  BY DEF WriteRaises, Base, Typed, IsPoll
<1>2. Lights(w) => (wake <=> SeesWake(t))
  BY WakesFacts DEF SeesWake
<1>3. /\ w.zones \subseteq Zones /\ w.on \in Belief /\ (w.zones # {} => w.on \in Power)
      /\ w.zones = {} => w.on = "none"
      /\ w.zones # {} /\ Lights(w) => w.zones = Zones
      /\ DeviceTyped /\ (Has(w, "scene") => w.fixture)
  BY <1>1, WriteFacts DEF Belief, Base, Typed
<1>4. /\ stamped' = IF wake THEN LitOnly(IF w.fixture THEN {} ELSE stamped \ w.zones, held)
                    ELSE IF w.fixture THEN {} ELSE stamped \ w.zones
      /\ HandsOver(w, wake, FALSE)
      /\ unsure' = (unsure \/ doubts)
      /\ doubted' = IF doubts THEN Tasks ELSE doubted
      /\ DropsReadIf(doubts \/ w.fixture \/ w.zones # {} \/ (wake /\ isOn # "on"))
      /\ UNCHANGED <<isOn, held, quiet, mutated>>
  BY <1>1 DEF Raised
<1> HIDE DEF wake
\* Whether it had the connection or waited for it, the write is over.
<1>5. /\ \A u \in Tasks : (Writing(u)' <=> Writing(u) /\ u # t) /\ (Talking(u)' <=> Talking(u) /\ u # t)
      /\ \A u \in Tasks : u # t => call'[u] = call[u] /\ what'[u] = what[u] /\ (u \in woke' <=> u \in woke)
      /\ call'[t] = "idle" /\ what'[t] = Poll
      /\ call' \in [Tasks -> {"idle", "waiting", "talking"}] /\ what' \in [Tasks -> Writes \cup {Poll}]
      /\ woke' \subseteq Tasks /\ frame' \in {frame, 1} /\ reply' \in {reply, None}
      /\ (Talking(t) => reply' = None)
      /\ UNCHANGED <<flags, main, posted, replied>>
  <2>1. /\ \A u \in Tasks : u # t => call'[u] = call[u] /\ what'[u] = what[u] /\ (u \in woke' <=> u \in woke)
        /\ call'[t] = "idle" /\ what'[t] = Poll
        /\ call' \in [Tasks -> {"idle", "waiting", "talking"}] /\ what' \in [Tasks -> Writes \cup {Poll}]
        /\ woke' \subseteq Tasks /\ frame' \in {frame, 1} /\ reply' \in {reply, None}
        /\ (Talking(t) => reply' = None)
        /\ UNCHANGED <<flags, main, posted, replied>>
    BY DEF WriteRaises, Ends, Base, Typed, device
  <2>2. \A u \in Tasks : (Writing(u)' <=> Writing(u) /\ u # t) /\ (Talking(u)' <=> Talking(u) /\ u # t)
    BY <2>1 DEF Writing, Talking, IsPoll
  <2> QED BY <2>1, <2>2
<1>6. /\ \A z \in Zones : EndsAt(z)' = EndsAt(z) /\ Later(z)' = Later(z)
      /\ EndsOn' = EndsOn
  BY <1>5, DeviceSame
<1>7. frame' \in Nat \ {0} /\ reply' \in Status \cup {None}
  BY <1>5 DEF Base, Typed
<1>8. DeviceTyped' /\ MainFollows'
  BY <1>5 DEF Base, Typed, DeviceTyped, MainFollows, Lit
<1>9. /\ handed' \in [Zones -> SUBSET Power]
      /\ \A z \in w.zones : w.on \in handed'[z]
      /\ \A z \in Zones : handed[z] \subseteq handed'[z]
      /\ \A z \in Zones : wake /\ Has(w, "brightness") => "on" \in handed'[z]
  <2>1. handed' = [z \in Zones |-> (IF z \notin w.zones THEN handed[z] ELSE handed[z] \cup {w.on})
                                      \cup (IF wake /\ Has(w, "brightness") THEN {"on"} ELSE {})]
    BY <1>4 DEF HandsOver
  <2> QED BY <1>3, <2>1 DEF Base, Typed, Power
<1>10. stamped' \subseteq stamped /\ \A z \in stamped' : ~w.fixture /\ z \notin w.zones /\ (wake => held[z] = "on")
  BY <1>4 DEF LitOnly
<1>11. Typed'
  <2>1. /\ readOn' \in Belief /\ dropped' \subseteq Tasks /\ doubted' \subseteq Tasks
        /\ unsure' \in BOOLEAN /\ calm' \in 0 .. 2 /\ misled' \in BOOLEAN
    BY <1>1, <1>4 DEF DropsReadIf, DropsRead, KeepsRead, Base, Typed, Belief
  <2>2. UNCHANGED <<isOn, held, quiet, mutated>> /\ stamped' \subseteq Zones
    BY <1>4, <1>10 DEF Base, Typed
  <2> QED BY <1>5, <1>7, <1>8, <1>9, <2>1, <2>2 DEF Base, Typed
<1>12. OneTalks'
  <2>1. \A u \in Tasks : call'[u] = "idle" => what'[u] = Poll
    BY <1>5 DEF Base, OneTalks, IsPoll
  <2>2. reply' # None => \E u \in Tasks : Talking(u)' /\ IsPoll(u)'
    BY <1>1, <1>5 DEF Base, OneTalks, IsPoll
  <2> QED BY <1>5, <2>1, <2>2 DEF Base, OneTalks, IsPoll
<1>13. Base'
  BY <1>1, <1>5, <1>8, <1>11, <1>12 DEF Base, ReplyFits, Calm, TwoReadsSettle, Lit
<1> SUFFICES ASSUME Rest PROVE Rest'
  BY <1>1, <1>13 DEF IInv
<1>14. Landed'
  BY <1>5, LandedSame
\* A write that leaves takes its doubt with it.
<1>15. TurningOff /\ ~unsure' => TurningOff'
  <2> SUFFICES ASSUME NEW u \in Tasks, Writing(u), what[u].on = "off", ~unsure' PROVE Writing(u)' /\ what'[u].on = "off"
    BY DEF TurningOff
  <2>1. u # t
    BY <1>3, <1>4
  <2> QED BY <1>5, <2>1
<1>16. ~unsure' => ~unsure
  BY <1>4 DEF Base, Typed
<1>17. KnownOn' => KnownOn
  BY <1>4, <1>9, <1>16 DEF KnownOn, PostedOn
<1>18. EndsSure' /\ NothingOff' /\ MainSure'
  BY <1>4, <1>5, <1>6, <1>15, <1>16, <1>17 DEF Rest, EndsSure, NothingOff, MainSure, KnownOn
<1>19. \A u \in Tasks : u # t /\ SeesWake(u) => SeesWake(u)'
  BY <1>5, <1>17 DEF SeesWake
<1>20. HandedHolds'
  <2> SUFFICES ASSUME NEW z \in Zones, \E i \in Later(z) : i > replied
               PROVE  \/ EndsAt(z) \in handed'[z]
                      \/ \E u \in Tasks : Writing(u)' /\ (WriteSets(u, z)' \/ (WriteLights(u, z)' /\ Has(what'[u], "brightness")))
    BY <1>5, <1>6 DEF HandedHolds
  <2>1. CASE EndsAt(z) \in handed[z]
    BY <1>9, <2>1
  <2>2. ASSUME NEW u \in Tasks, Writing(u), u # t,
               WriteSets(u, z) \/ (WriteLights(u, z) /\ Has(what[u], "brightness"))
        PROVE  Writing(u)' /\ (WriteSets(u, z)' \/ (WriteLights(u, z)' /\ Has(what'[u], "brightness")))
    BY <1>5, <1>6, <1>19, <2>2 DEF WriteSets, WriteLights
  <2>3. CASE WriteSets(t, z) \/ (WriteLights(t, z) /\ Has(what[t], "brightness"))
    BY <1>2, <1>9, <2>3 DEF WriteSets, WriteLights
  <2> QED BY <2>1, <2>2, <2>3 DEF Rest, HandedHolds
<1>21. StampHolds'
  <2> SUFFICES ASSUME NEW z \in stamped'
               PROVE  \/ EndsAt(z) = held[z]
                      \/ \E u \in Tasks : /\ Writing(u)'
                                          /\ \/ WriteSets(u, z)' \/ WriteLights(u, z)'
                                             \/ Has(what'[u], "scene") /\ EndsAt(z) = "on"
    BY <1>4, <1>6, <1>11 DEF StampHolds, Typed
  <2>1. z \in stamped /\ z \in Zones
    BY <1>10 DEF Base, Typed
  <2>2. ASSUME NEW u \in Tasks, Writing(u), u # t,
               WriteSets(u, z) \/ WriteLights(u, z) \/ (Has(what[u], "scene") /\ EndsAt(z) = "on")
        PROVE  /\ Writing(u)'
               /\ WriteSets(u, z)' \/ WriteLights(u, z)' \/ (Has(what'[u], "scene") /\ EndsAt(z) = "on")
    BY <1>5, <1>6, <1>19, <2>1, <2>2 DEF WriteSets, WriteLights
  <2>3. CASE WriteSets(t, z) \/ WriteLights(t, z) \/ (Has(what[t], "scene") /\ EndsAt(z) = "on")
    <3>1. ~Has(w, "scene") /\ z \notin w.zones
      BY <1>3, <1>10
    <3> QED BY <1>2, <1>10, <2>3, <3>1 DEF WriteSets, WriteLights
  <2> QED BY <2>1, <2>2, <2>3 DEF Rest, StampHolds
<1>22. ReadHolds'
  <2> SUFFICES ASSUME readOn' # "none", readOn' = isOn, EndsOn # isOn
               PROVE  \/ isOn = "on" /\ TurningOff'
                      \/ isOn = "off" /\ \E u \in Tasks : Writing(u)' /\ (what'[u].on = "on" \/ Lights(what'[u]))
    BY <1>4, <1>6 DEF ReadHolds
  <2>1. ~doubts /\ ~w.fixture /\ w.zones = {} /\ (wake => isOn = "on") /\ readOn' = readOn
    BY <1>3, <1>4 DEF DropsReadIf, DropsRead, KeepsRead
  <2>2. \/ isOn = "on" /\ TurningOff
        \/ isOn = "off" /\ \E u \in Tasks : Writing(u) /\ (what[u].on = "on" \/ Lights(what[u]))
    BY <2>1 DEF Rest, ReadHolds
  <2>3. CASE isOn = "on" /\ TurningOff
    <3>1. PICK u \in Tasks : Writing(u) /\ what[u].on = "off"
      BY <2>3 DEF TurningOff
    <3>2. u # t
      BY <1>3, <2>1, <3>1
    <3> QED BY <1>5, <2>3, <3>1, <3>2 DEF TurningOff
  <2>4. CASE isOn = "off" /\ \E u \in Tasks : Writing(u) /\ (what[u].on = "on" \/ Lights(what[u]))
    <3>1. PICK u \in Tasks : Writing(u) /\ (what[u].on = "on" \/ Lights(what[u]))
      BY <2>4
    <3>2. u # t
      BY <1>2, <1>3, <2>1, <2>4, <3>1 DEF SeesWake, KnownOn
    <3> QED BY <1>5, <2>4, <3>1, <3>2
  <2> QED BY <2>2, <2>3, <2>4
<1>23. ReplyHolds'
  <2> SUFFICES ASSUME reply' # None
               PROVE  \A z \in Zones : EndsAt(z) = reply'.power[z] \/ EndsAt(z) \in handed'[z]
    BY <1>5, <1>6 DEF ReplyHolds
  <2>1. reply' = reply
    BY <1>5
  <2> QED BY <1>9, <2>1 DEF Rest, ReplyHolds
<1> QED BY <1>14, <1>18, <1>20, <1>21, <1>22, <1>23 DEF Rest
-----------------------------------------------------------------------------
(* The status reads.                                                       *)

LEMMA AnswersKeeps ==
    ASSUME Base, misled \/ Rest, NEW t \in Tasks, Answers(t)
    PROVE  IInv'
<1>1. /\ Talking(t) /\ IsPoll(t) /\ replied = 0 /\ replied' = Len(posted)
      /\ UNCHANGED <<flags, main, posted>>
      /\ UNCHANGED <<isOn, held, stamped, unsure, readOn, quiet, handed>>
      /\ UNCHANGED <<mutated, doubted, dropped, call, what, woke, frame, calm, misled>>
  BY DEF Answers, Replies, knowledge, races, history
<1>2. PICK carried \in {{}, Zones} : reply' = [op |-> "status", on |-> main, zones |-> carried, power |-> flags]
  BY DEF Answers
<1>3. \A u \in Tasks : ~Writing(u) /\ ~Writing(u)' /\ (Talking(u)' <=> Talking(u))
  BY <1>1, NobodyWrites DEF Writing, Talking, IsPoll
<1>4. /\ \A z \in Zones : EndsAt(z)' = EndsAt(z) /\ Later(z)' = Later(z)
      /\ EndsOn' = EndsOn
  BY <1>1, DeviceSame
<1>5. ~TurningOff /\ ~TurningOff'
  BY <1>3 DEF TurningOff
<1>6. DeviceTyped /\ DeviceTyped' /\ Len(posted) \in Nat
  BY <1>1 DEF Base, Typed, DeviceTyped
<1>7. Typed'
  <2>1. reply' \in Status
    BY <1>2, <1>6 DEF Status, DeviceTyped
  <2> QED BY <1>1, <1>6, <2>1 DEF Base, Typed
<1>8. OneTalks'
  BY <1>1, <1>3 DEF Base, OneTalks, IsPoll, Talking
<1>9. reply'.on = main /\ reply'.power = flags /\ main = Lit(flags)
  BY <1>2 DEF Base, MainFollows
<1>10. MainFollows' /\ ReplyFits'
  <2>1. Lit(reply'.power) = main
    BY <1>9
  <2> QED BY <1>1, <1>9, <2>1 DEF MainFollows, ReplyFits, Lit
<1>11. Calm'
  <2>1. replied = Len(posted) => posted = <<>>
    BY <1>1, <1>6, EmptySeq DEF DeviceTyped
  <2> QED BY <1>1, <1>9, <2>1 DEF Base, Calm, TwoReadsSettle, All
<1> SUFFICES ASSUME Rest PROVE Rest'
  BY <1>1, <1>6, <1>7, <1>8, <1>10, <1>11 DEF IInv, Base
<1>12. Landed' /\ EndsSure' /\ NothingOff' /\ MainSure'
  BY <1>1, <1>3, <1>4, <1>5 DEF Rest, Landed, EndsSure, NothingOff, MainSure, KnownOn, PostedOn
<1>13. HandedHolds'
  <2> SUFFICES ASSUME NEW z \in Zones, NEW i \in Later(z), i > Len(posted) PROVE FALSE
    BY <1>1, <1>4 DEF HandedHolds
  <2>1. i \in 1 .. Len(posted)
    BY <1>6, EndsAtFacts
  <2> QED BY <1>6, <2>1
<1>14. StampHolds'
  <2>1. stamped \subseteq Zones
    BY DEF Base, Typed
  <2> QED BY <1>1, <1>3, <1>4, <2>1 DEF Rest, StampHolds
<1>15. ReplyHolds'
  <2> SUFFICES ASSUME NEW z \in Zones, EndsAt(z) # flags[z] PROVE EndsAt(z) \in handed[z]
    BY <1>1, <1>4, <1>9 DEF ReplyHolds
  <2>1. Later(z) # {} /\ Later(z) \subseteq 1 .. Len(posted)
    BY <1>6, EndsAtFacts
  <2>2. \E i \in Later(z) : i > replied
    BY <1>1, <1>6, <2>1
  <2> QED BY <1>3, <2>2 DEF Rest, HandedHolds
<1>16. ReadHolds'
  BY <1>1, <1>3, <1>4, <1>5 DEF Rest, ReadHolds
<1> QED BY <1>12, <1>13, <1>14, <1>15, <1>16 DEF Rest

LEMMA PollAppliedKeeps ==
    ASSUME Base, misled \/ Rest, NEW t \in Tasks, PollApplied(t)
    PROVE  IInv'
<1> DEFINE early == \E z \in Zones : handed[z] # {} /\ (z \notin reply.zones \/ z \in Unsettled)
<1>1. /\ Talking(t) /\ IsPoll(t) /\ reply # None /\ Ends(t)
      /\ isOn' = reply.on /\ quiet' = TRUE
      /\ held' = IF reply.zones = {} THEN held ELSE reply.power
      /\ stamped' = (stamped \ reply.zones) \cup Vouched
      /\ handed' = [z \in Zones |-> IF z \in reply.zones THEN {} ELSE handed[z]]
      /\ early => unsure' = TRUE /\ doubted' = Tasks /\ readOn' = "none" /\ dropped' = Tasks
      /\ ~early => /\ unsure' = (unsure /\ t \in doubted)
                   /\ readOn' = IF t \in dropped THEN readOn ELSE reply.on
                   /\ UNCHANGED <<doubted, dropped>>
      /\ calm' = IF reply.zones = {} \/ t \in doubted \cup dropped THEN calm
                 ELSE IF calm = 2 THEN 2 ELSE calm + 1
      /\ misled' = (misled /\ calm' # 2) /\ UNCHANGED mutated
  BY DEF PollApplied, HandedAfterReply, DropsRead
<1> HIDE DEF early
<1>2. /\ \A u \in Tasks : ~Talking(u)' /\ ~Writing(u)'
      /\ call' \in [Tasks -> {"idle", "waiting", "talking"}] /\ what' \in [Tasks -> Writes \cup {Poll}]
      /\ woke' \subseteq Tasks /\ frame' \in Nat \ {0} /\ reply' \in Status \cup {None}
      /\ OneTalks' /\ DeviceTyped' /\ MainFollows' /\ Landed'
      /\ UNCHANGED <<flags, main, posted, replied>>
      /\ EndsOn' = EndsOn /\ ~TurningOff'
      /\ \A z \in Zones : EndsAt(z)' = EndsAt(z) /\ Later(z)' = Later(z)
  BY <1>1, EndsFacts
<1>3. \A u \in Tasks : ~Writing(u)
  BY <1>1, NobodyWrites
<1>4. replied = Len(posted) /\ reply.on = Lit(reply.power)
  BY <1>1 DEF Base, ReplyFits
<1>5. /\ reply.on \in Power /\ reply.zones \in {{}, Zones} /\ reply.power \in [Zones -> Power]
      /\ DeviceTyped /\ handed \in [Zones -> SUBSET Power] /\ stamped \subseteq Zones /\ held \in [Zones -> Belief]
  BY <1>1 DEF Base, Typed, Status
<1>6. (\A z \in Zones : handed[z] = {}) => ~early /\ (reply.zones = Zones => Vouched = Zones)
  <2> SUFFICES ASSUME \A z \in Zones : handed[z] = {} PROVE ~early /\ (reply.zones = Zones => Vouched = Zones)
    OBVIOUS
  <2>1. ~early
    BY DEF early
  <2>2. \A z \in Zones : reply.on = "on" \/ reply.power[z] = "off"
    BY <1>4, <1>5, LitFacts DEF Power
  <2>3. Unsettled = {}
    BY <1>5 DEF Unsettled
  <2> QED BY <2>1, <2>2, <2>3 DEF Vouched
<1>7. Typed'
  <2>1. held' \in [Zones -> Belief] /\ isOn' \in Belief /\ readOn' \in Belief
    <3>1. reply.power \in [Zones -> Belief] /\ reply.on \in Belief /\ readOn \in Belief
      BY <1>5 DEF Belief, Base, Typed
    <3>2. held' \in [Zones -> Belief] /\ isOn' \in Belief
      BY <1>1, <1>5, <3>1
    <3>3. readOn' \in Belief
      BY <1>1, <3>1 DEF Belief
    <3> QED BY <3>2, <3>3
  <2>2. stamped' \subseteq Zones /\ handed' \in [Zones -> SUBSET Power]
    BY <1>1, <1>5 DEF Vouched
  <2>3. doubted' \subseteq Tasks /\ dropped' \subseteq Tasks /\ unsure' \in BOOLEAN /\ quiet' \in BOOLEAN
    BY <1>1 DEF Base, Typed
  <2>4. calm' \in 0 .. 2 /\ misled' \in BOOLEAN /\ mutated' \subseteq Tasks
    BY <1>1 DEF Base, Typed
  <2> QED BY <1>2, <2>1, <2>2, <2>3, <2>4 DEF Typed
<1>8. Calm'
  <2>1. \A z \in Zones : handed'[z] \subseteq handed[z] /\ (reply.zones = Zones => handed'[z] = {})
    BY <1>1, <1>5
  <2>2. handed = All({}) <=> \A z \in Zones : handed[z] = {}
    BY <1>5 DEF All
  <2>3. (\A z \in Zones : handed'[z] = {}) => handed' = All({})
    BY <1>1 DEF All
  <2>4. calm \in 0 .. 2
    BY DEF Base, Typed
  <2>5. calm >= 1 => handed = All({}) /\ reply.power = flags /\ reply.on = main /\ posted = <<>>
    BY <1>1 DEF Base, Calm
  <2>6. calm' >= 1 => handed' = All({}) /\ reply' = None
    <3>1. CASE reply.zones = {} \/ t \in doubted \cup dropped
      BY <1>1, <2>1, <2>2, <2>3, <2>5, <3>1 DEF Ends
    <3>2. CASE reply.zones = Zones
      BY <1>1, <2>1, <2>3, <3>2 DEF Ends
    <3> QED BY <1>5, <3>1, <3>2
  <2>7. ASSUME calm' = 2, reply.zones = {} \/ t \in doubted \cup dropped
        PROVE  held' = flags /\ isOn' = main /\ ~unsure' /\ readOn' = isOn' /\ stamped' = Zones
    <3>1. /\ calm = 2 /\ handed = All({}) /\ reply.power = flags /\ reply.on = main
          /\ held = flags /\ isOn = main /\ ~unsure /\ readOn = isOn /\ stamped = Zones
      BY <1>1, <2>5, <2>7 DEF Base, Calm, TwoReadsSettle
    <3>2. ~early /\ (reply.zones = Zones => Vouched = Zones)
      BY <1>6, <2>2, <3>1
    <3>3. stamped' = Zones
      BY <1>1, <1>5, <3>1, <3>2 DEF Vouched
    <3> QED BY <1>1, <3>1, <3>2, <3>3
  <2>8. ASSUME calm' = 2, reply.zones # {}, t \notin doubted \cup dropped
        PROVE  held' = flags /\ isOn' = main /\ ~unsure' /\ readOn' = isOn' /\ stamped' = Zones
    <3>1. /\ handed = All({}) /\ reply.power = flags /\ reply.on = main
      BY <1>1, <2>4, <2>5, <2>8
    <3>2. ~early /\ reply.zones = Zones /\ Vouched = Zones
      BY <1>5, <1>6, <2>2, <2>8, <3>1
    <3>3. stamped' = Zones
      BY <1>1, <1>5, <3>2
    <3> QED BY <1>1, <2>8, <3>1, <3>2, <3>3
  <2>9. calm' = 2 => posted' = <<>>
    BY <1>1, <1>2, <2>4, <2>5
  <2> QED BY <1>2, <1>4, <2>6, <2>7, <2>8, <2>9 DEF Calm, TwoReadsSettle, All
<1>9. Base'
  BY <1>1, <1>2, <1>7, <1>8 DEF Base, ReplyFits, Ends
<1>10. CASE Rest
  <2> SUFFICES ASSUME Rest PROVE Rest'
    BY <1>9, <1>10 DEF IInv
  <2>1. \A z \in Zones : EndsAt(z) = reply.power[z] \/ EndsAt(z) \in handed[z]
    BY <1>1 DEF Rest, ReplyHolds
  <2>2. \A z \in Zones : handed[z] \in {{}, {reply.power[z]}} => EndsAt(z) = reply.power[z]
    BY <2>1
  <2>3. \A z \in Vouched : z \in Zones /\ z \in reply.zones /\ EndsAt(z) = reply.power[z]
    BY <1>5, <2>2 DEF Vouched, Unsettled
  <2>4. ~early => EndsOn = reply.on
    <3> SUFFICES ASSUME ~early PROVE EndsOn = reply.on
      OBVIOUS
    <3>1. \A z \in Zones : EndsAt(z) = reply.power[z]
      BY <1>5, <2>2 DEF early, Unsettled
    <3> QED BY <1>4, <1>5, <3>1 DEF EndsOn, Lit
  <2>5. EndsSure'
    BY <1>1, <1>2, <2>4 DEF EndsSure
  <2>6. ReadHolds'
    BY <1>1, <1>2, <2>4 DEF ReadHolds
  <2>7. NothingOff' /\ MainSure' /\ ReplyHolds'
    BY <1>1 DEF NothingOff, MainSure, ReplyHolds, Ends
  <2>8. HandedHolds'
    <3> SUFFICES ASSUME NEW z \in Zones, NEW i \in Later(z), i > Len(posted) PROVE FALSE
      BY <1>2, <1>4 DEF HandedHolds
    <3>1. i \in 1 .. Len(posted) /\ Len(posted) \in Nat
      BY <1>5, EndsAtFacts
    <3> QED BY <3>1
  <2>9. StampHolds'
    <3> SUFFICES ASSUME NEW z \in stamped' PROVE EndsAt(z) = held'[z]
      BY <1>2, <1>7 DEF StampHolds, Typed
    <3>1. CASE z \in Vouched
      BY <1>1, <2>3, <3>1
    <3>2. CASE z \in stamped \ reply.zones
      <4>1. EndsAt(z) = held[z]
        BY <1>3, <3>2 DEF Rest, StampHolds
      <4> QED BY <1>1, <1>5, <3>2, <4>1
    <3> QED BY <1>1, <3>1, <3>2
  <2> QED BY <1>2, <2>5, <2>6, <2>7, <2>8, <2>9 DEF Rest
\* Two reads have settled the power: what had gone unnoticed is known.
<1>11. CASE calm' = 2
  <2> SUFFICES Rest'
    BY <1>9 DEF IInv
  <2>1. /\ posted' = <<>> /\ Len(posted') = 0 /\ reply' = None /\ quiet' = TRUE
        /\ held' = flags' /\ isOn' = main' /\ main' = Lit(flags')
    BY <1>1, <1>2, <1>8, <1>11, EmptySeq DEF Calm, TwoReadsSettle, MainFollows, Ends
  <2>2. \A z \in Zones : Later(z)' = {} /\ EndsAt(z)' = flags'[z]
    BY <2>1 DEF Later, EndsAt
  <2>3. EndsOn' = isOn'
    BY <2>1, <2>2 DEF EndsOn, Lit
  <2>4. stamped' \subseteq Zones
    BY <1>7 DEF Typed
  <2>5. EndsSure' /\ NothingOff' /\ MainSure' /\ ReadHolds' /\ ReplyHolds'
    BY <2>1, <2>3 DEF EndsSure, NothingOff, MainSure, ReadHolds, ReplyHolds
  <2>6. HandedHolds' /\ StampHolds'
    BY <2>1, <2>2, <2>4 DEF HandedHolds, StampHolds
  <2> QED BY <1>2, <2>5, <2>6 DEF Rest
<1>12. CASE misled /\ calm' # 2
  BY <1>1, <1>9, <1>12 DEF IInv
<1> QED BY <1>10, <1>11, <1>12
-----------------------------------------------------------------------------
(* Beside the calls.                                                       *)

LEMMA AdvertKeeps ==
    ASSUME Base, misled \/ Rest, NEW on \in Power, Advert(on)
    PROVE  IInv'
<1>1. /\ on = main /\ on # isOn /\ ~quiet /\ isOn' = on
      /\ stamped' = Kept(held') /\ readOn' = "none" /\ dropped' = Tasks /\ calm' = 0
      /\ misled' = (misled \/ (on = "on" /\ \E t \in Tasks : Unnoticed(t)))
      /\ UNCHANGED <<flags, main, posted, replied>>
      /\ UNCHANGED <<unsure, quiet, handed, mutated, doubted>>
      /\ UNCHANGED <<call, what, woke, frame, reply>>
  BY DEF Advert, DropsRead, device, calls
<1>2. held' \in [Zones -> Belief]
  BY DEF Advert, All, Base, Typed, Belief, Power
<1>3. /\ \A z \in Zones : EndsAt(z)' = EndsAt(z) /\ Later(z)' = Later(z)
      /\ EndsOn' = EndsOn
  BY <1>1, DeviceSame
<1>4. \A u \in Tasks : (Writing(u)' <=> Writing(u)) /\ (Talking(u)' <=> Talking(u))
  BY <1>1 DEF Writing, Talking, IsPoll
<1>5. TurningOff' <=> TurningOff
  BY <1>1, <1>4 DEF TurningOff
<1>6. DeviceTyped /\ DeviceTyped' /\ MainFollows /\ MainFollows'
  BY <1>1 DEF Base, Typed, DeviceTyped, MainFollows, Lit
<1>7. Typed'
  <2>1. misled' \in BOOLEAN /\ isOn' \in Belief /\ stamped' \subseteq Zones
    BY <1>1 DEF Base, Typed, Belief, Kept
  <2> QED BY <1>1, <1>2, <1>6, <2>1 DEF Base, Typed, Belief
<1>8. OneTalks'
  BY <1>1, <1>4 DEF Base, OneTalks, IsPoll
<1>9. ReplyFits' /\ Calm'
  BY <1>1 DEF Base, ReplyFits, Lit, Calm, TwoReadsSettle
<1> SUFFICES ASSUME Rest, on = "on" => \A t \in Tasks : ~Unnoticed(t) PROVE Rest'
  BY <1>1, <1>6, <1>7, <1>8, <1>9 DEF IInv, Base
<1>10. Landed'
  BY <1>1, <1>4, LandedSame
<1>11. EndsSure'
  <2> SUFFICES ASSUME main = "on", ~unsure, ~TurningOff PROVE EndsOn = "on"
    BY <1>1, <1>3, <1>5 DEF EndsSure
  <2>1. \A i \in 1 .. Len(posted) : posted[i].on = "on"
    BY <1>1 DEF Rest, NothingOff
  <2>2. PICK z \in Zones : flags[z] = "on"
    BY <1>6, LitFacts DEF MainFollows, DeviceTyped
  <2>3. EndsAt(z) = "on"
    BY <1>6, <2>1, <2>2, EndsAtFacts DEF Later
  <2> QED BY <1>6, <2>3, EndsOnFacts
<1>12. NothingOff' /\ MainSure'
  BY <1>1, <1>5 DEF Rest, NothingOff, MainSure, KnownOn
\* The write that has the connection keeps seeing the wake, or it sets the zone itself.
<1>13. ASSUME NEW u \in Tasks, NEW z \in Zones, Writing(u), WriteLights(u, z)
       PROVE  WriteLights(u, z)' \/ WriteSets(u, z)'
  <2>1. EndsAt(z) = "on" /\ Lights(what[u]) /\ (u \in woke \/ ~KnownOn) /\ what[u] \in Writes
        /\ (TurningOff <=> what[u].on = "off")
    BY <1>13, OneWrites DEF WriteLights, SeesWake
  <2>2. CASE u \in woke
    BY <1>1, <1>3, <2>1, <2>2 DEF WriteLights, SeesWake
  <2>3. CASE what[u].zones # {}
    <3>1. what[u].zones = Zones /\ what[u].on = "on"
      BY <2>1, <2>3, WriteFacts
    <3> QED BY <1>1, <1>3, <2>1, <3>1 DEF WriteSets
  <2>4. CASE u \notin woke /\ what[u].zones = {}
    <3>1. Unnoticed(u)
      BY <1>13, <2>1, <2>4 DEF Unnoticed, Lights, Writing
    <3>2. isOn' = "off"
      BY <1>1, <3>1 DEF Power
    <3> QED BY <1>1, <1>3, <2>1, <3>2 DEF WriteLights, SeesWake, KnownOn
  <2> QED BY <2>2, <2>3, <2>4
<1>14. \A u \in Tasks, z \in Zones : WriteSets(u, z) => WriteSets(u, z)'
  BY <1>1, <1>3 DEF WriteSets
<1>15. HandedHolds'
  <2> SUFFICES ASSUME NEW z \in Zones, \E i \in Later(z) : i > replied
               PROVE  \/ EndsAt(z) \in handed[z]
                      \/ \E u \in Tasks : Writing(u)' /\ (WriteSets(u, z)' \/ (WriteLights(u, z)' /\ Has(what[u], "brightness")))
    BY <1>1, <1>3 DEF HandedHolds
  <2>1. \/ EndsAt(z) \in handed[z]
        \/ \E u \in Tasks : Writing(u) /\ (WriteSets(u, z) \/ (WriteLights(u, z) /\ Has(what[u], "brightness")))
    BY DEF Rest, HandedHolds
  <2> QED BY <1>4, <1>13, <1>14, <2>1
<1>16. StampHolds'
  <2> SUFFICES ASSUME NEW z \in stamped'
               PROVE  \/ EndsAt(z) = held'[z]
                      \/ \E u \in Tasks : /\ Writing(u)'
                                          /\ \/ WriteSets(u, z)' \/ WriteLights(u, z)'
                                             \/ Has(what[u], "scene") /\ EndsAt(z) = "on"
    BY <1>1, <1>3, <1>7 DEF StampHolds, Typed
  <2>1. z \in stamped /\ held'[z] = held[z] /\ z \in Zones
    BY <1>1 DEF Kept, Base, Typed
  <2>2. \/ EndsAt(z) = held[z]
        \/ \E u \in Tasks : /\ Writing(u)
                            /\ \/ WriteSets(u, z) \/ WriteLights(u, z)
                               \/ Has(what[u], "scene") /\ EndsAt(z) = "on"
    BY <2>1 DEF Rest, StampHolds
  <2> QED BY <1>4, <1>13, <1>14, <2>1, <2>2
<1>17. ReplyHolds'
  BY <1>1, <1>3 DEF Rest, ReplyHolds
<1>18. ReadHolds'
  BY <1>1 DEF ReadHolds
<1> QED BY <1>10, <1>11, <1>12, <1>15, <1>16, <1>17, <1>18 DEF Rest

LEMMA WindowEndsKeeps ==
    ASSUME Base, misled \/ Rest, WindowEnds
    PROVE  IInv'
<1>1. /\ posted = <<>> /\ quiet' = FALSE
      /\ UNCHANGED <<flags, main, posted, replied>>
      /\ UNCHANGED <<isOn, held, stamped, unsure, readOn, handed>>
      /\ UNCHANGED <<mutated, doubted, dropped, call, what, woke, frame, reply, calm, misled>>
  BY DEF WindowEnds, device, races, calls, history
<1>2. /\ \A z \in Zones : EndsAt(z)' = EndsAt(z) /\ Later(z)' = Later(z)
      /\ EndsOn' = EndsOn
  BY <1>1, DeviceSame
<1>3. \A u \in Tasks : /\ (Writing(u)' <=> Writing(u)) /\ (Talking(u)' <=> Talking(u)) /\ (SeesWake(u)' <=> SeesWake(u))
                       /\ \A z \in Zones : (WriteSets(u, z)' <=> WriteSets(u, z)) /\ (WriteLights(u, z)' <=> WriteLights(u, z))
  BY <1>1, <1>2 DEF Writing, Talking, IsPoll, SeesWake, KnownOn, PostedOn, WriteSets, WriteLights
<1>4. TurningOff' <=> TurningOff
  BY <1>1, <1>3 DEF TurningOff
<1>5. DeviceTyped /\ DeviceTyped' /\ MainFollows /\ MainFollows' /\ Len(posted) = 0
  BY <1>1, EmptySeq DEF Base, Typed, DeviceTyped, MainFollows, Lit
<1>6. Typed' /\ OneTalks'
  BY <1>1, <1>3, <1>5 DEF Base, Typed, OneTalks, IsPoll
<1>7. ReplyFits' /\ Calm'
  BY <1>1 DEF Base, ReplyFits, Lit, Calm, TwoReadsSettle, All
<1> SUFFICES ASSUME Rest PROVE Rest'
  BY <1>1, <1>5, <1>6, <1>7 DEF IInv, Base
<1>8. Landed'
  BY <1>1, <1>3, LandedSame
<1>9. EndsSure' /\ NothingOff'
  BY <1>1, <1>2, <1>4, <1>5 DEF Rest, EndsSure, NothingOff
<1>10. MainSure'
  <2> SUFFICES ASSUME KnownOn, ~TurningOff PROVE main = "on"
    BY <1>1, <1>4 DEF MainSure, KnownOn, PostedOn
  <2>1. EndsOn = "on"
    BY DEF Rest, EndsSure, KnownOn
  <2>2. PICK z \in Zones : EndsAt(z) = "on"
    BY <1>5, <2>1, EndsOnFacts
  <2>3. flags[z] = "on"
    BY <1>5, <2>2, EndsAtFacts DEF Later
  <2> QED BY <1>5, <2>3, LitFacts DEF MainFollows, DeviceTyped
<1>11. HandedHolds' /\ ReplyHolds'
  BY <1>1, <1>2, <1>3 DEF Rest, HandedHolds, ReplyHolds
<1>12. ReadHolds'
  BY <1>1, <1>2, <1>3, <1>4 DEF Rest, ReadHolds
<1>13. StampHolds'
  <2>1. stamped \subseteq Zones
    BY DEF Base, Typed
  <2> QED BY <1>1, <1>2, <1>3, <2>1 DEF Rest, StampHolds
<1> QED BY <1>8, <1>9, <1>10, <1>11, <1>12, <1>13 DEF Rest

LEMMA ThreadAppliesKeeps ==
    ASSUME Base, misled \/ Rest, ThreadApplies
    PROVE  IInv'
<1>1. /\ AppliesNext /\ calm' = 0 /\ misled' = misled /\ DeviceTyped
      /\ UNCHANGED <<isOn, held, stamped, unsure, readOn, quiet, handed>>
      /\ UNCHANGED <<mutated, doubted, dropped, call, what, woke, frame, reply>>
  BY DEF ThreadApplies, knowledge, races, calls, Base, Typed
<1>2. /\ DeviceTyped' /\ Len(posted') = Len(posted) - 1 /\ Len(posted) \in Nat \ {0}
      /\ \A i \in 1 .. Len(posted') : posted'[i] = posted[i + 1]
      /\ posted[1] \in Messages
      /\ flags' = [z \in Zones |-> IF z \in posted[1].zones THEN posted[1].on ELSE flags[z]]
      /\ \A z \in Zones : EndsAt(z)' = EndsAt(z) /\ \A i \in Later(z)' : i + 1 \in Later(z)
  BY <1>1, EndsAtApplied
<1>3. EndsOn' = EndsOn
  BY <1>2 DEF EndsOn
<1>4. /\ main' = Lit(flags') /\ replied' = IF replied = 0 THEN 0 ELSE replied - 1
      /\ replied \in 0 .. Len(posted)
  BY <1>1 DEF AppliesNext, DeviceTyped
<1>5. \A u \in Tasks : /\ (Writing(u)' <=> Writing(u)) /\ (Talking(u)' <=> Talking(u)) /\ (SeesWake(u)' <=> SeesWake(u))
                       /\ \A z \in Zones : /\ WriteSets(u, z) => WriteSets(u, z)'
                                           /\ WriteLights(u, z) => WriteLights(u, z)'
  BY <1>1, <1>2 DEF Writing, Talking, IsPoll, SeesWake, KnownOn, PostedOn, WriteSets, WriteLights
<1>6. TurningOff' <=> TurningOff
  BY <1>1, <1>5 DEF TurningOff
<1>7. Typed'
  BY <1>1, <1>2 DEF Base, Typed
<1>8. OneTalks' /\ MainFollows'
  BY <1>1, <1>4, <1>5 DEF Base, OneTalks, IsPoll, MainFollows, Lit
<1>9. ReplyFits' /\ Calm'
  BY <1>1, <1>2, <1>4 DEF Base, ReplyFits, Lit, Calm, TwoReadsSettle
<1> SUFFICES ASSUME Rest PROVE Rest'
  BY <1>1, <1>7, <1>8, <1>9 DEF IInv, Base
<1>10. EndsSure'
  BY <1>1, <1>3, <1>6 DEF Rest, EndsSure
<1>11. Landed'
  <2> SUFFICES ASSUME NEW u \in Tasks, Writing(u), frame > 1
               PROVE  /\ \A z \in what[u].zones : EndsAt(z)' = what[u].on
                      /\ Has(what[u], "scene") => EndsOn = "on"
    BY <1>1, <1>3, <1>5 DEF Landed
  <2>1. what[u].zones \subseteq Zones
    BY OneWrites, WriteFacts
  <2> QED BY <1>2, <2>1 DEF Rest, Landed
<1>12. NothingOff'
  <2> SUFFICES ASSUME ~quiet, ~unsure, ~TurningOff, NEW i \in 1 .. Len(posted') PROVE posted'[i].on = "on"
    BY <1>1, <1>6 DEF NothingOff
  <2>1. \A j \in 1 .. Len(posted) : posted[j].on = "on"
    BY DEF Rest, NothingOff
  <2>2. i + 1 \in 1 .. Len(posted)
    BY <1>2
  <2> QED BY <1>2, <2>1, <2>2
<1>13. MainSure'
  <2> SUFFICES ASSUME KnownOn, ~quiet, ~TurningOff PROVE main' = "on"
    BY <1>1, <1>6 DEF MainSure, KnownOn, PostedOn
  <2>1. main = "on" /\ \A j \in 1 .. Len(posted) : posted[j].on = "on"
    BY DEF Rest, MainSure, NothingOff, KnownOn
  <2>2. PICK z \in Zones : flags[z] = "on"
    BY <1>1, <2>1, LitFacts DEF Base, MainFollows, DeviceTyped
  <2>3. posted[1].on = "on"
    BY <1>2, <2>1
  <2>4. flags'[z] = "on"
    BY <1>2, <2>2, <2>3
  <2> QED BY <1>4, <2>4 DEF Lit
<1>14. HandedHolds'
  <2> SUFFICES ASSUME NEW z \in Zones, NEW i \in Later(z)', i > replied'
               PROVE  \/ EndsAt(z)' \in handed[z]
                      \/ \E u \in Tasks : Writing(u)' /\ (WriteSets(u, z)' \/ (WriteLights(u, z)' /\ Has(what[u], "brightness")))
    BY <1>1 DEF HandedHolds
  <2>1. i + 1 \in Later(z)
    BY <1>2
  <2>2. i + 1 \in 1 .. Len(posted)
    BY <1>1, <2>1, EndsAtFacts
  <2>3. i + 1 > replied /\ i \in Int
    BY <1>2, <1>4, <2>2 DEF Later
  <2>4. \/ EndsAt(z) \in handed[z]
        \/ \E u \in Tasks : Writing(u) /\ (WriteSets(u, z) \/ (WriteLights(u, z) /\ Has(what[u], "brightness")))
    BY <2>1, <2>3 DEF Rest, HandedHolds
  <2> QED BY <1>2, <1>5, <2>4
<1>15. StampHolds'
  <2> SUFFICES ASSUME NEW z \in stamped
               PROVE  \/ EndsAt(z)' = held[z]
                      \/ \E u \in Tasks : /\ Writing(u)'
                                          /\ \/ WriteSets(u, z)' \/ WriteLights(u, z)'
                                             \/ Has(what[u], "scene") /\ EndsAt(z)' = "on"
    BY <1>1 DEF StampHolds
  <2>1. z \in Zones
    BY DEF Base, Typed
  <2>2. \/ EndsAt(z) = held[z]
        \/ \E u \in Tasks : /\ Writing(u)
                            /\ \/ WriteSets(u, z) \/ WriteLights(u, z)
                               \/ Has(what[u], "scene") /\ EndsAt(z) = "on"
    BY DEF Rest, StampHolds
  <2> QED BY <1>2, <1>5, <2>1, <2>2
<1>16. ReplyHolds'
  BY <1>1, <1>2 DEF Rest, ReplyHolds
<1>17. ReadHolds'
  BY <1>1, <1>3, <1>5, <1>6 DEF Rest, ReadHolds
<1> QED BY <1>10, <1>11, <1>12, <1>13, <1>14, <1>15, <1>16, <1>17 DEF Rest
-----------------------------------------------------------------------------
(* The theorems.                                                           *)

LEMMA NextKeeps ==
    ASSUME Base, misled \/ Rest, [Next]_vars
    PROVE  IInv'
<1>1. CASE Next
  <2>1. ASSUME NEW t \in Tasks, NEW w \in Writes, CallWrite(t, w) PROVE IInv'
    BY <2>1, CallWriteKeeps
  <2>2. ASSUME NEW t \in Tasks, CallPoll(t) \/ Talk(t) PROVE IInv'
    BY <2>2, CallPollKeeps, TalkKeeps
  <2>3. ASSUME NEW t \in Tasks, Delivered(t) PROVE IInv'
    BY <2>3, ReachesKeeps DEF Delivered, knowledge, races
  <2>4. ASSUME NEW t \in Tasks, DeliveredUnacked(t) PROVE IInv'
    BY <2>4, ReachesKeeps DEF DeliveredUnacked, knowledge, races
  <2>5. ASSUME NEW t \in Tasks, WriteAcked(t) \/ WriteRaises(t) PROVE IInv'
    BY <2>5, WriteAckedKeeps, WriteRaisesKeeps
  <2>6. ASSUME NEW t \in Tasks, Answers(t) \/ AsksAgain(t) PROVE IInv'
    BY <2>6, AnswersKeeps, AsksAgainKeeps
  <2>7. ASSUME NEW t \in Tasks, PollEmpty(t) \/ PollStale(t) \/ PollApplied(t) PROVE IInv'
    BY <2>7, PollEmptyKeeps, PollStaleKeeps, PollAppliedKeeps
  <2>8. ASSUME NEW on \in Power, Advert(on) PROVE IInv'
    BY <2>8, AdvertKeeps
  <2>9. ASSUME WindowEnds \/ ThreadApplies PROVE IInv'
    BY <2>9, WindowEndsKeeps, ThreadAppliesKeeps
  <2> QED BY <1>1, <2>1, <2>2, <2>3, <2>4, <2>5, <2>6, <2>7, <2>8, <2>9 DEF Next
<1>2. CASE UNCHANGED vars
  <2>1. /\ UNCHANGED <<flags, main, posted, replied>>
        /\ UNCHANGED <<isOn, held, stamped, unsure, readOn, quiet, handed>>
        /\ UNCHANGED <<mutated, doubted, dropped, call, what, woke, frame, reply, calm, misled>>
    BY <1>2 DEF vars, device, knowledge, races, calls, history
  <2>2. \A u \in Tasks : (Writing(u)' <=> Writing(u)) /\ (Talking(u)' <=> Talking(u))
    BY <2>1 DEF Writing, Talking, IsPoll
  <2>3. Typed' /\ OneTalks'
    BY <2>1, <2>2 DEF Base, Typed, DeviceTyped, OneTalks, IsPoll
  <2>4. Rest => Landed'
    BY <2>1, <2>2, LandedSame
  <2> QED BY <2>1, <2>2, <2>3, <2>4, CallsMove
<1> QED BY <1>1, <1>2

\* What the library believes of an H60A6's power and what it may still be told stay together: the
\* posted powers, the stamps, the reply on its way, the last read and the doubt, but for a wake
\* that goes unnoticed; and two reads bring them together again then.
THEOREM Bookkept == Spec => []IInv
<1>1. IInv /\ [Next]_vars => IInv'
  BY NextKeeps DEF IInv
<1> QED BY InitIInv, <1>1, PTL DEF Spec

\* A zone in zone_power_confirmed ends at its held power, while no write has the connection and
\* no wake has gone unnoticed.
THEOREM Stamped == Spec => []StampsHold
<1>1. IInv => StampsHold
  BY DEF IInv, Rest, StampHolds, StampsHold, StampsVouch, Free, Writing, Talking
<1> QED BY Bookkept, <1>1, PTL

\* While power_read_at has a value, nothing is being written and no wake has gone unnoticed, the
\* device ends at is_on.
THEOREM ReadVouches == Spec => []ReadVouchesForOn
<1>1. IInv => ReadVouchesForOn
  BY DEF IInv, Rest, ReadHolds, TurningOff, ReadVouchesForOn, Free, Writing, Talking
<1> QED BY Bookkept, <1>1, PTL

\* Two status reads with nothing between them bring back all of the power state, whatever had
\* gone unnoticed before.
THEOREM Settled == Spec => []TwoReadsSettle
<1>1. IInv => TwoReadsSettle
  BY DEF IInv, Base, Calm
<1> QED BY Bookkept, <1>1, PTL
=============================================================================
